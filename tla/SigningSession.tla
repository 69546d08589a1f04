--------------------------- MODULE SigningSession ---------------------------
(***************************************************************************)
(* What the application promises about signing, without commands, places,  *)
(* screens or locks: a session is opened, its three phases of validation    *)
(* are gone through with the user's consent, and only then are nonces       *)
(* sealed, each of them to sign at most once.  A session may end anywhere   *)
(* and leaves nothing to the next one.                                      *)
(***************************************************************************)
CONSTANT Nonces

VARIABLES
    open,      \* a transaction is open
    agreed,    \* the phases served, and accepted where they ask
    asking,    \* the phase a question is open about, if any
    sealed,    \* the nonces sealed in this session
    used       \* those that signed

vars == <<open, agreed, asking, sealed, used>>

Phases == {"init", "update", "finalize"}

Init ==
    /\ open = FALSE
    /\ agreed = {} /\ asking = {}
    /\ sealed = {} /\ used = {}

Ready == open /\ asking = {}

Open ==
    /\ ~open
    /\ open' = TRUE
    /\ UNCHANGED <<agreed, asking, sealed, used>>

\* A close, a refusal, an error, a lock or a restart.
End ==
    /\ open' = FALSE
    /\ agreed' = {} /\ asking' = {}
    /\ sealed' = {} /\ used' = {}

\* Validation starts, also again: what was agreed in an earlier round is void.
Begin(ask) ==
    /\ Ready
    /\ agreed' = IF ask THEN {} ELSE {"init"}
    /\ asking' = IF ask THEN {"init"} ELSE {}
    /\ UNCHANGED <<open, sealed, used>>

Destination(ask) ==
    /\ Ready
    /\ "init" \in agreed
    /\ agreed' = IF ask THEN agreed ELSE agreed \cup {"update"}
    /\ asking' = IF ask THEN {"update"} ELSE {}
    /\ UNCHANGED <<open, sealed, used>>

Finish ==
    /\ Ready
    /\ {"init", "update"} \subseteq agreed
    /\ agreed' = Phases
    /\ UNCHANGED <<open, asking, sealed, used>>

Agree ==
    /\ asking # {}
    /\ agreed' = agreed \cup asking
    /\ asking' = {}
    /\ UNCHANGED <<open, sealed, used>>

Seal(n) ==
    /\ Ready
    /\ agreed = Phases
    /\ n \notin sealed
    /\ sealed' = sealed \cup {n}
    /\ UNCHANGED <<open, agreed, asking, used>>

Sign(n) ==
    /\ Ready
    /\ agreed = Phases
    /\ n \in sealed \ used
    /\ used' = used \cup {n}
    /\ UNCHANGED <<open, agreed, asking, sealed>>

Next ==
    \/ Open \/ End \/ Finish \/ Agree
    \/ \E ask \in BOOLEAN : Begin(ask) \/ Destination(ask)
    \/ \E n \in Nonces : Seal(n) \/ Sign(n)

Spec == Init /\ [][Next]_vars
=============================================================================
