-------------------------------- MODULE SeedTool --------------------------------
(***************************************************************************)
(* The seed tool, src/tools/python/src/ledger/monero/seedconv.py.  Online   *)
(* it erases the words a device holds and loads a dictionary, message by    *)
(* message; offline it derives the keys of a device from its mnemonic and   *)
(* writes the spend key as words.                                           *)
(*                                                                         *)
(* A run of the tool may end at any message, with the device having got it  *)
(* or not, and the tool may be run again with another language.  The device *)
(* is external: this repository holds no code for the instruction the tool  *)
(* sends.  It keeps what it receives until it is told to erase.             *)
(***************************************************************************)
EXTENDS SeedWords

CONSTANTS
    monero_langs,   \* the records of the dictionaries, in the order of the menu
    SpendKeys,      \* keys that the hashes may result in: 32 bytes, in groups of four
    Checksums       \* values of crc32

ASSUME LanguagesAssumption ==
    /\ DOMAIN monero_langs \subseteq Nat \ {0}
    /\ \A l \in DOMAIN monero_langs :
        /\ monero_langs[l].online \in BOOLEAN
        /\ monero_langs[l].prefix_length \in Nat \ {0}
        /\ monero_langs[l].words \in Seq(1 .. 127)
        /\ monero_langs[l].size = 1626

ASSUME KeysAssumption ==
    /\ \A key \in SpendKeys : key \in Seq(Groups) /\ Len(key) = 8
    /\ Checksums \subseteq Nat

VARIABLES
    stage,    \* "none": no run of the tool
    lang,     \* the index of the language chosen, or 0
    word,     \* the words of the dictionary taken so far
    start, cnt, chunk,  \* get_online_seed; chunk is its length in bytes
    first,    \* history: the first word in chunk
    message,  \* the last message sent
    device,   \* external: the messages received since the last erasure
    printed   \* what an offline run prints

load == <<word, start, cnt, chunk, first>>
vars == <<stage, lang, load, message, device, printed>>

NoMessage == [p2 |-> 0, lc |-> 0]
Nothing == [words |-> <<>>, keys |-> <<>>, account |-> <<>>]
Erased == [parts |-> {}, prefix |-> 0]

Supported == {"English", "Esperanto", "French", "Italian", "Lobjan", "Portuguese"}
Words == monero_langs[lang].words

ASSUME SupportedAssumption ==
    \A l \in DOMAIN monero_langs :
        monero_langs[l].online <=> monero_langs[l].english_language_name \in Supported

Init ==
    /\ stage = "none" /\ lang = 0
    /\ word = 0 /\ start = 0 /\ cnt = 0 /\ chunk = 0 /\ first = 0
    /\ message = NoMessage /\ device = Erased /\ printed = Nothing

-----------------------------------------------------------------------------
\* The run is over, and all that the process held.
Exits ==
    /\ stage' = "none" /\ lang' = 0
    /\ word' = 0 /\ start' = 0 /\ cnt' = 0 /\ chunk' = 0 /\ first' = 0

Start ==
    /\ stage = "none"
    /\ stage' \in {"online language", "offline language"}
    /\ printed' = Nothing /\ message' = NoMessage
    /\ UNCHANGED <<lang, load, device>>

\* Mutant: the answer is not checked to be one of the list.
AnyNumber ==
    /\ stage \in {"online language", "offline language"}
    /\ lang' \in DOMAIN monero_langs \cup {0}
    /\ stage' = IF stage = "online language" THEN "open" ELSE "credentials"
    /\ UNCHANGED <<load, message, device, printed>>

\* retrieve_language lists the online languages only, if asked to, and takes any
\* number that Python can index monero_langs with.
retrieve_language ==
    /\ stage \in {"online language", "offline language"}
    /\ lang' \in DOMAIN monero_langs
    /\ stage' = IF stage = "online language" THEN "open" ELSE "credentials"
    /\ UNCHANGED <<load, message, device, printed>>

-----------------------------------------------------------------------------
(* Offline.                                                                 *)

\* Results of hashes and of derivations are told by what went in. A child is
\* told by its index and by whether it is hardened.
Hardened(i) == <<i, TRUE>>
Normal(i) == <<i, FALSE>>
mnemonic_to_seed(mnemonic) == <<"pbkdf2", mnemonic>>
master_key_to_child_key(master, path) == <<master>> \o path
\* A key is what was hashed, and how often.
monero_seed_to_monero_keys(seed) ==
    [view |-> <<"keccak, reduced", 2, seed>>, spend |-> <<"keccak, reduced", 1, seed>>]

ToolPath == <<Hardened(44), Hardened(10343), Hardened(0), Normal(0), Normal(0)>>
convert_mnemonic(mnemonic) ==
    monero_seed_to_monero_keys(
        master_key_to_child_key(mnemonic_to_seed(mnemonic), ToolPath))

\* The device: monero_init_private_key with KEY_MODE_SEED.
DevicePath == <<Hardened(44), Hardened(240), Hardened(0), Normal(0), Normal(0)>>
monero_init_private_key(mnemonic) ==
    LET seed == master_key_to_child_key(mnemonic_to_seed(mnemonic), DevicePath)
    IN  [view |-> <<"keccak, reduced", 2, seed>>, spend |-> <<"keccak, reduced", 1, seed>>]

\* retrieve_credentials: consent, and a mnemonic of a right length.
retrieve_credentials ==
    /\ stage = "credentials"
    /\ \/ Exits
       \/ stage' = "convert" /\ UNCHANGED <<lang, load>>
    /\ UNCHANGED <<message, device, printed>>

get_offline_seed ==
    /\ stage = "convert"
    /\ \E key \in SpendKeys, crc \in Checksums, mnemonic \in {12, 18, 24} :
        printed' = [account |-> <<mnemonic, key, crc>>,
                    keys |-> convert_mnemonic(mnemonic),
                    words |-> spendkey_to_words(key, monero_langs[lang].size, crc)]
    /\ Exits
    /\ UNCHANGED <<message, device>>

-----------------------------------------------------------------------------
(* Online.                                                                  *)

\* Mutant: the language is taken as it is.
OpenWithoutCheck ==
    /\ stage = "open"
    /\ stage' = "erase"
    /\ UNCHANGED <<lang, load, message, device, printed>>

\* get_online_seed refuses a language before it opens the device.
get_online_seed ==
    /\ stage = "open"
    /\ IF monero_langs[lang].english_language_name \in Supported
       THEN stage' = "erase" /\ UNCHANGED <<lang, load>>
       ELSE Exits
    /\ UNCHANGED <<message, device, printed>>

erase ==
    /\ stage = "erase"
    /\ device' = Erased
    /\ stage' = "load"
    /\ UNCHANGED <<lang, load, message, printed>>

\* Mutant: the byte for the length of the word is forgotten.
FitsWithoutLength == 1 + 8 + chunk + Words[word + 1] <= 254

\* There is room in the message for the next word and its length.
Fits == 1 + 8 + chunk + 1 + Words[word + 1] <= 254

add_word ==
    /\ stage = "load" /\ word < Len(Words)
    /\ Fits
    /\ chunk' = chunk + 1 + Words[word + 1]
    /\ cnt' = cnt + 1 /\ word' = word + 1
    /\ UNCHANGED <<stage, lang, start, first, message, device, printed>>

\* The device with one more message: where it says its words belong, and which
\* words those are.
Received(p2) ==
    [parts |-> device.parts
                \cup {[lang |-> lang, start |-> start, cnt |-> cnt,
                       first |-> first, next |-> word]},
     prefix |-> IF p2 = 0 THEN device.prefix ELSE p2]

send_dict_chunk(p2) ==
    /\ message' = [p2 |-> p2, lc |-> 1 + 8 + chunk]
    /\ device' = Received(p2)

\* Mutant: start is set to the count of the last message.
StartIsLastCount ==
    /\ stage = "load" /\ word < Len(Words)
    /\ ~Fits
    /\ send_dict_chunk(0)
    /\ start' = cnt
    /\ chunk' = 1 + Words[word + 1] /\ cnt' = 1
    /\ first' = word /\ word' = word + 1
    /\ UNCHANGED <<stage, lang, printed>>

\* The loop of get_online_seed when the next word does not fit.
send_full_chunk ==
    /\ stage = "load" /\ word < Len(Words)
    /\ ~Fits
    /\ send_dict_chunk(0)
    /\ start' = start + cnt
    /\ chunk' = 1 + Words[word + 1] /\ cnt' = 1
    /\ first' = word /\ word' = word + 1
    /\ UNCHANGED <<stage, lang, printed>>

\* The last message tells the length of the prefix.
send_last_chunk ==
    /\ stage = "load" /\ word = Len(Words)
    /\ send_dict_chunk(monero_langs[lang].prefix_length)
    /\ Exits
    /\ UNCHANGED printed

\* A run ends: the menu is answered with something else, the device is not
\* there, it is unplugged or refuses, or the user interrupts. The last message
\* may have been received.
Aborts ==
    /\ stage # "none"
    /\ Exits
    /\ device' \in {device}
        \cup (IF stage = "erase" THEN {Erased} ELSE {})
        \cup (IF stage = "load" /\ word < Len(Words) /\ ~Fits THEN {Received(0)} ELSE {})
        \cup (IF stage = "load" /\ word = Len(Words)
              THEN {Received(monero_langs[lang].prefix_length)} ELSE {})
    /\ UNCHANGED <<message, printed>>

Next ==
    \/ Start \/ retrieve_language
    \/ retrieve_credentials \/ get_offline_seed
    \/ get_online_seed \/ erase \/ add_word \/ send_full_chunk \/ send_last_chunk
    \/ Aborts

Spec == Init /\ [][Next]_vars

-----------------------------------------------------------------------------
(* What is checked.                                                         *)

Stages == {"none", "online language", "offline language", "credentials", "convert",
           "open", "erase", "load"}

\* Every variable has a value of its kind, and the upload keeps within the
\* dictionary.
TypeOK ==
    /\ stage \in Stages
    /\ lang \in DOMAIN monero_langs \cup {0}
    /\ lang = 0 => stage \in {"none", "online language", "offline language"}
    /\ word \in Nat /\ start \in Nat /\ cnt \in Nat /\ first \in Nat
    /\ chunk \in Nat
    /\ stage = "load" => word <= Len(Words)
    /\ message \in [p2 : Nat, lc : Nat]
    /\ device.prefix \in Nat

\* Every message of the upload fits the 254 bytes the tool allows itself, and with
\* them the one byte of its length, whatever the words of the language are.
MessagesFit == message.lc <= 254

\* The parts hold every word of a dictionary of n words once.
Tile(parts, n) ==
    /\ \A p, q \in parts : p # q => p.start + p.cnt <= q.start \/ q.start + q.cnt <= p.start
    /\ {p.start : p \in parts} \cup {n} = {0} \cup {p.start + p.cnt : p \in parts}

\* The words a part says it holds are those it holds.
InPlace(p) == p.start = p.first /\ p.start + p.cnt = p.next

\* A device that was told the length of the prefix, the sign that the dictionary
\* is complete, holds every word of one language in its place, however many runs
\* of the tool ended half way, in whatever languages, before.
DeviceShowsOneDictionary ==
    device.prefix # 0 =>
        \E l \in DOMAIN monero_langs :
            /\ monero_langs[l].prefix_length = device.prefix
            /\ \A p \in device.parts : p.lang = l /\ InPlace(p)
            /\ Tile(device.parts, Len(monero_langs[l].words))

\* The words on the device are given up only for those of a language that the
\* tool can load: the check comes before the erasure, although the menu takes
\* the number of any language.
ErasesOnlyToLoad ==
    [][device' # device /\ device'.parts = {} => monero_langs[lang].online]_vars

\* The spend key of test(), and the words the README of the tool prints for it, by
\* their place in the English dictionary.
ExampleKey ==
    << <<59, 9, 76, 167>>, <<33, 143, 23, 94>>, <<145, 250, 36, 2>>, <<180, 174, 35, 154>>,
       <<47, 232, 38, 39>>, <<146, 163, 231, 24>>, <<83, 58, 26, 53>>, <<122, 30, 65, 9>> >>
ExampleWords ==
    <<1361, 734, 169, 173, 301, 898, 997, 359, 372, 324, 520, 1498, 1133, 232, 480, 654,
      716, 874, 1525, 1478, 188, 724, 277, 335>>

\* A wallet that reads the words printed finds the key again, and the checksum
\* word is one of them; the example of the source gives the documented words.
WordsGiveTheKeyBack ==
    printed # Nothing =>
        LET key == printed.account[2]
            w == printed.words
            Three(k) == <<w[3 * k - 2], w[3 * k - 1], w[3 * k]>>
            n == 1626
        IN  /\ Len(w) = 3 * Len(key) + 1
            /\ \A k \in DOMAIN key : ReadBack(Three(k), n) = <<Low(key[k]), High(key[k])>>
            /\ \E k \in 1 .. 3 * Len(key) : w[Len(w)] = w[k]
            /\ key = ExampleKey => SubSeq(w, 1, 24) = ExampleWords

\* "It convert the 24 seed words to 25 Electrum/Monero seed words", and "the
\* solution is to restore your wallet" with them (src/tools/python/README.md): the
\* keys printed are those the application derives from the same mnemonic.
OfflineKeysAreTheDevices ==
    printed # Nothing => printed.keys = monero_init_private_key(printed.account[1])
=============================================================================
