------------------------------- MODULE MCOxenIo -------------------------------
(***************************************************************************)
(* The exchange buffer under the command handlers of the application.  The *)
(* assumptions of OxenIo on its handlers are evaluated for all of them.    *)
(***************************************************************************)
EXTENDS OxenIo

Code == INSTANCE OxenCommands

MCProgram == Code!Handlers
MCPinRequired == Code!NeedsPin
MCTransactionRequired == Code!NeedsTransaction
MCInside == Code!ServedInside
MCOutside == Code!ServedOutside
MCLocking == Code!Locks
=============================================================================
