------------------------------- MODULE Import -------------------------------
(***************************************************************************)
(* What an import promises of the database it fills: at every moment, also *)
(* after a crash, its contents are the old ones with some of the source's  *)
(* records installed over them one after the other, each with all its keys *)
(* or not at all, and each at most once.  The order is free: the records   *)
(* go through parallel workers.                                            *)
(***************************************************************************)
EXTENDS Writes, SequencesExt

CONSTANTS
  Prior,    \* the contents before the import, a function of keys
  Records   \* the messages to install, functions of keys, by row number

VARIABLES
  db,    \* the durable contents
  todo   \* the rows not yet installed

vars == <<db, todo>>

Init == db = Prior /\ todo = DOMAIN Records

Install ==
  \E rows \in (SUBSET todo) \ {{}} :
    /\ todo' = todo \ rows
    /\ \E order \in SetToSeqs(rows) :
         db' = Written(db, [n \in DOMAIN order |-> Records[order[n]]])

Spec == Init /\ [][Install]_vars
=============================================================================
