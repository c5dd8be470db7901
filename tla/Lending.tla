------------------------------ MODULE Lending ------------------------------
(***************************************************************************)
(* What a pool promises to those who use it, without a word about locks,   *)
(* counters, dials or reaping: things lie on a shelf or are on loan to one *)
(* borrower, and once the shop is shut nothing is put on the shelf, nor    *)
(* lent from it, any more.  ConnPool is shown to implement it.             *)
(***************************************************************************)
CONSTANTS
  Callers,  \* the borrowers
  Conns,    \* the things
  None      \* nothing

VARIABLES
  shelf,  \* what is there to be lent
  loan,   \* what each borrower has
  shut    \* has the shop been shut?

lendingVars == <<shelf, loan, shut>>

Init ==
  /\ shelf = {}
  /\ loan = [k \in Callers |-> None]
  /\ shut = FALSE

\* Nobody has the thing, and it is not on the shelf.
Free(c) == c \notin shelf /\ \A k \in Callers : loan[k] # c

Stock(c) ==
  /\ ~ shut /\ Free(c)
  /\ shelf' = shelf \cup {c}
  /\ UNCHANGED <<loan, shut>>

Discard ==
  /\ shelf' \in SUBSET shelf
  /\ UNCHANGED <<loan, shut>>

Lend(k, c) ==
  /\ ~ shut
  /\ loan[k] = None /\ c \in shelf
  /\ shelf' = shelf \ {c}
  /\ loan' = [loan EXCEPT ![k] = c]
  /\ UNCHANGED shut

\* A new thing is lent without having been on the shelf: to one who asked
\* before the shop was shut, perhaps.
LendNew(k, c) ==
  /\ loan[k] = None /\ Free(c)
  /\ loan' = [loan EXCEPT ![k] = c]
  /\ UNCHANGED <<shelf, shut>>

\* What is returned goes back on the shelf, or is thrown away.
Return(k) ==
  /\ loan[k] # None
  /\ \/ ~ shut /\ shelf' = shelf \cup {loan[k]}
     \/ shelf' = shelf
  /\ loan' = [loan EXCEPT ![k] = None]
  /\ UNCHANGED shut

Shut ==
  /\ ~ shut
  /\ shut' = TRUE
  /\ shelf' = {}
  /\ UNCHANGED loan

Next ==
  \/ Discard \/ Shut
  \/ \E k \in Callers : Return(k)
  \/ \E c \in Conns : Stock(c) \/ \E k \in Callers : Lend(k, c) \/ LendNew(k, c)

Spec == Init /\ [][Next]_lendingVars
=============================================================================
