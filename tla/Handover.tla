------------------------------ MODULE Handover ------------------------------
(***************************************************************************)
(* What a graceful restart promises to those being served, without a word  *)
(* about WaitGroups, process tables or sockets: a place with one server at *)
(* a time, whose door is closed before the server is told to go, and which *)
(* owes those found inside as the door closes that they are served first.  *)
(* RollingRestart is shown to implement it.                                *)
(***************************************************************************)
CONSTANTS
  Requests,  \* those who come to be served
  Patient,   \* is the last of those inside always waited for?
  Reliable   \* does the server stay until it is told to go?

VARIABLES
  closed,    \* has the door been closed?
  admitted,  \* those let in at the door, and not yet inside
  inside,    \* those being served
  owed,      \* those inside since before the door was closed
  failed,    \* those inside who are going to leave unserved
  server     \* "up", "told" to go, or "gone"

handoverVars == <<closed, admitted, inside, owed, failed, server>>

Init ==
  /\ closed = FALSE
  /\ admitted = {} /\ inside = {} /\ owed = {} /\ failed = {}
  /\ server = "up"

Admit(r) ==
  /\ ~ closed
  /\ r \notin admitted \cup inside
  /\ admitted' = admitted \cup {r}
  /\ UNCHANGED <<closed, inside, owed, failed, server>>

\* The door may have been closed behind one who was let in.
Enter(r) ==
  /\ r \in admitted
  /\ admitted' = admitted \ {r}
  /\ inside' = inside \cup {r}
  /\ UNCHANGED <<closed, owed, failed, server>>

\* Nobody is turned away by a reliable server that is there while the door is
\* open, and nobody ever who is owed.
Fail(r) ==
  /\ r \in inside
  /\ Reliable => r \notin owed /\ (closed \/ server # "up")
  /\ failed' = failed \cup {r}
  /\ UNCHANGED <<closed, admitted, inside, owed, server>>

Leave(r) ==
  /\ r \in inside
  /\ inside' = inside \ {r}
  /\ owed' = owed \ {r}
  /\ failed' = failed \ {r}
  /\ UNCHANGED <<closed, admitted, server>>

Close ==
  /\ ~ closed
  /\ closed' = TRUE
  /\ owed' = inside
  /\ UNCHANGED <<admitted, inside, failed, server>>

GiveUp ==
  /\ ~ Patient /\ closed
  /\ owed' = {}
  /\ UNCHANGED <<closed, admitted, inside, failed, server>>

Tell ==
  /\ closed /\ owed = {}
  /\ server = "up"
  /\ server' = "told"
  /\ UNCHANGED <<closed, admitted, inside, owed, failed>>

Go ==
  /\ server = "told" \/ (server = "up" /\ ~ Reliable)
  /\ server' = "gone"
  /\ UNCHANGED <<closed, admitted, inside, owed, failed>>

\* The next server comes when the last one is gone.
Replace ==
  /\ closed
  /\ server = "gone"
  /\ server' = "up"
  /\ UNCHANGED <<closed, admitted, inside, owed, failed>>

\* The door is opened again only on a place without a server.
Reopen ==
  /\ closed
  /\ server = "gone"
  /\ closed' = FALSE
  /\ UNCHANGED <<admitted, inside, owed, failed, server>>

Next ==
  \/ \E r \in Requests : Admit(r) \/ Enter(r) \/ Fail(r) \/ Leave(r)
  \/ Close \/ GiveUp \/ Tell \/ Go \/ Replace \/ Reopen

Spec == Init /\ [][Next]_handoverVars
=============================================================================
