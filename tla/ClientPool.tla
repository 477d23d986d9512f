----------------------------- MODULE ClientPool ------------------------------
(***************************************************************************)
(* What the select server of the mx program (demo/ckt-mx/server.c) owes    *)
(* its clients: a pool, in the order of admission.  Admitting a client     *)
(* costs nobody his place.  Bytes are read one at a time and only of       *)
(* clients in the pool.  Only a client that has gone is dismissed, and     *)
(* with him at most one other, the newest.  Nobody comes back.             *)
(***************************************************************************)
EXTENDS Integers

CONSTANT Clients

VARIABLES
  served,    \* the clients in the pool
  before,    \* their order: who was admitted before whom
  lost,      \* the clients that were in the pool
  gone,      \* clients that have closed their end or broken off
  waiting    \* bytes sent and not yet read

vars == <<served, before, lost, gone, waiting>>

Init ==
  /\ served = {} /\ before = {} /\ lost = {} /\ gone = {}
  /\ waiting = [c \in Clients |-> 0]

Admit(c) ==
  /\ c \notin served \cup lost
  /\ served' = served \cup {c}
  /\ before' = before \cup (served \X {c})
  /\ UNCHANGED <<lost, gone, waiting>>

Newest(d) == \A c \in served \ {d} : <<c, d>> \in before

Dismiss(c, d) ==
  /\ c \in served \cap gone
  /\ d = c \/ (d \in served /\ Newest(d))
  /\ served' = served \ {c, d}
  /\ before' = before \cap (served' \X served')
  /\ lost' = lost \cup {c, d}
  /\ UNCHANGED <<gone, waiting>>

Read(c) ==
  /\ c \in served /\ waiting[c] > 0
  /\ waiting' = [waiting EXCEPT ![c] = @ - 1]
  /\ UNCHANGED <<served, before, lost, gone>>

Send(c) ==
  /\ c \notin gone
  /\ waiting' = [waiting EXCEPT ![c] = @ + 1]
  /\ UNCHANGED <<served, before, lost, gone>>

Leave(c) ==
  /\ gone' = gone \cup {c}
  /\ UNCHANGED <<served, before, lost, waiting>>

Next == \E c \in Clients : \/ Admit(c) \/ Read(c) \/ Send(c) \/ Leave(c)
                           \/ \E d \in Clients : Dismiss(c, d)

Spec == Init /\ [][Next]_vars
=============================================================================
