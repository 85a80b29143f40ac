--------------------------- MODULE ReplicatedView ---------------------------
(***************************************************************************)
(* What a stream promises its client, without sockets, rings or cursors:   *)
(* the server's log only grows, and the client's view is always the state  *)
(* some prefix of the log produces, of a prefix that never gets shorter.   *)
(***************************************************************************)
EXTENDS StreamLog

VARIABLES log, view

rvars == <<log, view>>

Init ==
  /\ log \in Seq(Entry)
  /\ view = Content(log, 0)

Grow ==
  /\ IsPrefix(log, log')
  /\ UNCHANGED view

Refresh ==
  /\ \E k \in 0 .. Len(log) : view' = Content(log, k)
  /\ \A i \in Items : view'[i] >= view[i]
  /\ UNCHANGED log

Next == Grow \/ Refresh

Spec == Init /\ [][Next]_rvars
=============================================================================
