------------------------------ MODULE EventLog ------------------------------
(***************************************************************************)
(* What a session's event log promises to one client that follows it       *)
(* (agent/manager.go:4, session.proto:29): the client is shown the log,    *)
(* every event once and in order, however often its stream breaks.         *)
(***************************************************************************)
EXTENDS Naturals, Sequences

VARIABLES
  last,    \* sequence number of the newest event of the log; they start at 1
  shown    \* sequence numbers of the events the client was shown, in order

Record == last' = last + 1 /\ UNCHANGED shown

Show ==
  /\ Len(shown) < last
  /\ shown' = Append(shown, Len(shown) + 1)
  /\ UNCHANGED last

Init == last = 0 /\ shown = <<>>

Next == Record \/ Show

\* Everything recorded is shown in the end.
Spec == Init /\ [][Next]_<<last, shown>> /\ WF_<<last, shown>>(Show)
==============================================================================
