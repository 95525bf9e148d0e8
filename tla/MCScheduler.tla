----------------------------- MODULE MCScheduler -----------------------------
(***************************************************************************)
(* The schedules that people write, for TLC.                               *)
(***************************************************************************)
EXTENDS Scheduler

\* A schedule that repeats, a delay, which is pinned to a time once it has run,
\* and a file with errors.
SomePlans == {[kind |-> "every", when |-> {2, 3}], [kind |-> "in", when |-> {1}],
              [kind |-> "broken", when |-> {}]}
==============================================================================
