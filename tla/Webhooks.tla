------------------------------ MODULE Webhooks -------------------------------
(***************************************************************************)
(* Deliveries to one webhook and their runs (webhooksvc/webhooksvc.go) with *)
(* the runs' rows (store/webhook.go).  Hooks have queues of their own and  *)
(* share only Service.mu, under which accept and the end of finish run.    *)
(*                                                                         *)
(* A request reads the hook's file before it takes the lock, so its limit  *)
(* may be an old one.  GitHub sends a delivery again at any time.  The     *)
(* process stops or dies and starts again; rows stay.                      *)
(***************************************************************************)
EXTENDS Naturals, Sequences, FiniteSets

CONSTANTS
  Deliveries,   \* X-GitHub-Delivery ids
  Requests,     \* requests that are served at once
  Limits,       \* values of concurrency
  MaxQueued,    \* maxQueued
  MaxRuns,      \* bound: rows
  MaxEdits,     \* bound: changes of concurrency
  MaxFaults,    \* bound: failures of the store and of session starts
  MaxStarts     \* bound: starts of the process

ASSUME WebhooksAssumption ==
  /\ Limits \subseteq Nat \ {0} /\ MaxQueued \in Nat
  /\ {MaxRuns, MaxEdits, MaxFaults, MaxStarts} \subseteq Nat

VARIABLES
  up,         \* whether the process is "up", "stopping" or "down"
  slots,      \* Slots() of the hook's file
  request,    \* requests past the checks of ServeHTTP: the delivery and the limit read
  rows,       \* webhook_runs: the delivery and state of each run; "ok" stands for
              \* needs_attention too
  running,    \* queue.running
  waiting,    \* queue.waiting
  proc,       \* the goroutine behind each run
  unsaved,    \* runs a change of which could not be stored
  seenLimits, \* history: the limits the file had since the process started
  spent       \* how much of each bound is used

vars == <<up, slots, request, rows, running, waiting, proc, unsaved, seenLimits, spent>>

Idle == [delivery |-> 0, slots |-> 0]

Failure(n) ==
  /\ spent.faults + n <= MaxFaults
  /\ spent' = [spent EXCEPT !.faults = @ + n]

------------------------------------------------------------------------------
(* Deliveries *)

\* Variant: only runs that ended well count.
SeenFinished(d) ==
  \E i \in DOMAIN rows : rows[i].delivery = d /\ rows[i].state = "ok"

\* DeliverySeen.
DeliverySeen(d) ==
  \E i \in DOMAIN rows : rows[i].delivery = d /\ rows[i].state \notin {"failed", "skipped"}

\* ServeHTTP reads the hook and sees that deliveries are taken.
Receive(r, d) ==
  /\ up = "up" /\ request[r] = Idle
  /\ request' = [request EXCEPT ![r] = [delivery |-> d, slots |-> slots]]
  /\ UNCHANGED <<up, slots, rows, running, waiting, proc, unsaved, seenLimits, spent>>

Answered(r) == request' = [request EXCEPT ![r] = Idle]

\* accept without a run: the delivery was seen, or the store fails, as it does
\* once the context has ended.
Ignore(r) ==
  /\ up # "down" /\ request[r] # Idle
  /\ \/ (up = "stopping" \/ DeliverySeen(request[r].delivery)) /\ UNCHANGED spent
     \/ up = "up" /\ Failure(1)
  /\ Answered(r)
  /\ UNCHANGED <<up, slots, rows, running, waiting, proc, unsaved, seenLimits>>

\* accept records the run i of request r.
Admit(r) ==
  /\ up = "up" /\ request[r] # Idle /\ ~DeliverySeen(request[r].delivery)
  /\ Len(rows) < MaxRuns
  /\ Answered(r)
  /\ UNCHANGED <<up, slots, seenLimits>>

Row(r, state) == [delivery |-> request[r].delivery, state |-> state]

Full == Len(waiting) >= MaxQueued

\* Variant: a delivery that finds nobody waiting starts.
FreeIfEmpty(limit) == running < limit \/ waiting = <<>>

Free(limit) == running < limit

AcceptSkips(r) ==
  /\ Admit(r) /\ ~Free(request[r].slots) /\ Full
  /\ rows' = Append(rows, Row(r, "skipped"))
  /\ proc' = Append(proc, "gone")
  /\ UNCHANGED <<running, waiting, unsaved, spent>>

AcceptQueues(r) ==
  /\ Admit(r) /\ ~Free(request[r].slots) /\ ~Full
  /\ rows' = Append(rows, Row(r, "queued"))
  /\ proc' = Append(proc, "waiting")
  /\ waiting' = Append(waiting, Len(rows) + 1)
  /\ UNCHANGED <<running, unsaved, spent>>

\* startLocked for a run whose row was queued: its session starts, or does not
\* (cold), and its row says running, unless that cannot be stored (lost).
Faults == {"cold", "lost"}

Started(F) == IF "cold" \in F THEN "failed" ELSE "live"

Stored(F) == IF "lost" \in F THEN "queued" ELSE "running"

Unsaved(F, i) == IF "lost" \in F THEN unsaved \cup {i} ELSE unsaved

AcceptStarts(r) ==
  /\ Admit(r) /\ Free(request[r].slots)
  /\ running' = running + 1
  /\ \E F \in SUBSET Faults :
       /\ Failure(Cardinality(F))
       /\ rows' = Append(rows, Row(r, Stored(F)))
       /\ proc' = Append(proc, Started(F))
       /\ unsaved' = Unsaved(F, Len(rows) + 1)
  /\ UNCHANGED waiting

------------------------------------------------------------------------------
(* The end of a run *)

\* finish: the outcome of the run's turn, or that it could not start, is
\* stored ...
Save(i) ==
  /\ up # "down" /\ i \in DOMAIN proc /\ proc[i] \in {"live", "failed"}
  /\ \E out \in IF proc[i] = "failed" THEN {"failed"} ELSE {"ok", "failed"} :
       \/ rows' = [rows EXCEPT ![i].state = out] /\ UNCHANGED <<unsaved, spent>>
       \/ Failure(1) /\ unsaved' = unsaved \cup {i} /\ UNCHANGED rows
  /\ proc' = [proc EXCEPT ![i] = "saved"]
  /\ UNCHANGED <<up, slots, request, running, waiting, seenLimits>>

\* ... and the next waiting delivery starts, unless the context has ended.
FinishStarts(i) ==
  /\ up = "up" /\ i \in DOMAIN proc /\ proc[i] = "saved" /\ waiting # <<>>
  /\ waiting' = Tail(waiting)
  /\ \E F \in SUBSET Faults :
       /\ Failure(Cardinality(F))
       /\ rows' = [rows EXCEPT ![Head(waiting)].state = Stored(F)]
       /\ proc' = [proc EXCEPT ![i] = "gone", ![Head(waiting)] = Started(F)]
       /\ unsaved' = Unsaved(F, Head(waiting))
  /\ UNCHANGED <<up, slots, request, running, seenLimits>>

\* Variant: a run that ends while others wait for its slot starts none of them.
FinishEndsAlways(i) ==
  /\ up # "down" /\ i \in DOMAIN proc /\ proc[i] = "saved"
  /\ running' = running - 1
  /\ proc' = [proc EXCEPT ![i] = "gone"]
  /\ UNCHANGED <<up, slots, request, rows, waiting, unsaved, seenLimits, spent>>

FinishEnds(i) ==
  /\ up # "down" /\ i \in DOMAIN proc /\ proc[i] = "saved"
  /\ up = "stopping" \/ waiting = <<>>
  /\ running' = running - 1
  /\ proc' = [proc EXCEPT ![i] = "gone"]
  /\ UNCHANGED <<up, slots, request, rows, waiting, unsaved, seenLimits, spent>>

GoroutineStep == \E i \in DOMAIN proc : Save(i) \/ FinishStarts(i) \/ FinishEnds(i)

------------------------------------------------------------------------------
(* The hook's file and the process *)

Edit ==
  /\ spent.edits < MaxEdits
  /\ \E n \in Limits \ {slots} :
       slots' = n /\ seenLimits' = seenLimits \cup {n}
  /\ spent' = [spent EXCEPT !.edits = @ + 1]
  /\ UNCHANGED <<up, request, rows, running, waiting, proc, unsaved>>

\* Variant: runs that waited are not looked at.
FailRunning ==
  [i \in DOMAIN rows |->
     IF rows[i].state = "running" THEN [rows[i] EXCEPT !.state = "failed"] ELSE rows[i]]

\* FailUnfinishedWebhookRuns.
FailUnfinished ==
  [i \in DOMAIN rows |->
     IF rows[i].state \in {"queued", "running"} THEN [rows[i] EXCEPT !.state = "failed"] ELSE rows[i]]

Start ==
  /\ up = "down" /\ spent.starts < MaxStarts
  /\ up' = "up"
  /\ rows' = FailUnfinished
  /\ unsaved' = {}
  /\ seenLimits' = {slots}
  /\ spent' = [spent EXCEPT !.starts = @ + 1]
  /\ UNCHANGED <<slots, request, running, waiting, proc>>

\* The context ends (stopCrons).
Stop ==
  /\ up = "up" /\ up' = "stopping"
  /\ UNCHANGED <<slots, request, rows, running, waiting, proc, unsaved, seenLimits, spent>>

Down ==
  /\ up' = "down"
  /\ request' = [r \in Requests |-> Idle]
  /\ running' = 0 /\ waiting' = <<>>
  /\ proc' = [i \in DOMAIN proc |-> "gone"]
  /\ UNCHANGED <<slots, rows, unsaved, seenLimits, spent>>

\* Wait has returned and the process ends.
Exit == up = "stopping" /\ (\A i \in DOMAIN proc : proc[i] \in {"waiting", "gone"}) /\ Down

Crash == up # "down" /\ Down

Init ==
  /\ up = "down" /\ slots \in Limits
  /\ request = [r \in Requests |-> Idle]
  /\ rows = <<>> /\ proc = <<>> /\ waiting = <<>> /\ running = 0
  /\ unsaved = {} /\ seenLimits = {slots}
  /\ spent = [edits |-> 0, faults |-> 0, starts |-> 0]

Next ==
  \/ \E r \in Requests :
       \/ \E d \in Deliveries : Receive(r, d)
       \/ Ignore(r) \/ AcceptSkips(r) \/ AcceptQueues(r) \/ AcceptStarts(r)
  \/ GoroutineStep
  \/ Edit \/ Start \/ Stop \/ Exit \/ Crash

Spec == Init /\ [][Next]_vars

\* An unattended turn ends, and its goroutine goes on.
FairSpec == Spec /\ WF_vars(GoroutineStep)

------------------------------------------------------------------------------
(* Properties *)

TypeOK ==
  /\ up \in {"up", "stopping", "down"}
  /\ slots \in Limits /\ seenLimits \in SUBSET Limits
  /\ request \in [Requests -> {Idle} \cup [delivery : Deliveries, slots : Limits]]
  /\ rows \in Seq([delivery : Deliveries,
       state : {"queued", "running", "ok", "failed", "skipped"}])
  /\ proc \in Seq({"waiting", "live", "failed", "saved", "gone"}) /\ Len(proc) = Len(rows)
  /\ waiting \in Seq(DOMAIN rows)
  /\ running \in Nat
  /\ unsaved \in SUBSET DOMAIN rows
  /\ spent \in [edits : Nat, faults : Nat, starts : Nat]

\* A delivery has another run only after each earlier one failed or was skipped
\* and is over: GitHub's repeats never run twice at once, wait beside a run of
\* theirs, or follow one that ended well (DeliverySeen), whatever could not be
\* stored.
RepeatsOnlyFailures ==
  \A k \in DOMAIN rows : \A i \in 1 .. k - 1 :
    rows[i].delivery = rows[k].delivery =>
      rows[i].state \in {"failed", "skipped"} /\ proc[i] \in {"saved", "gone"}

\* Goroutines whose runs hold a slot.
Going == {"live", "failed", "saved"}

\* However concurrency was changed, no more runs go at once than it ever
\* allowed since the process started, and while deliveries wait no fewer go than
\* it ever allowed: with a limit that stays, all its slots are in use and nobody
\* overtakes those that wait.
WithinLimits ==
  up = "up" =>
    /\ running = Cardinality({i \in DOMAIN proc : proc[i] \in Going})
    /\ \E n \in seenLimits : running <= n
    /\ waiting # <<>> => \E n \in seenLimits : running >= n

\* Later deliveries wait their turn in order (docs/webhooks.md): while a run waits,
\* none that came after it goes.
NobodyOvertakes ==
  \A w \in DOMAIN waiting : \A i \in DOMAIN proc : waiting[w] < i => proc[i] \notin Going

\* A repeat is ignored only for a run that goes, waits for its turn or ended
\* well, also after a restart; a run whose end could not be stored blocks its
\* delivery until the next start.
IgnoredForAReason ==
  up = "up" =>
    \A i \in DOMAIN rows :
      \/ rows[i].state \in {"ok", "failed", "skipped"}
      \/ proc[i] \in {"live", "failed"}
      \/ \E w \in DOMAIN waiting : waiting[w] = i
      \/ i \in unsaved

\* No delivery waits for ever behind runs that ended: it starts, or the process
\* stops.
WaitersMove ==
  \A i \in 1 .. MaxRuns :
    (up = "up" /\ \E w \in DOMAIN waiting : waiting[w] = i)
      ~> (up # "up" \/ ~\E w \in DOMAIN waiting : waiting[w] = i)
==============================================================================
