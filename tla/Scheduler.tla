------------------------------ MODULE Scheduler ------------------------------
(***************************************************************************)
(* The cron scheduler (scheduler/scheduler.go) with the job files it reads *)
(* (cron/job.go), the runs it records (store/cron.go) and the unattended   *)
(* turns it starts (agent/cron.go).                                        *)
(*                                                                         *)
(* A pass of the loop, a rescan and a start run under Scheduler.mu and are *)
(* one step each; a run's goroutine goes on by itself.  People and tools   *)
(* write job files at any time.  The process stops or dies and starts      *)
(* again; files and recorded runs stay.                                    *)
(*                                                                         *)
(* Time is a number, 0 the zero time.  A plan is the schedule of a job     *)
(* file reduced to the times it names.                                     *)
(***************************************************************************)
EXTENDS Naturals, Sequences, FiniteSets

CONSTANTS
  Jobs,         \* job names
  NoFile,       \* no job file of that name
  Plans,        \* the schedules that people write
  Window,       \* catch_up
  MaxTime,      \* bound: the clock
  MaxStarts,    \* bound: starts of the process
  MaxEvents,    \* bound: file writes and runs asked for
  MaxFaults     \* bound: failures, and prompts held

Kinds == {"every", "at", "in", "broken"}
Plan == [kind : Kinds, when : SUBSET Nat]

ASSUME SchedulerAssumption ==
  /\ IsFiniteSet(Jobs) /\ Plans \subseteq Plan
  /\ {Window, MaxTime, MaxStarts, MaxEvents, MaxFaults} \subseteq Nat
  /\ NoFile \notin [plan : Plan, mod : Nat, enabled : BOOLEAN]

VARIABLES
  now,        \* Scheduler.Now
  up,         \* whether the process is "up", "stopping" or "down"
  file,       \* the job files
  changed,    \* jobs whose file has another ModTime than the one loaded
  job,        \* Scheduler.jobs: what was loaded, the next slot, the run in progress
  lastSlot,   \* Scheduler.lastSlot
  runs,       \* cron_runs of each job
  proc,       \* the goroutine behind each run, with what its session's log says
  excused,    \* up to when slots of the loaded file are not owed a run
  missing,    \* when slots were last given up because no run could be recorded
  spent       \* how much of each bound is used

vars == <<now, up, file, changed, job, lastSlot, runs, proc, excused, missing, spent>>

File == [plan : Plan, mod : Nat, enabled : BOOLEAN]
Unloaded == [file |-> NoFile, next |-> 0, running |-> 0]

Later(a, b) == IF a < b THEN b ELSE a
Earliest(S) == IF S = {} THEN 0 ELSE CHOOSE s \in S : \A t \in S : s <= t
Latest(S) == IF S = {} THEN 0 ELSE CHOOSE s \in S : \A t \in S : t <= s

------------------------------------------------------------------------------
(* Job files *)

\* The times of a file's schedule: "in ..." counts from its last change.
Slots(f) == IF f.plan.kind = "in" THEN {f.mod + d : d \in f.plan.when} ELSE f.plan.when

Next(f, t) == Earliest({s \in Slots(f) : s > t})
OneShot(f) == f.plan.kind \in {"at", "in"}
Runnable(f) == f.plan.kind # "broken" /\ f.enabled

\* What FinishOneShot leaves of a file: disabled, then "in ..." rewritten as the time
\* it ran for; either write may fail, or be the last thing the process does.
Finished(f, slot) ==
  LET pinned == IF f.plan.kind = "in" THEN [kind |-> "at", when |-> {slot}] ELSE f.plan
      off == [f EXCEPT !.enabled = FALSE, !.mod = now]
  IN [none |-> f, half |-> off, whole |-> [off EXCEPT !.plan = pinned]]

\* People, the cron tool and SetEnabled write a job file or remove it.
Edit(j) ==
  /\ spent.events < MaxEvents
  /\ \E f \in [plan : Plans, mod : {now}, enabled : BOOLEAN] \cup {NoFile} :
       /\ f # file[j]
       /\ file' = [file EXCEPT ![j] = f]
  /\ changed' = IF up = "down" THEN {} ELSE changed \cup {j}
  /\ spent' = [spent EXCEPT !.events = @ + 1]
  /\ UNCHANGED <<now, up, job, lastSlot, runs, proc, excused, missing>>

Tick ==
  /\ now < MaxTime
  /\ now' = now + 1
  /\ UNCHANGED <<up, file, changed, job, lastSlot, runs, proc, excused, missing, spent>>

------------------------------------------------------------------------------
(* The jobs in memory *)

NextAfter(f, t, last) == Next(f, Later(t, last))

IsNew(j) == file[j] # NoFile /\ (job[j].file = NoFile \/ j \in changed)

\* Variant: a changed file gets a new jobState.
RescannedAfresh(j) ==
  IF IsNew(j)
  THEN [file |-> file[j], running |-> 0,
        next |-> IF Runnable(file[j]) THEN NextAfter(file[j], now, lastSlot[j]) ELSE 0]
  ELSE IF file[j] = NoFile /\ job[j].running = 0 THEN Unloaded ELSE job[j]

\* rescanLocked for one job: new and changed files are loaded; a job that is
\* gone is dropped unless a run of it is going.
Rescanned(j) ==
  IF IsNew(j)
  THEN [job[j] EXCEPT
          !.file = file[j],
          !.next = IF Runnable(file[j]) THEN NextAfter(file[j], now, lastSlot[j]) ELSE 0]
  ELSE IF file[j] = NoFile /\ job[j].running = 0 THEN Unloaded ELSE job[j]

Excused == [j \in Jobs |-> IF IsNew(j) THEN now ELSE excused[j]]

Rescan ==
  /\ up # "down"
  /\ job' = [j \in Jobs |-> Rescanned(j)]
  /\ excused' = Excused
  /\ changed' = {}
  /\ UNCHANGED <<now, up, file, lastSlot, runs, proc, missing, spent>>

------------------------------------------------------------------------------
(* Starting runs *)

\* A goroutine that is over, or that a run never had: of its log nothing is kept.
Over == [pc |-> "gone", denied |-> FALSE, refused |-> FALSE,
         torn |-> FALSE, end |-> "none", out |-> "none"]

Run(slot, cause, state) == [slot |-> slot, cause |-> cause, state |-> state, started |-> now]

\* The goroutine of a new run: its turn, or the error that kept it from starting.
Spawn(cold) ==
  [Over EXCEPT !.pc = IF cold THEN "ended" ELSE "turn",
               !.out = IF cold THEN "failed" ELSE "none"]

\* startLocked for each job j of due, with the jobs J, the last slots L and the
\* recorded runs R: the slot at[j] counts as run and a one-shot's file is
\* disabled; then the run is recorded, or recorded as skipped, unless the
\* insert fails (lost); then its session starts, or does not (cold).
Begin(J, L, R, due, at, cause, lost, cold) ==
  LET last == [j \in Jobs |-> IF j \in due THEN Later(L[j], at[j]) ELSE L[j]]
      free == {j \in due \ lost : J[j].running = 0}
      once == {j \in due : OneShot(J[j].file) /\ file[j] # NoFile}
  IN
  /\ lastSlot' = last
  /\ runs' = [j \in Jobs |->
       IF j \in due \ lost
       THEN Append(R[j], Run(at[j], cause, IF j \in free THEN "running" ELSE "skipped"))
       ELSE R[j]]
  /\ proc' = [j \in Jobs |->
       IF j \in due \ lost
       THEN Append(proc[j], IF j \in free THEN Spawn(j \in cold) ELSE Over)
       ELSE proc[j]]
  /\ job' = [j \in Jobs |->
       IF j \in due
       THEN [J[j] EXCEPT !.running = IF j \in free THEN Len(R[j]) + 1 ELSE @,
                         !.next = NextAfter(J[j].file, now, last[j])]
       ELSE J[j]]
  /\ \E how \in [once -> {"none", "half", "whole"}] :
       file' = [j \in Jobs |-> IF j \in once THEN Finished(file[j], at[j])[how[j]] ELSE file[j]]
  /\ missing' = [j \in Jobs |-> IF j \in due \cap lost THEN now ELSE missing[j]]

\* One iteration of loop: now and then a rescan, then fireDueLocked.  Once the
\* context has ended the select may still take the timer, and inserts fail.
Pass(scan) ==
  LET J == IF scan THEN [j \in Jobs |-> Rescanned(j)] ELSE job
      due == {j \in Jobs : J[j].next # 0 /\ J[j].next <= now}
  IN
  /\ up # "down"
  /\ \E lost \in SUBSET due, cold \in SUBSET due :
       /\ IF up = "stopping" THEN lost = due /\ UNCHANGED spent
          ELSE /\ spent.faults + Cardinality(lost) <= MaxFaults
               /\ spent' = [spent EXCEPT !.faults = @ + Cardinality(lost)]
       /\ Begin(J, lastSlot, runs, due, [j \in Jobs |-> J[j].next], "schedule", lost, cold)
       /\ changed' = (IF scan THEN {} ELSE changed) \cup {j \in due : file'[j] # file[j]}
  /\ excused' = IF scan THEN Excused ELSE excused
  /\ UNCHANGED <<now, up>>

\* Run, after its rescan: now, whatever the schedule says.
RunNow(j) ==
  /\ up = "up" /\ spent.events < MaxEvents
  /\ job[j].file # NoFile /\ job[j].file.plan.kind # "broken" /\ job[j].running = 0
  /\ \E cold \in BOOLEAN :
       proc' = [proc EXCEPT ![j] = Append(@, Spawn(cold))]
  /\ runs' = [runs EXCEPT ![j] = Append(@, Run(now, "manual", "running"))]
  /\ job' = [job EXCEPT ![j].running = Len(runs[j]) + 1]
  /\ spent' = [spent EXCEPT !.events = @ + 1]
  /\ UNCHANGED <<now, up, file, changed, lastSlot, excused, missing>>

------------------------------------------------------------------------------
(* The unattended turn of a run, and its end *)

\* Goroutine i of j takes a step from pc to the record p.
Step(j, i, p) ==
  /\ proc' = [proc EXCEPT ![j][i] = p]
  /\ UNCHANGED <<now, up, file, changed, lastSlot, excused, missing>>

Turn(j, i, pc) == i \in DOMAIN proc[j] /\ proc[j][i].pc = pc

\* approveUnattended with ask: deny.
RefuseAtOnce(j, i) ==
  /\ Turn(j, i, "turn")
  /\ Step(j, i, [proc[j][i] EXCEPT !.denied = TRUE, !.refused = TRUE])
  /\ UNCHANGED <<job, runs, spent>>

\* approveUnattended with ask: wait, while approveWith waits.
Ask(j, i) ==
  /\ Turn(j, i, "turn") /\ spent.faults < MaxFaults
  /\ Step(j, i, [proc[j][i] EXCEPT !.pc = "asked"])
  /\ spent' = [spent EXCEPT !.faults = @ + 1]
  /\ UNCHANGED <<job, runs>>

\* A client allows it.
Allow(j, i) ==
  /\ Turn(j, i, "asked")
  /\ Step(j, i, [proc[j][i] EXCEPT !.pc = "turn"])
  /\ UNCHANGED <<job, runs, spent>>

\* A client denies it, or nobody answers in time: the denial is recorded and
\* the refusal noted, unless the task state cannot be recorded in between.
Deny(j, i) ==
  /\ Turn(j, i, "asked")
  /\ \/ /\ Step(j, i, [proc[j][i] EXCEPT !.pc = "turn", !.denied = TRUE, !.refused = TRUE])
        /\ UNCHANGED spent
     \/ /\ spent.faults < MaxFaults
        /\ Step(j, i, [proc[j][i] EXCEPT !.pc = "turn", !.denied = TRUE, !.torn = TRUE])
        /\ spent' = [spent EXCEPT !.faults = @ + 1]
  /\ UNCHANGED <<job, runs>>

\* Variant: refusals do not show in the result.
ResultRegardless(end, refused) == IF end # "done" THEN "failed" ELSE "ok"

\* CronOutcome.Result, and what finishUnattendedLocked makes of an end.
Result(end, refused) ==
  IF end # "done" THEN "failed" ELSE IF refused THEN "needs_attention" ELSE "ok"

\* endTurn of the run's session: the turn is done, or it has failed: it is stuck
\* or was interrupted, while a prompt waits too.
EndTurn(j, i) ==
  /\ \E end \in {"done", "failed"} :
       /\ Turn(j, i, "turn") \/ (end = "failed" /\ Turn(j, i, "asked"))
       /\ Step(j, i, [proc[j][i] EXCEPT !.pc = "ended", !.end = end,
                                        !.out = Result(end, proc[j][i].refused)])
  /\ UNCHANGED <<job, runs, spent>>

\* Variant: the run is not told of an end that could not be recorded.
EndTurnUntold(j, i) ==
  /\ Turn(j, i, "turn") /\ spent.faults < MaxFaults
  /\ Step(j, i, [proc[j][i] EXCEPT !.pc = "untold"])
  /\ spent' = [spent EXCEPT !.faults = @ + 1]
  /\ UNCHANGED <<job, runs>>

\* endTurn when the end cannot be recorded: the run is told so.
EndTurnFails(j, i) ==
  /\ Turn(j, i, "turn") /\ spent.faults < MaxFaults
  /\ Step(j, i, [proc[j][i] EXCEPT !.pc = "ended", !.out = "failed"])
  /\ spent' = [spent EXCEPT !.faults = @ + 1]
  /\ UNCHANGED <<job, runs>>

\* finish: the result is recorded ...
Save(j, i) ==
  /\ Turn(j, i, "ended")
  /\ \/ /\ runs' = [runs EXCEPT ![j][i].state = proc[j][i].out]
        /\ Step(j, i, [proc[j][i] EXCEPT !.pc = "saved"])
        /\ UNCHANGED spent
     \/ /\ spent.faults < MaxFaults
        /\ Step(j, i, [proc[j][i] EXCEPT !.pc = "saved", !.torn = TRUE])
        /\ spent' = [spent EXCEPT !.faults = @ + 1]
        /\ UNCHANGED runs
  /\ UNCHANGED job

\* ... and the job is free for its next run.
Clear(j, i) ==
  /\ Turn(j, i, "saved")
  /\ Step(j, i, [Over EXCEPT !.torn = proc[j][i].torn])
  /\ job' = IF job[j].running = i THEN [job EXCEPT ![j].running = 0] ELSE job
  /\ UNCHANGED <<runs, spent>>

GoroutineStep(j) ==
  \E i \in 1 .. Len(proc[j]) :
    EndTurn(j, i) \/ EndTurnFails(j, i) \/ Save(j, i) \/ Clear(j, i)

PromptStep(j) ==
  \E i \in 1 .. Len(proc[j]) : RefuseAtOnce(j, i) \/ Ask(j, i) \/ Allow(j, i) \/ Deny(j, i)

------------------------------------------------------------------------------
(* The process *)

\* Nothing of the process is left but files and recorded runs.
Down ==
  /\ up' = "down"
  /\ proc' = [j \in Jobs |-> [i \in DOMAIN proc[j] |-> Over]]
  /\ changed' = {}
  /\ excused' = [j \in Jobs |-> 0] /\ missing' = [j \in Jobs |-> 0]
  /\ job' = [j \in Jobs |-> Unloaded]
  /\ lastSlot' = [j \in Jobs |-> 0]
  /\ UNCHANGED <<now, spent>>

\* Variant: skipped runs do not count.
LastCronSlotsRun(R) ==
  [j \in Jobs |-> Latest({R[j][i].slot : i \in {k \in DOMAIN R[j] :
     R[j][k].cause # "manual" /\ R[j][k].state # "skipped"}})]

\* LastCronSlots.
LastCronSlots(R) ==
  [j \in Jobs |-> Latest({R[j][i].slot : i \in {k \in DOMAIN R[j] : R[j][k].cause # "manual"}})]

\* Variant: runs the last process left are not looked at.
FailNone == runs

\* FailUnfinishedCronRuns.
FailUnfinished ==
  [j \in Jobs |-> [i \in DOMAIN runs[j] |->
     IF runs[j][i].state = "running" THEN [runs[j][i] EXCEPT !.state = "failed"] ELSE runs[j][i]]]

\* Variant: a slot that is due at this moment is not missed yet.
MissedBefore(f, last) ==
  IF Window = 0 THEN 0
  ELSE Latest({s \in Slots(f) : s > Later(last, f.mod) /\ s + Window > now /\ s < now})

\* missed: the latest slot within catch_up, after the last one that ran and
\* after the file was written; 0 if none is.
Missed(f, last) ==
  IF Window = 0 THEN 0
  ELSE Latest({s \in Slots(f) : s > Later(last, f.mod) /\ s + Window > now /\ s <= now})

\* Start: what the last process left is failed, the jobs are loaded, and each
\* that missed its last slot runs once.
Start ==
  LET L == LastCronSlots(runs)
      can == {j \in Jobs : file[j] # NoFile /\ Runnable(file[j])}
      at == [j \in Jobs |-> IF j \in can THEN Missed(file[j], L[j]) ELSE 0]
      due == {j \in can : at[j] # 0}
      J == [j \in Jobs |->
              [file |-> file[j], running |-> 0,
               next |-> IF j \in can THEN NextAfter(file[j], now, L[j]) ELSE 0]]
  IN
  /\ up = "down" /\ spent.starts < MaxStarts
  /\ up' = "up"
  /\ \E lost \in SUBSET due, cold \in SUBSET due :
       /\ spent.faults + Cardinality(lost) <= MaxFaults
       /\ spent' = [spent EXCEPT !.faults = @ + Cardinality(lost), !.starts = @ + 1]
       /\ Begin(J, L, FailUnfinished, due, at, "catch_up", lost, cold)
  /\ changed' = {j \in due : file'[j] # file[j]}
  /\ excused' = [j \in Jobs |-> IF file[j] = NoFile \/ Window = 0 THEN now
                                ELSE Later(IF now > Window THEN now - Window ELSE 0, file[j].mod)]
  /\ UNCHANGED now

\* The context of the scheduler ends (stopCrons).
Stop ==
  /\ up = "up" /\ up' = "stopping"
  /\ UNCHANGED <<now, file, changed, job, lastSlot, runs, proc, excused, missing, spent>>

\* Wait has returned, and the process ends.
Exit ==
  /\ up = "stopping" /\ \A j \in Jobs : \A i \in DOMAIN proc[j] : proc[j][i].pc = "gone"
  /\ Down
  /\ UNCHANGED <<file, runs>>

\* The process dies, at any moment: within a pass startLocked may have written one
\* more file, its run not recorded.  (Within Start's catch-up, as after an insert
\* that fails there.)
Crash ==
  LET due == {j \in Jobs : job[j].next # 0 /\ job[j].next <= now /\ file[j] # NoFile
                            /\ OneShot(job[j].file)}
  IN
  /\ up # "down"
  /\ \/ UNCHANGED file
     \/ \E j \in due, how \in {"half", "whole"} :
          file' = [file EXCEPT ![j] = Finished(@, job[j].next)[how]]
  /\ Down
  /\ UNCHANGED runs

Init ==
  /\ now = 1 /\ up = "down"
  /\ file \in [Jobs -> [plan : Plans, mod : {0}, enabled : {TRUE}] \cup {NoFile}]
  /\ changed = {}
  /\ job = [j \in Jobs |-> Unloaded]
  /\ lastSlot = [j \in Jobs |-> 0]
  /\ runs = [j \in Jobs |-> <<>>] /\ proc = [j \in Jobs |-> <<>>]
  /\ excused = [j \in Jobs |-> 0] /\ missing = [j \in Jobs |-> 0]
  /\ spent = [events |-> 0, faults |-> 0, starts |-> 0]

NextStep ==
  \/ \E j \in Jobs : Edit(j) \/ RunNow(j) \/ GoroutineStep(j) \/ PromptStep(j)
  \/ \E scan \in BOOLEAN : Pass(scan)
  \/ Rescan \/ Tick \/ Start \/ Stop \/ Exit \/ Crash

Spec == Init /\ [][NextStep]_vars

\* An unattended turn ends (Session: InterruptEnds, and prompts time out), and
\* the goroutine that waits for it goes on.
SchedulerFairness ==
  \A j \in Jobs : WF_vars(GoroutineStep(j)) /\ WF_vars(\E i \in 1 .. Len(proc[j]) : Deny(j, i))

FairSpec == Spec /\ SchedulerFairness

------------------------------------------------------------------------------
(* Properties *)

JobState == [file : File \cup {NoFile}, next : Nat, running : Nat]
RunRow == [slot : Nat, started : Nat, cause : {"schedule", "catch_up", "manual"},
           state : {"running", "ok", "needs_attention", "failed", "skipped"}]
Goroutine == [pc : {"turn", "asked", "ended", "saved", "gone"},
              denied : BOOLEAN, refused : BOOLEAN, torn : BOOLEAN,
              end : {"none", "done", "failed"},
              out : {"none", "ok", "needs_attention", "failed"}]

TypeOK ==
  /\ now \in Nat /\ up \in {"up", "stopping", "down"}
  /\ file \in [Jobs -> File \cup {NoFile}]
  /\ changed \in SUBSET Jobs
  /\ job \in [Jobs -> JobState]
  /\ lastSlot \in [Jobs -> Nat] /\ excused \in [Jobs -> Nat] /\ missing \in [Jobs -> Nat]
  /\ runs \in [Jobs -> Seq(RunRow)]
  /\ proc \in [Jobs -> Seq(Goroutine)]
  /\ spent \in [events : Nat, faults : Nat, starts : Nat]

Live(j) == {i \in DOMAIN proc[j] : proc[j][i].pc # "gone"}
Scheduled(j) == {i \in DOMAIN runs[j] : runs[j][i].cause # "manual"}

\* No slot of a job is run, skipped or caught up twice, across edits of its
\* file, restarts and crashes (lastSlot, LastCronSlots).
NoSlotTwice ==
  \A j \in Jobs : \A i, k \in Scheduled(j) : i # k => runs[j][i].slot # runs[j][k].slot

\* Runs of a job never stack: a run that is going is the one the job's state
\* points at, also when its file was changed, removed or written anew meanwhile.
RunsNeverStack ==
  \A j \in Jobs : \A i \in Live(j) : job[j].running = i

\* What is recorded is what happened: a run is recorded as running only while its
\* goroutine lives, as ok only if its turn was done and nothing was refused in
\* it, as needing attention only if something was.
RecordsAgree ==
  \A j \in Jobs : \A i \in DOMAIN runs[j] :
    LET r == runs[j][i]  p == proc[j][i] IN
    /\ r.state = "running" /\ up # "down" => p.pc # "gone" \/ p.torn
    /\ p.pc = "saved" /\ r.state = "ok" => p.end = "done" /\ (p.denied => p.torn)
    /\ p.pc = "saved" /\ r.state = "needs_attention" => p.end = "done" /\ p.denied

\* Every slot of a job whose file is loaded as it stands is accounted for: it
\* comes next or later, a run that started after it is recorded, no run could be
\* recorded, or it passed before the file was loaded or out of catch_up's reach.
EverySlotAccounted ==
  up # "down" =>
    \A j \in Jobs \ changed :
      job[j].file # NoFile /\ job[j].file = file[j] /\ Runnable(file[j]) =>
        \A s \in Slots(file[j]) :
          \/ s <= excused[j]
          \/ \E i \in Scheduled(j) : s <= runs[j][i].started
          \/ s <= missing[j]
          \/ job[j].next # 0 /\ job[j].next <= s

\* A job that missed slots while the machine slept runs once, however many there
\* were (docs/cron.md): what had passed when a run began is not caught up later.
MissedOnce ==
  \A j \in Jobs : \A i, k \in Scheduled(j) :
    i < k /\ runs[j][k].cause = "catch_up" => runs[j][i].started < runs[j][k].slot

\* A job is not kept from its schedule by a run that is over: each ends, and its
\* end reaches the scheduler although the turn, the log or the store may fail.
RunsFinish == \A j \in Jobs : job[j].running # 0 ~> job[j].running = 0
==============================================================================
