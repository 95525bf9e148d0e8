--------------------------- MODULE SchedulerProofs ----------------------------
(***************************************************************************)
(* Proofs about Scheduler, for every set of jobs and schedules: no slot of *)
(* a job is run twice and runs of a job never stack, whatever edits,        *)
(* restarts and crashes come between; rows tell what became of their runs; *)
(* and no slot is forgotten.                                               *)
(***************************************************************************)
EXTENDS Scheduler, FiniteSetTheorems, WellFoundedInduction, TLAPS

------------------------------------------------------------------------------
(* Sets of times *)

Less == {p \in Nat \X Nat : p[1] < p[2]}

\* The order of the times is well-founded.
LEMMA LessIsWellFounded == IsWellFoundedOn(Less, Nat)
BY NatLessThanWellFounded DEF OpToRel, Less

\* A non-empty set of times has a least.
LEMMA LeastExists ==
  ASSUME NEW S \in SUBSET Nat, S # {}
  PROVE  \E s \in S : \A t \in S : s <= t
<1>1. PICK x \in S : \A y \in S : <<y, x>> \notin Less
  BY LessIsWellFounded, WFMin
<1>2. ASSUME NEW y \in S PROVE x <= y
  <2>1. <<y, x>> \notin Less
    BY <1>1
  <2> QED BY <2>1 DEF Less
<1> QED BY <1>2

\* A bounded one has a greatest.
LEMMA GreatestExists ==
  ASSUME NEW S \in SUBSET Nat, S # {}, NEW b \in Nat, \A s \in S : s <= b
  PROVE  \E s \in S : \A t \in S : t <= s
<1> DEFINE U == {u \in Nat : \A s \in S : s <= u}
<1>1. PICK m \in U : \A u \in U : m <= u
  <2>1. U \in SUBSET Nat /\ U # {}
    OBVIOUS
  <2> HIDE DEF U
  <2> QED BY <2>1, LeastExists
<1>2. m \in S
  <2> SUFFICES ASSUME m \notin S PROVE FALSE
    OBVIOUS
  <2>1. PICK s \in S : TRUE
    OBVIOUS
  <2>2. \A t \in S : t \in Nat /\ t <= m - 1 /\ m > 0
    BY <1>1
  <2>3. m - 1 \in U
    BY <1>1, <2>1, <2>2
  <2> QED BY <1>1, <2>3
<1> QED BY <1>1, <1>2

\* Earliest is a member of the set, or 0 for none.
LEMMA EarliestIs ==
  ASSUME NEW S \in SUBSET Nat
  PROVE  Earliest(S) \in Nat /\ (Earliest(S) = 0 \/ Earliest(S) \in S)
BY LeastExists DEF Earliest

\* Latest is a member of the set, or 0 for none, and no member is later.
LEMMA LatestIs ==
  ASSUME NEW S \in SUBSET Nat, NEW b \in Nat, \A s \in S : s <= b
  PROVE  /\ Latest(S) \in Nat /\ (Latest(S) = 0 \/ Latest(S) \in S)
         /\ \A s \in S : s <= Latest(S)
BY GreatestExists DEF Latest

\* The slots of a file are times.
LEMMA SlotsAreTimes ==
  ASSUME NEW f \in File
  PROVE  Slots(f) \in SUBSET Nat
BY DEF File, Plan, Slots

\* The slot planned next lies after the one that ran last.
LEMMA NextIsLater ==
  ASSUME NEW f \in File, NEW t \in Nat, NEW last \in Nat
  PROVE  /\ NextAfter(f, t, last) \in Nat
         /\ NextAfter(f, t, last) # 0 => last < NextAfter(f, t, last)
<1> DEFINE u == Later(t, last)
           S == {s \in Slots(f) : s > u}
<1>1. u \in Nat /\ last <= u
  BY DEF Later
<1>2. S \in SUBSET Nat
  BY SlotsAreTimes
<1>3. NextAfter(f, t, last) = Earliest(S)
  BY DEF NextAfter, Next
<1>4. Earliest(S) \in Nat /\ (Earliest(S) = 0 \/ Earliest(S) \in S)
  BY <1>2, EarliestIs
<1>5. Earliest(S) \in S => last < Earliest(S)
  BY <1>1, <1>4
<1> QED BY <1>3, <1>4, <1>5

\* A slot is missed only after the one that ran last, and not before its time.
LEMMA MissedIsLater ==
  ASSUME NEW f \in File, NEW last \in Nat, now \in Nat
  PROVE  /\ Missed(f, last) \in Nat
         /\ Missed(f, last) # 0 => last < Missed(f, last) /\ Missed(f, last) <= now
<1> DEFINE u == Later(last, f.mod)
           S == {s \in Slots(f) : s > u /\ s + Window > now /\ s <= now}
<1>1. u \in Nat /\ last <= u
  BY DEF Later, File
<1>2. S \in SUBSET Nat
  BY SlotsAreTimes
<1>3. Missed(f, last) = IF Window = 0 THEN 0 ELSE Latest(S)
  BY DEF Missed
<1>4. Latest(S) \in Nat /\ (Latest(S) = 0 \/ Latest(S) \in S)
  BY <1>2, LatestIs
<1>5. Latest(S) \in S => last < Latest(S) /\ Latest(S) <= now
  BY <1>1, <1>4
<1> QED BY <1>3, <1>4, <1>5

------------------------------------------------------------------------------
(* Sequences of runs *)

\* A function on the indices of a sequence is a sequence of the same length.
LEMMA MappedSeq ==
  ASSUME NEW S, NEW s \in Seq(S), NEW T, NEW f \in [DOMAIN s -> T]
  PROVE  f \in Seq(T) /\ Len(f) = Len(s) /\ DOMAIN f = DOMAIN s
<1>1. Len(s) \in Nat /\ DOMAIN s = 1 .. Len(s)
  OBVIOUS
<1>2. f \in [1 .. Len(s) -> T]
  BY <1>1
<1> QED BY <1>1, <1>2

\* A recorded run has a time for its slot.
LEMMA RowTypes ==
  ASSUME NEW s \in Seq(RunRow)
  PROVE  \A i \in DOMAIN s : s[i] \in RunRow /\ s[i].slot \in Nat
<1>1. \A i \in DOMAIN s : s[i] \in RunRow
  OBVIOUS
<1>2. \A r \in RunRow : r.slot \in Nat
  BY DEF RunRow
<1> QED BY <1>1, <1>2

\* One element more.
LEMMA AppendedSeq ==
  ASSUME NEW S, NEW s \in Seq(S), NEW e \in S
  PROVE  /\ Append(s, e) \in Seq(S) /\ Len(Append(s, e)) = Len(s) + 1
         /\ Len(s) \in Nat /\ DOMAIN s = 1 .. Len(s)
         /\ DOMAIN Append(s, e) = DOMAIN s \cup {Len(s) + 1}
         /\ Append(s, e)[Len(s) + 1] = e
         /\ \A i \in DOMAIN s : Append(s, e)[i] = s[i]
OBVIOUS

------------------------------------------------------------------------------
(* The inductive invariant *)

\* The slots of the runs R that a schedule or catch-up started are recorded once,
\* have come, and lie up to the last slot L.
Recorded(R) ==
  \A j \in Jobs : \A i \in DOMAIN R[j] : R[j][i].cause # "manual" => R[j][i].slot <= now

UpTo(R, L) ==
  \A j \in Jobs : \A i \in DOMAIN R[j] : R[j][i].cause # "manual" => R[j][i].slot <= L[j]

Once(R) ==
  \A j \in Jobs : \A i, k \in DOMAIN R[j] :
    R[j][i].cause # "manual" /\ R[j][k].cause # "manual" /\ i # k => R[j][i].slot # R[j][k].slot

\* A slot that is planned lies after the last one.
Ahead(J, L) ==
  \A j \in Jobs : J[j].next # 0 => J[j].file # NoFile /\ L[j] < J[j].next

\* Each run has its goroutine, and one that goes is the one its job points at.
Paired(R, P) == \A j \in Jobs : Len(R[j]) = Len(P[j])
Pointed(J, P) ==
  \A j \in Jobs : \A i \in DOMAIN P[j] : P[j][i].pc # "gone" => J[j].running = i

\* A run's row r tells what its goroutine p has come to.
Agrees(r, p) ==
  /\ p.refused => p.denied
  /\ p.denied => p.refused \/ p.torn
  /\ p.pc \in {"turn", "asked", "ended"} => r.state = "running"
  /\ p.pc = "ended" =>
       /\ p.out # "none"
       /\ p.out = "ok" => p.end = "done" /\ ~p.refused
       /\ p.out = "needs_attention" => p.end = "done" /\ p.refused
  /\ p.pc \in {"saved", "gone"} /\ r.state = "running" => p.torn
  /\ p.pc = "saved" /\ r.state = "ok" => p.end = "done" /\ (p.denied => p.torn)
  /\ p.pc = "saved" /\ r.state = "needs_attention" => p.end = "done" /\ p.denied

AllAgree(R, P) == \A j \in Jobs : \A i \in DOMAIN R[j] : Agrees(R[j][i], P[j][i])

SchedulerInductive ==
  /\ Recorded(runs) /\ Once(runs)
  /\ up # "down" => UpTo(runs, lastSlot) /\ AllAgree(runs, proc)
  /\ Ahead(job, lastSlot)
  /\ Paired(runs, proc) /\ Pointed(job, proc)
  /\ up = "down" => \A j \in Jobs : \A i \in DOMAIN proc[j] : proc[j][i] = Over

------------------------------------------------------------------------------
(* Starting runs *)

\* A job's file after its only run is still a job's file.
LEMMA FinishedIsFile ==
  ASSUME now \in Nat, NEW f \in File, NEW slot \in Nat, NEW how \in {"none", "half", "whole"}
  PROVE  Finished(f, slot)[how] \in File
<1> DEFINE p == IF f.plan.kind = "in" THEN [kind |-> "at", when |-> {slot}] ELSE f.plan
           off == [f EXCEPT !.enabled = FALSE, !.mod = now]
<1>1. p \in Plan
  BY DEF File, Plan, Kinds
<1>2. off \in File
  BY DEF File
<1>3. Finished(f, slot) = [none |-> f, half |-> off, whole |-> [off EXCEPT !.plan = p]]
  BY DEF Finished
<1> HIDE DEF p, off
<1>4. [off EXCEPT !.plan = p] \in File
  BY <1>1, <1>2 DEF File
<1> QED BY <1>2, <1>3, <1>4

\* The goroutines a run begins with.
LEMMA NewGoroutine ==
  Over \in Goroutine /\ \A cold \in BOOLEAN : Spawn(cold) \in Goroutine
BY DEF Over, Spawn, Goroutine

\* startLocked is called for jobs J, last slots L and recorded runs R that satisfy
\* the invariant, with slots at that have come and lie after the last ones.
BeginsSafely(J, L, R, due, at, cause, lost, cold) ==
  /\ J \in [Jobs -> JobState] /\ L \in [Jobs -> Nat] /\ R \in [Jobs -> Seq(RunRow)]
  /\ due \in SUBSET Jobs /\ lost \in SUBSET due /\ cold \in SUBSET due
  /\ at \in [Jobs -> Nat] /\ cause \in {"schedule", "catch_up"}
  /\ \A j \in due : J[j].file # NoFile /\ L[j] < at[j] /\ at[j] <= now
  /\ Recorded(R) /\ UpTo(R, L) /\ Once(R) /\ Ahead(J, L) /\ Paired(R, proc) /\ Pointed(J, proc)
  /\ AllAgree(R, proc)
  /\ Begin(J, L, R, due, at, cause, lost, cold)
  /\ UNCHANGED now

\* A run r of job j was recorded, with a goroutine p that goes only if the job was free.
Added(j, J, R, at, cause, r, p) ==
  /\ r.slot = at[j] /\ r.cause = cause
  /\ runs'[j] = Append(R[j], r) /\ proc'[j] = Append(proc[j], p)
  /\ Agrees(r, p)
  /\ IF J[j].running = 0 THEN job'[j].running = Len(R[j]) + 1
     ELSE p.pc = "gone" /\ job'[j].running = J[j].running

\* What startLocked leaves, for each job.
LEMMA BeginLeaves ==
  ASSUME TypeOK, NEW J, NEW L, NEW R, NEW due, NEW at, NEW cause, NEW lost, NEW cold,
         BeginsSafely(J, L, R, due, at, cause, lost, cold),
         NEW j \in Jobs
  PROVE  /\ lastSlot'[j] = IF j \in due THEN Later(L[j], at[j]) ELSE L[j]
         /\ lastSlot'[j] \in Nat /\ missing'[j] \in Nat
         /\ file'[j] \in File \cup {NoFile}
         /\ job'[j] \in JobState /\ job'[j].file = J[j].file
         /\ j \notin due => job'[j] = J[j]
         /\ j \in due /\ job'[j].next # 0 => lastSlot'[j] < job'[j].next
         /\ IF j \notin due \ lost
            THEN runs'[j] = R[j] /\ proc'[j] = proc[j] /\ job'[j].running = J[j].running
            ELSE \E r \in RunRow, p \in Goroutine : Added(j, J, R, at, cause, r, p)
<1> J \in [Jobs -> JobState] /\ L \in [Jobs -> Nat] /\ R \in [Jobs -> Seq(RunRow)]
  BY DEF BeginsSafely
<1> due \in SUBSET Jobs /\ lost \in SUBSET due /\ cold \in SUBSET due
  BY DEF BeginsSafely
<1> at \in [Jobs -> Nat] /\ cause \in {"schedule", "catch_up"}
  BY DEF BeginsSafely
<1> Begin(J, L, R, due, at, cause, lost, cold) /\ \A k \in due : J[k].file # NoFile
  BY DEF BeginsSafely
<1> DEFINE last == [k \in Jobs |-> IF k \in due THEN Later(L[k], at[k]) ELSE L[k]]
           free == {k \in due \ lost : J[k].running = 0}
           r == Run(at[j], cause, IF j \in free THEN "running" ELSE "skipped")
           p == IF j \in free THEN Spawn(j \in cold) ELSE Over
<1>1. /\ now \in Nat /\ J[j] \in JobState /\ L[j] \in Nat /\ at[j] \in Nat /\ R[j] \in Seq(RunRow)
      /\ file[j] \in File \cup {NoFile} /\ missing[j] \in Nat /\ Len(R[j]) \in Nat
  BY DEF TypeOK
<1>2. lastSlot' = last /\ last[j] = (IF j \in due THEN Later(L[j], at[j]) ELSE L[j]) /\ last[j] \in Nat
  BY <1>1 DEF Begin, Later
<1>3. missing'[j] \in Nat
  BY <1>1 DEF Begin
<1>4. file'[j] \in File \cup {NoFile}
  <2>1. \/ file'[j] = file[j]
        \/ /\ file[j] # NoFile
           /\ \E how \in {"none", "half", "whole"} : file'[j] = Finished(file[j], at[j])[how]
    BY DEF Begin
  <2> QED BY <1>1, <2>1, FinishedIsFile
<1>5. /\ job'[j] \in JobState /\ job'[j].file = J[j].file
      /\ j \notin due => job'[j] = J[j]
      /\ j \in due => job'[j].next = NextAfter(J[j].file, now, last[j])
      /\ job'[j].running = IF j \in free THEN Len(R[j]) + 1 ELSE J[j].running
  <2>1. job'[j] = IF j \in due
          THEN [J[j] EXCEPT !.running = IF j \in free THEN Len(R[j]) + 1 ELSE @,
                            !.next = NextAfter(J[j].file, now, last[j])]
          ELSE J[j]
    BY DEF Begin
  <2>2. j \in due => J[j].file \in File
    BY <1>1 DEF JobState
  <2>3. j \in due => NextAfter(J[j].file, now, last[j]) \in Nat
    BY <1>1, <1>2, <2>2, NextIsLater
  <2> DEFINE n == NextAfter(J[j].file, now, last[j])
             g == IF j \in free THEN Len(R[j]) + 1 ELSE J[j].running
  <2>4. CASE j \in due
    <3>1. job'[j] = [J[j] EXCEPT !.running = g, !.next = n]
      BY <1>1, <2>1, <2>4 DEF JobState
    <3>2. g \in Nat /\ n \in Nat
      BY <1>1, <2>3, <2>4 DEF JobState
    <3> HIDE DEF g, n
    <3>3. job'[j] \in JobState /\ job'[j].file = J[j].file /\ job'[j].next = n /\ job'[j].running = g
      BY <1>1, <3>1, <3>2 DEF JobState
    <3> QED BY <2>4, <3>3 DEF g, n
  <2>5. CASE j \notin due
    BY <1>1, <2>1, <2>5
  <2> QED BY <2>4, <2>5
<1>6. j \in due => job'[j].next = 0 \/ last[j] < job'[j].next
  <2>1. j \in due => J[j].file \in File
    BY <1>1 DEF JobState
  <2> HIDE DEF last
  <2> QED BY <1>1, <1>2, <1>5, <2>1, NextIsLater
<1>7. r \in RunRow /\ r.slot = at[j] /\ r.cause = cause
  BY <1>1 DEF Run, RunRow
<1>8. p \in Goroutine /\ (j \notin free => p.pc = "gone")
  <2>1. (j \in cold) \in BOOLEAN /\ Over.pc = "gone"
    BY DEF Over
  <2> QED BY <2>1, NewGoroutine
<1>a. Agrees(r, p)
  <2>1. CASE j \in free
    BY <2>1 DEF Agrees, Run, Spawn, Over
  <2>2. CASE j \notin free
    BY <2>2 DEF Agrees, Run, Over
  <2> QED BY <2>1, <2>2
<1>9. IF j \in due \ lost
      THEN runs'[j] = Append(R[j], r) /\ proc'[j] = Append(proc[j], p)
      ELSE runs'[j] = R[j] /\ proc'[j] = proc[j]
  BY DEF Begin
<1>10. j \notin due \ lost =>
         runs'[j] = R[j] /\ proc'[j] = proc[j] /\ job'[j].running = J[j].running
  BY <1>5, <1>9
<1>11. j \in due \ lost => Added(j, J, R, at, cause, r, p)
  BY <1>5, <1>7, <1>8, <1>9, <1>a DEF Added
<1> HIDE DEF r, p, last
<1>12. j \in due \ lost => \E rr \in RunRow, pp \in Goroutine : Added(j, J, R, at, cause, rr, pp)
  BY <1>7, <1>8, <1>11
<1> QED BY <1>2, <1>3, <1>4, <1>5, <1>6, <1>10, <1>12

\* Beginning runs keeps the types.
LEMMA BeginTypes ==
  ASSUME TypeOK, NEW J, NEW L, NEW R, NEW due, NEW at, NEW cause, NEW lost, NEW cold,
         BeginsSafely(J, L, R, due, at, cause, lost, cold)
  PROVE  /\ lastSlot' \in [Jobs -> Nat] /\ missing' \in [Jobs -> Nat]
         /\ file' \in [Jobs -> File \cup {NoFile}] /\ job' \in [Jobs -> JobState]
         /\ runs' \in [Jobs -> Seq(RunRow)] /\ proc' \in [Jobs -> Seq(Goroutine)]
<1> J \in [Jobs -> JobState] /\ L \in [Jobs -> Nat] /\ R \in [Jobs -> Seq(RunRow)]
  BY DEF BeginsSafely
<1> Begin(J, L, R, due, at, cause, lost, cold) /\ \A k \in due : J[k].file # NoFile
  BY DEF BeginsSafely
<1>1. /\ lastSlot' = [j \in Jobs |-> lastSlot'[j]] /\ missing' = [j \in Jobs |-> missing'[j]]
      /\ file' = [j \in Jobs |-> file'[j]] /\ job' = [j \in Jobs |-> job'[j]]
      /\ runs' = [j \in Jobs |-> runs'[j]] /\ proc' = [j \in Jobs |-> proc'[j]]
  BY DEF Begin
<1>2. ASSUME NEW j \in Jobs
      PROVE  /\ lastSlot'[j] \in Nat /\ missing'[j] \in Nat
             /\ file'[j] \in File \cup {NoFile} /\ job'[j] \in JobState
  BY BeginLeaves
<1>3. ASSUME NEW j \in Jobs PROVE runs'[j] \in Seq(RunRow) /\ proc'[j] \in Seq(Goroutine)
  <2>1. R[j] \in Seq(RunRow) /\ proc[j] \in Seq(Goroutine)
    BY DEF TypeOK
  <2>2. \/ runs'[j] = R[j] /\ proc'[j] = proc[j]
        \/ \E r \in RunRow, p \in Goroutine : Added(j, J, R, at, cause, r, p)
    BY BeginLeaves
  <2>3. ASSUME NEW r \in RunRow, NEW p \in Goroutine, Added(j, J, R, at, cause, r, p)
        PROVE  runs'[j] \in Seq(RunRow) /\ proc'[j] \in Seq(Goroutine)
    BY <2>1, <2>3, AppendedSeq DEF Added
  <2> QED BY <2>1, <2>2, <2>3
<1> QED BY <1>1, <1>2, <1>3

\* startLocked keeps the invariant when the slots it runs lie after the last ones.
LEMMA BeginKeeps ==
  ASSUME TypeOK, NEW J, NEW L, NEW R, NEW due, NEW at, NEW cause, NEW lost, NEW cold,
         BeginsSafely(J, L, R, due, at, cause, lost, cold)
  PROVE  /\ Recorded(runs)' /\ UpTo(runs, lastSlot)' /\ Once(runs)' /\ Ahead(job, lastSlot)'
         /\ Paired(runs, proc)' /\ Pointed(job, proc)' /\ AllAgree(runs, proc)'
<1> SUFFICES ASSUME NEW j \in Jobs
    PROVE  /\ \A i \in DOMAIN runs'[j] : runs'[j][i].cause # "manual" =>
                runs'[j][i].slot <= now' /\ runs'[j][i].slot <= lastSlot'[j]
           /\ \A i, k \in DOMAIN runs'[j] :
                runs'[j][i].cause # "manual" /\ runs'[j][k].cause # "manual" /\ i # k =>
                  runs'[j][i].slot # runs'[j][k].slot
           /\ job'[j].next # 0 => job'[j].file # NoFile /\ lastSlot'[j] < job'[j].next
           /\ Len(runs'[j]) = Len(proc'[j])
           /\ \A i \in DOMAIN proc'[j] : proc'[j][i].pc # "gone" => job'[j].running = i
           /\ \A i \in DOMAIN runs'[j] : Agrees(runs'[j][i], proc'[j][i])
  BY DEF AllAgree, Recorded, UpTo, Once, Ahead, Paired, Pointed
<1> J \in [Jobs -> JobState] /\ L \in [Jobs -> Nat] /\ R \in [Jobs -> Seq(RunRow)]
  BY DEF BeginsSafely
<1> due \in SUBSET Jobs /\ lost \in SUBSET due /\ cold \in SUBSET due
  BY DEF BeginsSafely
<1> at \in [Jobs -> Nat] /\ cause \in {"schedule", "catch_up"}
  BY DEF BeginsSafely
<1> Begin(J, L, R, due, at, cause, lost, cold) /\ \A k \in due : J[k].file # NoFile
  BY DEF BeginsSafely
<1> \A k \in due : L[k] < at[k] /\ at[k] <= now
  BY DEF BeginsSafely
<1> Recorded(R) /\ UpTo(R, L) /\ Once(R) /\ Ahead(J, L)
  BY DEF BeginsSafely
<1> Paired(R, proc) /\ Pointed(J, proc) /\ AllAgree(R, proc)
  BY DEF BeginsSafely
<1> UNCHANGED now
  BY DEF BeginsSafely
<1>1. /\ now \in Nat /\ L[j] \in Nat /\ at[j] \in Nat
      /\ R[j] \in Seq(RunRow) /\ proc[j] \in Seq(Goroutine) /\ Len(R[j]) = Len(proc[j])
      /\ \A i \in DOMAIN R[j] : R[j][i].slot \in Nat
      /\ J[j].next # 0 => J[j].file # NoFile /\ L[j] < J[j].next
      /\ \A i \in DOMAIN proc[j] : proc[j][i].pc # "gone" => J[j].running = i
      /\ \A i \in DOMAIN R[j] : R[j][i].cause # "manual" => R[j][i].slot <= now /\ R[j][i].slot <= L[j]
      /\ \A i, k \in DOMAIN R[j] :
           R[j][i].cause # "manual" /\ R[j][k].cause # "manual" /\ i # k => R[j][i].slot # R[j][k].slot
      /\ \A i \in DOMAIN R[j] : Agrees(R[j][i], proc[j][i])
  <2>1. /\ now \in Nat /\ L[j] \in Nat /\ at[j] \in Nat
        /\ R[j] \in Seq(RunRow) /\ proc[j] \in Seq(Goroutine)
    BY DEF TypeOK
  <2>2. \A i \in DOMAIN R[j] : R[j][i].slot \in Nat
    BY <2>1, RowTypes
  <2> QED BY <2>1, <2>2 DEF AllAgree, Recorded, UpTo, Once, Ahead, Paired, Pointed
<1>2. /\ lastSlot'[j] = IF j \in due THEN at[j] ELSE L[j]
      /\ job'[j].file = J[j].file /\ job'[j].next \in Nat
      /\ j \notin due => job'[j] = J[j]
      /\ j \in due /\ job'[j].next # 0 => lastSlot'[j] < job'[j].next
  BY <1>1, BeginLeaves DEF Later, JobState
<1>3. job'[j].next # 0 => job'[j].file # NoFile /\ lastSlot'[j] < job'[j].next
  BY <1>1, <1>2
<1>4. CASE j \notin due \ lost
  <2>1. runs'[j] = R[j] /\ proc'[j] = proc[j] /\ job'[j].running = J[j].running
    BY <1>4, BeginLeaves
  <2>2. L[j] <= lastSlot'[j]
    BY <1>1, <1>2
  <2>3. \A i \in DOMAIN R[j] : R[j][i].cause # "manual" =>
          R[j][i].slot <= now' /\ R[j][i].slot <= lastSlot'[j]
    BY <1>1, <1>2, <2>2
  <2> QED BY <1>1, <1>3, <2>1, <2>3
<1>5. CASE j \in due \ lost
  <2>1. PICK r \in RunRow, p \in Goroutine :
          /\ r.slot = at[j] /\ r.cause = cause
          /\ runs'[j] = Append(R[j], r) /\ proc'[j] = Append(proc[j], p)
          /\ Agrees(r, p)
          /\ IF J[j].running = 0 THEN job'[j].running = Len(R[j]) + 1
             ELSE p.pc = "gone" /\ job'[j].running = J[j].running
    <3>1. \E r \in RunRow, p \in Goroutine : Added(j, J, R, at, cause, r, p)
      BY <1>5, BeginLeaves
    <3> QED BY <3>1 DEF Added
  <2>2. /\ DOMAIN runs'[j] = DOMAIN R[j] \cup {Len(R[j]) + 1} /\ runs'[j][Len(R[j]) + 1] = r
        /\ \A i \in DOMAIN R[j] : runs'[j][i] = R[j][i]
        /\ DOMAIN R[j] = 1 .. Len(R[j]) /\ Len(runs'[j]) = Len(R[j]) + 1
    BY <1>1, <2>1, AppendedSeq
  <2>3. /\ DOMAIN proc'[j] = DOMAIN proc[j] \cup {Len(R[j]) + 1} /\ proc'[j][Len(R[j]) + 1] = p
        /\ \A i \in DOMAIN proc[j] : proc'[j][i] = proc[j][i]
        /\ DOMAIN proc[j] = 1 .. Len(R[j]) /\ Len(proc'[j]) = Len(R[j]) + 1
    BY <1>1, <2>1, AppendedSeq
  <2>4. \A i \in DOMAIN R[j] : R[j][i].cause # "manual" => R[j][i].slot < at[j]
    BY <1>1, <1>5
  <2>5. \A i \in DOMAIN runs'[j] : runs'[j][i].cause # "manual" =>
          runs'[j][i].slot <= now' /\ runs'[j][i].slot <= lastSlot'[j]
    BY <1>1, <1>2, <1>5, <2>1, <2>2, <2>4
  <2>6. \A i, k \in DOMAIN runs'[j] :
          runs'[j][i].cause # "manual" /\ runs'[j][k].cause # "manual" /\ i # k =>
            runs'[j][i].slot # runs'[j][k].slot
    BY <1>1, <1>5, <2>1, <2>2, <2>4
  <2>7. \A i \in DOMAIN proc'[j] : proc'[j][i].pc # "gone" => job'[j].running = i
    <3>1. \A i \in DOMAIN proc[j] : i # 0 /\ (proc[j][i].pc # "gone" => J[j].running = i)
      BY <1>1, <2>3
    <3>2. CASE J[j].running = 0
      BY <2>1, <2>3, <3>1, <3>2
    <3>3. CASE J[j].running # 0
      BY <2>1, <2>3, <3>1, <3>3
    <3> QED BY <3>2, <3>3
  <2>8. \A i \in DOMAIN runs'[j] : Agrees(runs'[j][i], proc'[j][i])
    BY <1>1, <2>1, <2>2, <2>3
  <2> QED BY <1>3, <2>2, <2>3, <2>5, <2>6, <2>7, <2>8
<1> QED BY <1>4, <1>5

------------------------------------------------------------------------------
(* Steps *)

SpentType == [events : Nat, faults : Nat, starts : Nat]

\* The counters of the bounds stay counters.
LEMMA SpentGrows ==
  ASSUME TypeOK
  PROVE  /\ [spent EXCEPT !.events = @ + 1] \in [events : Nat, faults : Nat, starts : Nat]
         /\ \A n \in Nat :
              /\ [spent EXCEPT !.faults = @ + n] \in [events : Nat, faults : Nat, starts : Nat]
              /\ [spent EXCEPT !.faults = @ + n, !.starts = @ + 1]
                   \in [events : Nat, faults : Nat, starts : Nat]
<1>1. spent \in [events : Nat, faults : Nat, starts : Nat]
  BY DEF TypeOK
<1>2. spent.events \in Nat /\ spent.faults \in Nat /\ spent.starts \in Nat
  BY <1>1
<1>3. [spent EXCEPT !.events = @ + 1] \in [events : Nat, faults : Nat, starts : Nat]
  BY <1>1, <1>2
<1>4. ASSUME NEW n \in Nat
      PROVE  /\ [spent EXCEPT !.faults = @ + n] \in [events : Nat, faults : Nat, starts : Nat]
             /\ [spent EXCEPT !.faults = @ + n, !.starts = @ + 1]
                  \in [events : Nat, faults : Nat, starts : Nat]
  <2> DEFINE f == spent.faults + n
             t == spent.starts + 1
  <2>1. f \in Nat /\ t \in Nat
    BY <1>2
  <2> HIDE DEF f, t
  <2>2. /\ [spent EXCEPT !.faults = f] \in [events : Nat, faults : Nat, starts : Nat]
        /\ [spent EXCEPT !.faults = f, !.starts = t] \in [events : Nat, faults : Nat, starts : Nat]
    BY <1>1, <2>1
  <2> QED BY <2>2 DEF f, t
<1> QED BY <1>3, <1>4

\* The steps of a run's goroutine: its record becomes p, and the job is freed
\* only as the goroutine ends.
LEMMA GoroutineKeeps ==
  ASSUME TypeOK, SchedulerInductive, NEW j \in Jobs, NEW i \in DOMAIN proc[j],
         proc[j][i].pc # "gone", NEW p \in Goroutine, Step(j, i, p),
         \/ UNCHANGED job
         \/ p.pc = "gone" /\ job' = [job EXCEPT ![j].running = 0],
         \/ UNCHANGED runs
         \/ \E s \in {"ok", "needs_attention", "failed"} : runs' = [runs EXCEPT ![j][i].state = s],
         Agrees(runs'[j][i], p),
         spent' \in SpentType
  PROVE  TypeOK' /\ SchedulerInductive'
<1>1. /\ \A k \in Jobs : proc[k] \in Seq(Goroutine) /\ runs[k] \in Seq(RunRow) /\ job[k] \in JobState
      /\ \A k \in Jobs : Len(proc[k]) \in Nat /\ DOMAIN proc[k] = 1 .. Len(proc[k])
      /\ \A k \in Jobs : Len(runs[k]) \in Nat /\ DOMAIN runs[k] = 1 .. Len(runs[k])
      /\ \A k \in Jobs : Len(runs[k]) = Len(proc[k])
  BY DEF TypeOK, SchedulerInductive, Paired
<1>2. /\ proc' \in [Jobs -> Seq(Goroutine)]
      /\ \A k \in Jobs : Len(proc'[k]) = Len(proc[k]) /\ DOMAIN proc'[k] = DOMAIN proc[k]
      /\ proc'[j][i] = p
      /\ \A k \in Jobs : \A m \in DOMAIN proc[k] : k # j \/ m # i => proc'[k][m] = proc[k][m]
  <2>1. proc' = [proc EXCEPT ![j] = [@ EXCEPT ![i] = p]]
    BY DEF Step
  <2>2. [proc[j] EXCEPT ![i] = p] \in Seq(Goroutine)
    BY <1>1
  <2> QED BY <1>1, <2>1, <2>2 DEF TypeOK
<1>3. /\ runs' \in [Jobs -> Seq(RunRow)]
      /\ \A k \in Jobs : Len(runs'[k]) = Len(runs[k]) /\ DOMAIN runs'[k] = DOMAIN runs[k]
      /\ \A k \in Jobs : \A m \in DOMAIN runs[k] :
           /\ runs'[k][m].slot = runs[k][m].slot /\ runs'[k][m].cause = runs[k][m].cause
           /\ k # j \/ m # i => runs'[k][m] = runs[k][m]
  <2>1. CASE UNCHANGED runs
    BY <2>1 DEF TypeOK
  <2>2. ASSUME NEW s \in {"ok", "needs_attention", "failed"}, runs' = [runs EXCEPT ![j][i].state = s]
        PROVE  <1>3!2 /\ <1>3!1 /\ <1>3!3
    <3> DEFINE r == [runs[j][i] EXCEPT !.state = s]
    <3>1. runs[j][i] \in RunRow
      BY <1>1
    <3>2. r \in RunRow /\ r.slot = runs[j][i].slot /\ r.cause = runs[j][i].cause
      BY <3>1 DEF RunRow
    <3>3. runs' = [runs EXCEPT ![j] = [@ EXCEPT ![i] = r]]
      BY <2>2
    <3> HIDE DEF r
    <3>4. [runs[j] EXCEPT ![i] = r] \in Seq(RunRow)
      BY <1>1, <3>2
    <3> QED BY <1>1, <3>2, <3>3, <3>4 DEF TypeOK
  <2> QED BY <2>1, <2>2
<1>4. /\ job' \in [Jobs -> JobState]
      /\ \A k \in Jobs : job'[k].file = job[k].file /\ job'[k].next = job[k].next
      /\ \A k \in Jobs : job'[k].running = job[k].running \/ (k = j /\ p.pc = "gone")
  <2>1. CASE UNCHANGED job
    BY <2>1 DEF TypeOK
  <2>2. CASE p.pc = "gone" /\ job' = [job EXCEPT ![j].running = 0]
    <3> DEFINE q == [job[j] EXCEPT !.running = 0]
    <3>1. q \in JobState /\ q.file = job[j].file /\ q.next = job[j].next
      BY <1>1 DEF JobState
    <3>2. job' = [job EXCEPT ![j] = q]
      BY <2>2
    <3> HIDE DEF q
    <3>3. job \in [Jobs -> JobState]
      BY DEF TypeOK
    <3>4. job' \in [Jobs -> JobState]
      BY <3>1, <3>2, <3>3
    <3>5. \A k \in Jobs : IF k = j THEN job'[k] = q ELSE job'[k] = job[k]
      BY <3>2, <3>3
    <3> QED BY <2>2, <3>1, <3>4, <3>5
  <2> QED BY <2>1, <2>2
<1>5. UNCHANGED <<now, up, file, changed, lastSlot, excused, missing>>
  BY DEF Step
<1>6. TypeOK'
  <2>1. proc' \in [Jobs -> Seq(Goroutine)] /\ runs' \in [Jobs -> Seq(RunRow)] /\ job' \in [Jobs -> JobState]
    BY <1>2, <1>3, <1>4
  <2> QED BY <1>5, <2>1 DEF TypeOK, SpentType
<1>7. Recorded(runs)' /\ Once(runs)' /\ (up # "down" => UpTo(runs, lastSlot))'
  <2>1. Recorded(runs)'
    BY <1>3, <1>5 DEF SchedulerInductive, Recorded
  <2>2. Once(runs)'
    BY <1>3 DEF SchedulerInductive, Once
  <2>3. (up # "down" => UpTo(runs, lastSlot))'
    <3>1. up # "down" => UpTo(runs, lastSlot)
      BY DEF SchedulerInductive
    <3> QED BY <1>3, <1>5, <3>1 DEF UpTo
  <2> QED BY <2>1, <2>2, <2>3
<1>8. Ahead(job, lastSlot)' /\ Paired(runs, proc)'
  <2>1. Ahead(job, lastSlot) /\ Paired(runs, proc)
    BY DEF SchedulerInductive
  <2>2. Ahead(job, lastSlot)'
    BY <1>4, <1>5, <2>1 DEF Ahead
  <2>3. Paired(runs, proc)'
    BY <1>2, <1>3, <2>1 DEF Paired
  <2> QED BY <2>2, <2>3
<1>9. Pointed(job, proc)'
  <2>1. job[j].running = i /\ \A m \in DOMAIN proc[j] : m # i => proc[j][m].pc = "gone"
    BY DEF SchedulerInductive, Pointed
  <2>2. \A k \in Jobs : \A m \in DOMAIN proc[k] : proc[k][m].pc # "gone" => job[k].running = m
    BY DEF SchedulerInductive, Pointed
  <2>3. ASSUME NEW k \in Jobs, NEW m \in DOMAIN proc'[k], proc'[k][m].pc # "gone"
        PROVE  job'[k].running = m
    <3>1. CASE k = j
      BY <1>2, <1>4, <2>1, <2>3, <3>1
    <3>2. CASE k # j
      BY <1>2, <1>4, <2>2, <2>3, <3>2
    <3> QED BY <3>1, <3>2
  <2> QED BY <2>3 DEF Pointed
<1>10. up' # "down"
  BY <1>5 DEF SchedulerInductive, Over
<1>11. AllAgree(runs, proc)'
  <2>1. \A k \in Jobs : \A m \in DOMAIN runs[k] : Agrees(runs[k][m], proc[k][m])
    BY DEF SchedulerInductive, AllAgree, Over
  <2>2. ASSUME NEW k \in Jobs, NEW m \in DOMAIN runs'[k] PROVE Agrees(runs'[k][m], proc'[k][m])
    <3>1. CASE k = j /\ m = i
      BY <1>2, <3>1
    <3>2. CASE k # j \/ m # i
      <4>1. m \in DOMAIN runs[k] /\ m \in DOMAIN proc[k]
        BY <1>1, <1>3
      <4> QED BY <1>2, <1>3, <2>1, <3>2, <4>1
    <3> QED BY <3>1, <3>2
  <2> QED BY <2>2 DEF AllAgree
<1> QED BY <1>6, <1>7, <1>8, <1>9, <1>10, <1>11 DEF SchedulerInductive

\* The steps of a run's goroutine and of its prompt keep the invariant.
LEMMA GoroutineSteps ==
  ASSUME TypeOK, SchedulerInductive, NEW j \in Jobs, GoroutineStep(j) \/ PromptStep(j)
  PROVE  TypeOK' /\ SchedulerInductive'
<1>1. PICK i \in 1 .. Len(proc[j]) :
        \/ EndTurn(j, i) \/ EndTurnFails(j, i) \/ Save(j, i) \/ Clear(j, i)
        \/ RefuseAtOnce(j, i) \/ Ask(j, i) \/ Allow(j, i) \/ Deny(j, i)
  BY DEF GoroutineStep, PromptStep
<1> DEFINE g == proc[j][i]
           r == runs[j][i]
<1>2. /\ proc[j] \in Seq(Goroutine) /\ i \in DOMAIN proc[j] /\ g \in Goroutine
      /\ runs[j] \in Seq(RunRow) /\ i \in DOMAIN runs[j] /\ r \in RunRow
      /\ runs \in [Jobs -> Seq(RunRow)]
  BY DEF TypeOK, SchedulerInductive, Paired
<1>3. spent' = spent \/ spent' = [spent EXCEPT !.faults = @ + 1] => spent' \in SpentType
  BY DEF TypeOK, SpentType
<1>4. g.pc # "gone" => Agrees(r, g) /\ job[j].running = i
  BY <1>2 DEF SchedulerInductive, AllAgree, Pointed, Over
<1>5. ASSUME NEW p \in Goroutine, Step(j, i, p), g.pc # "gone", Agrees(r, p), UNCHANGED <<job, runs>>,
             spent' = spent \/ spent' = [spent EXCEPT !.faults = @ + 1]
      PROVE  TypeOK' /\ SchedulerInductive'
  <2>1. Agrees(runs'[j][i], p)
    BY <1>5
  <2> HIDE DEF g, r
  <2>2. proc[j][i].pc # "gone"
    BY <1>5 DEF g
  <2> QED BY <1>2, <1>3, <1>5, <2>1, <2>2, GoroutineKeeps
<1>6. CASE EndTurn(j, i)
  <2>1. PICK end \in {"done", "failed"} :
          /\ Turn(j, i, "turn") \/ Turn(j, i, "asked")
          /\ Step(j, i, [g EXCEPT !.pc = "ended", !.end = end, !.out = Result(end, g.refused)])
    BY <1>6 DEF EndTurn
  <2> DEFINE p == [g EXCEPT !.pc = "ended", !.end = end, !.out = Result(end, g.refused)]
  <2>2. Result(end, g.refused) \in {"ok", "needs_attention", "failed"}
    BY DEF Result
  <2>3. g.pc \in {"turn", "asked"} /\ UNCHANGED <<job, runs, spent>>
    BY <1>6, <2>1 DEF EndTurn, Turn
  <2>4. p \in Goroutine
    BY <1>2, <2>2 DEF Goroutine
  <2>5. Agrees(r, p)
    BY <1>2, <1>4, <2>3 DEF Agrees, Goroutine, Result
  <2> HIDE DEF p, g, r
  <2>6. g.pc # "gone"
    BY <2>3
  <2> QED BY <1>5, <2>1, <2>3, <2>4, <2>5, <2>6 DEF p
<1>7. CASE EndTurnFails(j, i)
  <2> DEFINE p == [g EXCEPT !.pc = "ended", !.out = "failed"]
  <2>1. /\ Step(j, i, p) /\ g.pc = "turn" /\ UNCHANGED <<job, runs>>
        /\ spent' = [spent EXCEPT !.faults = @ + 1]
    BY <1>7 DEF EndTurnFails, Turn
  <2>2. p \in Goroutine /\ Agrees(r, p)
    BY <1>2, <1>4, <2>1 DEF Agrees, Goroutine
  <2> HIDE DEF p, g, r
  <2>3. g.pc # "gone"
    BY <2>1
  <2> QED BY <1>5, <2>1, <2>2, <2>3
<1>8. CASE Save(j, i)
  <2>1. g.pc = "ended" /\ UNCHANGED job /\ Agrees(r, g)
    BY <1>4, <1>8 DEF Save, Turn
  <2>2. CASE /\ runs' = [runs EXCEPT ![j][i].state = g.out]
             /\ Step(j, i, [g EXCEPT !.pc = "saved"]) /\ UNCHANGED spent
    <3> DEFINE p == [g EXCEPT !.pc = "saved"]
    <3>1. p \in Goroutine
      BY <1>2 DEF Goroutine
    <3>2. g.out \in {"ok", "needs_attention", "failed"}
      BY <1>2, <2>1 DEF Agrees, Goroutine
    <3>3. runs'[j][i] = [r EXCEPT !.state = g.out]
      BY <1>2, <2>2
    <3>4. Agrees([r EXCEPT !.state = g.out], p)
      BY <1>2, <2>1, <3>2 DEF Agrees, Goroutine, RunRow
    <3>5. Agrees(runs'[j][i], p) /\ Step(j, i, p)
      BY <2>2, <3>3, <3>4
    <3>6. proc[j][i].pc # "gone" /\ spent' \in SpentType
      BY <1>3, <2>1, <2>2
    <3>7. \E s \in {"ok", "needs_attention", "failed"} : runs' = [runs EXCEPT ![j][i].state = s]
      BY <2>2, <3>2
    <3> HIDE DEF p, g, r
    <3> QED BY <1>2, <2>1, <3>1, <3>5, <3>6, <3>7, GoroutineKeeps
  <2>3. CASE /\ Step(j, i, [g EXCEPT !.pc = "saved", !.torn = TRUE])
             /\ spent' = [spent EXCEPT !.faults = @ + 1] /\ UNCHANGED runs
    <3> DEFINE p == [g EXCEPT !.pc = "saved", !.torn = TRUE]
    <3>1. p \in Goroutine /\ Agrees(r, p) /\ g.pc # "gone"
      BY <1>2, <2>1 DEF Agrees, Goroutine
    <3> HIDE DEF p, g, r
    <3> QED BY <1>5, <2>1, <2>3, <3>1 DEF p
  <2> QED BY <1>8, <2>2, <2>3 DEF Save
<1>9. CASE Clear(j, i)
  <2> DEFINE p == [Over EXCEPT !.torn = g.torn]
  <2>1. g.pc = "saved" /\ Step(j, i, p) /\ UNCHANGED <<runs, spent>> /\ job' = [job EXCEPT ![j].running = 0]
    BY <1>4, <1>9 DEF Clear, Turn
  <2>2. p \in Goroutine /\ p.pc = "gone" /\ Agrees(r, p)
    BY <1>2, <1>4, <2>1 DEF Agrees, Goroutine, Over
  <2>3. Agrees(runs'[j][i], p) /\ proc[j][i].pc # "gone" /\ spent' \in SpentType
    BY <1>3, <2>1, <2>2
  <2> HIDE DEF p, g, r
  <2> QED BY <1>2, <2>1, <2>2, <2>3, GoroutineKeeps
<1>10. ASSUME NEW p \in Goroutine, Step(j, i, p), g.pc \in {"turn", "asked"}, p.pc \in {"turn", "asked"},
              p.refused => p.denied, p.denied => p.refused \/ p.torn,
              UNCHANGED <<job, runs>>, spent' = spent \/ spent' = [spent EXCEPT !.faults = @ + 1]
       PROVE  TypeOK' /\ SchedulerInductive'
  <2>1. Agrees(r, p) /\ g.pc # "gone"
    BY <1>4, <1>10 DEF Agrees
  <2> HIDE DEF g, r
  <2> QED BY <1>5, <1>10, <2>1
<1>11. CASE RefuseAtOnce(j, i)
  <2> DEFINE p == [g EXCEPT !.denied = TRUE, !.refused = TRUE]
  <2>1. p \in Goroutine /\ p.pc = g.pc /\ p.denied /\ p.refused
    BY <1>2 DEF Goroutine
  <2>2. Step(j, i, p) /\ g.pc = "turn" /\ UNCHANGED <<job, runs, spent>>
    BY <1>11 DEF RefuseAtOnce, Turn
  <2> HIDE DEF p, g
  <2> QED BY <1>10, <2>1, <2>2
<1>12. CASE Ask(j, i)
  <2> DEFINE p == [g EXCEPT !.pc = "asked"]
  <2>1. /\ Step(j, i, p) /\ g.pc = "turn" /\ UNCHANGED <<job, runs>>
        /\ spent' = [spent EXCEPT !.faults = @ + 1]
    BY <1>12 DEF Ask, Turn
  <2>2. p \in Goroutine /\ p.pc = "asked" /\ (p.refused => p.denied) /\ (p.denied => p.refused \/ p.torn)
    BY <1>2, <1>4, <2>1 DEF Goroutine, Agrees
  <2> HIDE DEF p, g
  <2> QED BY <1>10, <2>1, <2>2
<1>13. CASE Allow(j, i)
  <2> DEFINE p == [g EXCEPT !.pc = "turn"]
  <2>1. Step(j, i, p) /\ g.pc = "asked" /\ UNCHANGED <<job, runs, spent>>
    BY <1>13 DEF Allow, Turn
  <2>2. p \in Goroutine /\ p.pc = "turn" /\ (p.refused => p.denied) /\ (p.denied => p.refused \/ p.torn)
    BY <1>2, <1>4, <2>1 DEF Goroutine, Agrees
  <2> HIDE DEF p, g
  <2> QED BY <1>10, <2>1, <2>2
<1>14. CASE Deny(j, i)
  <2> DEFINE p == [g EXCEPT !.pc = "turn", !.denied = TRUE, !.refused = TRUE]
             q == [g EXCEPT !.pc = "turn", !.denied = TRUE, !.torn = TRUE]
  <2>1. p \in Goroutine /\ p.pc = "turn" /\ p.denied /\ p.refused
    BY <1>2 DEF Goroutine
  <2>2. q \in Goroutine /\ q.pc = "turn" /\ q.denied /\ q.torn
    BY <1>2 DEF Goroutine
  <2>3. g.pc = "asked" /\ UNCHANGED <<job, runs>>
    BY <1>14 DEF Deny, Turn
  <2>4. \/ Step(j, i, p) /\ spent' = spent
        \/ Step(j, i, q) /\ spent' = [spent EXCEPT !.faults = @ + 1]
    BY <1>14 DEF Deny
  <2> HIDE DEF p, q, g
  <2> QED BY <1>10, <2>1, <2>2, <2>3, <2>4
<1> QED BY <1>1, <1>6, <1>7, <1>8, <1>9, <1>11, <1>12, <1>13, <1>14

\* A rescan keeps the invariant: a slot planned anew lies after the last one, and
\* no job forgets the run that is going.
LEMMA RescanKeeps ==
  ASSUME TypeOK, SchedulerInductive
  PROVE  LET J == [j \in Jobs |-> Rescanned(j)] IN
         /\ J \in [Jobs -> JobState] /\ Ahead(J, lastSlot) /\ Pointed(J, proc)
<1> DEFINE J == [j \in Jobs |-> Rescanned(j)]
<1>1. ASSUME NEW j \in Jobs
      PROVE  /\ Rescanned(j) \in JobState /\ Rescanned(j).running = job[j].running
             /\ Rescanned(j).next # 0 => Rescanned(j).file # NoFile /\ lastSlot[j] < Rescanned(j).next
  <2>1. /\ now \in Nat /\ file[j] \in File \cup {NoFile} /\ lastSlot[j] \in Nat /\ job[j] \in JobState
        /\ job[j].next # 0 => job[j].file # NoFile /\ lastSlot[j] < job[j].next
    BY DEF TypeOK, SchedulerInductive, Ahead
  <2>2. CASE IsNew(j)
    <3> DEFINE n == IF Runnable(file[j]) THEN NextAfter(file[j], now, lastSlot[j]) ELSE 0
    <3>1. file[j] \in File /\ file[j] # NoFile
      BY <2>1, <2>2 DEF IsNew
    <3>2. n \in Nat /\ (n # 0 => lastSlot[j] < n)
      BY <2>1, <3>1, NextIsLater
    <3>3. Rescanned(j) = [job[j] EXCEPT !.file = file[j], !.next = n]
      BY <2>2 DEF Rescanned
    <3> HIDE DEF n
    <3>4. /\ Rescanned(j) \in JobState /\ Rescanned(j).running = job[j].running
          /\ Rescanned(j).file = file[j] /\ Rescanned(j).next = n
      BY <2>1, <3>1, <3>2, <3>3 DEF JobState
    <3> QED BY <3>1, <3>2, <3>4
  <2>3. CASE ~IsNew(j) /\ file[j] = NoFile /\ job[j].running = 0
    BY <2>1, <2>3 DEF Rescanned, Unloaded, JobState
  <2>4. CASE ~IsNew(j) /\ ~(file[j] = NoFile /\ job[j].running = 0)
    BY <2>1, <2>4 DEF Rescanned
  <2> QED BY <2>2, <2>3, <2>4
<1>2. J \in [Jobs -> JobState] /\ Ahead(J, lastSlot)
  BY <1>1 DEF Ahead
<1>3. Pointed(J, proc)
  BY <1>1 DEF SchedulerInductive, Pointed
<1> QED BY <1>2, <1>3

\* A rescan of the files keeps the invariant.
LEMMA RescanSteps ==
  ASSUME TypeOK, SchedulerInductive, Rescan
  PROVE  TypeOK' /\ SchedulerInductive'
<1>1. job' = [j \in Jobs |-> Rescanned(j)] /\ up # "down"
  BY DEF Rescan
<1>2. job' \in [Jobs -> JobState] /\ Ahead(job', lastSlot) /\ Pointed(job', proc)
  BY <1>1, RescanKeeps
<1>3. UNCHANGED <<now, up, file, lastSlot, runs, proc, missing, spent>>
  BY DEF Rescan
<1>4. excused' \in [Jobs -> Nat] /\ changed' \in SUBSET Jobs
  BY DEF Rescan, Excused, TypeOK
<1>5. TypeOK'
  BY <1>2, <1>3, <1>4 DEF TypeOK
<1>6. Recorded(runs)' /\ Once(runs)' /\ UpTo(runs, lastSlot)' /\ AllAgree(runs, proc)'
  BY <1>1, <1>3 DEF SchedulerInductive, Recorded, Once, UpTo, AllAgree
<1>7. Ahead(job, lastSlot)' /\ Pointed(job, proc)' /\ Paired(runs, proc)'
  BY <1>2, <1>3 DEF SchedulerInductive, Ahead, Pointed, Paired
<1> QED BY <1>1, <1>3, <1>5, <1>6, <1>7 DEF SchedulerInductive

\* A pass over the due jobs keeps the invariant.
LEMMA PassSteps ==
  ASSUME TypeOK, SchedulerInductive, NEW scan \in BOOLEAN, Pass(scan)
  PROVE  TypeOK' /\ SchedulerInductive'
<1> DEFINE J == IF scan THEN [j \in Jobs |-> Rescanned(j)] ELSE job
           due == {j \in Jobs : J[j].next # 0 /\ J[j].next <= now}
           at == [j \in Jobs |-> J[j].next]
<1>1. PICK lost \in SUBSET due, cold \in SUBSET due :
        /\ IF up = "stopping" THEN lost = due /\ UNCHANGED spent
           ELSE /\ spent.faults + Cardinality(lost) <= MaxFaults
                /\ spent' = [spent EXCEPT !.faults = @ + Cardinality(lost)]
        /\ Begin(J, lastSlot, runs, due, at, "schedule", lost, cold)
        /\ changed' = (IF scan THEN {} ELSE changed) \cup {j \in due : file'[j] # file[j]}
  BY DEF Pass
<1>2. up # "down" /\ UNCHANGED <<now, up>> /\ excused' = IF scan THEN Excused ELSE excused
  BY DEF Pass
<1>3. J \in [Jobs -> JobState] /\ Ahead(J, lastSlot) /\ Pointed(J, proc)
  <2>1. job \in [Jobs -> JobState] /\ Ahead(job, lastSlot) /\ Pointed(job, proc)
    BY DEF TypeOK, SchedulerInductive
  <2> QED BY <2>1, RescanKeeps
<1>4. due \in SUBSET Jobs /\ changed' \in SUBSET Jobs
  BY <1>1 DEF TypeOK
<1> HIDE DEF J
<1>5. at \in [Jobs -> Nat] /\ \A j \in due : J[j].file # NoFile /\ lastSlot[j] < at[j] /\ at[j] <= now
  BY <1>3 DEF JobState, Ahead
<1>6. BeginsSafely(J, lastSlot, runs, due, at, "schedule", lost, cold)
  <2>1. lastSlot \in [Jobs -> Nat] /\ runs \in [Jobs -> Seq(RunRow)]
    BY DEF TypeOK
  <2>2. /\ Recorded(runs) /\ UpTo(runs, lastSlot) /\ Once(runs) /\ Paired(runs, proc)
        /\ AllAgree(runs, proc)
    BY <1>2 DEF SchedulerInductive
  <2> HIDE DEF due, at
  <2> QED BY <1>1, <1>2, <1>3, <1>4, <1>5, <2>1, <2>2 DEF BeginsSafely
<1> HIDE DEF due, at
<1>7. /\ lastSlot' \in [Jobs -> Nat] /\ missing' \in [Jobs -> Nat]
      /\ file' \in [Jobs -> File \cup {NoFile}] /\ job' \in [Jobs -> JobState]
      /\ runs' \in [Jobs -> Seq(RunRow)] /\ proc' \in [Jobs -> Seq(Goroutine)]
  BY <1>6, BeginTypes
<1>8. /\ Recorded(runs)' /\ UpTo(runs, lastSlot)' /\ Once(runs)' /\ Ahead(job, lastSlot)'
      /\ Paired(runs, proc)' /\ Pointed(job, proc)' /\ AllAgree(runs, proc)'
  BY <1>6, BeginKeeps
<1>9. spent' \in [events : Nat, faults : Nat, starts : Nat]
  <2>1. Cardinality(lost) \in Nat
    BY <1>4, FS_Subset, FS_CardinalityType, SchedulerAssumption
  <2>2. spent' = spent \/ spent' = [spent EXCEPT !.faults = @ + Cardinality(lost)]
    BY <1>1
  <2> QED BY <2>1, <2>2, SpentGrows DEF TypeOK
<1>10. excused' \in [Jobs -> Nat]
  BY <1>2 DEF Excused, TypeOK
<1>11. TypeOK'
  BY <1>2, <1>4, <1>7, <1>9, <1>10 DEF TypeOK
<1> QED BY <1>2, <1>8, <1>11 DEF SchedulerInductive

\* A run asked for by hand keeps the invariant.
LEMMA RunNowSteps ==
  ASSUME TypeOK, SchedulerInductive, NEW j \in Jobs, RunNow(j)
  PROVE  TypeOK' /\ SchedulerInductive'
<1> DEFINE r == Run(now, "manual", "running")
           q == [job[j] EXCEPT !.running = Len(runs[j]) + 1]
<1>1. PICK cold \in BOOLEAN : proc' = [proc EXCEPT ![j] = Append(@, Spawn(cold))]
  BY DEF RunNow
<1> DEFINE p == Spawn(cold)
<1>2. /\ now \in Nat /\ job[j] \in JobState /\ up # "down" /\ job[j].running = 0
      /\ runs \in [Jobs -> Seq(RunRow)] /\ proc \in [Jobs -> Seq(Goroutine)]
      /\ runs[j] \in Seq(RunRow) /\ proc[j] \in Seq(Goroutine) /\ Len(runs[j]) = Len(proc[j])
      /\ Len(runs[j]) \in Nat
  BY DEF RunNow, TypeOK, SchedulerInductive, Paired
<1>3. /\ runs' = [runs EXCEPT ![j] = Append(runs[j], r)] /\ job' = [job EXCEPT ![j] = q]
      /\ UNCHANGED <<now, up, file, changed, lastSlot, excused, missing>>
      /\ spent' = [spent EXCEPT !.events = @ + 1]
  BY DEF RunNow
<1>4. r \in RunRow /\ r.cause = "manual" /\ p \in Goroutine /\ Agrees(r, p)
  <2>1. r \in RunRow /\ r.cause = "manual"
    BY <1>2 DEF Run, RunRow
  <2>2. Agrees(r, p)
    BY DEF Agrees, Run, Spawn, Over
  <2> QED BY <2>1, <2>2, NewGoroutine
<1>5. /\ q \in JobState /\ q.file = job[j].file /\ q.next = job[j].next
      /\ q.running = Len(runs[j]) + 1
  <2> DEFINE n == Len(runs[j]) + 1
  <2>1. n \in Nat /\ q = [job[j] EXCEPT !.running = n]
    BY <1>2
  <2> HIDE DEF n, q
  <2>2. q \in JobState /\ q.file = job[j].file /\ q.next = job[j].next /\ q.running = n
    BY <1>2, <2>1 DEF JobState
  <2> QED BY <2>2 DEF n
<1> HIDE DEF r, q, p
<1>6. /\ runs' \in [Jobs -> Seq(RunRow)] /\ \A k \in Jobs \ {j} : runs'[k] = runs[k]
      /\ Len(runs'[j]) = Len(runs[j]) + 1
      /\ DOMAIN runs'[j] = DOMAIN runs[j] \cup {Len(runs[j]) + 1} /\ DOMAIN runs[j] = 1 .. Len(runs[j])
      /\ runs'[j][Len(runs[j]) + 1] = r /\ \A m \in DOMAIN runs[j] : runs'[j][m] = runs[j][m]
  <2>1. Append(runs[j], r) \in Seq(RunRow)
    BY <1>2, <1>4
  <2>2. runs'[j] = Append(runs[j], r)
    BY <1>2, <1>3
  <2> QED BY <1>2, <1>3, <1>4, <2>1, <2>2, AppendedSeq
<1>7. /\ proc' \in [Jobs -> Seq(Goroutine)] /\ \A k \in Jobs \ {j} : proc'[k] = proc[k]
      /\ Len(proc'[j]) = Len(runs[j]) + 1
      /\ DOMAIN proc'[j] = DOMAIN runs[j] \cup {Len(runs[j]) + 1} /\ DOMAIN proc[j] = DOMAIN runs[j]
      /\ proc'[j][Len(runs[j]) + 1] = p /\ \A m \in DOMAIN proc[j] : proc'[j][m] = proc[j][m]
  <2>1. Append(proc[j], p) \in Seq(Goroutine)
    BY <1>2, <1>4
  <2>2. proc'[j] = Append(proc[j], p) /\ proc' = [proc EXCEPT ![j] = Append(proc[j], p)]
    BY <1>1, <1>2 DEF p
  <2>3. DOMAIN proc[j] = DOMAIN runs[j]
    BY <1>2
  <2> QED BY <1>2, <1>4, <2>1, <2>2, <2>3, AppendedSeq
<1>8. /\ job' \in [Jobs -> JobState] /\ job'[j].running = Len(runs[j]) + 1
      /\ \A k \in Jobs : job'[k].file = job[k].file /\ job'[k].next = job[k].next
      /\ \A k \in Jobs \ {j} : job'[k] = job[k]
  BY <1>3, <1>5 DEF TypeOK
<1>9. TypeOK'
  <2>1. spent' \in [events : Nat, faults : Nat, starts : Nat]
    BY <1>3, SpentGrows DEF TypeOK
  <2> QED BY <1>3, <1>6, <1>7, <1>8, <2>1 DEF TypeOK
<1>10. /\ Recorded(runs) /\ UpTo(runs, lastSlot) /\ Once(runs) /\ Ahead(job, lastSlot)
       /\ Paired(runs, proc) /\ Pointed(job, proc) /\ AllAgree(runs, proc)
  BY <1>2 DEF SchedulerInductive
<1>11. Recorded(runs)' /\ UpTo(runs, lastSlot)' /\ Once(runs)'
  <2>1. ASSUME NEW k \in Jobs, NEW m \in DOMAIN runs'[k], runs'[k][m].cause # "manual"
        PROVE  m \in DOMAIN runs[k] /\ runs'[k][m] = runs[k][m]
    BY <1>4, <1>6, <2>1
  <2> QED BY <1>3, <1>10, <2>1 DEF Recorded, UpTo, Once
<1>12. Ahead(job, lastSlot)' /\ Paired(runs, proc)'
  BY <1>2, <1>3, <1>6, <1>7, <1>8, <1>10 DEF Ahead, Paired
<1>13. Pointed(job, proc)'
  <2>1. ASSUME NEW m \in DOMAIN proc'[j], proc'[j][m].pc # "gone" PROVE job'[j].running = m
    <3>1. m \in DOMAIN proc[j] => proc[j][m].pc = "gone"
      <4>1. \A k \in DOMAIN proc[j] : k # 0 /\ (proc[j][k].pc # "gone" => job[j].running = k)
        BY <1>2, <1>10 DEF Pointed
      <4> QED BY <1>2, <4>1
    <3> QED BY <1>7, <1>8, <2>1, <3>1
  <2>2. ASSUME NEW k \in Jobs \ {j}, NEW m \in DOMAIN proc'[k], proc'[k][m].pc # "gone"
        PROVE  job'[k].running = m
    BY <1>7, <1>8, <1>10, <2>2 DEF Pointed
  <2> QED BY <2>1, <2>2 DEF Pointed
<1>14. AllAgree(runs, proc)'
  <2>1. ASSUME NEW m \in DOMAIN runs'[j] PROVE Agrees(runs'[j][m], proc'[j][m])
    BY <1>4, <1>6, <1>7, <1>10 DEF AllAgree
  <2>2. ASSUME NEW k \in Jobs \ {j}, NEW m \in DOMAIN runs'[k]
        PROVE  Agrees(runs'[k][m], proc'[k][m])
    BY <1>6, <1>7, <1>10 DEF AllAgree
  <2> QED BY <2>1, <2>2 DEF AllAgree
<1> QED BY <1>2, <1>3, <1>9, <1>11, <1>12, <1>13, <1>14 DEF SchedulerInductive

\* The last slots that are recorded are the latest ones.
LEMMA LastSlotsAre ==
  ASSUME TypeOK, Recorded(runs)
  PROVE  LastCronSlots(runs) \in [Jobs -> Nat] /\ UpTo(runs, LastCronSlots(runs))
<1> DEFINE S(j) == {runs[j][i].slot : i \in {k \in DOMAIN runs[j] : runs[j][k].cause # "manual"}}
<1>1. ASSUME NEW j \in Jobs
      PROVE  Latest(S(j)) \in Nat /\ \A s \in S(j) : s <= Latest(S(j))
  <2>1. S(j) \in SUBSET Nat
    BY RowTypes DEF TypeOK
  <2>2. \A s \in S(j) : s <= now
    BY DEF Recorded
  <2>3. now \in Nat
    BY DEF TypeOK
  <2> HIDE DEF S
  <2> QED BY <2>1, <2>2, <2>3, LatestIs
<1>2. LastCronSlots(runs) = [j \in Jobs |-> Latest(S(j))]
  BY DEF LastCronSlots
<1>3. \A j \in Jobs : \A i \in DOMAIN runs[j] : runs[j][i].cause # "manual" => runs[j][i].slot \in S(j)
  OBVIOUS
<1> HIDE DEF S
<1> QED BY <1>1, <1>2, <1>3 DEF UpTo

\* What the last process left is failed, and nothing else of it changes.
LEMMA UnfinishedFail ==
  ASSUME TypeOK
  PROVE  /\ FailUnfinished \in [Jobs -> Seq(RunRow)]
         /\ \A j \in Jobs : /\ Len(FailUnfinished[j]) = Len(runs[j])
                            /\ DOMAIN FailUnfinished[j] = DOMAIN runs[j]
         /\ \A j \in Jobs : \A i \in DOMAIN FailUnfinished[j] :
              /\ FailUnfinished[j][i].slot = runs[j][i].slot
              /\ FailUnfinished[j][i].cause = runs[j][i].cause
              /\ FailUnfinished[j][i].started = runs[j][i].started
              /\ FailUnfinished[j][i].state # "running"
<1> DEFINE R == FailUnfinished
<1>1. ASSUME NEW j \in Jobs
      PROVE  /\ R[j] \in Seq(RunRow) /\ Len(R[j]) = Len(runs[j]) /\ DOMAIN R[j] = DOMAIN runs[j]
             /\ \A i \in DOMAIN R[j] :
                  /\ R[j][i].slot = runs[j][i].slot /\ R[j][i].cause = runs[j][i].cause
                  /\ R[j][i].started = runs[j][i].started
                  /\ R[j][i].state # "running"
  <2> DEFINE e == [i \in DOMAIN runs[j] |->
                     IF runs[j][i].state = "running" THEN [runs[j][i] EXCEPT !.state = "failed"]
                     ELSE runs[j][i]]
  <2>1. R[j] = e /\ runs[j] \in Seq(RunRow)
    BY DEF FailUnfinished, TypeOK
  <2>2. \A r \in RunRow : /\ [r EXCEPT !.state = "failed"] \in RunRow
                          /\ [r EXCEPT !.state = "failed"].slot = r.slot
                          /\ [r EXCEPT !.state = "failed"].cause = r.cause
                          /\ [r EXCEPT !.state = "failed"].started = r.started
                          /\ [r EXCEPT !.state = "failed"].state = "failed"
    BY DEF RunRow
  <2>3. \A i \in DOMAIN runs[j] : runs[j][i] \in RunRow
    BY <2>1, RowTypes
  <2>4. e \in [DOMAIN runs[j] -> RunRow]
    BY <2>2, <2>3
  <2>5. \A i \in DOMAIN runs[j] :
          /\ e[i].slot = runs[j][i].slot /\ e[i].cause = runs[j][i].cause
          /\ e[i].started = runs[j][i].started /\ e[i].state # "running"
    BY <2>2, <2>3
  <2> HIDE DEF e
  <2> QED BY <2>1, <2>4, <2>5, MappedSeq
<1>2. R = [j \in Jobs |-> R[j]]
  BY DEF FailUnfinished
<1> HIDE DEF R
<1>3. /\ R \in [Jobs -> Seq(RunRow)]
      /\ \A j \in Jobs : Len(R[j]) = Len(runs[j]) /\ DOMAIN R[j] = DOMAIN runs[j]
      /\ \A j \in Jobs : \A i \in DOMAIN R[j] :
           /\ R[j][i].slot = runs[j][i].slot /\ R[j][i].cause = runs[j][i].cause
           /\ R[j][i].started = runs[j][i].started /\ R[j][i].state # "running"
  BY <1>1, <1>2
<1> QED BY <1>3 DEF R

\* The start of the process, with the slots it missed, keeps the invariant.
LEMMA StartSteps ==
  ASSUME TypeOK, SchedulerInductive, Start
  PROVE  TypeOK' /\ SchedulerInductive'
<1> DEFINE L == LastCronSlots(runs)
           can == {j \in Jobs : file[j] # NoFile /\ Runnable(file[j])}
           at == [j \in Jobs |-> IF j \in can THEN Missed(file[j], L[j]) ELSE 0]
           due == {j \in can : at[j] # 0}
           J == [j \in Jobs |->
                   [file |-> file[j], running |-> 0,
                    next |-> IF j \in can THEN NextAfter(file[j], now, L[j]) ELSE 0]]
<1>1. PICK lost \in SUBSET due, cold \in SUBSET due :
        /\ spent' = [spent EXCEPT !.faults = @ + Cardinality(lost), !.starts = @ + 1]
        /\ Begin(J, L, FailUnfinished, due, at, "catch_up", lost, cold)
  BY DEF Start
<1>2. /\ up = "down" /\ up' = "up" /\ changed' = {j \in due : file'[j] # file[j]} /\ UNCHANGED now
      /\ excused' = [j \in Jobs |-> IF file[j] = NoFile \/ Window = 0 THEN now
                                ELSE Later(IF now > Window THEN now - Window ELSE 0, file[j].mod)]
  BY DEF Start
<1>3. L \in [Jobs -> Nat] /\ UpTo(runs, L)
  BY LastSlotsAre DEF SchedulerInductive
<1>4. /\ now \in Nat /\ \A j \in Jobs : file[j] \in File \cup {NoFile} /\ L[j] \in Nat
      /\ \A j \in can : file[j] \in File
  BY <1>3 DEF TypeOK
<1> HIDE DEF L
<1>5. at \in [Jobs -> Nat] /\ \A j \in due : L[j] < at[j] /\ at[j] <= now
  BY <1>4, MissedIsLater
<1>6. J \in [Jobs -> JobState] /\ Ahead(J, L) /\ \A j \in due : J[j].file # NoFile
  <2>1. \A j \in can : NextAfter(file[j], now, L[j]) \in Nat
                      /\ (NextAfter(file[j], now, L[j]) # 0 => L[j] < NextAfter(file[j], now, L[j]))
    BY <1>4, NextIsLater
  <2> QED BY <1>4, <2>1 DEF JobState, Ahead
<1>7. \A j \in Jobs : \A i \in DOMAIN proc[j] : proc[j][i] = Over
  BY <1>2 DEF SchedulerInductive
<1>8. Pointed(J, proc)
  BY <1>7 DEF Pointed, Over
<1> DEFINE R == FailUnfinished
<1>9. /\ R \in [Jobs -> Seq(RunRow)]
      /\ \A j \in Jobs : Len(R[j]) = Len(runs[j]) /\ DOMAIN R[j] = DOMAIN runs[j]
      /\ \A j \in Jobs : \A i \in DOMAIN R[j] :
           /\ R[j][i].slot = runs[j][i].slot /\ R[j][i].cause = runs[j][i].cause
           /\ R[j][i].state # "running"
  BY UnfinishedFail
<1> HIDE DEF R
<1>10. Recorded(R) /\ Once(R) /\ UpTo(R, L) /\ Paired(R, proc) /\ AllAgree(R, proc)
  <2>1. Recorded(runs) /\ Once(runs) /\ UpTo(runs, L) /\ Paired(runs, proc)
    BY <1>3 DEF SchedulerInductive
  <2>2. Recorded(R) /\ Once(R) /\ UpTo(R, L) /\ Paired(R, proc)
    <3>1. Recorded(R) /\ UpTo(R, L)
      BY <1>9, <2>1 DEF Recorded, UpTo
    <3>2. Once(R)
      BY <1>9, <2>1 DEF Once
    <3>3. Paired(R, proc)
      BY <1>9, <2>1 DEF Paired
    <3> QED BY <3>1, <3>2, <3>3
  <2>3. \A r : r.state # "running" => Agrees(r, Over)
    BY DEF Agrees, Over
  <2>4. ASSUME NEW j \in Jobs, NEW i \in DOMAIN R[j] PROVE proc[j][i] = Over
    BY <1>7, <1>9, <2>1 DEF Paired, TypeOK
  <2> QED BY <1>9, <2>2, <2>3, <2>4 DEF AllAgree
<1>11. due \in SUBSET Jobs /\ changed' \in SUBSET Jobs
  BY <1>2
<1>12. BeginsSafely(J, L, R, due, at, "catch_up", lost, cold)
  <2>1. Begin(J, L, R, due, at, "catch_up", lost, cold)
    BY <1>1 DEF R
  <2> HIDE DEF J, at, due, can
  <2> QED BY <1>1, <1>2, <1>3, <1>5, <1>6, <1>8, <1>9, <1>10, <1>11, <2>1 DEF BeginsSafely
<1> HIDE DEF J, at, due, can
<1>13. /\ lastSlot' \in [Jobs -> Nat] /\ missing' \in [Jobs -> Nat]
       /\ file' \in [Jobs -> File \cup {NoFile}] /\ job' \in [Jobs -> JobState]
       /\ runs' \in [Jobs -> Seq(RunRow)] /\ proc' \in [Jobs -> Seq(Goroutine)]
  BY <1>12, BeginTypes
<1>14. /\ Recorded(runs)' /\ UpTo(runs, lastSlot)' /\ Once(runs)' /\ Ahead(job, lastSlot)'
       /\ Paired(runs, proc)' /\ Pointed(job, proc)' /\ AllAgree(runs, proc)'
  BY <1>12, BeginKeeps
<1>15. spent' \in [events : Nat, faults : Nat, starts : Nat]
  <2>1. Cardinality(lost) \in Nat
    BY <1>11, FS_Subset, FS_CardinalityType, SchedulerAssumption
  <2> QED BY <1>1, <2>1, SpentGrows
<1>16. excused' \in [Jobs -> Nat]
  <2>1. \A f \in File : f.mod \in Nat
    BY DEF File
  <2>2. Window \in Nat
    BY SchedulerAssumption
  <2> QED BY <1>2, <1>4, <2>1, <2>2 DEF Later
<1>17. TypeOK'
  BY <1>2, <1>11, <1>13, <1>15, <1>16 DEF TypeOK
<1> QED BY <1>2, <1>14, <1>17 DEF SchedulerInductive

\* The steps that leave the jobs in memory and their runs alone.
LEMMA OutsideSteps ==
  ASSUME TypeOK, SchedulerInductive,
         (\E j \in Jobs : Edit(j)) \/ Tick \/ Stop \/ UNCHANGED vars
  PROVE  TypeOK' /\ SchedulerInductive'
<1>1. /\ UNCHANGED <<job, lastSlot, runs, proc, excused, missing>>
      /\ now' \in Nat /\ now <= now'
      /\ up' = up \/ (up = "up" /\ up' = "stopping")
  BY DEF TypeOK, Edit, Tick, Stop, vars
<1>2. file' \in [Jobs -> File \cup {NoFile}] /\ changed' \in SUBSET Jobs
      /\ spent' \in [events : Nat, faults : Nat, starts : Nat]
  <2>1. CASE \E j \in Jobs : Edit(j)
    <3>1. PICK j \in Jobs : Edit(j)
      BY <2>1
    <3>2. PICK f \in [plan : Plans, mod : {now}, enabled : BOOLEAN] \cup {NoFile} :
            file' = [file EXCEPT ![j] = f]
      BY <3>1 DEF Edit
    <3>3. f \in File \cup {NoFile}
      BY SchedulerAssumption DEF File, TypeOK
    <3> QED BY <3>1, <3>2, <3>3, SpentGrows DEF Edit, TypeOK
  <2>2. CASE Tick \/ Stop \/ UNCHANGED vars
    BY <2>2 DEF Tick, Stop, vars, TypeOK
  <2> QED BY <2>1, <2>2
<1>3. TypeOK'
  BY <1>1, <1>2 DEF TypeOK
<1>4. Recorded(runs)'
  <2>1. \A j \in Jobs : \A i \in DOMAIN runs[j] : runs[j][i].slot \in Nat
    BY RowTypes DEF TypeOK
  <2>2. Recorded(runs) /\ now \in Nat
    BY DEF SchedulerInductive, TypeOK
  <2> QED BY <1>1, <2>1, <2>2 DEF Recorded
<1>5. Once(runs)' /\ Ahead(job, lastSlot)' /\ Paired(runs, proc)' /\ Pointed(job, proc)'
  <2>1. Once(runs) /\ Ahead(job, lastSlot) /\ Paired(runs, proc) /\ Pointed(job, proc)
    BY DEF SchedulerInductive
  <2>2. Once(runs)' /\ Paired(runs, proc)'
    BY <1>1, <2>1 DEF Once, Paired
  <2>3. Ahead(job, lastSlot)' /\ Pointed(job, proc)'
    BY <1>1, <2>1 DEF Ahead, Pointed
  <2> QED BY <2>2, <2>3
<1>6. /\ (up # "down" => UpTo(runs, lastSlot) /\ AllAgree(runs, proc))'
      /\ (up = "down" => \A j \in Jobs : \A i \in DOMAIN proc[j] : proc[j][i] = Over)'
  BY <1>1 DEF SchedulerInductive, UpTo, AllAgree
<1> QED BY <1>3, <1>4, <1>5, <1>6 DEF SchedulerInductive

\* Of a process that is gone only its files and rows are left.
LEMMA DownSteps ==
  ASSUME TypeOK, SchedulerInductive, Exit \/ Crash
  PROVE  TypeOK' /\ SchedulerInductive'
<1>1. Down /\ UNCHANGED runs
  BY DEF Exit, Crash
<1>2. file' \in [Jobs -> File \cup {NoFile}]
  <2>1. CASE Exit
    BY <2>1 DEF Exit, TypeOK
  <2>2. CASE Crash
    <3>1. \A j \in Jobs : file[j] \in File \cup {NoFile} /\ job[j].next \in Nat /\ now \in Nat
      BY DEF TypeOK, JobState
    <3>2. CASE UNCHANGED file
      BY <3>2 DEF TypeOK
    <3>3. ASSUME NEW j \in Jobs, file[j] # NoFile, NEW how \in {"half", "whole"},
                 file' = [file EXCEPT ![j] = Finished(@, job[j].next)[how]]
          PROVE  file' \in [Jobs -> File \cup {NoFile}]
      <4>1. Finished(file[j], job[j].next)[how] \in File
        BY <3>1, <3>3, FinishedIsFile
      <4> QED BY <3>3, <4>1 DEF TypeOK
    <3> QED BY <2>2, <3>2, <3>3 DEF Crash
  <2> QED BY <2>1, <2>2
<1>3. ASSUME NEW j \in Jobs
      PROVE  /\ proc'[j] \in Seq(Goroutine) /\ Len(proc'[j]) = Len(proc[j])
             /\ \A i \in DOMAIN proc'[j] : proc'[j][i] = Over
  <2> DEFINE e == [i \in DOMAIN proc[j] |-> Over]
  <2>1. proc'[j] = e /\ proc[j] \in Seq(Goroutine)
    BY <1>1 DEF Down, TypeOK
  <2>2. e \in [DOMAIN proc[j] -> Goroutine] /\ \A i \in DOMAIN e : e[i] = Over
    BY NewGoroutine
  <2> HIDE DEF e
  <2> QED BY <2>1, <2>2, MappedSeq
<1>4. TypeOK'
  <2>1. proc' \in [Jobs -> Seq(Goroutine)]
    BY <1>1, <1>3 DEF Down
  <2>2. Unloaded \in JobState
    BY DEF Unloaded, JobState
  <2> QED BY <1>1, <1>2, <2>1, <2>2 DEF Down, TypeOK
<1>5. Recorded(runs)' /\ Once(runs)'
  BY <1>1 DEF Down, SchedulerInductive, Recorded, Once
<1>6. Ahead(job, lastSlot)' /\ Paired(runs, proc)' /\ Pointed(job, proc)'
  <2>1. Paired(runs, proc)'
    BY <1>1, <1>3 DEF SchedulerInductive, Paired
  <2>2. Ahead(job, lastSlot)'
    BY <1>1 DEF Down, Unloaded, Ahead
  <2>3. Pointed(job, proc)'
    BY <1>3 DEF Pointed, Over
  <2> QED BY <2>1, <2>2, <2>3
<1> QED BY <1>1, <1>3, <1>4, <1>5, <1>6 DEF Down, SchedulerInductive

\* The scheduler begins in the invariant.
LEMMA SchedulerBegins == Init => TypeOK /\ SchedulerInductive
<1> SUFFICES ASSUME Init PROVE TypeOK /\ SchedulerInductive
  OBVIOUS
<1>1. file \in [Jobs -> File \cup {NoFile}]
  <2> DEFINE E == {TRUE}
  <2>1. ASSUME NEW f \in [plan : Plans, mod : {0}, enabled : E] PROVE f \in File
    <3>1. E \subseteq BOOLEAN /\ Plans \subseteq Plan /\ {0} \subseteq Nat
      BY SchedulerAssumption
    <3> HIDE DEF E
    <3> QED BY <3>1 DEF File
  <2> QED BY <2>1 DEF Init
<1>2. Unloaded \in JobState /\ <<>> \in Seq(RunRow) /\ <<>> \in Seq(Goroutine)
  BY DEF Unloaded, JobState
<1>3. TypeOK
  BY <1>1, <1>2 DEF Init, TypeOK
<1>4. \A j \in Jobs : runs[j] = <<>> /\ proc[j] = <<>> /\ job[j] = Unloaded /\ up = "down"
  BY DEF Init
<1>5. SchedulerInductive
  <2>1. DOMAIN <<>> = {}
    OBVIOUS
  <2>2. Recorded(runs) /\ Once(runs) /\ Pointed(job, proc) /\ Paired(runs, proc)
    BY <1>4, <2>1 DEF Recorded, Once, Pointed, Paired
  <2>3. Ahead(job, lastSlot)
    BY <1>4 DEF Ahead, Unloaded
  <2>4. up = "down" /\ \A j \in Jobs : \A i \in DOMAIN proc[j] : proc[j][i] = Over
    BY <1>4, <2>1 DEF Init
  <2> QED BY <2>2, <2>3, <2>4 DEF SchedulerInductive
<1> QED BY <1>3, <1>5

------------------------------------------------------------------------------
(* Theorems *)

\* The invariant holds in every state the scheduler reaches.
LEMMA SchedulerInvariant == Spec => [](TypeOK /\ SchedulerInductive)
<1>1. Init => TypeOK /\ SchedulerInductive
  BY SchedulerBegins
<1>2. (TypeOK /\ SchedulerInductive) /\ [NextStep]_vars => (TypeOK /\ SchedulerInductive)'
  BY GoroutineSteps, RescanSteps, PassSteps, RunNowSteps, StartSteps, OutsideSteps, DownSteps
     DEF NextStep
<1> QED BY <1>1, <1>2, PTL DEF Spec

\* Every variable of the scheduler keeps its type.
THEOREM SchedulerTypes == Spec => []TypeOK
BY SchedulerInvariant, PTL

\* No slot of a job is run, skipped or caught up twice, across edits of its file,
\* restarts and crashes (lastSlot, LastCronSlots, missed): for any jobs, schedules
\* and times.
THEOREM SlotsRunOnce == Spec => []NoSlotTwice
<1>1. SchedulerInductive => NoSlotTwice
  BY DEF SchedulerInductive, Once, NoSlotTwice, Scheduled
<1> QED BY SchedulerInvariant, <1>1, PTL

\* Runs of a job never stack, whatever becomes of its file meanwhile (jobState.running
\* across rescanLocked): for any jobs and any number of runs.
THEOREM RunsStackNever == Spec => []RunsNeverStack
<1>1. SchedulerInductive => RunsNeverStack
  BY DEF SchedulerInductive, Pointed, RunsNeverStack, Live
<1> QED BY SchedulerInvariant, <1>1, PTL

\* What is recorded of a run is what happened in its turn (finishUnattendedLocked,
\* CronOutcome.Result, finish): for any number of prompts and failures.
THEOREM RowsTellTheTurn == Spec => []RecordsAgree
<1>1. TypeOK /\ SchedulerInductive => RecordsAgree
  <2> SUFFICES ASSUME TypeOK, SchedulerInductive, NEW j \in Jobs, NEW i \in DOMAIN runs[j]
      PROVE  LET r == runs[j][i]  p == proc[j][i] IN
             /\ r.state = "running" /\ up # "down" => p.pc # "gone" \/ p.torn
             /\ p.pc = "saved" /\ r.state = "ok" => p.end = "done" /\ (p.denied => p.torn)
             /\ p.pc = "saved" /\ r.state = "needs_attention" => p.end = "done" /\ p.denied
    BY DEF RecordsAgree
  <2>1. CASE up # "down"
    BY <2>1 DEF SchedulerInductive, AllAgree, Agrees
  <2>2. CASE up = "down"
    <3>1. i \in DOMAIN proc[j]
      BY DEF TypeOK, SchedulerInductive, Paired
    <3> QED BY <2>2, <3>1 DEF SchedulerInductive, Over
  <2> QED BY <2>1, <2>2
<1> QED BY SchedulerInvariant, <1>1, PTL

------------------------------------------------------------------------------
(* Slots that are accounted for *)

\* A run that started at x or later is recorded, and not as asked for by hand.
Covered(r, x) == \E i \in DOMAIN r : r[i].cause # "manual" /\ x <= r[i].started

\* Every slot of the file job j is loaded from is accounted for.
Owed(j) ==
  job[j].file # NoFile /\ Runnable(job[j].file) =>
    \A s \in Slots(job[j].file) :
      \/ s <= excused[j]
      \/ Covered(runs[j], s)
      \/ s <= missing[j]
      \/ job[j].next # 0 /\ job[j].next <= s

\* No run is recorded for a slot to come.
StartedLate(R) ==
  \A j \in Jobs : \A i \in DOMAIN R[j] : R[j][i].cause # "manual" => R[j][i].slot <= R[j][i].started

SlotInv ==
  /\ \A j \in Jobs : lastSlot[j] <= now
  /\ StartedLate(runs)
  /\ up # "down" => \A j \in Jobs : Owed(j)

\* The next slot is the first one after the times it has to be after.
LEMMA NextIsFirst ==
  ASSUME NEW f \in File, NEW t \in Nat, NEW last \in Nat, last <= t, NEW s \in Slots(f), s > t
  PROVE  NextAfter(f, t, last) # 0 /\ NextAfter(f, t, last) <= s
<1> DEFINE S == {x \in Slots(f) : x > t}
<1>1. S \in SUBSET Nat /\ s \in S /\ S # {} /\ \A x \in S : x > t
  BY SlotsAreTimes
<1>2. NextAfter(f, t, last) = Earliest(S)
  <2>1. Later(t, last) = t
    BY DEF Later
  <2> QED BY <2>1 DEF NextAfter, Next
<1> HIDE DEF S
<1>3. Earliest(S) \in S /\ \A x \in S : Earliest(S) <= x
  <2>1. \E x \in S : \A y \in S : x <= y
    BY <1>1, LeastExists
  <2> QED BY <1>1, <2>1 DEF Earliest
<1>4. Earliest(S) # 0
  BY <1>1, <1>3
<1> QED BY <1>1, <1>2, <1>3, <1>4

\* The slot that is caught up on is the latest within reach.
LEMMA MissedIsLast ==
  ASSUME NEW f \in File, NEW last \in Nat, now \in Nat, Window # 0, NEW s \in Slots(f),
         s > Later(last, f.mod), s + Window > now, s <= now
  PROVE  s <= Missed(f, last)
<1> DEFINE S == {x \in Slots(f) : x > Later(last, f.mod) /\ x + Window > now /\ x <= now}
<1>1. S \in SUBSET Nat /\ s \in S /\ \A x \in S : x <= now
  BY SlotsAreTimes
<1>2. Missed(f, last) = Latest(S)
  BY DEF Missed
<1> HIDE DEF S
<1>3. \A x \in S : x <= Latest(S)
  BY <1>1, LatestIs
<1> QED BY <1>1, <1>2, <1>3

\* The last slot a run is recorded for is covered by that run.
LEMMA LastIsCovered ==
  ASSUME TypeOK, Recorded(runs), StartedLate(runs), NEW j \in Jobs,
         NEW s \in Nat, s <= LastCronSlots(runs)[j]
  PROVE  s = 0 \/ Covered(runs[j], s)
<1> DEFINE S == {runs[j][i].slot : i \in {k \in DOMAIN runs[j] : runs[j][k].cause # "manual"}}
<1>1. runs[j] \in Seq(RunRow)
  BY DEF TypeOK
<1>2. S \in SUBSET Nat /\ \A x \in S : x <= now
  BY <1>1, RowTypes DEF Recorded
<1>3. LastCronSlots(runs)[j] = Latest(S)
  BY DEF LastCronSlots
<1>4. \A x \in S : \E i \in DOMAIN runs[j] :
        runs[j][i].cause # "manual" /\ runs[j][i].slot = x /\ x <= runs[j][i].started
  BY DEF StartedLate
<1> HIDE DEF S
<1>5. Latest(S) = 0 \/ Latest(S) \in S
  <2>1. now \in Nat
    BY DEF TypeOK
  <2> QED BY <1>2, <2>1, LatestIs
<1>6. CASE Latest(S) = 0
  BY <1>3, <1>6
<1>7. CASE Latest(S) \in S
  <2>1. PICK i \in DOMAIN runs[j] :
          runs[j][i].cause # "manual" /\ Latest(S) <= runs[j][i].started
    BY <1>4, <1>7
  <2>2. Latest(S) \in Nat /\ runs[j][i].started \in Nat
    BY <1>1, <1>2, <1>7, RowTypes DEF RunRow
  <2>3. s <= runs[j][i].started
    BY <1>3, <2>1, <2>2
  <2> QED BY <2>1, <2>3 DEF Covered
<1> QED BY <1>5, <1>6, <1>7

\* The last slots that are recorded have come.
LEMMA LastSlotsHaveCome ==
  ASSUME TypeOK, Recorded(runs), NEW j \in Jobs
  PROVE  LastCronSlots(runs)[j] <= now
<1> DEFINE S == {runs[j][i].slot : i \in {k \in DOMAIN runs[j] : runs[j][k].cause # "manual"}}
<1>1. runs[j] \in Seq(RunRow) /\ now \in Nat
  BY DEF TypeOK
<1>2. S \in SUBSET Nat /\ \A x \in S : x <= now
  BY <1>1, RowTypes DEF Recorded
<1>3. LastCronSlots(runs)[j] = Latest(S)
  BY DEF LastCronSlots
<1> HIDE DEF S
<1>4. Latest(S) = 0 \/ Latest(S) \in S
  <2>1. \E b \in Nat : \A x \in S : x <= b
    BY <1>1, <1>2
  <2>2. PICK b \in Nat : \A x \in S : x <= b
    BY <2>1
  <2> QED BY <1>2, <2>2, LatestIs
<1>5. Latest(S) <= now
  <2>1. CASE Latest(S) = 0
    BY <1>1, <2>1
  <2>2. CASE Latest(S) \in S
    BY <1>2, <2>2
  <2> QED BY <1>4, <2>1, <2>2
<1> QED BY <1>3, <1>5

\* startLocked is called for slots that have come.
BeginsInTime(J, L, R, due, at, cause, lost, cold) ==
  /\ J \in [Jobs -> JobState] /\ L \in [Jobs -> Nat] /\ R \in [Jobs -> Seq(RunRow)]
  /\ due \in SUBSET Jobs /\ lost \in SUBSET due /\ at \in [Jobs -> Nat]
  /\ cause \in {"schedule", "catch_up"}
  /\ \A j \in due : at[j] <= now
  /\ \A j \in Jobs : L[j] <= now
  /\ StartedLate(R)
  /\ Begin(J, L, R, due, at, cause, lost, cold)

\* What startLocked leaves of the slots of job j.
LEMMA BeginCounts ==
  ASSUME TypeOK, NEW J, NEW L, NEW R, NEW due, NEW at, NEW cause, NEW lost, NEW cold,
         BeginsInTime(J, L, R, due, at, cause, lost, cold), NEW j \in Jobs
  PROVE  /\ lastSlot'[j] \in Nat /\ lastSlot'[j] <= now
         /\ job'[j].file = J[j].file
         /\ \A i \in DOMAIN runs'[j] :
              runs'[j][i].cause # "manual" => runs'[j][i].slot <= runs'[j][i].started
         /\ \A x \in Nat : Covered(R[j], x) => Covered(runs'[j], x)
         /\ j \notin due => job'[j] = J[j] /\ missing'[j] = missing[j]
         /\ j \in due =>
              /\ job'[j].next = NextAfter(J[j].file, now, lastSlot'[j])
              /\ missing'[j] = now \/ Covered(runs'[j], now)
<1> /\ J \in [Jobs -> JobState] /\ L \in [Jobs -> Nat] /\ R \in [Jobs -> Seq(RunRow)]
    /\ due \in SUBSET Jobs /\ lost \in SUBSET due /\ at \in [Jobs -> Nat]
    /\ cause \in {"schedule", "catch_up"}
  BY DEF BeginsInTime
<1> /\ \A k \in due : at[k] <= now
    /\ \A k \in Jobs : L[k] <= now
    /\ StartedLate(R)
    /\ Begin(J, L, R, due, at, cause, lost, cold)
  BY DEF BeginsInTime
<1> DEFINE r == Run(at[j], cause, IF J[j].running = 0 THEN "running" ELSE "skipped")
<1>1. /\ now \in Nat /\ J[j] \in JobState /\ L[j] \in Nat /\ at[j] \in Nat /\ R[j] \in Seq(RunRow)
  BY DEF TypeOK
<1>2. /\ lastSlot'[j] = IF j \in due THEN Later(L[j], at[j]) ELSE L[j]
      /\ missing'[j] = IF j \in lost THEN now ELSE missing[j]
      /\ runs'[j] = IF j \in due \ lost THEN Append(R[j], r) ELSE R[j]
  BY DEF Begin
<1>3. lastSlot'[j] \in Nat /\ lastSlot'[j] <= now
  BY <1>1, <1>2 DEF Later
<1>4. /\ job'[j].file = J[j].file
      /\ j \notin due => job'[j] = J[j]
      /\ j \in due => job'[j].next = NextAfter(J[j].file, now, lastSlot'[j])
  <2> DEFINE g == IF j \in due \ lost /\ J[j].running = 0 THEN Len(R[j]) + 1 ELSE J[j].running
             n == NextAfter(J[j].file, now, lastSlot'[j])
  <2>1. job'[j] = IF j \in due THEN [J[j] EXCEPT !.running = g, !.next = n] ELSE J[j]
    BY <1>1, <1>2 DEF Begin, JobState
  <2> HIDE DEF g, n
  <2>2. j \in due => job'[j].file = J[j].file /\ job'[j].next = n
    BY <1>1, <2>1 DEF JobState
  <2> QED BY <2>1, <2>2 DEF n
<1>5. r \in RunRow /\ r.cause # "manual" /\ r.slot = at[j] /\ r.started = now
  BY <1>1 DEF Run, RunRow
<1> HIDE DEF r
<1>6. /\ \A i \in DOMAIN runs'[j] :
           runs'[j][i].cause # "manual" => runs'[j][i].slot <= runs'[j][i].started
      /\ \A x \in Nat : Covered(R[j], x) => Covered(runs'[j], x)
      /\ j \in due \ lost => Covered(runs'[j], now)
  <2>1. \A i \in DOMAIN R[j] : R[j][i].cause # "manual" => R[j][i].slot <= R[j][i].started
    BY DEF StartedLate
  <2>2. CASE j \notin due \ lost
    BY <1>2, <2>1, <2>2
  <2>3. CASE j \in due \ lost
    <3>1. /\ DOMAIN runs'[j] = DOMAIN R[j] \cup {Len(R[j]) + 1}
          /\ runs'[j][Len(R[j]) + 1] = r
          /\ \A i \in DOMAIN R[j] : runs'[j][i] = R[j][i]
      BY <1>1, <1>2, <1>5, <2>3, AppendedSeq
    <3>2. at[j] <= now /\ now <= now
      BY <1>1, <2>3
    <3>3. Covered(runs'[j], now)
      BY <1>5, <3>1, <3>2 DEF Covered
    <3>4. \A x \in Nat : Covered(R[j], x) => Covered(runs'[j], x)
      BY <3>1 DEF Covered
    <3>5. \A i \in DOMAIN runs'[j] :
            runs'[j][i].cause # "manual" => runs'[j][i].slot <= runs'[j][i].started
      BY <1>5, <2>1, <3>1, <3>2
    <3> QED BY <3>3, <3>4, <3>5
  <2> QED BY <2>2, <2>3
<1> QED BY <1>2, <1>3, <1>4, <1>6

\* A time up to another that is covered is covered.
LEMMA CoveredBefore ==
  ASSUME NEW r \in Seq(RunRow), NEW x \in Nat, NEW y \in Nat, x <= y, Covered(r, y)
  PROVE  Covered(r, x)
<1>1. PICK i \in DOMAIN r : r[i].cause # "manual" /\ y <= r[i].started
  BY DEF Covered
<1>2. r[i].started \in Nat
  BY RowTypes DEF RunRow
<1> QED BY <1>1, <1>2 DEF Covered

\* Steps that leave the slots of job j alone.
LEMMA OwedStill ==
  ASSUME TypeOK, NEW j \in Jobs, Owed(j), job'[j].file = job[j].file, job'[j].next = job[j].next,
         excused'[j] = excused[j], missing'[j] = missing[j],
         \A x \in Nat : Covered(runs[j], x) => Covered(runs'[j], x)
  PROVE  Owed(j)'
<1> SUFFICES ASSUME job[j].file # NoFile, Runnable(job[j].file), NEW s \in Slots(job[j].file)
             PROVE  \/ s <= excused[j] \/ Covered(runs'[j], s) \/ s <= missing[j]
                    \/ job[j].next # 0 /\ job[j].next <= s
  BY DEF Owed
<1>1. job[j] \in JobState
  BY DEF TypeOK
<1>2. job[j].file \in File
  BY <1>1 DEF JobState
<1>3. s \in Nat
  BY <1>2, SlotsAreTimes
<1> QED BY <1>3 DEF Owed

\* A job whose next slot is planned from now on, when all slots until now are
\* accounted for.
LEMMA OwedAnew ==
  ASSUME TypeOK', now \in Nat, NEW j \in Jobs, NEW last \in Nat, last <= now,
         job'[j].file # NoFile /\ Runnable(job'[j].file) =>
           job'[j].next = NextAfter(job'[j].file, now, last),
         now <= excused'[j] \/ Covered(runs'[j], now) \/ now <= missing'[j]
  PROVE  Owed(j)'
<1> SUFFICES ASSUME job'[j].file # NoFile, Runnable(job'[j].file), NEW s \in Slots(job'[j].file)
             PROVE  \/ s <= excused'[j] \/ Covered(runs'[j], s) \/ s <= missing'[j]
                    \/ job'[j].next # 0 /\ job'[j].next <= s
  BY DEF Owed
<1>1. /\ job'[j] \in JobState /\ runs'[j] \in Seq(RunRow)
      /\ excused'[j] \in Nat /\ missing'[j] \in Nat
  BY DEF TypeOK
<1>2. job'[j].file \in File
  BY <1>1 DEF JobState
<1>3. s \in Nat
  BY <1>2, SlotsAreTimes
<1>4. CASE s > now
  <2>1. job'[j].next = NextAfter(job'[j].file, now, last)
    OBVIOUS
  <2>2. NextAfter(job'[j].file, now, last) # 0 /\ NextAfter(job'[j].file, now, last) <= s
    BY <1>2, <1>4, NextIsFirst
  <2> QED BY <2>1, <2>2
<1>5. CASE s <= now
  <2>1. CASE Covered(runs'[j], now)
    BY <1>1, <1>3, <1>5, <2>1, CoveredBefore
  <2>2. CASE now <= excused'[j] \/ now <= missing'[j]
    BY <1>1, <1>3, <1>5, <2>2
  <2> QED BY <2>1, <2>2
<1> QED BY <1>3, <1>4, <1>5

\* rescanLocked: what is loaded anew is excused until now.
LEMMA OwedRescanned ==
  ASSUME TypeOK, TypeOK', NEW j \in Jobs, Owed(j), lastSlot[j] <= now,
         job'[j] = Rescanned(j), excused'[j] = Excused[j], missing'[j] = missing[j],
         \A x \in Nat : Covered(runs[j], x) => Covered(runs'[j], x)
  PROVE  Owed(j)'
<1>1. job[j] \in JobState /\ now \in Nat /\ lastSlot[j] \in Nat
  BY DEF TypeOK
<1>2. CASE IsNew(j)
  <2> DEFINE n == IF Runnable(file[j]) THEN NextAfter(file[j], now, lastSlot[j]) ELSE 0
  <2>1. job'[j] = [job[j] EXCEPT !.file = file[j], !.next = n]
    BY <1>2 DEF Rescanned
  <2> HIDE DEF n
  <2>2. job'[j].file = file[j] /\ job'[j].next = n
    BY <1>1, <2>1 DEF JobState
  <2>3. Runnable(job'[j].file) => job'[j].next = NextAfter(job'[j].file, now, lastSlot[j])
    BY <2>2 DEF n
  <2>4. now <= excused'[j]
    BY <1>1, <1>2 DEF Excused
  <2> QED BY <1>1, <2>3, <2>4, OwedAnew
<1>3. CASE ~IsNew(j) /\ file[j] = NoFile /\ job[j].running = 0
  BY <1>3 DEF Rescanned, Unloaded, Owed
<1>4. CASE ~IsNew(j) /\ ~(file[j] = NoFile /\ job[j].running = 0)
  <2>1. job'[j] = job[j]
    BY <1>4 DEF Rescanned
  <2>2. excused'[j] = excused[j]
    BY <1>4 DEF Excused
  <2> QED BY <2>1, <2>2, OwedStill
<1> QED BY <1>2, <1>3, <1>4

\* A rescan keeps every slot accounted for.
LEMMA RescanCounts ==
  ASSUME TypeOK, TypeOK', SlotInv, Rescan
  PROVE  SlotInv'
<1>1. up # "down" /\ UNCHANGED <<now, up, lastSlot, runs, missing>>
  BY DEF Rescan
<1>2. ASSUME NEW j \in Jobs PROVE Owed(j)'
  <2>1. Owed(j) /\ lastSlot[j] <= now
    BY <1>1 DEF SlotInv
  <2>2. job'[j] = Rescanned(j) /\ excused'[j] = Excused[j] /\ missing'[j] = missing[j]
    BY DEF Rescan
  <2> QED BY <1>1, <2>1, <2>2, OwedRescanned
<1> QED BY <1>1, <1>2 DEF SlotInv, StartedLate

\* So does a pass of the loop, with a rescan or without.
LEMMA PassCounts ==
  ASSUME TypeOK, SchedulerInductive, TypeOK', SlotInv, NEW scan \in BOOLEAN, Pass(scan)
  PROVE  SlotInv'
<1> DEFINE J == IF scan THEN [j \in Jobs |-> Rescanned(j)] ELSE job
           due == {j \in Jobs : J[j].next # 0 /\ J[j].next <= now}
           at == [j \in Jobs |-> J[j].next]
<1>1. PICK lost \in SUBSET due, cold \in SUBSET due :
        Begin(J, lastSlot, runs, due, at, "schedule", lost, cold)
  BY DEF Pass
<1>2. up # "down" /\ UNCHANGED <<now, up>> /\ excused' = IF scan THEN Excused ELSE excused
  BY DEF Pass
<1>3. J \in [Jobs -> JobState]
  BY RescanKeeps DEF TypeOK
<1>4. due \in SUBSET Jobs /\ \A j \in due : at[j] <= now
  OBVIOUS
<1> HIDE DEF J
<1>5. at \in [Jobs -> Nat]
  BY <1>3 DEF JobState
<1>6. /\ lastSlot \in [Jobs -> Nat] /\ runs \in [Jobs -> Seq(RunRow)] /\ now \in Nat
      /\ (\A j \in Jobs : lastSlot[j] <= now /\ Owed(j)) /\ StartedLate(runs)
  BY <1>2 DEF TypeOK, SlotInv
<1> HIDE DEF due, at
<1>7. ASSUME NEW j \in Jobs
      PROVE  /\ lastSlot'[j] \in Nat /\ lastSlot'[j] <= now
             /\ \A i \in DOMAIN runs'[j] :
                  runs'[j][i].cause # "manual" => runs'[j][i].slot <= runs'[j][i].started
             /\ \A x \in Nat : Covered(runs[j], x) => Covered(runs'[j], x)
             /\ j \notin due => job'[j] = J[j] /\ missing'[j] = missing[j]
             /\ j \in due =>
                  /\ job'[j].next = NextAfter(job'[j].file, now, lastSlot'[j])
                  /\ missing'[j] = now \/ Covered(runs'[j], now)
  <2>1. BeginsInTime(J, lastSlot, runs, due, at, "schedule", lost, cold)
    BY <1>1, <1>3, <1>4, <1>5, <1>6 DEF BeginsInTime
  <2> QED BY <2>1, BeginCounts
<1>8. ASSUME NEW j \in Jobs PROVE Owed(j)'
  <2>1. CASE j \in due
    <3>1. now <= missing'[j] \/ Covered(runs'[j], now)
      BY <1>6, <1>7, <2>1
    <3> QED BY <1>6, <1>7, <2>1, <3>1, OwedAnew
  <2>2. CASE j \notin due /\ scan
    <3>1. job'[j] = Rescanned(j) /\ excused'[j] = Excused[j]
      BY <1>2, <1>7, <2>2 DEF J
    <3> QED BY <1>6, <1>7, <2>2, <3>1, OwedRescanned
  <2>3. CASE j \notin due /\ ~scan
    <3>1. job'[j] = job[j] /\ excused'[j] = excused[j]
      BY <1>2, <1>7, <2>3 DEF J
    <3> QED BY <1>6, <1>7, <2>3, <3>1, OwedStill
  <2> QED BY <2>1, <2>2, <2>3
<1> QED BY <1>2, <1>7, <1>8 DEF SlotInv, StartedLate
\* So does a start: up to the last recorded slot runs cover, the latest after it
\* is caught up on, and what is out of reach is excused.
LEMMA StartCounts ==
  ASSUME TypeOK, SchedulerInductive, TypeOK', SlotInv, Start
  PROVE  SlotInv'
<1> DEFINE L == LastCronSlots(runs)
           R == FailUnfinished
           can == {j \in Jobs : file[j] # NoFile /\ Runnable(file[j])}
           at == [j \in Jobs |-> IF j \in can THEN Missed(file[j], L[j]) ELSE 0]
           due == {j \in can : at[j] # 0}
           J == [j \in Jobs |->
                   [file |-> file[j], running |-> 0,
                    next |-> IF j \in can THEN NextAfter(file[j], now, L[j]) ELSE 0]]
<1>1. PICK lost \in SUBSET due, cold \in SUBSET due :
        Begin(J, L, R, due, at, "catch_up", lost, cold)
  BY DEF Start
<1>2. /\ up' = "up" /\ UNCHANGED now
      /\ excused' = [j \in Jobs |-> IF file[j] = NoFile \/ Window = 0 THEN now
                                ELSE Later(IF now > Window THEN now - Window ELSE 0, file[j].mod)]
  BY DEF Start
<1>3. Recorded(runs) /\ StartedLate(runs) /\ now \in Nat /\ Window \in Nat
  BY SchedulerAssumption DEF SchedulerInductive, SlotInv, TypeOK
<1>4. L \in [Jobs -> Nat] /\ \A j \in Jobs : L[j] <= now
  BY <1>3, LastSlotsAre, LastSlotsHaveCome
<1>5. \A j \in Jobs : \A s \in Nat : s <= L[j] => s = 0 \/ Covered(runs[j], s)
  BY <1>3, LastIsCovered
<1>6. /\ \A j \in Jobs : file[j] \in File \cup {NoFile} /\ L[j] \in Nat
      /\ \A j \in can : file[j] \in File
  BY <1>4 DEF TypeOK
<1> HIDE DEF L
<1>7. at \in [Jobs -> Nat] /\ \A j \in due : at[j] <= now
  BY <1>3, <1>6, MissedIsLater
<1>8. J \in [Jobs -> JobState]
  <2>1. \A j \in can : NextAfter(file[j], now, L[j]) \in Nat
    BY <1>3, <1>6, NextIsLater
  <2> QED BY <1>6, <2>1 DEF JobState
<1>9. /\ R \in [Jobs -> Seq(RunRow)] /\ StartedLate(R)
      /\ \A j \in Jobs : \A x \in Nat : Covered(runs[j], x) => Covered(R[j], x)
  <2>1. /\ R \in [Jobs -> Seq(RunRow)]
        /\ \A j \in Jobs : DOMAIN R[j] = DOMAIN runs[j]
        /\ \A j \in Jobs : \A i \in DOMAIN R[j] :
             /\ R[j][i].slot = runs[j][i].slot /\ R[j][i].cause = runs[j][i].cause
             /\ R[j][i].started = runs[j][i].started
    BY UnfinishedFail
  <2> HIDE DEF R
  <2>2. StartedLate(R)
    BY <1>3, <2>1 DEF StartedLate
  <2> QED BY <2>1, <2>2 DEF Covered
<1>10. BeginsInTime(J, L, R, due, at, "catch_up", lost, cold)
  <2>1. due \in SUBSET Jobs
    OBVIOUS
  <2> HIDE DEF R, J, at, due, can
  <2> QED BY <1>1, <1>4, <1>7, <1>8, <1>9, <2>1 DEF BeginsInTime
<1>11. ASSUME NEW j \in Jobs
       PROVE  /\ lastSlot'[j] \in Nat /\ lastSlot'[j] <= now
              /\ job'[j].file = J[j].file
              /\ \A i \in DOMAIN runs'[j] :
                   runs'[j][i].cause # "manual" => runs'[j][i].slot <= runs'[j][i].started
              /\ \A x \in Nat : Covered(R[j], x) => Covered(runs'[j], x)
              /\ j \notin due => job'[j] = J[j]
              /\ j \in due =>
                   /\ job'[j].next = NextAfter(J[j].file, now, lastSlot'[j])
                   /\ missing'[j] = now \/ Covered(runs'[j], now)
  <2> HIDE DEF R, J, at, due, can
  <2> QED BY <1>10, BeginCounts
<1>12. ASSUME NEW j \in Jobs PROVE Owed(j)'
  <2>0. /\ J[j].file = file[j]
        /\ J[j].next = IF j \in can THEN NextAfter(file[j], now, L[j]) ELSE 0
        /\ at[j] = IF j \in can THEN Missed(file[j], L[j]) ELSE 0
    OBVIOUS
  <2>1. job'[j].file = file[j]
    <3> HIDE DEF R, J, at, due, can
    <3> QED BY <1>11, <2>0
  <2>2. CASE j \in due
    <3>1. now <= missing'[j] \/ Covered(runs'[j], now)
      <4> HIDE DEF R, J, at, due, can
      <4> QED BY <1>3, <1>11, <2>2
    <3>2. job'[j].next = NextAfter(job'[j].file, now, lastSlot'[j])
      BY <1>11, <2>1, <2>2
    <3> HIDE DEF R, J, at, due, can
    <3> QED BY <1>3, <1>11, <3>1, <3>2, OwedAnew
  <2>3. CASE j \notin can
    BY <2>1, <2>3 DEF Owed
  <2>4. CASE j \in can \ due
    <3>a. j \in can /\ j \notin due /\ at[j] = 0
      BY <2>4
    <3>1. job'[j].next = NextAfter(file[j], now, L[j]) /\ Missed(file[j], L[j]) = 0
      <4> HIDE DEF R, J, at, due, can
      <4> QED BY <1>11, <2>0, <3>a
    <3>2. /\ file[j] \in File /\ file[j] # NoFile /\ L[j] \in Nat /\ L[j] <= now
          /\ file[j].mod \in Nat
      BY <1>4, <1>6, <2>4 DEF File
    <3>3. SUFFICES ASSUME NEW s \in Slots(file[j])
                   PROVE  \/ s <= excused'[j] \/ Covered(runs'[j], s)
                          \/ job'[j].next # 0 /\ job'[j].next <= s
      BY <2>1 DEF Owed
    <3>4. s \in Nat
      BY <3>2, SlotsAreTimes
    <3>5. CASE s > now
      BY <1>3, <3>1, <3>2, <3>5, NextIsFirst
    <3>6. CASE s <= L[j]
      <4>1. s = 0 \/ Covered(runs'[j], s)
        BY <1>5, <1>9, <1>11, <3>4, <3>6
      <4>2. excused'[j] \in Nat
        BY DEF TypeOK
      <4> QED BY <4>1, <4>2
    <3>7. CASE s <= now /\ s > L[j]
      <4>1. CASE Window = 0
        BY <1>2, <3>7, <4>1
      <4>2. CASE Window # 0
        <5>1. excused'[j] = Later(IF now > Window THEN now - Window ELSE 0, file[j].mod)
          BY <1>2, <3>2, <4>2
        <5>2. s <= excused'[j] \/ (s > file[j].mod /\ s + Window > now /\ s > 0)
          BY <1>3, <3>2, <3>4, <5>1 DEF Later
        <5>3. s > Later(L[j], file[j].mod) \/ s <= excused'[j]
          BY <3>7, <5>2 DEF Later
        <5>4. s <= excused'[j] \/ s <= Missed(file[j], L[j])
          BY <1>3, <3>2, <3>7, <4>2, <5>2, <5>3, MissedIsLast
        <5> QED BY <3>1, <3>4, <5>2, <5>4
      <4> QED BY <4>1, <4>2
    <3> QED BY <1>3, <3>2, <3>4, <3>5, <3>6, <3>7
  <2> QED BY <2>2, <2>3, <2>4
<1> HIDE DEF R, J, at, due, can
<1> QED BY <1>2, <1>11, <1>12 DEF SlotInv, StartedLate

\* What the steps that are no pass, rescan, start or end of the process may change
\* of jobs in memory and recorded runs.
Leaves ==
  /\ UNCHANGED <<lastSlot, excused, missing>>
  /\ now' = now \/ now' = now + 1
  /\ up' # "down" => up # "down"
  /\ \/ UNCHANGED job
     \/ \E k \in Jobs : \E n : job' = [job EXCEPT ![k].running = n]
  /\ \/ UNCHANGED runs
     \/ \E k \in Jobs : runs' = [runs EXCEPT ![k] = Append(@, Run(now, "manual", "running"))]
     \/ \E k \in Jobs : \E m : \E s : runs' = [runs EXCEPT ![k][m].state = s]

\* The steps these are.
LEMMA OtherLeaves ==
  ASSUME \/ \E j \in Jobs : Edit(j) \/ RunNow(j) \/ GoroutineStep(j) \/ PromptStep(j)
         \/ Tick \/ Stop \/ UNCHANGED vars
  PROVE  Leaves
<1>1. CASE Tick \/ Stop \/ UNCHANGED vars
  BY <1>1 DEF Tick, Stop, vars, Leaves
<1>2. ASSUME NEW j \in Jobs, Edit(j) PROVE Leaves
  BY <1>2 DEF Edit, Leaves
<1>3. ASSUME NEW j \in Jobs, RunNow(j) PROVE Leaves
  <2>1. \E n : job' = [job EXCEPT ![j].running = n]
    BY <1>3 DEF RunNow
  <2>2. /\ runs' = [runs EXCEPT ![j] = Append(@, Run(now, "manual", "running"))]
        /\ UNCHANGED <<now, up, lastSlot, excused, missing>>
    BY <1>3 DEF RunNow
  <2> QED BY <2>1, <2>2 DEF Leaves
<1>4. ASSUME NEW j \in Jobs, NEW i, NEW p, Step(j, i, p), UNCHANGED <<job, runs>> PROVE Leaves
  BY <1>4 DEF Step, Leaves
<1>5. ASSUME NEW j \in Jobs, GoroutineStep(j) PROVE Leaves
  <2>1. PICK i \in 1 .. Len(proc[j]) :
          EndTurn(j, i) \/ EndTurnFails(j, i) \/ Save(j, i) \/ Clear(j, i)
    BY <1>5 DEF GoroutineStep
  <2>2. CASE EndTurn(j, i)
    BY <1>4, <2>2 DEF EndTurn
  <2>3. CASE EndTurnFails(j, i)
    BY <1>4, <2>3 DEF EndTurnFails
  <2>4. CASE Save(j, i)
    <3>1. UNCHANGED <<now, up, lastSlot, excused, missing, job>>
      BY <2>4 DEF Save, Step
    <3>2. UNCHANGED runs \/ \E s : runs' = [runs EXCEPT ![j][i].state = s]
      BY <2>4 DEF Save
    <3> QED BY <3>1, <3>2 DEF Leaves
  <2>5. CASE Clear(j, i)
    <3>1. UNCHANGED <<now, up, lastSlot, excused, missing, runs>>
      BY <2>5 DEF Clear, Step
    <3>2. UNCHANGED job \/ \E n : job' = [job EXCEPT ![j].running = n]
      BY <2>5 DEF Clear
    <3> QED BY <3>1, <3>2 DEF Leaves
  <2> QED BY <2>1, <2>2, <2>3, <2>4, <2>5
<1>6. ASSUME NEW j \in Jobs, PromptStep(j) PROVE Leaves
  <2>1. PICK i \in 1 .. Len(proc[j]) :
          RefuseAtOnce(j, i) \/ Ask(j, i) \/ Allow(j, i) \/ Deny(j, i)
    BY <1>6 DEF PromptStep
  <2>2. \E p : Step(j, i, p)
    BY <2>1 DEF RefuseAtOnce, Ask, Allow, Deny
  <2>3. UNCHANGED <<job, runs>>
    BY <2>1 DEF RefuseAtOnce, Ask, Allow, Deny
  <2> QED BY <1>4, <2>2, <2>3
<1> QED BY <1>1, <1>2, <1>3, <1>5, <1>6

\* The steps that leave the slots of every job alone: the recorded runs only grow
\* by runs asked for, and keep what they began as.
LEMMA OtherCounts ==
  ASSUME TypeOK, TypeOK', SlotInv,
         \/ \E j \in Jobs : Edit(j) \/ RunNow(j) \/ GoroutineStep(j) \/ PromptStep(j)
         \/ Tick \/ Stop \/ UNCHANGED vars
  PROVE  SlotInv'
<1> Leaves
  BY OtherLeaves
<1>1. /\ UNCHANGED <<lastSlot, excused, missing>> /\ now <= now'
      /\ up' # "down" => up # "down"
  <2>1. now \in Nat /\ (now' = now \/ now' = now + 1)
    BY DEF TypeOK, Leaves
  <2>2. now <= now'
    BY <2>1
  <2> QED BY <2>2 DEF Leaves
<1>2. \A j \in Jobs : job'[j].file = job[j].file /\ job'[j].next = job[j].next
  <2> SUFFICES ASSUME NEW j \in Jobs PROVE job'[j].file = job[j].file /\ job'[j].next = job[j].next
    OBVIOUS
  <2>1. UNCHANGED job \/ \E k \in Jobs : \E n : job' = [job EXCEPT ![k].running = n]
    BY DEF Leaves
  <2>2. ASSUME NEW k \in Jobs, NEW n, job' = [job EXCEPT ![k].running = n]
        PROVE  job'[j].file = job[j].file /\ job'[j].next = job[j].next
    <3> DEFINE q == [job[k] EXCEPT !.running = n]
    <3>1. job[k] \in JobState
      BY DEF TypeOK
    <3>2. q.file = job[k].file /\ q.next = job[k].next
      BY <3>1 DEF JobState
    <3>3. job' = [job EXCEPT ![k] = q]
      BY <2>2
    <3> HIDE DEF q
    <3> QED BY <3>2, <3>3 DEF TypeOK
  <2> QED BY <2>1, <2>2
<1>3. ASSUME NEW j \in Jobs
      PROVE  /\ DOMAIN runs[j] \subseteq DOMAIN runs'[j]
             /\ \A i \in DOMAIN runs'[j] :
                  \/ runs'[j][i].cause = "manual" /\ i \notin DOMAIN runs[j]
                  \/ /\ i \in DOMAIN runs[j] /\ runs'[j][i].cause = runs[j][i].cause
                     /\ runs'[j][i].slot = runs[j][i].slot
                     /\ runs'[j][i].started = runs[j][i].started
  <2> DEFINE r == Run(now, "manual", "running")
  <2>1. runs[j] \in Seq(RunRow) /\ r \in RunRow /\ r.cause = "manual"
    BY DEF TypeOK, Run, RunRow
  <2> HIDE DEF r
  <2>2. \/ UNCHANGED runs
        \/ \E k \in Jobs : runs' = [runs EXCEPT ![k] = Append(@, r)]
        \/ \E k \in Jobs : \E m : \E s : runs' = [runs EXCEPT ![k][m].state = s]
    BY DEF r, Leaves
  <2>3. CASE UNCHANGED runs
    BY <2>3
  <2>4. ASSUME NEW k \in Jobs, runs' = [runs EXCEPT ![k] = Append(@, r)]
        PROVE  <1>3!2
    <3>1. CASE k # j
      BY <2>4, <3>1 DEF TypeOK
    <3>2. CASE k = j
      <4>1. runs'[j] = Append(runs[j], r)
        BY <2>4, <3>2 DEF TypeOK
      <4> QED BY <2>1, <4>1, AppendedSeq
    <3> QED BY <3>1, <3>2
  <2>5. ASSUME NEW k \in Jobs, NEW m, NEW s,
               runs' = [runs EXCEPT ![k][m].state = s]
        PROVE  <1>3!2
    <3>1. CASE k # j
      BY <2>5, <3>1 DEF TypeOK
    <3>2. CASE k = j
      <4> DEFINE q == [runs[j][m] EXCEPT !.state = s]
      <4>1. runs'[j] = [runs[j] EXCEPT ![m] = q]
        BY <2>5, <3>2 DEF TypeOK
      <4>2. m \in DOMAIN runs[j] =>
              q.cause = runs[j][m].cause /\ q.slot = runs[j][m].slot /\ q.started = runs[j][m].started
        BY <2>1, RowTypes DEF RunRow
      <4> HIDE DEF q
      <4>3. DOMAIN runs'[j] = DOMAIN runs[j]
        BY <4>1
      <4> QED BY <2>1, <4>1, <4>2, <4>3
    <3> QED BY <3>1, <3>2
  <2> QED BY <2>2, <2>3, <2>4, <2>5
<1>4. StartedLate(runs)'
  BY <1>3 DEF SlotInv, StartedLate
<1>5. \A j \in Jobs : \A x \in Nat : Covered(runs[j], x) => Covered(runs'[j], x)
  BY <1>3 DEF Covered
<1>6. up' # "down" => \A j \in Jobs : Owed(j)'
  <2> SUFFICES ASSUME up' # "down", NEW j \in Jobs PROVE Owed(j)'
    OBVIOUS
  <2>1. Owed(j)
    BY <1>1 DEF SlotInv
  <2> QED BY <1>1, <1>2, <1>5, <2>1, OwedStill
<1>7. \A j \in Jobs : lastSlot'[j] <= now'
  BY <1>1 DEF SlotInv, TypeOK
<1> QED BY <1>4, <1>6, <1>7 DEF SlotInv

\* Of a process that is gone no slot is owed.
LEMMA DownCounts ==
  ASSUME TypeOK, SlotInv, Exit \/ Crash
  PROVE  SlotInv'
<1>1. up' = "down" /\ lastSlot' = [j \in Jobs |-> 0] /\ now' = now /\ runs' = runs /\ now \in Nat
  BY DEF Exit, Crash, Down, TypeOK
<1> QED BY <1>1 DEF SlotInv, StartedLate

\* Slots are accounted for in every state that can be reached.
LEMMA SlotsCounted == Spec => [](TypeOK /\ SlotInv)
<1>1. Init => SlotInv
  BY DEF Init, SlotInv, StartedLate
<1>2. /\ TypeOK /\ SchedulerInductive /\ (TypeOK /\ SchedulerInductive)'
      /\ SlotInv /\ [NextStep]_vars
      => SlotInv'
  BY RescanCounts, PassCounts, StartCounts, OtherCounts, DownCounts DEF NextStep
<1> QED BY SchedulerInvariant, <1>1, <1>2, PTL DEF Spec

\* No slot is forgotten: of a job whose file is loaded as it stands, each comes
\* next or later, has a run recorded that started after it, could not be recorded,
\* or passed before the file was loaded or out of catch_up's reach (loop,
\* rescanLocked, startLocked, Start): for any jobs, schedules and times.
THEOREM NoSlotForgotten == Spec => []EverySlotAccounted
<1>1. SlotInv => EverySlotAccounted
  BY DEF SlotInv, Owed, Covered, EverySlotAccounted, Scheduled
<1> QED BY SlotsCounted, <1>1, PTL
==============================================================================
