---------------------------- MODULE WebhooksProofs ----------------------------
(***************************************************************************)
(* Proofs about Webhooks, for every set of deliveries, limits and requests: *)
(* repeats never run beside or after a run that counts, the runs at once    *)
(* stay within what concurrency ever allowed, and what is ignored has a run. *)
(***************************************************************************)
EXTENDS Webhooks, Integers, FiniteSetTheorems, TLAPS

States == {"queued", "running", "ok", "failed", "skipped"}
Procs == {"waiting", "live", "failed", "saved", "gone"}
RunRow == [delivery : Deliveries, state : States]

------------------------------------------------------------------------------
(* Sequences *)

\* One element replaced.
LEMMA UpdatedSeq ==
  ASSUME NEW S, NEW s \in Seq(S), NEW i \in DOMAIN s, NEW e \in S
  PROVE  /\ [s EXCEPT ![i] = e] \in Seq(S)
         /\ DOMAIN [s EXCEPT ![i] = e] = DOMAIN s /\ Len([s EXCEPT ![i] = e]) = Len(s)
         /\ [s EXCEPT ![i] = e][i] = e
         /\ \A k \in DOMAIN s : k # i => [s EXCEPT ![i] = e][k] = s[k]
OBVIOUS

\* One element more.
LEMMA AppendedSeq ==
  ASSUME NEW S, NEW s \in Seq(S), NEW e \in S
  PROVE  /\ Append(s, e) \in Seq(S) /\ Len(Append(s, e)) = Len(s) + 1
         /\ Len(s) \in Nat /\ DOMAIN s = 1 .. Len(s)
         /\ DOMAIN Append(s, e) = DOMAIN s \cup {Len(s) + 1}
         /\ Append(s, e)[Len(s) + 1] = e
         /\ \A i \in DOMAIN s : Append(s, e)[i] = s[i]
OBVIOUS

\* A function on the indices of a sequence is a sequence of the same length.
LEMMA MappedSeq ==
  ASSUME NEW S, NEW s \in Seq(S), NEW T, NEW f \in [DOMAIN s -> T]
  PROVE  f \in Seq(T) /\ Len(f) = Len(s) /\ DOMAIN f = DOMAIN s
<1>1. Len(s) \in Nat /\ DOMAIN s = 1 .. Len(s)
  OBVIOUS
<1>2. f \in [1 .. Len(s) -> T]
  BY <1>1
<1> QED BY <1>1, <1>2

\* A sequence over a set is one over any larger set.
LEMMA WiderSeq ==
  ASSUME NEW S, NEW s \in Seq(S), NEW T, S \subseteq T
  PROVE  s \in Seq(T)
<1>1. Len(s) \in Nat /\ s \in [1 .. Len(s) -> S]
  OBVIOUS
<1>2. s \in [1 .. Len(s) -> T]
  BY <1>1
<1> QED BY <1>1, <1>2

\* The first element taken off.
LEMMA TailSeq ==
  ASSUME NEW S, NEW s \in Seq(S), s # <<>>
  PROVE  /\ Tail(s) \in Seq(S) /\ Head(s) \in S /\ Head(s) = s[1] /\ 1 \in DOMAIN s
         /\ \A w \in DOMAIN Tail(s) : w + 1 \in DOMAIN s /\ w # 0 /\ Tail(s)[w] = s[w + 1]
         /\ \A w \in DOMAIN s : w = 1 \/ (w - 1 \in DOMAIN Tail(s) /\ Tail(s)[w - 1] = s[w])
OBVIOUS

\* Only the state of one row changes.
LEMMA SetState ==
  ASSUME NEW R \in Seq(RunRow), NEW i \in DOMAIN R, NEW x \in States
  PROVE  LET RR == [R EXCEPT ![i].state = x] IN
         /\ RR \in Seq(RunRow) /\ DOMAIN RR = DOMAIN R /\ Len(RR) = Len(R)
         /\ RR[i].state = x /\ RR[i].delivery = R[i].delivery
         /\ \A k \in DOMAIN R : k # i => RR[k] = R[k]
<1> DEFINE e == [R[i] EXCEPT !.state = x]
<1>1. R[i] \in RunRow
  OBVIOUS
<1>2. e \in RunRow /\ e.state = x /\ e.delivery = R[i].delivery
  BY <1>1 DEF RunRow
<1>3. [R EXCEPT ![i].state = x] = [R EXCEPT ![i] = e]
  OBVIOUS
<1> HIDE DEF e
<1> QED BY <1>2, <1>3, UpdatedSeq

------------------------------------------------------------------------------
(* The inductive invariant *)

\* The queue holds runs that wait, each once.
QueueWaits ==
  /\ \A w \in DOMAIN waiting : proc[waiting[w]] = "waiting"
  /\ \A v, w \in DOMAIN waiting : v # w => waiting[v] # waiting[w]

\* A row that says failed or skipped is of a goroutine that is over.
OverIsOver ==
  \A i \in DOMAIN rows : rows[i].state \in {"failed", "skipped"} => proc[i] \in {"saved", "gone"}

\* A process that is down has no queue, no requests and no goroutines.
DownIsEmpty ==
  up = "down" =>
    /\ waiting = <<>>
    /\ \A r \in Requests : request[r] = Idle
    /\ \A i \in DOMAIN proc : proc[i] = "gone"

\* A limit that was read is one the file had.
LimitsRead ==
  slots \in seenLimits /\ \A r \in Requests : request[r] # Idle => request[r].slots \in seenLimits

Busy == {"live", "failed", "saved"}
Active == {i \in DOMAIN proc : proc[i] \in Busy}

Bounded ==
  up = "up" =>
    /\ \E n \in seenLimits : running <= n
    /\ waiting # <<>> => \E n \in seenLimits : running >= n

WebhooksInductive ==
  /\ QueueWaits /\ OverIsOver /\ DownIsEmpty /\ LimitsRead
  /\ running = Cardinality(Active) /\ Bounded
  /\ RepeatsOnlyFailures /\ IgnoredForAReason

\* Why a repeat of run i's delivery is ignored, if it is.
Explained(i) ==
  \/ rows[i].state \in {"ok", "failed", "skipped"}
  \/ proc[i] \in {"live", "failed"}
  \/ \E w \in DOMAIN waiting : waiting[w] = i
  \/ i \in unsaved

\* What TypeOK says of the indices of rows, goroutines and queue.
LEMMA Typed ==
  ASSUME TypeOK
  PROVE  /\ rows \in Seq(RunRow) /\ proc \in Seq(Procs) /\ Len(proc) = Len(rows)
         /\ DOMAIN proc = DOMAIN rows /\ DOMAIN rows = 1 .. Len(rows) /\ Len(rows) \in Nat
         /\ waiting \in Seq(DOMAIN rows) /\ \A w \in DOMAIN waiting : waiting[w] \in DOMAIN rows
         /\ running \in Nat
<1>1. rows \in Seq(RunRow) /\ proc \in Seq(Procs) /\ waiting \in Seq(DOMAIN rows)
  BY DEF TypeOK, RunRow, States, Procs
<1>2. Len(proc) = Len(rows) /\ running \in Nat
  BY DEF TypeOK
<1> QED BY <1>1, <1>2

\* The goroutines that hold a slot can be counted.
LEMMA ActiveIsFinite ==
  ASSUME TypeOK
  PROVE  IsFiniteSet(Active) /\ Cardinality(Active) \in Nat
<1>1. IsFiniteSet(1 .. Len(rows))
  BY Typed, FS_Interval
<1>2. Active \in SUBSET (1 .. Len(rows))
  BY Typed DEF Active
<1> QED BY <1>1, <1>2, FS_Subset, FS_CardinalityType

------------------------------------------------------------------------------
(* Deliveries *)

\* accept adds the row of a delivery no earlier row of which counts.
LEMMA AdmitKeeps ==
  ASSUME TypeOK, WebhooksInductive, NEW r \in Requests, Admit(r),
         NEW state \in States, NEW p \in Procs,
         state \in {"failed", "skipped"} => p \in {"saved", "gone"},
         rows' = Append(rows, Row(r, state)), proc' = Append(proc, p)
  PROVE  /\ rows' \in Seq(RunRow) /\ proc' \in Seq(Procs) /\ Len(proc') = Len(rows')
         /\ DOMAIN rows' = DOMAIN rows \cup {Len(rows) + 1} /\ DOMAIN proc' = DOMAIN rows'
         /\ DOMAIN rows = DOMAIN proc /\ Len(rows) + 1 \notin DOMAIN rows
         /\ rows'[Len(rows) + 1].state = state /\ proc'[Len(rows) + 1] = p
         /\ \A i \in DOMAIN rows : rows'[i] = rows[i] /\ proc'[i] = proc[i]
         /\ waiting \in Seq(DOMAIN rows')
         /\ request' \in [Requests -> {Idle} \cup [delivery : Deliveries, slots : Limits]]
         /\ request[r].slots \in seenLimits
         /\ RepeatsOnlyFailures' /\ OverIsOver' /\ LimitsRead' /\ DownIsEmpty'
<1> DEFINE n == Len(rows) + 1
           d == request[r].delivery
           e == Row(r, state)
<1>1. request[r] # Idle /\ ~DeliverySeen(d) /\ up = "up"
  BY DEF Admit
<1>2. d \in Deliveries
  BY <1>1 DEF TypeOK
<1>3. e \in RunRow /\ e.delivery = d /\ e.state = state
  BY <1>2 DEF Row, RunRow
<1> HIDE DEF e, d
<1>4. /\ rows \in Seq(RunRow) /\ proc \in Seq(Procs) /\ Len(proc) = Len(rows) /\ DOMAIN proc = DOMAIN rows
      /\ Len(rows) \in Nat /\ DOMAIN rows = 1 .. Len(rows) /\ waiting \in Seq(DOMAIN rows)
  BY Typed
<1>5. rows' = Append(rows, e)
  BY DEF e
<1>6. /\ rows' \in Seq(RunRow) /\ DOMAIN rows' = DOMAIN rows \cup {n} /\ Len(rows') = n
      /\ rows'[n] = e /\ \A i \in DOMAIN rows : rows'[i] = rows[i]
  BY <1>3, <1>4, <1>5, AppendedSeq
<1>7. /\ proc' \in Seq(Procs) /\ DOMAIN proc' = DOMAIN rows' /\ Len(proc') = n
      /\ proc'[n] = p /\ \A i \in DOMAIN rows : proc'[i] = proc[i]
  BY <1>4, <1>6, AppendedSeq
<1>8. n \notin DOMAIN rows
  BY <1>4
<1>9. waiting \in Seq(DOMAIN rows')
  BY <1>4, <1>6, WiderSeq
<1>10. request' \in [Requests -> {Idle} \cup [delivery : Deliveries, slots : Limits]]
  BY DEF Admit, Answered, TypeOK
<1>11. OverIsOver'
  BY <1>3, <1>6, <1>7 DEF WebhooksInductive, OverIsOver
<1>12. RepeatsOnlyFailures'
  <2>1. \A i \in DOMAIN rows : rows[i].delivery = d => rows[i].state \in {"failed", "skipped"}
    BY <1>1 DEF DeliverySeen
  <2>2. \A i \in DOMAIN rows : rows[i].delivery = d =>
          rows[i].state \in {"failed", "skipped"} /\ proc[i] \in {"saved", "gone"}
    BY <2>1 DEF WebhooksInductive, OverIsOver
  <2>3. ASSUME NEW k \in DOMAIN rows', NEW i \in 1 .. k - 1, rows'[i].delivery = rows'[k].delivery
        PROVE  rows'[i].state \in {"failed", "skipped"} /\ proc'[i] \in {"saved", "gone"}
    <3>1. i \in DOMAIN rows
      BY <1>4, <1>6
    <3>2. CASE k = n
      BY <1>3, <1>6, <1>7, <2>2, <2>3, <3>1, <3>2
    <3>3. CASE k \in DOMAIN rows
      BY <1>6, <1>7, <2>3, <3>1, <3>3 DEF WebhooksInductive, RepeatsOnlyFailures
    <3> QED BY <1>6, <3>2, <3>3
  <2> QED BY <2>3 DEF RepeatsOnlyFailures
<1>13. LimitsRead' /\ request[r].slots \in seenLimits
  BY <1>1 DEF WebhooksInductive, LimitsRead, Admit, Answered, TypeOK
<1>14. DownIsEmpty'
  BY <1>1 DEF DownIsEmpty, Admit
<1> QED BY <1>3, <1>4, <1>6, <1>7, <1>8, <1>9, <1>10, <1>11, <1>12, <1>13, <1>14

\* A delivery that is skipped keeps the invariant.
LEMMA AcceptSkipsKeeps ==
  ASSUME TypeOK, WebhooksInductive, NEW r \in Requests, AcceptSkips(r)
  PROVE  TypeOK' /\ WebhooksInductive'
<1>1. /\ Admit(r) /\ rows' = Append(rows, Row(r, "skipped")) /\ proc' = Append(proc, "gone")
      /\ UNCHANGED <<up, slots, seenLimits, running, waiting, unsaved, spent>>
  BY DEF AcceptSkips, Admit
<1> DEFINE n == Len(rows) + 1
<1>2. "skipped" \in States /\ "gone" \in Procs
  BY DEF States, Procs
<1>3. /\ rows' \in Seq(RunRow) /\ proc' \in Seq(Procs) /\ Len(proc') = Len(rows')
      /\ DOMAIN rows' = DOMAIN rows \cup {n} /\ DOMAIN proc' = DOMAIN rows' /\ DOMAIN rows = DOMAIN proc
      /\ n \notin DOMAIN rows
      /\ rows'[n].state = "skipped" /\ proc'[n] = "gone"
      /\ \A i \in DOMAIN rows : rows'[i] = rows[i] /\ proc'[i] = proc[i]
      /\ waiting \in Seq(DOMAIN rows')
      /\ request' \in [Requests -> {Idle} \cup [delivery : Deliveries, slots : Limits]]
      /\ RepeatsOnlyFailures' /\ OverIsOver' /\ LimitsRead' /\ DownIsEmpty'
  BY <1>1, <1>2, AdmitKeeps
<1> HIDE DEF n
<1>4. TypeOK'
  BY <1>1, <1>3 DEF TypeOK, RunRow, States, Procs
<1>5. Active' = Active
  BY <1>3 DEF Active, Busy
<1>6. QueueWaits' /\ IgnoredForAReason'
  <2>1. \A w \in DOMAIN waiting : waiting[w] \in DOMAIN rows
    BY Typed
  <2> QED BY <1>1, <1>3, <2>1 DEF WebhooksInductive, QueueWaits, IgnoredForAReason
<1>7. Bounded' /\ running' = Cardinality(Active)
  BY <1>1 DEF WebhooksInductive, Bounded
<1> QED BY <1>3, <1>4, <1>5, <1>6, <1>7 DEF WebhooksInductive

\* A delivery that waits keeps the invariant.
LEMMA AcceptQueuesKeeps ==
  ASSUME TypeOK, WebhooksInductive, NEW r \in Requests, AcceptQueues(r)
  PROVE  TypeOK' /\ WebhooksInductive'
<1> DEFINE n == Len(rows) + 1
<1>1. /\ Admit(r) /\ rows' = Append(rows, Row(r, "queued")) /\ proc' = Append(proc, "waiting")
      /\ UNCHANGED <<up, slots, seenLimits, running, unsaved, spent>>
      /\ waiting' = Append(waiting, n) /\ ~Free(request[r].slots) /\ up = "up"
  BY DEF AcceptQueues, Admit
<1>2. "queued" \in States /\ "waiting" \in Procs
  BY DEF States, Procs
<1>3. /\ rows' \in Seq(RunRow) /\ proc' \in Seq(Procs) /\ Len(proc') = Len(rows')
      /\ DOMAIN rows' = DOMAIN rows \cup {n} /\ DOMAIN proc' = DOMAIN rows' /\ DOMAIN rows = DOMAIN proc
      /\ n \notin DOMAIN rows
      /\ rows'[n].state = "queued" /\ proc'[n] = "waiting"
      /\ \A i \in DOMAIN rows : rows'[i] = rows[i] /\ proc'[i] = proc[i]
      /\ waiting \in Seq(DOMAIN rows')
      /\ request' \in [Requests -> {Idle} \cup [delivery : Deliveries, slots : Limits]]
      /\ request[r].slots \in seenLimits
      /\ RepeatsOnlyFailures' /\ OverIsOver' /\ LimitsRead' /\ DownIsEmpty'
  BY <1>1, <1>2, AdmitKeeps
<1> HIDE DEF n
<1>4. /\ waiting' \in Seq(DOMAIN rows') /\ DOMAIN waiting' = DOMAIN waiting \cup {Len(waiting) + 1}
      /\ waiting'[Len(waiting) + 1] = n /\ \A w \in DOMAIN waiting : waiting'[w] = waiting[w]
  <2>1. n \in DOMAIN rows'
    BY <1>3
  <2> QED BY <1>1, <1>3, <2>1, AppendedSeq
<1>5. TypeOK'
  BY <1>1, <1>3, <1>4 DEF TypeOK, RunRow, States, Procs
<1>6. Active' = Active
  BY <1>3 DEF Active, Busy
<1>7. \A w \in DOMAIN waiting : waiting[w] \in DOMAIN rows
  BY Typed
<1>8. QueueWaits'
  <2>1. QueueWaits
    BY DEF WebhooksInductive
  <2> QED BY <1>3, <1>4, <1>7, <2>1 DEF QueueWaits
<1>9. IgnoredForAReason'
  <2>1. \A i \in DOMAIN rows : Explained(i)
    BY <1>1 DEF WebhooksInductive, IgnoredForAReason, Explained
  <2> QED BY <1>1, <1>3, <1>4, <2>1 DEF IgnoredForAReason, Explained
<1>10. Bounded' /\ running' = Cardinality(Active)
  <2>1. request[r].slots \in Nat /\ running \in Nat /\ running >= request[r].slots
    <3>1. \A k \in seenLimits : k \in Nat
      BY WebhooksAssumption DEF TypeOK
    <3>2. running \in Nat
      BY DEF TypeOK
    <3> QED BY <1>1, <1>3, <3>1, <3>2 DEF Free
  <2> QED BY <1>1, <1>3, <2>1 DEF WebhooksInductive, Bounded
<1> QED BY <1>3, <1>5, <1>6, <1>8, <1>9, <1>10 DEF WebhooksInductive

\* What a start comes to, whichever of its steps fail.
LEMMA StartTypes ==
  ASSUME NEW F \in SUBSET Faults
  PROVE  /\ Started(F) \in {"failed", "live"} /\ Stored(F) \in {"queued", "running"}
         /\ Started(F) \in Procs /\ Stored(F) \in States
         /\ Cardinality(F) \in Nat
<1>1. IsFiniteSet(Faults)
  <2>1. IsFiniteSet({}) /\ IsFiniteSet({} \cup {"cold"}) /\ IsFiniteSet(({} \cup {"cold"}) \cup {"lost"})
    BY FS_EmptySet, FS_AddElement
  <2>2. Faults = ({} \cup {"cold"}) \cup {"lost"}
    BY DEF Faults
  <2> QED BY <2>1, <2>2
<1> QED BY <1>1, FS_Subset, FS_CardinalityType DEF Started, Stored, States, Procs

\* The counter of failures stays a counter.
LEMMA FaultsSpent ==
  ASSUME TypeOK, NEW n \in Nat, Failure(n)
  PROVE  spent' \in [edits : Nat, faults : Nat, starts : Nat]
<1> DEFINE f == spent.faults + n
<1>1. spent \in [edits : Nat, faults : Nat, starts : Nat] /\ f \in Nat
  BY DEF TypeOK
<1>2. spent' = [spent EXCEPT !.faults = f]
  BY DEF Failure
<1> HIDE DEF f
<1> QED BY <1>1, <1>2

\* A delivery that starts at once keeps the invariant.
LEMMA AcceptStartsKeeps ==
  ASSUME TypeOK, WebhooksInductive, NEW r \in Requests, AcceptStarts(r)
  PROVE  TypeOK' /\ WebhooksInductive'
<1> DEFINE n == Len(rows) + 1
<1>1. /\ Admit(r) /\ running' = running + 1 /\ Free(request[r].slots) /\ up = "up"
      /\ UNCHANGED <<up, slots, seenLimits, waiting>>
  BY DEF AcceptStarts, Admit
<1>2. PICK F \in SUBSET Faults :
        /\ Failure(Cardinality(F))
        /\ rows' = Append(rows, Row(r, Stored(F))) /\ proc' = Append(proc, Started(F))
        /\ unsaved' = Unsaved(F, n)
  BY DEF AcceptStarts
<1> DEFINE x == Stored(F)
           p == Started(F)
<1>3. /\ p \in {"failed", "live"} /\ x \in {"queued", "running"}
      /\ p \in Procs /\ x \in States /\ Cardinality(F) \in Nat
  BY StartTypes
<1> HIDE DEF x, p
<1>4. /\ rows' \in Seq(RunRow) /\ proc' \in Seq(Procs) /\ Len(proc') = Len(rows')
      /\ DOMAIN rows' = DOMAIN rows \cup {n} /\ DOMAIN proc' = DOMAIN rows' /\ DOMAIN rows = DOMAIN proc
      /\ n \notin DOMAIN rows
      /\ rows'[n].state = x /\ proc'[n] = p
      /\ \A i \in DOMAIN rows : rows'[i] = rows[i] /\ proc'[i] = proc[i]
      /\ waiting \in Seq(DOMAIN rows')
      /\ request' \in [Requests -> {Idle} \cup [delivery : Deliveries, slots : Limits]]
      /\ request[r].slots \in seenLimits
      /\ RepeatsOnlyFailures' /\ OverIsOver' /\ LimitsRead' /\ DownIsEmpty'
  <2>1. rows' = Append(rows, Row(r, x)) /\ proc' = Append(proc, p)
    BY <1>2 DEF x, p
  <2>2. x \in {"failed", "skipped"} => p \in {"saved", "gone"}
    BY <1>3
  <2> QED BY <1>1, <1>3, <2>1, <2>2, AdmitKeeps
<1> HIDE DEF n
<1>5. unsaved' \in SUBSET DOMAIN rows'
  BY <1>2, <1>4 DEF Unsaved, TypeOK
<1>6. spent' \in [edits : Nat, faults : Nat, starts : Nat]
  BY <1>2, <1>3, FaultsSpent
<1>7. TypeOK'
  BY <1>1, <1>4, <1>5, <1>6 DEF TypeOK, RunRow, States, Procs
<1>8. running' = Cardinality(Active')
  <2>1. Active' = Active \cup {n} /\ n \notin Active
    BY <1>3, <1>4 DEF Active, Busy
  <2>2. running = Cardinality(Active)
    BY DEF WebhooksInductive
  <2> QED BY <1>1, <2>1, <2>2, ActiveIsFinite, FS_AddElement
<1>9. \A w \in DOMAIN waiting : waiting[w] \in DOMAIN rows
  BY Typed
<1>10. QueueWaits'
  BY <1>1, <1>4, <1>9 DEF WebhooksInductive, QueueWaits
<1>11. IgnoredForAReason'
  <2>1. \A i \in DOMAIN rows : Explained(i)
    BY <1>1 DEF WebhooksInductive, IgnoredForAReason, Explained
  <2>2. unsaved \subseteq unsaved'
    BY <1>2 DEF Unsaved
  <2> QED BY <1>1, <1>3, <1>4, <2>1, <2>2 DEF IgnoredForAReason, Explained
<1>12. Bounded'
  <2>1. request[r].slots \in Nat /\ running \in Nat /\ running + 1 <= request[r].slots
    BY <1>1, <1>4, WebhooksAssumption DEF Free, TypeOK
  <2>2. \A k \in seenLimits : k \in Nat
    BY WebhooksAssumption DEF TypeOK
  <2>3. waiting # <<>> => \E k \in seenLimits : running + 1 >= k
    BY <1>1, <2>1, <2>2 DEF WebhooksInductive, Bounded
  <2> QED BY <1>1, <1>4, <2>1, <2>3 DEF Bounded
<1> QED BY <1>4, <1>7, <1>8, <1>10, <1>11, <1>12 DEF WebhooksInductive

------------------------------------------------------------------------------
(* The end of a run *)

\* The row of a run that goes, or whose turn to go has come, changes: no other
\* row depended on it.
LEMMA RowKeeps ==
  ASSUME TypeOK, WebhooksInductive, NEW i \in DOMAIN rows,
         proc[i] \in {"live", "failed", "waiting"},
         UNCHANGED <<rows>> \/ \E x \in States : rows' = [rows EXCEPT ![i].state = x],
         proc' \in Seq(Procs), DOMAIN proc' = DOMAIN rows,
         rows'[i].state \in {"failed", "skipped"} => proc'[i] \in {"saved", "gone"},
         \A k \in DOMAIN rows : k # i => proc'[k] = proc[k] \/ proc'[k] \in {"saved", "gone"}
  PROVE  /\ rows' \in Seq(RunRow) /\ DOMAIN rows' = DOMAIN rows /\ Len(rows') = Len(rows)
         /\ \A k \in DOMAIN rows : k # i => rows'[k] = rows[k]
         /\ RepeatsOnlyFailures' /\ OverIsOver'
<1>1. rows \in Seq(RunRow)
  BY Typed
<1>2. /\ rows' \in Seq(RunRow) /\ DOMAIN rows' = DOMAIN rows /\ Len(rows') = Len(rows)
      /\ rows'[i].delivery = rows[i].delivery
      /\ \A k \in DOMAIN rows : k # i => rows'[k] = rows[k]
  <2>1. CASE UNCHANGED rows
    BY <1>1, <2>1
  <2>2. CASE \E x \in States : rows' = [rows EXCEPT ![i].state = x]
    BY <1>1, <2>2, SetState
  <2> QED BY <2>1, <2>2
<1>3. \A k \in DOMAIN rows : rows[k].state \in {"failed", "skipped"} => proc[k] \in {"saved", "gone"}
  BY DEF WebhooksInductive, OverIsOver
<1>4. OverIsOver'
  BY <1>2, <1>3 DEF OverIsOver
<1>5. RepeatsOnlyFailures'
  <2>1. ASSUME NEW k \in DOMAIN rows', NEW m \in 1 .. k - 1, rows'[m].delivery = rows'[k].delivery
        PROVE  rows'[m].state \in {"failed", "skipped"} /\ proc'[m] \in {"saved", "gone"}
    <3>1. m \in DOMAIN rows
      BY <1>1, <1>2
    <3>2. rows[m].delivery = rows[k].delivery
      BY <1>2, <2>1, <3>1
    <3>3. rows[m].state \in {"failed", "skipped"} /\ proc[m] \in {"saved", "gone"}
      BY <1>2, <3>2 DEF WebhooksInductive, RepeatsOnlyFailures
    <3>4. m # i
      BY <3>3
    <3> QED BY <1>2, <3>1, <3>3, <3>4
  <2> QED BY <2>1 DEF RepeatsOnlyFailures
<1> QED BY <1>2, <1>4, <1>5

\* Recording a run's outcome keeps the invariant.
LEMMA SaveKeeps ==
  ASSUME TypeOK, WebhooksInductive, NEW i \in DOMAIN proc, Save(i)
  PROVE  TypeOK' /\ WebhooksInductive'
<1>1. /\ proc[i] \in {"live", "failed"} /\ proc' = [proc EXCEPT ![i] = "saved"]
      /\ UNCHANGED <<up, slots, request, running, waiting, seenLimits>>
  BY DEF Save
<1>2. \/ rows' = [rows EXCEPT ![i].state = "ok"] /\ UNCHANGED <<unsaved, spent>>
      \/ rows' = [rows EXCEPT ![i].state = "failed"] /\ UNCHANGED <<unsaved, spent>>
      \/ Failure(1) /\ unsaved' = unsaved \cup {i} /\ UNCHANGED rows
  BY DEF Save
<1>3. /\ rows \in Seq(RunRow) /\ proc \in Seq(Procs) /\ DOMAIN proc = DOMAIN rows
      /\ Len(proc) = Len(rows) /\ i \in DOMAIN rows /\ waiting \in Seq(DOMAIN rows)
      /\ \A w \in DOMAIN waiting : waiting[w] \in DOMAIN rows
  BY Typed
<1>4. /\ proc' \in Seq(Procs) /\ DOMAIN proc' = DOMAIN rows /\ Len(proc') = Len(rows)
      /\ proc'[i] = "saved" /\ \A k \in DOMAIN rows : k # i => proc'[k] = proc[k]
  BY <1>1, <1>3, UpdatedSeq DEF Procs
<1>5. /\ rows' \in Seq(RunRow) /\ DOMAIN rows' = DOMAIN rows /\ Len(rows') = Len(rows)
      /\ \A k \in DOMAIN rows : k # i => rows'[k] = rows[k]
      /\ RepeatsOnlyFailures' /\ OverIsOver'
  <2>1. UNCHANGED <<rows>> \/ \E x \in States : rows' = [rows EXCEPT ![i].state = x]
    BY <1>2 DEF States
  <2> QED BY <1>1, <1>3, <1>4, <2>1, RowKeeps
<1>6. unsaved' \in SUBSET DOMAIN rows'
  BY <1>2, <1>3, <1>5 DEF TypeOK
<1>7. spent' \in [edits : Nat, faults : Nat, starts : Nat]
  BY <1>2, FaultsSpent DEF TypeOK
<1>8. TypeOK'
  BY <1>1, <1>3, <1>4, <1>5, <1>6, <1>7 DEF TypeOK, RunRow, States, Procs
<1>9. Active' = Active
  BY <1>1, <1>3, <1>4 DEF Active, Busy
<1>10. QueueWaits' /\ LimitsRead' /\ Bounded' /\ running' = Cardinality(Active)
  <2>1. \A w \in DOMAIN waiting : waiting[w] # i
    BY <1>1 DEF WebhooksInductive, QueueWaits
  <2> QED BY <1>1, <1>3, <1>4, <2>1 DEF WebhooksInductive, QueueWaits, LimitsRead, Bounded
<1>11. DownIsEmpty'
  BY <1>1 DEF Save, DownIsEmpty
<1>12. IgnoredForAReason'
  <2>1. rows'[i].state \in {"ok", "failed"} \/ i \in unsaved'
    <3>1. "ok" \in States /\ "failed" \in States
      BY DEF States
    <3>2. ASSUME NEW x \in States, rows' = [rows EXCEPT ![i].state = x] PROVE rows'[i].state = x
      BY <1>3, <3>2, SetState
    <3>3. CASE i \in unsaved'
      BY <3>3
    <3>4. CASE rows' = [rows EXCEPT ![i].state = "ok"]
      BY <3>1, <3>2, <3>4
    <3>5. CASE rows' = [rows EXCEPT ![i].state = "failed"]
      BY <3>1, <3>2, <3>5
    <3> QED BY <1>2, <3>3, <3>4, <3>5
  <2>2. unsaved \subseteq unsaved'
    BY <1>2
  <2>3. up = "up" => \A k \in DOMAIN rows : Explained(k)
    BY DEF WebhooksInductive, IgnoredForAReason, Explained
  <2> QED BY <1>1, <1>4, <1>5, <2>1, <2>2, <2>3 DEF IgnoredForAReason, Explained
<1> QED BY <1>5, <1>8, <1>9, <1>10, <1>11, <1>12 DEF WebhooksInductive

\* A finished run that hands its slot to the next in the queue keeps the invariant.
LEMMA FinishStartsKeeps ==
  ASSUME TypeOK, WebhooksInductive, NEW i \in DOMAIN proc, FinishStarts(i)
  PROVE  TypeOK' /\ WebhooksInductive'
<1> DEFINE h == Head(waiting)
<1>1. /\ up = "up" /\ proc[i] = "saved" /\ waiting # <<>> /\ waiting' = Tail(waiting)
      /\ UNCHANGED <<up, slots, request, running, seenLimits>>
  BY DEF FinishStarts
<1>2. PICK F \in SUBSET Faults :
        /\ Failure(Cardinality(F))
        /\ rows' = [rows EXCEPT ![h].state = Stored(F)]
        /\ proc' = [proc EXCEPT ![i] = "gone", ![h] = Started(F)]
        /\ unsaved' = Unsaved(F, h)
  BY DEF FinishStarts
<1> DEFINE x == Stored(F)
           p == Started(F)
<1>3. /\ p \in {"failed", "live"} /\ x \in {"queued", "running"}
      /\ p \in Procs /\ x \in States /\ Cardinality(F) \in Nat
  BY StartTypes
<1>4. /\ rows \in Seq(RunRow) /\ proc \in Seq(Procs) /\ DOMAIN proc = DOMAIN rows
      /\ Len(proc) = Len(rows) /\ i \in DOMAIN rows /\ waiting \in Seq(DOMAIN rows)
      /\ \A w \in DOMAIN waiting : waiting[w] \in DOMAIN rows
  BY Typed
<1>5. /\ waiting' \in Seq(DOMAIN rows) /\ h \in DOMAIN rows /\ h = waiting[1] /\ 1 \in DOMAIN waiting
      /\ \A w \in DOMAIN waiting' : w + 1 \in DOMAIN waiting /\ w # 0 /\ waiting'[w] = waiting[w + 1]
      /\ \A w \in DOMAIN waiting : w = 1 \/ (w - 1 \in DOMAIN waiting' /\ waiting'[w - 1] = waiting[w])
      /\ \A w \in DOMAIN waiting : w \in Nat
  BY <1>1, <1>4, TailSeq
<1>6. /\ \A w \in DOMAIN waiting : proc[waiting[w]] = "waiting"
      /\ \A v, w \in DOMAIN waiting : v # w => waiting[v] # waiting[w]
  BY DEF WebhooksInductive, QueueWaits
<1>7. proc[h] = "waiting" /\ h # i
  BY <1>1, <1>5, <1>6
<1> HIDE DEF h, x, p
<1>8. /\ proc' \in Seq(Procs) /\ DOMAIN proc' = DOMAIN rows /\ Len(proc') = Len(rows)
      /\ proc'[i] = "gone" /\ proc'[h] = p
      /\ \A k \in DOMAIN rows : k # i /\ k # h => proc'[k] = proc[k]
  <2> DEFINE q == [proc EXCEPT ![i] = "gone"]
  <2>1. /\ q \in Seq(Procs) /\ DOMAIN q = DOMAIN rows /\ Len(q) = Len(rows) /\ q[i] = "gone"
        /\ \A k \in DOMAIN rows : k # i => q[k] = proc[k]
    BY <1>4, UpdatedSeq DEF Procs
  <2>2. proc' = [q EXCEPT ![h] = p]
    BY <1>2 DEF p, h
  <2> HIDE DEF q
  <2> QED BY <1>3, <1>5, <1>7, <2>1, <2>2, UpdatedSeq
<1>9. rows' = [rows EXCEPT ![h].state = x]
  BY <1>2 DEF h, x
<1>10. rows'[h].state = x
  BY <1>3, <1>4, <1>5, <1>9, SetState
<1>11. /\ rows' \in Seq(RunRow) /\ DOMAIN rows' = DOMAIN rows /\ Len(rows') = Len(rows)
       /\ \A k \in DOMAIN rows : k # h => rows'[k] = rows[k]
       /\ RepeatsOnlyFailures' /\ OverIsOver'
  <2>1. \E y \in States : rows' = [rows EXCEPT ![h].state = y]
    BY <1>3, <1>9
  <2>2. proc[h] \in {"live", "failed", "waiting"} /\ rows'[h].state \notin {"failed", "skipped"}
    BY <1>3, <1>7, <1>10
  <2>3. \A k \in DOMAIN rows : k # h => proc'[k] = proc[k] \/ proc'[k] \in {"saved", "gone"}
    BY <1>8
  <2> QED BY <1>5, <1>8, <2>1, <2>2, <2>3, RowKeeps
<1>12. unsaved' \in SUBSET DOMAIN rows' /\ unsaved \subseteq unsaved'
  <2>1. unsaved' = Unsaved(F, h)
    BY <1>2 DEF h
  <2> QED BY <1>5, <1>11, <2>1, Typed DEF Unsaved, TypeOK
<1>13. spent' \in [edits : Nat, faults : Nat, starts : Nat]
  BY <1>2, <1>3, FaultsSpent
<1>14. TypeOK'
  BY <1>1, <1>5, <1>8, <1>11, <1>12, <1>13 DEF TypeOK, RunRow, States, Procs
<1>15. running' = Cardinality(Active')
  <2>1. i \in Active /\ h \notin Active
    BY <1>1, <1>4, <1>5, <1>7 DEF Active, Busy
  <2>2. Active' = (Active \ {i}) \cup {h} /\ h \notin Active \ {i}
    BY <1>3, <1>4, <1>5, <1>7, <1>8, <2>1 DEF Active, Busy
  <2>3. IsFiniteSet(Active \ {i}) /\ Cardinality(Active \ {i}) = Cardinality(Active) - 1
    BY <2>1, ActiveIsFinite, FS_RemoveElement
  <2>4. Cardinality(Active') = Cardinality(Active \ {i}) + 1
    BY <2>2, <2>3, FS_AddElement
  <2>5. running = Cardinality(Active) /\ running \in Nat
    BY DEF WebhooksInductive, TypeOK
  <2> QED BY <1>1, <2>3, <2>4, <2>5
<1>16. QueueWaits'
  <2>1. ASSUME NEW w \in DOMAIN waiting' PROVE waiting'[w] # h /\ proc'[waiting'[w]] = "waiting"
    <3>1. w + 1 \in DOMAIN waiting /\ w + 1 # 1 /\ waiting'[w] = waiting[w + 1]
      BY <1>5
    <3>2. waiting'[w] # h /\ waiting'[w] # i /\ waiting'[w] \in DOMAIN rows
      BY <1>1, <1>4, <1>5, <1>6, <3>1
    <3> QED BY <1>6, <1>8, <3>1, <3>2
  <2>2. ASSUME NEW v \in DOMAIN waiting', NEW w \in DOMAIN waiting', v # w
        PROVE  waiting'[v] # waiting'[w]
    <3>1. v \in Nat /\ w \in Nat
      BY <1>5
    <3> QED BY <1>5, <1>6, <2>2, <3>1
  <2> QED BY <2>1, <2>2 DEF QueueWaits
<1>17. LimitsRead' /\ DownIsEmpty'
  BY <1>1 DEF WebhooksInductive, LimitsRead, DownIsEmpty
<1>18. Bounded'
  BY <1>1 DEF WebhooksInductive, Bounded
<1>19. IgnoredForAReason'
  <2>1. ASSUME NEW k \in DOMAIN rows' PROVE Explained(k)'
    <3>1. Explained(k)
      BY <1>1, <1>11 DEF WebhooksInductive, IgnoredForAReason, Explained
    <3>2. CASE k = h
      BY <1>3, <1>8, <3>2 DEF Explained
    <3>3. CASE k # h
      <4>1. rows'[k] = rows[k] /\ k \in DOMAIN rows
        BY <1>11, <3>3
      <4>2. CASE \E w \in DOMAIN waiting : waiting[w] = k
        BY <1>5, <3>3, <4>2 DEF Explained
      <4>3. CASE proc[k] \in {"live", "failed"}
        BY <1>1, <1>8, <3>3, <4>1, <4>3 DEF Explained
      <4>4. CASE rows[k].state \in {"ok", "failed", "skipped"} \/ k \in unsaved
        BY <1>12, <4>1, <4>4 DEF Explained
      <4> QED BY <3>1, <4>2, <4>3, <4>4 DEF Explained
    <3> QED BY <3>2, <3>3
  <2> QED BY <2>1 DEF IgnoredForAReason, Explained
<1> QED BY <1>11, <1>14, <1>15, <1>16, <1>17, <1>18, <1>19 DEF WebhooksInductive

\* A finished run that frees its slot keeps the invariant.
LEMMA FinishEndsKeeps ==
  ASSUME TypeOK, WebhooksInductive, NEW i \in DOMAIN proc, FinishEnds(i)
  PROVE  TypeOK' /\ WebhooksInductive'
<1>1. /\ up # "down" /\ proc[i] = "saved" /\ (up = "stopping" \/ waiting = <<>>)
      /\ running' = running - 1 /\ proc' = [proc EXCEPT ![i] = "gone"]
      /\ UNCHANGED <<up, slots, request, rows, waiting, unsaved, seenLimits, spent>>
  BY DEF FinishEnds
<1>2. /\ rows \in Seq(RunRow) /\ proc \in Seq(Procs) /\ DOMAIN proc = DOMAIN rows
      /\ Len(proc) = Len(rows) /\ i \in DOMAIN rows
      /\ \A w \in DOMAIN waiting : waiting[w] \in DOMAIN rows
  BY Typed
<1>3. /\ proc' \in Seq(Procs) /\ DOMAIN proc' = DOMAIN rows /\ Len(proc') = Len(rows)
      /\ proc'[i] = "gone" /\ \A k \in DOMAIN rows : k # i => proc'[k] = proc[k]
  BY <1>1, <1>2, UpdatedSeq DEF Procs
<1>4. running' = Cardinality(Active') /\ running' \in Nat /\ running \in Nat
  <2>1. i \in Active /\ Active' = Active \ {i}
    BY <1>1, <1>2, <1>3 DEF Active, Busy
  <2>2. Cardinality(Active') = Cardinality(Active) - 1 /\ IsFiniteSet(Active')
    BY <2>1, ActiveIsFinite, FS_RemoveElement
  <2>3. Cardinality(Active') \in Nat
    BY <2>2, FS_CardinalityType
  <2> QED BY <1>1, <2>2, <2>3 DEF WebhooksInductive, TypeOK
<1>5. TypeOK'
  BY <1>1, <1>3, <1>4 DEF TypeOK, Procs
<1>6. QueueWaits'
  <2>1. \A w \in DOMAIN waiting : waiting[w] # i
    BY <1>1 DEF WebhooksInductive, QueueWaits
  <2> QED BY <1>1, <1>2, <1>3, <2>1 DEF WebhooksInductive, QueueWaits
<1>7. OverIsOver'
  BY <1>1, <1>3 DEF WebhooksInductive, OverIsOver
<1>8. RepeatsOnlyFailures'
  <2>1. ASSUME NEW k \in DOMAIN rows, NEW m \in 1 .. k - 1, rows[m].delivery = rows[k].delivery
        PROVE  rows[m].state \in {"failed", "skipped"} /\ proc'[m] \in {"saved", "gone"}
    <3>1. m \in DOMAIN rows
      BY <1>2
    <3>2. rows[m].state \in {"failed", "skipped"} /\ proc[m] \in {"saved", "gone"}
      BY <2>1 DEF WebhooksInductive, RepeatsOnlyFailures
    <3> QED BY <1>3, <3>1, <3>2
  <2> QED BY <1>1, <2>1 DEF RepeatsOnlyFailures
<1>9. IgnoredForAReason'
  BY <1>1, <1>2, <1>3 DEF WebhooksInductive, IgnoredForAReason
<1>10. Bounded'
  BY <1>1, <1>4, WebhooksAssumption DEF WebhooksInductive, Bounded, TypeOK
<1>11. LimitsRead' /\ DownIsEmpty'
  BY <1>1 DEF WebhooksInductive, LimitsRead, DownIsEmpty
<1> QED BY <1>4, <1>5, <1>6, <1>7, <1>8, <1>9, <1>10, <1>11 DEF WebhooksInductive

------------------------------------------------------------------------------
(* The file and the process *)

\* A request that arrives, or is answered without a run, keeps the invariant.
LEMMA RequestsKeep ==
  ASSUME TypeOK, WebhooksInductive, NEW r \in Requests, NEW d \in Deliveries,
         Receive(r, d) \/ Ignore(r)
  PROVE  TypeOK' /\ WebhooksInductive'
<1>1. /\ up # "down"
      /\ UNCHANGED <<up, slots, rows, running, waiting, proc, unsaved, seenLimits>>
  BY DEF Receive, Ignore
<1>2. \/ request' = [request EXCEPT ![r] = [delivery |-> d, slots |-> slots]]
      \/ request' = [request EXCEPT ![r] = Idle]
  BY DEF Receive, Ignore, Answered
<1>3. spent' \in [edits : Nat, faults : Nat, starts : Nat]
  BY FaultsSpent DEF Receive, Ignore, TypeOK
<1>4. TypeOK'
  BY <1>1, <1>2, <1>3 DEF TypeOK
<1>5. LimitsRead'
  BY <1>1, <1>2 DEF WebhooksInductive, LimitsRead, TypeOK, Idle
<1>6. QueueWaits' /\ OverIsOver' /\ DownIsEmpty' /\ Bounded'
  BY <1>1 DEF WebhooksInductive, QueueWaits, OverIsOver, DownIsEmpty, Bounded
<1>7. RepeatsOnlyFailures' /\ IgnoredForAReason' /\ (running = Cardinality(Active))'
  BY <1>1 DEF WebhooksInductive, RepeatsOnlyFailures, IgnoredForAReason, Active, Busy
<1> QED BY <1>4, <1>5, <1>6, <1>7 DEF WebhooksInductive

\* An edit of the hook's file keeps the invariant.
LEMMA EditKeeps ==
  ASSUME TypeOK, WebhooksInductive, Edit
  PROVE  TypeOK' /\ WebhooksInductive'
<1>1. PICK n \in Limits : slots' = n /\ seenLimits' = seenLimits \cup {n}
  BY DEF Edit
<1>2. /\ spent' = [spent EXCEPT !.edits = @ + 1]
      /\ UNCHANGED <<up, request, rows, running, waiting, proc, unsaved>>
  BY DEF Edit
<1>3. TypeOK'
  <2>1. spent' \in [edits : Nat, faults : Nat, starts : Nat]
    <3> DEFINE e == spent.edits + 1
    <3>1. spent \in [edits : Nat, faults : Nat, starts : Nat] /\ e \in Nat
      BY DEF TypeOK
    <3>2. spent' = [spent EXCEPT !.edits = e]
      BY <1>2
    <3> HIDE DEF e
    <3> QED BY <3>1, <3>2
  <2>2. slots' \in Limits /\ seenLimits' \in SUBSET Limits
    BY <1>1 DEF TypeOK
  <2> QED BY <1>2, <2>1, <2>2 DEF TypeOK
<1>4. LimitsRead' /\ Bounded' /\ DownIsEmpty'
  BY <1>1, <1>2 DEF WebhooksInductive, LimitsRead, Bounded, DownIsEmpty
<1>5. QueueWaits' /\ OverIsOver'
  BY <1>2 DEF WebhooksInductive, QueueWaits, OverIsOver
<1>6. RepeatsOnlyFailures' /\ IgnoredForAReason' /\ (running = Cardinality(Active))'
  BY <1>2 DEF WebhooksInductive, RepeatsOnlyFailures, IgnoredForAReason, Active, Busy
<1> QED BY <1>3, <1>4, <1>5, <1>6 DEF WebhooksInductive

\* The start looks at the rows alone: nothing of the process before is left.
LEMMA StartKeeps ==
  ASSUME TypeOK, WebhooksInductive, Start
  PROVE  TypeOK' /\ WebhooksInductive'
<1>1. /\ up = "down" /\ up' = "up" /\ rows' = FailUnfinished /\ unsaved' = {}
      /\ seenLimits' = {slots} /\ spent' = [spent EXCEPT !.starts = @ + 1]
      /\ UNCHANGED <<slots, request, running, waiting, proc>>
  BY DEF Start
<1>2. /\ waiting = <<>> /\ \A r \in Requests : request[r] = Idle
      /\ \A i \in DOMAIN proc : proc[i] = "gone"
  BY <1>1 DEF WebhooksInductive, DownIsEmpty
<1>3. rows \in Seq(RunRow) /\ DOMAIN proc = DOMAIN rows /\ DOMAIN rows = 1 .. Len(rows)
  BY Typed
<1>4. \A i \in DOMAIN rows :
        /\ FailUnfinished[i] \in RunRow /\ FailUnfinished[i].delivery = rows[i].delivery
        /\ FailUnfinished[i].state \in {"ok", "failed", "skipped"}
        /\ rows[i].state \in {"failed", "skipped"} => FailUnfinished[i] = rows[i]
  <2>1. \A i \in DOMAIN rows : rows[i] \in RunRow
    BY <1>3
  <2> QED BY <2>1 DEF FailUnfinished, RunRow, States
<1>5. rows' \in Seq(RunRow) /\ DOMAIN rows' = DOMAIN rows /\ Len(rows') = Len(rows)
  <2>1. FailUnfinished \in [DOMAIN rows -> RunRow]
    BY <1>4 DEF FailUnfinished
  <2> QED BY <1>1, <1>3, <2>1, MappedSeq
<1>6. TypeOK'
  BY <1>1, <1>5 DEF TypeOK, RunRow, States
<1>7. Active = {} /\ running = 0
  <2>1. Active = {}
    BY <1>2 DEF Active, Busy
  <2> QED BY <2>1, FS_EmptySet DEF WebhooksInductive
<1>8. Active' = Active
  BY <1>1 DEF Active, Busy
<1>9. Bounded' /\ LimitsRead' /\ QueueWaits' /\ DownIsEmpty'
  <2>1. slots \in Nat
    BY WebhooksAssumption DEF TypeOK
  <2> QED BY <1>1, <1>2, <1>7, <2>1 DEF Bounded, LimitsRead, QueueWaits, DownIsEmpty
<1>10. OverIsOver' /\ IgnoredForAReason'
  BY <1>1, <1>2, <1>3, <1>4, <1>5 DEF OverIsOver, IgnoredForAReason
<1>11. RepeatsOnlyFailures'
  <2>1. ASSUME NEW k \in DOMAIN rows', NEW m \in 1 .. k - 1, rows'[m].delivery = rows'[k].delivery
        PROVE  rows'[m].state \in {"failed", "skipped"} /\ proc'[m] \in {"saved", "gone"}
    <3>1. m \in DOMAIN rows /\ k \in DOMAIN rows
      BY <1>3, <1>5
    <3>2. rows[m].delivery = rows[k].delivery
      BY <1>1, <1>4, <2>1, <3>1
    <3>3. rows[m].state \in {"failed", "skipped"}
      BY <3>1, <3>2 DEF WebhooksInductive, RepeatsOnlyFailures
    <3> QED BY <1>1, <1>2, <1>3, <1>4, <3>1, <3>3
  <2> QED BY <2>1 DEF RepeatsOnlyFailures
<1> QED BY <1>1, <1>6, <1>7, <1>8, <1>9, <1>10, <1>11 DEF WebhooksInductive

\* The start of a shutdown keeps the invariant.
LEMMA StopKeeps ==
  ASSUME TypeOK, WebhooksInductive, Stop
  PROVE  TypeOK' /\ WebhooksInductive'
<1>1. /\ up' = "stopping"
      /\ UNCHANGED <<slots, request, rows, running, waiting, proc, unsaved, seenLimits, spent>>
  BY DEF Stop
<1>2. TypeOK'
  BY <1>1 DEF TypeOK
<1>3. QueueWaits' /\ OverIsOver' /\ DownIsEmpty' /\ LimitsRead' /\ Bounded'
  BY <1>1 DEF WebhooksInductive, QueueWaits, OverIsOver, DownIsEmpty, LimitsRead, Bounded
<1>4. RepeatsOnlyFailures' /\ IgnoredForAReason' /\ (running = Cardinality(Active))'
  BY <1>1 DEF WebhooksInductive, RepeatsOnlyFailures, IgnoredForAReason, Active, Busy
<1> QED BY <1>2, <1>3, <1>4 DEF WebhooksInductive

\* The end of the process keeps the invariant.
LEMMA DownKeeps ==
  ASSUME TypeOK, WebhooksInductive, Down
  PROVE  TypeOK' /\ WebhooksInductive'
<1>1. /\ up' = "down" /\ request' = [r \in Requests |-> Idle]
      /\ running' = 0 /\ waiting' = <<>> /\ proc' = [i \in DOMAIN proc |-> "gone"]
      /\ UNCHANGED <<slots, rows, unsaved, seenLimits, spent>>
  BY DEF Down
<1>2. proc \in Seq(Procs) /\ Len(proc) = Len(rows) /\ DOMAIN proc = DOMAIN rows
      /\ DOMAIN rows = 1 .. Len(rows) /\ Len(rows) \in Nat
  BY Typed
<1>3. /\ proc' \in Seq(Procs) /\ Len(proc') = Len(rows) /\ DOMAIN proc' = DOMAIN rows
      /\ \A i \in DOMAIN rows : proc'[i] = "gone"
  <2>1. [i \in DOMAIN proc |-> "gone"] \in [DOMAIN proc -> Procs]
    BY DEF Procs
  <2>2. [i \in DOMAIN proc |-> "gone"] \in Seq(Procs) /\ Len([i \in DOMAIN proc |-> "gone"]) = Len(proc)
    BY <1>2, <2>1, MappedSeq
  <2> QED BY <1>1, <1>2, <2>2
<1>4. TypeOK'
  BY <1>1, <1>3 DEF TypeOK, Procs
<1>5. running' = Cardinality(Active')
  <2>1. Active' = {}
    BY <1>2, <1>3 DEF Active, Busy
  <2> QED BY <1>1, <2>1, FS_EmptySet
<1>6. QueueWaits' /\ DownIsEmpty' /\ LimitsRead' /\ Bounded' /\ IgnoredForAReason'
  BY <1>1, <1>2, <1>3
     DEF WebhooksInductive, QueueWaits, DownIsEmpty, LimitsRead, Bounded, IgnoredForAReason
<1>7. OverIsOver'
  BY <1>1, <1>3 DEF OverIsOver
<1>8. RepeatsOnlyFailures'
  <2>1. ASSUME NEW k \in DOMAIN rows, NEW m \in 1 .. k - 1, rows[m].delivery = rows[k].delivery
        PROVE  rows[m].state \in {"failed", "skipped"} /\ proc'[m] \in {"saved", "gone"}
    <3>1. m \in DOMAIN rows
      BY <1>2
    <3> QED BY <1>3, <2>1, <3>1 DEF WebhooksInductive, RepeatsOnlyFailures
  <2> QED BY <1>1, <2>1 DEF RepeatsOnlyFailures
<1> QED BY <1>4, <1>5, <1>6, <1>7, <1>8 DEF WebhooksInductive

\* A step of another component keeps the invariant.
LEMMA StutterKeeps ==
  ASSUME TypeOK, WebhooksInductive, UNCHANGED vars
  PROVE  TypeOK' /\ WebhooksInductive'
<1>1. UNCHANGED <<up, slots, request, rows, running, waiting, proc, unsaved, seenLimits, spent>>
  BY DEF vars
<1>2. TypeOK'
  BY <1>1 DEF TypeOK
<1>3. QueueWaits' /\ OverIsOver' /\ DownIsEmpty' /\ LimitsRead' /\ Bounded'
  BY <1>1 DEF WebhooksInductive, QueueWaits, OverIsOver, DownIsEmpty, LimitsRead, Bounded
<1>4. RepeatsOnlyFailures' /\ IgnoredForAReason' /\ (running = Cardinality(Active))'
  BY <1>1 DEF WebhooksInductive, RepeatsOnlyFailures, IgnoredForAReason, Active, Busy
<1> QED BY <1>2, <1>3, <1>4 DEF WebhooksInductive

------------------------------------------------------------------------------
(* The theorems *)

\* The webhooks begin in the invariant.
LEMMA InitHolds == Init => TypeOK /\ WebhooksInductive
<1> SUFFICES ASSUME Init PROVE TypeOK /\ WebhooksInductive
  OBVIOUS
<1>1. TypeOK
  BY DEF Init, TypeOK
<1>2. Active = {}
  BY DEF Init, Active
<1>3. running = Cardinality(Active)
  BY <1>2, FS_EmptySet DEF Init
<1>4. QueueWaits /\ OverIsOver /\ DownIsEmpty /\ LimitsRead /\ Bounded
  BY DEF Init, QueueWaits, OverIsOver, DownIsEmpty, LimitsRead, Bounded
<1>5. RepeatsOnlyFailures /\ IgnoredForAReason
  BY DEF Init, RepeatsOnlyFailures, IgnoredForAReason
<1> QED BY <1>1, <1>3, <1>4, <1>5 DEF WebhooksInductive

\* Every step keeps the invariant.
LEMMA NextKeeps ==
  TypeOK /\ WebhooksInductive /\ [Next]_vars => TypeOK' /\ WebhooksInductive'
<1> SUFFICES ASSUME TypeOK, WebhooksInductive, [Next]_vars
             PROVE  TypeOK' /\ WebhooksInductive'
  OBVIOUS
<1>1. ASSUME NEW r \in Requests, NEW d \in Deliveries, Receive(r, d)
      PROVE  TypeOK' /\ WebhooksInductive'
  BY <1>1, RequestsKeep
<1>2. ASSUME NEW r \in Requests, Ignore(r) PROVE TypeOK' /\ WebhooksInductive'
  <2>1. request[r].delivery \in Deliveries
    BY <1>2 DEF Ignore, TypeOK
  <2> QED BY <1>2, <2>1, RequestsKeep
<1>3. ASSUME NEW r \in Requests, AcceptSkips(r) \/ AcceptQueues(r) \/ AcceptStarts(r)
      PROVE  TypeOK' /\ WebhooksInductive'
  BY <1>3, AcceptSkipsKeeps, AcceptQueuesKeeps, AcceptStartsKeeps
<1>4. ASSUME GoroutineStep PROVE TypeOK' /\ WebhooksInductive'
  <2>1. PICK i \in DOMAIN proc : Save(i) \/ FinishStarts(i) \/ FinishEnds(i)
    BY <1>4 DEF GoroutineStep
  <2> QED BY <2>1, SaveKeeps, FinishStartsKeeps, FinishEndsKeeps
<1>5. ASSUME Exit \/ Crash PROVE TypeOK' /\ WebhooksInductive'
  BY <1>5, DownKeeps DEF Exit, Crash
<1> QED BY <1>1, <1>2, <1>3, <1>4, <1>5, EditKeeps, StartKeeps, StopKeeps, StutterKeeps DEF Next

\* The invariant holds in every state the webhooks reach.
LEMMA WebhooksInvariant == Spec => [](TypeOK /\ WebhooksInductive)
<1> QED BY InitHolds, NextKeeps, PTL DEF Spec

\* The variables of the hook's service have their types, however deliveries,
\* edits, failures and restarts interleave.
THEOREM DeliveryTypes == Spec => []TypeOK
<1> QED BY WebhooksInvariant, PTL

\* GitHub's repeats: a delivery has another run only once each earlier one
\* failed or was skipped and its goroutine is over (accept and finish).
THEOREM RepeatsFollowFailures == Spec => []RepeatsOnlyFailures
<1>1. WebhooksInductive => RepeatsOnlyFailures
  BY DEF WebhooksInductive
<1> QED BY <1>1, WebhooksInvariant, PTL

\* queue.running counts the runs that hold a slot, stays within a limit the
\* file had, and is not below all of them while a delivery waits, although
\* accept uses a limit read before it took the lock.
THEOREM SlotsWithinLimits == Spec => []WithinLimits
<1>1. WebhooksInductive => WithinLimits
  BY DEF WebhooksInductive, WithinLimits, Bounded, Active, Busy, Going
<1> QED BY <1>1, WebhooksInvariant, PTL

\* A delivery whose repeat DeliverySeen turns away has a run that goes, waits,
\* ended well, or could not be stored since the process started.
THEOREM RepeatsAreAccounted == Spec => []IgnoredForAReason
<1>1. WebhooksInductive => IgnoredForAReason
  BY DEF WebhooksInductive
<1> QED BY <1>1, WebhooksInvariant, PTL
==============================================================================
