--------------------------- MODULE LimiterProofs ----------------------------
(***************************************************************************)
(* What Limiter keeps for every set of callers and limits.  The inductive  *)
(* invariant is the conjunction of the module's invariants: the type of    *)
(* inUse needs that slots are accounted for (a call that frees one holds   *)
(* one), the progress of waiters needs that the gate is in the map while   *)
(* they wait (Changed only pumps the gates it finds there).                *)
(***************************************************************************)
EXTENDS Limiter, FiniteSetTheorems, SequenceTheorems, TLAPS

PCs == {"idle", "waiting", "granted", "holding"}

\* The calls that count as holders when the calls are at p.
HoldersAt(p) == {c \in Callers : p[c] \in {"granted", "holding"}}

\* The queue w holds exactly the calls that wait at p, once each.
QueueAt(w, p) ==
  /\ {w[i] : i \in DOMAIN w} = {c \in Callers : p[c] = "waiting"}
  /\ \A i, j \in DOMAIN w : w[i] = w[j] => i = j

Inv == LimiterTypeOK /\ SlotsAccounted /\ GateKept /\ NobodyWaitsForNobody

------------------------------------------------------------------------------
(* The gate *)

\* Holders are finitely many.
LEMMA HoldersFinite ==
  ASSUME NEW p
  PROVE  IsFiniteSet(HoldersAt(p)) /\ Cardinality(HoldersAt(p)) \in Nat
  <1>1. HoldersAt(p) \subseteq Callers
    BY DEF HoldersAt
  <1>. QED
    BY <1>1, LimiterAssumption, FS_Subset, FS_CardinalityType

\* pump lets in as many waiters as there are free slots, never more than wait:
\* those left wait only for a full gate.
LEMMA GrantedBounds ==
  ASSUME limit \in Nat, NEW n \in Nat, NEW w \in Seq(Callers)
  PROVE  /\ Granted(n, w) \in 0 .. Len(w)
         /\ Granted(n, w) < Len(w) => Full(n + Granted(n, w))
  <1>1. Len(w) \in Nat
    OBVIOUS
  <1>. QED
    BY <1>1 DEF Granted, Full

\* The first k of a queue without repetition are k calls.
LEMMA PrefixCount ==
  ASSUME NEW w \in Seq(Callers), NEW k \in 0 .. Len(w),
         \A i, j \in DOMAIN w : w[i] = w[j] => i = j
  PROVE  Cardinality({w[i] : i \in 1 .. k}) = k
  <1>. DEFINE T == {w[i] : i \in 1 .. k}
              f == [i \in 1 .. k |-> w[i]]
  <1>1. k \in Nat /\ 1 .. k \subseteq DOMAIN w
    OBVIOUS
  <1>2. f \in Injection(1 .. k, T)
    BY <1>1 DEF Injection, IsInjective
  <1>3. f \in Surjection(1 .. k, T)
    BY DEF Surjection
  <1>4. ExistsBijection(1 .. k, T)
    BY <1>2, <1>3 DEF ExistsBijection, Bijection
  <1>. QED
    BY <1>1, <1>4, FS_CountingElements

\* What pump does to a gate whose slots and queue are in order: they still are,
\* and whoever still waits, waits for a full gate.
LEMMA PumpKeeps ==
  ASSUME limit \in Nat, NEW n \in Nat, NEW w \in Seq(Callers),
         NEW moved \in [Callers -> PCs],
         n = Cardinality(HoldersAt(moved)), QueueAt(w, moved),
         Pump(n, w, moved)
  PROVE  /\ inUse' \in Nat /\ waiting' \in Seq(Callers)
         /\ stage' \in [Callers -> PCs] /\ present' \in BOOLEAN
         /\ SlotsAccounted' /\ GateKept'
         /\ waiting' # <<>> => inUse' >= 1 /\ Full(inUse')
  <1>. DEFINE k == Granted(n, w)
              T == {w[i] : i \in 1 .. k}
              H == HoldersAt(moved)
  <1>1. /\ k \in 0 .. Len(w) /\ k \in Nat /\ Len(w) \in Nat
        /\ k < Len(w) => Full(n + k)
    BY GrantedBounds
  <1>2. /\ inUse' = n + k
        /\ waiting' = SubSeq(w, k + 1, Len(w))
        /\ stage' = [c \in Callers |-> IF c \in T THEN "granted" ELSE moved[c]]
        /\ present' = (n + k # 0 \/ waiting' # <<>>)
    BY DEF Pump, Forget
  <1>. HIDE DEF k
  <1>3. /\ DOMAIN w = 1 .. Len(w)
        /\ \A i \in DOMAIN w : w[i] \in Callers /\ moved[w[i]] = "waiting"
        /\ \A i, j \in DOMAIN w : w[i] = w[j] => i = j
    BY DEF QueueAt
  <1>4. /\ waiting' \in Seq(Callers)
        /\ Len(waiting') = Len(w) - k
        /\ \A i \in 1 .. Len(w) - k : waiting'[i] = w[k + i]
    BY <1>1, <1>2
  <1>5. T \subseteq Callers /\ T \cap H = {}
    BY <1>1, <1>3 DEF HoldersAt
  <1>6. Holders' = H \cup T
    BY <1>2, <1>5 DEF Holders, HoldersAt
  <1>7. Cardinality(T) = k
    BY <1>1, <1>3, PrefixCount
  <1>8. IsFiniteSet(T) /\ IsFiniteSet(H)
    BY <1>5, LimiterAssumption, FS_Subset, HoldersFinite
  <1>9. Cardinality(H \cup T) = Cardinality(H) + Cardinality(T)
    <2>1. /\ Cardinality(H \cup T) = Cardinality(H) + Cardinality(T) - Cardinality(H \cap T)
          /\ H \cap T = {}
      BY <1>5, <1>8, FS_Union
    <2>2. Cardinality(H) \in Nat /\ Cardinality(T) \in Nat
      BY <1>8, FS_CardinalityType
    <2>3. Cardinality(H \cap T) = 0
      BY <2>1, FS_EmptySet
    <2>. QED
      BY <2>1, <2>2, <2>3
  <1>10. inUse' = Cardinality(Holders')
    BY <1>2, <1>6, <1>7, <1>9
  <1>11. inUse' \in Nat
    BY <1>1, <1>2
  <1>12. stage' \in [Callers -> PCs]
    BY <1>2 DEF PCs
  <1>13. Waiters' = {c \in Callers : stage'[c] = "waiting"}
    <2>. DEFINE W == {waiting'[i] : i \in DOMAIN waiting'}
    <2>1. Waiters' = W
      BY DEF Waiters
    <2>2. ASSUME NEW c \in W
          PROVE  c \in Callers /\ stage'[c] = "waiting"
      <3>1. PICK i \in 1 .. Len(w) - k : c = w[k + i]
        BY <1>4
      <3>2. k + i \in DOMAIN w /\ k + i \notin 1 .. k
        BY <1>1, <1>3
      <3>3. c \notin T
        BY <3>1, <3>2, <1>1, <1>3
      <3>. QED
        BY <3>1, <3>2, <3>3, <1>2, <1>3
    <2>3. ASSUME NEW c \in Callers, stage'[c] = "waiting"
          PROVE  c \in W
      <3>1. c \notin T /\ moved[c] = "waiting"
        BY <2>3, <1>2
      <3>2. PICK j \in DOMAIN w : w[j] = c
        BY <3>1 DEF QueueAt
      <3>3. j \in k + 1 .. Len(w)
        BY <3>1, <3>2, <1>1, <1>3
      <3>4. j - k \in 1 .. Len(w) - k /\ k + (j - k) = j
        BY <3>3, <1>1
      <3>5. waiting'[j - k] = c /\ j - k \in DOMAIN waiting'
        BY <3>2, <3>4, <1>4
      <3>. QED
        BY <3>5
    <2>. QED
      BY <2>1, <2>2, <2>3
  <1>14. \A i, j \in DOMAIN waiting' : waiting'[i] = waiting'[j] => i = j
    <2>. SUFFICES ASSUME NEW i \in DOMAIN waiting', NEW j \in DOMAIN waiting',
                         waiting'[i] = waiting'[j]
                  PROVE  i = j
      OBVIOUS
    <2>1. i \in 1 .. Len(w) - k /\ j \in 1 .. Len(w) - k
      BY <1>4
    <2>2. w[k + i] = w[k + j] /\ k + i \in DOMAIN w /\ k + j \in DOMAIN w
      BY <2>1, <1>1, <1>3, <1>4
    <2>3. k + i = k + j
      BY <2>2, <1>3
    <2>. QED
      BY <2>1, <2>3, <1>1
  <1>15. GateKept'
    <2>1. inUse' = 0 <=> Holders' = {}
      BY <1>10, <1>6, <1>8, FS_Union, FS_EmptySet
    <2>. QED
      BY <2>1, <1>2 DEF GateKept
  <1>16. waiting' # <<>> => inUse' >= 1 /\ Full(inUse')
    <2>. SUFFICES ASSUME waiting' # <<>>
                  PROVE  inUse' >= 1 /\ Full(inUse')
      OBVIOUS
    <2>1. k < Len(w)
      BY <1>1, <1>4
    <2>2. Full(inUse')
      BY <2>1, <1>1, <1>2
    <2>. QED
      BY <2>2, <1>11 DEF Full
  <1>. QED
    BY <1>2, <1>4, <1>10, <1>11, <1>12, <1>13, <1>14, <1>15, <1>16 DEF SlotsAccounted

------------------------------------------------------------------------------
(* The queue *)

\* A call that leaves the queue takes no other with it.
LEMMA RemoveWaiterKeeps ==
  ASSUME NEW w \in Seq(Callers), NEW i \in DOMAIN w
  PROVE  LET left == RemoveWaiter(w, i) IN
         /\ left \in Seq(Callers)
         /\ Len(left) = Len(w) - 1
         /\ \A j \in 1 .. Len(w) - 1 : left[j] = IF j < i THEN w[j] ELSE w[j + 1]
  <1>. DEFINE a == SubSeq(w, 1, i - 1)
              b == SubSeq(w, i + 1, Len(w))
  <1>1. i \in 1 .. Len(w) /\ Len(w) \in Nat
    OBVIOUS
  <1>2. /\ a \in Seq(Callers) /\ Len(a) = i - 1
        /\ \A j \in 1 .. i - 1 : a[j] = w[j]
    BY <1>1
  <1>3. /\ b \in Seq(Callers) /\ Len(b) = Len(w) - i
        /\ \A j \in 1 .. Len(w) - i : b[j] = w[i + j]
    BY <1>1
  <1>. HIDE DEF a, b
  <1>4. /\ a \o b \in Seq(Callers)
        /\ Len(a \o b) = Len(a) + Len(b)
        /\ \A j \in 1 .. Len(a) + Len(b) :
             (a \o b)[j] = IF j <= Len(a) THEN a[j] ELSE b[j - Len(a)]
    BY <1>2, <1>3, ConcatProperties
  <1>5. ASSUME NEW j \in 1 .. Len(w) - 1
        PROVE  (a \o b)[j] = IF j < i THEN w[j] ELSE w[j + 1]
    <2>1. CASE j < i
      <3>1. j \in 1 .. i - 1 /\ j <= Len(a) /\ j \in 1 .. Len(a) + Len(b)
        BY <2>1, <1>1, <1>2, <1>3
      <3>2. (a \o b)[j] = a[j]
        BY <3>1, <1>4
      <3>. QED
        BY <2>1, <3>1, <3>2, <1>2
    <2>2. CASE ~(j < i)
      <3>1. j - (i - 1) \in 1 .. Len(w) - i /\ i + (j - (i - 1)) = j + 1
        BY <2>2, <1>1
      <3>2. j \in 1 .. Len(a) + Len(b) /\ ~(j <= Len(a))
        BY <2>2, <1>1, <1>2, <1>3
      <3>3. (a \o b)[j] = b[j - (i - 1)]
        BY <3>2, <1>2, <1>4
      <3>. QED
        BY <2>2, <3>1, <3>3, <1>3
    <2>. QED
      BY <2>1, <2>2
  <1>6. RemoveWaiter(w, i) = a \o b
    BY DEF RemoveWaiter, a, b
  <1>7. Len(RemoveWaiter(w, i)) = Len(w) - 1
    <2>1. Len(a \o b) = (i - 1) + (Len(w) - i)
      BY <1>2, <1>3, <1>4
    <2>. QED
      BY <1>1, <1>6, <2>1
  <1>8. RemoveWaiter(w, i) \in Seq(Callers)
    BY <1>4, <1>6
  <1>. QED
    BY <1>5, <1>6, <1>7, <1>8

------------------------------------------------------------------------------
(* The invariant *)

\* The invariant holds at first, and every step keeps it.
LEMMA InvInit == LimiterInit => Inv
  <1>. SUFFICES ASSUME LimiterInit PROVE Inv
    OBVIOUS
  <1>. USE DEF LimiterInit
  <1>1. LimiterTypeOK
    <2>1. limit \in Limits /\ inUse \in Nat /\ waiting \in Seq(Callers) /\ ended \subseteq Callers
      OBVIOUS
    <2>2. stale \in BOOLEAN /\ present \in BOOLEAN
      OBVIOUS
    <2>3. stage \in [Callers -> PCs]
      BY DEF PCs
    <2>. QED
      BY <2>1, <2>2, <2>3 DEF LimiterTypeOK, PCs
  <1>2. Holders = {}
    BY DEF Holders
  <1>. QED
    BY <1>1, <1>2, FS_EmptySet
    DEF Inv, SlotsAccounted, GateKept, NobodyWaitsForNobody, Waiters

\* A call that holds or was granted a slot gives it back: with one slot less
\* and the call idle, slots and queue are in order for pump.
LEMMA GivenBack ==
  ASSUME Inv, NEW c \in Callers, stage[c] \in {"granted", "holding"}
  PROVE  LET moved == [stage EXCEPT ![c] = "idle"] IN
         /\ inUse - 1 \in Nat
         /\ moved \in [Callers -> PCs]
         /\ inUse - 1 = Cardinality(HoldersAt(moved))
         /\ QueueAt(waiting, moved)
  <1>. DEFINE moved == [stage EXCEPT ![c] = "idle"]
  <1>. USE DEF Inv
  <1>1. /\ moved \in [Callers -> PCs]
        /\ \A x \in Callers : moved[x] = IF x = c THEN "idle" ELSE stage[x]
    BY DEF LimiterTypeOK, PCs
  <1>. HIDE DEF moved
  <1>2. c \in Holders /\ HoldersAt(moved) = Holders \ {c}
    BY <1>1 DEF Holders, HoldersAt
  <1>3. IsFiniteSet(Holders) /\ Cardinality(Holders) \in Nat
    BY HoldersFinite DEF Holders, HoldersAt
  <1>4. Cardinality(HoldersAt(moved)) = Cardinality(Holders) - 1
    BY <1>2, <1>3, FS_RemoveElement
  <1>5. Cardinality(HoldersAt(moved)) \in Nat
    BY HoldersFinite
  <1>6. QueueAt(waiting, moved)
    BY <1>1 DEF SlotsAccounted, QueueAt, Waiters
  <1>. QED
    BY <1>1, <1>3, <1>4, <1>5, <1>6 DEF SlotsAccounted, moved

\* Steps that run pump.
LEMMA PumpStep ==
  ASSUME Inv, NEW n \in Nat, NEW moved \in [Callers -> PCs],
         n = Cardinality(HoldersAt(moved)), QueueAt(waiting, moved),
         Pump(n, waiting, moved),
         limit' = limit, stale' \in BOOLEAN, ended' \subseteq Callers
  PROVE  Inv'
  <1>1. limit \in Limits /\ limit \in Nat /\ waiting \in Seq(Callers)
    BY LimiterAssumption DEF Inv, LimiterTypeOK
  <1>2. /\ inUse' \in Nat /\ waiting' \in Seq(Callers)
        /\ stage' \in [Callers -> PCs] /\ present' \in BOOLEAN
        /\ SlotsAccounted' /\ GateKept'
        /\ waiting' # <<>> => inUse' >= 1 /\ Full(inUse')
    BY <1>1, PumpKeeps
  <1>3. LimiterTypeOK'
    BY <1>1, <1>2 DEF LimiterTypeOK, PCs
  <1>4. NobodyWaitsForNobody'
    BY <1>2 DEF NobodyWaitsForNobody, Full
  <1>. QED
    BY <1>2, <1>3, <1>4 DEF Inv

\* Every step keeps the inductive invariant.
LEMMA InvNext == Inv /\ [LimiterNext]_limiterVars => Inv'
  <1>. SUFFICES ASSUME Inv, [LimiterNext]_limiterVars PROVE Inv'
    OBVIOUS
  <1>. USE DEF Inv
  <1>1. /\ limit \in Limits /\ limit \in Nat /\ inUse \in Nat
        /\ waiting \in Seq(Callers)
        /\ stage \in [Callers -> PCs]
    BY LimiterAssumption DEF LimiterTypeOK, PCs
  <1>2. ASSUME NEW c \in Callers, Acquire(c)
        PROVE  Inv'
    <2>. USE DEF Acquire
    <2>1. CASE waiting = <<>> /\ ~Full(inUse)
      <3>1. Holders' = Holders \cup {c} /\ c \notin Holders
        BY <1>1, <2>1, <1>2 DEF Holders, PCs
      <3>2. IsFiniteSet(Holders) /\ Cardinality(Holders) \in Nat
        BY HoldersFinite DEF Holders, HoldersAt
      <3>3. Cardinality(Holders') = Cardinality(Holders) + 1
        BY <3>1, <3>2, FS_AddElement
      <3>4. SlotsAccounted'
        BY <1>1, <1>2, <2>1, <3>3 DEF SlotsAccounted, Waiters, PCs
      <3>5. LimiterTypeOK'
        BY <1>1, <1>2, <2>1 DEF LimiterTypeOK, PCs
      <3>6. GateKept' /\ NobodyWaitsForNobody'
        BY <1>2, <2>1, <3>1 DEF GateKept, NobodyWaitsForNobody
      <3>. QED
        BY <3>4, <3>5, <3>6
    <2>2. CASE ~(waiting = <<>> /\ ~Full(inUse))
      <3>0. waiting' = Append(waiting, c) /\ waiting \in Seq(Callers)
        BY <1>1, <1>2, <2>2
      <3>. HIDE DEF Acquire
      <3>1. /\ waiting' \in Seq(Callers)
            /\ Len(waiting') = Len(waiting) + 1
            /\ \A i \in 1 .. Len(waiting) : waiting'[i] = waiting[i]
            /\ waiting'[Len(waiting) + 1] = c
            /\ waiting' # <<>>
        BY ONLY <1>2, <3>0, AppendProperties
      <3>. USE DEF Acquire
      <3>2. Holders' = Holders
        BY <1>1, <1>2, <2>2 DEF Holders, PCs
      <3>3. LimiterTypeOK'
        BY <1>1, <1>2, <2>2, <3>1 DEF LimiterTypeOK, PCs
      <3>4. c \notin Waiters /\ stage' = [stage EXCEPT ![c] = "waiting"]
        BY <1>2, <2>2 DEF SlotsAccounted
      <3>5. Waiters' = Waiters \cup {c}
        BY <1>1, <3>1 DEF Waiters
      <3>6. Waiters' = {x \in Callers : stage'[x] = "waiting"}
        BY <1>1, <3>4, <3>5 DEF SlotsAccounted
      <3>7. \A i, j \in DOMAIN waiting' : waiting'[i] = waiting'[j] => i = j
        BY <1>1, <3>1, <3>4 DEF SlotsAccounted, Waiters
      <3>8. NobodyWaitsForNobody'
        BY <1>1, <1>2, <2>2 DEF NobodyWaitsForNobody, Full
      <3>. QED
        BY <1>2, <2>2, <3>1, <3>2, <3>3, <3>6, <3>7, <3>8 DEF SlotsAccounted, GateKept
    <2>. QED
      BY <2>1, <2>2
  <1>3. ASSUME NEW c \in Callers, Ready(c)
        PROVE  Inv'
    <2>1. /\ Holders' = Holders
          /\ {x \in Callers : stage'[x] = "waiting"} = {x \in Callers : stage[x] = "waiting"}
      BY <1>1, <1>3 DEF Ready, Holders, PCs
    <2>2. LimiterTypeOK'
      BY <1>1, <1>3 DEF Ready, LimiterTypeOK, PCs
    <2>. QED
      BY <1>3, <2>1, <2>2
      DEF Ready, SlotsAccounted, Waiters, GateKept, NobodyWaitsForNobody, Full
  <1>4. ASSUME NEW c \in Callers, Decline(c)
        PROVE  Inv'
    <2>1. stage[c] \in {"granted", "holding"} /\ ended' \subseteq Callers /\ stale' \in BOOLEAN
      BY <1>4 DEF Decline, LimiterTypeOK
    <2>. QED
      BY <1>4, <2>1, GivenBack, PumpStep DEF Decline
  <1>5. ASSUME NEW c \in Callers, Release(c)
        PROVE  Inv'
    <2>1. stage[c] \in {"granted", "holding"} /\ ended' \subseteq Callers /\ stale' \in BOOLEAN
      BY <1>5 DEF Release, LimiterTypeOK
    <2>. QED
      BY <1>5, <2>1, GivenBack, PumpStep DEF Release
  <1>6. ASSUME NEW c \in Callers, Leave(c)
        PROVE  Inv'
    <2>. USE DEF Leave
    <2>1. PICK i \in DOMAIN waiting :
            waiting[i] = c /\ waiting' = RemoveWaiter(waiting, i) /\ Forget(inUse, waiting')
      BY <1>6
    <2>2. /\ waiting' \in Seq(Callers)
          /\ Len(waiting') = Len(waiting) - 1
          /\ \A j \in 1 .. Len(waiting) - 1 :
               waiting'[j] = IF j < i THEN waiting[j] ELSE waiting[j + 1]
          /\ i \in 1 .. Len(waiting) /\ Len(waiting) \in Nat /\ waiting # <<>>
          /\ DOMAIN waiting = 1 .. Len(waiting)
          /\ DOMAIN waiting' = 1 .. Len(waiting) - 1
      BY <1>1, <2>1, RemoveWaiterKeeps
    <2>3. /\ Holders' = Holders
          /\ stage' \in [Callers -> PCs]
          /\ \A x \in Callers : stage'[x] = "waiting" <=> x # c /\ stage[x] = "waiting"
      BY <1>1, <1>6 DEF Holders, PCs
    <2>4. \A j, l \in DOMAIN waiting : waiting[j] = waiting[l] => j = l
      BY DEF SlotsAccounted
    <2>5. Waiters' = Waiters \ {c}
      <3>1. ASSUME NEW x \in Waiters'
            PROVE  x \in Waiters \ {c}
        <4>1. PICK j \in 1 .. Len(waiting) - 1 : x = waiting'[j]
          BY <2>2 DEF Waiters
        <4>. QED
          <5>1. PICK l \in 1 .. Len(waiting) : x = waiting[l] /\ l # i
            BY <4>1, <2>2
          <5>2. waiting[l] # waiting[i]
            BY <5>1, <2>2, <2>4
          <5>. QED
            BY <5>1, <5>2, <2>1, <2>2 DEF Waiters
      <3>2. ASSUME NEW x \in Waiters \ {c}
            PROVE  x \in Waiters'
        <4>1. PICK j \in 1 .. Len(waiting) : x = waiting[j] /\ j # i
          BY <1>1, <2>1 DEF Waiters
        <4>2. CASE j < i
          <5>1. j \in 1 .. Len(waiting) - 1 /\ waiting'[j] = x
            BY <4>1, <4>2, <2>2
          <5>. QED
            BY <5>1, <2>2 DEF Waiters
        <4>3. CASE j > i
          <5>1. j - 1 \in 1 .. Len(waiting) - 1 /\ ~(j - 1 < i) /\ (j - 1) + 1 = j
            BY <4>1, <4>3, <2>2
          <5>2. waiting'[j - 1] = x
            BY <4>1, <5>1, <2>2
          <5>. QED
            BY <5>1, <5>2, <2>2 DEF Waiters
        <4>. QED
          BY <4>1, <4>2, <4>3, <2>2
      <3>. QED
        BY <3>1, <3>2
    <2>6. \A j, l \in DOMAIN waiting' : waiting'[j] = waiting'[l] => j = l
      <3>. SUFFICES ASSUME NEW j \in DOMAIN waiting', NEW l \in DOMAIN waiting',
                           waiting'[j] = waiting'[l]
                    PROVE  j = l
        OBVIOUS
      <3>. DEFINE at(x) == IF x < i THEN x ELSE x + 1
      <3>1. /\ at(j) \in DOMAIN waiting /\ waiting'[j] = waiting[at(j)]
            /\ at(l) \in DOMAIN waiting /\ waiting'[l] = waiting[at(l)]
        BY <2>2
      <3>2. at(j) = at(l)
        BY <3>1, <2>4
      <3>. QED
        BY <3>2, <2>2
    <2>7. SlotsAccounted'
      BY <1>6, <2>3, <2>5, <2>6 DEF SlotsAccounted
    <2>8. LimiterTypeOK'
      BY <1>6, <2>1, <2>2, <2>3 DEF LimiterTypeOK, PCs, Forget
    <2>9. GateKept'
      <3>1. inUse = 0 <=> Holders = {}
        BY HoldersFinite, FS_EmptySet DEF SlotsAccounted, Holders, HoldersAt
      <3>. QED
        BY <1>6, <2>1, <2>3, <3>1 DEF GateKept, Forget
    <2>10. NobodyWaitsForNobody'
      BY <1>1, <1>6, <2>2 DEF NobodyWaitsForNobody, Full
    <2>. QED
      BY <2>7, <2>8, <2>9, <2>10
  <1>7. ASSUME NEW c \in Callers, End(c)
        PROVE  Inv'
    <2>1. LimiterTypeOK'
      BY <1>7 DEF End, LimiterTypeOK
    <2>. QED
      BY <1>7, <2>1
      DEF End, SlotsAccounted, Holders, Waiters, GateKept, NobodyWaitsForNobody, Full
  <1>8. ASSUME NEW n \in Limits, SetLimit(n)
        PROVE  Inv'
    <2>1. LimiterTypeOK'
      BY <1>8 DEF SetLimit, LimiterTypeOK
    <2>. QED
      BY <1>8, <2>1
      DEF SetLimit, SlotsAccounted, Holders, Waiters, GateKept, NobodyWaitsForNobody
  <1>9. ASSUME Changed
        PROVE  Inv'
    <2>1. CASE present
      <3>1. inUse = Cardinality(HoldersAt(stage)) /\ QueueAt(waiting, stage)
        BY DEF SlotsAccounted, Holders, HoldersAt, Waiters, QueueAt
      <3>2. stale' \in BOOLEAN /\ ended' \subseteq Callers
        BY <1>9 DEF Changed, LimiterTypeOK
      <3>. QED
        BY <1>1, <1>9, <2>1, <3>1, <3>2, PumpStep DEF Changed
    <2>2. CASE ~present
      <3>1. waiting = <<>>
        BY <2>2 DEF GateKept
      <3>2. LimiterTypeOK'
        BY <1>9, <2>2 DEF Changed, LimiterTypeOK
      <3>. QED
        BY <1>9, <2>2, <3>1, <3>2
        DEF Changed, SlotsAccounted, Holders, Waiters, GateKept, NobodyWaitsForNobody
    <2>. QED
      BY <2>1, <2>2
  <1>10. CASE UNCHANGED limiterVars
    <2>1. LimiterTypeOK'
      BY <1>10 DEF limiterVars, LimiterTypeOK
    <2>. QED
      BY <1>10, <2>1
      DEF limiterVars, SlotsAccounted, Holders, Waiters, GateKept, NobodyWaitsForNobody, Full
  <1>. QED
    BY <1>2, <1>3, <1>4, <1>5, <1>6, <1>7, <1>8, <1>9, <1>10 DEF LimiterNext

------------------------------------------------------------------------------
(* What a step may not do *)

\* pump gives slots within the limit and to waiters in order, and takes none.
LEMMA PumpGrants ==
  ASSUME Inv, NEW n \in Nat, NEW moved \in [Callers -> PCs],
         QueueAt(waiting, moved), Pump(n, waiting, moved)
  PROVE  /\ Holders' \subseteq HoldersAt(moved) \/ limit = 0 \/ inUse' <= limit
         /\ HoldersAt(moved) \subseteq Holders'
         /\ \A c \in Callers : stage'[c] # moved[c] => stage'[c] = "granted" /\ moved[c] = "waiting"
         /\ \A i, j \in DOMAIN waiting :
              i < j /\ stage'[waiting[j]] = "granted" => stage'[waiting[i]] = "granted"
  <1>. DEFINE k == Granted(n, waiting)
  <1>1. limit \in Nat /\ waiting \in Seq(Callers) /\ Len(waiting) \in Nat
    BY LimiterAssumption DEF Inv, LimiterTypeOK
  <1>2. k \in 0 .. Len(waiting) /\ k \in Nat
    BY <1>1, GrantedBounds
  <1>3. k = 0 \/ limit = 0 \/ n + k <= limit
    BY <1>1 DEF Granted
  <1>4. /\ inUse' = n + k
        /\ stage' = [c \in Callers |->
                     IF \E i \in 1 .. k : waiting[i] = c THEN "granted" ELSE moved[c]]
    BY DEF Pump
  <1>. HIDE DEF k
  <1>5. /\ DOMAIN waiting = 1 .. Len(waiting)
        /\ \A i \in DOMAIN waiting : waiting[i] \in Callers /\ moved[waiting[i]] = "waiting"
        /\ \A i, j \in DOMAIN waiting : waiting[i] = waiting[j] => i = j
    BY <1>1 DEF QueueAt
  <1>6. ASSUME NEW i \in DOMAIN waiting, NEW j \in DOMAIN waiting,
               i < j, stage'[waiting[j]] = "granted"
        PROVE  stage'[waiting[i]] = "granted"
    <2>1. PICK l \in 1 .. k : waiting[l] = waiting[j]
      BY <1>4, <1>5, <1>6
    <2>2. l = j
      BY <2>1, <1>2, <1>5
    <2>3. i \in 1 .. k
      BY <2>2, <1>1, <1>2, <1>5, <1>6
    <2>. QED
      BY <2>3, <1>4, <1>5
  <1>7. ASSUME NEW c \in Callers, stage'[c] # moved[c]
        PROVE  stage'[c] = "granted" /\ moved[c] = "waiting"
    BY <1>2, <1>4, <1>5, <1>7
  <1>8. Holders' \subseteq HoldersAt(moved) \/ limit = 0 \/ inUse' <= limit
    <2>1. CASE k = 0
      <3>1. \A c \in Callers : stage'[c] = moved[c]
        BY <1>4, <2>1
      <3>. QED
        BY <3>1 DEF Holders, HoldersAt
    <2>2. CASE k # 0
      BY <1>3, <1>4, <2>2
    <2>. QED
      BY <2>1, <2>2
  <1>9. HoldersAt(moved) \subseteq Holders'
    BY <1>7 DEF Holders, HoldersAt
  <1>. QED
    BY <1>6, <1>7, <1>8, <1>9

\* No step gives a slot past the limit, past the queue, or out of order, and no
\* step takes the slot of another call.
LEMMA GrantsNext ==
  ASSUME Inv, [LimiterNext]_limiterVars
  PROVE  /\ GivenWithinLimit /\ TakenFromNobody
         /\ \A c \in Callers : stage[c] = "idle" /\ stage'[c] = "holding" => waiting = <<>>
         /\ \A i, j \in DOMAIN waiting :
              i < j /\ stage'[waiting[j]] = "granted" => stage'[waiting[i]] = "granted"
  <1>. DEFINE A == GivenWithinLimit /\ TakenFromNobody
              B == \A c \in Callers : stage[c] = "idle" /\ stage'[c] = "holding" => waiting = <<>>
              C == \A i, j \in DOMAIN waiting :
                     i < j /\ stage'[waiting[j]] = "granted" => stage'[waiting[i]] = "granted"
  <1>1. /\ limit \in Nat /\ inUse \in Nat /\ stage \in [Callers -> PCs]
        /\ \A i \in DOMAIN waiting : waiting[i] \in Callers /\ stage[waiting[i]] = "waiting"
    BY LimiterAssumption DEF Inv, LimiterTypeOK, PCs, SlotsAccounted, Waiters
  \* Steps after which no call has been granted a slot.
  <1>2. ASSUME Holders' = Holders, \A c \in Callers : stage[c] = "waiting" => stage'[c] # "granted"
        PROVE  A /\ B /\ C
    <2>1. A
      BY <1>2 DEF GivenWithinLimit, TakenFromNobody
    <2>2. B
      BY <1>2 DEF Holders
    <2>3. C
      BY <1>1, <1>2
    <2>. QED
      BY <2>1, <2>2, <2>3
  \* Steps that run pump with n of the slots and the calls at moved.
  <1>3. ASSUME NEW n \in Nat, NEW moved \in [Callers -> PCs],
               QueueAt(waiting, moved), Pump(n, waiting, moved), limit' = limit,
               \A c \in Callers : moved[c] = stage[c] \/ moved[c] = "idle",
               stale' # stale => moved = stage
        PROVE  A /\ B /\ C
    <2>1. /\ Holders' \subseteq HoldersAt(moved) \/ limit = 0 \/ inUse' <= limit
          /\ HoldersAt(moved) \subseteq Holders'
          /\ \A c \in Callers : stage'[c] # moved[c] => stage'[c] = "granted"
          /\ C
      BY <1>3, PumpGrants
    <2>2. /\ HoldersAt(moved) \subseteq Holders
          /\ stale' # stale => HoldersAt(moved) = Holders
      BY <1>3 DEF HoldersAt, Holders
    <2>3. GivenWithinLimit
      BY <2>1, <2>2, <1>3 DEF GivenWithinLimit
    <2>4. \A c \in Holders \ Holders' : stage'[c] = "idle"
      BY <2>1, <1>3 DEF Holders
    <2>5. TakenFromNobody
      BY <2>1, <2>2, <2>4, <1>3 DEF TakenFromNobody
    <2>6. B
      BY <2>1, <1>3
    <2>. QED
      BY <2>1, <2>3, <2>5, <2>6
  <1>4. ASSUME NEW c \in Callers, Acquire(c)
        PROVE  A /\ B /\ C
    <2>1. CASE waiting = <<>> /\ ~Full(inUse)
      <3>1. /\ limit' = limit /\ stale' = stale /\ inUse' = inUse + 1
            /\ stage' = [stage EXCEPT ![c] = "holding"]
        BY <1>4, <2>1 DEF Acquire
      <3>2. Holders \subseteq Holders'
        BY <1>1, <3>1 DEF Holders
      <3>3. limit' = 0 \/ inUse' <= limit'
        BY <1>1, <2>1, <3>1 DEF Full
      <3>. QED
        BY <2>1, <3>1, <3>2, <3>3 DEF GivenWithinLimit, TakenFromNobody
    <2>2. CASE ~(waiting = <<>> /\ ~Full(inUse))
      <3>1. stage[c] = "idle" /\ stage' = [stage EXCEPT ![c] = "waiting"]
        BY <1>4, <2>2 DEF Acquire
      <3>. QED
        BY <1>1, <1>2, <3>1 DEF Holders
    <2>. QED
      BY <2>1, <2>2
  <1>5. ASSUME NEW c \in Callers, Ready(c) \/ Leave(c) \/ End(c)
        PROVE  A /\ B /\ C
    BY <1>1, <1>2, <1>5 DEF Ready, Leave, End, Holders
  <1>6. ASSUME NEW c \in Callers, Decline(c) \/ Release(c)
        PROVE  A /\ B /\ C
    <2>. DEFINE moved == [stage EXCEPT ![c] = "idle"]
    <2>1. stage[c] \in {"granted", "holding"} /\ Pump(inUse - 1, waiting, moved)
      BY <1>6 DEF Decline, Release
    <2>2. inUse - 1 \in Nat /\ moved \in [Callers -> PCs] /\ QueueAt(waiting, moved)
      BY <2>1, GivenBack
    <2>3. /\ \A x \in Callers : moved[x] = stage[x] \/ moved[x] = "idle"
          /\ limit' = limit /\ stale' = stale
      BY <1>1, <1>6 DEF Decline, Release
    <2>. QED
      BY <1>3, <2>1, <2>2, <2>3
  <1>7. ASSUME Changed
        PROVE  A /\ B /\ C
    <2>1. CASE present
      <3>1. QueueAt(waiting, stage)
        BY DEF Inv, SlotsAccounted, Waiters, QueueAt
      <3>. QED
        BY <1>1, <1>3, <1>7, <2>1, <3>1 DEF Changed
    <2>2. CASE ~present
      BY <1>1, <1>2, <1>7, <2>2 DEF Changed, Holders
    <2>. QED
      BY <2>1, <2>2
  <1>8. CASE (\E n \in Limits : SetLimit(n)) \/ UNCHANGED limiterVars
    BY <1>1, <1>2, <1>8 DEF SetLimit, limiterVars, Holders
  <1>. QED
    BY <1>4, <1>5, <1>6, <1>7, <1>8 DEF LimiterNext

------------------------------------------------------------------------------
(* Theorems *)

\* The invariant holds of every reachable state.
THEOREM Invariance == LimiterSpec => []Inv
  BY InvInit, InvNext, PTL DEF LimiterSpec

\* Every variable keeps its type, whatever the limit is changed to
\* (limit.go:18-38): inUse never goes below zero.
THEOREM LimiterTypes == LimiterSpec => []LimiterTypeOK
  BY Invariance, PTL DEF Inv

\* Slots in use are always those of the calls that hold or were granted one:
\* none leaks and none is freed twice (limit.go:48, 143).
THEOREM SlotsAreAccounted == LimiterSpec => [](LimiterTypeOK /\ SlotsAccounted)
  BY Invariance, PTL DEF Inv

\* The gate is in the map whenever a call will look it up (limit.go:143).
THEOREM GateIsKept == LimiterSpec => []GateKept
  BY Invariance, PTL DEF Inv

\* Calls wait only for a call that holds a slot, for any limits and any change
\* of them (limit.go:91, 157).
THEOREM NoIdleWait == LimiterSpec => []NobodyWaitsForNobody
  BY Invariance, PTL DEF Inv

\* Whoever is given a slot is given it within the limit in force (limit.go:68,
\* 158), also one that was freed and is handed on; a change of the limit, and
\* Changed after it, take no call's slot.
THEOREM GrantsWithinLimit == LimiterSpec => WithinLimit
  <1>1. Inv /\ [LimiterNext]_limiterVars => [GivenWithinLimit /\ TakenFromNobody]_limiterVars
    BY GrantsNext
  <1>. QED
    BY <1>1, Invariance, PTL DEF LimiterSpec, WithinLimit

\* No call overtakes another at the gate (limit.go:60, 158).
THEOREM GrantsInOrder == LimiterSpec => FirstComeFirstServed
  <1>1. Inv /\ [LimiterNext]_limiterVars =>
          [/\ \A c \in Callers : stage[c] = "idle" /\ stage'[c] = "holding" => waiting = <<>>
           /\ \A i, j \in DOMAIN waiting :
                i < j /\ stage'[waiting[j]] = "granted" => stage'[waiting[i]] = "granted"]_limiterVars
    BY GrantsNext
  <1>. QED
    BY <1>1, Invariance, PTL DEF LimiterSpec, FirstComeFirstServed
==============================================================================
