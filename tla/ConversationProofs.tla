------------------------- MODULE ConversationProofs --------------------------
(***************************************************************************)
(* What the model is shown of a conversation, for any bounds: the path of  *)
(* a branch is what was said on it, the context and its summary stand for  *)
(* all of it, and a request is one that a provider accepts.                *)
(*                                                                         *)
(* Branches.  A branch is older than those made from it and is left before *)
(* they begin, so appends to one branch are seen on no other, and the path *)
(* of a new branch is what the active one had up to the fork, though the   *)
(* message it is forked from may be of a branch further up.                *)
(*                                                                         *)
(* Shape of the log.  A reply's message, its calls and its results are a   *)
(* group of neighbours; a fork and a cut fall between groups, never into   *)
(* one.  A path and a context therefore have whole groups, and so a        *)
(* result always comes after its call.                                     *)
(*                                                                         *)
(* Messages.  BuildMessages is followed one event at a time: what it has   *)
(* made of the events so far stands for what they tell, and ends with the  *)
(* calls and results of the group that is still open.                      *)
(***************************************************************************)
EXTENDS Conversation, SequenceTheorems, FiniteSetTheorems, WellFoundedInduction, TLAPS

------------------------------------------------------------------------------
(* Natural numbers *)

Less == {p \in Nat \X Nat : p[1] < p[2]}

\* A set of numbers has a least one.
LEMMA LeastOf ==
  ASSUME NEW S \in SUBSET Nat, S # {}
  PROVE  \E n \in S : \A k \in S : n <= k
<1>1. IsWellFoundedOn(Less, Nat)
  BY NatLessThanWellFounded DEF OpToRel, Less
<1>2. PICK n \in S : \A k \in S : <<k, n>> \notin Less
  BY <1>1, WFMin
<1>3. ASSUME NEW k \in S PROVE n <= k
  <2>1. <<k, n>> \notin Less
    BY <1>2
  <2> QED BY <2>1 DEF Less
<1> QED BY <1>3

\* A set of numbers up to b has a greatest one.
LEMMA HighestIs ==
  ASSUME NEW S \in SUBSET Nat, S # {}, NEW b \in Nat, \A s \in S : s <= b
  PROVE  Highest(S) \in S
<1> DEFINE U == {u \in Nat : \A s \in S : s <= u}
<1>1. PICK m \in U : \A u \in U : m <= u
  <2>1. U \in SUBSET Nat /\ U # {}
    OBVIOUS
  <2> HIDE DEF U
  <2> QED BY <2>1, LeastOf
<1>2. m \in S
  <2> SUFFICES ASSUME m \notin S PROVE FALSE
    OBVIOUS
  <2>1. PICK s \in S : TRUE
    OBVIOUS
  <2>2. \A t \in S : t \in Nat /\ t <= m - 1 /\ m > 0
    BY <1>1
  <2>3. m - 1 \in U
    BY <1>1, <2>1, <2>2
  <2> QED BY <1>1, <2>3
<1>3. \E s \in S : \A t \in S : t <= s
  BY <1>1, <1>2
<1> QED BY <1>3 DEF Highest

------------------------------------------------------------------------------
(* Sets of numbers in order *)

\* t is the numbers of S in order.
Enumerates(t, S) ==
  /\ t \in Seq(Nat)
  /\ \A i, j \in DOMAIN t : i < j => t[i] < t[j]
  /\ \A i \in DOMAIN t : t[i] \in S
  /\ \A x \in S : \E i \in DOMAIN t : t[i] = x

\* There is one order only.
LEMMA OneOrder ==
  ASSUME NEW S, NEW t, NEW u, Enumerates(t, S), Enumerates(u, S)
  PROVE  t = u
<1>1. ASSUME NEW a, NEW b, Enumerates(a, S), Enumerates(b, S)
      PROVE  \A k \in DOMAIN a : k \in DOMAIN b /\ a[k] = b[k]
  <2> DEFINE D == {k \in DOMAIN a : ~(k \in DOMAIN b /\ a[k] = b[k])}
  <2> SUFFICES ASSUME D # {} PROVE FALSE
    OBVIOUS
  <2>0. /\ a \in Seq(Nat) /\ b \in Seq(Nat)
        /\ Len(a) \in Nat /\ DOMAIN a = 1 .. Len(a) /\ Len(b) \in Nat /\ DOMAIN b = 1 .. Len(b)
        /\ \A i \in DOMAIN a : a[i] \in Nat
        /\ \A i \in DOMAIN b : b[i] \in Nat
    <3>1. a \in Seq(Nat) /\ b \in Seq(Nat)
      BY <1>1 DEF Enumerates
    <3> HIDE DEF D
    <3> QED BY <3>1
  <2>1. PICK k \in D : \A m \in D : k <= m
    <3>1. D \in SUBSET Nat
      BY <2>0
    <3> HIDE DEF D
    <3> QED BY <3>1, LeastOf
  <2>2. /\ k \in DOMAIN a /\ ~(k \in DOMAIN b /\ a[k] = b[k])
        /\ \A m \in DOMAIN a : m < k => m \in DOMAIN b /\ a[m] = b[m]
    BY <2>0, <2>1
  <2> HIDE DEF D
  <2>3. PICK m \in DOMAIN b : b[m] = a[k]
    BY <1>1, <2>2 DEF Enumerates
  <2>4. m > k
    <3>1. CASE m < k
      <4>1. m \in DOMAIN a /\ a[m] = b[m]
        BY <2>0, <2>2, <2>3, <3>1
      <4>2. a[m] < a[k]
        BY <1>1, <2>2, <3>1, <4>1 DEF Enumerates
      <4> QED BY <2>0, <2>2, <2>3, <4>1, <4>2
    <3> QED BY <2>0, <2>2, <2>3, <3>1
  <2>5. k \in DOMAIN b /\ b[k] < b[m]
    <3>1. k \in DOMAIN b /\ k < m
      BY <2>0, <2>2, <2>3, <2>4
    <3> QED BY <1>1, <2>3, <3>1 DEF Enumerates
  <2>6. PICK n \in DOMAIN a : a[n] = b[k]
    BY <1>1, <2>5 DEF Enumerates
  <2>7. n < k
    <3>1. CASE n > k
      <4>1. a[k] < a[n]
        BY <1>1, <2>2, <2>6, <3>1 DEF Enumerates
      <4> QED BY <2>0, <2>2, <2>3, <2>5, <2>6, <4>1
    <3>2. CASE n = k
      BY <2>0, <2>2, <2>3, <2>5, <2>6, <3>2
    <3> QED BY <2>0, <2>2, <2>6, <3>1, <3>2
  <2>8. n \in DOMAIN b /\ b[n] = b[k] /\ b[n] < b[k]
    BY <1>1, <2>2, <2>5, <2>6, <2>7 DEF Enumerates
  <2> QED BY <2>0, <2>8
<1>2. \A k \in DOMAIN t : k \in DOMAIN u /\ t[k] = u[k]
  BY <1>1
<1>3. \A k \in DOMAIN u : k \in DOMAIN t /\ u[k] = t[k]
  BY <1>1
<1>4. t \in Seq(Nat) /\ u \in Seq(Nat)
  BY DEF Enumerates
<1>5. Len(t) = Len(u)
  <2>1. /\ Len(t) \in Nat /\ DOMAIN t = 1 .. Len(t)
        /\ Len(u) \in Nat /\ DOMAIN u = 1 .. Len(u)
    BY <1>4
  <2>2. Len(t) <= Len(u)
    <3>1. CASE Len(t) = 0
      BY <2>1, <3>1
    <3>2. CASE Len(t) > 0
      <4>1. Len(t) \in DOMAIN t
        BY <2>1, <3>2
      <4>2. Len(t) \in DOMAIN u
        BY <1>2, <4>1
      <4> QED BY <2>1, <4>2
    <3> QED BY <2>1, <3>1, <3>2
  <2>3. Len(u) <= Len(t)
    <3>1. CASE Len(u) = 0
      BY <2>1, <3>1
    <3>2. CASE Len(u) > 0
      <4>1. Len(u) \in DOMAIN u
        BY <2>1, <3>2
      <4>2. Len(u) \in DOMAIN t
        BY <1>3, <4>1
      <4> QED BY <2>1, <4>2
    <3> QED BY <2>1, <3>1, <3>2
  <2>4. Len(t) \in Nat /\ Len(u) \in Nat
    BY <2>1
  <2>5. \A a, b \in Nat : a <= b /\ b <= a => a = b
    OBVIOUS
  <2> QED BY <2>2, <2>3, <2>4, <2>5, Zenon
<1> QED BY <1>2, <1>4, <1>5

\* What comes after all of S goes on with it.
LEMMA GoesOn ==
  ASSUME NEW S, NEW t, Enumerates(t, S), NEW N \in Nat, \A x \in S : x <= N, NEW k \in Nat
  PROVE  Enumerates(t \o [i \in 1 .. k |-> N + i], S \cup {N + i : i \in 1 .. k})
<1> DEFINE u == [i \in 1 .. k |-> N + i]
           w == t \o u
<1>1. t \in Seq(Nat) /\ u \in Seq(Nat) /\ Len(u) = k
  BY DEF Enumerates
<1>2. /\ w \in Seq(Nat) /\ Len(w) = Len(t) + k /\ Len(t) \in Nat
      /\ DOMAIN w = 1 .. Len(t) + k /\ DOMAIN t = 1 .. Len(t)
      /\ \A i \in 1 .. Len(t) : w[i] = t[i]
      /\ \A i \in Len(t) + 1 .. Len(t) + k : w[i] = N + (i - Len(t))
  BY <1>1
<1> HIDE DEF w, u
<1>3. ASSUME NEW i \in DOMAIN w, NEW j \in DOMAIN w, i < j PROVE w[i] < w[j]
  <2>1. CASE j <= Len(t)
    <3>1. i \in DOMAIN t /\ j \in DOMAIN t /\ w[i] = t[i] /\ w[j] = t[j]
      BY <1>2, <1>3, <2>1
    <3> QED BY <1>3, <3>1 DEF Enumerates
  <2>2. CASE i <= Len(t) /\ j > Len(t)
    <3>1. w[i] \in Nat /\ w[i] <= N
      BY <1>2, <2>2 DEF Enumerates
    <3>2. w[j] = N + (j - Len(t)) /\ j - Len(t) \in Nat \ {0}
      <4>1. j \in Len(t) + 1 .. Len(t) + k /\ j - Len(t) \in Nat \ {0}
        BY <1>2, <2>2
      <4> QED BY <1>2, <4>1
    <3> DEFINE d == j - Len(t)
    <3> HIDE DEF d
    <3>3. w[i] < N + d
      BY <3>1, <3>2 DEF d
    <3> QED BY <3>2, <3>3 DEF d
  <2>3. CASE i > Len(t)
    <3>1. w[i] = N + (i - Len(t)) /\ w[j] = N + (j - Len(t))
      <4>1. i \in Len(t) + 1 .. Len(t) + k /\ j \in Len(t) + 1 .. Len(t) + k
        BY <1>2, <1>3, <2>3
      <4> QED BY <1>2, <4>1
    <3> QED BY <1>2, <1>3, <3>1
  <2> QED BY <1>2, <2>1, <2>2, <2>3
<1>4. \A i \in DOMAIN w : w[i] \in S \cup {N + m : m \in 1 .. k}
  <2> SUFFICES ASSUME NEW i \in DOMAIN w PROVE w[i] \in S \cup {N + m : m \in 1 .. k}
    OBVIOUS
  <2>1. CASE i <= Len(t)
    BY <1>2, <2>1 DEF Enumerates
  <2>2. CASE i > Len(t)
    <3>1. w[i] = N + (i - Len(t)) /\ i - Len(t) \in 1 .. k
      <4>1. i \in Len(t) + 1 .. Len(t) + k /\ i - Len(t) \in 1 .. k
        BY <1>2, <2>2
      <4> QED BY <1>2, <4>1
    <3> QED BY <3>1
  <2> QED BY <1>2, <2>1, <2>2
<1>5. ASSUME NEW x \in S \cup {N + m : m \in 1 .. k} PROVE \E i \in DOMAIN w : w[i] = x
  <2>1. CASE x \in S
    BY <1>2, <2>1 DEF Enumerates
  <2>2. ASSUME NEW m \in 1 .. k, x = N + m PROVE \E i \in DOMAIN w : w[i] = x
    <3>1. Len(t) + m \in DOMAIN w /\ w[Len(t) + m] = N + ((Len(t) + m) - Len(t))
      <4>1. Len(t) + m \in DOMAIN w /\ Len(t) + m \in Len(t) + 1 .. Len(t) + k
        BY <1>2
      <4> QED BY <1>2, <4>1
    <3>2. w[Len(t) + m] = x
      BY <1>2, <2>2, <3>1
    <3> QED BY <3>1, <3>2
  <2> QED BY <2>1, <2>2
<1> QED BY <1>2, <1>3, <1>4, <1>5 DEF Enumerates, w, u

\* f is what InOrder collects up to n.
Collects(f, n, S) ==
  f = [k \in 0 .. n |->
         IF k = 0 THEN <<>> ELSE IF k \in S THEN Append(f[k - 1], k) ELSE f[k - 1]]

\* There is such a function: there would be a least n without it.
LEMMA CollectsExists ==
  ASSUME NEW n \in Nat, NEW S
  PROVE  \E f : Collects(f, n, S)
<1> DEFINE D == {k \in Nat : ~\E f : Collects(f, k, S)}
<1> SUFFICES ASSUME D # {} PROVE FALSE
  OBVIOUS
<1>1. PICK k \in D : \A m \in D : k <= m
  <2>1. D \in SUBSET Nat
    OBVIOUS
  <2> HIDE DEF D
  <2> QED BY <2>1, LeastOf
<1>2. k \in Nat /\ ~\E f : Collects(f, k, S)
  OBVIOUS
<1>3. \A m \in Nat : m < k => \E f : Collects(f, m, S)
  BY <1>1
<1> HIDE DEF D
<1>4. CASE k = 0
  <2> DEFINE f == [m \in 0 .. 0 |-> <<>>]
  <2>1. f = [m \in 0 .. 0 |->
               IF m = 0 THEN <<>> ELSE IF m \in S THEN Append(f[m - 1], m) ELSE f[m - 1]]
    OBVIOUS
  <2> QED BY <1>2, <1>4, <2>1 DEF Collects
<1>5. CASE k > 0
  <2>1. PICK f : Collects(f, k - 1, S)
    <3>1. k - 1 \in Nat /\ k - 1 < k
      BY <1>2, <1>5
    <3> QED BY <1>3, <3>1
  <2>2. \A m \in 0 .. k - 1 :
          f[m] = IF m = 0 THEN <<>> ELSE IF m \in S THEN Append(f[m - 1], m) ELSE f[m - 1]
    BY <2>1 DEF Collects
  <2> DEFINE g == [m \in 0 .. k |->
                     IF m = k THEN IF k \in S THEN Append(f[k - 1], k) ELSE f[k - 1] ELSE f[m]]
  <2>3. /\ g[k] = IF k \in S THEN Append(g[k - 1], k) ELSE g[k - 1]
        /\ \A m \in 0 .. k - 1 : g[m] = f[m]
    BY <1>2, <1>5
  <2>4. \A m \in 0 .. k :
          g[m] = IF m = 0 THEN <<>> ELSE IF m \in S THEN Append(g[m - 1], m) ELSE g[m - 1]
    <3> SUFFICES ASSUME NEW m \in 0 .. k
        PROVE g[m] = IF m = 0 THEN <<>> ELSE IF m \in S THEN Append(g[m - 1], m) ELSE g[m - 1]
      OBVIOUS
    <3> HIDE DEF g
    <3>1. CASE m = k
      BY <1>2, <1>5, <2>3, <3>1
    <3>2. CASE m = 0
      <4>1. m \in 0 .. k - 1
        BY <1>2, <1>5, <3>2
      <4> QED BY <2>2, <2>3, <3>2, <4>1
    <3>3. CASE m # k /\ m # 0
      <4>1. m \in 0 .. k - 1 /\ m - 1 \in 0 .. k - 1
        BY <1>2, <1>5, <3>3
      <4>2. g[m] = f[m] /\ g[m - 1] = f[m - 1]
        BY <2>3, <4>1
      <4>3. f[m] = IF m = 0 THEN <<>> ELSE IF m \in S THEN Append(f[m - 1], m) ELSE f[m - 1]
        BY <2>2, <4>1
      <4> QED BY <4>2, <4>3
    <3> QED BY <3>1, <3>2, <3>3
  <2>5. g = [m \in 0 .. k |-> g[m]]
    OBVIOUS
  <2> HIDE DEF g
  <2>6. Collects(g, k, S)
    BY <2>4, <2>5 DEF Collects
  <2> QED BY <1>2, <2>6
<1> QED BY <1>2, <1>4, <1>5

\* InOrder gives the numbers of S in order.
LEMMA OrderIs ==
  ASSUME NEW n \in Nat, NEW S \in SUBSET (1 .. n)
  PROVE  Enumerates(InOrder(n, S), S)
<1>1. PICK f : Collects(f, n, S) /\ InOrder(n, S) = f[n]
  BY CollectsExists DEF Collects, InOrder
<1>2. \A k \in 0 .. n :
        f[k] = IF k = 0 THEN <<>> ELSE IF k \in S THEN Append(f[k - 1], k) ELSE f[k - 1]
  BY <1>1 DEF Collects
<1> DEFINE D == {k \in 0 .. n : ~Enumerates(f[k], S \cap (1 .. k))}
<1>3. D = {}
  <2> SUFFICES ASSUME D # {} PROVE FALSE
    OBVIOUS
  <2>1. PICK k \in D : \A m \in D : k <= m
    <3>1. D \in SUBSET Nat
      OBVIOUS
    <3> HIDE DEF D
    <3> QED BY <3>1, LeastOf
  <2>2. /\ k \in 0 .. n /\ ~Enumerates(f[k], S \cap (1 .. k))
        /\ \A m \in 0 .. n : m < k => Enumerates(f[m], S \cap (1 .. m))
    BY <2>1
  <2> HIDE DEF D
  <2>3. CASE k = 0
    <3>1. f[k] = <<>> /\ S \cap (1 .. k) = {}
      BY <1>2, <2>2, <2>3
    <3> QED BY <2>2, <3>1 DEF Enumerates
  <2>4. CASE k # 0
    <3>1. /\ k - 1 \in 0 .. n /\ k - 1 < k /\ k \in 1 .. n /\ k - 1 \in Nat
          /\ 1 .. k = (1 .. k - 1) \cup {k}
      BY <2>2, <2>4
    <3>2. Enumerates(f[k - 1], S \cap (1 .. k - 1))
      BY <2>2, <3>1
    <3>3. f[k] = IF k \in S THEN Append(f[k - 1], k) ELSE f[k - 1]
      BY <1>2, <2>2, <2>4
    <3>4. CASE k \notin S
      BY <2>2, <3>1, <3>2, <3>3, <3>4
    <3>5. CASE k \in S
      <4> DEFINE t == f[k - 1]
                 w == Append(t, k)
                 u == S \cap (1 .. k - 1)
      <4>0. Enumerates(t, u) /\ f[k] = w /\ S \cap (1 .. k) = u \cup {k} /\ \A x \in u : x < k
        BY <3>1, <3>2, <3>3, <3>5
      <4>1. /\ t \in Seq(Nat) /\ w \in Seq(Nat) /\ Len(t) \in Nat /\ DOMAIN t = 1 .. Len(t)
            /\ DOMAIN w = DOMAIN t \cup {Len(t) + 1} /\ w[Len(t) + 1] = k
            /\ \A i \in DOMAIN t : w[i] = t[i]
        <5>1. t \in Seq(Nat)
          BY <4>0 DEF Enumerates
        <5> HIDE DEF t
        <5> QED BY <3>1, <5>1
      <4> HIDE DEF t, w, u
      <4>2. ASSUME NEW i \in DOMAIN w, NEW j \in DOMAIN w, i < j PROVE w[i] < w[j]
        <5>1. i \in DOMAIN t
          BY <4>1, <4>2
        <5>2. CASE j \in DOMAIN t
          BY <4>0, <4>1, <4>2, <5>1, <5>2 DEF Enumerates
        <5>3. CASE j = Len(t) + 1
          <6>1. t[i] \in u
            BY <4>0, <5>1 DEF Enumerates
          <6> QED BY <4>0, <4>1, <5>1, <5>3, <6>1
        <5> QED BY <4>1, <5>2, <5>3
      <4>3. \A i \in DOMAIN w : w[i] \in u \cup {k}
        BY <4>0, <4>1 DEF Enumerates
      <4>4. \A x \in u \cup {k} : \E i \in DOMAIN w : w[i] = x
        BY <4>0, <4>1 DEF Enumerates
      <4>5. Enumerates(w, u \cup {k})
        BY <4>1, <4>2, <4>3, <4>4 DEF Enumerates
      <4> QED BY <2>2, <4>0, <4>5
    <3> QED BY <3>4, <3>5
  <2> QED BY <2>3, <2>4
<1>4. Enumerates(f[n], S \cap (1 .. n))
  BY <1>3
<1>5. S \cap (1 .. n) = S
  OBVIOUS
<1> QED BY <1>1, <1>4, <1>5

------------------------------------------------------------------------------
(* A log *)

Tree(l) == {Root} \cup {i \in DOMAIN l : l[i].kind = "branch_created"}

IsSeq(l) == \E S : l \in Seq(S)

\* An event that names others names earlier ones, and a user's message is two
\* events in a row.
EventOK(l, i) ==
  LET e == l[i] IN
  /\ ~SessionWide(e) => e.branch \in Tree(l) /\ e.branch < i
  /\ e.kind = "branch_created" =>
       e.parent \in Tree(l) /\ e.fork \in Nat /\ e.parent <= e.fork /\ e.fork < i
  /\ e.kind = "branch_switched" => e.id \in Tree(l)
  /\ e.kind = "message_started" => e.id = i
  /\ e.kind = "message_done" =>
       /\ e.id \in DOMAIN l /\ e.id < i
       /\ l[e.id].kind = "message_started" /\ l[e.id].role = e.role
       /\ e.role = "user" => i = e.id + 1 /\ e.branch = l[e.id].branch

LogOK(l) == IsSeq(l) /\ Len(l) <= MaxLog /\ \A i \in DOMAIN l : EventOK(l, i)

\* The indices of a log, typed.
LEMMA SeqIs ==
  ASSUME NEW l, IsSeq(l)
  PROVE  Len(l) \in Nat /\ DOMAIN l = 1 .. Len(l)
<1>1. PICK S : l \in Seq(S)
  BY DEF IsSeq
<1> QED BY <1>1

\* Every branch but the first was created by an event of the log, from an older branch.
LEMMA TreeIs ==
  ASSUME NEW l, LogOK(l)
  PROVE  /\ Root \in Tree(l) /\ Tree(l) \subseteq 0 .. Len(l)
         /\ \A b \in Tree(l) \ {Root} :
              /\ b \in DOMAIN l /\ l[b].kind = "branch_created"
              /\ l[b].parent \in Tree(l) /\ l[b].fork \in Nat
              /\ l[b].parent <= l[b].fork /\ l[b].fork < b /\ l[b].parent < b
<1>1. Len(l) \in Nat /\ DOMAIN l = 1 .. Len(l)
  BY SeqIs DEF LogOK
<1>2. Root \in Tree(l) /\ Tree(l) \subseteq 0 .. Len(l)
  BY <1>1 DEF Tree, Root
<1>3. ASSUME NEW b \in Tree(l) \ {Root}
      PROVE  /\ b \in DOMAIN l /\ l[b].kind = "branch_created"
             /\ l[b].parent \in Tree(l) /\ l[b].fork \in Nat
             /\ l[b].parent <= l[b].fork /\ l[b].fork < b /\ l[b].parent < b
  <2>1. b \in DOMAIN l /\ l[b].kind = "branch_created"
    BY DEF Tree
  <2>2. /\ l[b].parent \in Tree(l) /\ l[b].fork \in Nat
        /\ l[b].parent <= l[b].fork /\ l[b].fork < b
    BY <2>1 DEF LogOK, EventOK
  <2>3. l[b].parent \in Nat /\ b \in Nat
    BY <1>1, <1>2, <2>1, <2>2
  <2> QED BY <2>1, <2>2, <2>3
<1> QED BY <1>2, <1>3

\* What holds for the root, and for a branch when for its parent, holds for all.
LEMMA TreeInduction ==
  ASSUME NEW l, LogOK(l), NEW S, Root \in S,
         \A b \in Tree(l) \ {Root} : l[b].parent \in S => b \in S
  PROVE  Tree(l) \subseteq S
<1> DEFINE D == Tree(l) \ S
<1> SUFFICES ASSUME D # {} PROVE FALSE
  OBVIOUS
<1>1. PICK b \in D : \A k \in D : b <= k
  <2>1. D \in SUBSET Nat
    BY TreeIs, SeqIs DEF LogOK
  <2> HIDE DEF D
  <2> QED BY <2>1, LeastOf
<1>2. b \in Tree(l) \ {Root} /\ b \notin S /\ b \in Nat
  BY <1>1, TreeIs, SeqIs DEF LogOK
<1>3. l[b].parent \in Tree(l) /\ l[b].parent < b /\ l[b].parent \in Nat
  BY <1>2, TreeIs, SeqIs DEF LogOK
<1>4. l[b].parent \in S
  BY <1>1, <1>2, <1>3
<1> QED BY <1>2, <1>4

------------------------------------------------------------------------------
(* Paths *)

\* Path, of any log.
PathOf(l) ==
  LET limit[b \in Tree(l)] ==
        IF b = Root THEN [x \in {Root} |-> MaxLog]
        ELSE LET parent == l[b].parent
                 up == limit[parent]
             IN [x \in {b} \cup DOMAIN up |->
                   IF x = b THEN MaxLog ELSE IF x = parent THEN l[b].fork ELSE up[x]]
  IN limit

\* A branch's limits, when f are those of the others.
Limit(l, f, b) ==
  IF b = Root THEN [x \in {Root} |-> MaxLog]
  ELSE [x \in {b} \cup DOMAIN f[l[b].parent] |->
          IF x = b THEN MaxLog
          ELSE IF x = l[b].parent THEN l[b].fork ELSE f[l[b].parent][x]]

Limits(f, l, n) == f = [b \in {x \in Tree(l) : x <= n} |-> Limit(l, f, b)]

\* Every log has its cuts, found by induction on the branches' ids.
LEMMA LimitsExist ==
  ASSUME NEW l, LogOK(l), NEW n \in Nat
  PROVE  \E f : Limits(f, l, n)
<1> DEFINE D == {k \in Nat : ~\E f : Limits(f, l, k)}
<1> SUFFICES ASSUME D # {} PROVE FALSE
  OBVIOUS
<1>1. PICK k \in D : \A m \in D : k <= m
  <2>1. D \in SUBSET Nat
    OBVIOUS
  <2> HIDE DEF D
  <2> QED BY <2>1, LeastOf
<1>2. k \in Nat /\ ~\E f : Limits(f, l, k)
  OBVIOUS
<1>3. \A m \in Nat : m < k => \E f : Limits(f, l, m)
  BY <1>1
<1> HIDE DEF D
<1>4. Tree(l) \subseteq Nat
  BY TreeIs, SeqIs DEF LogOK
<1>5. CASE k = 0
  <2> DEFINE f == [b \in {x \in Tree(l) : x <= 0} |-> [x \in {Root} |-> MaxLog]]
  <2>1. \A b \in {x \in Tree(l) : x <= 0} : b = Root
    BY <1>4 DEF Root
  <2>2. f = [b \in {x \in Tree(l) : x <= 0} |-> Limit(l, f, b)]
    BY <2>1 DEF Limit
  <2> HIDE DEF f
  <2>3. Limits(f, l, k)
    BY <1>5, <2>2 DEF Limits
  <2> QED BY <1>2, <2>3
<1>6. CASE k > 0
  <2>1. PICK f : Limits(f, l, k - 1)
    <3>1. k - 1 \in Nat /\ k - 1 < k
      BY <1>2, <1>6
    <3> QED BY <1>3, <3>1
  <2> DEFINE A == {x \in Tree(l) : x <= k - 1}
             B == {x \in Tree(l) : x <= k}
             g == [b \in B |-> Limit(l, f, b)]
  <2>2. f = [b \in A |-> Limit(l, f, b)]
    BY <2>1 DEF Limits
  <2>3. A \subseteq B
    BY <1>2, <1>4
  <2>4. \A b \in A : g[b] = f[b]
    <3> HIDE DEF A, B
    <3> QED BY <2>2, <2>3
  <2>5. \A b \in B : b # Root => l[b].parent \in A
    <3> SUFFICES ASSUME NEW b \in B, b # Root PROVE l[b].parent \in A
      OBVIOUS
    <3>1. b \in Tree(l) \ {Root} /\ b \in Nat /\ b <= k
      BY <1>4
    <3>2. l[b].parent \in Tree(l) /\ l[b].parent < b /\ l[b].parent \in Nat
      BY <1>4, <3>1, TreeIs
    <3> QED BY <1>2, <3>1, <3>2
  <2> HIDE DEF A
  <2>6. \A b \in B : Limit(l, g, b) = Limit(l, f, b)
    <3> SUFFICES ASSUME NEW b \in B PROVE Limit(l, g, b) = Limit(l, f, b)
      OBVIOUS
    <3> HIDE DEF B, g
    <3>1. CASE b = Root
      BY <3>1 DEF Limit
    <3>2. CASE b # Root
      <4>1. g[l[b].parent] = f[l[b].parent]
        BY <2>4, <2>5, <3>2
      <4> QED BY <4>1 DEF Limit
    <3> QED BY <3>1, <3>2
  <2>7. g = [b \in B |-> Limit(l, g, b)]
    <3>1. g = [b \in B |-> g[b]] /\ \A b \in B : g[b] = Limit(l, f, b)
      OBVIOUS
    <3> HIDE DEF g, B
    <3> QED BY <2>6, <3>1
  <2> HIDE DEF g
  <2>8. Limits(g, l, k)
    BY <2>7 DEF Limits
  <2> QED BY <1>2, <2>8
<1> QED BY <1>2, <1>5, <1>6

\* Path is what its definition says.
LEMMA PathIs ==
  ASSUME NEW l, LogOK(l), NEW b \in Tree(l)
  PROVE  PathOf(l)[b] = Limit(l, PathOf(l), b)
<1>1. Len(l) \in Nat /\ {x \in Tree(l) : x <= Len(l)} = Tree(l)
  BY TreeIs, SeqIs DEF LogOK
<1>2. PICK f : f = [x \in Tree(l) |-> Limit(l, f, x)]
  BY <1>1, LimitsExist DEF Limits
<1>3. PathOf(l) = CHOOSE g : g = [x \in Tree(l) |-> Limit(l, g, x)]
  BY DEF PathOf, Limit
<1>4. PathOf(l) = [x \in Tree(l) |-> Limit(l, PathOf(l), x)]
  BY <1>2, <1>3
<1> QED BY <1>4

\* OnBranch, of any log, and the events appended to a branch itself.
SeenOn(l, b) ==
  {i \in DOMAIN l : /\ ~SessionWide(l[i]) /\ l[i].branch \in DOMAIN PathOf(l)[b]
                    /\ i <= PathOf(l)[b][l[i].branch]}

Own(l, b) == {i \in DOMAIN l : ~SessionWide(l[i]) /\ l[i].branch = b}

\* A branch's own events come after the event that created it.
LEMMA OwnIs ==
  ASSUME NEW l, LogOK(l), NEW b \in Tree(l), NEW i \in Own(l, b)
  PROVE  i \in Nat /\ b \in Nat /\ b < i /\ i <= Len(l) /\ i <= MaxLog
<1>1. i \in DOMAIN l /\ l[i].branch = b /\ b < i
  BY DEF Own, LogOK, EventOK
<1>2. Len(l) \in Nat /\ DOMAIN l = 1 .. Len(l) /\ Len(l) <= MaxLog /\ b \in Nat /\ MaxLog \in Nat
  BY TreeIs, SeqIs, ConversationAssumption DEF LogOK
<1> QED BY <1>1, <1>2

\* A branch has its own events, and its parent's but those after the fork.
LEMMA SeenOnTree ==
  ASSUME NEW l, LogOK(l)
  PROVE  /\ SeenOn(l, Root) = Own(l, Root)
         /\ \A b \in Tree(l) \ {Root} :
              SeenOn(l, b) = Own(l, b) \cup {i \in SeenOn(l, l[b].parent) :
                                           l[i].branch = l[b].parent => i <= l[b].fork}
<1>1. Root \in Tree(l)
  BY TreeIs
<1>2. \A b \in Tree(l) : b \in DOMAIN PathOf(l)[b] /\ PathOf(l)[b][b] = MaxLog
  <2> SUFFICES ASSUME NEW b \in Tree(l)
               PROVE  b \in DOMAIN PathOf(l)[b] /\ PathOf(l)[b][b] = MaxLog
    OBVIOUS
  <2>1. PathOf(l)[b] = Limit(l, PathOf(l), b)
    BY PathIs
  <2>2. CASE b = Root
    BY <2>1, <2>2 DEF Limit
  <2>3. CASE b # Root
    BY <2>1, <2>3 DEF Limit
  <2> QED BY <2>2, <2>3
<1>3. SeenOn(l, Root) = Own(l, Root)
  <2>1. PathOf(l)[Root] = [x \in {Root} |-> MaxLog]
    BY <1>1, PathIs DEF Limit
  <2>2. \A i \in Own(l, Root) : i <= MaxLog
    BY <1>1, OwnIs
  <2> QED BY <2>1, <2>2 DEF SeenOn, Own
<1>4. ASSUME NEW b \in Tree(l) \ {Root}
      PROVE  SeenOn(l, b) = Own(l, b) \cup {i \in SeenOn(l, l[b].parent) :
                                          l[i].branch = l[b].parent => i <= l[b].fork}
  <2> DEFINE p == l[b].parent
             up == PathOf(l)[p]
             my == PathOf(l)[b]
  <2>1. p \in Tree(l) /\ p \in DOMAIN up /\ up[p] = MaxLog /\ p # b
    <3>1. p \in Tree(l) /\ p < b /\ p \in Nat /\ b \in Nat
      BY TreeIs, SeqIs DEF LogOK
    <3> QED BY <1>2, <3>1
  <2>2. my = [x \in {b} \cup DOMAIN up |->
                IF x = b THEN MaxLog ELSE IF x = p THEN l[b].fork ELSE up[x]]
    BY PathIs DEF Limit
  <2>3. \A i \in Own(l, b) \cup Own(l, p) : i <= MaxLog
    BY <2>1, OwnIs
  <2> HIDE DEF p, up, my
  <2>4. ASSUME NEW i \in DOMAIN l, ~SessionWide(l[i])
        PROVE  i \in SeenOn(l, b) <=>
                 i \in Own(l, b) \/ (i \in SeenOn(l, p) /\ (l[i].branch = p => i <= l[b].fork))
    <3>1. i \in SeenOn(l, b) <=> l[i].branch \in DOMAIN my /\ i <= my[l[i].branch]
      BY <2>4 DEF SeenOn, my
    <3>2. i \in SeenOn(l, p) <=> l[i].branch \in DOMAIN up /\ i <= up[l[i].branch]
      BY <2>4 DEF SeenOn, up
    <3>3. CASE l[i].branch = b
      <4>1. i \in Own(l, b)
        BY <2>4, <3>3 DEF Own
      <4> QED BY <2>2, <2>3, <3>1, <3>3, <4>1
    <3>4. CASE l[i].branch = p
      <4>1. i \in Own(l, p) /\ i \notin Own(l, b)
        BY <2>1, <2>4, <3>4 DEF Own
      <4> QED BY <2>1, <2>2, <2>3, <3>1, <3>2, <3>4, <4>1
    <3>5. CASE l[i].branch # b /\ l[i].branch # p
      <4>1. i \notin Own(l, b)
        BY <3>5 DEF Own
      <4>2. l[i].branch \in DOMAIN my <=> l[i].branch \in DOMAIN up
        BY <2>2, <3>5
      <4>3. l[i].branch \in DOMAIN my => my[l[i].branch] = up[l[i].branch]
        BY <2>2, <3>5
      <4> QED BY <3>1, <3>2, <3>5, <4>1, <4>2, <4>3
    <3> QED BY <3>3, <3>4, <3>5
  <2>5. \A i \in SeenOn(l, b) \cup Own(l, b) \cup SeenOn(l, p) : i \in DOMAIN l /\ ~SessionWide(l[i])
    BY DEF SeenOn, Own
  <2>6. SeenOn(l, b) = Own(l, b) \cup {i \in SeenOn(l, p) : l[i].branch = p => i <= l[b].fork}
    BY <2>4, <2>5
  <2> QED BY <2>6 DEF p
<1> QED BY <1>3, <1>4

\* What a branch has of others is older than itself.
LEMMA OthersAreOlder ==
  ASSUME NEW l, LogOK(l), NEW b \in Tree(l), NEW i \in SeenOn(l, b), l[i].branch # b
  PROVE  i < b
<1> DEFINE S == {x \in Tree(l) : \A j \in SeenOn(l, x) : l[j].branch # x => j < x}
<1>1. Root \in S
  BY TreeIs, SeenOnTree DEF Own
<1>2. ASSUME NEW x \in Tree(l) \ {Root}, l[x].parent \in S PROVE x \in S
  <2> DEFINE p == l[x].parent
  <2>1. \A j \in SeenOn(l, p) : l[j].branch # p => j < p
    BY <1>2
  <2>2. /\ p \in Nat /\ l[x].fork \in Nat /\ x \in Nat
        /\ p <= l[x].fork /\ l[x].fork < x /\ p < x
    BY TreeIs, SeqIs DEF LogOK
  <2>3. ASSUME NEW j \in SeenOn(l, x), l[j].branch # x PROVE j < x
    <3>1. j \in SeenOn(l, p) /\ (l[j].branch = p => j <= l[x].fork)
      BY <2>3, SeenOnTree DEF Own
    <3>2. j \in Nat
      BY SeqIs DEF SeenOn, LogOK
    <3>3. CASE l[j].branch = p
      BY <2>2, <3>1, <3>2, <3>3
    <3>4. CASE l[j].branch # p
      <4>1. j < p
        BY <2>1, <3>1, <3>4
      <4> QED BY <2>2, <3>2, <4>1
    <3> QED BY <3>3, <3>4
  <2> QED BY <2>3
<1> HIDE DEF S
<1>3. Tree(l) \subseteq S
  BY <1>1, <1>2, TreeInduction
<1> QED BY <1>3 DEF S

\* A branch has its parent's events up to the fork, and its own.
LEMMA SeenOnForked ==
  ASSUME NEW l, LogOK(l), NEW b \in Tree(l) \ {Root}
  PROVE  SeenOn(l, b) = Own(l, b) \cup {i \in SeenOn(l, l[b].parent) : i <= l[b].fork}
<1> DEFINE p == l[b].parent
<1>1. SeenOn(l, b) = Own(l, b) \cup {i \in SeenOn(l, p) : l[i].branch = p => i <= l[b].fork}
  BY SeenOnTree
<1>2. p \in Tree(l) /\ p \in Nat /\ l[b].fork \in Nat /\ p <= l[b].fork
  BY TreeIs, SeqIs DEF LogOK
<1> HIDE DEF p
<1>3. ASSUME NEW i \in SeenOn(l, p) PROVE (l[i].branch = p => i <= l[b].fork) <=> i <= l[b].fork
  <2>1. i \in Nat
    BY SeqIs DEF SeenOn, LogOK
  <2>2. CASE l[i].branch = p
    BY <2>2
  <2>3. CASE l[i].branch # p
    <3>1. i < p
      BY <1>2, <2>3, OthersAreOlder
    <3>2. i <= l[b].fork
      BY <1>2, <2>1, <3>1
    <3> QED BY <2>3, <3>2
  <2> QED BY <2>2, <2>3
<1>4. {i \in SeenOn(l, p) : l[i].branch = p => i <= l[b].fork} = {i \in SeenOn(l, p) : i <= l[b].fork}
  BY <1>3
<1> QED BY <1>1, <1>4 DEF p

\* Up to an event of a path, the path is that of the event's branch.
LEMMA SamePrefix ==
  ASSUME NEW l, LogOK(l), NEW b \in Tree(l), NEW i \in SeenOn(l, b)
  PROVE  /\ l[i].branch \in Tree(l)
         /\ \A j \in Nat : j <= i => (j \in SeenOn(l, b) <=> j \in SeenOn(l, l[i].branch))
<1> DEFINE S == {x \in Tree(l) : \A k \in SeenOn(l, x) : \A j \in Nat :
                    j <= k => (j \in SeenOn(l, x) <=> j \in SeenOn(l, l[k].branch))}
<1>1. Root \in S
  <2>1. \A k \in SeenOn(l, Root) : l[k].branch = Root
    BY SeenOnTree DEF Own
  <2> QED BY <2>1, TreeIs
<1>2. ASSUME NEW x \in Tree(l) \ {Root}, l[x].parent \in S PROVE x \in S
  <2> DEFINE p == l[x].parent
  <2>1. \A k \in SeenOn(l, p) : \A j \in Nat :
           j <= k => (j \in SeenOn(l, p) <=> j \in SeenOn(l, l[k].branch))
    BY <1>2
  <2>2. p \in Tree(l) /\ x \in Nat /\ l[x].fork \in Nat /\ l[x].fork < x
    BY TreeIs, SeqIs DEF LogOK
  <2>3. SeenOn(l, x) = Own(l, x) \cup {k \in SeenOn(l, p) : k <= l[x].fork}
    BY SeenOnForked
  <2> HIDE DEF p
  <2>4. ASSUME NEW k \in SeenOn(l, x), NEW j \in Nat, j <= k
        PROVE  j \in SeenOn(l, x) <=> j \in SeenOn(l, l[k].branch)
    <3>1. CASE k \in Own(l, x)
      BY <3>1 DEF Own
    <3>2. CASE k \in SeenOn(l, p) /\ k <= l[x].fork
      <4>1. j \in SeenOn(l, p) <=> j \in SeenOn(l, l[k].branch)
        BY <2>1, <2>4, <3>2
      <4>2. k \in Nat /\ j <= l[x].fork
        <5>1. k \in Nat
          BY SeqIs DEF SeenOn, LogOK
        <5> QED BY <2>2, <2>4, <3>2, <5>1
      <4>3. j \notin Own(l, x)
        <5>1. \A m \in Own(l, x) : x < m
          BY OwnIs
        <5>2. ~(x < j)
          BY <2>2, <4>2
        <5> QED BY <5>1, <5>2
      <4>4. j \in SeenOn(l, x) <=> j \in SeenOn(l, p)
        BY <2>3, <4>2, <4>3
      <4> QED BY <4>1, <4>4
    <3> QED BY <2>3, <3>1, <3>2
  <2> QED BY <2>4
<1> HIDE DEF S
<1>3. Tree(l) \subseteq S
  BY <1>1, <1>2, TreeInduction
<1>4. i \in DOMAIN l /\ ~SessionWide(l[i])
  BY DEF SeenOn
<1>5. l[i].branch \in Tree(l)
  BY <1>4 DEF LogOK, EventOK
<1> QED BY <1>3, <1>5 DEF S

------------------------------------------------------------------------------
(* Appends *)

\* k goes on after l.
Extends(k, l) ==
  IsSeq(k) /\ Len(l) <= Len(k) /\ \A i \in DOMAIN l : i \in DOMAIN k /\ k[i] = l[i]

\* A longer log has the branches and their paths, and on each what is new there.
LEMMA Grown ==
  ASSUME NEW l, NEW k, LogOK(l), LogOK(k), Extends(k, l)
  PROVE  /\ Tree(l) \subseteq Tree(k)
         /\ \A b \in Tree(l) : SeenOn(k, b) = SeenOn(l, b) \cup {i \in Own(k, b) : i > Len(l)}
<1>1. Tree(l) \subseteq Tree(k)
  BY DEF Tree, Extends
<1>2. /\ Len(l) \in Nat /\ DOMAIN l = 1 .. Len(l) /\ Len(k) \in Nat /\ DOMAIN k = 1 .. Len(k)
      /\ Len(l) <= Len(k) /\ \A i \in DOMAIN l : k[i] = l[i]
  BY SeqIs DEF LogOK, Extends
<1>3. \A b : Own(k, b) = Own(l, b) \cup {i \in Own(k, b) : i > Len(l)}
  <2> SUFFICES ASSUME NEW b, NEW i \in Nat
               PROVE  i \in Own(k, b) <=> i \in Own(l, b) \/ (i \in Own(k, b) /\ i > Len(l))
    BY <1>2 DEF Own
  <2>1. CASE i \in DOMAIN l
    BY <1>2, <2>1 DEF Own
  <2>2. CASE i \notin DOMAIN l
    BY <1>2, <2>2 DEF Own
  <2> QED BY <2>1, <2>2
<1> DEFINE New(b) == {i \in Own(k, b) : i > Len(l)}
           S == {b \in Tree(l) : SeenOn(k, b) = SeenOn(l, b) \cup New(b)}
<1>4. Root \in S
  <2>1. SeenOn(k, Root) = Own(k, Root) /\ SeenOn(l, Root) = Own(l, Root) /\ Root \in Tree(l)
    BY SeenOnTree, TreeIs
  <2> QED BY <1>3, <2>1
<1>5. ASSUME NEW b \in Tree(l) \ {Root}, l[b].parent \in S PROVE b \in S
  <2> DEFINE p == l[b].parent
             f == l[b].fork
  <2>1. b \in DOMAIN l /\ k[b] = l[b] /\ b \in Tree(k) \ {Root} /\ p \in Tree(l)
        /\ f \in Nat /\ f < b /\ f < Len(l)
    BY <1>1, <1>2, TreeIs
  <2>2. SeenOn(l, b) = Own(l, b) \cup {i \in SeenOn(l, p) : i <= f}
    BY SeenOnForked
  <2>3. SeenOn(k, b) = Own(k, b) \cup {i \in SeenOn(k, p) : i <= f}
    <3>1. SeenOn(k, b) = Own(k, b) \cup {i \in SeenOn(k, k[b].parent) : i <= k[b].fork}
      BY <2>1, SeenOnForked
    <3> QED BY <2>1, <3>1
  <2>4. SeenOn(k, p) = SeenOn(l, p) \cup New(p)
    BY <1>5
  <2> HIDE DEF p, f
  <2>5. \A i \in New(p) : ~(i <= f)
    BY <1>2, <2>1 DEF Own
  <2>6. {i \in SeenOn(k, p) : i <= f} = {i \in SeenOn(l, p) : i <= f}
    <3> HIDE DEF New, S
    <3> QED BY <2>4, <2>5
  <2>7. Own(k, b) = Own(l, b) \cup New(b)
    BY <1>3
  <2>8. SeenOn(k, b) = SeenOn(l, b) \cup New(b)
    <3> HIDE DEF New, S
    <3> QED BY <2>2, <2>3, <2>6, <2>7
  <2> QED BY <2>8
<1> HIDE DEF S
<1>6. Tree(l) \subseteq S
  BY <1>4, <1>5, TreeInduction
<1> QED BY <1>1, <1>6 DEF S

\* What a log with the first n events of s appended is, position by position.
LEMMA Appended ==
  ASSUME NEW l, IsSeq(l), NEW s, IsSeq(s), NEW n \in 1 .. Len(s)
  PROVE  /\ IsSeq(l \o SubSeq(s, 1, n)) /\ Len(l \o SubSeq(s, 1, n)) = Len(l) + n
         /\ Extends(l \o SubSeq(s, 1, n), l)
         /\ \A j \in 1 .. n : (l \o SubSeq(s, 1, n))[Len(l) + j] = s[j]
<1>1. PICK A : l \in Seq(A)
  BY DEF IsSeq
<1>2. PICK B : s \in Seq(B)
  BY DEF IsSeq
<1> DEFINE C == A \cup B
           c == SubSeq(s, 1, n)
           k == l \o c
<1>3. l \in Seq(C) /\ s \in Seq(C)
  <2>1. /\ Len(l) \in Nat /\ l = [i \in 1 .. Len(l) |-> l[i]] /\ \A i \in 1 .. Len(l) : l[i] \in C
        /\ Len(s) \in Nat /\ s = [i \in 1 .. Len(s) |-> s[i]] /\ \A i \in 1 .. Len(s) : s[i] \in C
    BY <1>1, <1>2
  <2> HIDE DEF C
  <2>2. l \in [1 .. Len(l) -> C] /\ s \in [1 .. Len(s) -> C]
    BY <2>1
  <2> QED BY <2>1, <2>2
<1> HIDE DEF C
<1>4. Len(s) \in Nat /\ n \in Nat /\ 1 <= n /\ n <= Len(s) /\ Len(l) \in Nat
  BY <1>3
<1>5. c \in Seq(C) /\ Len(c) = n /\ \A j \in 1 .. n : c[j] = s[j]
  <2>1. /\ c \in Seq(C) /\ Len(c) = IF 1 <= n THEN n - 1 + 1 ELSE 0
        /\ \A i \in 1 .. n - 1 + 1 : c[i] = s[1 + i - 1]
    <3>1. \A i \in 1 .. n : s[i] \in C
      BY <1>3, <1>4
    <3> QED BY <1>3, <1>4, <3>1, SubSeqProperties
  <2> HIDE DEF c
  <2> QED BY <1>4, <2>1
<1> HIDE DEF c
<1>6. /\ k \in Seq(C) /\ Len(k) = Len(l) + n
      /\ \A i \in 1 .. Len(l) + n : k[i] = IF i <= Len(l) THEN l[i] ELSE c[i - Len(l)]
  BY <1>3, <1>5, ConcatProperties
<1> HIDE DEF k
<1>7. DOMAIN k = 1 .. Len(l) + n /\ DOMAIN l = 1 .. Len(l)
  BY <1>3, <1>4, <1>6
<1>8. Extends(k, l)
  <2>1. \A i \in DOMAIN l : i \in DOMAIN k /\ k[i] = l[i]
    BY <1>4, <1>6, <1>7
  <2> QED BY <1>4, <1>6, <2>1 DEF Extends, IsSeq
<1>9. ASSUME NEW j \in 1 .. n PROVE k[Len(l) + j] = s[j]
  <2>1. Len(l) + j \in 1 .. Len(l) + n /\ ~(Len(l) + j <= Len(l)) /\ (Len(l) + j) - Len(l) = j
    BY <1>4
  <2> QED BY <1>5, <1>6, <2>1
<1> QED BY <1>6, <1>8, <1>9 DEF k, c, IsSeq

\* Events of branch a, as a turn appends them: a reply ends a message of the log,
\* and a user's message is begun and ended at once.
ScriptOK(l, a, s) ==
  /\ IsSeq(s)
  /\ \A j \in 1 .. Len(s) :
       LET e == s[j] IN
       /\ ~SessionWide(e) /\ e.branch = a
       /\ e.kind = "message_started" => e.id = Len(l) + j
       /\ e.kind = "message_done" =>
            \/ /\ e.id \in DOMAIN l /\ l[e.id].kind = "message_started"
               /\ l[e.id].role = e.role /\ e.role # "user"
            \/ /\ j = 2 /\ e.id = Len(l) + 1
               /\ s[1].kind = "message_started" /\ s[1].role = e.role

\* k is l with the first n events of s, for branch a.
Appends(k, l, a, s, n) ==
  /\ LogOK(l) /\ a \in Tree(l) /\ ScriptOK(l, a, s) /\ Len(l) + Len(s) <= MaxLog
  /\ n \in 1 .. Len(s) /\ k = l \o SubSeq(s, 1, n)

\* What has been appended to branch a is seen on a, and so far on no other.
ScriptSeen(k, l, a, s, n) ==
  /\ LogOK(k) /\ Extends(k, l) /\ Tree(k) = Tree(l) /\ k[Len(l) + 1] = s[1]
  /\ Len(l) + 1 \in DOMAIN k
  /\ \A b \in Tree(l) :
       SeenOn(k, b) = IF b = a THEN SeenOn(l, b) \cup {Len(l) + j : j \in 1 .. n} ELSE SeenOn(l, b)

\* What appending a script comes to.
LEMMA ScriptAppended ==
  ASSUME NEW k, NEW l, NEW a, NEW s, NEW n, Appends(k, l, a, s, n)
  PROVE  ScriptSeen(k, l, a, s, n)
<1> USE DEF Appends
<1>1. /\ IsSeq(k) /\ Len(k) = Len(l) + n /\ Extends(k, l)
      /\ \A j \in 1 .. n : k[Len(l) + j] = s[j]
  BY Appended DEF LogOK, ScriptOK
<1>2. /\ Len(l) \in Nat /\ DOMAIN l = 1 .. Len(l) /\ DOMAIN k = 1 .. Len(l) + n
      /\ Len(s) \in Nat /\ n \in Nat /\ 1 <= n /\ n <= Len(s)
      /\ \A i \in DOMAIN l : i \in DOMAIN k /\ k[i] = l[i]
  BY <1>1, SeqIs DEF LogOK, Extends, ScriptOK
<1>3. ASSUME NEW i \in DOMAIN k, i \notin DOMAIN l
      PROVE  i - Len(l) \in 1 .. n /\ i = Len(l) + (i - Len(l)) /\ k[i] = s[i - Len(l)]
  <2>1. i - Len(l) \in 1 .. n /\ i = Len(l) + (i - Len(l))
    BY <1>2, <1>3
  <2> QED BY <1>1, <2>1
<1>4. \A j \in 1 .. n : ~SessionWide(s[j]) /\ s[j].branch = a
  BY <1>2 DEF ScriptOK
<1>5. Tree(k) = Tree(l)
  <2>1. \A i \in DOMAIN k : i \notin DOMAIN l => k[i].kind # "branch_created"
    BY <1>3, <1>4 DEF SessionWide
  <2> QED BY <1>2, <2>1 DEF Tree
<1>6. LogOK(k)
  <2>1. ASSUME NEW i \in DOMAIN l PROVE EventOK(k, i)
    <3>1. EventOK(l, i) /\ k[i] = l[i]
      BY <1>2 DEF LogOK
    <3> QED BY <1>2, <1>5, <3>1 DEF EventOK
  <2>2. ASSUME NEW i \in DOMAIN k, i \notin DOMAIN l PROVE EventOK(k, i)
    <3> DEFINE j == i - Len(l)
               e == s[j]
    <3>1. j \in 1 .. n /\ i = Len(l) + j /\ k[i] = e
      BY <1>3, <2>2
    <3> HIDE DEF j
    <3>2. /\ ~SessionWide(e) /\ e.branch = a
          /\ e.kind = "message_started" => e.id = Len(l) + j
          /\ e.kind = "message_done" =>
               \/ /\ e.id \in DOMAIN l /\ l[e.id].kind = "message_started"
                  /\ l[e.id].role = e.role /\ e.role # "user"
               \/ /\ j = 2 /\ e.id = Len(l) + 1
                  /\ s[1].kind = "message_started" /\ s[1].role = e.role
      BY <1>2, <3>1 DEF ScriptOK
    <3> HIDE DEF e
    <3>3. a \in Tree(k) /\ a < i
      <4>1. a \in 0 .. Len(l)
        BY TreeIs
      <4> QED BY <1>2, <1>5, <3>1, <4>1
    <3>4. e.kind = "message_done" =>
            /\ e.id \in DOMAIN k /\ e.id < i
            /\ k[e.id].kind = "message_started" /\ k[e.id].role = e.role
            /\ e.role = "user" => i = e.id + 1 /\ e.branch = k[e.id].branch
      <4> SUFFICES ASSUME e.kind = "message_done"
                   PROVE  /\ e.id \in DOMAIN k /\ e.id < i
                          /\ k[e.id].kind = "message_started" /\ k[e.id].role = e.role
                          /\ e.role = "user" => i = e.id + 1 /\ e.branch = k[e.id].branch
        OBVIOUS
      <4>1. CASE /\ e.id \in DOMAIN l /\ l[e.id].kind = "message_started"
                 /\ l[e.id].role = e.role /\ e.role # "user"
        BY <1>2, <3>1, <4>1
      <4>2. CASE /\ j = 2 /\ e.id = Len(l) + 1
                 /\ s[1].kind = "message_started" /\ s[1].role = e.role
        <5>1. 1 \in 1 .. n /\ Len(l) + 1 \in DOMAIN k
          BY <1>2, <3>1, <4>2
        <5>2. k[e.id] = s[1] /\ s[1].branch = a
          BY <1>1, <1>4, <4>2, <5>1
        <5>3. i = e.id + 1 /\ e.id < i
          BY <1>2, <3>1, <4>2
        <5> QED BY <3>2, <4>2, <5>1, <5>2, <5>3
      <4> QED BY <3>2, <4>1, <4>2
    <3>5. /\ e.kind # "branch_created" /\ e.kind # "branch_switched"
          /\ e.kind = "message_started" => e.id = i
      BY <3>1, <3>2 DEF SessionWide
    <3> QED BY <3>1, <3>2, <3>3, <3>4, <3>5 DEF EventOK
  <2>3. Len(k) <= MaxLog
    BY <1>1, <1>2, ConversationAssumption
  <2> QED BY <1>1, <2>1, <2>2, <2>3 DEF LogOK
<1>7. ASSUME NEW b \in Tree(l)
      PROVE  {i \in Own(k, b) : i > Len(l)} = IF b = a THEN {Len(l) + j : j \in 1 .. n} ELSE {}
  <2>1. \A i \in DOMAIN k : i > Len(l) => i \notin DOMAIN l
    BY <1>2
  <2>2. \A j \in 1 .. n : Len(l) + j \in DOMAIN k /\ Len(l) + j > Len(l)
    BY <1>2
  <2>3. CASE b = a
    <3>1. \A j \in 1 .. n : Len(l) + j \in Own(k, b)
      BY <1>1, <1>4, <2>2, <2>3 DEF Own
    <3>2. \A i \in Own(k, b) : i > Len(l) => i \in {Len(l) + j : j \in 1 .. n}
      BY <1>3, <2>1 DEF Own
    <3> QED BY <2>2, <2>3, <3>1, <3>2
  <2>4. CASE b # a
    <3>1. \A i \in Own(k, b) : ~(i > Len(l))
      BY <1>3, <1>4, <2>1, <2>4 DEF Own
    <3> QED BY <2>4, <3>1
  <2> QED BY <2>3, <2>4
<1>8. \A b \in Tree(l) :
        SeenOn(k, b) = IF b = a THEN SeenOn(l, b) \cup {Len(l) + j : j \in 1 .. n} ELSE SeenOn(l, b)
  <2>1. \A b \in Tree(l) : SeenOn(k, b) = SeenOn(l, b) \cup {i \in Own(k, b) : i > Len(l)}
    BY <1>1, <1>6, Grown
  <2> QED BY <1>7, <2>1
<1>9. k[Len(l) + 1] = s[1] /\ Len(l) + 1 \in DOMAIN k
  BY <1>1, <1>2
<1> QED BY <1>1, <1>5, <1>6, <1>8, <1>9 DEF ScriptSeen

------------------------------------------------------------------------------
(* The invariant *)

\* A turn that has called the model has begun a reply, and one that runs tools
\* has calls left.
TurnOK(t, l) ==
  /\ IsSeq(t.calls)
  /\ t.at = "tools" => t.calls # <<>>
  /\ t.at = "reply" =>
       /\ t.calls[1] \in DOMAIN l /\ l[t.calls[1]].kind = "message_started"
       /\ l[t.calls[1]].role = "assistant"

\* On each branch was told what its path holds.
ToldOK(h, l) == DOMAIN h = Tree(l) /\ \A b \in Tree(l) : Enumerates(h[b], SeenOn(l, b))

ConversationInv == LogOK(log) /\ TurnOK(turn, log) /\ ToldOK(told, log)

\* The branch of the last switch is a branch of the log.
LEMMA ActiveIs ==
  ASSUME LogOK(log)
  PROVE  Active \in Tree(log) /\ Branches = Tree(log)
<1>1. Branches = Tree(log)
  BY DEF Branches, Tree
<1>2. CASE Switched = {}
  <2>1. Active = Root
    BY <1>2 DEF Active
  <2> QED BY <1>1, <2>1, TreeIs
<1>3. CASE Switched # {}
  <2>1. Len(log) \in Nat /\ Switched \in SUBSET Nat /\ \A s \in Switched : s <= Len(log)
    BY SeqIs DEF Switched, LogOK
  <2>2. Highest(Switched) \in Switched
    BY <1>3, <2>1, HighestIs
  <2>3. \A s \in Switched : log[s].id \in Tree(log)
    BY DEF Switched, LogOK, EventOK
  <2>4. Active = log[Highest(Switched)].id
    BY <1>3 DEF Active
  <2> QED BY <1>1, <2>2, <2>3, <2>4
<1> QED BY <1>2, <1>3

\* The model's OnBranch is SeenOn of the current log.
LEMMA PathIsSeen ==
  \A b : OnBranch(b) = SeenOn(log, b)
<1>1. Path = PathOf(log)
  BY DEF Path, PathOf, Branches, Tree
<1> QED BY <1>1 DEF OnBranch, SeenOn

\* What holds of a turn in a log holds in a longer one.
LEMMA TurnGoesOn ==
  ASSUME NEW t, NEW l, NEW k, TurnOK(t, l), Extends(k, l)
  PROVE  TurnOK(t, k)
BY DEF TurnOK, Extends

\* A turn that is to go on in this way may.
ThenOK(then, l, script) ==
  /\ IsSeq(then.calls)
  /\ then.at = "tools" => then.calls # <<>>
  /\ then.at = "reply" =>
       /\ then.calls[1] = Len(l) + 1
       /\ script[1].kind = "message_started" /\ script[1].role = "assistant"

\* No turn asks nothing of the log.
LEMMA IdleOK ==
  \A l : TurnOK(Idle, l)
<1>1. IsSeq(<<>>)
  <2>1. <<>> \in Seq({})
    OBVIOUS
  <2> QED BY <2>1 DEF IsSeq
<1>2. Idle.calls = <<>> /\ Idle.at = "idle"
  BY DEF Idle
<1> QED BY <1>1, <1>2 DEF TurnOK

\* The events of a turn, however many of them are appended.
LEMMA DoKeeps ==
  ASSUME ConversationInv, NEW script, NEW then, ScriptOK(log, Active, script),
         ThenOK(then, log, script), Do(script, then)
  PROVE  ConversationInv'
<1>1. /\ LogOK(log) /\ Active \in Tree(log) /\ ToldOK(told, log)
      /\ Len(log) + Len(script) <= MaxLog /\ Len(log) \in Nat /\ DOMAIN log = 1 .. Len(log)
  BY ActiveIs, SeqIs DEF ConversationInv, Do, LogOK
<1>2. PICK n \in 1 .. Len(script) :
        /\ log' = log \o SubSeq(script, 1, n)
        /\ told' = [told EXCEPT ![Active] = @ \o [i \in 1 .. n |-> Len(log) + i]]
        /\ turn' = then \/ turn' = Idle
  BY DEF Do, CutShort
<1>3. Len(script) \in Nat /\ n \in Nat /\ 1 \in 1 .. n
  BY SeqIs DEF ScriptOK
<1>4. /\ LogOK(log') /\ Extends(log', log) /\ Tree(log') = Tree(log)
      /\ log'[Len(log) + 1] = script[1] /\ Len(log) + 1 \in DOMAIN log'
      /\ \A b \in Tree(log) :
           SeenOn(log', b) = IF b = Active THEN SeenOn(log, b) \cup {Len(log) + j : j \in 1 .. n} ELSE SeenOn(log, b)
  <2> DEFINE k == log'
             a == Active
  <2>1. Appends(k, log, a, script, n)
    BY <1>1, <1>2 DEF Appends
  <2> HIDE DEF k, a
  <2>2. /\ LogOK(k) /\ Extends(k, log) /\ Tree(k) = Tree(log) /\ k[Len(log) + 1] = script[1]
        /\ Len(log) + 1 \in DOMAIN k
        /\ \A b \in Tree(log) :
             SeenOn(k, b) = IF b = a THEN SeenOn(log, b) \cup {Len(log) + j : j \in 1 .. n} ELSE SeenOn(log, b)
    <3>1. ScriptSeen(k, log, a, script, n)
      BY <2>1, ScriptAppended
    <3> QED BY <3>1 DEF ScriptSeen
  <2>3. k = log' /\ a = Active
    BY DEF k, a
  <2> QED BY <2>2, <2>3, Zenon
<1>5. TurnOK(turn', log')
  <2>1. CASE turn' = then
    <3>1. then.at = "reply" =>
            /\ then.calls[1] \in DOMAIN log' /\ log'[then.calls[1]].kind = "message_started"
            /\ log'[then.calls[1]].role = "assistant"
      BY <1>4 DEF ThenOK
    <3> QED BY <2>1, <3>1 DEF ThenOK, TurnOK
  <2>2. CASE turn' = Idle
    BY <2>2, IdleOK
  <2> QED BY <1>2, <2>1, <2>2
<1>6. ToldOK(told', log')
  <2>1. DOMAIN told' = Tree(log')
    BY <1>1, <1>2, <1>4 DEF ToldOK
  <2>2. ASSUME NEW b \in Tree(log) PROVE Enumerates(told'[b], SeenOn(log', b))
    <3>1. Enumerates(told[b], SeenOn(log, b))
      BY <1>1 DEF ToldOK
    <3>2. CASE b = Active
      <4>1. \A i \in SeenOn(log, b) : i <= Len(log)
        BY <1>1 DEF SeenOn
      <4>2. Enumerates(told[b] \o [i \in 1 .. n |-> Len(log) + i],
                       SeenOn(log, b) \cup {Len(log) + i : i \in 1 .. n})
        BY <1>1, <1>3, <3>1, <4>1, GoesOn
      <4>3. told'[b] = told[b] \o [i \in 1 .. n |-> Len(log) + i]
        BY <1>1, <1>2, <3>2 DEF ToldOK
      <4>4. SeenOn(log', b) = SeenOn(log, b) \cup {Len(log) + i : i \in 1 .. n}
        BY <1>4, <3>2
      <4> QED BY <4>2, <4>3, <4>4
    <3>3. CASE b # Active
      <4>1. told'[b] = told[b]
        BY <1>1, <1>2, <3>3 DEF ToldOK
      <4>2. SeenOn(log', b) = SeenOn(log, b)
        BY <1>4, <3>3
      <4> QED BY <3>1, <4>1, <4>2
    <3> QED BY <3>2, <3>3
  <2> QED BY <1>4, <2>1, <2>2 DEF ToldOK
<1> QED BY <1>4, <1>5, <1>6 DEF ConversationInv

\* One event is a script, and so are a message and its calls.
LEMMA OneEvent ==
  ASSUME NEW e
  PROVE  IsSeq(<<e>>) /\ Len(<<e>>) = 1 /\ <<e>>[1] = e
<1>1. <<e>> \in Seq({e})
  OBVIOUS
<1> QED BY <1>1 DEF IsSeq

\* A function on 1 .. n is a list of n.
LEMMA Listed ==
  ASSUME NEW n \in Nat, NEW f, f = [i \in 1 .. n |-> f[i]]
  PROVE  IsSeq(f) /\ Len(f) = n
<1> DEFINE S == {f[i] : i \in 1 .. n}
<1>1. f \in [1 .. n -> S]
  OBVIOUS
<1> HIDE DEF S
<1>2. f \in Seq(S) /\ Len(f) = n
  BY <1>1
<1> QED BY <1>2 DEF IsSeq

\* One event before a list.
LEMMA EventThenOthers ==
  ASSUME NEW e, NEW n \in Nat, NEW f, f = [i \in 1 .. n |-> f[i]]
  PROVE  /\ IsSeq(<<e>> \o f) /\ Len(<<e>> \o f) = n + 1
         /\ (<<e>> \o f)[1] = e
         /\ \A j \in 2 .. n + 1 : (<<e>> \o f)[j] = f[j - 1]
<1> DEFINE S == {e} \cup {f[i] : i \in 1 .. n}
<1>1. f \in [1 .. n -> S] /\ e \in S
  OBVIOUS
<1> HIDE DEF S
<1>2. f \in Seq(S) /\ Len(f) = n /\ <<e>> \in Seq(S) /\ Len(<<e>>) = 1 /\ <<e>>[1] = e
  BY <1>1
<1> DEFINE u == <<e>>
<1>3. u \in Seq(S) /\ Len(u) = 1 /\ u[1] = e
  BY <1>2
<1> HIDE DEF u
<1>4. /\ u \o f \in Seq(S) /\ Len(u \o f) = 1 + n
      /\ \A i \in 1 .. 1 + n : (u \o f)[i] = IF i <= 1 THEN u[i] ELSE f[i - 1]
  <2>1. /\ u \o f \in Seq(S) /\ Len(u \o f) = Len(u) + Len(f)
        /\ \A i \in 1 .. Len(u) + Len(f) :
             (u \o f)[i] = IF i <= Len(u) THEN u[i] ELSE f[i - Len(u)]
    BY <1>2, <1>3, ConcatProperties
  <2> QED BY <1>2, <1>3, <2>1
<1>5. (u \o f)[1] = e /\ \A j \in 2 .. n + 1 : (u \o f)[j] = f[j - 1]
  BY <1>3, <1>4
<1>6. IsSeq(u \o f) /\ Len(u \o f) = n + 1
  BY <1>4 DEF IsSeq
<1> QED BY <1>5, <1>6 DEF u

\* What an action appends is a script.
LEMMA UserScript ==
  ASSUME LogOK(log)
  PROVE  ScriptOK(log, Active, UserMessage)
<1> DEFINE N == Len(log) + 1
           d == [i \in 1 .. 1 |-> Done(N, "user", TRUE)]
           s == UserMessage
<1>1. s = <<Started(N, "user"), Done(N, "user", TRUE)>>
  BY DEF UserMessage, NextSeq
<1>2. s \in Seq({Started(N, "user"), Done(N, "user", TRUE)}) /\ Len(s) = 2
      /\ s[1] = Started(N, "user") /\ s[2] = Done(N, "user", TRUE)
  BY <1>1
<1>3. Len(log) \in Nat
  BY SeqIs DEF LogOK
<1> HIDE DEF s, N
<1>4. /\ s[1].kind = "message_started" /\ s[1].id = N /\ s[1].role = "user" /\ s[1].branch = Active
      /\ s[2].kind = "message_done" /\ s[2].id = N /\ s[2].role = "user" /\ s[2].branch = Active
  BY <1>2 DEF Started, Done
<1>5. \A j \in 1 .. Len(s) : j = 1 \/ j = 2
  BY <1>2
<1>6. \A j \in 1 .. Len(s) : ~SessionWide(s[j]) /\ s[j].branch = Active
  BY <1>4, <1>5 DEF SessionWide
<1>7. \A j \in 1 .. Len(s) : s[j].kind = "message_started" => s[j].id = Len(log) + j
  BY <1>3, <1>4, <1>5 DEF N
<1>8. \A j \in 1 .. Len(s) : s[j].kind = "message_done" =>
        j = 2 /\ s[j].id = Len(log) + 1 /\ s[1].kind = "message_started" /\ s[1].role = s[j].role
  BY <1>3, <1>4, <1>5 DEF N
<1>9. IsSeq(s)
  BY <1>2 DEF IsSeq
<1> QED BY <1>6, <1>7, <1>8, <1>9 DEF ScriptOK, s

\* A script of one event that ends no message.
LEMMA OneEventScript ==
  ASSUME NEW l, NEW a, NEW e, ~SessionWide(e), e.branch = a, e.kind # "message_done",
         e.kind = "message_started" => e.id = Len(l) + 1
  PROVE  ScriptOK(l, a, <<e>>)
<1> DEFINE s == <<e>>
<1>1. IsSeq(s) /\ Len(s) = 1 /\ s[1] = e
  BY OneEvent
<1> HIDE DEF s
<1>2. \A j \in 1 .. Len(s) : j = 1
  BY <1>1
<1> QED BY <1>1, <1>2 DEF ScriptOK, s

------------------------------------------------------------------------------
(* Steps *)

\* A message, at the start of a turn or in one, keeps the invariant.
LEMMA SendKeeps ==
  ASSUME ConversationInv, Send \/ Join
  PROVE  ConversationInv'
<1>1. LogOK(log) /\ TurnOK(turn, log)
  BY DEF ConversationInv
<1>2. ScriptOK(log, Active, UserMessage)
  BY <1>1, UserScript
<1>3. CASE Send
  <2> DEFINE t == Going("boundary", <<>>, FALSE)
  <2>1. ThenOK(t, log, UserMessage)
    <3>1. t.calls = <<>> /\ t.at = "boundary" /\ IsSeq(<<>>)
      BY IdleOK DEF Going, TurnOK, Idle
    <3> HIDE DEF t
    <3> QED BY <3>1 DEF ThenOK
  <2>2. Do(UserMessage, t)
    BY <1>3 DEF Send
  <2> HIDE DEF t
  <2> QED BY <1>2, <2>1, <2>2, DoKeeps
<1>4. CASE Join
  <2>1. ThenOK(turn, log, UserMessage)
    BY <1>1, <1>4 DEF Join, At, TurnOK, ThenOK
  <2>2. Do(UserMessage, turn)
    BY <1>4 DEF Join
  <2> QED BY <1>2, <2>1, <2>2, DoKeeps
<1> QED BY <1>3, <1>4

\* A turn with no calls may follow, unless it awaits a reply.
LEMMA NoCalls ==
  ASSUME NEW l, NEW s, NEW where \in {"idle", "boundary", "request"}, NEW joins
  PROVE  ThenOK(Going(where, <<>>, joins), l, s) /\ TurnOK(Going(where, <<>>, joins), l)
<1> DEFINE t == Going(where, <<>>, joins)
<1>1. t.calls = <<>> /\ t.at = where /\ IsSeq(<<>>)
  BY IdleOK DEF Going, TurnOK, Idle
<1> HIDE DEF t
<1>2. ThenOK(t, l, s) /\ TurnOK(t, l)
  BY <1>1 DEF ThenOK, TurnOK
<1> QED BY <1>2 DEF t

\* A compaction, in a turn or between two, keeps the invariant.
LEMMA CompactKeeps ==
  ASSUME ConversationInv, CompactMidTurn \/ CompactBetween
  PROVE  ConversationInv'
<1>1. \E c, t : /\ c.kind = "compaction_done" /\ c.branch = Active
                /\ ThenOK(t, log, <<c>>) /\ Do(<<c>>, t)
  <2>1. \A keep, least, mid : LET c == Compacted(keep, least, mid) IN
          c.branch = Active /\ c.kind \in {"none", "compaction_done"}
    BY DEF Compacted
  <2>2. CASE CompactMidTurn
    <3>1. PICK keep \in Keeps : /\ Compacted(keep, 1, TRUE).kind # "none"
                                /\ Do(<<Compacted(keep, 1, TRUE)>>, Going("request", <<>>, FALSE))
      BY <2>2 DEF CompactMidTurn
    <3> DEFINE c == Compacted(keep, 1, TRUE)
    <3>2. c.kind = "compaction_done" /\ c.branch = Active
      BY <2>1, <3>1
    <3> HIDE DEF c
    <3>3. ThenOK(Going("request", <<>>, FALSE), log, <<c>>)
      BY NoCalls
    <3> QED BY <3>1, <3>2, <3>3 DEF c
  <2>3. CASE CompactBetween
    <3>1. PICK keep \in Keeps : /\ Compacted(keep, 0, FALSE).kind # "none"
                                /\ Do(<<Compacted(keep, 0, FALSE)>>, Idle)
      BY <2>3 DEF CompactBetween
    <3> DEFINE c == Compacted(keep, 0, FALSE)
    <3>2. c.kind = "compaction_done" /\ c.branch = Active
      BY <2>1, <3>1
    <3> HIDE DEF c
    <3>3. ThenOK(Idle, log, <<c>>)
      <4>1. ThenOK(Going("idle", <<>>, FALSE), log, <<c>>)
        BY NoCalls
      <4> QED BY <4>1 DEF Going, Idle
    <3> QED BY <3>1, <3>2, <3>3 DEF c
  <2> QED BY <2>2, <2>3
<1>2. PICK c, t : /\ c.kind = "compaction_done" /\ c.branch = Active
                  /\ ThenOK(t, log, <<c>>) /\ Do(<<c>>, t)
  BY <1>1
<1>3. ScriptOK(log, Active, <<c>>)
  BY <1>2, OneEventScript DEF SessionWide
<1> QED BY <1>2, <1>3, DoKeeps

\* The model is called: a reply begins.
LEMMA CallKeeps ==
  ASSUME ConversationInv, Call
  PROVE  ConversationInv'
<1> DEFINE e == Started(NextSeq, "assistant")
           t == Going("reply", <<NextSeq>>, FALSE)
<1>1. Do(<<e>>, t)
  BY DEF Call
<1>2. /\ e.kind = "message_started" /\ e.branch = Active /\ e.id = Len(log) + 1
      /\ e.role = "assistant"
  BY DEF Started, NextSeq
<1>3. t.at = "reply" /\ t.calls = <<Len(log) + 1>>
  BY DEF Going, NextSeq
<1> HIDE DEF e, t
<1>4. ScriptOK(log, Active, <<e>>)
  BY <1>2, OneEventScript DEF SessionWide
<1>5. ThenOK(t, log, <<e>>)
  <2>1. IsSeq(t.calls) /\ t.calls[1] = Len(log) + 1
    BY <1>3, OneEvent
  <2>2. <<e>>[1] = e
    BY OneEvent
  <2> QED BY <1>2, <1>3, <2>1, <2>2 DEF ThenOK
<1> QED BY <1>1, <1>4, <1>5, DoKeeps

\* The reply ends, with or without calls.
LEMMA ReplyKeeps ==
  ASSUME ConversationInv, Reply
  PROVE  ConversationInv'
<1> DEFINE msg == turn.calls[1]
           ids(n) == [i \in 1 .. n |-> IF Named THEN NextSeq + i ELSE i]
           calls(n) == [i \in 1 .. n |-> [kind |-> "tool_call_started", branch |-> Active,
                                          id |-> ids(n)[i], msg |-> msg]]
           then(n) == IF n = 0 THEN Idle ELSE Going("tools", ids(n), FALSE)
<1>1. PICK n \in 0 .. MaxCalls, full \in BOOLEAN :
        Do(<<Done(msg, "assistant", full)>> \o calls(n), then(n))
  BY DEF Reply
<1>2. /\ msg \in DOMAIN log /\ log[msg].kind = "message_started" /\ log[msg].role = "assistant"
  BY DEF Reply, At, ConversationInv, TurnOK
<1> DEFINE e == Done(msg, "assistant", full)
           f == calls(n)
           g == ids(n)
           s == <<e>> \o f
<1>3. e.kind = "message_done" /\ e.branch = Active /\ e.id = msg /\ e.role = "assistant"
  BY DEF Done
<1>4. \A i \in 1 .. n : f[i].kind = "tool_call_started" /\ f[i].branch = Active
  OBVIOUS
<1>5. n \in Nat
  OBVIOUS
<1>6. f = [i \in 1 .. n |-> f[i]] /\ g = [i \in 1 .. n |-> g[i]]
  OBVIOUS
<1>7. then(n) = IF n = 0 THEN Idle ELSE Going("tools", g, FALSE)
  OBVIOUS
<1> DEFINE t == then(n)
<1>8. t = IF n = 0 THEN Idle ELSE Going("tools", g, FALSE)
  BY <1>7
<1>9. Do(s, t)
  BY <1>1
<1> HIDE DEF e, f, g, s, t, msg
<1>10. /\ IsSeq(s) /\ Len(s) = n + 1 /\ s[1] = e
       /\ \A j \in 2 .. n + 1 : s[j] = f[j - 1]
  <2>1. /\ IsSeq(<<e>> \o f) /\ Len(<<e>> \o f) = n + 1 /\ (<<e>> \o f)[1] = e
        /\ \A j \in 2 .. n + 1 : (<<e>> \o f)[j] = f[j - 1]
    BY <1>5, <1>6, EventThenOthers
  <2> QED BY <2>1 DEF s
<1>11. ScriptOK(log, Active, s)
  <2>1. ASSUME NEW j \in 1 .. Len(s)
        PROVE  /\ ~SessionWide(s[j]) /\ s[j].branch = Active /\ s[j].kind # "message_started"
               /\ s[j].kind = "message_done" =>
                    /\ s[j].id \in DOMAIN log /\ log[s[j].id].kind = "message_started"
                    /\ log[s[j].id].role = s[j].role /\ s[j].role # "user"
    <3>1. CASE j = 1
      BY <1>2, <1>3, <1>10, <3>1 DEF SessionWide
    <3>2. CASE j # 1
      <4>1. j \in 2 .. n + 1 /\ j - 1 \in 1 .. n
        BY <1>5, <1>10, <3>2
      <4>2. s[j].kind = "tool_call_started" /\ s[j].branch = Active
        BY <1>4, <1>10, <4>1
      <4> QED BY <4>2 DEF SessionWide
    <3> QED BY <3>1, <3>2
  <2> QED BY <1>10, <2>1 DEF ScriptOK
<1>12. ThenOK(t, log, s)
  <2>1. CASE n = 0
    <3>1. t.calls = <<>> /\ t.at = "idle" /\ IsSeq(<<>>)
      BY <1>8, <2>1, IdleOK DEF Idle, TurnOK
    <3> QED BY <3>1 DEF ThenOK
  <2>2. CASE n # 0
    <3>1. t.calls = g /\ t.at = "tools"
      BY <1>8, <2>2 DEF Going
    <3>2. IsSeq(g) /\ Len(g) = n
      BY <1>5, <1>6, Listed
    <3>3. g # <<>>
      BY <2>2, <3>2
    <3> QED BY <3>1, <3>2, <3>3 DEF ThenOK
  <2> QED BY <2>1, <2>2
<1> QED BY <1>9, <1>11, <1>12, DoKeeps

\* A call's result, and those of the calls that are not run.
LEMMA ToolsKeep ==
  ASSUME ConversationInv, ToolDone \/ ToolsInterrupted
  PROVE  ConversationInv'
<1>1. IsSeq(turn.calls) /\ turn.calls # <<>>
  BY DEF ConversationInv, TurnOK, ToolDone, ToolsInterrupted, At
<1>2. /\ Len(turn.calls) \in Nat /\ Len(turn.calls) # 0 /\ DOMAIN turn.calls = 1 .. Len(turn.calls)
      /\ IsSeq(Tail(turn.calls)) /\ Len(Tail(turn.calls)) = Len(turn.calls) - 1
  <2>1. PICK S : turn.calls \in Seq(S)
    BY <1>1 DEF IsSeq
  <2>2. /\ Tail(turn.calls) \in Seq(S) /\ Len(Tail(turn.calls)) = Len(turn.calls) - 1
        /\ Len(turn.calls) \in Nat /\ DOMAIN turn.calls = 1 .. Len(turn.calls)
    BY <1>1, <2>1, HeadTailProperties
  <2>3. Len(turn.calls) # 0
    BY <1>1, <2>1
  <2> QED BY <2>2, <2>3 DEF IsSeq
<1>3. \A id : LET e == ResultOf(id) IN e.kind = "tool_call_done" /\ e.branch = Active
  BY DEF ResultOf
<1>4. CASE ToolDone
  <2> DEFINE e == ResultOf(Head(turn.calls))
             t == IF Len(turn.calls) = 1 THEN Going("boundary", <<>>, TRUE)
                  ELSE Going("tools", Tail(turn.calls), FALSE)
  <2>1. Do(<<e>>, t)
    BY <1>4 DEF ToolDone
  <2>2. e.kind = "tool_call_done" /\ e.branch = Active
    BY <1>3
  <2>3. ThenOK(t, log, <<e>>)
    <3> HIDE DEF e
    <3>1. CASE Len(turn.calls) = 1
      BY <3>1, NoCalls
    <3>2. CASE Len(turn.calls) # 1
      <4>1. t.calls = Tail(turn.calls) /\ t.at = "tools"
        BY <3>2 DEF Going
      <4> HIDE DEF t
      <4>2. Tail(turn.calls) # <<>>
        <5> DEFINE c == Tail(turn.calls)
        <5>1. Len(c) # 0
          BY <1>2, <3>2
        <5> HIDE DEF c
        <5>2. c = <<>> => Len(c) = 0
          OBVIOUS
        <5>3. c # <<>>
          BY <5>1, <5>2
        <5> QED BY <5>3 DEF c
      <4> QED BY <1>2, <4>1, <4>2 DEF ThenOK
    <3> QED BY <3>1, <3>2
  <2> HIDE DEF e, t
  <2>4. ScriptOK(log, Active, <<e>>)
    BY <2>2, OneEventScript DEF SessionWide
  <2> QED BY <2>1, <2>3, <2>4, DoKeeps
<1>5. CASE ToolsInterrupted
  <2> DEFINE s == [i \in DOMAIN turn.calls |-> ResultOf(turn.calls[i])]
  <2>1. Do(s, Idle)
    BY <1>5 DEF ToolsInterrupted
  <2>2. /\ s = [i \in 1 .. Len(turn.calls) |-> s[i]]
        /\ \A i \in 1 .. Len(turn.calls) : s[i].kind = "tool_call_done" /\ s[i].branch = Active
    BY <1>2, <1>3
  <2> HIDE DEF s
  <2>3. IsSeq(s) /\ Len(s) = Len(turn.calls)
    BY <1>2, <2>2, Listed
  <2>4. ScriptOK(log, Active, s)
    BY <2>2, <2>3 DEF ScriptOK, SessionWide
  <2>5. ThenOK(Idle, log, s)
    <3>1. ThenOK(Going("idle", <<>>, FALSE), log, s)
      BY NoCalls
    <3> QED BY <3>1 DEF Going, Idle
  <2> QED BY <2>1, <2>4, <2>5, DoKeeps
<1> QED BY <1>4, <1>5

\* A request is built, or the turn is cut: nothing is appended.
LEMMA NothingAppended ==
  ASSUME ConversationInv, Request \/ Cut
  PROVE  ConversationInv'
<1>1. LogOK(log) /\ ToldOK(told, log) /\ log' = log /\ told' = told
  BY DEF ConversationInv, Request, Cut
<1>2. TurnOK(turn', log)
  <2>1. CASE Request
    <3>1. TurnOK(Going("request", <<>>, FALSE), log)
      BY NoCalls
    <3> QED BY <2>1, <3>1 DEF Request
  <2>2. CASE Cut
    BY <2>2, IdleOK DEF Cut, CutShort
  <2> QED BY <2>1, <2>2
<1> QED BY <1>1, <1>2 DEF ConversationInv

\* Another branch becomes the active one.
LEMMA SwitchKeeps ==
  ASSUME ConversationInv, NEW b \in Branches, SwitchBranch(b)
  PROVE  ConversationInv'
<1> DEFINE e == [kind |-> "branch_switched", branch |-> b, id |-> b]
           k == Append(log, e)
<1>1. /\ LogOK(log) /\ TurnOK(turn, log) /\ ToldOK(told, log) /\ b \in Tree(log)
      /\ log' = k /\ turn' = turn /\ told' = told /\ Len(log) < MaxLog
  BY ActiveIs DEF ConversationInv, SwitchBranch
<1>2. e.kind = "branch_switched" /\ e.id = b
  OBVIOUS
<1>3. PICK A : log \in Seq(A)
  BY <1>1 DEF LogOK, IsSeq
<1> HIDE DEF e
<1>4. /\ IsSeq(k) /\ Len(k) = Len(log) + 1 /\ Len(log) \in Nat
      /\ DOMAIN k = 1 .. Len(log) + 1 /\ DOMAIN log = 1 .. Len(log)
      /\ k[Len(log) + 1] = e /\ \A i \in DOMAIN log : k[i] = log[i]
  <2> DEFINE S == A \cup {e}
  <2>1. /\ Len(log) \in Nat /\ log = [i \in 1 .. Len(log) |-> log[i]]
        /\ \A i \in 1 .. Len(log) : log[i] \in S
    BY <1>3
  <2>2. e \in S
    OBVIOUS
  <2> HIDE DEF S
  <2>3. log \in Seq(S)
    <3>1. log \in [1 .. Len(log) -> S]
      BY <2>1
    <3> QED BY <2>1, <3>1
  <2>4. k \in Seq(S) /\ Len(k) = Len(log) + 1 /\ k[Len(log) + 1] = e
        /\ \A i \in 1 .. Len(log) : k[i] = log[i]
    BY <2>2, <2>3
  <2> HIDE DEF k
  <2>5. DOMAIN k = 1 .. Len(log) + 1 /\ DOMAIN log = 1 .. Len(log)
    BY <2>3, <2>4
  <2> QED BY <2>1, <2>4, <2>5 DEF IsSeq
<1> HIDE DEF k
<1>5. Extends(k, log)
  BY <1>4 DEF Extends
<1>6. \A i \in DOMAIN k : i \in DOMAIN log \/ (i = Len(log) + 1 /\ k[i] = e)
  BY <1>4
<1>7. Tree(k) = Tree(log)
  <2>1. \A i \in DOMAIN log : i \in DOMAIN k
    BY <1>4
  <2> QED BY <1>2, <1>4, <1>6, <2>1 DEF Tree
<1>8. LogOK(k)
  <2>1. ASSUME NEW i \in DOMAIN log PROVE EventOK(k, i)
    <3>1. EventOK(log, i) /\ k[i] = log[i]
      BY <1>1, <1>4 DEF LogOK
    <3>2. \A j \in DOMAIN log : j \in DOMAIN k /\ k[j] = log[j]
      BY <1>4
    <3> QED BY <1>7, <3>1, <3>2 DEF EventOK
  <2>2. ASSUME NEW i \in DOMAIN k, k[i] = e PROVE EventOK(k, i)
    BY <1>1, <1>2, <1>7, <2>2 DEF EventOK, SessionWide
  <2>3. Len(k) <= MaxLog
    BY <1>1, <1>4, ConversationAssumption
  <2> QED BY <1>4, <1>6, <2>1, <2>2, <2>3 DEF LogOK
<1>9. \A x \in Tree(log) : SeenOn(k, x) = SeenOn(log, x)
  <2>1. \A x : \A i \in Own(k, x) : ~(i > Len(log))
    <3>1. \A x : \A i \in Own(k, x) : i \in DOMAIN k /\ k[i] # e
      BY <1>2 DEF Own, SessionWide
    <3> QED BY <1>4, <1>6, <3>1
  <2>2. \A x \in Tree(log) : SeenOn(k, x) = SeenOn(log, x) \cup {i \in Own(k, x) : i > Len(log)}
    BY <1>1, <1>5, <1>8, Grown
  <2> QED BY <2>1, <2>2
<1>10. ToldOK(told, k)
  BY <1>1, <1>7, <1>9 DEF ToldOK
<1>11. TurnOK(turn, k)
  BY <1>1, <1>5, TurnGoesOn
<1> QED BY <1>1, <1>8, <1>10, <1>11 DEF ConversationInv

\* A fork leaves the branch of its message at an event of the active branch, and
\* what was told up to there is what that branch has up to there.
LEMMA ForkIs ==
  ASSUME ConversationInv, NEW m \in DOMAIN log, NEW edit \in BOOLEAN, OnPath(m)
  PROVE  LET p == log[m].branch
             f == ForkSeq(m, edit)
         IN /\ p \in Tree(log) /\ f \in Nat /\ p <= f /\ f <= Len(log)
            /\ Enumerates(ToldUpTo(m, edit), {i \in SeenOn(log, p) : i <= f})
            /\ ~edit => /\ f = m + 1 /\ {m, m + 1} \subseteq SeenOn(log, p)
                        /\ log[m].kind = "message_started" /\ log[m].role = "user"
                        /\ log[m + 1].kind = "message_done"
<1> DEFINE p == log[m].branch
           f == ForkSeq(m, edit)
           a == Active
           S == SeenOn(log, a)
           t == InOrder(Len(log), S)
<1>1. LogOK(log) /\ ToldOK(told, log) /\ a \in Tree(log)
  BY ActiveIs DEF ConversationInv
<1>2. Len(log) \in Nat /\ DOMAIN log = 1 .. Len(log)
  BY <1>1, SeqIs DEF LogOK
<1>3. \A T \in SUBSET (1 .. Len(log)) : Enumerates(InOrder(Len(log), T), T)
  BY <1>2, OrderIs
<1>4. S \in SUBSET (1 .. Len(log))
  BY <1>2 DEF SeenOn
<1>5. Enumerates(t, S)
  BY <1>3, <1>4
<1>6. OnBranch(Active) = S
  BY PathIsSeen
<1> HIDE DEF t
<1>7. m \in S /\ log[m].kind = "message_started" /\ log[m].role = "user"
  BY <1>6 DEF OnPath, Starts
<1>8. PICK d \in S : log[d].kind = "message_done" /\ log[d].id = m
  BY <1>6 DEF OnPath
<1>9. \A i \in DOMAIN log : log[i].kind = "message_done" /\ log[i].id = m =>
         i = m + 1 /\ log[i].branch = p
  BY <1>1, <1>7 DEF LogOK, EventOK
<1>10. d = m + 1 /\ d \in DOMAIN log /\ log[d].branch = p /\ m \in Nat
  BY <1>2, <1>4, <1>8, <1>9
<1>11. f = IF edit THEN m - 1 ELSE m + 1
  <2>1. (CHOOSE i \in DOMAIN log : log[i].kind = "message_done" /\ log[i].id = m) = m + 1
    BY <1>8, <1>9, <1>10
  <2> QED BY <2>1 DEF ForkSeq
<1>12. p \in Tree(log) /\ p < m
  <2>1. EventOK(log, m) /\ ~SessionWide(log[m])
    BY <1>1, <1>7 DEF LogOK, SessionWide
  <2> QED BY <2>1 DEF EventOK
<1>13. p \in Nat
  BY <1>1, <1>2, <1>12, TreeIs
<1> HIDE DEF f
<1>14. f \in Nat /\ p <= f /\ f <= Len(log) /\ f <= d
  <2>1. m > 0 /\ m + 1 <= Len(log)
    BY <1>2, <1>10
  <2>2. CASE edit
    BY <1>2, <1>10, <1>11, <1>12, <1>13, <2>1, <2>2
  <2>3. CASE ~edit
    BY <1>2, <1>10, <1>11, <1>12, <1>13, <2>1, <2>3
  <2> QED BY <2>2, <2>3
<1>15. {i \in SeenOn(log, p) : i <= f} = {i \in S : i <= f}
  <2>1. \A j \in Nat : j <= d => (j \in SeenOn(log, a) <=> j \in SeenOn(log, log[d].branch))
    BY <1>1, SamePrefix
  <2>2. \A j \in SeenOn(log, p) \cup S : j \in Nat
    BY <1>2 DEF SeenOn
  <2>3. \A j \in Nat : j <= f => j <= d
    BY <1>10, <1>14
  <2>4. \A j \in Nat : j <= f => (j \in S <=> j \in SeenOn(log, p))
    BY <1>10, <2>1, <2>3
  <2> QED BY <2>2, <2>4
<1>16. {told[Active][k] : k \in DOMAIN told[Active]} = S
  <2>1. Enumerates(told[a], S)
    BY <1>1 DEF ToldOK
  <2> QED BY <2>1 DEF Enumerates
<1>17. MessageEvents(m) = {m, m + 1}
  <2>1. \A i \in DOMAIN log : log[i].kind = "message_started" /\ log[i].id = m => i = m
    BY <1>1 DEF LogOK, EventOK
  <2>2. log[m].id = m
    BY <1>1, <1>7 DEF LogOK, EventOK
  <2> QED BY <1>7, <1>8, <1>9, <1>10, <2>1, <2>2 DEF MessageEvents
<1>18. {i \in S : i < m \/ (~edit /\ i \in MessageEvents(m))} = {i \in S : i <= f}
  <2>1. \A i \in S : i \in Nat
    BY <1>4
  <2>2. CASE edit
    <3>1. \A i \in Nat : i < m <=> i <= m - 1
      BY <1>10
    <3> QED BY <1>11, <2>1, <2>2, <3>1
  <2>3. CASE ~edit
    <3>1. \A i \in Nat : i < m \/ i \in {m, m + 1} <=> i <= m + 1
      BY <1>10
    <3> QED BY <1>11, <1>17, <2>1, <2>3, <3>1
  <2> QED BY <2>2, <2>3
<1>19. ToldUpTo(m, edit) = InOrder(Len(log), {i \in S : i <= f})
  BY <1>16, <1>18 DEF ToldUpTo
<1>20. Enumerates(ToldUpTo(m, edit), {i \in SeenOn(log, p) : i <= f})
  <2>1. {i \in S : i <= f} \in SUBSET (1 .. Len(log))
    BY <1>4
  <2> QED BY <1>3, <1>15, <1>19, <2>1
<1>21. {m, m + 1} \subseteq SeenOn(log, p)
  <2>1. m \in Own(log, p) /\ m + 1 \in Own(log, p)
    BY <1>7, <1>8, <1>10 DEF Own, SessionWide
  <2> QED BY <1>1, <1>12, <2>1, SeenOnTree
<1> QED BY <1>7, <1>8, <1>10, <1>11, <1>12, <1>14, <1>20, <1>21 DEF f

\* The events of a fork made at N from branch p, edited or not.
ForkScriptOK(s, N, p, f) ==
  /\ IsSeq(s) /\ Len(s) <= 4
  /\ s[1].kind = "branch_created" /\ s[1].parent = p /\ s[1].fork = f
  /\ Len(s) > 1 /\ s[2].kind = "branch_switched" /\ s[2].id = N
  /\ Len(s) > 2 =>
       s[3].kind = "message_started" /\ s[3].branch = N /\ s[3].id = N + 2 /\ s[3].role = "user"
  /\ Len(s) > 3 =>
       /\ s[4].kind = "message_done" /\ s[4].branch = N /\ s[4].id = N + 2 /\ s[4].role = "user"
       /\ s[4].full = TRUE

\* k is l with the first n of them.
Forked(k, l, s, n, p, f) ==
  /\ LogOK(l) /\ p \in Tree(l) /\ f \in Nat /\ p <= f /\ f <= Len(l)
  /\ ForkScriptOK(s, Len(l) + 1, p, f) /\ Len(l) + Len(s) <= MaxLog
  /\ n \in 1 .. Len(s) /\ k = l \o SubSeq(s, 1, n)

\* What a branch made from p at f has of p, and the events that begin its turn.
UpToFork(l, p, f) == {i \in SeenOn(l, p) : i <= f}
Begun(l, n) == {Len(l) + 2 + j : j \in 1 .. (IF n > 2 THEN n - 2 ELSE 0)}

\* A fork adds its branch, that has what p has up to the fork and the message
\* begun on it; the others stay as they are.
LEMMA ForkAppended ==
  ASSUME NEW k, NEW l, NEW s, NEW n, NEW p, NEW f, Forked(k, l, s, n, p, f)
  PROVE  /\ LogOK(k) /\ Extends(k, l)
         /\ Tree(k) = Tree(l) \cup {Len(l) + 1} /\ Len(l) + 1 \notin Tree(l)
         /\ \A b \in Tree(l) : SeenOn(k, b) = SeenOn(l, b)
         /\ SeenOn(k, Len(l) + 1) = UpToFork(l, p, f) \cup Begun(l, n)
<1> DEFINE N == Len(l) + 1
           q == IF n > 2 THEN n - 2 ELSE 0
<1>0. /\ LogOK(l) /\ IsSeq(l) /\ IsSeq(s) /\ n \in 1 .. Len(s) /\ k = l \o SubSeq(s, 1, n)
      /\ p \in Tree(l) /\ f \in Nat /\ p <= f /\ f <= Len(l)
      /\ ForkScriptOK(s, N, p, f) /\ Len(s) <= 4 /\ Len(l) + Len(s) <= MaxLog
  BY DEF Forked, LogOK, ForkScriptOK
<1>1. /\ IsSeq(k) /\ Len(k) = Len(l) + n /\ Extends(k, l)
      /\ \A j \in 1 .. n : k[Len(l) + j] = s[j]
  BY <1>0, Appended
<1>2. /\ Len(l) \in Nat /\ DOMAIN l = 1 .. Len(l) /\ DOMAIN k = 1 .. Len(l) + n
      /\ Len(s) \in Nat /\ n \in Nat /\ 1 <= n /\ n <= Len(s) /\ Len(s) <= 4
      /\ \A i \in DOMAIN l : i \in DOMAIN k /\ k[i] = l[i]
  <2>1. Len(l) \in Nat /\ DOMAIN l = 1 .. Len(l) /\ Len(s) \in Nat
    BY <1>0, SeqIs
  <2>2. Len(k) = Len(l) + n /\ DOMAIN k = 1 .. Len(k)
    BY <1>1, SeqIs
  <2> QED BY <1>0, <1>1, <2>1, <2>2 DEF Extends
<1>3. \A i \in DOMAIN k : i \notin DOMAIN l =>
         i = N \/ (n > 1 /\ i = N + 1) \/ (n > 2 /\ i = N + 2) \/ (n > 3 /\ i = N + 3)
  <2> SUFFICES ASSUME NEW i \in DOMAIN k, i \notin DOMAIN l
      PROVE i = N \/ (n > 1 /\ i = N + 1) \/ (n > 2 /\ i = N + 2) \/ (n > 3 /\ i = N + 3)
    OBVIOUS
  <2> DEFINE L == Len(l)
  <2>1. i \in Nat /\ L \in Nat /\ L < i /\ i <= L + n /\ n \in Nat /\ n <= 4
    BY <1>2
  <2> HIDE DEF L
  <2>2. \/ i = (L + 1)
        \/ n > 1 /\ i = (L + 1) + 1
        \/ n > 2 /\ i = (L + 1) + 2
        \/ n > 3 /\ i = (L + 1) + 3
    BY <2>1
  <2> QED BY <2>2 DEF L
<1>4. /\ N \in DOMAIN k /\ k[N].kind = "branch_created" /\ k[N].parent = p /\ k[N].fork = f
      /\ n > 1 => /\ N + 1 \in DOMAIN k
                  /\ k[N + 1].kind = "branch_switched" /\ k[N + 1].id = N
      /\ n > 2 => /\ N + 2 \in DOMAIN k
                  /\ k[N + 2].kind = "message_started" /\ k[N + 2].branch = N
                  /\ k[N + 2].id = N + 2 /\ k[N + 2].role = "user"
      /\ n > 3 => /\ N + 3 \in DOMAIN k
                  /\ k[N + 3].kind = "message_done" /\ k[N + 3].branch = N
                  /\ k[N + 3].id = N + 2 /\ k[N + 3].role = "user"
  <2>1. N \in DOMAIN k /\ k[N] = s[1]
    BY <1>1, <1>2
  <2>2. n > 1 => N + 1 \in DOMAIN k /\ k[N + 1] = s[2]
    <3>1. n > 1 => 2 \in 1 .. n /\ N + 1 = Len(l) + 2
      BY <1>2
    <3> QED BY <1>1, <1>2, <3>1
  <2>3. n > 2 => N + 2 \in DOMAIN k /\ k[N + 2] = s[3]
    <3>1. n > 2 => 3 \in 1 .. n /\ N + 2 = Len(l) + 3
      BY <1>2
    <3> QED BY <1>1, <1>2, <3>1
  <2>4. n > 3 => N + 3 \in DOMAIN k /\ k[N + 3] = s[4]
    <3>1. n > 3 => 4 \in 1 .. n /\ N + 3 = Len(l) + 4
      BY <1>2
    <3> QED BY <1>1, <1>2, <3>1
  <2>5. (n > 2 => Len(s) > 2) /\ (n > 3 => Len(s) > 3)
    BY <1>2
  <2> QED BY <1>0, <2>1, <2>2, <2>3, <2>4, <2>5 DEF ForkScriptOK
<1>5. N \notin Tree(l) /\ N # Root /\ N \in Nat
  BY <1>0, <1>2, TreeIs DEF Root
<1> HIDE DEF N
<1>6. Tree(k) = Tree(l) \cup {N}
  <2>1. \A i \in DOMAIN k : i \notin DOMAIN l => (k[i].kind = "branch_created" <=> i = N)
    BY <1>2, <1>3, <1>4, <1>5
  <2>2. N \notin DOMAIN l
    BY <1>2 DEF N
  <2> QED BY <1>2, <1>4, <2>1, <2>2 DEF Tree
<1>7. LogOK(k)
  <2>1. ASSUME NEW i \in DOMAIN l PROVE EventOK(k, i)
    <3>1. EventOK(l, i) /\ k[i] = l[i]
      BY <1>0, <1>2 DEF LogOK
    <3> QED BY <1>2, <1>6, <3>1 DEF EventOK
  <2>2. EventOK(k, N)
    <3>1. f < N
      BY <1>0, <1>2 DEF N
    <3> QED BY <1>0, <1>4, <1>6, <3>1 DEF EventOK, SessionWide
  <2>3. ASSUME n > 1 PROVE EventOK(k, N + 1)
    BY <1>4, <1>6, <2>3 DEF EventOK, SessionWide
  <2>4. ASSUME n > 2 PROVE EventOK(k, N + 2)
    <3>1. N < N + 2
      BY <1>5
    <3> QED BY <1>4, <1>6, <2>4, <3>1 DEF EventOK, SessionWide
  <2>5. ASSUME n > 3 PROVE EventOK(k, N + 3)
    <3>1. n > 2 /\ N + 3 = (N + 2) + 1 /\ N < N + 3 /\ N + 2 < N + 3
      BY <1>2, <1>5, <2>5
    <3> QED BY <1>4, <1>6, <2>5, <3>1 DEF EventOK, SessionWide
  <2>6. Len(k) <= MaxLog
    BY <1>0, <1>1, <1>2, ConversationAssumption
  <2> QED BY <1>1, <1>3, <2>1, <2>2, <2>3, <2>4, <2>5, <2>6 DEF LogOK
<1>8. \A i \in DOMAIN k : i \notin DOMAIN l /\ ~SessionWide(k[i]) => i > N + 1 /\ k[i].branch = N
  <2> SUFFICES ASSUME NEW i \in DOMAIN k, i \notin DOMAIN l, ~SessionWide(k[i])
               PROVE  i > N + 1 /\ k[i].branch = N
    OBVIOUS
  <2>1. (n > 2 /\ i = N + 2) \/ (n > 3 /\ i = N + 3)
    BY <1>3, <1>4 DEF SessionWide
  <2>2. N + 2 > N + 1 /\ N + 3 > N + 1
    BY <1>5
  <2> QED BY <1>4, <2>1, <2>2
<1>9. \A b \in Tree(l) : SeenOn(k, b) = SeenOn(l, b)
  <2>1. \A b \in Tree(l) : SeenOn(k, b) = SeenOn(l, b) \cup {i \in Own(k, b) : i > Len(l)}
    BY <1>0, <1>1, <1>7, Grown
  <2>2. \A b \in Tree(l) : \A i \in Own(k, b) : ~(i > Len(l))
    <3> SUFFICES ASSUME NEW b \in Tree(l), NEW i \in Own(k, b), i > Len(l) PROVE FALSE
      OBVIOUS
    <3>1. i \in DOMAIN k /\ ~SessionWide(k[i]) /\ k[i].branch = b
      BY DEF Own
    <3>2. i \notin DOMAIN l
      BY <1>2
    <3> QED BY <1>5, <1>8, <3>1, <3>2
  <2> QED BY <2>1, <2>2
<1>10. Own(k, N) = {N + 1 + j : j \in 1 .. q}
  <2>1. ASSUME NEW i \in Own(k, N)
        PROVE  i \in {N + 1 + j : j \in 1 .. q}
    <3>1. i \in DOMAIN k /\ N < i /\ ~SessionWide(k[i])
      BY <1>6, <1>7, OwnIs DEF Own
    <3>2. i \notin DOMAIN l
      BY <1>2, <3>1 DEF N
    <3>3. n > 2 /\ (i = N + 2 \/ (n > 3 /\ i = N + 3))
      <4>1. i > N + 1
        BY <1>8, <3>1, <3>2
      <4>2. ~(N > N + 1) /\ ~(N + 1 > N + 1)
        BY <1>5
      <4>3. i # N /\ i # N + 1
        BY <4>1, <4>2
      <4>4. n > 3 => n > 2
        BY <1>2
      <4> QED BY <1>3, <3>1, <3>2, <4>3, <4>4
    <3>4. CASE i = N + 2
      <4>1. 1 \in 1 .. q /\ i = N + 1 + 1
        BY <1>2, <1>5, <3>3, <3>4
      <4> QED BY <4>1
    <3>5. CASE n > 3 /\ i = N + 3
      <4>1. 2 \in 1 .. q /\ i = N + 1 + 2
        BY <1>2, <1>5, <3>3, <3>5
      <4> QED BY <4>1
    <3> QED BY <3>3, <3>4, <3>5
  <2>2. ASSUME NEW j \in 1 .. q
        PROVE  N + 1 + j \in Own(k, N)
    <3>1. (j = 1 /\ n > 2) \/ (j = 2 /\ n > 3)
      BY <1>2
    <3>2. CASE j = 1 /\ n > 2
      <4>1. N + 1 + j = N + 2
        BY <1>5, <3>2
      <4> QED BY <1>4, <3>2, <4>1 DEF Own, SessionWide
    <3>3. CASE j = 2 /\ n > 3
      <4>1. N + 1 + j = N + 3
        BY <1>5, <3>3
      <4> QED BY <1>4, <3>3, <4>1 DEF Own, SessionWide
    <3> QED BY <3>1, <3>2, <3>3
  <2> QED BY <2>1, <2>2
<1>11. SeenOn(k, N) = {i \in SeenOn(l, p) : i <= f}
                        \cup {N + 1 + j : j \in 1 .. q}
  <2>1. SeenOn(k, N) = Own(k, N) \cup {i \in SeenOn(k, k[N].parent) : i <= k[N].fork}
    BY <1>5, <1>6, <1>7, SeenOnForked
  <2>2. SeenOn(k, p) = SeenOn(l, p)
    BY <1>0, <1>9
  <2> QED BY <1>4, <1>10, <2>1, <2>2
<1>12. {N + 1 + j : j \in 1 .. q} = {Len(l) + 2 + j : j \in 1 .. q}
  <2>1. \A j \in Nat : N + 1 + j = Len(l) + 2 + j
    BY <1>2 DEF N
  <2>2. 1 .. q \subseteq Nat
    BY <1>2
  <2> HIDE DEF q
  <2> QED BY <2>1, <2>2
<1>13. SeenOn(k, N) = UpToFork(l, p, f) \cup Begun(l, n)
  BY <1>11, <1>12 DEF UpToFork, Begun
<1> QED BY <1>1, <1>5, <1>6, <1>7, <1>9, <1>13 DEF N

\* Two sequences in a row, position by position.
LEMMA ThenIs ==
  ASSUME NEW X, NEW s \in Seq(X), NEW t \in Seq(X)
  PROVE  /\ s \o t \in Seq(X) /\ Len(s \o t) = Len(s) + Len(t) /\ Len(s) \in Nat /\ Len(t) \in Nat
         /\ \A i \in 1 .. Len(s) : (s \o t)[i] = s[i]
         /\ \A j \in 1 .. Len(t) : (s \o t)[Len(s) + j] = t[j]
<1> DEFINE w == s \o t
<1>1. /\ w \in Seq(X) /\ Len(w) = Len(s) + Len(t)
      /\ \A i \in 1 .. Len(s) + Len(t) : w[i] = IF i <= Len(s) THEN s[i] ELSE t[i - Len(s)]
  BY ConcatProperties
<1>2. Len(s) \in Nat /\ Len(t) \in Nat
  OBVIOUS
<1> HIDE DEF w
<1>3. \A i \in 1 .. Len(s) : w[i] = s[i]
  BY <1>1, <1>2
<1>4. ASSUME NEW j \in 1 .. Len(t) PROVE w[Len(s) + j] = t[j]
  <2>1. Len(s) + j \in 1 .. Len(s) + Len(t) /\ ~(Len(s) + j <= Len(s)) /\ (Len(s) + j) - Len(s) = j
    BY <1>2
  <2> QED BY <1>1, <2>1
<1> QED BY <1>1, <1>2, <1>3, <1>4 DEF w

\* Two pairs of events in a row.
LEMMA TwoPairs ==
  ASSUME NEW X, NEW s \in Seq(X), NEW t \in Seq(X), Len(s) + 0 = 2 /\ Len(t) + 0 = 2
  PROVE  s \o t \in Seq(X) /\ Len(s \o t) = 4 /\ \A i \in 1 .. 2 : (s \o t)[i] = s[i] /\ (s \o t)[2 + i] = t[i]
<1> DEFINE w == s \o t
<1>1. /\ w \in Seq(X) /\ Len(w) = Len(s) + Len(t)
      /\ \A i \in 1 .. Len(s) : w[i] = s[i]
      /\ \A j \in 1 .. Len(t) : w[Len(s) + j] = t[j]
  <2> HIDE DEF w
  <2> QED BY ThenIs DEF w
<1> HIDE DEF w
<1>2. w \in Seq(X) /\ Len(w) = 4 /\ \A i \in 1 .. 2 : w[i] = s[i] /\ w[2 + i] = t[i]
  <2>1. Len(s) \in Nat /\ Len(t) \in Nat
    OBVIOUS
  <2>2. Len(s) = 2 /\ Len(t) = 2
    BY <2>1
  <2>3. Len(w) = 4 /\ (\A i \in 1 .. 2 : w[i] = s[i]) /\ \A i \in 1 .. 2 : w[2 + i] = t[i]
    BY <1>1, <2>2
  <2> QED BY <1>1, <2>3
<1> QED BY <1>2 DEF w

\* BranchCreated, BranchSwitched, and the edited message if there is one.
ForkEvents(c, w, edit, x, y) == <<c, w>> \o (IF edit THEN <<x, y>> ELSE <<>>)

\* They make branch N of p at f, and say something on it.
ForksTo(c, w, x, y, N, p, f) ==
  /\ c.kind = "branch_created" /\ c.parent = p /\ c.fork = f
  /\ w.kind = "branch_switched" /\ w.id = N
  /\ x.kind = "message_started" /\ x.branch = N /\ x.id = N + 2 /\ x.role = "user"
  /\ y.kind = "message_done" /\ y.branch = N /\ y.id = N + 2 /\ y.role = "user" /\ y.full = TRUE

\* The script of a fork is such a sequence.
LEMMA ForkScript ==
  ASSUME NEW N, NEW p, NEW f, NEW c, NEW w, NEW x, NEW y, ForksTo(c, w, x, y, N, p, f),
         NEW edit \in BOOLEAN
  PROVE  /\ ForkScriptOK(ForkEvents(c, w, edit, x, y), N, p, f)
         /\ Len(ForkEvents(c, w, edit, x, y)) = IF edit THEN 4 ELSE 2
<1> DEFINE A == {c, w, x, y}
           u == <<c, w>>
           s == ForkEvents(c, w, edit, x, y)
<1>1. u \in Seq(A) /\ Len(u) = 2 /\ u[1] = c /\ u[2] = w
  OBVIOUS
<1>2. CASE edit
  <2> DEFINE v == <<x, y>>
  <2>1. v \in Seq(A) /\ Len(v) = 2 /\ v[1] = x /\ v[2] = y
    OBVIOUS
  <2>2. s = u \o v
    BY <1>2 DEF ForkEvents
  <2> HIDE DEF A, u, v, s
  <2>7. Len(u) + 0 = 2 /\ Len(v) + 0 = 2
    BY <1>1, <2>1
  <2>3. u \o v \in Seq(A) /\ Len(u \o v) = 4 /\ \A i \in 1 .. 2 : (u \o v)[i] = u[i] /\ (u \o v)[2 + i] = v[i]
    BY <1>1, <2>1, <2>7, TwoPairs
  <2>4. s \in Seq(A) /\ Len(s) = 4 /\ s[1] = c /\ s[2] = w /\ s[3] = x /\ s[4] = y
    BY <1>1, <2>1, <2>2, <2>3
  <2>5. IsSeq(s)
    BY <2>4 DEF IsSeq
  <2>6. ForkScriptOK(s, N, p, f)
    BY <2>4, <2>5 DEF ForkScriptOK, ForksTo
  <2> QED BY <1>2, <2>4, <2>6 DEF s
<1>3. CASE ~edit
  <2>1. s = u
    BY <1>1, <1>3, ConcatEmptySeq DEF ForkEvents
  <2> HIDE DEF A, u, s
  <2>2. IsSeq(u)
    BY <1>1 DEF IsSeq
  <2>3. ForkScriptOK(u, N, p, f)
    BY <1>1, <2>2 DEF ForkScriptOK, ForksTo
  <2> QED BY <1>1, <1>3, <2>1, <2>3 DEF s
<1> QED BY <1>2, <1>3

\* What a fork or an edit appends, and what is told on its branch.
LEMMA ForkDoes ==
  ASSUME ConversationInv, NEW m \in DOMAIN log, NEW edit \in BOOLEAN, Fork(m, edit)
  PROVE  LET N == Len(log) + 1 IN
         \E s, n :
           /\ Forked(log', log, s, n, log[m].branch, ForkSeq(m, edit))
           /\ Len(s) = IF edit THEN 4 ELSE 2
           /\ turn' = Idle \/ (turn' = Going("boundary", <<>>, FALSE) /\ n = Len(s))
           /\ told' = [b \in DOMAIN told \cup {N} |->
                         IF b = N
                         THEN ToldUpTo(m, edit) \o [i \in 1 .. (IF n > 2 THEN n - 2 ELSE 0) |-> N + 1 + i]
                         ELSE told[b]]
<1> DEFINE N == Len(log) + 1
           p == log[m].branch
           f == ForkSeq(m, edit)
           c == [kind |-> "branch_created", branch |-> Active, id |-> N, parent |-> p, fork |-> f]
           w == [kind |-> "branch_switched", branch |-> N, id |-> N]
           x == [Started(N + 2, "user") EXCEPT !.branch = N]
           y == [Done(N + 2, "user", TRUE) EXCEPT !.branch = N]
           s == ForkEvents(c, w, edit, x, y)
           Tells(n) == [b \in DOMAIN told \cup {N} |->
                          IF b = N
                          THEN ToldUpTo(m, edit) \o [i \in 1 .. (IF n > 2 THEN n - 2 ELSE 0) |-> N + 1 + i]
                          ELSE told[b]]
<1>1. LogOK(log) /\ OnPath(m) /\ Len(log) \in Nat
  BY SeqIs DEF ConversationInv, Fork, LogOK
<1>2. p \in Tree(log) /\ f \in Nat /\ p <= f /\ f <= Len(log)
  BY <1>1, ForkIs
<1>3. PICK n \in 1 .. Len(s) :
        /\ Len(log) + Len(s) <= MaxLog
        /\ log' = log \o SubSeq(s, 1, n)
        /\ turn' = Idle \/ (turn' = Going("boundary", <<>>, FALSE) /\ n = Len(s))
        /\ told' = Tells(n)
  BY DEF Fork, NextSeq, CutShort, ForkEvents
<1>4. ForkScriptOK(s, N, p, f) /\ Len(s) = IF edit THEN 4 ELSE 2
  <2>1. ForksTo(c, w, x, y, N, p, f)
    BY DEF Started, Done, ForksTo
  <2> HIDE DEF c, w, x, y, N, p, f
  <2> QED BY <2>1, ForkScript
<1> HIDE DEF c, w, x, y, p, f, s, Tells
<1>5. Forked(log', log, s, n, p, f)
  BY <1>1, <1>2, <1>3, <1>4 DEF Forked
<1>6. \E v, z : /\ Forked(log', log, v, z, p, f) /\ Len(v) = IF edit THEN 4 ELSE 2
                /\ turn' = Idle \/ (turn' = Going("boundary", <<>>, FALSE) /\ z = Len(v))
                /\ told' = Tells(z)
  BY <1>3, <1>4, <1>5
<1> QED BY <1>6 DEF p, f, Tells

\* A fork or an edit keeps the invariant: the new branch is told what its parent was, up to the fork.
LEMMA ForkKeeps ==
  ASSUME ConversationInv, NEW m \in DOMAIN log, NEW edit \in BOOLEAN, Fork(m, edit)
  PROVE  ConversationInv'
<1> DEFINE N == Len(log) + 1
           p == log[m].branch
           f == ForkSeq(m, edit)
           S == {i \in SeenOn(log, p) : i <= f}
           q(n) == IF n > 2 THEN n - 2 ELSE 0
<1>1. /\ LogOK(log) /\ ToldOK(told, log) /\ OnPath(m)
      /\ Len(log) \in Nat /\ DOMAIN log = 1 .. Len(log)
  BY SeqIs DEF ConversationInv, Fork, LogOK
<1>2. /\ p \in Tree(log) /\ f \in Nat /\ p <= f /\ f <= Len(log)
      /\ Enumerates(ToldUpTo(m, edit), S)
  BY <1>1, ForkIs
<1>3. PICK s, n :
        /\ Forked(log', log, s, n, p, f)
        /\ turn' = Going("boundary", <<>>, FALSE) \/ turn' = Idle
        /\ told' = [b \in DOMAIN told \cup {N} |->
                      IF b = N THEN ToldUpTo(m, edit) \o [i \in 1 .. q(n) |-> N + 1 + i]
                      ELSE told[b]]
  BY ForkDoes
<1> DEFINE k == log'
<1> HIDE DEF p, f
<1>5. Forked(k, log, s, n, p, f)
  BY <1>3
<1>6. n \in Nat /\ n >= 1 /\ q(n) \in Nat
  <2>1. n \in 1 .. Len(s) /\ Len(s) \in Nat
    BY <1>5, SeqIs DEF Forked, ForkScriptOK
  <2> QED BY <2>1
<1>7. /\ LogOK(k) /\ Extends(k, log) /\ Tree(k) = Tree(log) \cup {N} /\ N \notin Tree(log)
      /\ \A b \in Tree(log) : SeenOn(k, b) = SeenOn(log, b)
      /\ SeenOn(k, N) = S \cup {Len(log) + 2 + j : j \in 1 .. q(n)}
  <2> HIDE DEF k
  <2>1. LogOK(k) /\ Extends(k, log)
    BY <1>5, ForkAppended
  <2>2. Tree(k) = Tree(log) \cup {N} /\ N \notin Tree(log)
    BY <1>5, ForkAppended
  <2>3. \A b \in Tree(log) : SeenOn(k, b) = SeenOn(log, b)
    BY <1>5, ForkAppended
  <2>4. SeenOn(k, N) = UpToFork(log, p, f) \cup Begun(log, n)
    BY <1>5, ForkAppended
  <2>5. UpToFork(log, p, f) = S /\ Begun(log, n) = {Len(log) + 2 + j : j \in 1 .. q(n)}
    BY DEF UpToFork, Begun
  <2> QED BY <2>1, <2>2, <2>3, <2>4, <2>5
<1>8. TurnOK(turn', k)
  <2>1. CASE turn' = Going("boundary", <<>>, FALSE)
    BY <2>1, NoCalls
  <2>2. CASE turn' = Idle
    BY <2>2, IdleOK
  <2> QED BY <1>3, <2>1, <2>2
<1>9. Enumerates(told'[N], SeenOn(k, N))
  <2> DEFINE r == q(n)
  <2>1. told'[N] = ToldUpTo(m, edit) \o [i \in 1 .. r |-> N + 1 + i]
    BY <1>3
  <2>2. \A i \in S : i <= N + 1
    BY <1>1 DEF SeenOn
  <2>3. r \in Nat /\ N + 1 \in Nat
    BY <1>1, <1>6
  <2>4. SeenOn(k, N) = S \cup {N + 1 + j : j \in 1 .. r}
    <3>1. \A j \in Nat : N + 1 + j = Len(log) + 2 + j
      BY <1>1
    <3>2. 1 .. r \subseteq Nat
      BY <2>3
    <3>3. SeenOn(k, N) = S \cup {Len(log) + 2 + j : j \in 1 .. r}
      BY <1>7
    <3> HIDE DEF r, N, S, k
    <3> QED BY <3>1, <3>2, <3>3
  <2> DEFINE t == ToldUpTo(m, edit)
             M == N + 1
  <2>5. Enumerates(t, S) /\ \A i \in S : i <= M
    BY <1>2, <2>2
  <2> HIDE DEF r, N, S, k, t
  <2>6. M \in Nat
    BY <2>3
  <2> HIDE DEF M
  <2>7. Enumerates(t \o [i \in 1 .. r |-> M + i], S \cup {M + i : i \in 1 .. r})
    BY <2>3, <2>5, <2>6, GoesOn
  <2> QED BY <2>1, <2>4, <2>7 DEF t, M
<1>10. ToldOK(told', k)
  <2>1. DOMAIN told' = Tree(k)
    BY <1>1, <1>3, <1>7 DEF ToldOK
  <2>2. ASSUME NEW b \in Tree(log) PROVE Enumerates(told'[b], SeenOn(k, b))
    <3>1. told'[b] = told[b]
      BY <1>1, <1>3, <1>7 DEF ToldOK
    <3>2. Enumerates(told[b], SeenOn(log, b))
      BY <1>1 DEF ToldOK
    <3> QED BY <1>7, <3>1, <3>2
  <2> QED BY <1>7, <1>9, <2>1, <2>2 DEF ToldOK
<1> QED BY <1>7, <1>8, <1>10 DEF ConversationInv

------------------------------------------------------------------------------
(* The shape of a log *)

\* Kinds of events that go on with what the event before them began.
Inner == {"message_done", "tool_call_started", "tool_call_done"}

Begins(l, i, who) == l[i].kind = "message_started" /\ l[i].role = who

\* The id of the j-th call of the reply that ends at p.
CallId(p, j) == IF Named THEN p + j ELSE j

\* A reply ends at p and makes k calls, of which r have a result.
Group(l, p, k, r) ==
  /\ r <= k /\ p + k + r <= Len(l) /\ p \in DOMAIN l
  /\ l[p].kind = "message_done" /\ l[p].role = "assistant" /\ l[p].id = p - 1
  /\ \A j \in 1 .. k : /\ l[p + j].kind = "tool_call_started" /\ l[p + j].msg = p - 1
                       /\ l[p + j].id = CallId(p, j)
  /\ \A j \in 1 .. r : l[p + k + j].kind = "tool_call_done" /\ l[p + k + j].id = CallId(p, j)

\* Event i goes on with the one before it, and a call or a result with its reply.
EventShape(l, i) ==
  /\ l[i].kind = "message_started" => l[i].role \in {"user", "assistant"}
  /\ l[i].kind = "message_done" => l[i].id = i - 1 /\ l[i].full \in BOOLEAN
  /\ l[i].kind \in Inner =>
       i - 1 \in DOMAIN l /\ ~SessionWide(l[i - 1]) /\ l[i - 1].branch = l[i].branch
  /\ l[i].kind \in {"tool_call_started", "tool_call_done"} =>
       \E p, k, r \in Nat : Group(l, p, k, r) /\ k >= 1 /\ i = p + k + r

\* The last user message of these events is complete.
Asked(l, S) ==
  \E u \in S : /\ Begins(l, u, "user") /\ u + 1 \in S /\ l[u + 1].kind = "message_done"
               /\ \A x \in S : Begins(l, x, "user") => x <= u

\* What a branch has before i, and up to i.
Past(l, b, i) == {j \in SeenOn(l, b) : j < i}
Upto(l, b, i) == {j \in SeenOn(l, b) : j <= i}

\* A reply begins after a complete user message.
AskedOK(l, i) == Begins(l, i, "assistant") => Asked(l, Past(l, l[i].branch, i))

\* What an event tells the model, and what a set of events does.
Says(e) ==
  IF e.kind = "message_done"
  THEN IF e.role # "assistant" \/ e.full THEN {<<e.role, e.id>>} ELSE {}
  ELSE IF e.kind = "tool_call_started" THEN {<<"tool", e.id>>, <<"assistant", e.msg>>}
  ELSE IF e.kind = "tool_call_done" THEN {<<"tool", e.id>>} ELSE {}

Told(l, S) == UNION {Says(l[i]) : i \in S}

\* A compaction's cut parts no message or call, and its summary stands for what
\* its branch has up to there.
CutOK(l, i) ==
  l[i].kind = "compaction_done" =>
    LET v == l[i].covered
        b == l[i].branch
    IN /\ v \in Nat /\ 1 <= v /\ v < i
       /\ v + 1 \in SeenOn(l, b) => l[v + 1].kind \notin Inner
       /\ l[i].sums = Told(l, Upto(l, b, v))

ShapeOK(l, i) == EventShape(l, i) /\ AskedOK(l, i) /\ CutOK(l, i)

LogShape(l) == \A i \in DOMAIN l : ShapeOK(l, i)

------------------------------------------------------------------------------
(* Longer logs *)

\* Log k goes on with log l.
Grows(k, l) == LogOK(l) /\ LogOK(k) /\ Extends(k, l)

\* Typed facts of a log that goes on.
LEMMA GrowsIs ==
  ASSUME NEW k, NEW l, Grows(k, l)
  PROVE  /\ Len(l) \in Nat /\ DOMAIN l = 1 .. Len(l) /\ Len(k) \in Nat /\ DOMAIN k = 1 .. Len(k)
         /\ Len(l) <= Len(k) /\ Tree(l) \subseteq Tree(k)
         /\ \A i \in DOMAIN l : i \in DOMAIN k /\ k[i] = l[i]
BY SeqIs, Grown DEF Grows, LogOK, Extends

\* What is seen on a branch is a set of events of the log.
LEMMA SeenIs ==
  ASSUME NEW l, LogOK(l), NEW b
  PROVE  SeenOn(l, b) \subseteq DOMAIN l /\ SeenOn(l, b) \in SUBSET Nat
BY SeqIs DEF LogOK, SeenOn

\* Up to the old end, a branch has in the longer log what it had.
LEMMA SeenBefore ==
  ASSUME NEW k, NEW l, Grows(k, l), NEW b \in Tree(l), NEW j \in Nat, j <= Len(l)
  PROVE  j \in SeenOn(k, b) <=> j \in SeenOn(l, b)
<1>1. SeenOn(k, b) = SeenOn(l, b) \cup {i \in Own(k, b) : i > Len(l)}
  BY Grown DEF Grows
<1>2. ~(j > Len(l))
  BY GrowsIs
<1> QED BY <1>1, <1>2

\* So what it has before an old event stays, and so does what it told.
LEMMA PastStays ==
  ASSUME NEW k, NEW l, Grows(k, l), NEW b \in Tree(l), NEW i \in DOMAIN l
  PROVE  /\ Past(k, b, i) = Past(l, b, i) /\ Past(l, b, i) \subseteq DOMAIN l
         /\ Upto(k, b, i) = Upto(l, b, i) /\ Upto(l, b, i) \subseteq DOMAIN l
<1>1. /\ Len(l) \in Nat /\ DOMAIN l = 1 .. Len(l)
      /\ SeenOn(k, b) \in SUBSET Nat /\ SeenOn(l, b) \in SUBSET Nat /\ SeenOn(l, b) \subseteq DOMAIN l
  BY GrowsIs, SeenIs DEF Grows
<1>2. \A j \in Nat : j <= i => j <= Len(l)
  BY <1>1
<1>3. \A j \in Nat : j <= i => (j \in SeenOn(k, b) <=> j \in SeenOn(l, b))
  BY <1>2, SeenBefore
<1>4. \A j \in Nat : j < i => j <= i
  BY <1>1
<1> QED BY <1>1, <1>3, <1>4 DEF Past, Upto

\* What old events tell does not change.
LEMMA ToldStays ==
  ASSUME NEW k, NEW l, Grows(k, l), NEW S \in SUBSET DOMAIN l
  PROVE  Told(k, S) = Told(l, S)
<1>1. \A i \in S : k[i] = l[i]
  BY GrowsIs
<1> QED BY <1>1 DEF Told

\* A message that was asked stays so.
LEMMA AskedStays ==
  ASSUME NEW k, NEW l, Grows(k, l), NEW S \in SUBSET DOMAIN l, Asked(l, S)
  PROVE  Asked(k, S)
<1>1. \A i \in S : k[i] = l[i]
  BY GrowsIs
<1> QED BY <1>1 DEF Asked, Begins

\* A reply keeps its calls and their results.
LEMMA GroupStays ==
  ASSUME NEW k, NEW l, Grows(k, l), NEW p \in Nat, NEW c \in Nat, NEW r \in Nat, Group(l, p, c, r)
  PROVE  Group(k, p, c, r)
<1>1. /\ Len(l) \in Nat /\ DOMAIN l = 1 .. Len(l) /\ Len(k) \in Nat /\ Len(l) <= Len(k)
      /\ \A i \in DOMAIN l : i \in DOMAIN k /\ k[i] = l[i]
  BY GrowsIs
<1>2. r <= c /\ p + c + r <= Len(l) /\ p \in DOMAIN l
  BY DEF Group
<1>3. ASSUME NEW j \in 1 .. c PROVE k[p + j] = l[p + j]
  <2>1. p + j \in DOMAIN l
    BY <1>1, <1>2
  <2> QED BY <1>1, <2>1
<1>4. ASSUME NEW j \in 1 .. r PROVE k[p + c + j] = l[p + c + j]
  <2>1. p + c + j \in DOMAIN l
    BY <1>1, <1>2
  <2> QED BY <1>1, <2>1
<1>5. p + c + r <= Len(k) /\ k[p] = l[p] /\ p \in DOMAIN k
  BY <1>1, <1>2
<1> QED BY <1>2, <1>3, <1>4, <1>5 DEF Group

\* An event keeps its shape.
LEMMA ShapeStays ==
  ASSUME NEW k, NEW l, Grows(k, l), NEW i \in DOMAIN l, ShapeOK(l, i)
  PROVE  ShapeOK(k, i)
<1>1. /\ Len(l) \in Nat /\ DOMAIN l = 1 .. Len(l) /\ Tree(l) \subseteq Tree(k)
      /\ k[i] = l[i] /\ \A j \in DOMAIN l : j \in DOMAIN k /\ k[j] = l[j]
  BY GrowsIs
<1>2. ~SessionWide(l[i]) => l[i].branch \in Tree(l)
  BY DEF Grows, LogOK, EventOK
<1>3. EventShape(k, i)
  <2>1. EventShape(l, i)
    BY DEF ShapeOK
  <2>2. \A p, c, r \in Nat : Group(l, p, c, r) => Group(k, p, c, r)
    BY GroupStays
  <2> QED BY <1>1, <2>1, <2>2 DEF EventShape
<1>4. AskedOK(k, i)
  <2> SUFFICES ASSUME Begins(l, i, "assistant") PROVE Asked(k, Past(k, l[i].branch, i))
    BY <1>1 DEF AskedOK, Begins
  <2> DEFINE b == l[i].branch
  <2>1. b \in Tree(l)
    BY <1>2 DEF Begins, SessionWide
  <2>2. Asked(l, Past(l, b, i))
    BY DEF ShapeOK, AskedOK
  <2> HIDE DEF b
  <2>3. Past(k, b, i) = Past(l, b, i) /\ Past(l, b, i) \in SUBSET DOMAIN l
    BY <2>1, PastStays
  <2>4. Asked(k, Past(l, b, i))
    BY <2>2, <2>3, AskedStays
  <2> QED BY <2>3, <2>4 DEF b
<1>5. CutOK(k, i)
  <2> SUFFICES ASSUME l[i].kind = "compaction_done" PROVE CutOK(k, i)
    BY <1>1 DEF CutOK
  <2> DEFINE b == l[i].branch
             v == l[i].covered
  <2>1. b \in Tree(l)
    BY <1>2 DEF SessionWide
  <2>2. /\ v \in Nat /\ 1 <= v /\ v < i
        /\ v + 1 \in SeenOn(l, b) => l[v + 1].kind \notin Inner
        /\ l[i].sums = Told(l, Upto(l, b, v))
    BY DEF ShapeOK, CutOK
  <2>3. k[i].kind = "compaction_done" /\ k[i].branch = b /\ k[i].covered = v /\ k[i].sums = l[i].sums
    BY <1>1
  <2> HIDE DEF b, v
  <2>4. v \in DOMAIN l /\ v + 1 \in DOMAIN l /\ v + 1 \in Nat /\ v + 1 <= Len(l)
    BY <1>1, <2>2
  <2>5. v + 1 \in SeenOn(k, b) => k[v + 1].kind \notin Inner
    BY <1>1, <2>1, <2>2, <2>4, SeenBefore
  <2>6. Upto(k, b, v) = Upto(l, b, v) /\ Upto(l, b, v) \in SUBSET DOMAIN l
    BY <2>1, <2>4, PastStays
  <2>7. k[i].sums = Told(k, Upto(k, b, v))
    BY <2>2, <2>3, <2>6, ToldStays
  <2> QED BY <2>2, <2>3, <2>5, <2>7 DEF CutOK
<1> QED BY <1>3, <1>4, <1>5 DEF ShapeOK

------------------------------------------------------------------------------
(* A branch of such a log *)

Closed(l, S) == \A n \in S : l[n].kind \in Inner => n - 1 \in S

\* Each reply of S begins after a complete user message of S.
PathAsked(l, S) == \A s \in S : Begins(l, s, "assistant") => Asked(l, {j \in S : j < s})

\* c's cut parts nothing of S, and its summary stands for S up to there.
CutOf(c, l, S) ==
  /\ c.covered \in Nat
  /\ c.covered + 1 \in S => l[c.covered + 1].kind \notin Inner
  /\ c.sums = Told(l, {j \in S : j <= c.covered})

PathCuts(l, S) ==
  \A i \in S : l[i].kind = "compaction_done" =>
    CutOf(l[i], l, S) /\ 1 <= l[i].covered /\ l[i].covered < i

PathOK(l, S) == S \subseteq DOMAIN l /\ Closed(l, S) /\ PathAsked(l, S) /\ PathCuts(l, S)

\* Every branch is such a set of events.
LEMMA BranchIsPath ==
  ASSUME NEW l, LogOK(l), LogShape(l), NEW b \in Tree(l)
  PROVE  PathOK(l, SeenOn(l, b))
<1> DEFINE P == SeenOn(l, b)
<1>1. Len(l) \in Nat /\ DOMAIN l = 1 .. Len(l) /\ P \subseteq DOMAIN l
  BY SeqIs, SeenIs DEF LogOK
<1>2. ASSUME NEW i \in P
      PROVE  /\ l[i].branch \in Tree(l) /\ SeenOn(l, l[i].branch) \in SUBSET Nat
             /\ \A j \in Nat : j <= i => (j \in P <=> j \in SeenOn(l, l[i].branch))
  BY SamePrefix, SeenIs
<1>3. \A i \in P : i \in Nat /\ i \in DOMAIN l /\ ShapeOK(l, i)
  BY <1>1 DEF LogShape
<1> HIDE DEF P
<1>4. ASSUME NEW n \in P, l[n].kind \in Inner PROVE n - 1 \in P
  <2> DEFINE x == l[n].branch
  <2>1. n - 1 \in DOMAIN l /\ ~SessionWide(l[n - 1]) /\ l[n - 1].branch = x
    BY <1>3, <1>4 DEF ShapeOK, EventShape
  <2>2. x \in Tree(l) /\ n - 1 \in Own(l, x)
    BY <1>2, <2>1 DEF Own
  <2> HIDE DEF x
  <2>3. n - 1 \in SeenOn(l, x)
    BY <2>2, SeenOnTree
  <2>4. n - 1 \in Nat /\ n - 1 <= n
    BY <1>1, <1>3, <2>1
  <2> QED BY <1>2, <2>3, <2>4 DEF x
<1>5. ASSUME NEW s \in P, Begins(l, s, "assistant") PROVE Asked(l, {j \in P : j < s})
  <2> DEFINE x == l[s].branch
  <2>1. Asked(l, Past(l, x, s))
    BY <1>3, <1>5 DEF ShapeOK, AskedOK
  <2>2. Past(l, x, s) = {j \in P : j < s}
    <3>1. \A j \in Nat : j < s => j <= s
      BY <1>3
    <3> QED BY <1>2, <1>3, <3>1 DEF Past
  <2> QED BY <2>1, <2>2
<1>6. ASSUME NEW i \in P, l[i].kind = "compaction_done"
      PROVE  CutOf(l[i], l, P) /\ 1 <= l[i].covered /\ l[i].covered < i
  <2> DEFINE x == l[i].branch
             v == l[i].covered
  <2>1. /\ v \in Nat /\ 1 <= v /\ v < i
        /\ v + 1 \in SeenOn(l, x) => l[v + 1].kind \notin Inner
        /\ l[i].sums = Told(l, Upto(l, x, v))
    BY <1>3, <1>6 DEF ShapeOK, CutOK
  <2>2. v + 1 \in Nat /\ v + 1 <= i /\ \A j \in Nat : j <= v => j <= i
    BY <1>3, <2>1
  <2>3. v + 1 \in P <=> v + 1 \in SeenOn(l, x)
    BY <1>2, <2>2
  <2>4. Upto(l, x, v) = {j \in P : j <= v}
    BY <1>2, <1>3, <2>2 DEF Upto
  <2> HIDE DEF v, x
  <2>5. CutOf(l[i], l, P)
    BY <2>1, <2>3, <2>4 DEF CutOf, v
  <2> QED BY <2>1, <2>5 DEF v
<1> QED BY <1>1, <1>4, <1>5, <1>6 DEF PathOK, Closed, PathAsked, PathCuts, P

\* Highest, of some events of the log.
LEMMA HighestOf ==
  ASSUME LogOK(log), NEW S \in SUBSET DOMAIN log
  PROVE  /\ S = {} => Highest(S) = 0
         /\ S # {} => Highest(S) \in S /\ \A s \in S : s <= Highest(S)
<1>1. Len(log) \in Nat /\ DOMAIN log = 1 .. Len(log)
  BY SeqIs DEF LogOK
<1>2. S = {} => Highest(S) = 0
  BY DEF Highest
<1>3. ASSUME S # {} PROVE Highest(S) \in S /\ \A s \in S : s <= Highest(S)
  <2>1. S \in SUBSET Nat /\ \A s \in S : s <= Len(log)
    BY <1>1
  <2>2. Highest(S) \in S
    BY <1>1, <1>3, <2>1, HighestIs
  <2> DEFINE Tops == {s \in S : \A t \in S : t <= s}
  <2>3. \E s \in S : \A t \in S : t <= s
    <3> DEFINE U == {u \in Nat : \A t \in S : t <= u}
    <3>1. U \in SUBSET Nat /\ U # {}
      BY <1>1, <2>1
    <3> HIDE DEF U
    <3>2. PICK m \in U : \A u \in U : m <= u
      BY <3>1, LeastOf
    <3>3. m \in Nat /\ \A t \in S : t <= m
      BY <3>2 DEF U
    <3>4. m \in S
      <4> SUFFICES ASSUME m \notin S PROVE FALSE
        OBVIOUS
      <4>1. \A t \in S : t \in Nat /\ t <= m - 1 /\ m > 0
        BY <2>1, <3>3
      <4>2. m - 1 \in Nat
        BY <1>3, <3>3, <4>1
      <4>3. m - 1 \in U
        BY <4>1, <4>2 DEF U
      <4> QED BY <3>2, <3>3, <4>3
    <3> QED BY <3>3, <3>4
  <2>4. \A t \in S : t <= Highest(S)
    BY <1>3, <2>3 DEF Highest
  <2> QED BY <2>2, <2>4
<1> QED BY <1>2, <1>3

------------------------------------------------------------------------------
(* The context of a request *)

\* The last compaction of a path stands for what the path has up to its cut.
LEMMA LastCompactionIs ==
  ASSUME LogOK(log), NEW P, PathOK(log, P)
  PROVE  /\ CutOf(LastCompaction(P), log, P) /\ LastCompaction(P).kind \in {"none", "compaction_done"}
         /\ LastCompaction(P).kind = "none" => LastCompaction(P) = NoCompaction
         /\ LastCompaction(P).kind # "none" =>
              \E i \in P : log[i].kind = "compaction_done" /\ LastCompaction(P) = log[i]
<1> DEFINE D == {i \in P : log[i].kind = "compaction_done"}
<1>1. D \in SUBSET DOMAIN log /\ DOMAIN log = 1 .. Len(log) /\ Len(log) \in Nat /\ P \subseteq DOMAIN log
  BY SeqIs DEF PathOK, LogOK
<1>2. CASE D = {}
  <2>1. LastCompaction(P) = NoCompaction
    BY <1>2 DEF LastCompaction
  <2>2. {j \in P : j <= 0} = {} /\ Told(log, {}) = {}
    BY <1>1 DEF Told
  <2>3. 0 + 1 \in P => log[0 + 1].kind \notin Inner
    <3> SUFFICES ASSUME 1 \in P, log[1].kind \in Inner PROVE FALSE
      OBVIOUS
    <3>1. 1 - 1 \in P
      BY DEF PathOK, Closed
    <3> QED BY <1>1, <3>1
  <2>4. CutOf(NoCompaction, log, P)
    BY <2>2, <2>3 DEF CutOf, NoCompaction
  <2> QED BY <2>1, <2>4 DEF NoCompaction
<1>3. CASE D # {}
  <2>1. LastCompaction(P) = log[Highest(D)]
    BY <1>3 DEF LastCompaction
  <2>2. Highest(D) \in D
    BY <1>1, <1>3, HighestOf
  <2> HIDE DEF D
  <2>3. Highest(D) \in P /\ log[Highest(D)].kind = "compaction_done"
    BY <2>2 DEF D
  <2>4. CutOf(log[Highest(D)], log, P)
    BY <2>3 DEF PathOK, PathCuts
  <2> QED BY <2>1, <2>3, <2>4
<1> QED BY <1>2, <1>3

\* The events of a context: those after the cut and at most the user message
\* that a turn cut inside works on.
LEMMA ContextIs ==
  ASSUME LogOK(log), LogShape(log), NEW P, PathOK(log, P), NEW n \in Nat, NEW c, CutOf(c, log, P)
  PROVE  LET Q == UpTo(P, n)
             S == ContextEvents(Q, c)
         IN /\ After(Q, c.covered) \subseteq S /\ S \subseteq Q /\ S \subseteq DOMAIN log
            /\ Closed(log, S)
<1> DEFINE Q == UpTo(P, n)
           v == c.covered
           kept == After(Q, v)
           older == UpTo(Q, v)
           begin == Starts(kept, "user") \cup Starts(kept, "assistant")
           inTurn == \E s \in Starts(kept, "assistant") : \A t \in begin : s <= t
           request == Highest(Starts(older, "user"))
           R == {i \in older : log[i].kind \in {"message_started", "message_done"} /\ log[i].id = request}
           S == ContextEvents(Q, c)
<1>1. S = IF c.kind = "none" THEN Q ELSE IF inTurn THEN kept \cup R ELSE kept
  BY DEF ContextEvents
<1>2. Len(log) \in Nat /\ DOMAIN log = 1 .. Len(log) /\ P \subseteq DOMAIN log /\ v \in Nat
  BY SeqIs DEF LogOK, PathOK, CutOf
<1>3. \A i \in P : i \in Nat /\ i \in DOMAIN log /\ ShapeOK(log, i) /\ EventOK(log, i)
  BY <1>2 DEF LogShape, LogOK
<1>4. kept \subseteq Q /\ R \subseteq older /\ older \subseteq Q /\ Q \subseteq P
  BY DEF After, UpTo
<1>5. Closed(log, Q)
  <2>1. \A i \in Q : i \in Nat /\ i <= n /\ i \in P
    BY <1>3 DEF UpTo
  <2>2. \A i \in Nat : i <= n => i - 1 <= n
    OBVIOUS
  <2> QED BY <2>1, <2>2 DEF Closed, PathOK, UpTo
<1>6. Closed(log, kept)
  <2> SUFFICES ASSUME NEW i \in kept, log[i].kind \in Inner PROVE i - 1 \in kept
    BY DEF Closed
  <2>1. i \in Q /\ i > v /\ i \in Nat /\ i \in P
    BY <1>3, <1>4 DEF After
  <2>2. i - 1 \in Q
    BY <1>5, <2>1 DEF Closed
  <2>3. i # v + 1
    BY <2>1 DEF CutOf
  <2>4. i - 1 > v
    BY <1>2, <2>1, <2>3
  <2> QED BY <2>2, <2>4 DEF After
<1>7. \A i \in R : log[i].kind \in Inner => i - 1 \in R
  <2> SUFFICES ASSUME NEW i \in R, log[i].kind \in Inner PROVE i - 1 \in R
    OBVIOUS
  <2>1. i \in P /\ log[i].kind = "message_done" /\ log[i].id = request
    BY <1>4 DEF Inner
  <2>2. i - 1 = request /\ request \in DOMAIN log
    BY <1>3, <2>1 DEF ShapeOK, EventShape, Inner
  <2> HIDE DEF older
  <2>3. Starts(older, "user") \in SUBSET DOMAIN log
    BY <1>2, <1>4 DEF Starts
  <2>4. request \in Starts(older, "user")
    <3>1. request # 0
      BY <1>2, <2>2
    <3> QED BY <2>3, <3>1, HighestOf
  <2> HIDE DEF request
  <2>5. request \in older /\ log[request].kind = "message_started" /\ request \in P
    BY <1>4, <2>4 DEF Starts
  <2>6. log[request].id = request
    BY <1>3, <2>5 DEF EventOK
  <2> QED BY <2>2, <2>5, <2>6
<1> HIDE DEF kept, older, inTurn, R, Q, S
<1>8. kept \subseteq S /\ S \subseteq Q
  BY <1>1, <1>4
<1>9. Closed(log, S)
  BY <1>1, <1>5, <1>6, <1>7 DEF Closed
<1>10. Q \subseteq DOMAIN log
  BY <1>2, <1>4
<1> QED BY <1>8, <1>9, <1>10 DEF S, Q, kept

\* A context and the summary before it stand for all the events.
LEMMA ContextTells ==
  ASSUME LogOK(log), LogShape(log), NEW P, PathOK(log, P), NEW n \in Nat,
         NEW c, CutOf(c, log, P), c.covered <= n
  PROVE  Told(log, ContextEvents(UpTo(P, n), c)) \cup c.sums = Told(log, UpTo(P, n))
<1> DEFINE Q == UpTo(P, n)
           S == ContextEvents(Q, c)
           kept == After(Q, c.covered)
           older == {j \in P : j <= c.covered}
<1>1. kept \subseteq S /\ S \subseteq Q
  BY ContextIs
<1>2. c.sums = Told(log, older) /\ c.covered \in Nat
  BY DEF CutOf
<1>3. P \subseteq Nat
  BY SeqIs DEF PathOK, LogOK
<1>4. Q = kept \cup older
  <2>1. \A j \in Nat : j <= c.covered => j <= n
    BY <1>2
  <2>2. \A j \in Nat : j <= c.covered \/ j > c.covered
    BY <1>2
  <2> QED BY <1>3, <2>1, <2>2 DEF After, UpTo
<1> HIDE DEF Q, S, kept, older
<1>5. Told(log, S) \cup Told(log, older) = Told(log, Q)
  BY <1>1, <1>4 DEF Told
<1> QED BY <1>2, <1>5 DEF S, Q

------------------------------------------------------------------------------
(* What is built of a set of events *)

Message == [role : {"user", "assistant", "tool"}, id : Nat, calls : Seq(Nat), full : BOOLEAN]

Acc == [msgs : Seq(Message), known : SUBSET Nat, pending : Seq(Nat), done : SUBSET Nat]

BuiltTo(f, n, S) ==
  f = [k \in 0 .. n |->
         IF k = 0 THEN Nothing ELSE IF k \in S THEN Build(f[k - 1], log[k]) ELSE f[k - 1]]

\* There is such a function: there would be a least n without it.
LEMMA BuiltExists ==
  ASSUME NEW n \in Nat, NEW S
  PROVE  \E f : BuiltTo(f, n, S)
<1> DEFINE D == {k \in Nat : ~\E f : BuiltTo(f, k, S)}
<1> SUFFICES ASSUME D # {} PROVE FALSE
  OBVIOUS
<1>1. PICK k \in D : \A m \in D : k <= m
  <2>1. D \in SUBSET Nat
    OBVIOUS
  <2> HIDE DEF D
  <2> QED BY <2>1, LeastOf
<1>2. k \in Nat /\ ~\E f : BuiltTo(f, k, S)
  OBVIOUS
<1>3. \A m \in Nat : m < k => \E f : BuiltTo(f, m, S)
  BY <1>1
<1> HIDE DEF D
<1>4. CASE k = 0
  <2> DEFINE f == [m \in 0 .. 0 |-> Nothing]
  <2>1. f = [m \in 0 .. 0 |->
               IF m = 0 THEN Nothing ELSE IF m \in S THEN Build(f[m - 1], log[m]) ELSE f[m - 1]]
    OBVIOUS
  <2> QED BY <1>2, <1>4, <2>1 DEF BuiltTo
<1>5. CASE k > 0
  <2>1. PICK f : BuiltTo(f, k - 1, S)
    <3>1. k - 1 \in Nat /\ k - 1 < k
      BY <1>2, <1>5
    <3> QED BY <1>3, <3>1
  <2>2. \A m \in 0 .. k - 1 :
          f[m] = IF m = 0 THEN Nothing ELSE IF m \in S THEN Build(f[m - 1], log[m]) ELSE f[m - 1]
    BY <2>1 DEF BuiltTo
  <2> DEFINE g == [m \in 0 .. k |->
                     IF m = k THEN IF k \in S THEN Build(f[k - 1], log[k]) ELSE f[k - 1] ELSE f[m]]
  <2>3. /\ g[k] = IF k \in S THEN Build(g[k - 1], log[k]) ELSE g[k - 1]
        /\ \A m \in 0 .. k - 1 : g[m] = f[m]
    BY <1>2, <1>5
  <2>4. \A m \in 0 .. k :
          g[m] = IF m = 0 THEN Nothing ELSE IF m \in S THEN Build(g[m - 1], log[m]) ELSE g[m - 1]
    <3> SUFFICES ASSUME NEW m \in 0 .. k
        PROVE g[m] = IF m = 0 THEN Nothing ELSE IF m \in S THEN Build(g[m - 1], log[m]) ELSE g[m - 1]
      OBVIOUS
    <3> HIDE DEF g
    <3>1. CASE m = k
      BY <1>2, <1>5, <2>3, <3>1
    <3>2. CASE m = 0
      <4>1. m \in 0 .. k - 1
        BY <1>2, <1>5, <3>2
      <4> QED BY <2>2, <2>3, <3>2, <4>1
    <3>3. CASE m # k /\ m # 0
      <4>1. m \in 0 .. k - 1 /\ m - 1 \in 0 .. k - 1
        BY <1>2, <1>5, <3>3
      <4>2. g[m] = f[m] /\ g[m - 1] = f[m - 1]
        BY <2>3, <4>1
      <4>3. f[m] = IF m = 0 THEN Nothing ELSE IF m \in S THEN Build(f[m - 1], log[m]) ELSE f[m - 1]
        BY <2>2, <4>1
      <4> QED BY <4>2, <4>3
    <3> QED BY <3>1, <3>2, <3>3
  <2>5. g = [m \in 0 .. k |-> g[m]]
    OBVIOUS
  <2> HIDE DEF g
  <2>6. BuiltTo(g, k, S)
    BY <2>4, <2>5 DEF BuiltTo
  <2> QED BY <1>2, <2>6
<1> QED BY <1>2, <1>4, <1>5

\* Built, one event at a time.
LEMMA BuiltIs ==
  ASSUME LogOK(log), NEW S
  PROVE  /\ Built(S)[0] = Nothing
         /\ \A n \in 1 .. Len(log) :
              Built(S)[n] = IF n \in S THEN Build(Built(S)[n - 1], log[n]) ELSE Built(S)[n - 1]
<1>1. Len(log) \in Nat
  BY SeqIs DEF LogOK
<1> DEFINE f == Built(S)
<1>2. BuiltTo(f, Len(log), S)
  <2>1. f = CHOOSE g : BuiltTo(g, Len(log), S)
    BY DEF BuiltTo, Built
  <2>2. \E g : BuiltTo(g, Len(log), S)
    BY <1>1, BuiltExists
  <2> HIDE DEF f
  <2> QED BY <2>1, <2>2
<1> HIDE DEF f
<1>3. \A k \in 0 .. Len(log) :
        f[k] = IF k = 0 THEN Nothing ELSE IF k \in S THEN Build(f[k - 1], log[k]) ELSE f[k - 1]
  BY <1>2 DEF BuiltTo
<1> QED BY <1>1, <1>3 DEF f

\* A function on 1 .. n is a sequence.
LEMMA SequenceOf ==
  ASSUME NEW X, NEW n \in Nat, NEW f \in [1 .. n -> X]
  PROVE  f \in Seq(X) /\ Len(f) = n /\ DOMAIN f = 1 .. n
OBVIOUS

\* t is what s holds in the places K, which at gives in order.
Picks(at, t, s, K) ==
  /\ Enumerates(at, K) /\ Len(at) \in Nat /\ DOMAIN at = 1 .. Len(at)
  /\ Len(t) = Len(at) /\ \A i \in 1 .. Len(at) : at[i] \in K /\ t[i] = s[at[i]]

\* The places that Those picks, in order.
LEMMA ThoseIs ==
  ASSUME NEW X, NEW s \in Seq(X), NEW K, K \subseteq DOMAIN s
  PROVE  Those(s, K) \in Seq(X) /\ \E at : Picks(at, Those(s, K), s, K)
<1> DEFINE at == InOrder(Len(s), K)
<1>1. Len(s) \in Nat /\ DOMAIN s = 1 .. Len(s) /\ K \in SUBSET (1 .. Len(s))
  OBVIOUS
<1>2. Enumerates(at, K)
  BY <1>1, OrderIs
<1>3. Those(s, K) = [i \in DOMAIN at |-> s[at[i]]]
  BY DEF Those
<1> HIDE DEF at
<1>4. /\ at \in Seq(Nat) /\ Len(at) \in Nat /\ DOMAIN at = 1 .. Len(at) /\ \A i \in DOMAIN at : at[i] \in K
  <2>1. at \in Seq(Nat)
    BY <1>2 DEF Enumerates
  <2> QED BY <1>2, <2>1 DEF Enumerates
<1>5. Those(s, K) \in [1 .. Len(at) -> X]
  <2>1. \A i \in DOMAIN at : s[at[i]] \in X
    BY <1>4
  <2> QED BY <1>3, <1>4, <2>1
<1>6. Those(s, K) \in Seq(X) /\ Len(Those(s, K)) = Len(at)
  BY <1>4, <1>5, SequenceOf
<1> QED BY <1>2, <1>3, <1>4, <1>6 DEF Picks

Unanswered(acc) == {i \in DOMAIN acc.pending : acc.pending[i] \notin acc.done}

\* F is acc with the pending calls at these places answered.
FlushedBy(at, F, acc) ==
  /\ Enumerates(at, Unanswered(acc)) /\ Len(at) \in Nat /\ DOMAIN at = 1 .. Len(at)
  /\ Len(acc.msgs) \in Nat /\ Len(F.msgs) = Len(acc.msgs) + Len(at)
  /\ \A i \in 1 .. Len(acc.msgs) : F.msgs[i] = acc.msgs[i]
  /\ \A j \in 1 .. Len(at) : /\ at[j] \in DOMAIN acc.pending
                             /\ F.msgs[Len(acc.msgs) + j] = Entry("tool", acc.pending[at[j]], TRUE)

\* The calls that Flush answers, and what it leaves.
LEMMA FlushIs ==
  ASSUME NEW acc \in Acc
  PROVE  /\ Flush(acc) \in Acc /\ Flush(acc).pending = <<>>
         /\ Flush(acc).known = acc.known /\ Flush(acc).done = acc.done
         /\ \E at : FlushedBy(at, Flush(acc), acc)
<1> DEFINE K == {i \in DOMAIN acc.pending : acc.pending[i] \notin acc.done}
           open == Those(acc.pending, K)
           q == Len(acc.msgs)
           new == [i \in DOMAIN open |-> Entry("tool", open[i], TRUE)]
           F == Flush(acc)
<1>1. acc.msgs \in Seq(Message) /\ acc.pending \in Seq(Nat) /\ q \in Nat
  BY DEF Acc
<1>2. K \in SUBSET DOMAIN acc.pending
  OBVIOUS
<1>3. PICK at : open \in Seq(Nat) /\ Picks(at, open, acc.pending, K)
  <2> DEFINE s == acc.pending
  <2>1. s \in Seq(Nat) /\ K \subseteq DOMAIN s
    BY <1>1, <1>2
  <2> HIDE DEF K, s
  <2>2. Those(s, K) \in Seq(Nat) /\ \E at : Picks(at, Those(s, K), s, K)
    BY <2>1, ThoseIs
  <2> QED BY <2>2 DEF s
<1> USE DEF Picks
<1>4. F = [acc EXCEPT !.msgs = acc.msgs \o new, !.pending = <<>>]
  BY DEF Flush
<1> HIDE DEF open, F
<1>5. new \in Seq(Message) /\ Len(new) = Len(at)
      /\ \A j \in 1 .. Len(at) : new[j] = Entry("tool", acc.pending[at[j]], TRUE)
  <2>1. DOMAIN open = 1 .. Len(at) /\ \A j \in 1 .. Len(at) : open[j] \in Nat
    BY <1>3
  <2>2. \A j \in 1 .. Len(at) : Entry("tool", open[j], TRUE) \in Message
    <3>1. <<>> \in Seq(Nat)
      OBVIOUS
    <3> QED BY <2>1, <3>1 DEF Entry, Message
  <2>3. new \in [1 .. Len(at) -> Message]
    BY <2>1, <2>2
  <2>4. \A j \in 1 .. Len(at) : new[j] = Entry("tool", acc.pending[at[j]], TRUE)
    BY <1>3, <2>1
  <2> HIDE DEF new
  <2>5. new \in Seq(Message) /\ Len(new) = Len(at)
    BY <1>3, <2>3, SequenceOf
  <2> QED BY <2>4, <2>5
<1> HIDE DEF new
<1> DEFINE M == acc.msgs
           w == M \o new
<1>6. /\ w \in Seq(Message) /\ Len(w) = q + Len(at)
      /\ \A i \in 1 .. q : w[i] = M[i]
      /\ \A j \in 1 .. Len(at) : w[q + j] = new[j]
  <2>1. M \in Seq(Message) /\ q = Len(M)
    BY <1>1
  <2> HIDE DEF M, q
  <2>3. M \in Seq(Message)
    BY <2>1
  <2>4. new \in Seq(Message)
    BY <1>5
  <2>2. /\ w \in Seq(Message) /\ Len(w) = Len(M) + Len(new)
        /\ \A i \in 1 .. Len(M) : w[i] = M[i]
        /\ \A j \in 1 .. Len(new) : w[Len(M) + j] = new[j]
    BY <2>3, <2>4, ThenIs
  <2> QED BY <1>5, <2>1, <2>2
<1>7. F \in Acc /\ F.pending = <<>> /\ F.known = acc.known /\ F.done = acc.done /\ F.msgs = w
  <2>1. <<>> \in Seq(Nat)
    OBVIOUS
  <2> HIDE DEF w
  <2> QED BY <1>4, <1>6, <2>1 DEF Acc, w, M
<1> HIDE DEF w
<1>8. \A i \in 1 .. q : F.msgs[i] = acc.msgs[i]
  BY <1>1, <1>3, <1>6, <1>7
<1>9. \A j \in 1 .. Len(at) :
        at[j] \in DOMAIN acc.pending /\ F.msgs[q + j] = Entry("tool", acc.pending[at[j]], TRUE)
  BY <1>3, <1>5, <1>6, <1>7
<1>10. FlushedBy(at, F, acc)
  BY <1>1, <1>3, <1>6, <1>7, <1>8, <1>9 DEF FlushedBy, Unanswered
<1> QED BY <1>7, <1>10 DEF F

------------------------------------------------------------------------------
(* What is built tells what the events do *)

Telling(m) == m.role # "assistant" \/ m.full \/ m.calls # <<>>
Telling1(msgs) == {i \in DOMAIN msgs : Telling(msgs[i])}

Shown(msgs) == {<<msgs[i].role, msgs[i].id>> : i \in Telling1(msgs)}

Open(acc) == {<<"tool", acc.pending[x]>> : x \in DOMAIN acc.pending}

Answered(acc) == {<<"tool", c>> : c \in acc.done}

\* The fields of an event that is built from.
EventIs(e) ==
  /\ e.kind = "message_started" => e.id \in Nat
  /\ e.kind = "message_done" => e.role \in {"user", "assistant"} /\ e.id \in Nat /\ e.full \in BOOLEAN
  /\ e.kind = "tool_call_started" => e.id \in Nat /\ e.msg \in Nat
  /\ e.kind = "tool_call_done" => e.id \in Nat

\* What was built of T tells what T does, but for the calls that are pending.
BuiltOK(acc, T) ==
  /\ acc \in Acc
  /\ Shown(acc.msgs) \cup Open(acc) = Told(log, T)
  /\ Answered(acc) \subseteq Shown(acc.msgs)
  /\ \A j \in T : log[j].kind = "message_started" => log[j].id \in acc.known
  /\ \A j \in T : log[j].kind = "message_done" => <<log[j].role, log[j].id>> \in Contents(acc.msgs)
  /\ \A j \in T : log[j].kind = "tool_call_started" => <<"assistant", log[j].msg>> \in Contents(acc.msgs)

\* One more message.
LEMMA AddedIs ==
  ASSUME NEW msgs \in Seq(Message), NEW m \in Message
  PROVE  /\ Append(msgs, m) \in Seq(Message)
         /\ Shown(Append(msgs, m)) = Shown(msgs) \cup (IF Telling(m) THEN {<<m.role, m.id>>} ELSE {})
         /\ Contents(Append(msgs, m)) = Contents(msgs) \cup {<<m.role, m.id>>}
<1> DEFINE w == Append(msgs, m)
           n == Len(msgs) + 1
<1>1. /\ w \in Seq(Message) /\ DOMAIN w = DOMAIN msgs \cup {n} /\ n \notin DOMAIN msgs
      /\ w[n] = m /\ \A i \in DOMAIN msgs : w[i] = msgs[i]
  OBVIOUS
<1> HIDE DEF w, n
<1>2. Telling1(w) = Telling1(msgs) \cup (IF Telling(m) THEN {n} ELSE {})
  BY <1>1 DEF Telling1
<1>3. \A i \in Telling1(msgs) : w[i] = msgs[i]
  BY <1>1 DEF Telling1
<1>4. Shown(w) = Shown(msgs) \cup (IF Telling(m) THEN {<<m.role, m.id>>} ELSE {})
  BY <1>1, <1>2, <1>3 DEF Shown
<1>5. Contents(w) = Contents(msgs) \cup {<<m.role, m.id>>}
  BY <1>1 DEF Contents
<1> QED BY <1>1, <1>4, <1>5 DEF w

\* One more call of a reply.
LEMMA CalledIs ==
  ASSUME NEW msgs \in Seq(Message), NEW h \in DOMAIN msgs, msgs[h].role = "assistant", NEW c \in Nat
  PROVE  LET w == [msgs EXCEPT ![h].calls = Append(@, c)]
         IN /\ w \in Seq(Message) /\ Len(w) = Len(msgs)
            /\ \A i \in DOMAIN msgs : i # h => w[i] = msgs[i]
            /\ w[h].role = "assistant" /\ w[h].id = msgs[h].id /\ w[h].full = msgs[h].full
            /\ w[h].calls = Append(msgs[h].calls, c)
            /\ Shown(w) = Shown(msgs) \cup {<<"assistant", msgs[h].id>>}
            /\ Contents(w) = Contents(msgs)
<1> DEFINE w == [msgs EXCEPT ![h].calls = Append(@, c)]
           m == [msgs[h] EXCEPT !.calls = Append(msgs[h].calls, c)]
<1>1. /\ msgs[h] \in Message /\ Len(msgs) \in Nat /\ DOMAIN msgs = 1 .. Len(msgs)
      /\ \A i \in DOMAIN msgs : msgs[i] \in Message
  OBVIOUS
<1>2. /\ Append(msgs[h].calls, c) \in Seq(Nat) /\ Append(msgs[h].calls, c) # <<>>
  <2>1. msgs[h].calls \in Seq(Nat)
    BY <1>1 DEF Message
  <2> DEFINE d == msgs[h].calls
             u == Append(d, c)
  <2>2. d \in Seq(Nat)
    BY <2>1
  <2> HIDE DEF d
  <2>3. u \in Seq(Nat) /\ Len(u) = Len(d) + 1 /\ Len(d) \in Nat
    BY <2>2
  <2> HIDE DEF u
  <2>4. Len(u) # 0
    BY <2>3
  <2>5. Len(<<>>) = 0
    OBVIOUS
  <2> QED BY <2>3, <2>4, <2>5 DEF u, d
<1>3. m \in Message /\ m.role = "assistant" /\ m.id = msgs[h].id /\ m.full = msgs[h].full
      /\ m.calls = Append(msgs[h].calls, c)
  BY <1>1, <1>2 DEF Message
<1>4. w = [i \in 1 .. Len(msgs) |-> IF i = h THEN m ELSE msgs[i]]
  BY <1>1
<1> HIDE DEF w, m
<1>5. w \in [1 .. Len(msgs) -> Message]
  BY <1>1, <1>3, <1>4
<1>6. w \in Seq(Message) /\ Len(w) = Len(msgs) /\ DOMAIN w = DOMAIN msgs
  BY <1>1, <1>5, SequenceOf
<1>7. w[h] = m /\ \A i \in DOMAIN msgs : i # h => w[i] = msgs[i]
  BY <1>1, <1>4
<1>8. Telling(m)
  BY <1>2, <1>3 DEF Telling
<1>9. Telling1(w) = Telling1(msgs) \cup {h}
  BY <1>6, <1>7, <1>8 DEF Telling1
<1>10. \A i \in DOMAIN msgs : w[i].role = msgs[i].role /\ w[i].id = msgs[i].id
  BY <1>3, <1>7
<1>11. \A i \in Telling1(msgs) \cup {h} : i \in DOMAIN msgs
  BY DEF Telling1
<1>12. Shown(w) = Shown(msgs) \cup {<<"assistant", msgs[h].id>>}
  <2>1. Shown(w) = {<<msgs[i].role, msgs[i].id>> : i \in Telling1(msgs) \cup {h}}
    BY <1>9, <1>10, <1>11 DEF Shown
  <2> QED BY <2>1 DEF Shown
<1>13. Contents(w) = Contents(msgs)
  BY <1>6, <1>10 DEF Contents
<1> QED BY <1>3, <1>6, <1>7, <1>12, <1>13 DEF w

\* Flush shows the calls that were pending.
LEMMA FlushShows ==
  ASSUME NEW acc \in Acc, Answered(acc) \subseteq Shown(acc.msgs)
  PROVE  /\ Shown(Flush(acc).msgs) = Shown(acc.msgs) \cup Open(acc)
         /\ Contents(acc.msgs) \subseteq Contents(Flush(acc).msgs)
<1> DEFINE F == Flush(acc)
           M == acc.msgs
           q == Len(M)
<1>1. PICK at : FlushedBy(at, F, acc)
  BY FlushIs
<1>2. F \in Acc
  BY FlushIs
<1> HIDE DEF F
<1>3. /\ M \in Seq(Message) /\ F.msgs \in Seq(Message) /\ q \in Nat /\ DOMAIN M = 1 .. q
      /\ DOMAIN F.msgs = 1 .. q + Len(at) /\ Len(at) \in Nat
  BY <1>1, <1>2 DEF Acc, FlushedBy
<1>4. \A i \in DOMAIN M : i \in DOMAIN F.msgs /\ F.msgs[i] = M[i]
  BY <1>1, <1>3 DEF FlushedBy
<1>5. ASSUME NEW i \in DOMAIN F.msgs, i \notin DOMAIN M
      PROVE  \E x \in DOMAIN acc.pending : F.msgs[i] = Entry("tool", acc.pending[x], TRUE)
  <2>1. i - q \in 1 .. Len(at) /\ i = q + (i - q)
    BY <1>3, <1>5
  <2> QED BY <1>1, <2>1 DEF FlushedBy
<1>6. ASSUME NEW x \in DOMAIN acc.pending, acc.pending[x] \notin acc.done
      PROVE  \E i \in DOMAIN F.msgs : F.msgs[i] = Entry("tool", acc.pending[x], TRUE)
  <2>1. PICK j \in 1 .. Len(at) : at[j] = x
    BY <1>1, <1>6 DEF FlushedBy, Enumerates, Unanswered
  <2>2. q + j \in DOMAIN F.msgs
    BY <1>3
  <2> QED BY <1>1, <2>1, <2>2 DEF FlushedBy
<1>7. \A c : LET e == Entry("tool", c, TRUE) IN e.role = "tool" /\ e.id = c
  BY DEF Entry
<1>8. Contents(M) \subseteq Contents(F.msgs)
  BY <1>4 DEF Contents
<1>9. Shown(M) \subseteq Shown(F.msgs)
  <2>1. \A i \in Telling1(M) : i \in Telling1(F.msgs) /\ F.msgs[i] = M[i]
    BY <1>4 DEF Telling1
  <2> QED BY <2>1 DEF Shown
<1>10. ASSUME NEW x \in DOMAIN acc.pending PROVE <<"tool", acc.pending[x]>> \in Shown(F.msgs)
  <2>1. CASE acc.pending[x] \in acc.done
    BY <1>9, <2>1 DEF Answered
  <2>2. CASE acc.pending[x] \notin acc.done
    <3>1. PICK i \in DOMAIN F.msgs : F.msgs[i] = Entry("tool", acc.pending[x], TRUE)
      BY <1>6, <2>2
    <3>2. i \in Telling1(F.msgs)
      BY <1>7, <3>1 DEF Telling1, Telling
    <3>3. <<F.msgs[i].role, F.msgs[i].id>> = <<"tool", acc.pending[x]>>
      BY <1>7, <3>1
    <3> QED BY <3>2, <3>3 DEF Shown
  <2> QED BY <2>1, <2>2
<1>11. ASSUME NEW i \in Telling1(F.msgs)
       PROVE  <<F.msgs[i].role, F.msgs[i].id>> \in Shown(M) \cup Open(acc)
  <2>1. i \in DOMAIN F.msgs
    BY DEF Telling1
  <2>2. CASE i \in DOMAIN M
    <3>1. F.msgs[i] = M[i] /\ i \in Telling1(M)
      BY <1>4, <2>2 DEF Telling1
    <3> QED BY <3>1 DEF Shown
  <2>3. CASE i \notin DOMAIN M
    <3>1. PICK x \in DOMAIN acc.pending : F.msgs[i] = Entry("tool", acc.pending[x], TRUE)
      BY <1>5, <2>1, <2>3
    <3>2. <<F.msgs[i].role, F.msgs[i].id>> = <<"tool", acc.pending[x]>>
      BY <1>7, <3>1
    <3> QED BY <3>2 DEF Open
  <2> QED BY <2>2, <2>3
<1>12. Shown(F.msgs) \subseteq Shown(M) \cup Open(acc)
  BY <1>11 DEF Shown
<1>13. Open(acc) \subseteq Shown(F.msgs)
  BY <1>10 DEF Open
<1> HIDE DEF M
<1>14. Shown(F.msgs) = Shown(M) \cup Open(acc)
  BY <1>9, <1>12, <1>13
<1> QED BY <1>8, <1>14 DEF F, M

\* e may come next: its message is known, its reply has been built.
MayFollow(e, acc) ==
  /\ e.kind = "message_done" => e.id \in acc.known
  /\ e.kind = "tool_call_started" => <<"assistant", e.msg>> \in Contents(acc.msgs)

\* What is built goes on telling what the events do.
LEMMA BuildKeeps ==
  ASSUME NEW T, NEW acc, BuiltOK(acc, T), NEW n, EventIs(log[n]), MayFollow(log[n], acc)
  PROVE  BuiltOK(Build(acc, log[n]), T \cup {n})
<1> DEFINE e == log[n]
           B == Build(acc, e)
           U == T \cup {n}
<1>1. /\ acc \in Acc /\ acc.msgs \in Seq(Message) /\ acc.pending \in Seq(Nat)
      /\ acc.known \in SUBSET Nat /\ acc.done \in SUBSET Nat
  BY DEF BuiltOK, Acc
<1>2. Told(log, U) = Told(log, T) \cup Says(e)
  BY DEF Told
<1>3. Shown(acc.msgs) \subseteq Contents(acc.msgs)
  BY DEF Shown, Contents, Telling1
<1> HIDE DEF e, B, U
<1>4. CASE e.kind = "message_started"
  <2>1. B = [acc EXCEPT !.known = acc.known \cup {e.id}]
    BY <1>4 DEF Build, B
  <2>2. B \in Acc /\ B.msgs = acc.msgs /\ B.pending = acc.pending /\ B.done = acc.done
        /\ B.known = acc.known \cup {e.id}
    <3>1. e.id \in Nat
      BY <1>4 DEF EventIs, e
    <3> QED BY <1>1, <2>1, <3>1 DEF Acc
  <2>3. Says(e) = {}
    BY <1>4 DEF Says
  <2>4. Open(B) = Open(acc) /\ Answered(B) = Answered(acc)
    BY <2>2 DEF Open, Answered
  <2> QED BY <1>2, <1>4, <2>2, <2>3, <2>4 DEF BuiltOK, e, B, U
<1>5. CASE e.kind = "message_done"
  <2> DEFINE F == Flush(acc)
             m == Entry(e.role, e.id, e.full)
  <2>1. B = [F EXCEPT !.msgs = Append(F.msgs, m)]
    BY <1>5 DEF Build, B, MayFollow, e
  <2>2. /\ F \in Acc /\ F.pending = <<>> /\ F.known = acc.known /\ F.done = acc.done
        /\ Shown(F.msgs) = Shown(acc.msgs) \cup Open(acc) /\ Contents(acc.msgs) \subseteq Contents(F.msgs)
    BY FlushIs, FlushShows DEF BuiltOK
  <2>3. m \in Message /\ m.role = e.role /\ m.id = e.id /\ (Telling(m) <=> e.role # "assistant" \/ e.full)
    <3>1. <<>> \in Seq(Nat)
      OBVIOUS
    <3> QED BY <1>5, <3>1 DEF EventIs, e, Entry, Message, Telling
  <2> HIDE DEF F, m
  <2> DEFINE w == Append(F.msgs, m)
  <2>4. F.msgs \in Seq(Message)
    BY <2>2 DEF Acc
  <2>5. /\ w \in Seq(Message)
        /\ Shown(w) = Shown(F.msgs) \cup (IF Telling(m) THEN {<<m.role, m.id>>} ELSE {})
        /\ Contents(w) = Contents(F.msgs) \cup {<<m.role, m.id>>}
    BY <2>3, <2>4, AddedIs
  <2> HIDE DEF w
  <2>6. B \in Acc /\ B.msgs = w /\ B.pending = <<>> /\ B.known = acc.known /\ B.done = acc.done
    BY <2>1, <2>2, <2>5 DEF Acc, w
  <2>7. Says(e) = IF Telling(m) THEN {<<m.role, m.id>>} ELSE {}
    BY <1>5, <2>3 DEF Says
  <2>8. Open(B) = {}
    BY <2>6 DEF Open
  <2>9. Answered(B) = Answered(acc)
    BY <2>6 DEF Answered
  <2>10. Shown(B.msgs) \cup Open(B) = Told(log, U)
    BY <1>2, <2>2, <2>5, <2>6, <2>7, <2>8 DEF BuiltOK
  <2>11. Answered(B) \subseteq Shown(B.msgs)
    BY <2>2, <2>5, <2>6, <2>9 DEF BuiltOK
  <2>12. \A j \in U : log[j].kind = "message_done" => <<log[j].role, log[j].id>> \in Contents(B.msgs)
    BY <2>2, <2>3, <2>5, <2>6 DEF BuiltOK, U, e
  <2>13. \A j \in U : log[j].kind = "tool_call_started" => <<"assistant", log[j].msg>> \in Contents(B.msgs)
    BY <1>5, <2>2, <2>5, <2>6 DEF BuiltOK, U, e
  <2>14. \A j \in U : log[j].kind = "message_started" => log[j].id \in B.known
    BY <1>5, <2>6 DEF BuiltOK, U, e
  <2> QED BY <2>6, <2>10, <2>11, <2>12, <2>13, <2>14 DEF BuiltOK, B, U, e
<1>6. CASE e.kind = "tool_call_started"
  <2> DEFINE at == {i \in DOMAIN acc.msgs : acc.msgs[i].role = "assistant" /\ acc.msgs[i].id = e.msg}
             h == Highest(at)
  <2>1. at # {}
    BY <1>6 DEF MayFollow, e, Contents
  <2>2. h \in at
    <3>1. at \in SUBSET Nat /\ Len(acc.msgs) \in Nat /\ \A s \in at : s <= Len(acc.msgs)
      BY <1>1
    <3> HIDE DEF at
    <3> QED BY <2>1, <3>1, HighestIs
  <2>3. B = [acc EXCEPT !.msgs[h].calls = Append(acc.msgs[h].calls, e.id),
                        !.pending = Append(acc.pending, e.id)]
    BY <1>6, <2>1 DEF Build, B
  <2>4. h \in DOMAIN acc.msgs /\ acc.msgs[h].role = "assistant" /\ acc.msgs[h].id = e.msg
    BY <2>2
  <2>5. e.id \in Nat /\ e.msg \in Nat
    BY <1>6 DEF EventIs, e
  <2> HIDE DEF at, h
  <2> DEFINE M == acc.msgs
             w == [M EXCEPT ![h].calls = Append(@, e.id)]
             c == e.id
  <2>6. /\ w \in Seq(Message)
        /\ Shown(w) = Shown(M) \cup {<<"assistant", M[h].id>>}
        /\ Contents(w) = Contents(M)
    <3>1. M \in Seq(Message) /\ h \in DOMAIN M /\ M[h].role = "assistant" /\ c \in Nat
      BY <1>1, <2>4, <2>5
    <3> HIDE DEF M, c
    <3> QED BY <3>1, CalledIs DEF c
  <2> DEFINE p == Append(acc.pending, c)
  <2>7. p \in Seq(Nat) /\ DOMAIN p = DOMAIN acc.pending \cup {Len(acc.pending) + 1}
        /\ p[Len(acc.pending) + 1] = c /\ \A x \in DOMAIN acc.pending : p[x] = acc.pending[x]
    BY <1>1, <2>5
  <2>8. B = [acc EXCEPT !.msgs = w, !.pending = p]
    BY <2>3
  <2> HIDE DEF w, p
  <2>9. B \in Acc /\ B.msgs = w /\ B.pending = p /\ B.known = acc.known /\ B.done = acc.done
    BY <1>1, <2>6, <2>7, <2>8 DEF Acc
  <2>10. Open(B) = Open(acc) \cup {<<"tool", c>>}
    BY <2>7, <2>9 DEF Open
  <2>11. Says(e) = {<<"tool", c>>, <<"assistant", M[h].id>>}
    BY <1>6, <2>4 DEF Says
  <2>12. Answered(B) = Answered(acc)
    BY <2>9 DEF Answered
  <2> HIDE DEF c
  <2>13. Shown(B.msgs) \cup Open(B) = Told(log, U)
    BY <1>2, <2>6, <2>9, <2>10, <2>11 DEF BuiltOK
  <2>14. Answered(B) \subseteq Shown(B.msgs)
    BY <2>6, <2>9, <2>12 DEF BuiltOK
  <2>15. \A j \in U : log[j].kind = "tool_call_started" => <<"assistant", log[j].msg>> \in Contents(B.msgs)
    BY <1>6, <2>6, <2>9 DEF BuiltOK, U, e, MayFollow
  <2>16. \A j \in U : log[j].kind = "message_done" => <<log[j].role, log[j].id>> \in Contents(B.msgs)
    BY <1>6, <2>6, <2>9 DEF BuiltOK, U, e
  <2>17. \A j \in U : log[j].kind = "message_started" => log[j].id \in B.known
    BY <1>6, <2>9 DEF BuiltOK, U, e
  <2> QED BY <2>9, <2>13, <2>14, <2>15, <2>16, <2>17 DEF BuiltOK, B, U, e
<1>7. CASE e.kind = "tool_call_done"
  <2> DEFINE M == acc.msgs
             m == Entry("tool", e.id, TRUE)
             w == Append(M, m)
  <2>1. B = [acc EXCEPT !.done = acc.done \cup {e.id}, !.msgs = w]
    BY <1>7 DEF Build, B
  <2>2. e.id \in Nat
    BY <1>7 DEF EventIs, e
  <2>3. m \in Message /\ m.role = "tool" /\ m.id = e.id /\ Telling(m)
    <3>1. <<>> \in Seq(Nat)
      OBVIOUS
    <3> QED BY <2>2, <3>1 DEF Entry, Message, Telling
  <2> HIDE DEF m
  <2>4. /\ w \in Seq(Message) /\ Shown(w) = Shown(M) \cup {<<"tool", e.id>>}
        /\ Contents(w) = Contents(M) \cup {<<"tool", e.id>>}
    <3>1. M \in Seq(Message)
      BY <1>1
    <3> HIDE DEF M
    <3> QED BY <2>3, <3>1, AddedIs
  <2> HIDE DEF w
  <2>5. B \in Acc /\ B.msgs = w /\ B.pending = acc.pending /\ B.known = acc.known
        /\ B.done = acc.done \cup {e.id}
    BY <1>1, <2>1, <2>2, <2>4 DEF Acc
  <2>6. Open(B) = Open(acc) /\ Answered(B) = Answered(acc) \cup {<<"tool", e.id>>}
    BY <2>5 DEF Open, Answered
  <2>7. Says(e) = {<<"tool", e.id>>}
    BY <1>7 DEF Says
  <2>8. Shown(B.msgs) \cup Open(B) = Told(log, U)
    BY <1>2, <2>4, <2>5, <2>6, <2>7 DEF BuiltOK
  <2>9. Answered(B) \subseteq Shown(B.msgs)
    BY <2>4, <2>5, <2>6 DEF BuiltOK
  <2>10. \A j \in U : log[j].kind = "tool_call_started" => <<"assistant", log[j].msg>> \in Contents(B.msgs)
    BY <1>7, <2>4, <2>5 DEF BuiltOK, U, e
  <2>11. \A j \in U : log[j].kind = "message_done" => <<log[j].role, log[j].id>> \in Contents(B.msgs)
    BY <1>7, <2>4, <2>5 DEF BuiltOK, U, e
  <2>12. \A j \in U : log[j].kind = "message_started" => log[j].id \in B.known
    BY <1>7, <2>5 DEF BuiltOK, U, e
  <2> QED BY <2>5, <2>8, <2>9, <2>10, <2>11, <2>12 DEF BuiltOK, B, U, e
<1>8. CASE e.kind \notin {"message_started", "message_done", "tool_call_started", "tool_call_done"}
  <2>1. B = acc
    BY <1>8 DEF Build, B
  <2>2. Says(e) = {}
    BY <1>8 DEF Says
  <2> QED BY <1>2, <1>8, <2>1, <2>2 DEF BuiltOK, e, B, U
<1> QED BY <1>4, <1>5, <1>6, <1>7, <1>8 DEF e, B, U

\* The events of a log of this shape can be built from.
LEMMA EventIsTyped ==
  ASSUME LogOK(log), LogShape(log), NEW n \in DOMAIN log
  PROVE  EventIs(log[n]) /\ n \in Nat
<1>1. Len(log) \in Nat /\ DOMAIN log = 1 .. Len(log) /\ n \in Nat
  BY SeqIs DEF LogOK
<1>2. EventOK(log, n) /\ EventShape(log, n)
  BY DEF LogOK, LogShape, ShapeOK
<1>3. log[n].kind = "message_done" => log[n].role \in {"user", "assistant"} /\ log[n].id \in Nat
                                       /\ log[n].full \in BOOLEAN
  <2> SUFFICES ASSUME log[n].kind = "message_done"
               PROVE  log[n].role \in {"user", "assistant"} /\ log[n].id \in Nat /\ log[n].full \in BOOLEAN
    OBVIOUS
  <2>1. /\ log[n].id \in DOMAIN log /\ log[log[n].id].kind = "message_started"
        /\ log[log[n].id].role = log[n].role
    BY <1>2 DEF EventOK
  <2>2. log[log[n].id].role \in {"user", "assistant"}
    BY <2>1 DEF LogShape, ShapeOK, EventShape
  <2> QED BY <1>1, <1>2, <2>1, <2>2 DEF EventShape
<1>4. log[n].kind = "message_started" => log[n].id \in Nat
  BY <1>1, <1>2 DEF EventOK
<1>5. ASSUME log[n].kind \in {"tool_call_started", "tool_call_done"}
      PROVE  log[n].id \in Nat /\ (log[n].kind = "tool_call_started" => log[n].msg \in Nat)
  <2>1. PICK p \in Nat : \E k, r \in Nat : Group(log, p, k, r) /\ k >= 1 /\ n = p + k + r
    BY <1>2, <1>5 DEF EventShape
  <2>2. PICK k \in Nat : \E r \in Nat : Group(log, p, k, r) /\ k >= 1 /\ n = p + k + r
    BY <2>1
  <2>3. PICK r \in Nat : Group(log, p, k, r) /\ k >= 1 /\ n = p + k + r
    BY <2>2
  <2>4. p >= 1
    BY <1>1, <2>3 DEF Group
  <2>5. \A j \in Nat : CallId(p, j) \in Nat
    BY DEF CallId
  <2>6. CASE r = 0
    <3>1. k \in 1 .. k /\ n = p + k
      BY <2>3, <2>6
    <3>2. log[n].kind = "tool_call_started" /\ log[n].msg = p - 1 /\ log[n].id = CallId(p, k)
      BY <2>3, <3>1 DEF Group
    <3> QED BY <2>4, <2>5, <3>2
  <2>7. CASE r # 0
    <3>1. r \in 1 .. r
      BY <2>7
    <3>2. log[n].kind = "tool_call_done" /\ log[n].id = CallId(p, r)
      BY <2>3, <3>1 DEF Group
    <3> QED BY <2>5, <3>2
  <2> QED BY <2>6, <2>7
<1> QED BY <1>1, <1>3, <1>4, <1>5 DEF EventIs

\* A call comes right after its reply, or after a call of the same reply.
LEMMA CallFollows ==
  ASSUME LogOK(log), LogShape(log), NEW n \in DOMAIN log, log[n].kind = "tool_call_started"
  PROVE  \/ /\ log[n - 1].kind = "message_done" /\ log[n - 1].role = "assistant"
            /\ log[n - 1].id = log[n].msg
         \/ log[n - 1].kind = "tool_call_started" /\ log[n - 1].msg = log[n].msg
<1>1. Len(log) \in Nat /\ DOMAIN log = 1 .. Len(log) /\ n \in Nat
  BY SeqIs DEF LogOK
<1>2. PICK p \in Nat : \E k, r \in Nat : Group(log, p, k, r) /\ k >= 1 /\ n = p + k + r
  BY DEF LogShape, ShapeOK, EventShape
<1>3. PICK k \in Nat : \E r \in Nat : Group(log, p, k, r) /\ k >= 1 /\ n = p + k + r
  BY <1>2
<1>4. PICK r \in Nat : Group(log, p, k, r) /\ k >= 1 /\ n = p + k + r
  BY <1>3
<1>5. r = 0
  <2> SUFFICES ASSUME r # 0 PROVE FALSE
    OBVIOUS
  <2>1. r \in 1 .. r
    OBVIOUS
  <2>2. log[p + k + r].kind = "tool_call_done"
    BY <1>4, <2>1 DEF Group
  <2> QED BY <1>4, <2>2
<1>6. k \in 1 .. k /\ n = p + k
  BY <1>4, <1>5
<1>7. log[n].msg = p - 1
  BY <1>4, <1>6 DEF Group
<1>8. CASE k = 1
  <2>1. n - 1 = p
    BY <1>6, <1>8
  <2> QED BY <1>4, <1>7, <2>1 DEF Group
<1>9. CASE k # 1
  <2>1. k - 1 \in 1 .. k /\ n - 1 = p + (k - 1)
    BY <1>4, <1>6, <1>9
  <2> QED BY <1>4, <1>7, <2>1 DEF Group
<1> QED BY <1>8, <1>9

\* An event of S may come next when what is before it in S has been built.
LEMMA MayFollowIs ==
  ASSUME LogOK(log), LogShape(log), NEW S \in SUBSET DOMAIN log, Closed(log, S),
         NEW n \in S, NEW acc, BuiltOK(acc, {i \in S : i <= n - 1})
  PROVE  MayFollow(log[n], acc)
<1> DEFINE T == {i \in S : i <= n - 1}
<1>1. Len(log) \in Nat /\ DOMAIN log = 1 .. Len(log) /\ n \in Nat
  BY SeqIs DEF LogOK
<1>2. log[n].kind \in Inner => n - 1 \in T
  BY <1>1 DEF Closed
<1>3. EventOK(log, n) /\ EventShape(log, n)
  BY DEF LogOK, LogShape, ShapeOK
<1> HIDE DEF T
<1>4. ASSUME log[n].kind = "message_done" PROVE log[n].id \in acc.known
  <2>1. log[n].id = n - 1 /\ log[n - 1].kind = "message_started"
    BY <1>3, <1>4 DEF EventOK, EventShape
  <2>2. n - 1 \in T /\ n - 1 \in DOMAIN log
    BY <1>2, <1>3, <1>4 DEF Inner, EventShape
  <2>3. log[n - 1].id = n - 1
    BY <2>1, <2>2 DEF LogOK, EventOK
  <2> QED BY <2>1, <2>2, <2>3 DEF BuiltOK, T
<1>5. ASSUME log[n].kind = "tool_call_started" PROVE <<"assistant", log[n].msg>> \in Contents(acc.msgs)
  <2>1. n - 1 \in T
    BY <1>2, <1>5 DEF Inner
  <2>2. \/ /\ log[n - 1].kind = "message_done" /\ log[n - 1].role = "assistant"
           /\ log[n - 1].id = log[n].msg
        \/ log[n - 1].kind = "tool_call_started" /\ log[n - 1].msg = log[n].msg
    BY <1>5, CallFollows
  <2> QED BY <2>1, <2>2 DEF BuiltOK, T
<1> QED BY <1>4, <1>5 DEF MayFollow

\* What has been built of S, at each place of the log.
LEMMA BuiltTells ==
  ASSUME LogOK(log), LogShape(log), NEW S \in SUBSET DOMAIN log, Closed(log, S)
  PROVE  \A n \in 0 .. Len(log) : BuiltOK(Built(S)[n], {i \in S : i <= n})
<1> DEFINE f == Built(S)
           D == {n \in 0 .. Len(log) : ~BuiltOK(f[n], {i \in S : i <= n})}
<1>1. Len(log) \in Nat /\ DOMAIN log = 1 .. Len(log)
  BY SeqIs DEF LogOK
<1>2. /\ f[0] = Nothing
      /\ \A n \in 1 .. Len(log) : f[n] = IF n \in S THEN Build(f[n - 1], log[n]) ELSE f[n - 1]
  BY BuiltIs
<1> HIDE DEF f
<1>3. BuiltOK(f[0], {i \in S : i <= 0})
  <2>1. {i \in S : i <= 0} = {}
    BY <1>1
  <2>2. <<>> \in Seq(Message) /\ <<>> \in Seq(Nat) /\ DOMAIN <<>> = {}
    OBVIOUS
  <2>3. Nothing \in Acc
    BY <2>2 DEF Nothing, Acc
  <2>4. Nothing.msgs = <<>> /\ Nothing.pending = <<>> /\ Nothing.done = {}
    BY DEF Nothing
  <2>5. Shown(<<>>) = {} /\ Open(Nothing) = {} /\ Answered(Nothing) = {} /\ Told(log, {}) = {}
    BY <2>2, <2>4 DEF Shown, Telling1, Open, Answered, Told
  <2> HIDE DEF Nothing
  <2> QED BY <1>2, <2>1, <2>3, <2>4, <2>5 DEF BuiltOK
<1> SUFFICES ASSUME D # {} PROVE FALSE
  BY DEF f
<1>4. PICK n \in D : \A m \in D : n <= m
  <2>1. D \in SUBSET Nat
    BY <1>1
  <2> HIDE DEF D
  <2> QED BY <2>1, LeastOf
<1>5. /\ n \in 1 .. Len(log) /\ ~BuiltOK(f[n], {i \in S : i <= n})
      /\ n - 1 \in 0 .. Len(log) /\ BuiltOK(f[n - 1], {i \in S : i <= n - 1})
  <2>1. n \in 0 .. Len(log) /\ ~BuiltOK(f[n], {i \in S : i <= n})
    BY <1>4
  <2>2. n # 0
    BY <1>3, <2>1
  <2>3. n \in 1 .. Len(log) /\ n - 1 \in 0 .. Len(log) /\ ~(n <= n - 1)
    BY <1>1, <2>1, <2>2
  <2>4. n - 1 \notin D
    BY <1>4, <2>3
  <2> QED BY <2>1, <2>3, <2>4
<1> HIDE DEF D
<1>6. CASE n \notin S
  <2>1. {i \in S : i <= n} = {i \in S : i <= n - 1}
    BY <1>1, <1>5, <1>6
  <2> QED BY <1>2, <1>5, <1>6, <2>1
<1>7. CASE n \in S
  <2> DEFINE acc == f[n - 1]
             T == {i \in S : i <= n - 1}
  <2>1. BuiltOK(acc, T) /\ MayFollow(log[n], acc)
    BY <1>5, <1>7, MayFollowIs
  <2>2. EventIs(log[n])
    BY <1>1, <1>5, EventIsTyped
  <2>3. {i \in S : i <= n} = T \cup {n}
    BY <1>1, <1>5, <1>7
  <2> HIDE DEF acc, T
  <2>4. BuiltOK(Build(acc, log[n]), T \cup {n})
    BY <2>1, <2>2, BuildKeeps
  <2> QED BY <1>2, <1>5, <1>7, <2>3, <2>4 DEF acc
<1> QED BY <1>6, <1>7

\* The messages built of some events tell what the events do.
LEMMA BuildTells ==
  ASSUME LogOK(log), LogShape(log), NEW S, S \subseteq DOMAIN log, Closed(log, S)
  PROVE  Contents(BuildMessages(S)) = Told(log, S)
<1> DEFINE acc == Built(S)[Len(log)]
           F == Flush(acc)
           M == F.msgs
           K == Telling1(M)
           t == Those(M, K)
<1>1. Len(log) \in Nat /\ DOMAIN log = 1 .. Len(log)
  BY SeqIs DEF LogOK
<1>2. BuiltOK(acc, S)
  <2>1. {i \in S : i <= Len(log)} = S
    BY <1>1
  <2>2. BuiltOK(acc, {i \in S : i <= Len(log)})
    <3>1. Len(log) \in 0 .. Len(log) /\ S \in SUBSET DOMAIN log
      BY <1>1
    <3>2. \A n \in 0 .. Len(log) : BuiltOK(Built(S)[n], {i \in S : i <= n})
      BY <3>1, BuiltTells
    <3> QED BY <3>1, <3>2
  <2> QED BY <2>1, <2>2
<1>3. BuildMessages(S) = t
  BY DEF BuildMessages, Telling1, Telling
<1> HIDE DEF acc
<1>4. F \in Acc /\ Shown(M) = Told(log, S)
  BY <1>2, FlushIs, FlushShows DEF BuiltOK
<1>5. M \in Seq(Message) /\ K \subseteq DOMAIN M
  BY <1>4 DEF Acc, Telling1
<1> HIDE DEF F, M, K
<1>6. PICK at : Picks(at, Those(M, K), M, K)
  BY <1>5, ThoseIs
<1>7. t \in Seq(Message)
  BY <1>5, ThoseIs
<1> HIDE DEF t
<1>8. DOMAIN t = 1 .. Len(at)
  BY <1>6, <1>7 DEF Picks, t
<1>9. \A i \in 1 .. Len(at) : at[i] \in K /\ t[i] = M[at[i]]
  BY <1>6 DEF Picks, t
<1>10. \A x \in K : \E i \in 1 .. Len(at) : at[i] = x
  BY <1>6 DEF Picks, Enumerates
<1>11. Contents(t) = Shown(M)
  <2>1. Contents(t) = {<<t[i].role, t[i].id>> : i \in 1 .. Len(at)}
    BY <1>8 DEF Contents
  <2>2. Shown(M) = {<<M[x].role, M[x].id>> : x \in K}
    BY DEF Shown, K
  <2> QED BY <1>9, <1>10, <2>1, <2>2
<1> QED BY <1>3, <1>4, <1>11

------------------------------------------------------------------------------
(* A compaction's cut *)

\* The summary covers the events up to cut: it takes in the one before it, and
\* what follows is a message's first event, or nothing.
GoodCut(cut, S, after) ==
  /\ cut \in Nat /\ 1 <= cut /\ cut <= Len(log) /\ after <= cut
  /\ cut + 1 \in S => log[cut + 1].kind = "message_started"

\* Before the first event of a message that follows the last summary.
LEMMA CutBefore ==
  ASSUME LogOK(log), NEW S \in SUBSET DOMAIN log, NEW after \in Nat,
         NEW s \in S, log[s].kind = "message_started", s > after, s - 1 # 0
  PROVE  GoodCut(s - 1, S, after) /\ (s - 1) + 1 = s
<1>1. Len(log) \in Nat /\ DOMAIN log = 1 .. Len(log)
  BY SeqIs DEF LogOK
<1>2. s \in Nat /\ s - 1 \in Nat /\ 1 <= s - 1 /\ s - 1 <= Len(log) /\ after <= s - 1 /\ (s - 1) + 1 = s
  BY <1>1
<1> QED BY <1>2 DEF GoodCut

\* Where chooseCut cuts, when there is something to do.
LEMMA ChooseCutIs ==
  ASSUME LogOK(log), NEW S \in SUBSET DOMAIN log, NEW after \in Nat, NEW keep \in Nat \ {0},
         NEW least \in Nat, NEW mid \in BOOLEAN, ChooseCut(S, after, keep, least, mid) # 0
  PROVE  /\ GoodCut(ChooseCut(S, after, keep, least, mid), S, after)
         /\ least >= 1 =>
              LET s == ChooseCut(S, after, keep, least, mid) + 1
              IN s \in S /\ log[s].kind = "message_started"
<1> DEFINE users == UsersAfter(S, after)
           U == After(Starts(S, "user"), after)
           lastUser == IF users = <<>> THEN 0 ELSE users[Len(users)]
           steps == {s \in Starts(S, "assistant") : s > after /\ s > lastUser}
           fewer == {k \in least .. keep - 1 : Len(users) > k}
           Before(k) == users[Len(users) - k + 1] - 1
           cut == ChooseCut(S, after, keep, least, mid)
<1>1. Len(log) \in Nat /\ DOMAIN log = 1 .. Len(log)
  BY SeqIs DEF LogOK
<1>2. cut = CASE Len(users) > keep -> Before(keep)
              [] Len(users) <= keep /\ mid /\ Cardinality(steps) >= 2 -> Highest(steps) - 1
              [] OTHER -> IF fewer = {} THEN 0
                          ELSE IF Highest(fewer) = 0 THEN Highest(S)
                          ELSE Before(Highest(fewer))
  BY DEF ChooseCut
<1>3. Enumerates(users, U)
  <2>1. U \in SUBSET (1 .. Len(log))
    BY <1>1 DEF After, Starts
  <2> HIDE DEF U
  <2>2. Enumerates(InOrder(Len(log), U), U)
    BY <1>1, <2>1, OrderIs
  <2> QED BY <2>2 DEF UsersAfter, U
<1>4. steps \in SUBSET S /\ \A s \in steps : log[s].kind = "message_started" /\ s > after
  BY DEF Starts
<1>5. \A u \in U : u \in S /\ log[u].kind = "message_started" /\ u > after
  BY DEF After, Starts
<1>6. fewer \in SUBSET Nat /\ \A k \in fewer : k >= least /\ k <= keep /\ Len(users) > k
  OBVIOUS
<1>7. \A s \in S : s \in Nat
  BY <1>1
<1> HIDE DEF users, U, steps, fewer
<1>8. Len(users) \in Nat /\ DOMAIN users = 1 .. Len(users) /\ \A i \in 1 .. Len(users) : users[i] \in U
  <2>1. users \in Seq(Nat)
    BY <1>3 DEF Enumerates
  <2> QED BY <1>3, <2>1 DEF Enumerates
<1>9. ASSUME NEW k \in Nat \ {0}, Len(users) > k, cut = Before(k)
      PROVE  GoodCut(cut, S, after) /\ cut + 1 \in S /\ log[cut + 1].kind = "message_started"
  <2> DEFINE u == users[Len(users) - k + 1]
  <2>1. Len(users) - k + 1 \in 1 .. Len(users)
    BY <1>8, <1>9
  <2>2. u \in U
    BY <1>8, <2>1
  <2>3. cut = u - 1
    BY <1>9
  <2> HIDE DEF u, cut, Before
  <2>4. u \in S /\ log[u].kind = "message_started" /\ u > after /\ u - 1 # 0
    BY <1>5, <2>2, <2>3 DEF cut
  <2>5. GoodCut(u - 1, S, after) /\ (u - 1) + 1 = u
    BY <2>4, CutBefore
  <2> QED BY <2>3, <2>4, <2>5
<1>10. CASE Len(users) > keep
  <2>1. cut = Before(keep)
    BY <1>2, <1>10
  <2> QED BY <1>9, <1>10, <2>1
<1>11. CASE Len(users) <= keep /\ mid /\ Cardinality(steps) >= 2
  <2>1. ~(Len(users) > keep)
    BY <1>8, <1>11
  <2>2. cut = Highest(steps) - 1
    BY <1>2, <1>11, <2>1
  <2>3. steps # {}
    BY <1>11, FS_EmptySet
  <2>4. Highest(steps) \in steps
    BY <1>4, <2>3, HighestOf
  <2> DEFINE s == Highest(steps)
  <2> HIDE DEF s, cut
  <2>5. s \in S /\ log[s].kind = "message_started" /\ s > after /\ s - 1 # 0
    BY <1>4, <2>2, <2>4 DEF cut, s
  <2>6. GoodCut(s - 1, S, after) /\ (s - 1) + 1 = s
    BY <2>5, CutBefore
  <2>7. cut = s - 1
    BY <2>2 DEF s
  <2> QED BY <2>5, <2>6, <2>7 DEF cut
<1>12. CASE ~(Len(users) > keep) /\ ~(Len(users) <= keep /\ mid /\ Cardinality(steps) >= 2)
  <2>1. cut = IF fewer = {} THEN 0
              ELSE IF Highest(fewer) = 0 THEN Highest(S)
              ELSE Before(Highest(fewer))
    BY <1>2, <1>12
  <2>2. fewer # {}
    BY <2>1
  <2>3. Highest(fewer) \in fewer
    BY <1>6, <2>2, HighestIs
  <2> DEFINE h == Highest(fewer)
  <2>4. h \in Nat /\ h >= least /\ Len(users) > h
    BY <1>6, <2>3
  <2> HIDE DEF h
  <2>5. CASE h # 0
    <3>1. cut = Before(h)
      BY <2>1, <2>2, <2>5 DEF h
    <3> QED BY <1>9, <2>4, <2>5, <3>1
  <2>6. CASE h = 0
    <3>1. cut = Highest(S)
      BY <2>1, <2>2, <2>6 DEF h
    <3>2. 1 \in 1 .. Len(users)
      BY <1>8, <2>4, <2>6
    <3>3. users[1] \in S /\ users[1] > after
      BY <1>5, <1>8, <3>2
    <3> HIDE DEF cut
    <3>4. cut \in S /\ \A s \in S : s <= cut
      BY <3>1, <3>3, HighestOf
    <3>5. cut \in Nat /\ 1 <= cut /\ cut <= Len(log)
      BY <1>1, <3>4
    <3>6. users[1] \in Nat /\ users[1] <= cut
      BY <1>7, <3>3, <3>4
    <3>7. after <= cut
      BY <3>3, <3>5, <3>6
    <3>8. cut + 1 \notin S
      BY <3>4, <3>5
    <3>9. ~(least >= 1)
      BY <2>4, <2>6
    <3> QED BY <3>5, <3>7, <3>8, <3>9 DEF GoodCut, cut
  <2> QED BY <2>5, <2>6
<1> QED BY <1>10, <1>11, <1>12

\* The compaction that an action appends: it parts nothing of its branch, and
\* its summary stands for what the branch has up to its cut.
CompactionOK(c) ==
  /\ c.kind = "compaction_done" /\ c.branch = Active
  /\ CutOf(c, log, SeenOn(log, Active)) /\ 1 <= c.covered /\ c.covered <= Len(log)

\* What compact makes of the active branch is one, if it makes any.
LEMMA CompactedIs ==
  ASSUME LogOK(log), LogShape(log), NEW keep \in Nat \ {0}, NEW least \in Nat, NEW mid \in BOOLEAN,
         Compacted(keep, least, mid).kind # "none"
  PROVE  /\ CompactionOK(Compacted(keep, least, mid))
         /\ least >= 1 =>
              LET s == Compacted(keep, least, mid).covered + 1
              IN s \in SeenOn(log, Active) /\ log[s].kind = "message_started"
<1> DEFINE P == OnBranch(Active)
           old == LastCompaction(P)
           cut == ChooseCut(P, old.covered, keep, least, mid)
           c == Compacted(keep, least, mid)
           S == ContextEvents(UpTo(P, cut), old)
<1>1. /\ c.kind = IF cut = 0 THEN "none" ELSE "compaction_done"
      /\ c.branch = Active /\ c.covered = cut
      /\ c.sums = old.sums \cup Contents(Context(UpTo(P, cut), old))
  BY DEF Compacted
<1>2. P = SeenOn(log, Active) /\ PathOK(log, P) /\ P \in SUBSET DOMAIN log
  <2>1. P = SeenOn(log, Active) /\ Active \in Tree(log)
    BY ActiveIs, PathIsSeen
  <2>2. PathOK(log, SeenOn(log, Active))
    BY <2>1, BranchIsPath
  <2> QED BY <2>1, <2>2 DEF PathOK
<1> HIDE DEF P
<1>3. CutOf(old, log, P) /\ old.covered \in Nat
  BY <1>2, LastCompactionIs DEF CutOf
<1> HIDE DEF old, c
<1>4. cut # 0
  BY <1>1 DEF c
<1>5. GoodCut(cut, P, old.covered)
  BY <1>2, <1>3, <1>4, ChooseCutIs
<1>6. least >= 1 => cut + 1 \in P /\ log[cut + 1].kind = "message_started"
  BY <1>2, <1>3, <1>4, ChooseCutIs
<1> HIDE DEF cut
<1>7. cut \in Nat /\ 1 <= cut /\ cut <= Len(log) /\ old.covered <= cut
  BY <1>5 DEF GoodCut
<1>8. S \subseteq DOMAIN log /\ Closed(log, S)
  BY <1>2, <1>3, <1>7, ContextIs
<1>9. Told(log, S) \cup old.sums = Told(log, UpTo(P, cut))
  BY <1>2, <1>3, <1>7, ContextTells
<1>10. Contents(Context(UpTo(P, cut), old)) = Contents(BuildMessages(S))
  BY DEF Context
<1> HIDE DEF S
<1>11. Contents(BuildMessages(S)) = Told(log, S)
  BY <1>8, BuildTells
<1>12. c.sums = Told(log, {j \in P : j <= cut})
  <2>1. c.sums = Told(log, UpTo(P, cut))
    BY <1>1, <1>9, <1>10, <1>11
  <2> QED BY <2>1 DEF UpTo
<1>13. CutOf(c, log, P)
  BY <1>1, <1>5, <1>7, <1>12 DEF CutOf, GoodCut, Inner
<1>14. CompactionOK(c)
  BY <1>1, <1>2, <1>4, <1>7, <1>13 DEF CompactionOK
<1>15. least >= 1 => c.covered + 1 \in P /\ log[c.covered + 1].kind = "message_started"
  BY <1>1, <1>6
<1> QED BY <1>2, <1>14, <1>15 DEF c

------------------------------------------------------------------------------
(* The shape of a turn *)

\* The last message of these events is complete, and is a user's or makes calls;
\* no compaction goes past it.
LastTurn(l, S, s) ==
  /\ s \in S /\ l[s].kind = "message_started" /\ \A x \in S : l[x].kind = "message_started" => x <= s
  /\ s + 1 \in S /\ l[s + 1].kind = "message_done"
  /\ l[s].role = "user" \/ (s + 2 \in S /\ l[s + 2].kind = "tool_call_started")
  /\ \A c \in S : l[c].kind = "compaction_done" => l[c].covered < s

Ready(l, S) == Asked(l, S) /\ \E s \in S : LastTurn(l, S, s)

\* The turn's last reply ends at p with k calls: t.calls are those after the r-th.
ToolsOf(t, l, a, p, k, r) ==
  /\ Group(l, p, k, r) /\ Len(l) = p + k + r /\ r < k /\ l[p].branch = a /\ l[Len(l)].branch = a
  /\ Len(t.calls) = k - r /\ \A j \in 1 .. k - r : t.calls[j] = CallId(p, r + j)

TurnShape(t, l, a) ==
  /\ t.at \in {"boundary", "request"} => Ready(l, SeenOn(l, a))
  /\ t.at = "reply" => t.calls[1] = Len(l) /\ Begins(l, Len(l), "assistant") /\ l[Len(l)].branch = a
  /\ t.at = "tools" => \E p, k, r \in Nat : ToolsOf(t, l, a, p, k, r)

\* k is l with n events of s, on branch a.
Ran(k, l, a, s, n) ==
  /\ Grows(k, l) /\ Len(l) \in Nat /\ Len(k) = Len(l) + n /\ DOMAIN l = 1 .. Len(l) /\ DOMAIN k = 1 .. Len(k)
  /\ Len(s) \in Nat /\ n \in 1 .. Len(s) /\ n \in Nat /\ a \in Tree(l) /\ Tree(k) = Tree(l)
  /\ \A i \in DOMAIN l : k[i] = l[i]
  /\ \A j \in 1 .. n : k[Len(l) + j] = s[j] /\ ~SessionWide(s[j]) /\ s[j].branch = a
  /\ SeenOn(k, a) = SeenOn(l, a) \cup {Len(l) + j : j \in 1 .. n}

\* A script that is appended, in these terms.
LEMMA AppendsRan ==
  ASSUME NEW k, NEW l, NEW a, NEW s, NEW n, Appends(k, l, a, s, n)
  PROVE  Ran(k, l, a, s, n)
<1>1. /\ LogOK(l) /\ IsSeq(l) /\ a \in Tree(l) /\ ScriptOK(l, a, s) /\ IsSeq(s)
      /\ n \in 1 .. Len(s) /\ k = l \o SubSeq(s, 1, n)
  BY DEF Appends, ScriptOK, LogOK
<1>2. /\ IsSeq(k) /\ Len(k) = Len(l) + n /\ Extends(k, l) /\ \A j \in 1 .. n : k[Len(l) + j] = s[j]
  BY <1>1, Appended
<1>3. /\ LogOK(k) /\ Tree(k) = Tree(l)
      /\ SeenOn(k, a) = SeenOn(l, a) \cup {Len(l) + j : j \in 1 .. n}
  <2>1. ScriptSeen(k, l, a, s, n)
    BY ScriptAppended
  <2> QED BY <1>1, <2>1 DEF ScriptSeen
<1>4. /\ Len(l) \in Nat /\ DOMAIN l = 1 .. Len(l) /\ DOMAIN k = 1 .. Len(k) /\ Len(s) \in Nat /\ n \in Nat
  <2>1. /\ Len(l) \in Nat /\ DOMAIN l = 1 .. Len(l) /\ DOMAIN k = 1 .. Len(k) /\ Len(s) \in Nat
    BY <1>1, <1>2, SeqIs
  <2> QED BY <1>1, <2>1
<1>5. \A j \in 1 .. n : ~SessionWide(s[j]) /\ s[j].branch = a
  <2>1. \A j \in 1 .. n : j \in 1 .. Len(s)
    BY <1>1, <1>4
  <2> QED BY <1>1, <2>1 DEF ScriptOK
<1>6. Grows(k, l) /\ \A i \in DOMAIN l : k[i] = l[i]
  BY <1>1, <1>2, <1>3 DEF Grows, Extends
<1> QED BY <1>1, <1>2, <1>3, <1>4, <1>5, <1>6 DEF Ran

\* The active branch stays while none is switched to.
LEMMA ActiveStays ==
  ASSUME LogOK(log), LogOK(log'), Extends(log', log),
         \A i \in DOMAIN log' : i \notin DOMAIN log => log'[i].kind # "branch_switched"
  PROVE  Active' = Active
<1>1. \A i \in DOMAIN log : i \in DOMAIN log' /\ log'[i] = log[i]
  BY DEF Extends
<1>2. Switched' = Switched
  BY <1>1 DEF Switched
<1>3. CASE Switched = {}
  BY <1>2, <1>3 DEF Active
<1>4. CASE Switched # {}
  <2>1. Switched \in SUBSET DOMAIN log
    BY DEF Switched
  <2>2. Highest(Switched) \in DOMAIN log
    BY <1>4, <2>1, HighestOf
  <2>3. Active = log[Highest(Switched)].id /\ Active' = log'[Highest(Switched)].id
    BY <1>2, <1>4 DEF Active
  <2> QED BY <1>1, <2>2, <2>3
<1> QED BY <1>3, <1>4

\* A script's events have their shape, and the turn that follows has its own.
ShapedBy(script, then) ==
  \A k, n : Ran(k, log, Active, script, n) =>
    /\ \A j \in 1 .. n : ShapeOK(k, Len(log) + j)
    /\ n = Len(script) => TurnShape(then, k, Active)

\* A turn that has ended asks for nothing.
LEMMA IdleShape ==
  \A l, a : TurnShape(Idle, l, a)
<1>1. Idle.at = "idle"
  BY DEF Idle
<1> QED BY <1>1 DEF TurnShape

\* A longer log has its shape when its new events do.
LEMMA LongerShape ==
  ASSUME NEW k, NEW l, Grows(k, l), LogShape(l), \A i \in DOMAIN k : i \notin DOMAIN l => ShapeOK(k, i)
  PROVE  LogShape(k)
<1>1. ASSUME NEW i \in DOMAIN l PROVE ShapeOK(k, i)
  <2>1. ShapeOK(l, i)
    BY DEF LogShape
  <2> QED BY <2>1, ShapeStays
<1> QED BY <1>1 DEF LogShape

\* So appending it, however much of it, keeps the shape.
LEMMA DoShape ==
  ASSUME ConversationInv, LogShape(log), NEW script, NEW then, ScriptOK(log, Active, script),
         ShapedBy(script, then), Do(script, then)
  PROVE  LogShape(log') /\ TurnShape(turn', log', Active')
<1>1. LogOK(log) /\ Active \in Tree(log) /\ Len(log) + Len(script) <= MaxLog
  BY ActiveIs DEF ConversationInv, Do
<1>2. PICK n \in 1 .. Len(script) :
        /\ log' = log \o SubSeq(script, 1, n)
        /\ (n = Len(script) /\ turn' = then) \/ turn' = Idle
  BY DEF Do, CutShort
<1> DEFINE k == log'
           a == Active
<1>3. Appends(k, log, a, script, n)
  BY <1>1, <1>2 DEF Appends
<1> HIDE DEF k, a
<1>4. Ran(k, log, a, script, n)
  BY <1>3, AppendsRan
<1>5. \A j \in 1 .. n : ShapeOK(k, Len(log) + j)
  BY <1>4 DEF ShapedBy, a
<1>6. \A i \in DOMAIN k : i \notin DOMAIN log => i - Len(log) \in 1 .. n /\ i = Len(log) + (i - Len(log))
  BY <1>4 DEF Ran
<1>7. \A i \in DOMAIN k : i \notin DOMAIN log => ShapeOK(k, i) /\ ~SessionWide(k[i])
  <2> SUFFICES ASSUME NEW i \in DOMAIN k, i \notin DOMAIN log PROVE ShapeOK(k, i) /\ ~SessionWide(k[i])
    OBVIOUS
  <2> DEFINE j == i - Len(log)
  <2>1. j \in 1 .. n /\ i = Len(log) + j
    BY <1>6
  <2> HIDE DEF j
  <2>2. ShapeOK(k, i)
    BY <1>5, <2>1
  <2>3. k[i] = script[j] /\ ~SessionWide(script[j])
    BY <1>4, <2>1 DEF Ran
  <2> QED BY <2>2, <2>3
<1>8. Grows(k, log)
  BY <1>4 DEF Ran
<1>9. LogShape(k)
  BY <1>7, <1>8, LongerShape
<1>10. Active' = Active
  <2>1. \A i \in DOMAIN k : i \notin DOMAIN log => k[i].kind # "branch_switched"
    BY <1>7 DEF SessionWide
  <2> QED BY <1>8, <2>1, ActiveStays DEF Grows, k
<1>11. TurnShape(turn', k, a)
  <2>1. CASE n = Len(script) /\ turn' = then
    BY <1>4, <2>1 DEF ShapedBy, a
  <2>2. CASE turn' = Idle
    BY <2>2, IdleShape
  <2> QED BY <1>2, <2>1, <2>2
<1> QED BY <1>9, <1>10, <1>11 DEF k, a

------------------------------------------------------------------------------
(* The steps keep the shape *)

\* A complete user message that comes last makes a turn ready.
LEMMA UserReady ==
  ASSUME NEW k, LogOK(k), NEW S \in SUBSET DOMAIN k, \A c \in S : ShapeOK(k, c),
         NEW u \in S, Begins(k, u, "user"), u + 1 \in S, k[u + 1].kind = "message_done",
         \A x \in S : x <= u + 1
  PROVE  Ready(k, S)
<1>1. Len(k) \in Nat /\ DOMAIN k = 1 .. Len(k) /\ \A x \in S : x \in Nat
  BY SeqIs DEF LogOK
<1>2. \A x \in S : x = u + 1 \/ x <= u
  BY <1>1
<1>3. \A x \in S : k[x].kind # "message_done" => x <= u
  BY <1>2
<1>4. Asked(k, S)
  BY <1>3 DEF Asked, Begins
<1>5. ASSUME NEW c \in S, k[c].kind = "compaction_done" PROVE k[c].covered < u
  <2>1. k[c].covered \in Nat /\ k[c].covered < c
    BY <1>5 DEF ShapeOK, CutOK
  <2>2. c <= u
    BY <1>3, <1>5
  <2> QED BY <1>1, <2>1, <2>2
<1>6. LastTurn(k, S, u)
  BY <1>3, <1>5 DEF LastTurn, Begins
<1> QED BY <1>4, <1>6 DEF Ready

\* The events that n events of a script add, typed.
LEMMA RanSeen ==
  ASSUME NEW k, NEW a, NEW s, NEW n, Ran(k, log, a, s, n)
  PROVE  /\ LogOK(log) /\ LogOK(k) /\ SeenOn(log, a) \in SUBSET DOMAIN log /\ SeenOn(k, a) \in SUBSET DOMAIN k
         /\ SeenOn(log, a) \subseteq SeenOn(k, a)
         /\ \A j \in 1 .. n : Len(log) + j \in SeenOn(k, a) /\ Len(log) + j \in DOMAIN k
         /\ \A x \in SeenOn(k, a) : x \in SeenOn(log, a) \/ \E j \in 1 .. n : x = Len(log) + j
<1>1. LogOK(log) /\ LogOK(k)
  BY DEF Ran, Grows
<1>2. SeenOn(log, a) \in SUBSET DOMAIN log /\ SeenOn(k, a) \in SUBSET DOMAIN k
  BY <1>1, SeenIs
<1>3. SeenOn(k, a) = SeenOn(log, a) \cup {Len(log) + j : j \in 1 .. n}
  BY DEF Ran
<1> QED BY <1>1, <1>2, <1>3

\* A user's message.
LEMMA SendShaped ==
  ASSUME LogOK(log), LogShape(log), NEW then, then.at = "boundary"
  PROVE  ShapedBy(UserMessage, then)
<1> DEFINE N == Len(log) + 1
           a == Active
           s == UserMessage
<1>1. s = <<Started(N, "user"), Done(N, "user", TRUE)>>
  BY DEF UserMessage, NextSeq
<1>2. Len(s) = 2 /\ s[1] = Started(N, "user") /\ s[2] = Done(N, "user", TRUE)
  BY <1>1
<1>3. Len(log) \in Nat /\ DOMAIN log = 1 .. Len(log)
  BY SeqIs DEF LogOK
<1> HIDE DEF s
<1>4. /\ s[1].kind = "message_started" /\ s[1].role = "user" /\ s[1].branch = a
      /\ s[2].kind = "message_done" /\ s[2].id = N /\ s[2].branch = a /\ s[2].full = TRUE
  BY <1>2 DEF Started, Done
<1> HIDE DEF a
<1> SUFFICES ASSUME NEW k, NEW n, Ran(k, log, a, s, n)
    PROVE  /\ \A j \in 1 .. n : ShapeOK(k, Len(log) + j)
           /\ n = Len(s) => TurnShape(then, k, a)
  BY DEF ShapedBy, s, a
<1>5. /\ n \in 1 .. 2 /\ Grows(k, log) /\ \A j \in 1 .. n : k[Len(log) + j] = s[j]
  BY <1>2 DEF Ran
<1>6. /\ LogOK(log) /\ LogOK(k) /\ SeenOn(k, a) \in SUBSET DOMAIN k /\ SeenOn(log, a) \in SUBSET DOMAIN log
      /\ \A j \in 1 .. n : Len(log) + j \in SeenOn(k, a) /\ Len(log) + j \in DOMAIN k
      /\ \A x \in SeenOn(k, a) : x \in SeenOn(log, a) \/ \E j \in 1 .. n : x = Len(log) + j
  BY RanSeen
<1>7. ShapeOK(k, N)
  <2>1. k[N] = s[1]
    BY <1>5
  <2> QED BY <1>4, <2>1 DEF ShapeOK, EventShape, AskedOK, Begins, CutOK, Inner
<1>8. ASSUME n = 2 PROVE ShapeOK(k, N + 1)
  <2>1. k[N] = s[1] /\ k[Len(log) + 2] = s[2] /\ Len(log) + 2 = N + 1 /\ N \in DOMAIN k
    BY <1>3, <1>5, <1>6, <1>8
  <2>2. (N + 1) - 1 = N
    BY <1>3
  <2>3. EventShape(k, N + 1)
    BY <1>4, <2>1, <2>2 DEF EventShape, Inner, SessionWide
  <2> QED BY <1>4, <2>1, <2>3 DEF ShapeOK, AskedOK, Begins, CutOK
<1>9. ASSUME NEW j \in 1 .. n PROVE ShapeOK(k, Len(log) + j)
  <2>1. j = 1 \/ (j = 2 /\ n = 2)
    BY <1>5
  <2>2. N = Len(log) + 1 /\ N + 1 = Len(log) + 2
    BY <1>3
  <2> QED BY <1>7, <1>8, <2>1, <2>2
<1>10. ASSUME n = 2 PROVE TurnShape(then, k, a)
  <2>1. k[N] = s[1] /\ k[N + 1] = s[2] /\ N \in SeenOn(k, a) /\ N + 1 \in SeenOn(k, a)
    <3>1. 1 \in 1 .. n /\ 2 \in 1 .. n /\ N = Len(log) + 1 /\ N + 1 = Len(log) + 2
      BY <1>3, <1>10
    <3> QED BY <1>5, <1>6, <3>1
  <2>2. \A x \in SeenOn(k, a) : x <= N + 1
    BY <1>3, <1>5, <1>6
  <2>3. \A x \in SeenOn(k, a) : ShapeOK(k, x)
    <3>1. LogShape(k)
      <4>1. \A i \in DOMAIN k : i \notin DOMAIN log => i - Len(log) \in 1 .. n /\ i = Len(log) + (i - Len(log))
        BY DEF Ran
      <4>2. \A i \in DOMAIN k : i \notin DOMAIN log => ShapeOK(k, i)
        BY <1>9, <4>1
      <4> QED BY <1>5, <4>2, LongerShape
    <3> QED BY <1>6, <3>1 DEF LogShape
  <2>4. Begins(k, N, "user")
    BY <1>4, <2>1 DEF Begins
  <2> HIDE DEF N
  <2>5. Ready(k, SeenOn(k, a))
    BY <1>4, <1>6, <2>1, <2>2, <2>3, <2>4, UserReady
  <2> QED BY <2>5 DEF TurnShape
<1> QED BY <1>2, <1>9, <1>10

\* With a script's events the log keeps its shape.
LEMMA RanShape ==
  ASSUME NEW k, NEW a, NEW s, NEW n, Ran(k, log, a, s, n), LogShape(log),
         \A j \in 1 .. n : ShapeOK(k, Len(log) + j)
  PROVE  LogShape(k)
<1>1. Grows(k, log)
      /\ \A i \in DOMAIN k : i \notin DOMAIN log => i - Len(log) \in 1 .. n /\ i = Len(log) + (i - Len(log))
  BY DEF Ran
<1>2. \A i \in DOMAIN k : i \notin DOMAIN log => ShapeOK(k, i)
  BY <1>1
<1> QED BY <1>1, <1>2, LongerShape

\* A compaction.
LEMMA CompactShaped ==
  ASSUME LogOK(log), LogShape(log), NEW c, CompactionOK(c), NEW then, then.at \in {"idle", "request"},
         then.at = "request" =>
           /\ Ready(log, SeenOn(log, Active))
           /\ c.covered + 1 \in SeenOn(log, Active) /\ log[c.covered + 1].kind = "message_started"
  PROVE  ShapedBy(<<c>>, then)
<1> DEFINE N == Len(log) + 1
           a == Active
           s == <<c>>
           v == c.covered
           P == SeenOn(log, a)
<1>1. s[1] = c /\ Len(s) = 1
  OBVIOUS
<1>2. Len(log) \in Nat /\ DOMAIN log = 1 .. Len(log)
  BY SeqIs DEF LogOK
<1>3. /\ c.kind = "compaction_done" /\ c.branch = a /\ v \in Nat /\ 1 <= v /\ v <= Len(log)
      /\ v + 1 \in P => log[v + 1].kind \notin Inner
      /\ c.sums = Told(log, Upto(log, a, v))
  BY DEF CompactionOK, CutOf, Upto
<1> HIDE DEF s, a, v
<1> SUFFICES ASSUME NEW k, NEW n, Ran(k, log, a, s, n)
    PROVE  /\ \A j \in 1 .. n : ShapeOK(k, Len(log) + j)
           /\ n = Len(s) => TurnShape(then, k, a)
  BY DEF ShapedBy, s, a
<1>4. /\ n = 1 /\ Grows(k, log) /\ k[N] = c /\ a \in Tree(log) /\ \A i \in DOMAIN log : k[i] = log[i]
  BY <1>1 DEF Ran
<1>5. /\ LogOK(k) /\ SeenOn(k, a) \in SUBSET DOMAIN k /\ P \in SUBSET DOMAIN log /\ P \subseteq SeenOn(k, a)
      /\ N \in SeenOn(k, a)
      /\ \A x \in SeenOn(k, a) : x \in P \/ x = N
  BY <1>4, RanSeen
<1>6. CutOK(k, N)
  <2>1. v + 1 \in SeenOn(k, a) => k[v + 1].kind \notin Inner
    BY <1>3, <1>4, <1>5 DEF Inner
  <2>2. v \in DOMAIN log
    BY <1>2, <1>3
  <2>3. Upto(k, a, v) = Upto(log, a, v) /\ Upto(log, a, v) \in SUBSET DOMAIN log
    BY <1>4, <2>2, PastStays
  <2>4. c.sums = Told(k, Upto(k, a, v))
    BY <1>3, <1>4, <2>3, ToldStays
  <2>5. v < N
    BY <1>2, <1>3
  <2> QED BY <1>3, <1>4, <2>1, <2>4, <2>5 DEF CutOK, v
<1>7. ShapeOK(k, N)
  BY <1>3, <1>4, <1>6 DEF ShapeOK, EventShape, AskedOK, Begins, Inner
<1>8. TurnShape(then, k, a)
  <2>1. CASE then.at = "idle"
    BY <2>1 DEF TurnShape
  <2>2. CASE then.at = "request"
    <3>1. Ready(log, P) /\ v + 1 \in P /\ log[v + 1].kind = "message_started"
      BY <2>2 DEF a, v
    <3>2. PICK m \in P : LastTurn(log, P, m)
      BY <3>1 DEF Ready
    <3>3. v + 1 <= m /\ m \in Nat
      BY <1>2, <1>5, <3>1, <3>2 DEF LastTurn
    <3>4. v < m
      BY <1>3, <3>3
    <3>5. \A x \in P : k[x] = log[x]
      BY <1>4, <1>5
    <3> DEFINE Q == SeenOn(k, a)
    <3> HIDE DEF P, Q
    <3>6. m \in Q /\ k[m].kind = "message_started" /\ m + 1 \in Q /\ k[m + 1].kind = "message_done"
          /\ (k[m].role = "user" \/ (m + 2 \in Q /\ k[m + 2].kind = "tool_call_started"))
      BY <1>5, <3>2, <3>5 DEF LastTurn, Q
    <3>7. \A x \in Q : k[x].kind = "message_started" => x <= m
      BY <1>3, <1>4, <1>5, <3>2, <3>5 DEF LastTurn, Q
    <3>8. \A x \in Q : k[x].kind = "compaction_done" => k[x].covered < m
      BY <1>3, <1>4, <1>5, <3>2, <3>4, <3>5 DEF LastTurn, Q, v
    <3>9. LastTurn(k, Q, m)
      BY <3>6, <3>7, <3>8 DEF LastTurn
    <3>10. Asked(k, Q)
      <4>1. PICK u \in P : /\ Begins(log, u, "user") /\ u + 1 \in P /\ log[u + 1].kind = "message_done"
                           /\ \A x \in P : Begins(log, x, "user") => x <= u
        BY <3>1 DEF Ready, Asked
      <4>2. u \in Q /\ Begins(k, u, "user") /\ u + 1 \in Q /\ k[u + 1].kind = "message_done"
        BY <1>5, <3>5, <4>1 DEF Begins, Q
      <4>3. \A x \in Q : Begins(k, x, "user") => x <= u
        BY <1>3, <1>4, <1>5, <3>5, <4>1 DEF Begins, Q
      <4> QED BY <4>2, <4>3 DEF Asked
    <3>11. Ready(k, Q)
      BY <3>6, <3>9, <3>10 DEF Ready
    <3> QED BY <2>2, <3>11 DEF TurnShape, Q
  <2> QED BY <2>1, <2>2
<1>9. \A j \in 1 .. n : Len(log) + j = N
  BY <1>4
<1> QED BY <1>7, <1>8, <1>9

\* The model is called.
LEMMA CallShaped ==
  ASSUME LogOK(log), LogShape(log), Ready(log, SeenOn(log, Active))
  PROVE  ShapedBy(<<Started(NextSeq, "assistant")>>, Going("reply", <<NextSeq>>, FALSE))
<1> DEFINE N == Len(log) + 1
           a == Active
           e == Started(NextSeq, "assistant")
           s == <<e>>
           t == Going("reply", <<NextSeq>>, FALSE)
           P == SeenOn(log, a)
<1>1. s[1] = e /\ Len(s) = 1
  OBVIOUS
<1>2. Len(log) \in Nat /\ DOMAIN log = 1 .. Len(log)
  BY SeqIs DEF LogOK
<1>3. e.kind = "message_started" /\ e.role = "assistant" /\ e.branch = a
  BY DEF Started
<1>4. t.at = "reply" /\ t.calls[1] = N
  BY DEF Going, NextSeq
<1> HIDE DEF e, s, a, t
<1> SUFFICES ASSUME NEW k, NEW n, Ran(k, log, a, s, n)
    PROVE  /\ \A j \in 1 .. n : ShapeOK(k, Len(log) + j)
           /\ n = Len(s) => TurnShape(t, k, a)
  BY DEF ShapedBy, s, a, t, e
<1>5. /\ n = 1 /\ Grows(k, log) /\ k[N] = e /\ a \in Tree(log) /\ Len(k) = N
  BY <1>1 DEF Ran
<1>6. /\ LogOK(k) /\ SeenOn(k, a) \in SUBSET DOMAIN k /\ P \in SUBSET DOMAIN log /\ P \subseteq SeenOn(k, a)
      /\ \A x \in SeenOn(k, a) : x \in P \/ x = N
  BY <1>5, RanSeen
<1>7. AskedOK(k, N)
  <2>1. Past(k, a, N) = P
    <3>1. \A x \in P : x < N
      BY <1>2, <1>6
    <3>2. ~(N < N)
      BY <1>2
    <3> QED BY <1>6, <3>1, <3>2 DEF Past
  <2>2. Asked(log, P)
    BY DEF Ready, P, a
  <2> HIDE DEF P
  <2>3. Asked(k, P)
    BY <1>5, <1>6, <2>2, AskedStays
  <2> QED BY <1>3, <1>5, <2>1, <2>3 DEF AskedOK
<1>8. ShapeOK(k, N)
  BY <1>3, <1>5, <1>7 DEF ShapeOK, EventShape, CutOK, Inner
<1>9. TurnShape(t, k, a)
  BY <1>3, <1>4, <1>5 DEF TurnShape, Begins
<1>10. \A j \in 1 .. n : Len(log) + j = N
  BY <1>5
<1> QED BY <1>8, <1>9, <1>10

\* What a script says of a reply m that ends with c calls.
ReplyScript(s, m, c) ==
  /\ Len(s) = c + 1
  /\ s[1].kind = "message_done" /\ s[1].role = "assistant" /\ s[1].id = m /\ s[1].full \in BOOLEAN
  /\ \A j \in 1 .. c : /\ s[1 + j].kind = "tool_call_started" /\ s[1 + j].msg = m
                       /\ s[1 + j].id = CallId(NextSeq, j)

\* The turn that goes on to c calls, or ends.
ReplyThen(t, c) ==
  IF c = 0 THEN t = Idle
  ELSE t.at = "tools" /\ Len(t.calls) = c /\ \A j \in 1 .. c : t.calls[j] = CallId(NextSeq, j)

\* A reply.
LEMMA ReplyShaped ==
  ASSUME LogOK(log), LogShape(log), NEW c \in Nat, NEW s, ReplyScript(s, Len(log), c),
         Len(log) \in DOMAIN log, Begins(log, Len(log), "assistant"), log[Len(log)].branch = Active,
         NEW t, ReplyThen(t, c)
  PROVE  ShapedBy(s, t)
<1> DEFINE L == Len(log)
           p == L + 1
           a == Active
<1>1. L \in Nat /\ DOMAIN log = 1 .. L
  BY SeqIs DEF LogOK
<1>2. /\ Len(s) = c + 1
      /\ s[1].kind = "message_done" /\ s[1].role = "assistant" /\ s[1].id = L /\ s[1].full \in BOOLEAN
      /\ \A j \in 1 .. c : /\ s[1 + j].kind = "tool_call_started" /\ s[1 + j].msg = L
                           /\ s[1 + j].id = CallId(p, j)
  BY DEF ReplyScript, NextSeq
<1>3. log[L].kind = "message_started" /\ log[L].branch = a /\ L \in DOMAIN log
  BY DEF Begins
<1>4. IF c = 0 THEN t = Idle
      ELSE t.at = "tools" /\ Len(t.calls) = c /\ \A j \in 1 .. c : t.calls[j] = CallId(p, j)
  BY DEF ReplyThen, NextSeq
<1> HIDE DEF a
<1> SUFFICES ASSUME NEW k, NEW n, Ran(k, log, a, s, n)
    PROVE  /\ \A j \in 1 .. n : ShapeOK(k, L + j)
           /\ n = Len(s) => TurnShape(t, k, a)
  BY DEF ShapedBy, a
<1> HIDE DEF L
<1>5. /\ n \in 1 .. c + 1 /\ n \in Nat /\ Len(k) = L + n /\ DOMAIN k = 1 .. L + n
      /\ \A j \in 1 .. n : k[L + j] = s[j] /\ ~SessionWide(s[j]) /\ s[j].branch = a
      /\ k[L] = log[L]
  BY <1>2, <1>3 DEF Ran, L
<1>6. /\ k[p] = s[1] /\ k[p].branch = a /\ p \in DOMAIN k /\ p \in Nat /\ p - 1 = L
      /\ \A j \in 1 .. n - 1 : k[p + j] = s[1 + j] /\ k[p + j].branch = a /\ ~SessionWide(k[p + j])
  <2>1. 1 \in 1 .. n
    BY <1>5
  <2>2. ASSUME NEW j \in 1 .. n - 1 PROVE k[p + j] = s[1 + j] /\ s[1 + j].branch = a /\ ~SessionWide(s[1 + j])
    <3>1. 1 + j \in 1 .. n /\ p + j = L + (1 + j)
      BY <1>1, <1>5
    <3> QED BY <1>5, <3>1
  <2>3. p \in DOMAIN k /\ p \in Nat /\ p - 1 = L
    BY <1>1, <1>5
  <2> QED BY <1>5, <2>1, <2>2, <2>3
<1>7. ASSUME NEW j \in 0 .. n - 1 PROVE Group(k, p, j, 0)
  <2>1. \A x \in 1 .. j : x \in 1 .. n - 1 /\ x \in 1 .. c
    BY <1>5
  <2>2. 0 <= j /\ p + j + 0 <= Len(k) /\ j \in Nat
    BY <1>1, <1>5
  <2>3. \A x \in 1 .. j : /\ k[p + x].kind = "tool_call_started" /\ k[p + x].msg = p - 1
                          /\ k[p + x].id = CallId(p, x)
    BY <1>2, <1>6, <2>1
  <2>4. k[p].kind = "message_done" /\ k[p].role = "assistant" /\ k[p].id = p - 1
    BY <1>2, <1>6
  <2>5. 1 .. 0 = {}
    OBVIOUS
  <2> QED BY <1>6, <2>2, <2>3, <2>4, <2>5 DEF Group
<1>8. ShapeOK(k, p)
  <2>1. L \in DOMAIN k /\ ~SessionWide(k[L]) /\ k[L].branch = a
    BY <1>1, <1>3, <1>5 DEF SessionWide
  <2>2. EventShape(k, p)
    BY <1>2, <1>6, <2>1 DEF EventShape, Inner
  <2> QED BY <1>2, <1>6, <2>2 DEF ShapeOK, AskedOK, Begins, CutOK
<1>9. ASSUME NEW j \in 1 .. n - 1 PROVE ShapeOK(k, p + j)
  <2>1. j \in 1 .. c /\ j \in Nat /\ j >= 1
    BY <1>5
  <2>2. k[p + j].kind = "tool_call_started" /\ k[p + j].branch = a
    BY <1>2, <1>6, <2>1
  <2>3. (p + j) - 1 \in DOMAIN k
    BY <1>1, <1>5
  <2>4. ~SessionWide(k[(p + j) - 1]) /\ k[(p + j) - 1].branch = a
    <3>1. CASE j = 1
      <4>1. (p + j) - 1 = p
        BY <1>6, <3>1
      <4> QED BY <1>2, <1>6, <4>1 DEF SessionWide
    <3>2. CASE j # 1
      <4>1. (p + j) - 1 = p + (j - 1) /\ j - 1 \in 1 .. n - 1
        BY <1>5, <1>6, <2>1, <3>2
      <4> QED BY <1>6, <4>1
    <3> QED BY <3>1, <3>2
  <2>5. \E x, y, r \in Nat : Group(k, x, y, r) /\ y >= 1 /\ p + j = x + y + r
    <3>1. j \in 0 .. n - 1 /\ p + j = p + j + 0
      BY <1>5, <1>6
    <3>2. Group(k, p, j, 0)
      BY <1>7, <3>1
    <3> QED BY <1>6, <2>1, <3>1, <3>2
  <2>6. EventShape(k, p + j)
    BY <2>2, <2>3, <2>4, <2>5 DEF EventShape
  <2> QED BY <2>2, <2>6 DEF ShapeOK, AskedOK, Begins, CutOK
<1>10. ASSUME NEW j \in 1 .. n PROVE ShapeOK(k, L + j)
  <2>1. CASE j = 1
    BY <1>8, <2>1
  <2>2. CASE j # 1
    <3> DEFINE x == j - 1
    <3>1. x \in 1 .. n - 1 /\ L + j = p + x
      BY <1>1, <1>5, <2>2
    <3> HIDE DEF x
    <3> QED BY <1>9, <3>1
  <2> QED BY <2>1, <2>2
<1>11. ASSUME n = Len(s) PROVE TurnShape(t, k, a)
  <2>1. CASE c = 0
    BY <1>4, <2>1, IdleShape
  <2>2. CASE c # 0
    <3>1. t.at = "tools" /\ Len(t.calls) = c /\ \A j \in 1 .. c : t.calls[j] = CallId(p, j)
      BY <1>4, <2>2
    <3>2. n = c + 1 /\ Len(k) = p + c + 0 /\ 0 < c /\ c - 0 = c /\ c \in 0 .. n - 1 /\ c \in 1 .. n - 1
      BY <1>1, <1>2, <1>5, <1>11, <2>2
    <3>3. Group(k, p, c, 0)
      BY <1>7, <3>2
    <3>4. k[Len(k)].branch = a
      <4>1. k[p + c].branch = a
        BY <1>6, <3>2
      <4>2. Len(k) = p + c
        BY <1>6, <3>2
      <4> QED BY <4>1, <4>2
    <3>5. \A j \in 1 .. c - 0 : t.calls[j] = CallId(p, 0 + j)
      BY <3>1
    <3>6. ToolsOf(t, k, a, p, c, 0)
      BY <1>6, <3>1, <3>2, <3>3, <3>4, <3>5 DEF ToolsOf
    <3>7. \E x, y, r \in Nat : ToolsOf(t, k, a, x, y, r)
      BY <1>6, <3>6
    <3> QED BY <3>1, <3>7 DEF TurnShape
  <2> QED BY <2>1, <2>2
<1> QED BY <1>10, <1>11 DEF L

\* The events of a reply's group from its end on begin no message and cut nothing.
LEMMA GroupInner ==
  ASSUME NEW l, NEW p \in Nat, NEW c \in Nat, NEW r \in Nat, Group(l, p, c, r),
         NEW x \in Nat, p <= x, x <= p + c + r
  PROVE  l[x].kind \in Inner
<1>1. CASE x = p
  BY <1>1 DEF Group, Inner
<1>2. CASE p < x /\ x <= p + c
  <2>1. x - p \in 1 .. c /\ x = p + (x - p)
    BY <1>2
  <2> QED BY <2>1 DEF Group, Inner
<1>3. CASE p + c < x
  <2>1. x - (p + c) \in 1 .. r /\ x = p + c + (x - (p + c))
    BY <1>3
  <2> QED BY <2>1 DEF Group, Inner
<1> QED BY <1>1, <1>2, <1>3

\* A branch that ends with a reply, its calls and some results is ready.
LEMMA GroupReady ==
  ASSUME NEW l, LogOK(l), LogShape(l), NEW a \in Tree(l), NEW p \in Nat, NEW c \in Nat, NEW r \in Nat,
         Group(l, p, c, r), c >= 1, Len(l) = p + c + r, l[p].branch = a
  PROVE  Ready(l, SeenOn(l, a))
<1> DEFINE S == SeenOn(l, a)
           m == p - 1
<1>1. Len(l) \in Nat /\ DOMAIN l = 1 .. Len(l) /\ S \in SUBSET DOMAIN l
  BY SeqIs, SeenIs DEF LogOK
<1>2. \A x \in S : x \in Nat /\ x <= Len(l) /\ ShapeOK(l, x)
  BY <1>1 DEF LogShape
<1>3. p \in DOMAIN l /\ l[p].kind = "message_done" /\ l[p].role = "assistant" /\ l[p].id = m
      /\ p + 1 \in DOMAIN l /\ l[p + 1].kind = "tool_call_started"
  <2>1. 1 \in 1 .. c
    OBVIOUS
  <2>2. p \in DOMAIN l /\ p + c + r <= Len(l)
    BY DEF Group
  <2>3. p + 1 \in DOMAIN l
    BY <1>1, <2>2
  <2> QED BY <2>1, <2>2, <2>3 DEF Group
<1>4. /\ m \in DOMAIN l /\ ~SessionWide(l[m]) /\ l[m].branch = a
      /\ l[m].kind = "message_started" /\ l[m].role = "assistant"
  <2>1. EventOK(l, p) /\ EventShape(l, p)
    BY <1>3 DEF LogOK, LogShape, ShapeOK
  <2> QED BY <1>3, <2>1 DEF EventOK, EventShape, Inner
<1>5. l[p + 1].branch = a
  <2>1. EventShape(l, p + 1) /\ (p + 1) - 1 = p
    BY <1>3 DEF LogShape, ShapeOK
  <2> QED BY <1>3, <2>1 DEF EventShape, Inner
<1>6. m \in S /\ p \in S /\ p + 1 \in S
  <2>1. m \in Own(l, a) /\ p \in Own(l, a) /\ p + 1 \in Own(l, a)
    BY <1>3, <1>4, <1>5 DEF Own, SessionWide
  <2> QED BY <2>1, SeenOnTree
<1>7. \A x \in S : l[x].kind \notin Inner => x <= m
  <2> SUFFICES ASSUME NEW x \in S, ~(x <= m) PROVE l[x].kind \in Inner
    OBVIOUS
  <2>1. x \in Nat /\ p <= x /\ x <= p + c + r
    BY <1>2
  <2> QED BY <2>1, GroupInner
<1>8. m \in Nat /\ m + 1 = p /\ m + 2 = p + 1
  BY <1>1, <1>4
<1>9. ASSUME NEW x \in S, l[x].kind = "compaction_done" PROVE l[x].covered < m
  <2>1. l[x].covered \in Nat /\ l[x].covered < x /\ x <= m /\ x \in Nat
    BY <1>2, <1>7, <1>9 DEF ShapeOK, CutOK, Inner
  <2> QED BY <1>8, <2>1
<1>10. \A x \in S : l[x].kind = "message_started" => x <= m
  BY <1>7 DEF Inner
<1> HIDE DEF S
<1>11. LastTurn(l, S, m)
  <2> HIDE DEF m
  <2> QED BY <1>3, <1>4, <1>6, <1>8, <1>9, <1>10 DEF LastTurn
<1>12. Asked(l, S)
  <2>1. Asked(l, Past(l, a, m))
    <3>1. AskedOK(l, m)
      BY <1>4 DEF LogShape, ShapeOK
    <3> QED BY <1>4, <3>1 DEF AskedOK, Begins
  <2>2. PICK u \in Past(l, a, m) :
          /\ Begins(l, u, "user") /\ u + 1 \in Past(l, a, m) /\ l[u + 1].kind = "message_done"
          /\ \A x \in Past(l, a, m) : Begins(l, x, "user") => x <= u
    BY <2>1 DEF Asked
  <2>3. u \in S /\ u + 1 \in S
    BY <2>2 DEF Past, S
  <2>4. ASSUME NEW x \in S, Begins(l, x, "user") PROVE x <= u
    <3>1. x <= m /\ x # m
      BY <1>4, <1>10, <2>4 DEF Begins
    <3>2. x < m
      BY <1>2, <1>8, <3>1
    <3>3. x \in Past(l, a, m)
      BY <3>2 DEF Past, S
    <3> QED BY <2>2, <2>4, <3>3
  <2> QED BY <2>2, <2>3, <2>4 DEF Asked
<1> QED BY <1>6, <1>11, <1>12 DEF Ready, S

\* What a script says of the results of the reply that ends at p, from the r-th on.
ResultScript(s, p, c, r) ==
  /\ Len(s) \in Nat /\ Len(s) <= c - r
  /\ \A j \in 1 .. Len(s) : s[j].kind = "tool_call_done" /\ s[j].id = CallId(p, r + j)

\* The turn that follows: the calls that are left, the next step, or none.
ResultThen(t, p, c, r) ==
  \/ t = Idle
  \/ t.at = "boundary" /\ r = c
  \/ /\ t.at = "tools" /\ r < c /\ Len(t.calls) = c - r
     /\ \A j \in 1 .. c - r : t.calls[j] = CallId(p, r + j)

\* Results of calls.
LEMMA ResultsShaped ==
  ASSUME LogOK(log), LogShape(log), NEW p \in Nat, NEW c \in Nat, NEW r \in Nat,
         ToolsOf(turn, log, Active, p, c, r), NEW s, ResultScript(s, p, c, r),
         NEW t, ResultThen(t, p, c, r + Len(s))
  PROVE  ShapedBy(s, t)
<1> DEFINE L == Len(log)
           a == Active
<1>1. L \in Nat /\ DOMAIN log = 1 .. L
  BY SeqIs DEF LogOK
<1>2. Group(log, p, c, r) /\ L = p + c + r /\ r < c /\ log[p].branch = a /\ log[L].branch = a
  BY DEF ToolsOf
<1>3. Len(s) \in Nat /\ Len(s) <= c - r
      /\ \A j \in 1 .. Len(s) : s[j].kind = "tool_call_done" /\ s[j].id = CallId(p, r + j)
  BY DEF ResultScript
<1>4. L \in DOMAIN log /\ ~SessionWide(log[L]) /\ p \in DOMAIN log
  <2>1. p \in DOMAIN log
    BY <1>2 DEF Group
  <2>2. L \in DOMAIN log /\ p <= L
    BY <1>1, <1>2, <2>1
  <2>3. log[L].kind \in Inner
    BY <1>1, <1>2, <2>2, GroupInner
  <2> QED BY <2>1, <2>2, <2>3 DEF Inner, SessionWide
<1> HIDE DEF a
<1> SUFFICES ASSUME NEW k, NEW n, Ran(k, log, a, s, n)
    PROVE  /\ \A j \in 1 .. n : ShapeOK(k, L + j)
           /\ n = Len(s) => TurnShape(t, k, a)
  BY DEF ShapedBy, a
<1> HIDE DEF L
<1>5. /\ n \in 1 .. Len(s) /\ n \in Nat /\ Len(k) = L + n /\ DOMAIN k = 1 .. L + n
      /\ \A j \in 1 .. n : k[L + j] = s[j] /\ ~SessionWide(s[j]) /\ s[j].branch = a
      /\ \A i \in DOMAIN log : k[i] = log[i]
      /\ Grows(k, log) /\ a \in Tree(k) /\ LogOK(k)
  BY DEF Ran, L, Grows
<1>6. \A j \in 1 .. n : k[L + j].kind = "tool_call_done" /\ k[L + j].branch = a
                        /\ k[L + j].id = CallId(p, r + j) /\ ~SessionWide(k[L + j])
  <2>1. \A j \in 1 .. n : j \in 1 .. Len(s)
    BY <1>3, <1>5
  <2> QED BY <1>3, <1>5, <2>1
<1>7. ASSUME NEW j \in 0 .. n PROVE Group(k, p, c, r + j)
  <2>1. Group(k, p, c, r)
    BY <1>2, <1>5, GroupStays
  <2>2. r + j <= c /\ p + c + (r + j) <= Len(k)
    BY <1>1, <1>2, <1>3, <1>5
  <2>3. ASSUME NEW x \in 1 .. r + j
        PROVE  k[p + c + x].kind = "tool_call_done" /\ k[p + c + x].id = CallId(p, x)
    <3>1. CASE x <= r
      <4>1. x \in 1 .. r
        BY <3>1
      <4> QED BY <2>1, <4>1 DEF Group
    <3>2. CASE x > r
      <4> DEFINE y == x - r
      <4>1. y \in 1 .. n /\ p + c + x = L + y /\ x = r + y
        BY <1>1, <1>2, <1>5, <3>2
      <4> HIDE DEF y
      <4> QED BY <1>6, <4>1
    <3> QED BY <3>1, <3>2
  <2> QED BY <2>1, <2>2, <2>3 DEF Group
<1>8. ASSUME NEW j \in 1 .. n PROVE ShapeOK(k, L + j)
  <2>1. (L + j) - 1 \in DOMAIN k
    BY <1>1, <1>4, <1>5
  <2>2. ~SessionWide(k[(L + j) - 1]) /\ k[(L + j) - 1].branch = a
    <3>1. CASE j = 1
      <4>1. (L + j) - 1 = L
        BY <1>1, <3>1
      <4> QED BY <1>2, <1>4, <1>5, <4>1
    <3>2. CASE j # 1
      <4>1. (L + j) - 1 = L + (j - 1) /\ j - 1 \in 1 .. n
        BY <1>1, <1>5, <3>2
      <4> QED BY <1>6, <4>1
    <3> QED BY <3>1, <3>2
  <2>3. \E x, y, z \in Nat : Group(k, x, y, z) /\ y >= 1 /\ L + j = x + y + z
    <3>1. j \in 0 .. n /\ r + j \in Nat /\ L + j = p + c + (r + j) /\ c >= 1
      BY <1>1, <1>2, <1>5
    <3>2. Group(k, p, c, r + j)
      BY <1>7, <3>1
    <3> QED BY <3>1, <3>2
  <2>4. EventShape(k, L + j)
    BY <1>6, <2>1, <2>2, <2>3 DEF EventShape
  <2> QED BY <1>6, <2>4 DEF ShapeOK, AskedOK, Begins, CutOK
<1>9. ASSUME n = Len(s) PROVE TurnShape(t, k, a)
  <2>1. n \in 0 .. n /\ Len(k) = p + c + (r + n) /\ r + n \in Nat /\ n \in 1 .. n
    BY <1>1, <1>2, <1>5
  <2>2. Group(k, p, c, r + n)
    BY <1>7, <2>1
  <2>3. k[p].branch = a /\ k[Len(k)].branch = a
    BY <1>2, <1>4, <1>5, <1>6, <2>1
  <2>4. CASE t = Idle
    BY <2>4, IdleShape
  <2>5. CASE t.at = "boundary"
    <3>1. LogShape(k)
      BY <1>8, RanShape DEF L
    <3>2. Ready(k, SeenOn(k, a))
      <4>1. c >= 1
        BY <1>2
      <4> QED BY <1>5, <2>1, <2>2, <2>3, <3>1, <4>1, GroupReady
    <3> QED BY <2>5, <3>2 DEF TurnShape
  <2>6. CASE /\ t.at = "tools" /\ r + Len(s) < c /\ Len(t.calls) = c - (r + Len(s))
             /\ \A j \in 1 .. c - (r + Len(s)) : t.calls[j] = CallId(p, r + Len(s) + j)
    <3>1. ToolsOf(t, k, a, p, c, r + n)
      BY <1>9, <2>1, <2>2, <2>3, <2>6 DEF ToolsOf
    <3>2. \E x, y, z \in Nat : ToolsOf(t, k, a, x, y, z)
      BY <2>1, <3>1
    <3> QED BY <2>6, <3>2 DEF TurnShape
  <2> QED BY <2>4, <2>5, <2>6 DEF ResultThen
<1> QED BY <1>8, <1>9 DEF L

ConversationIInv == ConversationInv /\ LogShape(log) /\ TurnShape(turn, log, Active)

\* A message.
LEMMA SendKeepsShape ==
  ASSUME ConversationIInv, Send \/ Join
  PROVE  LogShape(log') /\ TurnShape(turn', log', Active')
<1>1. ConversationInv /\ LogOK(log) /\ LogShape(log)
  BY DEF ConversationIInv, ConversationInv
<1>2. ScriptOK(log, Active, UserMessage)
  BY <1>1, UserScript
<1>3. PICK t : t.at = "boundary" /\ Do(UserMessage, t)
  <2>1. Going("boundary", <<>>, FALSE).at = "boundary"
    BY DEF Going
  <2>2. CASE Send
    BY <2>1, <2>2 DEF Send
  <2>3. CASE Join
    BY <2>3 DEF Join, At
  <2> QED BY <2>2, <2>3
<1>4. ShapedBy(UserMessage, t)
  BY <1>1, <1>3, SendShaped
<1> QED BY <1>1, <1>2, <1>3, <1>4, DoShape

\* A compaction.
LEMMA CompactKeepsShape ==
  ASSUME ConversationIInv, CompactMidTurn \/ CompactBetween
  PROVE  LogShape(log') /\ TurnShape(turn', log', Active')
<1>1. ConversationInv /\ LogOK(log) /\ LogShape(log) /\ TurnShape(turn, log, Active)
  BY DEF ConversationIInv, ConversationInv
<1>2. PICK c, t : /\ CompactionOK(c) /\ Do(<<c>>, t) /\ t.at \in {"idle", "request"}
                  /\ t.at = "request" =>
                       /\ Ready(log, SeenOn(log, Active))
                       /\ c.covered + 1 \in SeenOn(log, Active)
                       /\ log[c.covered + 1].kind = "message_started"
  <2>1. CASE CompactMidTurn
    <3>1. PICK keep \in Keeps : /\ Compacted(keep, 1, TRUE).kind # "none"
                                /\ Do(<<Compacted(keep, 1, TRUE)>>, Going("request", <<>>, FALSE))
      BY <2>1 DEF CompactMidTurn
    <3> DEFINE c == Compacted(keep, 1, TRUE)
               t == Going("request", <<>>, FALSE)
    <3>2. keep \in Nat \ {0} /\ 1 \in Nat /\ 1 >= 1
      BY ConversationAssumption
    <3>3. /\ CompactionOK(c)
          /\ c.covered + 1 \in SeenOn(log, Active) /\ log[c.covered + 1].kind = "message_started"
      BY <1>1, <3>1, <3>2, CompactedIs
    <3>4. Ready(log, SeenOn(log, Active))
      BY <1>1, <2>1 DEF CompactMidTurn, At, TurnShape
    <3>5. Do(<<c>>, t) /\ t.at = "request"
      BY <3>1 DEF Going
    <3> HIDE DEF c, t
    <3> QED BY <3>3, <3>4, <3>5
  <2>2. CASE CompactBetween
    <3>1. PICK keep \in Keeps : /\ Compacted(keep, 0, FALSE).kind # "none"
                                /\ Do(<<Compacted(keep, 0, FALSE)>>, Idle)
      BY <2>2 DEF CompactBetween
    <3> DEFINE c == Compacted(keep, 0, FALSE)
    <3>2. keep \in Nat \ {0} /\ 0 \in Nat
      BY ConversationAssumption
    <3>3. CompactionOK(c)
      BY <1>1, <3>1, <3>2, CompactedIs
    <3>4. Do(<<c>>, Idle) /\ Idle.at = "idle"
      BY <3>1 DEF Idle
    <3> HIDE DEF c
    <3> QED BY <3>3, <3>4
  <2> QED BY <2>1, <2>2
<1>3. ScriptOK(log, Active, <<c>>)
  BY <1>2, OneEventScript DEF SessionWide, CompactionOK
<1>4. ShapedBy(<<c>>, t)
  BY <1>1, <1>2, CompactShaped
<1> QED BY <1>1, <1>2, <1>3, <1>4, DoShape

\* A call of the model.
LEMMA CallKeepsShape ==
  ASSUME ConversationIInv, Call
  PROVE  LogShape(log') /\ TurnShape(turn', log', Active')
<1>1. ConversationInv /\ LogOK(log) /\ LogShape(log) /\ Ready(log, SeenOn(log, Active))
  BY DEF ConversationIInv, ConversationInv, TurnShape, Call, At
<1> DEFINE e == Started(NextSeq, "assistant")
           t == Going("reply", <<NextSeq>>, FALSE)
<1>2. Do(<<e>>, t)
  BY DEF Call
<1>3. e.kind = "message_started" /\ e.branch = Active /\ e.id = Len(log) + 1
  BY DEF Started, NextSeq
<1>4. ShapedBy(<<e>>, t)
  BY <1>1, CallShaped
<1> HIDE DEF e, t
<1>5. ScriptOK(log, Active, <<e>>)
  BY <1>3, OneEventScript DEF SessionWide
<1> QED BY <1>1, <1>2, <1>4, <1>5, DoShape

\* What a reply appends.
LEMMA ReplyDoes ==
  ASSUME ConversationInv, Reply
  PROVE  \E c \in Nat : \E s, t : /\ Do(s, t) /\ ScriptOK(log, Active, s) /\ ThenOK(t, log, s)
                                  /\ ReplyScript(s, turn.calls[1], c) /\ ReplyThen(t, c)
<1> DEFINE msg == turn.calls[1]
           ids(n) == [i \in 1 .. n |-> IF Named THEN NextSeq + i ELSE i]
           calls(n) == [i \in 1 .. n |-> [kind |-> "tool_call_started", branch |-> Active,
                                          id |-> ids(n)[i], msg |-> msg]]
           then(n) == IF n = 0 THEN Idle ELSE Going("tools", ids(n), FALSE)
<1>1. PICK n \in 0 .. MaxCalls, full \in BOOLEAN :
        Do(<<Done(msg, "assistant", full)>> \o calls(n), then(n))
  BY DEF Reply
<1>2. /\ msg \in DOMAIN log /\ log[msg].kind = "message_started" /\ log[msg].role = "assistant"
  BY DEF Reply, At, ConversationInv, TurnOK
<1> DEFINE e == Done(msg, "assistant", full)
           f == calls(n)
           g == ids(n)
           s == <<e>> \o f
           t == then(n)
<1>3. /\ e.kind = "message_done" /\ e.branch = Active /\ e.id = msg /\ e.role = "assistant"
      /\ e.full \in BOOLEAN
  BY DEF Done
<1>4. /\ \A i \in 1 .. n : f[i].kind = "tool_call_started" /\ f[i].branch = Active
                           /\ f[i].msg = msg /\ f[i].id = g[i]
      /\ \A i \in 1 .. n : g[i] = CallId(NextSeq, i)
  BY DEF CallId
<1>5. n \in Nat
  OBVIOUS
<1>6. f = [i \in 1 .. n |-> f[i]] /\ g = [i \in 1 .. n |-> g[i]]
  OBVIOUS
<1>7. t = IF n = 0 THEN Idle ELSE Going("tools", g, FALSE)
  OBVIOUS
<1>8. Do(s, t)
  BY <1>1
<1> HIDE DEF e, f, g, s, t, msg
<1>9. /\ IsSeq(s) /\ Len(s) = n + 1 /\ s[1] = e
      /\ \A j \in 2 .. n + 1 : s[j] = f[j - 1]
  <2>1. /\ IsSeq(<<e>> \o f) /\ Len(<<e>> \o f) = n + 1 /\ (<<e>> \o f)[1] = e
        /\ \A j \in 2 .. n + 1 : (<<e>> \o f)[j] = f[j - 1]
    BY <1>5, <1>6, EventThenOthers
  <2> QED BY <2>1 DEF s
<1>10. \A j \in 1 .. n : s[1 + j] = f[j]
  <2>1. \A j \in 1 .. n : 1 + j \in 2 .. n + 1 /\ (1 + j) - 1 = j
    BY <1>5
  <2> QED BY <1>9, <2>1
<1>11. ScriptOK(log, Active, s)
  <2>1. ASSUME NEW j \in 1 .. Len(s)
        PROVE  /\ ~SessionWide(s[j]) /\ s[j].branch = Active /\ s[j].kind # "message_started"
               /\ s[j].kind = "message_done" =>
                    /\ s[j].id \in DOMAIN log /\ log[s[j].id].kind = "message_started"
                    /\ log[s[j].id].role = s[j].role /\ s[j].role # "user"
    <3>1. CASE j = 1
      BY <1>2, <1>3, <1>9, <3>1 DEF SessionWide
    <3>2. CASE j # 1
      <4>1. j \in 2 .. n + 1 /\ j - 1 \in 1 .. n
        BY <1>5, <1>9, <3>2
      <4>2. s[j].kind = "tool_call_started" /\ s[j].branch = Active
        BY <1>4, <1>9, <4>1
      <4> QED BY <4>2 DEF SessionWide
    <3> QED BY <3>1, <3>2
  <2> QED BY <1>9, <2>1 DEF ScriptOK
<1>12. ThenOK(t, log, s) /\ ReplyThen(t, n)
  <2>1. CASE n = 0
    <3>1. t.calls = <<>> /\ t.at = "idle" /\ IsSeq(<<>>)
      BY <1>7, <2>1, IdleOK DEF Idle, TurnOK
    <3> QED BY <1>7, <2>1, <3>1 DEF ThenOK, ReplyThen
  <2>2. CASE n # 0
    <3>1. t.calls = g /\ t.at = "tools"
      BY <1>7, <2>2 DEF Going
    <3>2. IsSeq(g) /\ Len(g) = n
      BY <1>5, <1>6, Listed
    <3>3. g # <<>>
      BY <2>2, <3>2
    <3> QED BY <1>4, <2>2, <3>1, <3>2, <3>3 DEF ThenOK, ReplyThen
  <2> QED BY <2>1, <2>2
<1>13. ReplyScript(s, msg, n)
  <2>1. Len(s) = n + 1 /\ s[1] = e
    BY <1>9
  <2>2. s[1].kind = "message_done" /\ s[1].role = "assistant" /\ s[1].id = msg /\ s[1].full \in BOOLEAN
    BY <1>3, <2>1
  <2>3. \A j \in 1 .. n : s[1 + j].kind = "tool_call_started" /\ s[1 + j].msg = msg
    BY <1>4, <1>10
  <2>4. \A j \in 1 .. n : s[1 + j].id = CallId(NextSeq, j)
    BY <1>4, <1>10
  <2> QED BY <2>1, <2>2, <2>3, <2>4 DEF ReplyScript
<1> HIDE DEF s, t
<1>14. Do(s, t) /\ ScriptOK(log, Active, s) /\ ThenOK(t, log, s) /\ ReplyScript(s, turn.calls[1], n) /\ ReplyThen(t, n)
  BY <1>8, <1>11, <1>12, <1>13 DEF msg
<1>15. n \in Nat
  BY <1>5
<1> QED BY <1>14, <1>15

\* A reply.
LEMMA ReplyKeepsShape ==
  ASSUME ConversationIInv, Reply
  PROVE  LogShape(log') /\ TurnShape(turn', log', Active')
<1>1. ConversationInv /\ LogOK(log) /\ LogShape(log) /\ TurnOK(turn, log) /\ TurnShape(turn, log, Active)
  BY DEF ConversationIInv, ConversationInv
<1>2. /\ turn.calls[1] = Len(log) /\ Begins(log, Len(log), "assistant") /\ log[Len(log)].branch = Active
      /\ Len(log) \in DOMAIN log
  BY <1>1 DEF TurnShape, TurnOK, Reply, At
<1>3. PICK c \in Nat : \E s, t : /\ Do(s, t) /\ ScriptOK(log, Active, s) /\ ThenOK(t, log, s)
                                 /\ ReplyScript(s, turn.calls[1], c) /\ ReplyThen(t, c)
  BY <1>1, ReplyDoes
<1>4. PICK s, t : /\ Do(s, t) /\ ScriptOK(log, Active, s) /\ ThenOK(t, log, s)
                  /\ ReplyScript(s, turn.calls[1], c) /\ ReplyThen(t, c)
  BY <1>3
<1>5. ReplyScript(s, Len(log), c)
  BY <1>2, <1>4
<1>6. ShapedBy(s, t)
  BY <1>1, <1>2, <1>4, <1>5, ReplyShaped
<1> QED BY <1>1, <1>4, <1>6, DoShape

\* The turn t goes on after n of its calls c have their results, or ends.
AfterResults(t, c, n) ==
  \/ t = Idle
  \/ t.at = "boundary" /\ n = Len(c)
  \/ /\ t.at = "tools" /\ n < Len(c) /\ Len(t.calls) = Len(c) - n
     /\ \A j \in 1 .. Len(c) - n : t.calls[j] = c[n + j]

\* s are results of the first of the calls c.
ResultsOf(s, c) ==
  /\ Len(c) \in Nat /\ Len(s) \in Nat /\ Len(s) <= Len(c)
  /\ \A j \in 1 .. Len(s) : s[j].kind = "tool_call_done" /\ s[j].id = c[j]

\* What the tools of a turn append.
LEMMA ToolsDo ==
  ASSUME ConversationInv, ToolDone \/ ToolsInterrupted
  PROVE  \E s, t : /\ Do(s, t) /\ ScriptOK(log, Active, s) /\ ThenOK(t, log, s)
                   /\ ResultsOf(s, turn.calls) /\ AfterResults(t, turn.calls, Len(s))
<1> DEFINE q == turn.calls
<1>1. IsSeq(q) /\ q # <<>>
  BY DEF ConversationInv, TurnOK, ToolDone, ToolsInterrupted, At
<1>2. /\ Len(q) \in Nat /\ Len(q) # 0 /\ DOMAIN q = 1 .. Len(q)
      /\ IsSeq(Tail(q)) /\ Len(Tail(q)) = Len(q) - 1 /\ Head(q) = q[1]
      /\ \A j \in 1 .. Len(q) - 1 : Tail(q)[j] = q[1 + j]
  <2> HIDE DEF q
  <2>1. PICK S : q \in Seq(S)
    BY <1>1 DEF IsSeq
  <2>2. /\ Tail(q) \in Seq(S) /\ Len(Tail(q)) = Len(q) - 1
        /\ Len(q) \in Nat /\ DOMAIN q = 1 .. Len(q)
    BY <1>1, <2>1, HeadTailProperties
  <2>3. Len(q) # 0
    BY <1>1, <2>1
  <2>4. Head(q) = q[1]
    BY <2>1
  <2>5. ASSUME NEW j \in 1 .. Len(q) - 1 PROVE Tail(q)[j] = q[1 + j]
    <3>1. Tail(q)[j] = q[j + 1]
      BY <1>1, <2>1, HeadTailProperties
    <3> QED BY <2>2, <3>1
  <2> QED BY <2>2, <2>3, <2>4, <2>5 DEF IsSeq
<1>3. \A id : LET e == ResultOf(id) IN e.kind = "tool_call_done" /\ e.branch = Active /\ e.id = id
  BY DEF ResultOf
<1>4. CASE ToolDone
  <2> DEFINE e == ResultOf(Head(q))
             s == <<e>>
             t == IF Len(q) = 1 THEN Going("boundary", <<>>, TRUE) ELSE Going("tools", Tail(q), FALSE)
  <2>1. Do(s, t)
    BY <1>4 DEF ToolDone
  <2>2. e.kind = "tool_call_done" /\ e.branch = Active /\ e.id = q[1]
    BY <1>2, <1>3
  <2>3. t = IF Len(q) = 1 THEN Going("boundary", <<>>, TRUE) ELSE Going("tools", Tail(q), FALSE)
    OBVIOUS
  <2>4. Len(s) = 1 /\ s[1] = e
    OBVIOUS
  <2> HIDE DEF e, t
  <2>5. ScriptOK(log, Active, s)
    BY <2>2, OneEventScript DEF SessionWide
  <2> HIDE DEF s, q
  <2>6. ThenOK(t, log, s) /\ AfterResults(t, q, 1)
    <3>1. CASE Len(q) = 1
      <4>1. t = Going("boundary", <<>>, TRUE)
        BY <2>3, <3>1
      <4>2. t.at = "boundary"
        BY <4>1 DEF Going
      <4> QED BY <3>1, <4>1, <4>2, NoCalls DEF AfterResults
    <3>2. CASE Len(q) # 1
      <4>1. t.calls = Tail(q) /\ t.at = "tools"
        BY <2>3, <3>2 DEF Going
      <4> DEFINE w == Tail(q)
      <4>2. Len(w) # 0
        BY <1>2, <3>2
      <4>3. w # <<>>
        <5> HIDE DEF w
        <5> QED BY <4>2
      <4>4. 1 < Len(q)
        BY <1>2, <3>2
      <4> QED BY <1>2, <4>1, <4>3, <4>4 DEF ThenOK, AfterResults
    <3> QED BY <3>1, <3>2
  <2>7. ResultsOf(s, q)
    <3>1. \A j \in 1 .. Len(s) : j = 1
      BY <2>4
    <3> QED BY <1>2, <2>2, <2>4, <3>1 DEF ResultsOf
  <2> QED BY <2>1, <2>4, <2>5, <2>6, <2>7 DEF q
<1>5. CASE ToolsInterrupted
  <2> DEFINE s == [i \in DOMAIN q |-> ResultOf(q[i])]
  <2>1. Do(s, Idle)
    BY <1>5 DEF ToolsInterrupted
  <2>2. /\ s = [i \in 1 .. Len(q) |-> s[i]]
        /\ \A i \in 1 .. Len(q) : s[i].kind = "tool_call_done" /\ s[i].branch = Active /\ s[i].id = q[i]
    BY <1>2, <1>3
  <2> HIDE DEF s
  <2>3. IsSeq(s) /\ Len(s) = Len(q)
    BY <1>2, <2>2, Listed
  <2>4. ScriptOK(log, Active, s)
    BY <2>2, <2>3 DEF ScriptOK, SessionWide
  <2>5. ThenOK(Idle, log, s)
    <3>1. ThenOK(Going("idle", <<>>, FALSE), log, s)
      BY NoCalls
    <3> QED BY <3>1 DEF Going, Idle
  <2>6. AfterResults(Idle, q, Len(s)) /\ ResultsOf(s, q)
    <3> HIDE DEF q
    <3> QED BY <1>2, <2>2, <2>3 DEF AfterResults, ResultsOf
  <2> QED BY <2>1, <2>4, <2>5, <2>6
<1> QED BY <1>4, <1>5

\* Results.
LEMMA ToolsKeepShape ==
  ASSUME ConversationIInv, ToolDone \/ ToolsInterrupted
  PROVE  LogShape(log') /\ TurnShape(turn', log', Active')
<1>1. ConversationInv /\ LogOK(log) /\ LogShape(log) /\ TurnShape(turn, log, Active)
  BY DEF ConversationIInv, ConversationInv
<1>2. PICK p \in Nat : \E c, r \in Nat : ToolsOf(turn, log, Active, p, c, r)
  BY <1>1 DEF TurnShape, ToolDone, ToolsInterrupted, At
<1>3. PICK c \in Nat : \E r \in Nat : ToolsOf(turn, log, Active, p, c, r)
  BY <1>2
<1>4. PICK r \in Nat : ToolsOf(turn, log, Active, p, c, r)
  BY <1>3
<1>5. PICK s, t : /\ Do(s, t) /\ ScriptOK(log, Active, s) /\ ThenOK(t, log, s)
                  /\ ResultsOf(s, turn.calls) /\ AfterResults(t, turn.calls, Len(s))
  BY <1>1, ToolsDo
<1>6. Len(turn.calls) = c - r /\ r < c /\ \A j \in 1 .. c - r : turn.calls[j] = CallId(p, r + j)
  BY <1>4 DEF ToolsOf
<1>7. /\ Len(s) \in Nat /\ Len(s) <= c - r
      /\ \A j \in 1 .. Len(s) : s[j].kind = "tool_call_done" /\ s[j].id = turn.calls[j]
  BY <1>5, <1>6 DEF ResultsOf
<1>8. ResultScript(s, p, c, r)
  <2>1. \A j \in 1 .. Len(s) : j \in 1 .. c - r
    BY <1>6, <1>7
  <2> QED BY <1>6, <1>7, <2>1 DEF ResultScript
<1>9. ResultThen(t, p, c, r + Len(s))
  <2> DEFINE n == Len(s)
  <2>1. (c - r) - n = c - (r + n) /\ (n = c - r => r + n = c) /\ (n < c - r => r + n < c)
    BY <1>7
  <2>2. \A j \in 1 .. c - (r + n) : n + j \in 1 .. c - r /\ r + (n + j) = r + n + j
    BY <1>6, <1>7
  <2>3. CASE t = Idle
    BY <2>3 DEF ResultThen
  <2>4. CASE t.at = "boundary" /\ n = Len(turn.calls)
    BY <1>6, <2>1, <2>4 DEF ResultThen
  <2>5. CASE /\ t.at = "tools" /\ n < Len(turn.calls) /\ Len(t.calls) = Len(turn.calls) - n
             /\ \A j \in 1 .. Len(turn.calls) - n : t.calls[j] = turn.calls[n + j]
    <3>1. Len(t.calls) = c - (r + n) /\ r + n < c
      BY <1>6, <2>1, <2>5
    <3>2. \A j \in 1 .. c - (r + n) : t.calls[j] = turn.calls[n + j]
      BY <1>6, <2>1, <2>5
    <3>3. \A j \in 1 .. c - (r + n) : t.calls[j] = CallId(p, r + n + j)
      BY <1>6, <2>2, <3>2
    <3> HIDE DEF n
    <3> QED BY <2>5, <3>1, <3>3 DEF ResultThen, n
  <2> QED BY <1>5, <2>3, <2>4, <2>5 DEF AfterResults
<1>10. ShapedBy(s, t)
  BY <1>1, <1>4, <1>8, <1>9, ResultsShaped
<1> QED BY <1>1, <1>5, <1>10, DoShape

\* A request is built, or the turn is cut: nothing is appended.
LEMMA NothingReshaped ==
  ASSUME ConversationIInv, Request \/ Cut
  PROVE  LogShape(log') /\ TurnShape(turn', log', Active')
<1>1. LogShape(log) /\ TurnShape(turn, log, Active) /\ log' = log
  BY DEF ConversationIInv, Request, Cut
<1>2. Active' = Active
  BY <1>1 DEF Active, Switched
<1>3. TurnShape(turn', log, Active)
  <2>1. CASE Request
    <3>1. Going("request", <<>>, FALSE).at = "request"
      BY DEF Going
    <3>2. Ready(log, SeenOn(log, Active))
      BY <1>1, <2>1 DEF Request, At, TurnShape
    <3> QED BY <2>1, <3>1, <3>2 DEF Request, TurnShape
  <2>2. CASE Cut
    BY <2>2, IdleShape DEF Cut, CutShort
  <2> QED BY <2>1, <2>2
<1> QED BY <1>1, <1>2, <1>3

\* A list with one more element.
LEMMA OneMore ==
  ASSUME NEW l, IsSeq(l), NEW e
  PROVE  /\ IsSeq(Append(l, e)) /\ Len(Append(l, e)) = Len(l) + 1 /\ Len(l) \in Nat
         /\ DOMAIN Append(l, e) = 1 .. Len(Append(l, e)) /\ DOMAIN l = 1 .. Len(l)
         /\ Append(l, e)[Len(l) + 1] = e /\ \A i \in DOMAIN l : Append(l, e)[i] = l[i]
<1>1. PICK A : l \in Seq(A)
  BY DEF IsSeq
<1> DEFINE S == A \cup {e}
<1>2. Len(l) \in Nat /\ DOMAIN l = 1 .. Len(l) /\ l \in [1 .. Len(l) -> S]
  BY <1>1
<1>3. e \in S
  OBVIOUS
<1> HIDE DEF S
<1>4. l \in Seq(S)
  BY <1>2
<1>5. /\ Append(l, e) \in Seq(S) /\ Len(Append(l, e)) = Len(l) + 1
      /\ Append(l, e)[Len(l) + 1] = e /\ \A i \in 1 .. Len(l) : Append(l, e)[i] = l[i]
  BY <1>2, <1>3, <1>4
<1>6. IsSeq(Append(l, e))
  BY <1>5 DEF IsSeq
<1> QED BY <1>2, <1>5, <1>6, SeqIs

\* Another branch becomes the active one.
LEMMA SwitchKeepsShape ==
  ASSUME ConversationIInv, ConversationInv', NEW b \in Branches, SwitchBranch(b)
  PROVE  LogShape(log') /\ TurnShape(turn', log', Active')
<1> DEFINE e == [kind |-> "branch_switched", branch |-> b, id |-> b]
           k == Append(log, e)
<1>1. LogOK(log) /\ LogShape(log) /\ LogOK(log') /\ log' = k /\ turn' = turn /\ turn.at = "idle"
  BY DEF ConversationIInv, ConversationInv, SwitchBranch, At
<1>2. e.kind = "branch_switched"
  OBVIOUS
<1> HIDE DEF e
<1>3. /\ IsSeq(k) /\ Len(k) = Len(log) + 1 /\ Len(log) \in Nat /\ DOMAIN k = 1 .. Len(k)
      /\ DOMAIN log = 1 .. Len(log) /\ k[Len(log) + 1] = e /\ \A i \in DOMAIN log : k[i] = log[i]
  BY <1>1, OneMore DEF LogOK
<1> HIDE DEF k
<1>6. Extends(k, log) /\ Grows(k, log)
  BY <1>1, <1>3 DEF Extends, Grows
<1>7. \A i \in DOMAIN k : i \notin DOMAIN log => ShapeOK(k, i)
  <2>1. \A i \in DOMAIN k : i \notin DOMAIN log => k[i].kind = "branch_switched"
    BY <1>2, <1>3
  <2> QED BY <2>1 DEF ShapeOK, EventShape, AskedOK, CutOK, Begins, Inner
<1>8. LogShape(k)
  BY <1>1, <1>6, <1>7, LongerShape
<1>9. TurnShape(turn', log', Active')
  BY <1>1 DEF TurnShape
<1> QED BY <1>1, <1>8, <1>9

\* The log after a fork, position by position.
LEMMA ForkGrows ==
  ASSUME NEW k, NEW l, NEW s, NEW n, NEW p, NEW f, Forked(k, l, s, n, p, f)
  PROVE  /\ Grows(k, l) /\ Len(l) \in Nat /\ DOMAIN l = 1 .. Len(l) /\ DOMAIN k = 1 .. Len(l) + n
         /\ n \in 1 .. Len(s) /\ Len(s) \in 1 .. 4 /\ \A i \in DOMAIN l : k[i] = l[i]
         /\ \A j \in 1 .. n : k[Len(l) + j] = s[j]
<1>1. LogOK(l) /\ IsSeq(l) /\ IsSeq(s) /\ n \in 1 .. Len(s) /\ k = l \o SubSeq(s, 1, n) /\ Len(s) <= 4
  BY DEF Forked, LogOK, ForkScriptOK
<1>2. /\ IsSeq(k) /\ Len(k) = Len(l) + n /\ Extends(k, l)
      /\ \A j \in 1 .. n : k[Len(l) + j] = s[j]
  BY <1>1, Appended
<1>3. Grows(k, l)
  BY <1>1, <1>2, ForkAppended DEF Grows
<1>4. Len(l) \in Nat /\ DOMAIN l = 1 .. Len(l) /\ DOMAIN k = 1 .. Len(l) + n /\ Len(s) \in Nat
  BY <1>1, <1>2, SeqIs
<1>5. Len(s) \in 1 .. 4
  <2>1. n \in 1 .. Len(s) /\ Len(s) <= 4 /\ Len(s) \in Nat
    BY <1>1, <1>4
  <2> DEFINE z == Len(s)
  <2>2. n \in 1 .. z /\ z <= 4 /\ z \in Nat
    BY <2>1
  <2> HIDE DEF z
  <2>3. z \in 1 .. 4
    BY <2>2
  <2> QED BY <2>3 DEF z
<1>6. n \in 1 .. Len(s) /\ \A i \in DOMAIN l : k[i] = l[i]
  BY <1>1, <1>2 DEF Extends
<1> QED BY <1>2, <1>3, <1>4, <1>5, <1>6

\* A fork's events have their shape.
LEMMA ForkShaped ==
  ASSUME NEW k, NEW l, NEW s, NEW n, NEW p, NEW f, Forked(k, l, s, n, p, f), LogShape(l)
  PROVE  LogShape(k)
<1> DEFINE L == Len(l)
<1>1. /\ Grows(k, l) /\ L \in Nat /\ DOMAIN l = 1 .. L /\ DOMAIN k = 1 .. L + n
      /\ n \in 1 .. Len(s) /\ Len(s) \in 1 .. 4 /\ \A j \in 1 .. n : k[L + j] = s[j]
  BY ForkGrows
<1>2. /\ s[1].kind = "branch_created" /\ Len(s) > 1 /\ s[2].kind = "branch_switched"
      /\ Len(s) > 2 => s[3].kind = "message_started" /\ s[3].branch = L + 1 /\ s[3].role = "user"
      /\ Len(s) > 3 => /\ s[4].kind = "message_done" /\ s[4].branch = L + 1 /\ s[4].id = (L + 1) + 2
                       /\ s[4].role = "user" /\ s[4].full = TRUE
  BY DEF Forked, ForkScriptOK
<1> HIDE DEF L
<1>3. ASSUME NEW j \in 1 .. n PROVE ShapeOK(k, L + j)
  <2>1. j \in 1 .. 4 /\ j <= Len(s) /\ k[L + j] = s[j]
    BY <1>1
  <2>2. CASE j = 1 \/ j = 2
    <3>1. k[L + j].kind \in {"branch_created", "branch_switched"}
      BY <1>2, <2>1, <2>2
    <3> QED BY <3>1 DEF ShapeOK, EventShape, AskedOK, CutOK, Begins, Inner
  <2>3. CASE j = 3
    <3>1. Len(s) > 2
      BY <1>1, <2>1, <2>3
    <3>2. k[L + j].kind = "message_started" /\ k[L + j].role = "user"
      BY <1>2, <2>1, <2>3, <3>1
    <3> QED BY <3>2 DEF ShapeOK, EventShape, AskedOK, CutOK, Begins, Inner
  <2>4. CASE j = 4
    <3>1. Len(s) > 3 /\ Len(s) > 2 /\ 3 \in 1 .. n
      BY <1>1, <2>1, <2>4
    <3>2. /\ k[L + 4].kind = "message_done" /\ k[L + 4].branch = L + 1 /\ k[L + 4].id = (L + 1) + 2
          /\ k[L + 4].role = "user" /\ k[L + 4].full = TRUE
          /\ k[L + 3].kind = "message_started" /\ k[L + 3].branch = L + 1
      BY <1>1, <1>2, <2>1, <2>4, <3>1
    <3>3. (L + 4) - 1 = L + 3 /\ (L + 1) + 2 = L + 3 /\ L + 3 \in DOMAIN k
      BY <1>1, <3>1
    <3> DEFINE i == L + 4
               h == L + 3
    <3>4. /\ k[i].kind = "message_done" /\ k[i].branch = k[h].branch /\ k[i].id = h
          /\ k[i].role = "user" /\ k[i].full = TRUE /\ k[h].kind = "message_started"
          /\ i - 1 = h /\ h \in DOMAIN k
      BY <3>2, <3>3
    <3> HIDE DEF i, h
    <3>5. ShapeOK(k, i)
      BY <3>4 DEF ShapeOK, EventShape, AskedOK, CutOK, Begins, Inner, SessionWide
    <3> QED BY <2>4, <3>5 DEF i
  <2> QED BY <2>1, <2>2, <2>3, <2>4
<1>4. \A i \in DOMAIN k : i \notin DOMAIN l => i - L \in 1 .. n /\ i = L + (i - L)
  BY <1>1
<1>5. \A i \in DOMAIN k : i \notin DOMAIN l => ShapeOK(k, i)
  BY <1>3, <1>4
<1> QED BY <1>1, <1>5, LongerShape

\* The highest of some numbers.
LEMMA TopIs ==
  ASSUME NEW S \in SUBSET Nat, NEW h \in S, \A s \in S : s <= h
  PROVE  Highest(S) = h
<1>1. S # {} /\ \E s \in S : \A t \in S : t <= s
  OBVIOUS
<1>2. Highest(S) \in S /\ \A t \in S : t <= Highest(S)
  BY <1>1 DEF Highest
<1>3. Highest(S) <= h /\ h <= Highest(S) /\ h \in Nat /\ Highest(S) \in Nat
  BY <1>2
<1> QED BY <1>3

\* The turn that a fork begins works on the message it forks after, or on the edited one.
LEMMA ForkReady ==
  ASSUME NEW k, NEW l, NEW s, NEW n, NEW p, NEW f, Forked(k, l, s, n, p, f), LogShape(l), n = Len(s),
         NEW m \in DOMAIN l, NEW edit \in BOOLEAN, Len(s) = IF edit THEN 4 ELSE 2,
         ~edit => /\ f = m + 1 /\ {m, m + 1} \subseteq SeenOn(l, p)
                  /\ l[m].kind = "message_started" /\ l[m].role = "user"
                  /\ l[m + 1].kind = "message_done"
  PROVE  Ready(k, SeenOn(k, Len(l) + 1))
<1> DEFINE L == Len(l)
           S == SeenOn(k, L + 1)
<1>1. /\ Grows(k, l) /\ L \in Nat /\ DOMAIN l = 1 .. L
      /\ \A i \in DOMAIN l : k[i] = l[i] /\ \A j \in 1 .. n : k[L + j] = s[j]
  BY ForkGrows
<1>2. LogOK(k) /\ LogOK(l)
  BY <1>1 DEF Grows
<1>3. S = UpToFork(l, p, f) \cup Begun(l, n)
  BY ForkAppended
<1>4. S \in SUBSET DOMAIN k /\ \A c \in S : ShapeOK(k, c)
  BY <1>2, SeenIs, ForkShaped DEF LogShape
<1>5. SeenOn(l, p) \subseteq DOMAIN l
  BY <1>2, SeenIs
<1>6. CASE edit
  <2> DEFINE u == L + 3
  <2>1. n = 4 /\ Len(s) = 4
    BY <1>6
  <2>2. s[3].kind = "message_started" /\ s[3].role = "user" /\ s[4].kind = "message_done"
    BY <2>1 DEF Forked, ForkScriptOK
  <2>3. Begun(l, n) = {L + 3, L + 4}
    <3>1. Begun(l, n) = {L + 2 + j : j \in 1 .. 2}
      BY <2>1 DEF Begun
    <3>2. L + 2 + 1 = L + 3 /\ L + 2 + 2 = L + 4 /\ 1 .. 2 = {1, 2}
      BY <1>1
    <3> QED BY <3>1, <3>2
  <2>4. u + 1 = L + 4 /\ \A i \in 1 .. L : i <= u + 1
    BY <1>1
  <2>5. u \in S /\ u + 1 \in S /\ \A x \in S : x <= u + 1
    <3>1. u <= u + 1 /\ u + 1 <= u + 1
      BY <1>1
    <3>2. \A x \in UpToFork(l, p, f) : x <= u + 1
      BY <1>1, <1>5, <2>4 DEF UpToFork
    <3> QED BY <1>3, <2>3, <2>4, <3>1, <3>2
  <2>6. Begins(k, u, "user") /\ k[u + 1].kind = "message_done"
    <3>1. 3 \in 1 .. n /\ 4 \in 1 .. n
      BY <2>1
    <3>2. k[L + 3] = s[3] /\ k[L + 4] = s[4]
      BY <1>1, <3>1
    <3> QED BY <2>2, <2>4, <3>2 DEF Begins
  <2> HIDE DEF u, S
  <2> QED BY <1>2, <1>4, <2>5, <2>6, UserReady DEF S
<1>7. CASE ~edit
  <2>1. n = 2
    BY <1>7
  <2>2. Begun(l, n) = {}
    <3>1. Begun(l, n) = {L + 2 + j : j \in 1 .. 0}
      BY <2>1 DEF Begun
    <3>2. 1 .. 0 = {}
      OBVIOUS
    <3> QED BY <3>1, <3>2
  <2>3. S = {i \in SeenOn(l, p) : i <= m + 1}
    BY <1>3, <1>7, <2>2 DEF UpToFork
  <2>4. m \in S /\ m + 1 \in S /\ \A x \in S : x <= m + 1
    BY <1>1, <1>7, <2>3
  <2>5. m \in DOMAIN l /\ m + 1 \in DOMAIN l
    BY <1>5, <1>7
  <2>6. Begins(k, m, "user") /\ k[m + 1].kind = "message_done"
    BY <1>1, <1>7, <2>5 DEF Begins
  <2> HIDE DEF S
  <2> QED BY <1>2, <1>4, <2>4, <2>6, UserReady DEF S
<1> QED BY <1>6, <1>7

\* A fork or an edit.
LEMMA ForkKeepsShape ==
  ASSUME ConversationIInv, ConversationInv', NEW m \in DOMAIN log, NEW edit \in BOOLEAN, Fork(m, edit)
  PROVE  LogShape(log') /\ TurnShape(turn', log', Active')
<1> DEFINE L == Len(log)
           p == log[m].branch
           f == ForkSeq(m, edit)
           k == log'
<1>1. ConversationInv /\ LogOK(log) /\ LogShape(log) /\ OnPath(m) /\ LogOK(k)
  BY DEF ConversationIInv, ConversationInv, Fork
<1>2. ~edit => /\ f = m + 1 /\ {m, m + 1} \subseteq SeenOn(log, p)
               /\ log[m].kind = "message_started" /\ log[m].role = "user"
               /\ log[m + 1].kind = "message_done"
  BY <1>1, ForkIs
<1>3. PICK s, n : /\ Forked(log', log, s, n, p, f) /\ Len(s) = IF edit THEN 4 ELSE 2
                  /\ turn' = Idle \/ (turn' = Going("boundary", <<>>, FALSE) /\ n = Len(s))
  BY <1>1, ForkDoes
<1> HIDE DEF p, f
<1>4. Forked(k, log, s, n, p, f)
  BY <1>3
<1> HIDE DEF k
<1>5. LogShape(k)
  BY <1>1, <1>4, ForkShaped
<1>6. /\ Len(log) \in Nat /\ DOMAIN log = 1 .. Len(log) /\ DOMAIN k = 1 .. Len(log) + n
      /\ Len(s) \in 1 .. 4 /\ \A j \in 1 .. n : k[Len(log) + j] = s[j]
  BY <1>4, ForkGrows
<1>7. ASSUME n = Len(s) PROVE Active' = L + 1
  <2>1. /\ L \in Nat /\ DOMAIN log = 1 .. L /\ DOMAIN k = 1 .. L + n /\ n \in 1 .. 4 /\ n > 1
        /\ \A j \in 1 .. n : k[L + j] = s[j]
    <3>1. Len(s) > 1
      BY <1>4 DEF Forked, ForkScriptOK
    <3>2. /\ L \in Nat /\ DOMAIN log = 1 .. L /\ DOMAIN k = 1 .. L + n
          /\ Len(s) \in 1 .. 4 /\ \A j \in 1 .. n : k[L + j] = s[j]
      BY <1>6
    <3>3. n \in 1 .. 4 /\ n > 1
      <4> DEFINE q == Len(s)
      <4>1. n = q /\ q > 1 /\ q \in 1 .. 4
        BY <1>7, <3>1, <3>2
      <4> HIDE DEF q
      <4> QED BY <4>1
    <3> HIDE DEF L
    <3> QED BY <3>2, <3>3
  <2>2. /\ s[2].kind = "branch_switched" /\ s[2].id = L + 1
        /\ Len(s) > 2 => s[3].kind = "message_started"
        /\ Len(s) > 3 => s[4].kind = "message_done"
    BY <1>4 DEF Forked, ForkScriptOK
  <2> HIDE DEF L
  <2> DEFINE S == {i \in DOMAIN k : k[i].kind = "branch_switched"}
  <2>3. S \in SUBSET Nat /\ L + 2 \in S
    <3>1. 2 \in 1 .. n /\ L + 2 \in DOMAIN k
      BY <2>1
    <3> QED BY <2>1, <2>2, <3>1
  <2>4. \A i \in S : i <= L + 2
    <3> SUFFICES ASSUME NEW i \in DOMAIN k, k[i].kind = "branch_switched", i > L + 2 PROVE FALSE
      BY <2>1
    <3>1. (i = L + 3 /\ 3 \in 1 .. n /\ n > 2) \/ (i = L + 4 /\ 4 \in 1 .. n /\ n > 3)
      BY <2>1
    <3> QED BY <1>7, <2>1, <2>2, <3>1
  <2> HIDE DEF S
  <2>5. Highest(S) = L + 2
    BY <2>3, <2>4, TopIs
  <2>6. Switched' = S
    BY DEF Switched, S, k
  <2>7. Active' = k[L + 2].id
    BY <2>3, <2>5, <2>6 DEF Active, k
  <2>8. 2 \in 1 .. n
    BY <2>1
  <2> QED BY <2>1, <2>2, <2>7, <2>8
<1>8. TurnShape(turn', k, Active')
  <2>1. CASE turn' = Idle
    BY <2>1, IdleShape
  <2>2. CASE turn' = Going("boundary", <<>>, FALSE) /\ n = Len(s)
    <3>1. Ready(k, SeenOn(k, L + 1))
      BY <1>1, <1>2, <1>3, <1>4, <2>2, ForkReady
    <3>2. turn'.at = "boundary"
      BY <2>2 DEF Going
    <3>3. Active' = L + 1
      BY <1>7, <2>2
    <3> QED BY <3>1, <3>2, <3>3 DEF TurnShape
  <2> QED BY <1>3, <2>1, <2>2
<1> QED BY <1>5, <1>8 DEF k

\* The invariant holds at the start.
LEMMA ConversationStarts == ConversationInit => ConversationInv
  <1> SUFFICES ASSUME ConversationInit PROVE ConversationInv
    OBVIOUS
  <1>1. log = <<>> /\ turn = Idle /\ told = [b \in {Root} |-> <<>>]
    BY DEF ConversationInit
  <1>2. IsSeq(log) /\ Len(log) = 0 /\ DOMAIN log = {}
    <2>1. log \in Seq({})
      BY <1>1
    <2> QED BY <1>1, <2>1 DEF IsSeq
  <1>3. LogOK(log)
    BY <1>2, ConversationAssumption DEF LogOK
  <1>4. Tree(log) = {Root} /\ \A b : SeenOn(log, b) = {}
    BY <1>2 DEF Tree, SeenOn
  <1>5. Enumerates(<<>>, {})
    BY DEF Enumerates
  <1>6. ToldOK(told, log)
    BY <1>1, <1>4, <1>5 DEF ToldOK
  <1> QED BY <1>1, <1>3, <1>6, IdleOK DEF ConversationInv

\* Each step keeps it.
LEMMA ConversationGoesOn ==
  ASSUME ConversationInv, [ConversationNext]_conversationVars
  PROVE  ConversationInv'
<1>1. CASE Send \/ Join
  BY <1>1, SendKeeps
<1>2. CASE Request \/ Cut
  BY <1>2, NothingAppended
<1>3. CASE CompactMidTurn \/ CompactBetween
  BY <1>3, CompactKeeps
<1>4. CASE Call
  BY <1>4, CallKeeps
<1>5. CASE Reply
  BY <1>5, ReplyKeeps
<1>6. CASE ToolDone \/ ToolsInterrupted
  BY <1>6, ToolsKeep
<1>7. CASE \E m \in DOMAIN log, edit \in BOOLEAN : Fork(m, edit)
  BY <1>7, ForkKeeps
<1>8. CASE \E b \in Branches : SwitchBranch(b)
  BY <1>8, SwitchKeeps
<1>9. CASE UNCHANGED conversationVars
  BY <1>9 DEF conversationVars, ConversationInv
<1> QED BY <1>1, <1>2, <1>3, <1>4, <1>5, <1>6, <1>7, <1>8, <1>9 DEF ConversationNext

\* So does the log's shape, and the turn's.
LEMMA ShapeStarts == ConversationInit => ConversationIInv
<1> SUFFICES ASSUME ConversationInit PROVE ConversationIInv
  OBVIOUS
<1>1. ConversationInv
  BY ConversationStarts
<1>2. LogShape(log)
  <2>1. DOMAIN log = {}
    BY DEF ConversationInit
  <2> QED BY <2>1 DEF LogShape
<1>3. TurnShape(turn, log, Active)
  BY IdleShape DEF ConversationInit
<1> QED BY <1>1, <1>2, <1>3 DEF ConversationIInv

\* Every step keeps the invariant.
LEMMA ShapeGoesOn ==
  ASSUME ConversationIInv, [ConversationNext]_conversationVars
  PROVE  ConversationIInv'
<1>1. ConversationInv'
  BY ConversationGoesOn DEF ConversationIInv
<1>2. LogShape(log') /\ TurnShape(turn', log', Active')
  <2>1. CASE Send \/ Join
    BY <2>1, SendKeepsShape
  <2>2. CASE Request \/ Cut
    BY <2>2, NothingReshaped
  <2>3. CASE CompactMidTurn \/ CompactBetween
    BY <2>3, CompactKeepsShape
  <2>4. CASE Call
    BY <2>4, CallKeepsShape
  <2>5. CASE Reply
    BY <2>5, ReplyKeepsShape
  <2>6. CASE ToolDone \/ ToolsInterrupted
    BY <2>6, ToolsKeepShape
  <2>7. CASE \E m \in DOMAIN log, edit \in BOOLEAN : Fork(m, edit)
    BY <1>1, <2>7, ForkKeepsShape
  <2>8. CASE \E b \in Branches : SwitchBranch(b)
    BY <1>1, <2>8, SwitchKeepsShape
  <2>9. CASE UNCHANGED conversationVars
    <3>1. log' = log /\ turn' = turn
      BY <2>9 DEF conversationVars
    <3>2. Active' = Active
      BY <3>1 DEF Active, Switched
    <3>3. LogShape(log) /\ TurnShape(turn, log, Active)
      BY DEF ConversationIInv
    <3> QED BY <3>1, <3>2, <3>3
  <2> QED BY <2>1, <2>2, <2>3, <2>4, <2>5, <2>6, <2>7, <2>8, <2>9 DEF ConversationNext
<1> QED BY <1>1, <1>2 DEF ConversationIInv

\* The request of a model call and the summary in it hold what was told.
LEMMA RequestTells ==
  ASSUME ConversationIInv
  PROVE  Contents(ActiveContext) \cup LastCompaction(OnBranch(Active)).sums = Said(Active)
<1> DEFINE P == OnBranch(Active)
           c == LastCompaction(P)
           n == Len(log)
           S == ContextEvents(P, c)
<1>1. LogOK(log) /\ LogShape(log) /\ ToldOK(told, log) /\ Len(log) \in Nat /\ DOMAIN log = 1 .. Len(log)
  BY SeqIs DEF ConversationIInv, ConversationInv, LogOK
<1>2. P = SeenOn(log, Active) /\ Active \in Tree(log)
  BY <1>1, ActiveIs, PathIsSeen
<1>3. PathOK(log, P)
  BY <1>1, <1>2, BranchIsPath
<1>4. P \subseteq DOMAIN log /\ Closed(log, P)
  BY <1>3 DEF PathOK
<1>5. {told[Active][k] : k \in DOMAIN told[Active]} = P
  <2>1. Enumerates(told[Active], P)
    BY <1>1, <1>2 DEF ToldOK
  <2> HIDE DEF P
  <2> QED BY <2>1 DEF Enumerates
<1> HIDE DEF P
<1>6. UpTo(P, n) = P
  BY <1>1, <1>4 DEF UpTo
<1>7. CutOf(c, log, P) /\ c.covered <= n
  <2>1. CutOf(c, log, P)
    BY <1>1, <1>3, LastCompactionIs
  <2>2. CASE c.kind = "none"
    <3>1. c = NoCompaction
      BY <1>1, <1>3, <2>2, LastCompactionIs
    <3>2. c.covered = 0
      BY <3>1 DEF NoCompaction
    <3> QED BY <1>1, <2>1, <3>2
  <2>3. CASE c.kind # "none"
    <3>1. PICK i \in P : log[i].kind = "compaction_done" /\ c = log[i]
      BY <1>1, <1>3, <2>3, LastCompactionIs
    <3>2. 1 <= log[i].covered /\ log[i].covered < i /\ log[i].covered \in Nat
      BY <1>3, <3>1 DEF PathOK, PathCuts, CutOf
    <3>3. i <= n /\ i \in Nat
      BY <1>1, <1>4
    <3>4. log[i].covered <= n
      BY <1>1, <3>2, <3>3
    <3> QED BY <2>1, <3>1, <3>4
  <2> QED BY <2>2, <2>3
<1> HIDE DEF c, n
<1>8. n \in Nat
  BY <1>1 DEF n
<1>9. Told(log, S) \cup c.sums = Told(log, P)
  <2>1. Told(log, ContextEvents(UpTo(P, n), c)) \cup c.sums = Told(log, UpTo(P, n))
    BY <1>1, <1>3, <1>7, <1>8, ContextTells
  <2> QED BY <1>6, <2>1
<1>10. S \subseteq DOMAIN log /\ Closed(log, S)
  <2>1. LET Q == UpTo(P, n)
            T == ContextEvents(Q, c)
        IN T \subseteq DOMAIN log /\ Closed(log, T)
    BY <1>1, <1>3, <1>7, <1>8, ContextIs
  <2> QED BY <1>6, <2>1
<1>11. Contents(BuildMessages(S)) = Told(log, S) /\ Contents(BuildMessages(P)) = Told(log, P)
  <2> HIDE DEF S
  <2> QED BY <1>1, <1>4, <1>10, BuildTells
<1>12. ActiveContext = BuildMessages(S)
  BY DEF ActiveContext, Context, S, c, P
<1>13. Said(Active) = Contents(BuildMessages(P))
  BY <1>5 DEF Said
<1> QED BY <1>9, <1>11, <1>12, <1>13 DEF c, P

------------------------------------------------------------------------------
(* The events of a request *)

\* Each reply of S comes after a complete user message of S.
Opened(l, S) ==
  \A s \in S : Begins(l, s, "assistant") =>
    \E u \in S : Begins(l, u, "user") /\ u + 1 \in S /\ l[u + 1].kind = "message_done" /\ u + 1 < s

RequestOK(S) ==
  S \subseteq DOMAIN log /\ Closed(log, S) /\ Opened(log, S) /\ \E s \in S : LastTurn(log, S, s)

\* A reply after the cut has its user message there, or it works on the last one before the cut.
LEMMA CutOpens ==
  ASSUME LogOK(log), LogShape(log), NEW P, PathOK(log, P), NEW c, CutOf(c, log, P), c.kind # "none",
         NEW s \in ContextEvents(P, c), Begins(log, s, "assistant")
  PROVE  \E u \in ContextEvents(P, c) :
           /\ Begins(log, u, "user") /\ u + 1 \in ContextEvents(P, c)
           /\ log[u + 1].kind = "message_done" /\ u + 1 < s
<1> DEFINE v == c.covered
           kept == After(P, v)
           older == UpTo(P, v)
           users == Starts(older, "user")
           begin == Starts(kept, "user") \cup Starts(kept, "assistant")
           inTurn == \E x \in Starts(kept, "assistant") : \A t \in begin : x <= t
           request == Highest(users)
           R == {i \in older : log[i].kind \in {"message_started", "message_done"} /\ log[i].id = request}
           S == ContextEvents(P, c)
<1>1. S = IF inTurn THEN kept \cup R ELSE kept
  BY DEF ContextEvents
<1>2. Len(log) \in Nat /\ DOMAIN log = 1 .. Len(log) /\ P \subseteq DOMAIN log /\ v \in Nat
  BY SeqIs DEF LogOK, PathOK, CutOf
<1>3. \A i \in P : i \in Nat /\ i \in DOMAIN log /\ ShapeOK(log, i) /\ EventOK(log, i)
  BY <1>2 DEF LogShape, LogOK
<1>4. /\ \A i \in kept : i \in P /\ i > v
      /\ \A i \in older : i \in P /\ i <= v
      /\ \A i \in P : i \in kept \/ i \in older
      /\ \A i \in P : i > v => i \in kept
  BY <1>2, <1>3 DEF After, UpTo
<1>5. users \in SUBSET DOMAIN log /\ \A u \in users : u \in older /\ Begins(log, u, "user")
  BY <1>3, <1>4 DEF Starts, Begins
<1>6. begin \subseteq kept /\ \A t \in kept : Begins(log, t, "user") \/ Begins(log, t, "assistant") => t \in begin
  BY DEF Starts, Begins
<1>7. \A t \in begin : (Begins(log, t, "user") \/ t \in Starts(kept, "assistant")) /\ t \in Nat
  BY <1>3, <1>4, <1>6 DEF Starts, Begins
<1> HIDE DEF kept, older, begin, users, v
<1>8. s \in kept
  <2> SUFFICES ASSUME s \notin kept PROVE FALSE
    OBVIOUS
  <2>7. s \in S
    OBVIOUS
  <2>1. s \in R
    <3> HIDE DEF S, R, inTurn
    <3> QED BY <1>1, <2>7
  <2>2. s \in P /\ log[s].id = request /\ log[s].kind = "message_started"
    BY <1>4, <2>1 DEF Begins
  <2>3. s = request /\ s # 0
    BY <1>2, <1>3, <2>2 DEF EventOK
  <2>4. users # {} => request \in users
    BY <1>5, HighestOf
  <2>5. users = {} => request = 0
    BY <1>5, HighestOf
  <2>6. Begins(log, s, "user")
    BY <1>5, <2>3, <2>4, <2>5
  <2> QED BY <2>6 DEF Begins
<1>9. PICK u \in {j \in P : j < s} :
        /\ Begins(log, u, "user") /\ u + 1 \in {j \in P : j < s} /\ log[u + 1].kind = "message_done"
        /\ \A x \in {j \in P : j < s} : Begins(log, x, "user") => x <= u
  <2>1. Asked(log, {j \in P : j < s})
    BY <1>4, <1>8 DEF PathOK, PathAsked
  <2> QED BY <2>1 DEF Asked
<1>10. /\ u \in P /\ u + 1 \in P /\ u < s /\ u + 1 < s /\ u \in Nat /\ s \in Nat /\ s > v
       /\ \A x \in P : x < s /\ Begins(log, x, "user") => x <= u
  BY <1>3, <1>4, <1>8, <1>9
<1>11. CASE u \in kept
  <2>1. u + 1 \in kept
    BY <1>2, <1>4, <1>10, <1>11
  <2> QED BY <1>1, <1>9, <1>10, <1>11, <2>1
<1>12. CASE u \notin kept
  <2>1. u \in older /\ u <= v
    BY <1>4, <1>10, <1>12
  <2>2. inTurn
    <3>1. s \in begin
      BY <1>6, <1>8
    <3>2. begin \in SUBSET Nat /\ begin # {}
      BY <1>7, <3>1
    <3>3. PICK t \in begin : \A y \in begin : t <= y
      BY <3>2, LeastOf
    <3>4. ~Begins(log, t, "user")
      <4> SUFFICES ASSUME Begins(log, t, "user") PROVE FALSE
        OBVIOUS
      <4>1. t \in P /\ t > v /\ t <= s /\ t \in Nat
        BY <1>4, <1>6, <1>7, <3>1, <3>3
      <4>2. t # s
        BY DEF Begins
      <4>3. t < s /\ t > u
        BY <1>2, <1>10, <2>1, <4>1, <4>2
      <4>4. t <= u
        BY <1>10, <4>1, <4>3
      <4> QED BY <1>10, <4>1, <4>3, <4>4
    <3>5. t \in Starts(kept, "assistant")
      BY <1>7, <3>4
    <3> QED BY <3>3, <3>5
  <2>3. request = u
    <3>1. u \in users
      BY <1>9, <2>1 DEF users, Starts, Begins
    <3>2. \A x \in users : x <= u
      <4> SUFFICES ASSUME NEW x \in users PROVE x <= u
        OBVIOUS
      <4>1. x \in P /\ x <= v /\ x \in Nat /\ Begins(log, x, "user")
        BY <1>3, <1>4, <1>5
      <4>2. x < s
        BY <1>2, <1>10, <4>1
      <4> QED BY <1>10, <4>1, <4>2
    <3>3. users \in SUBSET Nat
      BY <1>3, <1>4, <1>5
    <3> QED BY <3>1, <3>2, <3>3, TopIs
  <2>4. u + 1 \in older
    <3>1. log[u + 1].kind \in Inner
      BY <1>9 DEF Inner
    <3>2. u + 1 # v + 1
      BY <1>10, <3>1 DEF CutOf, v
    <3>3. u + 1 <= v
      BY <1>2, <1>10, <2>1, <3>2
    <3>4. ~(u + 1 > v)
      BY <1>2, <1>10, <3>3
    <3> QED BY <1>4, <1>10, <3>4
  <2>5. u \in R /\ u + 1 \in R
    <3>1. log[u].id = u /\ log[u].kind = "message_started"
      BY <1>3, <1>9, <1>10 DEF EventOK, Begins
    <3>2. log[u + 1].id = (u + 1) - 1
      BY <1>3, <1>9, <1>10 DEF ShapeOK, EventShape
    <3>3. (u + 1) - 1 = u
      BY <1>10
    <3> QED BY <1>9, <2>1, <2>3, <2>4, <3>1, <3>2, <3>3
  <2> QED BY <1>1, <1>9, <1>10, <2>2, <2>5
<1> QED BY <1>11, <1>12

\* The context of a turn that is ready.
LEMMA ContextOpens ==
  ASSUME LogOK(log), LogShape(log), NEW P, PathOK(log, P), Ready(log, P)
  PROVE  RequestOK(ContextEvents(P, LastCompaction(P)))
<1> DEFINE c == LastCompaction(P)
           S == ContextEvents(P, c)
           n == Len(log)
<1>1. Len(log) \in Nat /\ DOMAIN log = 1 .. Len(log) /\ P \subseteq DOMAIN log
  BY SeqIs DEF LogOK, PathOK
<1>2. CutOf(c, log, P) /\ (c.kind # "none" => \E i \in P : log[i].kind = "compaction_done" /\ c = log[i])
  BY LastCompactionIs
<1> HIDE DEF c
<1>3. S \subseteq DOMAIN log /\ Closed(log, S) /\ After(P, c.covered) \subseteq S /\ S \subseteq P
  <2>1. UpTo(P, n) = P /\ n \in Nat
    BY <1>1 DEF UpTo
  <2> HIDE DEF n
  <2>2. LET Q == UpTo(P, n)
            T == ContextEvents(Q, c)
        IN /\ T \subseteq DOMAIN log /\ Closed(log, T) /\ After(Q, c.covered) \subseteq T /\ T \subseteq Q
    BY <1>2, <2>1, ContextIs
  <2> QED BY <2>1, <2>2
<1>4. PICK s \in P : LastTurn(log, P, s)
  BY DEF Ready
<1>5. CASE c.kind = "none"
  <2>1. S = P
    BY <1>5 DEF ContextEvents
  <2>2. Opened(log, P)
    <3> SUFFICES ASSUME NEW x \in P, Begins(log, x, "assistant")
                 PROVE  \E u \in P : /\ Begins(log, u, "user") /\ u + 1 \in P
                                     /\ log[u + 1].kind = "message_done" /\ u + 1 < x
      BY DEF Opened
    <3>1. Asked(log, {j \in P : j < x})
      BY DEF PathOK, PathAsked
    <3> QED BY <3>1 DEF Asked
  <2>3. RequestOK(P)
    <3>1. P \subseteq DOMAIN log /\ Closed(log, P)
      BY DEF PathOK
    <3> QED BY <1>4, <2>2, <3>1 DEF RequestOK
  <2> QED BY <2>1, <2>3 DEF c
<1>6. CASE c.kind # "none"
  <2>1. c.covered < s
    BY <1>2, <1>4, <1>6 DEF LastTurn
  <2>2. c.covered \in Nat /\ s \in Nat /\ s \in P /\ s + 1 \in P
    BY <1>1, <1>2, <1>4 DEF CutOf, LastTurn
  <2>3. s > c.covered /\ s + 1 > c.covered /\ s + 2 > c.covered
    BY <2>1, <2>2
  <2>4. \A x \in P : x > c.covered => x \in S
    BY <1>3 DEF After
  <2>5. LastTurn(log, S, s)
    BY <1>3, <1>4, <2>2, <2>3, <2>4 DEF LastTurn
  <2>6. Opened(log, S)
    BY <1>2, <1>6, CutOpens DEF Opened
  <2>7. s \in S
    BY <2>2, <2>3, <2>4
  <2>8. RequestOK(S)
    <3> HIDE DEF S
    <3> QED BY <1>3, <2>5, <2>6, <2>7 DEF RequestOK
  <2> QED BY <2>8 DEF c
<1> QED BY <1>5, <1>6 DEF c

------------------------------------------------------------------------------
(* What is built is a valid conversation *)

\* The message that ends at d is followed by k calls, of which r have a result.
Run(d, k, r) ==
  /\ r <= k /\ d \in DOMAIN log /\ d + k + r <= Len(log) /\ log[d].kind = "message_done"
  /\ log[d].role \in {"user", "assistant"} /\ log[d].id = d - 1
  /\ IF log[d].role = "assistant" THEN Group(log, d, k, r) ELSE k = 0

\* The kinds of a group's events.
LEMMA GroupKinds ==
  ASSUME NEW p \in Nat, NEW k \in Nat, NEW r \in Nat, Group(log, p, k, r), NEW i \in Nat
  PROVE  /\ i = p => log[i].kind = "message_done" /\ log[i].role = "assistant"
         /\ p < i /\ i <= p + k => log[i].kind = "tool_call_started"
         /\ p + k < i /\ i <= p + k + r => log[i].kind = "tool_call_done"
<1>1. i = p => log[i].kind = "message_done" /\ log[i].role = "assistant"
  BY DEF Group
<1>2. ASSUME p < i, i <= p + k PROVE log[i].kind = "tool_call_started"
  <2>1. i - p \in 1 .. k /\ p + (i - p) = i
    BY <1>2
  <2>2. \A j \in 1 .. k : log[p + j].kind = "tool_call_started"
    BY DEF Group
  <2>3. log[p + (i - p)].kind = "tool_call_started"
    BY <2>1, <2>2
  <2> QED BY <2>1, <2>3
<1>3. ASSUME p + k < i, i <= p + k + r PROVE log[i].kind = "tool_call_done"
  <2>1. i - (p + k) \in 1 .. r /\ p + k + (i - (p + k)) = i
    BY <1>3
  <2>2. \A j \in 1 .. r : log[p + k + j].kind = "tool_call_done"
    BY DEF Group
  <2>3. log[p + k + (i - (p + k))].kind = "tool_call_done"
    BY <2>1, <2>2
  <2> QED BY <2>1, <2>3
<1> QED BY <1>1, <1>2, <1>3

\* n comes right after such a run, and is the last event of a reply's group.
Follows(n, d, k, r) == Run(d, k, r) /\ n = d + k + r + 1
EndsGroup(n, p, c, s) == Group(log, p, c, s) /\ c >= 1 /\ n = p + c + s

\* The group is that of the run, with one more call or one more result.
ContinuesRun(d, k, r, p, c, s) ==
  p = d /\ log[d].role = "assistant" /\ ((s = 0 /\ r = 0 /\ c = k + 1) \/ (c = k /\ s = r + 1))

\* The call or the result that comes next is of the reply before it.
LEMMA NextInGroup ==
  ASSUME NEW d \in Nat, NEW k \in Nat, NEW r \in Nat,
         NEW p \in Nat, NEW c \in Nat, NEW s \in Nat, NEW n,
         Follows(n, d, k, r), EndsGroup(n, p, c, s)
  PROVE  ContinuesRun(d, k, r, p, c, s)
<1> SUFFICES p = d /\ log[d].role = "assistant" /\ ((s = 0 /\ r = 0 /\ c = k + 1) \/ (c = k /\ s = r + 1))
  BY DEF ContinuesRun
<1> DEFINE IsCall(i) == log[i].kind = "tool_call_started"
           IsResult(i) == log[i].kind = "tool_call_done"
           IsMessage(i) == log[i].kind = "message_done"
<1>0. Run(d, k, r) /\ Group(log, p, c, s) /\ c >= 1 /\ d + k + r + 1 = p + c + s
  BY DEF Follows, EndsGroup
<1>1. \A i \in Nat : (i = p => IsMessage(i) /\ log[i].role = "assistant") /\ (p < i /\ i <= p + c => IsCall(i))
                     /\ (p + c < i /\ i <= p + c + s => IsResult(i))
  BY <1>0, GroupKinds
<1>2. s <= c /\ r <= k /\ IsMessage(d)
  BY <1>0 DEF Group, Run
<1>3. CASE log[d].role # "assistant"
  <2>1. k = 0 /\ r = 0
    BY <1>0, <1>2, <1>3 DEF Run
  <2>2. p <= d /\ d <= p + c + s
    BY <1>0, <2>1
  <2>3. p # d
    BY <1>1, <1>3
  <2>4. IsCall(d) \/ IsResult(d)
    BY <1>1, <2>2, <2>3
  <2> QED BY <1>2, <2>4
<1>4. CASE log[d].role = "assistant"
  <2>1. \A i \in Nat : (i = d => IsMessage(i)) /\ (d < i /\ i <= d + k => IsCall(i))
                       /\ (d + k < i /\ i <= d + k + r => IsResult(i))
    <3>1. Group(log, d, k, r)
      BY <1>0, <1>4 DEF Run
    <3> QED BY <3>1, GroupKinds
  <2>2. \A i \in Nat : ~(IsCall(i) /\ IsResult(i)) /\ ~(IsCall(i) /\ IsMessage(i)) /\ ~(IsResult(i) /\ IsMessage(i))
    OBVIOUS
  <2> HIDE DEF IsCall, IsResult, IsMessage
  <2>3. p = d
    <3>1. ~(d < p)
      <4> SUFFICES ASSUME d < p PROVE FALSE
        OBVIOUS
      <4>1. p <= d + k + r
        BY <1>0, <1>2
      <4> QED BY <1>1, <2>1, <2>2, <4>1
    <3>2. ~(p < d)
      <4> SUFFICES ASSUME p < d PROVE FALSE
        OBVIOUS
      <4>1. d <= p + c + s
        BY <1>0
      <4> QED BY <1>1, <1>2, <2>2, <4>1
    <3> QED BY <3>1, <3>2
  <2>4. CASE s = 0
    <3>1. r = 0
      <4> SUFFICES ASSUME r # 0 PROVE FALSE
        OBVIOUS
      <4>1. d + k + r \in Nat /\ IsResult(d + k + r)
        BY <2>1
      <4>2. d + k + r <= p + c /\ p < d + k + r
        BY <1>0, <2>3, <2>4
      <4> QED BY <1>1, <2>2, <4>1, <4>2
    <3> QED BY <1>0, <2>3, <2>4, <3>1, <1>4
  <2>5. CASE s # 0
    <3>1. ~(k < c)
      <4> SUFFICES ASSUME k < c PROVE FALSE
        OBVIOUS
      <4>1. r # 0
        BY <1>0, <1>2, <2>3, <2>5
      <4>2. d + k + 1 \in Nat /\ d + k + 1 <= d + k + r /\ d + k < d + k + 1
            /\ d + k + 1 <= p + c /\ p < d + k + 1
        BY <1>0, <2>3, <4>1
      <4> QED BY <1>1, <2>1, <2>2, <4>2
    <3>2. ~(c < k)
      <4> SUFFICES ASSUME c < k PROVE FALSE
        OBVIOUS
      <4>1. d + c + 1 \in Nat /\ d + c + 1 <= d + k /\ d < d + c + 1
            /\ d + c + 1 <= p + c + s /\ p + c < d + c + 1
        BY <1>0, <2>3, <2>5
      <4> QED BY <1>1, <2>1, <2>2, <4>1
    <3> QED BY <1>0, <2>3, <3>1, <3>2, <1>4
  <2> QED BY <2>4, <2>5
<1> QED BY <1>3, <1>4

\* Of the first b messages, each reply's calls are followed by their results,
\* and each result is one of them.
Good(msgs, b) ==
  \A i \in 1 .. b :
    /\ msgs[i].role = "assistant" =>
         /\ i + Len(msgs[i].calls) <= b
         /\ \A j \in 1 .. Len(msgs[i].calls) : msgs[i + j].role = "tool" /\ msgs[i + j].id = msgs[i].calls[j]
    /\ msgs[i].role = "tool" => \E a \in 1 .. i - 1 : msgs[a].role = "assistant" /\ i <= a + Len(msgs[a].calls)

\* The last message built is that of d, in place a; of its k calls r are answered.
LastBuilt(acc, d, k, r, a) ==
  /\ a >= 1 /\ Len(acc.msgs) = a + r /\ acc.msgs[1].role = "user" /\ Good(acc.msgs, a - 1)
  /\ acc.msgs[a].role = log[d].role /\ acc.msgs[a].id = d - 1 /\ acc.msgs[a].calls = acc.pending
  /\ Len(acc.pending) = k /\ \A j \in 1 .. k : acc.pending[j] = d + j /\ (d + j \in acc.done <=> j <= r)
  /\ \A j \in 1 .. r : acc.msgs[a + j].role = "tool" /\ acc.msgs[a + j].id = d + j
  /\ \A c \in acc.done : c <= d + k + r

\* The messages are good so far, and begin with a user's.
GoodSoFar(msgs) == msgs # <<>> /\ msgs[1].role = "user" /\ Good(msgs, Len(msgs))

\* The places that Flush answers, one after the other.
LEMMA InARow ==
  ASSUME NEW r \in Nat, NEW k \in Nat, r <= k, NEW at, Enumerates(at, (r + 1) .. k)
  PROVE  Len(at) = k - r /\ \A j \in 1 .. k - r : at[j] = r + j
<1> DEFINE m == k - r
           t == [j \in 1 .. m |-> r + j]
<1>1. m \in Nat /\ r + m = k
  OBVIOUS
<1> HIDE DEF m
<1>2. t \in Seq(Nat) /\ Len(t) = m /\ DOMAIN t = 1 .. m
  BY <1>1, SequenceOf
<1>3. \A j \in 1 .. m : t[j] = r + j
  OBVIOUS
<1> HIDE DEF t
<1>4. Enumerates(t, (r + 1) .. k)
  <2>1. \A i, j \in 1 .. m : i < j => t[i] < t[j]
    BY <1>1, <1>3
  <2>2. \A i \in 1 .. m : t[i] \in (r + 1) .. k
    BY <1>1, <1>3
  <2>3. \A x \in (r + 1) .. k : x - r \in 1 .. m /\ t[x - r] = x
    BY <1>1, <1>3
  <2> QED BY <1>2, <2>1, <2>2, <2>3 DEF Enumerates
<1>5. at = t
  BY <1>4, OneOrder
<1> QED BY <1>2, <1>3, <1>5 DEF m

\* The calls of a message, typed.
LEMMA MessageIs ==
  ASSUME NEW msgs \in Seq(Message)
  PROVE  /\ Len(msgs) \in Nat /\ DOMAIN msgs = 1 .. Len(msgs)
         /\ \A i \in 1 .. Len(msgs) : msgs[i] \in Message /\ Len(msgs[i].calls) \in Nat
<1>1. Len(msgs) \in Nat /\ DOMAIN msgs = 1 .. Len(msgs) /\ \A i \in 1 .. Len(msgs) : msgs[i] \in Message
  OBVIOUS
<1>2. \A m \in Message : m.calls \in Seq(Nat)
  BY DEF Message
<1>3. \A i \in 1 .. Len(msgs) : msgs[i].calls \in Seq(Nat)
  BY <1>1, <1>2
<1>4. \A c \in Seq(Nat) : Len(c) \in Nat
  OBVIOUS
<1> QED BY <1>1, <1>3, <1>4

\* What is good stays good while its messages stay.
LEMMA GoodStays ==
  ASSUME NEW msgs \in Seq(Message), NEW b \in Nat, b <= Len(msgs), NEW w, \A i \in 1 .. b : w[i] = msgs[i], Good(msgs, b)
  PROVE  Good(w, b)
<1> SUFFICES ASSUME NEW i \in 1 .. b
             PROVE  /\ w[i].role = "assistant" =>
                         /\ i + Len(w[i].calls) <= b
                         /\ \A j \in 1 .. Len(w[i].calls) : w[i + j].role = "tool" /\ w[i + j].id = w[i].calls[j]
                    /\ w[i].role = "tool" =>
                         \E a \in 1 .. i - 1 : w[a].role = "assistant" /\ i <= a + Len(w[a].calls)
  BY DEF Good
<1> DEFINE z == Len(msgs[i].calls)
<1>1. w[i] = msgs[i]
  OBVIOUS
<1>2. msgs[i].role = "assistant" =>
        i + z <= b /\ \A j \in 1 .. z : msgs[i + j].role = "tool" /\ msgs[i + j].id = msgs[i].calls[j]
  BY DEF Good
<1>3. ASSUME w[i].role = "assistant", NEW j \in 1 .. z
      PROVE  w[i + j] = msgs[i + j]
  <2>1. i + z <= b
    BY <1>1, <1>2, <1>3
  <2>2. z \in Nat
    <3>1. i \in 1 .. Len(msgs)
      BY MessageIs
    <3> QED BY <3>1, MessageIs
  <2> HIDE DEF z
  <2>3. i + j \in 1 .. b
    BY <2>1, <2>2
  <2> QED BY <2>3
<1>4. ASSUME w[i].role = "tool" PROVE \E a \in 1 .. i - 1 : w[a].role = "assistant" /\ i <= a + Len(w[a].calls)
  <2>1. PICK a \in 1 .. i - 1 : msgs[a].role = "assistant" /\ i <= a + Len(msgs[a].calls)
    BY <1>1, <1>4 DEF Good
  <2>2. a \in 1 .. b
    OBVIOUS
  <2> QED BY <2>1, <2>2
<1> QED BY <1>1, <1>2, <1>3, <1>4

\* The calls that are pending are answered, and the messages are good.
LEMMA FlushGood ==
  ASSUME NEW acc \in Acc, NEW d \in Nat, NEW k \in Nat, NEW r \in Nat, NEW a \in Nat,
         Run(d, k, r), LastBuilt(acc, d, k, r, a)
  PROVE  /\ GoodSoFar(Flush(acc).msgs) /\ Len(Flush(acc).msgs) = a + k
         /\ k = 0 => Flush(acc).msgs[a + k].role = log[d].role
         /\ k # 0 => Flush(acc).msgs[a + k].role = "tool"
<1> DEFINE F == Flush(acc)
           M == acc.msgs
           w == F.msgs
<1>1. /\ a >= 1 /\ Len(M) = a + r /\ M[1].role = "user" /\ Good(M, a - 1)
      /\ M[a].role = log[d].role /\ M[a].calls = acc.pending
      /\ Len(acc.pending) = k /\ \A j \in 1 .. k : acc.pending[j] = d + j /\ (d + j \in acc.done <=> j <= r)
      /\ \A j \in 1 .. r : M[a + j].role = "tool" /\ M[a + j].id = d + j
  BY DEF LastBuilt
<1>2. r <= k /\ (k # 0 => log[d].role = "assistant") /\ log[d].role \in {"user", "assistant"}
  BY DEF Run
<1>3. PICK at : FlushedBy(at, F, acc)
  BY FlushIs
<1>4. DOMAIN acc.pending = 1 .. k
  <2>1. acc.pending \in Seq(Nat)
    BY DEF Acc
  <2> QED BY <1>1, <2>1
<1>5. Unanswered(acc) = (r + 1) .. k
  <2>1. \A i \in 1 .. k : acc.pending[i] \notin acc.done <=> ~(i <= r)
    BY <1>1
  <2>2. \A i : i \in (r + 1) .. k <=> i \in 1 .. k /\ ~(i <= r)
    OBVIOUS
  <2> QED BY <1>4, <2>1, <2>2 DEF Unanswered
<1>6. Len(at) = k - r /\ \A j \in 1 .. k - r : at[j] = r + j
  <2>1. Enumerates(at, (r + 1) .. k)
    BY <1>3, <1>5 DEF FlushedBy
  <2> QED BY <1>2, <2>1, InARow
<1> HIDE DEF F
<1>7. /\ Len(w) = a + r + (k - r) /\ \A i \in 1 .. a + r : w[i] = M[i]
      /\ \A j \in 1 .. k - r : w[a + r + j] = Entry("tool", acc.pending[r + j], TRUE)
  <2>1. /\ Len(w) = Len(M) + Len(at) /\ \A i \in 1 .. Len(M) : w[i] = M[i]
        /\ \A j \in 1 .. Len(at) : w[Len(M) + j] = Entry("tool", acc.pending[at[j]], TRUE)
    BY <1>3 DEF FlushedBy
  <2>2. Len(M) = a + r
    BY <1>1
  <2> HIDE DEF w, M
  <2>3. /\ Len(w) = a + r + (k - r) /\ \A i \in 1 .. a + r : w[i] = M[i]
        /\ \A j \in 1 .. k - r : w[a + r + j] = Entry("tool", acc.pending[at[j]], TRUE)
    BY <1>6, <2>1, <2>2
  <2> QED BY <1>6, <2>3
<1> HIDE DEF w, M
<1>8. Len(w) = a + k
  BY <1>2, <1>7
<1>9. \A i \in 1 .. a : w[i] = M[i]
  BY <1>7
<1>10. ASSUME NEW j \in 1 .. k PROVE w[a + j].role = "tool" /\ w[a + j].id = d + j
  <2>1. CASE j <= r
    <3>1. j \in 1 .. r /\ a + j \in 1 .. a + r
      BY <2>1
    <3> QED BY <1>1, <1>7, <3>1
  <2>2. CASE ~(j <= r)
    <3>1. j - r \in 1 .. k - r /\ a + r + (j - r) = a + j /\ r + (j - r) = j
      BY <2>2
    <3>2. w[a + j] = Entry("tool", acc.pending[j], TRUE)
      BY <1>7, <3>1
    <3>3. acc.pending[j] = d + j
      BY <1>1
    <3> QED BY <3>2, <3>3 DEF Entry
  <2> QED BY <2>1, <2>2
<1>16. M \in Seq(Message)
  BY DEF Acc, M
<1>11. Good(w, a - 1)
  <2>1. a - 1 \in Nat /\ \A i \in 1 .. a - 1 : i \in 1 .. a
    BY <1>1
  <2>2. a - 1 <= Len(M)
    BY <1>1
  <2> QED BY <1>1, <1>9, <1>16, <2>1, <2>2, GoodStays
<1>12. Good(w, a + k)
  <2> SUFFICES ASSUME NEW i \in 1 .. a + k
               PROVE  /\ w[i].role = "assistant" =>
                           /\ i + Len(w[i].calls) <= a + k
                           /\ \A j \in 1 .. Len(w[i].calls) :
                                w[i + j].role = "tool" /\ w[i + j].id = w[i].calls[j]
                      /\ w[i].role = "tool" =>
                           \E x \in 1 .. i - 1 : w[x].role = "assistant" /\ i <= x + Len(w[x].calls)
    BY DEF Good
  <2>1. CASE i < a
    <3>1. i \in 1 .. a - 1
      BY <2>1
    <3> DEFINE z == Len(w[i].calls)
    <3>2. /\ w[i].role = "assistant" =>
               /\ i + z <= a - 1
               /\ \A j \in 1 .. z : w[i + j].role = "tool" /\ w[i + j].id = w[i].calls[j]
          /\ w[i].role = "tool" => \E x \in 1 .. i - 1 : w[x].role = "assistant" /\ i <= x + Len(w[x].calls)
      BY <1>11, <3>1 DEF Good
    <3>4. z \in Nat
      <4>1. i \in 1 .. a /\ i \in 1 .. a + r
        BY <2>1
      <4>2. w[i] = M[i] /\ Len(M[i].calls) \in Nat
        BY <1>1, <1>9, <1>16, <4>1, MessageIs
      <4> QED BY <4>2
    <3>3. i + z <= a - 1 => i + z <= a + k
      <4> HIDE DEF z
      <4> QED BY <3>4
    <3>5. w[i].role = "assistant" =>
            i + z <= a + k /\ \A j \in 1 .. z : w[i + j].role = "tool" /\ w[i + j].id = w[i].calls[j]
      <4> HIDE DEF z
      <4> QED BY <3>2, <3>3
    <3>6. w[i].role = "tool" => \E x \in 1 .. i - 1 : w[x].role = "assistant" /\ i <= x + Len(w[x].calls)
      BY <3>2
    <3> QED BY <3>5, <3>6
  <2>2. CASE i = a
    <3>4. a \in 1 .. a
      BY <1>1
    <3>5. w[a] = M[a]
      BY <1>9, <3>4
    <3>1. w[a] = M[a] /\ w[a].calls = acc.pending /\ Len(w[a].calls) = k
      BY <1>1, <3>5
    <3>2. w[a].role # "tool"
      BY <1>1, <1>2, <3>1
    <3>3. \A j \in 1 .. k : w[a].calls[j] = d + j
      BY <1>1, <3>1
    <3> QED BY <1>10, <2>2, <3>1, <3>2, <3>3
  <2>3. CASE i > a
    <3>1. i - a \in 1 .. k /\ a + (i - a) = i /\ k # 0
      BY <2>3
    <3>2. w[i].role = "tool"
      BY <1>10, <3>1
    <3>3. w[a] = M[a] /\ a \in 1 .. i - 1
      BY <1>1, <1>9, <2>3
    <3>4. w[a].role = "assistant" /\ Len(w[a].calls) = k
      BY <1>1, <1>2, <3>1, <3>3
    <3> QED BY <3>2, <3>3, <3>4
  <2> QED BY <2>1, <2>2, <2>3
<1>13. w[1].role = "user" /\ w # <<>>
  <2>1. 1 \in 1 .. a
    BY <1>1
  <2>2. Len(w) # 0
    BY <1>1, <1>8
  <2>3. w # <<>>
    <3>1. Len(<<>>) = 0
      OBVIOUS
    <3> QED BY <2>2, <3>1
  <2> QED BY <1>1, <1>9, <2>1, <2>3
<1>14. CASE k = 0
  <2>1. a + k = a /\ a \in 1 .. a
    BY <1>1, <1>14
  <2>2. w[a + k].role = log[d].role
    BY <1>1, <1>9, <2>1
  <2> QED BY <1>8, <1>12, <1>13, <1>14, <2>2 DEF GoodSoFar, w, F
<1>15. CASE k # 0
  <2>1. k \in 1 .. k
    BY <1>15
  <2>2. w[a + k].role = "tool"
    BY <1>10, <2>1
  <2> QED BY <1>8, <1>12, <1>13, <1>15, <2>2 DEF GoodSoFar, w, F
<1> QED BY <1>14, <1>15

\* One more at the end.
LEMMA AppendIs ==
  ASSUME NEW X, NEW s \in Seq(X), NEW x \in X
  PROVE  /\ Append(s, x) \in Seq(X) /\ Len(s) \in Nat /\ Len(Append(s, x)) = Len(s) + 1
         /\ \A i \in 1 .. Len(s) : Append(s, x)[i] = s[i]
         /\ Append(s, x)[Len(s) + 1] = x
OBVIOUS

\* With no messages and no calls pending, Flush leaves none.
LEMMA FlushNothing ==
  ASSUME NEW acc \in Acc, acc.msgs = <<>>, acc.pending = <<>>
  PROVE  Len(Flush(acc).msgs) = 0
<1> DEFINE F == Flush(acc)
<1>1. PICK at : FlushedBy(at, F, acc)
  BY FlushIs
<1> HIDE DEF F
<1>2. Unanswered(acc) = {} /\ Len(acc.msgs) = 0
  BY DEF Unanswered
<1>3. Len(at) = 0
  <2>1. Len(at) \in Nat /\ ~(Len(at) >= 1)
    <3>1. \A j \in 1 .. Len(at) : at[j] \in Unanswered(acc)
      BY <1>1 DEF FlushedBy, Enumerates
    <3>2. Len(at) \in Nat
      BY <1>1 DEF FlushedBy
    <3>3. Len(at) >= 1 => 1 \in 1 .. Len(at)
      BY <3>2
    <3> QED BY <1>2, <3>1, <3>2, <3>3
  <2> QED BY <2>1
<1> QED BY <1>1, <1>2, <1>3 DEF FlushedBy, F

\* A message is built after what is good so far.
LEMMA MessageBuilds ==
  ASSUME NEW acc \in Acc, NEW n \in DOMAIN log, n \in Nat, log[n].kind = "message_done",
         EventIs(log[n]), log[n].id \in acc.known, log[n].id = n - 1,
         NEW z, z = Len(Flush(acc).msgs),
         IF z = 0 THEN log[n].role = "user" ELSE GoodSoFar(Flush(acc).msgs),
         \A c \in acc.done : c <= n
  PROVE  LastBuilt(Build(acc, log[n]), n, 0, 0, z + 1)
<1> DEFINE F == Flush(acc)
           B == Build(acc, log[n])
           e == log[n]
           M == F.msgs
           m == Entry(e.role, e.id, e.full)
           w == Append(M, m)
<1>1. F \in Acc /\ F.pending = <<>> /\ F.done = acc.done
  BY FlushIs
<1>2. m \in Message /\ m.role = e.role /\ m.id = n - 1 /\ m.calls = <<>>
  <2>1. <<>> \in Seq(Nat)
    OBVIOUS
  <2> QED BY <2>1 DEF EventIs, Entry, Message
<1>3. B = [F EXCEPT !.msgs = w]
  BY DEF Build
<1> HIDE DEF F, m
<1>4. M \in Seq(Message)
  BY <1>1 DEF Acc
<1>5. z = Len(M)
  BY DEF F
<1>6. B.msgs = w /\ B.pending = <<>> /\ B.done = acc.done
  BY <1>1, <1>3 DEF Acc
<1> HIDE DEF B, e
<1>7. z \in Nat /\ Len(w) = z + 1 /\ w[z + 1] = m /\ \A i \in 1 .. z : w[i] = M[i]
  <2> HIDE DEF M
  <2> QED BY <1>2, <1>4, <1>5, AppendIs
<1>8. w[1].role = "user" /\ Good(w, z)
  <2>1. CASE z = 0
    <3>1. w[1].role = "user"
      BY <1>2, <1>7, <2>1 DEF e
    <3> HIDE DEF w
    <3> QED BY <2>1, <3>1 DEF Good
  <2>2. CASE z # 0
    <3>1. GoodSoFar(M)
      BY <2>2 DEF F
    <3> HIDE DEF w, M
    <3>2. 1 \in 1 .. z /\ M[1].role = "user" /\ Good(M, z)
      BY <1>5, <1>7, <2>2, <3>1 DEF GoodSoFar
    <3>3. w[1] = M[1]
      BY <1>7, <3>2
    <3>4. z <= Len(M)
      BY <1>5, <1>7
    <3>5. Good(w, z)
      BY <1>4, <1>7, <3>2, <3>4, GoodStays
    <3> QED BY <3>2, <3>3, <3>5
  <2> QED BY <2>1, <2>2
<1> HIDE DEF w
<1>9. Len(B.pending) = 0
  BY <1>6
<1>10. z + 1 >= 1 /\ Len(B.msgs) = z + 1 + 0 /\ z + 1 - 1 = z
  BY <1>6, <1>7
<1>11. B.msgs[z + 1].role = log[n].role /\ B.msgs[z + 1].id = n - 1 /\ B.msgs[z + 1].calls = B.pending
  BY <1>2, <1>6, <1>7 DEF e
<1>12. \A c \in B.done : c <= n + 0 + 0
  BY <1>6
<1>13. B.msgs[1].role = "user" /\ Good(B.msgs, z + 1 - 1)
  BY <1>6, <1>8, <1>10
<1> QED BY <1>9, <1>10, <1>11, <1>12, <1>13 DEF LastBuilt, B

\* The next call of the last reply.
LEMMA CallBuilds ==
  ASSUME NEW acc \in Acc, NEW n, log[n].kind = "tool_call_started",
         NEW d \in Nat, NEW k \in Nat, NEW a \in Nat, LastBuilt(acc, d, k, 0, a),
         log[d].role = "assistant", log[n].msg = d - 1, log[n].id = d + k + 1
  PROVE  LastBuilt(Build(acc, log[n]), d, k + 1, 0, a)
<1> DEFINE B == Build(acc, log[n])
           e == log[n]
           M == acc.msgs
           at == {i \in DOMAIN M : M[i].role = "assistant" /\ M[i].id = e.msg}
           c == d + k + 1
           w == [M EXCEPT ![a].calls = Append(@, c)]
<1>1. /\ a >= 1 /\ Len(M) = a /\ M[1].role = "user" /\ Good(M, a - 1)
      /\ M[a].role = "assistant" /\ M[a].id = d - 1 /\ M[a].calls = acc.pending
      /\ \A x \in acc.done : x <= d + k
  BY DEF LastBuilt
<1>13. Len(acc.pending) = k /\ \A j \in 1 .. k : acc.pending[j] = d + j /\ (d + j \in acc.done <=> j <= 0)
  BY DEF LastBuilt
<1>2. M \in Seq(Message) /\ acc.pending \in Seq(Nat) /\ c \in Nat
  BY DEF Acc
<1> HIDE DEF M
<1>3. DOMAIN M = 1 .. a /\ a \in DOMAIN M
  BY <1>1, <1>2
<1>4. at \in SUBSET Nat /\ a \in at /\ \A s \in at : s <= a
  BY <1>1, <1>3
<1>5. at # {} /\ Highest(at) = a
  <2> HIDE DEF at
  <2> QED BY <1>4, TopIs
<1>6. B = [acc EXCEPT !.msgs = w, !.pending = Append(acc.pending, c)]
  <2> HIDE DEF at
  <2>1. B = [acc EXCEPT !.msgs[Highest(at)].calls = Append(@, e.id), !.pending = Append(@, e.id)]
    BY <1>5 DEF Build, at, M
  <2>2. B = [acc EXCEPT !.msgs[a].calls = Append(@, c), !.pending = Append(@, c)]
    BY <1>5, <2>1
  <2> QED BY <2>2 DEF M
<1> HIDE DEF B, c
<1>7. /\ Len(w) = Len(M) /\ \A i \in DOMAIN M : i # a => w[i] = M[i]
      /\ w[a].role = "assistant" /\ w[a].id = M[a].id /\ w[a].calls = Append(M[a].calls, c)
  <2>1. M[a].role = "assistant"
    BY <1>1
  <2> QED BY <1>2, <1>3, <2>1, CalledIs
<1> HIDE DEF w
<1>8. B.msgs = w /\ B.pending = Append(acc.pending, c) /\ B.done = acc.done
  BY <1>6 DEF Acc
<1>9. Good(w, a - 1)
  <2>1. a - 1 \in Nat /\ a - 1 <= Len(M) /\ \A i \in 1 .. a - 1 : i \in DOMAIN M /\ i # a
    BY <1>1, <1>3
  <2>2. \A i \in 1 .. a - 1 : w[i] = M[i]
    BY <1>7, <2>1
  <2>3. Good(M, a - 1)
    BY <1>1
  <2> QED BY <1>2, <2>1, <2>2, <2>3, GoodStays
<1>10. w[1].role = "user"
  <2>1. 1 \in DOMAIN M /\ 1 # a
    BY <1>1, <1>3
  <2>2. w[1] = M[1]
    BY <1>7, <2>1
  <2> QED BY <1>1, <2>2
<1>11. /\ Len(B.pending) = k + 1
       /\ \A j \in 1 .. k + 1 : B.pending[j] = d + j /\ (d + j \in B.done <=> j <= 0)
  <2> DEFINE p == acc.pending
             q == Len(p)
             v == Append(p, c)
  <2>1. q = k /\ \A j \in 1 .. k : p[j] = d + j /\ (d + j \in acc.done <=> j <= 0)
    BY <1>13
  <2>2. p \in Seq(Nat)
    BY <1>2
  <2> HIDE DEF p, q
  <2>3. Len(v) = q + 1 /\ v[q + 1] = c /\ \A i \in 1 .. q : v[i] = p[i]
    BY <1>2, <2>2, AppendIs DEF q
  <2> HIDE DEF v
  <2>4. c \notin acc.done
    BY <1>1 DEF c
  <2>5. \A j \in 1 .. k + 1 : j \in 1 .. k \/ j = k + 1
    OBVIOUS
  <2>6. \A j \in 1 .. k + 1 : v[j] = d + j /\ (d + j \in acc.done <=> j <= 0)
    <3>1. v[k + 1] = d + (k + 1) /\ d + (k + 1) \notin acc.done /\ ~(k + 1 <= 0)
      BY <2>1, <2>3, <2>4 DEF c
    <3>2. \A j \in 1 .. k : v[j] = d + j /\ (d + j \in acc.done <=> j <= 0)
      BY <2>1, <2>3
    <3> QED BY <2>5, <3>1, <3>2
  <2>7. B.pending = v
    BY <1>8 DEF v, p
  <2> QED BY <1>8, <2>1, <2>3, <2>6, <2>7
<1>12. Len(B.msgs) = a + 0 /\ (\A x \in B.done : x <= d + (k + 1) + 0)
  <2>1. \A x \in acc.done : x \in Nat /\ x <= d + k
    BY <1>1 DEF Acc
  <2>2. \A x \in Nat : x <= d + k => x <= d + (k + 1) + 0
    OBVIOUS
  <2> QED BY <1>1, <1>7, <1>8, <2>1, <2>2
<1>14. B.msgs[a].role = log[d].role /\ B.msgs[a].id = d - 1 /\ B.msgs[a].calls = B.pending
  BY <1>1, <1>7, <1>8
<1>15. a >= 1 /\ B.msgs[1].role = "user" /\ Good(B.msgs, a - 1)
  BY <1>1, <1>8, <1>9, <1>10
<1>16. \A j \in 1 .. 0 : B.msgs[a + j].role = "tool" /\ B.msgs[a + j].id = d + j
  OBVIOUS
<1> QED BY <1>11, <1>12, <1>14, <1>15, <1>16 DEF LastBuilt, B

\* The next result of the last reply's calls.
LEMMA ResultBuilds ==
  ASSUME NEW acc \in Acc, NEW n, log[n].kind = "tool_call_done",
         NEW d \in Nat, NEW k \in Nat, NEW r \in Nat, NEW a \in Nat, LastBuilt(acc, d, k, r, a),
         r < k, log[n].id = d + (r + 1)
  PROVE  LastBuilt(Build(acc, log[n]), d, k, r + 1, a)
<1> DEFINE B == Build(acc, log[n])
           M == acc.msgs
           c == d + (r + 1)
           m == Entry("tool", c, TRUE)
           w == Append(M, m)
           z == Len(M)
<1>1. /\ a >= 1 /\ z = a + r /\ M[1].role = "user" /\ Good(M, a - 1)
      /\ M[a].role = log[d].role /\ M[a].id = d - 1 /\ M[a].calls = acc.pending
      /\ \A j \in 1 .. r : M[a + j].role = "tool" /\ M[a + j].id = d + j
      /\ \A x \in acc.done : x <= d + k + r
  BY DEF LastBuilt
<1>2. Len(acc.pending) = k /\ \A j \in 1 .. k : acc.pending[j] = d + j /\ (d + j \in acc.done <=> j <= r)
  BY DEF LastBuilt
<1>3. M \in Seq(Message) /\ c \in Nat
  BY DEF Acc
<1>4. m \in Message /\ m.role = "tool" /\ m.id = c
  <2>1. <<>> \in Seq(Nat)
    OBVIOUS
  <2> QED BY <1>3, <2>1 DEF Entry, Message
<1>5. B = [acc EXCEPT !.done = acc.done \cup {c}, !.msgs = w]
  BY DEF Build
<1> HIDE DEF B, c, m, M
<1>6. z \in Nat /\ Len(w) = z + 1 /\ w[z + 1] = m /\ \A i \in 1 .. z : w[i] = M[i]
  BY <1>3, <1>4, AppendIs
<1>7. B.msgs = w /\ B.done = acc.done \cup {c} /\ B.pending = acc.pending
  BY <1>5 DEF Acc
<1>17. a - 1 \in Nat /\ a - 1 <= z
  BY <1>1
<1>18. Good(M, a - 1)
  BY <1>1
<1> HIDE DEF w
<1>8. Good(w, a - 1)
  <2>1. a - 1 <= Len(M)
    BY <1>17
  <2> HIDE DEF z
  <2>2. \A i \in 1 .. a - 1 : w[i] = M[i]
    BY <1>6, <1>17
  <2> QED BY <1>3, <1>17, <1>18, <2>1, <2>2, GoodStays
<1> HIDE DEF z
<1>9. 1 \in 1 .. z /\ a \in 1 .. z /\ Len(w) = a + (r + 1) /\ z + 1 = a + (r + 1)
  <2>1. z = a + r /\ a >= 1
    BY <1>1
  <2>2. Len(w) = z + 1
    BY <1>6
  <2>3. 1 \in 1 .. z /\ a \in 1 .. z /\ z + 1 = a + (r + 1)
    BY <2>1
  <2> QED BY <2>2, <2>3
<1>10. a >= 1 /\ B.msgs[1].role = "user" /\ Good(B.msgs, a - 1) /\ Len(B.msgs) = a + (r + 1)
  BY <1>1, <1>6, <1>7, <1>8, <1>9
<1>11. B.msgs[a].role = log[d].role /\ B.msgs[a].id = d - 1 /\ B.msgs[a].calls = B.pending
  BY <1>1, <1>6, <1>7, <1>9
<1>12. \A j \in 1 .. r + 1 : B.msgs[a + j].role = "tool" /\ B.msgs[a + j].id = d + j
  <2>1. \A j \in 1 .. r : a + j \in 1 .. z
    BY <1>1
  <2>2. \A j \in 1 .. r : B.msgs[a + j].role = "tool" /\ B.msgs[a + j].id = d + j
    BY <1>1, <1>6, <1>7, <2>1
  <2>3. B.msgs[a + (r + 1)].role = "tool" /\ B.msgs[a + (r + 1)].id = d + (r + 1)
    BY <1>4, <1>6, <1>7, <1>9 DEF c
  <2>4. \A j \in 1 .. r + 1 : j \in 1 .. r \/ j = r + 1
    OBVIOUS
  <2> QED BY <2>2, <2>3, <2>4
<1>13. Len(B.pending) = k /\ \A j \in 1 .. k : B.pending[j] = d + j /\ (d + j \in B.done <=> j <= r + 1)
  <2>1. \A j \in 1 .. k : d + j = c <=> j = r + 1
    BY DEF c
  <2>2. \A j \in 1 .. k : j <= r + 1 <=> j <= r \/ j = r + 1
    OBVIOUS
  <2> QED BY <1>2, <1>7, <2>1, <2>2
<1>14. \A x \in B.done : x <= d + k + (r + 1)
  <2>1. \A x \in acc.done : x \in Nat /\ x <= d + k + r
    BY <1>1 DEF Acc
  <2>2. \A x \in Nat : x <= d + k + r => x <= d + k + (r + 1)
    OBVIOUS
  <2>3. c <= d + k + (r + 1)
    BY DEF c
  <2> QED BY <1>7, <2>1, <2>2, <2>3
<1> QED BY <1>10, <1>11, <1>12, <1>13, <1>14 DEF LastBuilt, B

\* The last run of T is this one.
Ends(T, d, k, r) ==
  Run(d, k, r) /\ d + k + r \in T /\ \A i \in T : log[i].kind \in Inner => i <= d + k + r

\* What was built of T: the message of its last run is the last one, if there is one.
BuiltShape(acc, T) ==
  IF \E i \in T : log[i].kind \in Inner
  THEN \E d, k, r, a \in Nat : Ends(T, d, k, r) /\ LastBuilt(acc, d, k, r, a)
  ELSE acc.msgs = <<>> /\ acc.pending = <<>> /\ acc.done = {}

Before(S, n) == {i \in S : i <= n - 1}

\* S is a request's events, and acc what was built of those before n.
Building(S, n, acc) ==
  /\ S \in SUBSET DOMAIN log /\ Closed(log, S) /\ Opened(log, S) /\ n \in S
  /\ BuiltOK(acc, Before(S, n)) /\ BuiltShape(acc, Before(S, n))

\* Typed facts of an event to build from.
LEMMA BuildingIs ==
  ASSUME LogOK(log), LogShape(log), NEW S, NEW n, NEW acc, Building(S, n, acc)
  PROVE  /\ Len(log) \in Nat /\ DOMAIN log = 1 .. Len(log) /\ n \in Nat /\ n >= 1 /\ n \in DOMAIN log /\ n <= Len(log)
         /\ acc \in Acc /\ EventIs(log[n]) /\ MayFollow(log[n], acc) /\ EventOK(log, n) /\ EventShape(log, n)
         /\ \A i \in Before(S, n) : i \in Nat /\ i \in S /\ i <= n - 1
         /\ \A i \in S : i \in Nat /\ (i < n => i \in Before(S, n))
         /\ UpTo(S, n) = Before(S, n) \cup {n}
<1>1. Len(log) \in Nat /\ DOMAIN log = 1 .. Len(log) /\ S \in SUBSET DOMAIN log /\ n \in S /\ Closed(log, S)
      /\ BuiltOK(acc, {i \in S : i <= n - 1})
  BY SeqIs DEF LogOK, Building, Before
<1>2. n \in Nat /\ n >= 1 /\ n \in DOMAIN log /\ n <= Len(log)
  BY <1>1
<1>3. acc \in Acc
  BY <1>1 DEF BuiltOK
<1>4. EventIs(log[n])
  BY <1>2, EventIsTyped
<1>5. MayFollow(log[n], acc)
  BY <1>1, MayFollowIs
<1>6. EventOK(log, n) /\ EventShape(log, n)
  BY <1>2 DEF LogOK, LogShape, ShapeOK
<1>7. \A i \in S : i \in Nat /\ (i < n => i <= n - 1) /\ (i <= n <=> i <= n - 1 \/ i = n)
  BY <1>1, <1>2
<1>8. UpTo(S, n) = Before(S, n) \cup {n}
  BY <1>1, <1>7 DEF UpTo, Before
<1> QED BY <1>1, <1>2, <1>3, <1>4, <1>5, <1>6, <1>7, <1>8 DEF Before

\* An event that is not part of a run builds nothing.
LEMMA NothingBuilt ==
  ASSUME LogOK(log), LogShape(log), NEW S, NEW n, NEW acc, Building(S, n, acc), log[n].kind \notin Inner
  PROVE  BuiltShape(Build(acc, log[n]), UpTo(S, n))
<1> DEFINE B == Build(acc, log[n])
           T == Before(S, n)
           U == UpTo(S, n)
<1>1. U = T \cup {n} /\ acc \in Acc
  BY BuildingIs
<1>2. B.msgs = acc.msgs /\ B.pending = acc.pending /\ B.done = acc.done
  <2>1. B = acc \/ \E x : B = [acc EXCEPT !.known = x]
    BY DEF Build, Inner
  <2> QED BY <1>1, <2>1 DEF Acc
<1> HIDE DEF B, T, U
<1>3. BuiltShape(acc, T)
  BY DEF Building, T
<1>4. (\E i \in U : log[i].kind \in Inner) <=> (\E i \in T : log[i].kind \in Inner)
  BY <1>1
<1>5. \A d, k, r \in Nat : Ends(T, d, k, r) => Ends(U, d, k, r)
  BY <1>1 DEF Ends
<1>6. \A d, k, r, a \in Nat : LastBuilt(acc, d, k, r, a) => LastBuilt(B, d, k, r, a)
  BY <1>2 DEF LastBuilt
<1> QED BY <1>2, <1>3, <1>4, <1>5, <1>6 DEF BuiltShape, B, U

\* An event of a run ends what has been built.
LEMMA EndsHere ==
  ASSUME LogOK(log), LogShape(log), NEW S, NEW n, NEW acc, Building(S, n, acc), log[n].kind \in Inner,
         NEW d \in Nat, NEW k \in Nat, NEW r \in Nat, NEW a \in Nat,
         n = d + k + r, Run(d, k, r), LastBuilt(Build(acc, log[n]), d, k, r, a)
  PROVE  BuiltShape(Build(acc, log[n]), UpTo(S, n))
<1> DEFINE U == UpTo(S, n)
<1>1. n \in U /\ \A i \in U : i <= n
  <2>1. /\ n \in S /\ UpTo(S, n) = Before(S, n) \cup {n} /\ n \in Nat
        /\ \A i \in Before(S, n) : i \in Nat /\ i <= n - 1
    BY BuildingIs DEF Building
  <2>2. \A i \in Nat : i <= n - 1 => i <= n
    BY <2>1
  <2> QED BY <2>1, <2>2
<1> HIDE DEF U
<1>2. Ends(U, d, k, r)
  <2>1. d + k + r \in U /\ \A i \in U : i <= d + k + r
    BY <1>1
  <2> QED BY <2>1 DEF Ends
<1> QED BY <1>1, <1>2 DEF BuiltShape, U

\* A message begins a run.
LEMMA MessageGoesOn ==
  ASSUME LogOK(log), LogShape(log), NEW S, NEW n, NEW acc, Building(S, n, acc), log[n].kind = "message_done"
  PROVE  BuiltShape(Build(acc, log[n]), UpTo(S, n))
<1> DEFINE T == Before(S, n)
           z == Len(Flush(acc).msgs)
<1>1. /\ n \in Nat /\ n >= 1 /\ n \in DOMAIN log /\ n <= Len(log) /\ acc \in Acc /\ EventIs(log[n])
      /\ log[n].id = n - 1 /\ log[n].id \in acc.known /\ log[n].kind \in Inner
      /\ log[n].role \in {"user", "assistant"}
  BY BuildingIs DEF EventShape, MayFollow, Inner, EventIs
<1>2. Run(n, 0, 0)
  <2>1. Group(log, n, 0, 0) <=> log[n].role = "assistant"
    BY <1>1 DEF Group
  <2>2. n + 0 + 0 <= Len(log) /\ 0 <= 0
    BY <1>1
  <2> QED BY <1>1, <2>1, <2>2 DEF Run
<1>3. \A c \in acc.done : c <= n
  <2>1. \A c \in acc.done : c \in Nat
    BY <1>1 DEF Acc
  <2>2. CASE \E i \in T : log[i].kind \in Inner
    <3>1. PICK d \in Nat : \E k, r, a \in Nat : Ends(T, d, k, r) /\ LastBuilt(acc, d, k, r, a)
      BY <2>2 DEF Building, BuiltShape
    <3>2. PICK k \in Nat : \E r, a \in Nat : Ends(T, d, k, r) /\ LastBuilt(acc, d, k, r, a)
      BY <3>1
    <3>3. PICK r \in Nat : \E a \in Nat : Ends(T, d, k, r) /\ LastBuilt(acc, d, k, r, a)
      BY <3>2
    <3>4. \A c \in acc.done : c <= d + k + r
      BY <3>3 DEF LastBuilt
    <3>5. d + k + r <= n - 1
      BY <3>3, BuildingIs DEF Ends
    <3> QED BY <1>1, <2>1, <3>4, <3>5
  <2>3. CASE ~\E i \in T : log[i].kind \in Inner
    BY <2>3 DEF Building, BuiltShape
  <2> QED BY <2>2, <2>3
<1>4. IF z = 0 THEN log[n].role = "user" ELSE GoodSoFar(Flush(acc).msgs)
  <2>1. CASE \E i \in T : log[i].kind \in Inner
    <3>1. PICK d \in Nat : \E k, r, a \in Nat : Ends(T, d, k, r) /\ LastBuilt(acc, d, k, r, a)
      BY <2>1 DEF Building, BuiltShape
    <3>2. PICK k \in Nat : \E r, a \in Nat : Ends(T, d, k, r) /\ LastBuilt(acc, d, k, r, a)
      BY <3>1
    <3>3. PICK r \in Nat : \E a \in Nat : Ends(T, d, k, r) /\ LastBuilt(acc, d, k, r, a)
      BY <3>2
    <3>4. PICK a \in Nat : Ends(T, d, k, r) /\ LastBuilt(acc, d, k, r, a)
      BY <3>3
    <3>5. Run(d, k, r) /\ LastBuilt(acc, d, k, r, a)
      BY <3>4 DEF Ends
    <3>6. GoodSoFar(Flush(acc).msgs) /\ z = a + k
      BY <1>1, <3>5, FlushGood
    <3>7. a >= 1
      BY <3>5 DEF LastBuilt
    <3> HIDE DEF z
    <3>8. z # 0
      BY <3>6, <3>7
    <3> QED BY <3>6, <3>8
  <2>2. CASE ~\E i \in T : log[i].kind \in Inner
    <3>1. acc.msgs = <<>> /\ acc.pending = <<>>
      BY <2>2 DEF Building, BuiltShape
    <3>2. z = 0
      BY <1>1, <3>1, FlushNothing
    <3>3. log[n].role = "user"
      <4> SUFFICES ASSUME log[n].role # "user" PROVE FALSE
        OBVIOUS
      <4>1. n - 1 \in S /\ Begins(log, n - 1, "assistant") /\ n - 1 \in DOMAIN log
        <5>1. n - 1 \in S
          BY <1>1 DEF Building, Closed
        <5>2. log[n - 1].kind = "message_started" /\ log[n - 1].role = log[n].role
          BY <1>1, BuildingIs DEF EventOK
        <5> QED BY <1>1, <5>1, <5>2 DEF Begins, Building
      <4>2. PICK u \in S : u + 1 \in S /\ log[u + 1].kind = "message_done" /\ u + 1 < n - 1
        BY <4>1 DEF Building, Opened
      <4>3. u + 1 \in Nat /\ u + 1 < n
        BY <1>1, <4>2, BuildingIs
      <4>4. u + 1 \in T /\ log[u + 1].kind \in Inner
        BY <4>2, <4>3, BuildingIs DEF Inner
      <4> QED BY <2>2, <4>4
    <3> QED BY <3>2, <3>3
  <2> QED BY <2>1, <2>2
<1> HIDE DEF z
<1>5. z = Len(Flush(acc).msgs)
  BY DEF z
<1>6. LastBuilt(Build(acc, log[n]), n, 0, 0, z + 1)
  BY <1>1, <1>3, <1>4, <1>5, MessageBuilds
<1>7. z + 1 \in Nat /\ n = n + 0 + 0
  <2>1. Flush(acc).msgs \in Seq(Message)
    BY <1>1, FlushIs DEF Acc
  <2>2. z \in Nat
    BY <1>5, <2>1
  <2> QED BY <1>1, <2>2
<1> QED BY <1>1, <1>2, <1>6, <1>7, EndsHere

\* A call or a result goes on with the run that ends before it.
LEMMA RunGoesOn ==
  ASSUME LogOK(log), LogShape(log), NEW S, NEW n, NEW acc, Building(S, n, acc),
         log[n].kind \in {"tool_call_started", "tool_call_done"}
  PROVE  \E d, k, r, a \in Nat :
           /\ Run(d, k, r) /\ LastBuilt(acc, d, k, r, a) /\ log[d].role = "assistant" /\ n = d + k + r + 1
           /\ \/ log[n].kind = "tool_call_started" /\ r = 0 /\ Group(log, d, k + 1, 0)
              \/ log[n].kind = "tool_call_done" /\ Group(log, d, k, r + 1)
<1> DEFINE T == Before(S, n)
<1>1. /\ n \in Nat /\ n >= 1 /\ n \in DOMAIN log /\ n <= Len(log) /\ acc \in Acc /\ EventShape(log, n)
      /\ log[n].kind \in Inner
  BY BuildingIs DEF Inner
<1>2. PICK p \in Nat : \E c, s \in Nat : Group(log, p, c, s) /\ c >= 1 /\ n = p + c + s
  BY <1>1 DEF EventShape
<1>3. PICK c \in Nat : \E s \in Nat : Group(log, p, c, s) /\ c >= 1 /\ n = p + c + s
  BY <1>2
<1>4. PICK s \in Nat : Group(log, p, c, s) /\ c >= 1 /\ n = p + c + s
  BY <1>3
<1>5. n - 1 \in T /\ log[n - 1].kind \in Inner
  <2>1. n - 1 \in S
    BY <1>1 DEF Building, Closed
  <2>2. n - 1 \in Nat /\ n - 1 < n
    BY <1>1
  <2>3. n - 1 = p \/ (p < n - 1 /\ n - 1 <= p + c) \/ (p + c < n - 1 /\ n - 1 <= p + c + s)
    BY <1>4
  <2>4. log[n - 1].kind \in {"message_done", "tool_call_started", "tool_call_done"}
    <3>1. /\ n - 1 = p => log[n - 1].kind = "message_done"
          /\ p < n - 1 /\ n - 1 <= p + c => log[n - 1].kind = "tool_call_started"
          /\ p + c < n - 1 /\ n - 1 <= p + c + s => log[n - 1].kind = "tool_call_done"
      <4>1. Group(log, p, c, s) /\ n - 1 \in Nat
        BY <1>4, <2>2
      <4> DEFINE i == n - 1
      <4> HIDE DEF i
      <4>2. Group(log, p, c, s) /\ i \in Nat
        BY <4>1 DEF i
      <4>3. /\ i = p => log[i].kind = "message_done"
            /\ p < i /\ i <= p + c => log[i].kind = "tool_call_started"
            /\ p + c < i /\ i <= p + c + s => log[i].kind = "tool_call_done"
        BY <4>2, GroupKinds
      <4> QED BY <4>3 DEF i
    <3> QED BY <2>3, <3>1
  <2> QED BY <1>1, <2>1, <2>2, <2>4, BuildingIs DEF Inner
<1>6. PICK d \in Nat : \E k, r, a \in Nat : Ends(T, d, k, r) /\ LastBuilt(acc, d, k, r, a)
  BY <1>5 DEF Building, BuiltShape
<1>7. PICK k \in Nat : \E r, a \in Nat : Ends(T, d, k, r) /\ LastBuilt(acc, d, k, r, a)
  BY <1>6
<1>8. PICK r \in Nat : \E a \in Nat : Ends(T, d, k, r) /\ LastBuilt(acc, d, k, r, a)
  BY <1>7
<1>9. PICK a \in Nat : Ends(T, d, k, r) /\ LastBuilt(acc, d, k, r, a)
  BY <1>8
<1>10. Run(d, k, r) /\ n = d + k + r + 1
  <2>1. d + k + r \in T /\ n - 1 <= d + k + r
    BY <1>5, <1>9 DEF Ends
  <2>2. d + k + r <= n - 1
    BY <2>1, BuildingIs
  <2> QED BY <1>1, <1>9, <2>1, <2>2 DEF Ends
<1>11. p = d /\ log[d].role = "assistant" /\ ((s = 0 /\ r = 0 /\ c = k + 1) \/ (c = k /\ s = r + 1))
  <2>1. Follows(n, d, k, r)
    BY <1>10 DEF Follows
  <2>2. EndsGroup(n, p, c, s)
    BY <1>4 DEF EndsGroup
  <2>3. ContinuesRun(d, k, r, p, c, s)
    BY <2>1, <2>2, NextInGroup
  <2> QED BY <2>3 DEF ContinuesRun
<1>12. CASE s = 0
  <2>1. p < n /\ n <= p + c
    BY <1>4, <1>12
  <2>2. log[n].kind = "tool_call_started"
    BY <1>1, <1>4, <2>1, GroupKinds
  <2>3. r = 0 /\ c = k + 1
    BY <1>11, <1>12
  <2>4. Group(log, d, k + 1, 0)
    BY <1>4, <1>11, <1>12, <2>3
  <2> QED BY <1>9, <1>10, <1>11, <2>2, <2>3, <2>4
<1>13. CASE s # 0
  <2>1. p + c < n /\ n <= p + c + s
    BY <1>4, <1>13
  <2>2. log[n].kind = "tool_call_done"
    BY <1>1, <1>4, <2>1, GroupKinds
  <2>3. c = k /\ s = r + 1
    BY <1>11, <1>13
  <2>4. Group(log, d, k, r + 1)
    BY <1>4, <1>11, <2>3
  <2> QED BY <1>9, <1>10, <1>11, <2>2, <2>4
<1> QED BY <1>12, <1>13

\* So does what is built.
LEMMA GroupGoesOn ==
  ASSUME Named, LogOK(log), LogShape(log), NEW S, NEW n, NEW acc, Building(S, n, acc),
         log[n].kind \in {"tool_call_started", "tool_call_done"}
  PROVE  BuiltShape(Build(acc, log[n]), UpTo(S, n))
<1> DEFINE Next(d, k, r, a) ==
             /\ Run(d, k, r) /\ LastBuilt(acc, d, k, r, a) /\ log[d].role = "assistant" /\ n = d + k + r + 1
             /\ \/ log[n].kind = "tool_call_started" /\ r = 0 /\ Group(log, d, k + 1, 0)
                \/ log[n].kind = "tool_call_done" /\ Group(log, d, k, r + 1)
<1>1. \E d, k, r, a \in Nat : Next(d, k, r, a)
  BY RunGoesOn
<1> HIDE DEF Next
<1>2. PICK d \in Nat : \E k, r, a \in Nat : Next(d, k, r, a)
  BY <1>1
<1>3. PICK k \in Nat : \E r, a \in Nat : Next(d, k, r, a)
  BY <1>2
<1>4. PICK r \in Nat : \E a \in Nat : Next(d, k, r, a)
  BY <1>3
<1>5. PICK a \in Nat : Next(d, k, r, a)
  BY <1>4
<1>6. /\ Run(d, k, r) /\ LastBuilt(acc, d, k, r, a) /\ log[d].role = "assistant" /\ n = d + k + r + 1
      /\ n \in Nat /\ n <= Len(log) /\ acc \in Acc /\ log[n].kind \in Inner
  BY <1>5, BuildingIs DEF Next, Inner
<1>7. CASE log[n].kind = "tool_call_started"
  <2>1. r = 0 /\ Group(log, d, k + 1, 0)
    BY <1>5, <1>7 DEF Next
  <2>2. k + 1 \in 1 .. k + 1 /\ n = d + (k + 1) /\ n = d + k + 1
    BY <1>6, <2>1
  <2>3. log[n].msg = d - 1 /\ log[n].id = d + k + 1
    <3>1. log[d + (k + 1)].msg = d - 1 /\ log[d + (k + 1)].id = CallId(d, k + 1)
      BY <2>1, <2>2 DEF Group
    <3>2. CallId(d, k + 1) = d + (k + 1)
      BY DEF CallId
    <3> QED BY <2>2, <3>1, <3>2
  <2>4. LastBuilt(acc, d, k, 0, a)
    BY <1>6, <2>1
  <2>5. LastBuilt(Build(acc, log[n]), d, k + 1, 0, a)
    BY <1>6, <1>7, <2>3, <2>4, CallBuilds
  <2>6. Run(d, k + 1, 0)
    <3>1. d + (k + 1) + 0 <= Len(log) /\ 0 <= k + 1
      BY <1>6, <2>2
    <3> QED BY <1>6, <2>1, <3>1 DEF Run
  <2>7. k + 1 \in Nat /\ n = d + (k + 1) + 0
    BY <2>2
  <2> QED BY <1>6, <2>5, <2>6, <2>7, EndsHere
<1>8. CASE log[n].kind = "tool_call_done"
  <2>1. Group(log, d, k, r + 1)
    BY <1>5, <1>8 DEF Next
  <2>2. r + 1 \in 1 .. r + 1 /\ n = d + k + (r + 1) /\ r < k
    <3>1. r + 1 <= k
      BY <2>1 DEF Group
    <3> QED BY <1>6, <3>1
  <2>3. log[n].id = d + (r + 1)
    <3>1. log[d + k + (r + 1)].id = CallId(d, r + 1)
      BY <2>1, <2>2 DEF Group
    <3>2. CallId(d, r + 1) = d + (r + 1)
      BY DEF CallId
    <3> QED BY <2>2, <3>1, <3>2
  <2>4. LastBuilt(Build(acc, log[n]), d, k, r + 1, a)
    BY <1>6, <1>8, <2>2, <2>3, ResultBuilds
  <2>5. Run(d, k, r + 1)
    <3>1. d + k + (r + 1) <= Len(log) /\ r + 1 <= k
      BY <1>6, <2>2
    <3> QED BY <1>6, <2>1, <3>1 DEF Run
  <2>6. r + 1 \in Nat
    OBVIOUS
  <2> QED BY <1>6, <2>2, <2>4, <2>5, <2>6, EndsHere
<1> QED BY <1>7, <1>8

\* What has been built of a request's events, at each place of the log.
LEMMA BuiltShaped ==
  ASSUME Named, LogOK(log), LogShape(log), NEW S \in SUBSET DOMAIN log, Closed(log, S), Opened(log, S)
  PROVE  \A n \in 0 .. Len(log) : BuiltShape(Built(S)[n], UpTo(S, n))
<1> DEFINE f == Built(S)
           D == {n \in 0 .. Len(log) : ~BuiltShape(f[n], UpTo(S, n))}
<1>1. Len(log) \in Nat /\ DOMAIN log = 1 .. Len(log)
  BY SeqIs DEF LogOK
<1>2. /\ f[0] = Nothing
      /\ \A n \in 1 .. Len(log) : f[n] = IF n \in S THEN Build(f[n - 1], log[n]) ELSE f[n - 1]
  BY BuiltIs
<1>3. \A n \in 0 .. Len(log) : BuiltOK(f[n], {i \in S : i <= n})
  BY BuiltTells
<1> HIDE DEF f
<1>4. BuiltShape(f[0], UpTo(S, 0))
  <2>1. UpTo(S, 0) = {}
    BY <1>1 DEF UpTo
  <2>2. Nothing.msgs = <<>> /\ Nothing.pending = <<>> /\ Nothing.done = {}
    BY DEF Nothing
  <2> QED BY <1>2, <2>1, <2>2 DEF BuiltShape
<1> SUFFICES ASSUME D # {} PROVE FALSE
  BY DEF f
<1>5. PICK n \in D : \A m \in D : n <= m
  <2>1. D \in SUBSET Nat
    BY <1>1
  <2> HIDE DEF D
  <2> QED BY <2>1, LeastOf
<1>6. n \in 1 .. Len(log) /\ n \in Nat /\ ~BuiltShape(f[n], UpTo(S, n)) /\ BuiltShape(f[n - 1], UpTo(S, n - 1))
      /\ BuiltOK(f[n - 1], {i \in S : i <= n - 1})
  <2>1. n \in 0 .. Len(log) /\ ~BuiltShape(f[n], UpTo(S, n))
    BY <1>5
  <2>2. n # 0
    BY <1>4, <2>1
  <2>3. n \in 1 .. Len(log) /\ n \in Nat /\ n - 1 \in 0 .. Len(log) /\ ~(n <= n - 1)
    BY <1>1, <2>1, <2>2
  <2>4. n - 1 \notin D
    BY <1>5, <2>3
  <2> QED BY <1>3, <2>1, <2>3, <2>4
<1> HIDE DEF D
<1>7. UpTo(S, n - 1) = Before(S, n)
  BY DEF UpTo, Before
<1>8. CASE n \notin S
  <2>1. UpTo(S, n) = Before(S, n)
    <3>1. \A i \in S : i \in Nat /\ (i <= n <=> i <= n - 1)
      BY <1>1, <1>6, <1>8
    <3> QED BY <3>1 DEF UpTo, Before
  <2> QED BY <1>2, <1>6, <1>7, <1>8, <2>1
<1>9. CASE n \in S
  <2> DEFINE acc == f[n - 1]
  <2>1. Building(S, n, acc)
    BY <1>6, <1>7, <1>9 DEF Building, Before
  <2>2. f[n] = Build(acc, log[n])
    BY <1>2, <1>6, <1>9
  <2> HIDE DEF acc
  <2>3. BuiltShape(Build(acc, log[n]), UpTo(S, n))
    <3>1. CASE log[n].kind \notin Inner
      BY <2>1, <3>1, NothingBuilt
    <3>2. CASE log[n].kind = "message_done"
      BY <2>1, <3>2, MessageGoesOn
    <3>3. CASE log[n].kind \in {"tool_call_started", "tool_call_done"}
      BY <2>1, <3>3, GroupGoesOn
    <3> QED BY <3>1, <3>2, <3>3 DEF Inner
  <2> QED BY <1>6, <2>2, <2>3
<1> QED BY <1>8, <1>9

\* The events of a run come with the message that begins it.
LEMMA RunBegins ==
  ASSUME NEW S, Closed(log, S), NEW d \in Nat, NEW k \in Nat, NEW r \in Nat, Run(d, k, r), d + k + r \in S
  PROVE  d \in S
<1> DEFINE D == {i \in S : i \in Nat /\ d <= i /\ i <= d + k + r}
<1>1. D \in SUBSET Nat /\ D # {}
  <2>1. d + k + r \in D
    OBVIOUS
  <2> QED BY <2>1
<1>2. PICK i \in D : \A j \in D : i <= j
  <2> HIDE DEF D
  <2> QED BY <1>1, LeastOf
<1>3. CASE i = d
  BY <1>3
<1>4. CASE i # d
  <2>1. i \in S /\ i \in Nat /\ d < i /\ i <= d + k + r
    BY <1>4
  <2>2. k # 0
    <3>1. r <= k
      BY DEF Run
    <3> QED BY <2>1, <3>1
  <2>3. Group(log, d, k, r)
    BY <2>2 DEF Run
  <2>4. (d < i /\ i <= d + k) \/ (d + k < i /\ i <= d + k + r)
    BY <2>1
  <2>5. log[i].kind \in Inner
    <3>1. \/ log[i].kind = "tool_call_started"
          \/ log[i].kind = "tool_call_done"
      BY <2>1, <2>3, <2>4, GroupKinds
    <3> QED BY <3>1 DEF Inner
  <2>6. i - 1 \in S
    BY <2>1, <2>5 DEF Closed
  <2>7. i - 1 \in D /\ ~(i <= i - 1)
    BY <2>1, <2>6
  <2> QED BY <1>2, <2>7
<1> QED BY <1>3, <1>4

\* The messages of a request, before those that say nothing are left out.
LEMMA MessagesGood ==
  ASSUME Named, LogOK(log), LogShape(log), NEW S, RequestOK(S)
  PROVE  LET M == Flush(Built(S)[Len(log)]).msgs
         IN M \in Seq(Message) /\ GoodSoFar(M) /\ M[Len(M)].role # "assistant"
<1> DEFINE n == Len(log)
           acc == Built(S)[n]
           M == Flush(acc).msgs
<1>1. /\ n \in Nat /\ DOMAIN log = 1 .. n /\ S \in SUBSET DOMAIN log /\ Closed(log, S) /\ Opened(log, S)
  BY SeqIs DEF LogOK, RequestOK
<1>2. PICK s \in S : LastTurn(log, S, s)
  BY DEF RequestOK
<1>3. UpTo(S, n) = S /\ {i \in S : i <= n} = S
  BY <1>1 DEF UpTo
<1>4. acc \in Acc /\ BuiltShape(acc, S)
  <2>1. n \in 0 .. n
    BY <1>1
  <2>2. BuiltOK(acc, {i \in S : i <= n})
    BY <1>1, <2>1, BuiltTells
  <2>3. BuiltShape(acc, UpTo(S, n))
    BY <1>1, <2>1, BuiltShaped
  <2> HIDE DEF acc, n
  <2> QED BY <1>3, <2>2, <2>3 DEF BuiltOK
<1> HIDE DEF acc
<1>5. /\ s \in Nat /\ s + 1 \in S /\ log[s + 1].kind = "message_done" /\ log[s + 1].kind \in Inner
      /\ \A x \in S : log[x].kind = "message_started" => x <= s
      /\ log[s].role = "user" \/ (s + 2 \in S /\ log[s + 2].kind = "tool_call_started")
      /\ log[s].kind = "message_started"
  BY <1>1, <1>2 DEF LastTurn, Inner
<1>6. PICK d \in Nat : \E k, r, a \in Nat : Ends(S, d, k, r) /\ LastBuilt(acc, d, k, r, a)
  BY <1>4, <1>5 DEF BuiltShape
<1>7. PICK k \in Nat : \E r, a \in Nat : Ends(S, d, k, r) /\ LastBuilt(acc, d, k, r, a)
  BY <1>6
<1>8. PICK r \in Nat : \E a \in Nat : Ends(S, d, k, r) /\ LastBuilt(acc, d, k, r, a)
  BY <1>7
<1>9. PICK a \in Nat : Ends(S, d, k, r) /\ LastBuilt(acc, d, k, r, a)
  BY <1>8
<1>10. Run(d, k, r) /\ LastBuilt(acc, d, k, r, a) /\ d + k + r \in S
       /\ \A i \in S : log[i].kind \in Inner => i <= d + k + r
  BY <1>9 DEF Ends
<1>11. d \in S /\ log[d].kind = "message_done" /\ log[d].id = d - 1 /\ r <= k
       /\ (log[d].role # "assistant" => k = 0) /\ log[d].role \in {"user", "assistant"}
  BY <1>1, <1>10, RunBegins DEF Run
<1>12. d - 1 \in S /\ log[d - 1].kind = "message_started" /\ log[d - 1].role = log[d].role
  <2>1. EventOK(log, d)
    BY <1>1, <1>11 DEF LogOK
  <2>2. d - 1 \in S
    BY <1>1, <1>11 DEF Closed, Inner
  <2> QED BY <1>11, <2>1, <2>2 DEF EventOK
<1>13. d = s + 1
  <2>1. d - 1 <= s
    BY <1>5, <1>12
  <2>2. s + 1 <= d + k + r
    BY <1>5, <1>10
  <2>3. ~(d < s + 1)
    <3> SUFFICES ASSUME d < s + 1 PROVE FALSE
      OBVIOUS
    <3>1. k # 0
      BY <1>11, <2>2
    <3>2. Group(log, d, k, r)
      BY <1>10, <1>11, <3>1 DEF Run
    <3>3. (d < s + 1 /\ s + 1 <= d + k) \/ (d + k < s + 1 /\ s + 1 <= d + k + r)
      BY <1>5, <2>2
    <3>4. log[s + 1].kind \in {"tool_call_started", "tool_call_done"}
      <4> DEFINE i == s + 1
      <4>1. i \in Nat /\ ((d < i /\ i <= d + k) \/ (d + k < i /\ i <= d + k + r))
        BY <1>5, <3>3
      <4> HIDE DEF i
      <4>2. log[i].kind = "tool_call_started" \/ log[i].kind = "tool_call_done"
        BY <3>2, <4>1, GroupKinds
      <4> QED BY <4>2 DEF i
    <3> QED BY <1>5, <3>4
  <2> QED BY <1>5, <2>1, <2>3
<1>14. log[d].role = "assistant" => k # 0
  <2> SUFFICES ASSUME log[d].role = "assistant", k = 0 PROVE FALSE
    OBVIOUS
  <2>1. d - 1 = s
    BY <1>5, <1>13
  <2>2. log[s].role = "assistant"
    BY <1>12, <2>1
  <2>3. s + 2 \in S /\ log[s + 2].kind \in Inner
    BY <1>5, <2>2 DEF Inner
  <2>4. s + 2 <= d + k + r
    BY <1>10, <2>3
  <2> QED BY <1>5, <1>11, <1>13, <2>4
<1>15. /\ GoodSoFar(M) /\ Len(M) = a + k
       /\ k = 0 => M[a + k].role = log[d].role
       /\ k # 0 => M[a + k].role = "tool"
  BY <1>4, <1>10, FlushGood
<1>16. M \in Seq(Message)
  BY <1>4, FlushIs DEF Acc
<1> HIDE DEF M
<1>17. M[a + k].role # "assistant"
  BY <1>11, <1>14, <1>15
<1>18. M[Len(M)].role # "assistant"
  BY <1>15, <1>17
<1> QED BY <1>15, <1>16, <1>18 DEF M, acc

------------------------------------------------------------------------------
(* Leaving out what says nothing *)

\* In an order of K, one more comes next.
LEMMA NextPlace ==
  ASSUME NEW at, NEW K, Enumerates(at, K), NEW i \in DOMAIN at, NEW x \in Nat, at[i] = x, x + 1 \in K
  PROVE  i + 1 \in DOMAIN at /\ at[i + 1] = x + 1
<1>1. at \in Seq(Nat) /\ \A y, z \in DOMAIN at : y < z => at[y] < at[z]
  BY DEF Enumerates
<1>2. Len(at) \in Nat /\ DOMAIN at = 1 .. Len(at) /\ \A y \in DOMAIN at : at[y] \in Nat
  BY <1>1
<1>3. PICK j \in DOMAIN at : at[j] = x + 1
  BY DEF Enumerates
<1>4. i < j
  <2>1. i \in Nat /\ j \in Nat /\ i # j
    BY <1>2, <1>3
  <2>2. ~(j < i)
    <3> SUFFICES ASSUME j < i PROVE FALSE
      OBVIOUS
    <3>1. at[j] < at[i]
      BY <1>1
    <3> QED BY <1>3, <3>1
  <2> QED BY <2>1, <2>2
<1>5. i + 1 \in DOMAIN at /\ i < i + 1 /\ i \in Nat /\ j \in Nat
  BY <1>2, <1>4
<1>6. at[i] < at[i + 1]
  BY <1>1, <1>5
<1>7. ~(i + 1 < j)
  <2> SUFFICES ASSUME i + 1 < j PROVE FALSE
    OBVIOUS
  <2>1. at[i + 1] < at[j]
    BY <1>1, <1>5
  <2>2. at[i + 1] \in Nat
    BY <1>2, <1>5
  <2> QED BY <1>3, <1>6, <2>1, <2>2
<1>8. j = i + 1
  BY <1>4, <1>5, <1>7
<1> QED BY <1>3, <1>5, <1>8

\* K has k more after x, which at has in place i.
MoreAfter(at, K, i, x, k) ==
  Enumerates(at, K) /\ i \in DOMAIN at /\ x \in Nat /\ at[i] = x /\ \A j \in 1 .. k : x + j \in K

\* Then they come next.
LEMMA NextPlaces ==
  ASSUME NEW at, NEW K, NEW i, NEW x, NEW k \in Nat, MoreAfter(at, K, i, x, k)
  PROVE  \A j \in 0 .. k : i + j \in DOMAIN at /\ at[i + j] = x + j
<1>0. Enumerates(at, K) /\ i \in DOMAIN at /\ x \in Nat /\ at[i] = x /\ \A j \in 1 .. k : x + j \in K
  BY DEF MoreAfter
<1> DEFINE D == {j \in 0 .. k : ~(i + j \in DOMAIN at /\ at[i + j] = x + j)}
<1> SUFFICES ASSUME D # {} PROVE FALSE
  OBVIOUS
<1>1. PICK j \in D : \A y \in D : j <= y
  <2>1. D \in SUBSET Nat
    OBVIOUS
  <2> HIDE DEF D
  <2> QED BY <2>1, LeastOf
<1>2. i \in Nat
  BY <1>0 DEF Enumerates
<1>3. j \in 1 .. k
  <2>1. j \in 0 .. k
    OBVIOUS
  <2>2. 0 \notin D
    <3>1. i + 0 = i /\ x + 0 = x
      BY <1>0, <1>2
    <3> QED BY <1>0, <3>1
  <2>3. j # 0
    BY <2>2
  <2> QED BY <2>1, <2>3
<1>4. i + (j - 1) \in DOMAIN at /\ at[i + (j - 1)] = x + (j - 1)
  <2>1. j - 1 \in 0 .. k /\ ~(j <= j - 1)
    BY <1>3
  <2>2. j - 1 \notin D
    BY <1>1, <2>1
  <2> QED BY <2>1, <2>2
<1>5. x + (j - 1) \in Nat /\ x + (j - 1) + 1 \in K
  <2>1. x + (j - 1) + 1 = x + j /\ x + j \in K
    BY <1>0, <1>3
  <2> QED BY <1>0, <1>3, <2>1
<1>6. i + (j - 1) + 1 \in DOMAIN at /\ at[i + (j - 1) + 1] = x + (j - 1) + 1
  <2> DEFINE h == i + (j - 1)
             y == x + (j - 1)
  <2>1. h \in DOMAIN at /\ at[h] = y /\ y \in Nat /\ y + 1 \in K
    BY <1>4, <1>5
  <2> HIDE DEF h, y
  <2>2. h + 1 \in DOMAIN at /\ at[h + 1] = y + 1
    BY <1>0, <2>1, NextPlace
  <2> QED BY <2>2 DEF h, y
<1>7. i + (j - 1) + 1 = i + j /\ x + (j - 1) + 1 = x + j
  BY <1>0, <1>2, <1>3
<1>8. i + j \in DOMAIN at /\ at[i + j] = x + j
  BY <1>6, <1>7
<1> QED BY <1>8

\* t is what is left of the messages M, at their places.
Left(at, t, M) ==
  /\ M \in Seq(Message) /\ GoodSoFar(M) /\ M[Len(M)].role # "assistant"
  /\ Picks(at, t, M, Telling1(M))

\* Typed facts of what is left.
LEMMA LeftIs ==
  ASSUME NEW at, NEW t, NEW M, Left(at, t, M)
  PROVE  /\ Enumerates(at, Telling1(M)) /\ Len(at) \in Nat /\ DOMAIN at = 1 .. Len(at) /\ Len(t) = Len(at)
         /\ Len(M) \in Nat /\ Len(M) >= 1 /\ DOMAIN M = 1 .. Len(M) /\ M[1].role = "user" /\ M[Len(M)].role # "assistant"
         /\ \A i \in 1 .. Len(at) : at[i] \in 1 .. Len(M) /\ at[i] \in Nat /\ t[i] = M[at[i]]
         /\ \A i, j \in 1 .. Len(at) : i < j => at[i] < at[j]
         /\ \A x \in 1 .. Len(M) : Telling(M[x]) => \E i \in 1 .. Len(at) : at[i] = x
         /\ \A x \in 1 .. Len(M) : Telling(M[x]) => x \in Telling1(M)
<1>1. Len(M) \in Nat /\ DOMAIN M = 1 .. Len(M)
  BY MessageIs DEF Left
<1>2. /\ Enumerates(at, Telling1(M)) /\ Len(at) \in Nat /\ DOMAIN at = 1 .. Len(at) /\ Len(t) = Len(at)
      /\ \A i \in 1 .. Len(at) : at[i] \in Telling1(M) /\ t[i] = M[at[i]]
  BY DEF Left, Picks
<1>3. \A i \in 1 .. Len(at) : at[i] \in 1 .. Len(M) /\ at[i] \in Nat
  BY <1>1, <1>2 DEF Telling1
<1>4. \A i, j \in 1 .. Len(at) : i < j => at[i] < at[j]
  BY <1>2 DEF Enumerates
<1>5. \A x \in 1 .. Len(M) : Telling(M[x]) => x \in Telling1(M)
  BY <1>1 DEF Telling1
<1>6. \A x \in Telling1(M) : \E i \in 1 .. Len(at) : at[i] = x
  BY <1>2 DEF Enumerates
<1>7. M[1].role = "user" /\ M[Len(M)].role # "assistant"
  BY DEF Left, GoodSoFar
<1>8. Len(M) >= 1
  <2>1. M # <<>> /\ M \in Seq(Message)
    BY DEF Left, GoodSoFar
  <2>2. Len(M) # 0
    BY <2>1
  <2> QED BY <1>1, <2>2
<1> QED BY <1>1, <1>2, <1>3, <1>4, <1>5, <1>6, <1>7, <1>8

\* The first and the last message are left.
LEMMA EndsLeft ==
  ASSUME NEW at, NEW t, NEW M, Left(at, t, M)
  PROVE  Len(t) > 0 /\ t[1].role = "user" /\ t[Len(t)].role # "assistant"
<1> DEFINE n == Len(at)
           q == Len(M)
<1>1. /\ n \in Nat /\ Len(t) = n /\ q \in Nat /\ q >= 1 /\ M[1].role = "user" /\ M[q].role # "assistant"
      /\ \A i \in 1 .. n : at[i] \in 1 .. q /\ at[i] \in Nat /\ t[i] = M[at[i]]
      /\ \A i, j \in 1 .. n : i < j => at[i] < at[j]
      /\ \A x \in 1 .. q : Telling(M[x]) => \E i \in 1 .. n : at[i] = x
  BY LeftIs
<1> HIDE DEF n, q
<1>2. PICK i \in 1 .. n : at[i] = 1
  <2>1. 1 \in 1 .. q /\ Telling(M[1])
    BY <1>1 DEF Telling
  <2> QED BY <1>1, <2>1
<1>3. PICK j \in 1 .. n : at[j] = q
  <2>1. q \in 1 .. q /\ Telling(M[q])
    BY <1>1 DEF Telling
  <2> QED BY <1>1, <2>1
<1>4. n >= 1 /\ 1 \in 1 .. n /\ n \in 1 .. n
  BY <1>1
<1>5. i = 1
  <2> SUFFICES ASSUME i # 1 PROVE FALSE
    OBVIOUS
  <2>1. 1 < i
    BY <1>1
  <2>2. at[1] < at[i] /\ at[1] \in 1 .. q
    BY <1>1, <1>4, <2>1
  <2> QED BY <1>2, <2>2
<1>6. j = n
  <2> SUFFICES ASSUME j # n PROVE FALSE
    OBVIOUS
  <2>1. j < n
    BY <1>1
  <2>2. at[j] < at[n] /\ at[n] \in 1 .. q
    BY <1>1, <1>4, <2>1
  <2> QED BY <1>1, <1>3, <2>2
<1>7. t[1] = M[1]
  BY <1>1, <1>2, <1>4, <1>5
<1>8. t[n] = M[q]
  BY <1>1, <1>3, <1>4, <1>6
<1> QED BY <1>1, <1>4, <1>7, <1>8 DEF n

\* A reply that is left has its results after it.
LEMMA ReplyLeft ==
  ASSUME NEW at, NEW t, NEW M, Left(at, t, M), NEW i \in 1 .. Len(at), M[at[i]].role = "assistant"
  PROVE  LET k == Len(M[at[i]].calls)
         IN /\ k \in Nat /\ i + k <= Len(at) /\ \A j \in 0 .. k : at[i + j] = at[i] + j
            /\ \A j \in 1 .. k : t[i + j].role = "tool" /\ t[i + j].id = t[i].calls[j]
<1> DEFINE x == at[i]
           k == Len(M[x].calls)
           q == Len(M)
<1>1. /\ Enumerates(at, Telling1(M)) /\ Len(at) \in Nat /\ DOMAIN at = 1 .. Len(at) /\ i \in DOMAIN at
      /\ x \in 1 .. q /\ x \in Nat /\ q \in Nat
      /\ \A j \in 1 .. Len(at) : t[j] = M[at[j]]
      /\ \A y \in 1 .. q : Telling(M[y]) => y \in Telling1(M)
  BY LeftIs
<1>2. k \in Nat
  <2>1. M \in Seq(Message)
    BY DEF Left
  <2> QED BY <1>1, <2>1, MessageIs
<1>3. /\ x + k <= q
      /\ \A j \in 1 .. k : M[x + j].role = "tool" /\ M[x + j].id = M[x].calls[j]
  <2>1. Good(M, q) /\ x \in 1 .. q /\ M[x].role = "assistant"
    BY <1>1 DEF Left, GoodSoFar
  <2> HIDE DEF x, q
  <2> QED BY <2>1 DEF Good
<1>4. i \in Nat
  BY <1>1
<1>5. x = at[i]
  OBVIOUS
<1> HIDE DEF x, k, q
<1>6. \A j \in 1 .. k : x + j \in Telling1(M)
  <2> SUFFICES ASSUME NEW j \in 1 .. k PROVE x + j \in Telling1(M)
    OBVIOUS
  <2>1. x + j \in 1 .. q
    BY <1>1, <1>2, <1>3
  <2>2. Telling(M[x + j])
    BY <1>3 DEF Telling
  <2> QED BY <1>1, <2>1, <2>2
<1>7. \A j \in 0 .. k : i + j \in DOMAIN at /\ at[i + j] = x + j
  <2>1. MoreAfter(at, Telling1(M), i, x, k)
    BY <1>1, <1>5, <1>6 DEF MoreAfter
  <2> QED BY <1>2, <2>1, NextPlaces
<1>8. i + k <= Len(at)
  <2>1. k \in 0 .. k
    BY <1>2
  <2>2. i + k \in 1 .. Len(at)
    BY <1>1, <1>7, <2>1
  <2> QED BY <1>1, <2>2
<1>9. \A j \in 1 .. k : t[i + j].role = "tool" /\ t[i + j].id = t[i].calls[j]
  <2> SUFFICES ASSUME NEW j \in 1 .. k PROVE t[i + j].role = "tool" /\ t[i + j].id = t[i].calls[j]
    OBVIOUS
  <2>1. j \in 0 .. k
    BY <1>2
  <2>2. i + j \in 1 .. Len(at) /\ at[i + j] = x + j
    BY <1>1, <1>7, <2>1
  <2>3. t[i + j] = M[x + j] /\ t[i] = M[x]
    BY <1>1, <1>5, <2>2
  <2> QED BY <1>3, <2>3
<1> QED BY <1>2, <1>5, <1>7, <1>8, <1>9 DEF k, x

\* A result that is left has its reply before it.
LEMMA ResultLeft ==
  ASSUME NEW at, NEW t, NEW M, Left(at, t, M), NEW i \in 1 .. Len(at), M[at[i]].role = "tool"
  PROVE  \E b \in 1 .. i - 1 : t[b].role = "assistant" /\ i <= b + Len(t[b].calls)
<1> DEFINE n == Len(at)
           q == Len(M)
           x == at[i]
<1>1. /\ n \in Nat /\ q \in Nat /\ x \in 1 .. q /\ i \in 1 .. n
      /\ \A j \in 1 .. n : at[j] \in 1 .. q /\ at[j] \in Nat /\ t[j] = M[at[j]]
      /\ \A j, l \in 1 .. n : j < l => at[j] < at[l]
      /\ \A y \in 1 .. q : Telling(M[y]) => \E j \in 1 .. n : at[j] = y
  BY LeftIs
<1>2. Good(M, q)
  BY DEF Left, GoodSoFar
<1>7. M[x].role = "tool" /\ x = at[i]
  OBVIOUS
<1> HIDE DEF n, q, x
<1>3. PICK y \in 1 .. x - 1 : M[y].role = "assistant" /\ x <= y + Len(M[y].calls)
  BY <1>1, <1>2, <1>7 DEF Good
<1>4. y \in 1 .. q /\ y < x /\ x \in Nat /\ y \in Nat
  BY <1>1
<1>5. Len(M[y].calls) \in Nat
  <2>1. M \in Seq(Message)
    BY DEF Left
  <2> QED BY <1>4, <2>1, MessageIs DEF q
<1> DEFINE k == Len(M[y].calls)
<1>6. x <= y + k /\ k \in Nat
  BY <1>3, <1>5
<1>8. Telling(M[y])
  <2>1. M[y].calls # <<>>
    <3> SUFFICES ASSUME M[y].calls = <<>> PROVE FALSE
      OBVIOUS
    <3>1. k = 0
      OBVIOUS
    <3> HIDE DEF k
    <3> QED BY <1>4, <1>6, <3>1
  <2> QED BY <2>1 DEF Telling
<1>9. PICK b \in 1 .. n : at[b] = y
  BY <1>1, <1>4, <1>8
<1>10. M[at[b]].role = "assistant" /\ b \in 1 .. Len(at)
  BY <1>3, <1>9 DEF n
<1>11. Len(M[at[b]].calls) = k
  BY <1>9
<1>12. b + k <= n /\ \A j \in 0 .. k : at[b + j] = y + j
  <2>1. LET h == Len(M[at[b]].calls) IN b + h <= Len(at) /\ \A j \in 0 .. h : at[b + j] = at[b] + j
    BY <1>10, ReplyLeft
  <2> QED BY <1>9, <2>1 DEF n
<1>13. t[b].role = "assistant" /\ Len(t[b].calls) = k
  BY <1>1, <1>9, <1>10, <1>11
<1> HIDE DEF k
<1>14. x - y \in 0 .. k /\ y + (x - y) = x /\ x - y >= 1
  BY <1>4, <1>6
<1>15. b + (x - y) \in 1 .. n /\ at[b + (x - y)] = x
  <2>1. at[b + (x - y)] = y + (x - y)
    BY <1>12, <1>14
  <2>2. b + (x - y) \in Nat /\ b + (x - y) <= b + k /\ b + (x - y) >= 1
    BY <1>1, <1>6, <1>14
  <2>3. b + (x - y) \in 1 .. n
    BY <1>1, <1>6, <1>12, <2>2
  <2> QED BY <1>14, <2>1, <2>3
<1>16. i = b + (x - y)
  <2> DEFINE h == b + (x - y)
  <2>1. h \in 1 .. n /\ at[h] = x
    BY <1>15
  <2> HIDE DEF h
  <2>2. ~(h < i) /\ ~(i < h)
    <3>1. ~(x < x)
      BY <1>4
    <3> QED BY <1>1, <1>7, <2>1, <3>1
  <2>3. h \in Nat /\ i \in Nat
    BY <1>1, <2>1
  <2> QED BY <2>2, <2>3 DEF h
<1>17. b \in 1 .. i - 1 /\ i <= b + k
  BY <1>1, <1>6, <1>14, <1>16
<1> QED BY <1>13, <1>17

\* What is left of good messages is a valid conversation.
LEMMA LeftIsValid ==
  ASSUME NEW at, NEW t, NEW M, Left(at, t, M)
  PROVE  ValidRequest(t)
<1> DEFINE n == Len(t)
<1>1. n = Len(at) /\ n \in Nat /\ \A i \in 1 .. n : t[i] = M[at[i]]
  BY LeftIs
<1>2. n > 0 /\ t[1].role = "user" /\ t[n].role # "assistant"
  BY EndsLeft
<1> HIDE DEF n
<1>3. ASSUME NEW i \in 1 .. n, t[i].role = "assistant"
      PROVE  LET k == Len(t[i].calls) IN
             /\ i + k <= n
             /\ {t[j].id : j \in i + 1 .. i + k} = {t[i].calls[c] : c \in 1 .. k}
             /\ \A j \in i + 1 .. i + k : t[j].role = "tool"
  <2> DEFINE k == Len(t[i].calls)
  <2>1. i \in 1 .. Len(at) /\ M[at[i]].role = "assistant"
    BY <1>1, <1>3
  <2>9. k = Len(M[at[i]].calls)
    BY <1>1
  <2>2. LET h == Len(M[at[i]].calls)
        IN /\ h \in Nat /\ i + h <= Len(at)
           /\ \A j \in 1 .. h : t[i + j].role = "tool" /\ t[i + j].id = t[i].calls[j]
    BY <2>1, ReplyLeft
  <2>3. /\ k \in Nat /\ i + k <= n
        /\ \A j \in 1 .. k : t[i + j].role = "tool" /\ t[i + j].id = t[i].calls[j]
    BY <1>1, <2>2, <2>9
  <2> HIDE DEF k
  <2>4. i \in Nat
    BY <1>1
  <2>5. \A j \in i + 1 .. i + k : j - i \in 1 .. k /\ i + (j - i) = j
    BY <2>3, <2>4
  <2>6. \A j \in i + 1 .. i + k : t[j].role = "tool" /\ t[j].id = t[i].calls[j - i]
    <3> SUFFICES ASSUME NEW j \in i + 1 .. i + k PROVE t[j].role = "tool" /\ t[j].id = t[i].calls[j - i]
      OBVIOUS
    <3>1. j - i \in 1 .. k /\ i + (j - i) = j
      BY <2>5
    <3>2. t[i + (j - i)].role = "tool" /\ t[i + (j - i)].id = t[i].calls[j - i]
      BY <2>3, <3>1
    <3> QED BY <3>1, <3>2
  <2>7. \A c \in 1 .. k : i + c \in i + 1 .. i + k /\ t[i + c].id = t[i].calls[c]
    BY <2>3, <2>4
  <2>8. {t[j].id : j \in i + 1 .. i + k} = {t[i].calls[c] : c \in 1 .. k}
    BY <2>5, <2>6, <2>7
  <2> QED BY <2>3, <2>6, <2>8 DEF k
<1>4. ASSUME NEW i \in 1 .. n, t[i].role = "tool"
      PROVE  \E a \in 1 .. i - 1 : t[a].role = "assistant" /\ i <= a + Len(t[a].calls)
  <2>1. i \in 1 .. Len(at) /\ M[at[i]].role = "tool"
    BY <1>1, <1>4
  <2> QED BY <2>1, ResultLeft
<1> QED BY <1>2, <1>3, <1>4 DEF ValidRequest, n

\* The messages of a request are a valid conversation.
LEMMA MessagesValid ==
  ASSUME Named, LogOK(log), LogShape(log), NEW S, RequestOK(S)
  PROVE  ValidRequest(BuildMessages(S))
<1> DEFINE M == Flush(Built(S)[Len(log)]).msgs
           t == Those(M, Telling1(M))
<1>1. M \in Seq(Message) /\ GoodSoFar(M) /\ M[Len(M)].role # "assistant"
  BY MessagesGood
<1>2. BuildMessages(S) = t
  <2>1. Telling1(M) = {i \in DOMAIN M : M[i].role # "assistant" \/ M[i].full \/ M[i].calls # <<>>}
    BY DEF Telling1, Telling
  <2> QED BY <2>1 DEF BuildMessages
<1> HIDE DEF M
<1>3. Telling1(M) \subseteq DOMAIN M
  BY DEF Telling1
<1>4. PICK at : Picks(at, t, M, Telling1(M))
  BY <1>1, <1>3, ThoseIs
<1> HIDE DEF t
<1>5. Left(at, t, M)
  BY <1>1, <1>4 DEF Left
<1> QED BY <1>2, <1>5, LeftIsValid

\* The request of a model call is one.
LEMMA RequestIsValid ==
  ASSUME Named, ConversationIInv
  PROVE  RequestValid
<1> SUFFICES ASSUME At("request") PROVE ValidRequest(ActiveContext)
  BY DEF RequestValid, ValidRequest
<1> DEFINE P == OnBranch(Active)
<1>1. LogOK(log) /\ LogShape(log) /\ TurnShape(turn, log, Active)
  BY DEF ConversationIInv, ConversationInv
<1>2. P = SeenOn(log, Active) /\ Active \in Tree(log)
  BY <1>1, ActiveIs, PathIsSeen
<1>3. PathOK(log, P)
  BY <1>1, <1>2, BranchIsPath
<1>4. Ready(log, P)
  BY <1>1, <1>2 DEF TurnShape, At
<1>5. ActiveContext = BuildMessages(ContextEvents(P, LastCompaction(P)))
  BY DEF ActiveContext, Context
<1> HIDE DEF P
<1>6. RequestOK(ContextEvents(P, LastCompaction(P)))
  BY <1>1, <1>3, <1>4, ContextOpens
<1> DEFINE S == ContextEvents(P, LastCompaction(P))
<1> HIDE DEF S
<1>7. ValidRequest(BuildMessages(S))
  <2>1. RequestOK(S)
    BY <1>6 DEF S
  <2> QED BY <1>1, <2>1, MessagesValid
<1> QED BY <1>5, <1>7 DEF S

------------------------------------------------------------------------------
(* The theorems *)

\* On every branch the log gives back what was said there, in order, after any
\* replies, compactions, forks and cuts (branches.go's Tree.Path and Path.Filter).
THEOREM BranchesKeepApart == ConversationSpec => []PathIsTheBranch
<1>1. ConversationInv => PathIsTheBranch
  <2> SUFFICES ASSUME ConversationInv, NEW b \in Branches
               PROVE  InOrder(Len(log), OnBranch(b)) = told[b]
    BY DEF PathIsTheBranch
  <2> DEFINE S == OnBranch(b)
  <2>1. LogOK(log) /\ Len(log) \in Nat /\ DOMAIN log = 1 .. Len(log) /\ b \in Tree(log)
    BY ActiveIs, SeqIs DEF ConversationInv, LogOK
  <2>2. S = SeenOn(log, b)
    BY PathIsSeen
  <2>3. Enumerates(InOrder(Len(log), S), S)
    <3>1. S \in SUBSET (1 .. Len(log))
      BY <2>1, <2>2 DEF SeenOn
    <3> HIDE DEF S
    <3> QED BY <2>1, <3>1, OrderIs
  <2>4. Enumerates(told[b], S)
    BY <2>1, <2>2 DEF ConversationInv, ToldOK
  <2> HIDE DEF S
  <2>5. told[b] = InOrder(Len(log), S)
    BY <2>3, <2>4, OneOrder
  <2> QED BY <2>5 DEF S
<1>2. ConversationInv /\ [ConversationNext]_conversationVars => ConversationInv'
  BY ConversationGoesOn
<1> QED BY ConversationStarts, <1>1, <1>2, PTL DEF ConversationSpec

\* The request of a model call and the summary in it stand for all that was said
\* on the active branch, and for nothing else.
THEOREM CompactionForgetsNothing == ConversationSpec => []NothingForgotten
<1>1. ConversationIInv => NothingForgotten
  BY RequestTells DEF NothingForgotten
<1>2. ConversationIInv /\ [ConversationNext]_conversationVars => ConversationIInv'
  BY ShapeGoesOn
<1> QED BY ShapeStarts, <1>1, <1>2, PTL DEF ConversationSpec

\* With a server that names its tool calls, every request is a valid conversation:
\* however the turns before it ended, and wherever a compaction cut them.
THEOREM RequestsAreValid == Named => (ConversationSpec => []RequestValid)
<1> SUFFICES ASSUME Named PROVE ConversationSpec => []RequestValid
  OBVIOUS
<1>1. ConversationIInv => RequestValid
  BY RequestIsValid
<1>2. ConversationIInv /\ [ConversationNext]_conversationVars => ConversationIInv'
  BY ShapeGoesOn
<1> QED BY ShapeStarts, <1>1, <1>2, PTL DEF ConversationSpec
==============================================================================
