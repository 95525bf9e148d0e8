-------------------------- MODULE SessionQueueProofs --------------------------
(***************************************************************************)
(* The queue of a session against its log, for every set of messages and   *)
(* goroutines and every bound: a restart rebuilds the queue there is, a    *)
(* message joins the conversation once and in its turn, and none gets      *)
(* lost but by a death of the process.                                     *)
(*                                                                         *)
(* A handler that delivers messages records events one by one, and an      *)
(* append that fails cuts it short anywhere.  The proof follows the events *)
(* one at a time: log l and queue q agree after each, by induction on how  *)
(* many of them are recorded.                                              *)
(***************************************************************************)
EXTENDS SessionProofs

------------------------------------------------------------------------------
(* Queues *)

\* The rest of a queue.
LEMMA TailIs ==
  ASSUME NEW q \in Seq(Entries), q # <<>>
  PROVE  /\ Tail(q) \in Seq(Entries) /\ Len(q) \in Nat \ {0} /\ Len(Tail(q)) = Len(q) - 1
         /\ \A i \in 1 .. Len(q) - 1 : Tail(q)[i] = q[i + 1]
         /\ q[1] \in Entries
  <1>1. Len(q) \in Nat \ {0}
    BY EmptySeq
  <1>2. q[1] \in Entries
    BY <1>1, ElementOfSeq
  <1>. QED
    BY <1>1, <1>2, HeadTailProperties

\* A queue without elements.
LEMMA NoEntries ==
  ASSUME NEW q \in Seq(Entries)
  PROVE  q = <<>> <=> Len(q) = 0
  BY EmptySeq

\* A message that joins the rest of a queue joins the queue.
LEMMA TailOfAppend ==
  ASSUME NEW q \in Seq(Entries), q # <<>>, NEW e \in Entries
  PROVE  Append(q, e) # <<>> /\ Tail(Append(q, e)) = Append(Tail(q), e)
  BY HeadTailAppend, AppendProperties

\* What an edit does to the rest of a queue it does to the queue.
LEMMA TailOfEdited ==
  ASSUME NEW q \in Seq(Entries), q # <<>>, NEW m
  PROVE  Edited(q, m) # <<>> /\ Tail(Edited(q, m)) = Edited(Tail(q), m)
  <1>. DEFINE c == Tail(q)
              d == Edited(q, m)
              e == Edited(c, m)
  <1>1. /\ c \in Seq(Entries) /\ Len(q) \in Nat \ {0} /\ Len(c) = Len(q) - 1
        /\ \A i \in 1 .. Len(q) - 1 : c[i] = q[i + 1]
    BY TailIs
  <1>2. d \in Seq(Entries) /\ Len(d) = Len(q) /\ e \in Seq(Entries) /\ Len(e) = Len(c)
    BY <1>1, EditedIs
  <1>3. d # <<>>
    BY <1>1, <1>2, NoEntries
  <1>4. /\ Tail(d) \in Seq(Entries) /\ Len(Tail(d)) = Len(d) - 1
        /\ \A i \in 1 .. Len(d) - 1 : Tail(d)[i] = d[i + 1]
    BY <1>2, <1>3, TailIs
  <1>5. \A i \in 1 .. Len(e) : Tail(d)[i] = e[i]
    <2>1. DOMAIN q = 1 .. Len(q) /\ DOMAIN c = 1 .. Len(c)
      BY <1>1, LenProperties
    <2>2. /\ \A i \in 1 .. Len(q) : d[i] = IF q[i].id = m THEN [q[i] EXCEPT !.edited = TRUE] ELSE q[i]
          /\ \A i \in 1 .. Len(c) : e[i] = IF c[i].id = m THEN [c[i] EXCEPT !.edited = TRUE] ELSE c[i]
      BY <2>1 DEF Edited
    <2>. HIDE DEF c, d, e
    <2>. TAKE i \in 1 .. Len(e)
    <2>3. i \in 1 .. Len(c) /\ i \in 1 .. Len(d) - 1 /\ i + 1 \in 1 .. Len(q) /\ c[i] = q[i + 1]
      BY <1>1, <1>2
    <2>4. Tail(d)[i] = d[i + 1]
      BY <1>4, <2>3
    <2>5. d[i + 1] = IF q[i + 1].id = m THEN [q[i + 1] EXCEPT !.edited = TRUE] ELSE q[i + 1]
      BY <2>2, <2>3
    <2>6. e[i] = IF c[i].id = m THEN [c[i] EXCEPT !.edited = TRUE] ELSE c[i]
      BY <2>2, <2>3
    <2>. QED
      BY <2>3, <2>4, <2>5, <2>6
  <1>. HIDE DEF c, d, e
  <1>6. Tail(d) = e
    BY <1>1, <1>2, <1>4, <1>5, SeqEqual
  <1>. QED
    BY <1>3, <1>6 DEF c, d, e

\* The ids of a queue are different.
Distinct(q) == \A a, b \in 1 .. Len(q) : q[a].id = q[b].id => a = b

InQueue(q) == {q[a].id : a \in 1 .. Len(q)}

\* Taking the first message out.
LEMMA WithoutFirst ==
  ASSUME NEW q \in Seq(Entries), q # <<>>, Distinct(q)
  PROVE  Without(q, q[1].id) = Tail(q) /\ Without(Tail(q), q[1].id) = Tail(q)
  <1>1. /\ Tail(q) \in Seq(Entries) /\ Len(q) \in Nat \ {0} /\ Len(Tail(q)) = Len(q) - 1
        /\ \A i \in 1 .. Len(q) - 1 : Tail(q)[i] = q[i + 1]
        /\ DOMAIN q = 1 .. Len(q) /\ DOMAIN Tail(q) = 1 .. Len(Tail(q))
    BY TailIs, LenProperties
  <1>2. Without(q, q[1].id) = Tail(q)
    <2>1. \E i \in DOMAIN q : q[i].id = q[1].id
      BY <1>1
    <2>2. PICK f \in 1 .. Len(q) :
             /\ q[f].id = q[1].id
             /\ Without(q, q[1].id) \in Seq(Entries) /\ Len(Without(q, q[1].id)) = Len(q) - 1
             /\ \A i \in 1 .. Len(q) - 1 :
                  Without(q, q[1].id)[i] = q[IF i < f THEN i ELSE i + 1]
      BY <2>1, WithoutIs
    <2>3. f = 1
      <3>1. 1 \in 1 .. Len(q)
        BY <1>1
      <3>. QED
        BY <2>2, <3>1 DEF Distinct
    <2>. DEFINE w == Without(q, q[1].id)
    <2>4. \A i \in 1 .. Len(q) - 1 : w[i] = Tail(q)[i]
      <3>1. \A i \in 1 .. Len(q) - 1 : w[i] = q[IF i < 1 THEN i ELSE i + 1]
        BY <2>2, <2>3
      <3>2. \A i \in 1 .. Len(q) - 1 : ~(i < 1)
        BY <1>1
      <3>. HIDE DEF w
      <3>. QED
        BY <1>1, <3>1, <3>2
    <2>. QED
      BY <1>1, <2>2, <2>4, SeqEqual
  <1>3. \A i \in DOMAIN Tail(q) : Tail(q)[i].id # q[1].id
    <2>. SUFFICES ASSUME NEW i \in 1 .. Len(q) - 1 PROVE q[i + 1].id # q[1].id
      BY <1>1
    <2>1. i + 1 \in 1 .. Len(q) /\ 1 \in 1 .. Len(q) /\ i + 1 # 1
      BY <1>1
    <2>. QED
      BY <2>1 DEF Distinct
  <1>4. Without(Tail(q), q[1].id) = Tail(q)
    <2>. DEFINE c == Tail(q)
    <2>1. \A i \in DOMAIN c : c[i].id # q[1].id
      BY <1>3
    <2>. HIDE DEF c
    <2>2. Without(c, q[1].id) = c
      BY <2>1, WithoutNone
    <2>. QED
      BY <2>2 DEF c
  <1>. QED
    BY <1>2, <1>4

\* Taking out another one.
LEMMA WithoutLater ==
  ASSUME NEW q \in Seq(Entries), q # <<>>, NEW m, q[1].id # m
  PROVE  Without(q, m) # <<>> /\ Tail(Without(q, m)) = Without(Tail(q), m)
  <1>. DEFINE c == Tail(q)
              d == Without(q, m)
              e == Without(c, m)
  <1>1. /\ c \in Seq(Entries) /\ Len(q) \in Nat \ {0} /\ Len(c) = Len(q) - 1
        /\ \A i \in 1 .. Len(q) - 1 : c[i] = q[i + 1]
        /\ DOMAIN q = 1 .. Len(q) /\ DOMAIN c = 1 .. Len(c)
    BY TailIs, LenProperties
  <1>2. CASE \A i \in DOMAIN q : q[i].id # m
    <2>1. \A i \in DOMAIN c : c[i].id # m
      BY <1>1, <1>2
    <2>. QED
      BY <1>2, <2>1, WithoutNone
  <1>3. CASE \E i \in DOMAIN q : q[i].id = m
    <2>1. PICK f \in 1 .. Len(q) :
             /\ q[f].id = m /\ \A j \in 1 .. f - 1 : q[j].id # m
             /\ d \in Seq(Entries) /\ Len(d) = Len(q) - 1
             /\ \A i \in 1 .. Len(q) - 1 : d[i] = q[IF i < f THEN i ELSE i + 1]
      BY <1>3, WithoutIs
    <2>2. f # 1 /\ f - 1 \in 1 .. Len(c) /\ c[f - 1].id = m
      BY <1>1, <2>1
    <2>3. PICK g \in 1 .. Len(c) :
             /\ c[g].id = m /\ \A j \in 1 .. g - 1 : c[j].id # m
             /\ e \in Seq(Entries) /\ Len(e) = Len(c) - 1
             /\ \A i \in 1 .. Len(c) - 1 : e[i] = c[IF i < g THEN i ELSE i + 1]
      <3>1. c \in Seq(Entries) /\ \E i \in DOMAIN c : c[i].id = m
        BY <1>1, <2>2
      <3>. HIDE DEF c
      <3>. QED
        BY <3>1, WithoutIs
    <2>. HIDE DEF c, d, e
    <2>4. g = f - 1
      <3>1. ~(g < f - 1)
        <4>1. g < f - 1 => g + 1 \in 1 .. f - 1 /\ c[g] = q[g + 1]
          BY <1>1, <2>1, <2>3
        <4>. QED
          BY <2>1, <2>3, <4>1
      <3>2. ~(f - 1 < g)
        <4>1. f - 1 < g => f - 1 \in 1 .. g - 1
          BY <2>2, <2>3
        <4>. QED
          BY <2>2, <2>3, <4>1
      <3>. QED
        BY <1>1, <2>1, <2>3, <3>1, <3>2
    <2>5. d # <<>>
      BY <1>1, <2>1, <2>2, NoEntries
    <2>6. /\ Tail(d) \in Seq(Entries) /\ Len(Tail(d)) = Len(d) - 1
          /\ \A i \in 1 .. Len(d) - 1 : Tail(d)[i] = d[i + 1]
      BY <2>1, <2>5, TailIs
    <2>7. ASSUME NEW i \in 1 .. Len(e) PROVE Tail(d)[i] = e[i]
      <3>1. i \in 1 .. Len(d) - 1 /\ i + 1 \in 1 .. Len(q) - 1 /\ i \in 1 .. Len(c) - 1
        BY <1>1, <2>1, <2>3
      <3>2. /\ Tail(d)[i] = q[IF i + 1 < f THEN i + 1 ELSE i + 1 + 1]
            /\ e[i] = c[IF i < g THEN i ELSE i + 1]
        BY <2>1, <2>3, <2>6, <3>1
      <3>3. (i < g <=> i + 1 < f) /\ i \in Nat
        BY <2>1, <2>3, <2>4, <3>1
      <3>4. c[i] = q[i + 1]
        BY <1>1, <3>1
      <3>5. i + 1 \in 1 .. Len(q) - 1 /\ c[i + 1] = q[i + 1 + 1]
        BY <1>1, <2>1, <2>3, <3>1
      <3>6. CASE i < g
        BY <3>2, <3>3, <3>4, <3>6
      <3>7. CASE ~(i < g)
        BY <3>2, <3>3, <3>5, <3>7
      <3>. QED
        BY <3>6, <3>7
    <2>8. Tail(d) = e
      <3>1. Len(Tail(d)) = Len(e)
        BY <1>1, <2>1, <2>3, <2>6
      <3>. QED
        BY <2>3, <2>6, <2>7, <3>1, SeqEqual
    <2>. QED
      BY <2>5, <2>8 DEF c, d, e
  <1>. QED
    BY <1>2, <1>3

------------------------------------------------------------------------------
(* A log and a queue *)

\* The queue holds messages that are queued in the log and not delivered; of the
\* queued messages those delivered are the first, in their order, and the
\* others wait in theirs.
Ordered(l, q) ==
  LET sent == AtIn(l, "queued")
      seen == AtIn(l, "user")
  IN
  /\ Distinct(q)
  /\ InQueue(q) \subseteq IdsIn(l, "queued") \ IdsIn(l, "user")
  /\ \A i, j \in sent : l[i].id = l[j].id => i = j
  /\ \A i, j \in seen : l[i].id = l[j].id => i = j
  /\ \A i, j \in sent : \A k, n \in seen :
       i < j /\ l[k].id = l[i].id /\ l[n].id = l[j].id => k < n
  /\ \A i, j \in sent : i < j /\ l[j].id \in IdsIn(l, "user") => l[i].id \notin InQueue(q)
  /\ \A a, b \in 1 .. Len(q) : \A i, j \in sent :
       i < j /\ l[i].id = q[a].id /\ l[j].id = q[b].id => a < b

\* A restart finds this queue, or has the first message's delivery behind it.
Reloads(l, q) == LoadQueue(l) = q \/ (q # <<>> /\ LoadQueue(l) = Tail(q))

\* Queued messages that are neither waiting, nor withdrawn, nor delivered.
LostIn(l, q) ==
  IdsIn(l, "queued") \ (InQueue(q) \cup IdsIn(l, "cancelled") \cup IdsIn(l, "user"))

\* A part of the queue, in its order, agrees with the log as well.
LEMMA OrderedPart ==
  ASSUME NEW l \in Seq(Event), NEW q \in Seq(Entries), NEW c \in Seq(Entries), Ordered(l, q),
         NEW g \in [1 .. Len(c) -> 1 .. Len(q)],
         \A a, b \in 1 .. Len(c) : a < b => g[a] < g[b],
         \A a \in 1 .. Len(c) : c[a].id = q[g[a]].id
  PROVE  Ordered(l, c) /\ InQueue(c) \subseteq InQueue(q)
  <1>1. Len(c) \in Nat /\ Len(q) \in Nat
    BY LenProperties
  <1>2. ASSUME NEW a \in 1 .. Len(c), NEW b \in 1 .. Len(c), g[a] < g[b]
        PROVE  a < b
    <2>1. g[a] \in Int /\ g[b] \in Int /\ a \in Int /\ b \in Int
      <3>1. g[a] \in 1 .. Len(q) /\ g[b] \in 1 .. Len(q)
        OBVIOUS
      <3>. QED
        BY <1>1, <3>1
    <2>2. ~(b < a) /\ a # b
      <3>1. b < a => g[b] < g[a]
        OBVIOUS
      <3>. QED
        BY <1>2, <2>1, <3>1
    <2>. QED
      BY <2>1, <2>2
  <1>3. InQueue(c) \subseteq InQueue(q)
    BY DEF InQueue
  <1>4. Distinct(c)
    <2>. SUFFICES ASSUME NEW a \in 1 .. Len(c), NEW b \in 1 .. Len(c), c[a].id = c[b].id
                  PROVE  a = b
      BY DEF Distinct
    <2>1. g[a] = g[b]
      <3>1. Distinct(q)
        BY DEF Ordered
      <3>2. g[a] \in 1 .. Len(q) /\ g[b] \in 1 .. Len(q) /\ q[g[a]].id = q[g[b]].id
        OBVIOUS
      <3>. QED
        BY <3>1, <3>2 DEF Distinct
    <2>2. ~(a < b) /\ ~(b < a)
      <3>1. a < b => g[a] < g[b]
        OBVIOUS
      <3>2. b < a => g[b] < g[a]
        OBVIOUS
      <3>3. g[a] \in Int
        <4>1. g[a] \in 1 .. Len(q)
          OBVIOUS
        <4>. QED
          BY <1>1, <4>1
      <3>. QED
        BY <2>1, <3>1, <3>2, <3>3
    <2>3. a \in Int /\ b \in Int
      BY <1>1
    <2>. QED
      BY <2>2, <2>3
  <1>5. \A a, b \in 1 .. Len(c) : \A i, j \in AtIn(l, "queued") :
          i < j /\ l[i].id = c[a].id /\ l[j].id = c[b].id => a < b
    <2>. TAKE a, b \in 1 .. Len(c)
    <2>. TAKE i, j \in AtIn(l, "queued")
    <2>. HAVE i < j /\ l[i].id = c[a].id /\ l[j].id = c[b].id
    <2>1. l[i].id = q[g[a]].id /\ l[j].id = q[g[b]].id
      OBVIOUS
    <2>2. g[a] < g[b]
      BY <2>1 DEF Ordered
    <2>. QED
      BY <1>2, <2>2
  <1>. QED
    BY <1>3, <1>4, <1>5 DEF Ordered

\* An id that a log has is one event's.
LEMMA IdAt ==
  ASSUME NEW l, NEW kind, NEW x \in IdsIn(l, kind)
  PROVE  \E i \in AtIn(l, kind) : l[i].id = x
  BY DEF IdsIn

\* An event's id is one of those of its kind.
LEMMA AtId ==
  ASSUME NEW l, NEW kind, NEW i \in AtIn(l, kind)
  PROVE  l[i].id \in IdsIn(l, kind)
  BY DEF IdsIn

\* An event that neither queues a message nor is one.
LEMMA OrderedOther ==
  ASSUME NEW l \in Seq(Event), NEW q \in Seq(Entries), NEW e \in Event,
         e.kind \notin {"queued", "user"}, Ordered(l, q)
  PROVE  Ordered(l \o <<e>>, q)
  <1>. DEFINE k == l \o <<e>>
  <1>1. /\ AtIn(k, "queued") = AtIn(l, "queued") /\ IdsIn(k, "queued") = IdsIn(l, "queued")
        /\ \A i \in AtIn(l, "queued") : k[i] = l[i]
    BY OtherKinds
  <1>2. /\ AtIn(k, "user") = AtIn(l, "user") /\ IdsIn(k, "user") = IdsIn(l, "user")
        /\ \A i \in AtIn(l, "user") : k[i] = l[i]
    BY OtherKinds
  <1>. HIDE DEF k
  <1>3. Ordered(k, q)
    BY <1>1, <1>2 DEF Ordered
  <1>. QED
    BY <1>3 DEF k

\* A new message is queued, last.
LEMMA OrderedQueued ==
  ASSUME NEW l \in Seq(Event), NEW q \in Seq(Entries), NEW m \in Msgs, Ordered(l, q),
         m \notin IdsIn(l, "queued") \cup IdsIn(l, "user")
  PROVE  Ordered(l \o <<QueuedEv(m)>>, Append(q, Entry(m)))
  <1>. DEFINE k == l \o <<QueuedEv(m)>>
              c == Append(q, Entry(m))
              N == Len(l) + 1
              S == AtIn(l, "queued")
              U == AtIn(l, "user")
  <1>1. QueuedEv(m) \in Event /\ QueuedEv(m).kind = "queued" /\ QueuedEv(m).id = m
    BY EventKinds
  <1>2. /\ AtIn(k, "queued") = S \cup {N} /\ IdsIn(k, "queued") = IdsIn(l, "queued") \cup {m}
        /\ k[N].id = m /\ N \in Nat /\ \A i \in S : k[i] = l[i] /\ i \in Nat /\ i < N
    <2>1. /\ AtIn(k, QueuedEv(m).kind) = AtIn(l, QueuedEv(m).kind) \cup {N}
          /\ IdsIn(k, QueuedEv(m).kind) = IdsIn(l, QueuedEv(m).kind) \cup {QueuedEv(m).id}
          /\ k[N] = QueuedEv(m)
          /\ \A i \in AtIn(l, QueuedEv(m).kind) : k[i] = l[i] /\ i \in 1 .. Len(l)
      BY <1>1, OneOfKind
    <2>2. Len(l) \in Nat
      BY LenProperties
    <2>. QED
      BY <1>1, <2>1, <2>2
  <1>3. /\ AtIn(k, "user") = U /\ IdsIn(k, "user") = IdsIn(l, "user")
        /\ \A i \in U : k[i] = l[i]
    BY <1>1, OtherKinds
  <1>4. /\ Len(q) \in Nat /\ Len(c) = Len(q) + 1 /\ \A a \in 1 .. Len(q) : c[a] = q[a]
        /\ c[Len(q) + 1].id = m
    <2>1. Entry(m) \in Entries /\ Entry(m).id = m
      BY DEF Entry, Entries
    <2>. QED
      BY <2>1, AppendProperties, LenProperties
  <1>5. InQueue(c) = InQueue(q) \cup {m}
    <2>1. \A a \in 1 .. Len(c) : a \in 1 .. Len(q) \/ a = Len(q) + 1
      BY <1>4
    <2>2. Len(q) + 1 \in 1 .. Len(c) /\ \A a \in 1 .. Len(q) : a \in 1 .. Len(c)
      BY <1>4
    <2>. QED
      BY <1>4, <2>1, <2>2 DEF InQueue
  <1>6. \A i \in S : l[i].id # m
    BY AtId
  <1>7. \A i \in U : l[i].id # m
    BY AtId
  <1>8. m \notin InQueue(q) /\ InQueue(q) \subseteq IdsIn(l, "queued") \ IdsIn(l, "user")
    BY DEF Ordered
  <1>9. Distinct(c)
    <2>. SUFFICES ASSUME NEW a \in 1 .. Len(c), NEW b \in 1 .. Len(c), c[a].id = c[b].id
                  PROVE  a = b
      BY DEF Distinct
    <2>1. \A x \in 1 .. Len(q) : q[x].id # m
      BY <1>8 DEF InQueue
    <2>2. \A x, y \in 1 .. Len(q) : q[x].id = q[y].id => x = y
      BY DEF Ordered, Distinct
    <2>3. \A x \in 1 .. Len(c) : x \in 1 .. Len(q) \/ x = Len(q) + 1
      BY <1>4
    <2>. HIDE DEF c
    <2>. QED
      BY <1>4, <2>1, <2>2, <2>3
  <1>. HIDE DEF k, c, N
  <1>10. \A i, j \in S \cup {N} : k[i].id = k[j].id => i = j
    BY <1>2, <1>6 DEF Ordered
  <1>11. \A i, j \in S \cup {N} : \A x, n \in U :
           i < j /\ k[x].id = k[i].id /\ k[n].id = k[j].id => x < n
    BY <1>2, <1>3, <1>7 DEF Ordered
  <1>12. \A i, j \in S \cup {N} : i < j /\ k[j].id \in IdsIn(l, "user") => k[i].id \notin InQueue(c)
    <2>. TAKE i, j \in S \cup {N}
    <2>. HAVE i < j /\ k[j].id \in IdsIn(l, "user")
    <2>1. j \in S /\ k[j] = l[j]
      BY <1>2
    <2>2. i # N
      BY <1>2, <2>1
    <2>3. i \in S /\ k[i] = l[i] /\ l[i].id # m
      BY <1>2, <1>6, <2>2
    <2>4. l[i].id \notin InQueue(q)
      BY <2>1, <2>3 DEF Ordered
    <2>. QED
      BY <1>5, <2>3, <2>4
  <1>13. \A a, b \in 1 .. Len(c) : \A i, j \in S \cup {N} :
           i < j /\ k[i].id = c[a].id /\ k[j].id = c[b].id => a < b
    <2>. TAKE a, b \in 1 .. Len(c)
    <2>. TAKE i, j \in S \cup {N}
    <2>. HAVE i < j /\ k[i].id = c[a].id /\ k[j].id = c[b].id
    <2>1. i # N
      BY <1>2
    <2>2. i \in S /\ k[i] = l[i] /\ l[i].id # m
      BY <1>2, <1>6, <2>1
    <2>3. a \in 1 .. Len(q) /\ c[a] = q[a]
      BY <1>4, <2>2
    <2>4. CASE b = Len(q) + 1
      BY <1>4, <2>3, <2>4
    <2>5. CASE b \in 1 .. Len(q)
      <3>1. c[b] = q[b] /\ q[b].id # m
        BY <1>4, <1>8, <2>5 DEF InQueue
      <3>2. j \in S /\ k[j] = l[j]
        BY <1>2, <3>1
      <3>. QED
        BY <2>2, <2>3, <2>5, <3>1, <3>2 DEF Ordered
    <2>. QED
      BY <1>4, <2>4, <2>5
  <1>14. \A i, j \in U : k[i].id = k[j].id => i = j
    BY <1>3 DEF Ordered
  <1>15. InQueue(c) \subseteq IdsIn(k, "queued") \ IdsIn(k, "user")
    BY <1>2, <1>3, <1>5, <1>8
  <1>16. Ordered(k, c)
    BY <1>2, <1>3, <1>9, <1>10, <1>11, <1>12, <1>13, <1>14, <1>15 DEF Ordered
  <1>. QED
    BY <1>16 DEF k, c

\* The first message of the queue joins the conversation.
LEMMA OrderedHead ==
  ASSUME NEW l \in Seq(Event), NEW q \in Seq(Entries), NEW e \in BOOLEAN, Ordered(l, q), q # <<>>
  PROVE  Ordered(l \o <<UserEv(q[1].id, e)>>, Tail(q))
  <1>. DEFINE m == q[1].id
              ev == UserEv(m, e)
              k == l \o <<ev>>
              c == Tail(q)
              N == Len(l) + 1
              S == AtIn(l, "queued")
              U == AtIn(l, "user")
  <1>1. m \in Msgs /\ ev \in Event /\ ev.kind = "user" /\ ev.id = m
    <2>1. m \in Msgs
      BY TailIs DEF Entries
    <2>. QED
      BY <2>1, EventKinds
  <1>4. /\ c \in Seq(Entries) /\ Len(q) \in Nat \ {0} /\ Len(c) = Len(q) - 1
        /\ \A a \in 1 .. Len(q) - 1 : c[a] = q[a + 1]
    BY TailIs
  <1>. HIDE DEF c, ev
  <1>2. /\ AtIn(k, "user") = U \cup {N} /\ IdsIn(k, "user") = IdsIn(l, "user") \cup {m}
        /\ k[N].id = m /\ \A i \in U : k[i] = l[i] /\ i < N
    <2>1. /\ AtIn(k, ev.kind) = AtIn(l, ev.kind) \cup {N}
          /\ IdsIn(k, ev.kind) = IdsIn(l, ev.kind) \cup {ev.id}
          /\ k[N] = ev
          /\ \A i \in AtIn(l, ev.kind) : k[i] = l[i] /\ i \in 1 .. Len(l)
      BY <1>1, OneOfKind
    <2>2. Len(l) \in Nat
      BY LenProperties
    <2>. QED
      BY <1>1, <2>1, <2>2
  <1>3. /\ AtIn(k, "queued") = S /\ IdsIn(k, "queued") = IdsIn(l, "queued")
        /\ \A i \in S : k[i] = l[i]
    BY <1>1, OtherKinds
  <1>5. m \in InQueue(q) /\ m \in IdsIn(l, "queued") \ IdsIn(l, "user")
    <2>1. 1 \in 1 .. Len(q)
      BY <1>4
    <2>2. m \in InQueue(q)
      BY <2>1 DEF InQueue
    <2>. QED
      BY <2>2 DEF Ordered
  <1>6. Distinct(c) /\ InQueue(c) \subseteq InQueue(q) \ {m}
    <2>1. \A a \in 1 .. Len(c) : a + 1 \in 1 .. Len(q) /\ a + 1 # 1 /\ c[a] = q[a + 1]
      BY <1>4
    <2>2. 1 \in 1 .. Len(q) /\ \A x, y \in 1 .. Len(q) : q[x].id = q[y].id => x = y
      BY <1>4 DEF Ordered, Distinct
    <2>3. Distinct(c)
      <3>. SUFFICES ASSUME NEW a \in 1 .. Len(c), NEW b \in 1 .. Len(c), c[a].id = c[b].id
                    PROVE  a = b
        BY DEF Distinct
      <3>1. a + 1 = b + 1
        BY <2>1, <2>2
      <3>. QED
        BY <3>1
    <2>4. \A a \in 1 .. Len(c) : c[a].id \in InQueue(q) /\ c[a].id # m
      BY <2>1, <2>2 DEF InQueue
    <2>. QED
      BY <2>3, <2>4 DEF InQueue
  <1>7. \A i \in U : l[i].id # m
    BY <1>5, AtId
  <1>. HIDE DEF k, N, m
  <1>8. \A i, j \in U \cup {N} : k[i].id = k[j].id => i = j
    BY <1>2, <1>7 DEF Ordered
  <1>9. \A i, j \in S : k[i].id = k[j].id => i = j
    BY <1>3 DEF Ordered
  <1>10. \A i, j \in S : \A x, n \in U \cup {N} :
           i < j /\ k[x].id = k[i].id /\ k[n].id = k[j].id => x < n
    <2>. TAKE i, j \in S
    <2>. TAKE x, n \in U \cup {N}
    <2>. HAVE i < j /\ k[x].id = k[i].id /\ k[n].id = k[j].id
    <2>0. i \in Nat /\ j \in Nat
      BY LenProperties DEF AtIn
    <2>1. x # N
      <3>. SUFFICES ASSUME x = N PROVE FALSE
        OBVIOUS
      <3>1. l[i].id = m /\ n # N
        <4>1. l[i].id = m
          BY <1>2, <1>3
        <4>2. n = N => l[j].id = m
          BY <1>2, <1>3
        <4>3. l[i].id = l[j].id => i = j
          BY DEF Ordered
        <4>. QED
          BY <2>0, <4>1, <4>2, <4>3
      <3>2. l[j].id \in IdsIn(l, "user")
        <4>1. n \in U /\ l[n].id = l[j].id
          BY <1>2, <1>3, <3>1
        <4>. QED
          BY <4>1, AtId
      <3>3. l[i].id \notin InQueue(q)
        BY <3>2 DEF Ordered
      <3>. QED
        BY <1>5, <3>1, <3>3
    <2>2. CASE n = N
      BY <1>2, <2>1, <2>2
    <2>3. CASE n # N
      BY <1>2, <1>3, <2>1, <2>3 DEF Ordered
    <2>. QED
      BY <2>2, <2>3
  <1>11. \A i, j \in S : i < j /\ k[j].id \in IdsIn(k, "user") => k[i].id \notin InQueue(c)
    <2>. TAKE i, j \in S
    <2>. HAVE i < j /\ k[j].id \in IdsIn(k, "user")
    <2>1. CASE l[j].id \in IdsIn(l, "user")
      <3>1. l[i].id \notin InQueue(q)
        BY <2>1 DEF Ordered
      <3>. QED
        BY <1>3, <1>6, <3>1
    <2>2. CASE l[j].id = m
      <3>. SUFFICES ASSUME NEW a \in 1 .. Len(c), l[i].id = c[a].id
                    PROVE  FALSE
        BY <1>3 DEF InQueue
      <3>1. a + 1 \in 1 .. Len(q) /\ 1 \in 1 .. Len(q) /\ l[i].id = q[a + 1].id
        BY <1>4
      <3>2. a + 1 < 1
        BY <2>2, <3>1 DEF Ordered, m
      <3>. QED
        BY <3>2
    <2>. QED
      BY <1>2, <1>3, <2>1, <2>2
  <1>12. \A a, b \in 1 .. Len(c) : \A i, j \in S :
           i < j /\ k[i].id = c[a].id /\ k[j].id = c[b].id => a < b
    <2>. TAKE a, b \in 1 .. Len(c)
    <2>. TAKE i, j \in S
    <2>. HAVE i < j /\ k[i].id = c[a].id /\ k[j].id = c[b].id
    <2>1. /\ a + 1 \in 1 .. Len(q) /\ b + 1 \in 1 .. Len(q)
          /\ l[i].id = q[a + 1].id /\ l[j].id = q[b + 1].id
      BY <1>3, <1>4
    <2>2. a + 1 < b + 1
      BY <2>1 DEF Ordered
    <2>. QED
      BY <2>2
  <1>13. InQueue(c) \subseteq IdsIn(k, "queued") \ IdsIn(k, "user")
    BY <1>2, <1>3, <1>6 DEF Ordered
  <1>14. Ordered(k, c)
    BY <1>2, <1>3, <1>6, <1>8, <1>9, <1>10, <1>11, <1>12, <1>13 DEF Ordered
  <1>. QED
    BY <1>14 DEF k, c, ev, m

\* A message that was never queued joins the conversation.
LEMMA OrderedDirect ==
  ASSUME NEW l \in Seq(Event), NEW q \in Seq(Entries), NEW m \in Msgs, Ordered(l, q),
         m \notin IdsIn(l, "queued") \cup IdsIn(l, "user")
  PROVE  Ordered(l \o <<UserEv(m, FALSE)>>, q)
  <1>. DEFINE ev == UserEv(m, FALSE)
              k == l \o <<ev>>
              N == Len(l) + 1
              S == AtIn(l, "queued")
              U == AtIn(l, "user")
  <1>1. ev \in Event /\ ev.kind = "user" /\ ev.id = m
    BY EventKinds
  <1>. HIDE DEF ev
  <1>2. /\ AtIn(k, "user") = U \cup {N} /\ IdsIn(k, "user") = IdsIn(l, "user") \cup {m}
        /\ k[N].id = m /\ \A i \in U : k[i] = l[i] /\ i < N
    <2>1. /\ AtIn(k, ev.kind) = AtIn(l, ev.kind) \cup {N}
          /\ IdsIn(k, ev.kind) = IdsIn(l, ev.kind) \cup {ev.id}
          /\ k[N] = ev
          /\ \A i \in AtIn(l, ev.kind) : k[i] = l[i] /\ i \in 1 .. Len(l)
      BY <1>1, OneOfKind
    <2>2. Len(l) \in Nat
      BY LenProperties
    <2>. QED
      BY <1>1, <2>1, <2>2
  <1>3. /\ AtIn(k, "queued") = S /\ IdsIn(k, "queued") = IdsIn(l, "queued")
        /\ \A i \in S : k[i] = l[i]
    BY <1>1, OtherKinds
  <1>4. (\A i \in S : l[i].id # m) /\ (\A i \in U : l[i].id # m)
    BY AtId
  <1>. HIDE DEF k, N
  <1>5. InQueue(q) \subseteq IdsIn(k, "queued") \ IdsIn(k, "user")
    BY <1>2, <1>3 DEF Ordered
  <1>6. \A i, j \in U \cup {N} : k[i].id = k[j].id => i = j
    BY <1>2, <1>4 DEF Ordered
  <1>7. \A i, j \in S : \A x, n \in U \cup {N} :
          i < j /\ k[x].id = k[i].id /\ k[n].id = k[j].id => x < n
    BY <1>2, <1>3, <1>4 DEF Ordered
  <1>8. \A i, j \in S : i < j /\ k[j].id \in IdsIn(k, "user") => k[i].id \notin InQueue(q)
    BY <1>2, <1>3, <1>4 DEF Ordered
  <1>9. /\ Distinct(q) /\ \A i, j \in S : k[i].id = k[j].id => i = j
        /\ \A a, b \in 1 .. Len(q) : \A i, j \in S :
             i < j /\ k[i].id = q[a].id /\ k[j].id = q[b].id => a < b
    BY <1>3 DEF Ordered
  <1>10. Ordered(k, q)
    BY <1>2, <1>3, <1>5, <1>6, <1>7, <1>8, <1>9 DEF Ordered
  <1>. QED
    BY <1>10 DEF k, ev

------------------------------------------------------------------------------
(* What a restart finds after one more event *)

\* loadQueue, with one more event to replay.
LEMMA LoadMore ==
  ASSUME NEW l \in Seq(Event), NEW e \in Event
  PROVE  /\ LoadQueue(l \o <<e>>) = Reload(LoadQueue(l), e)
         /\ LoadQueue(l) \in Seq(Entries) /\ l \o <<e>> \in Seq(Event)
         /\ \A kind : IdsIn(l, kind) \subseteq IdsIn(l \o <<e>>, kind)
  <1>1. l \o <<e>> = Append(l, e) /\ l \o <<e>> \in Seq(Event)
    BY AppendIsConcat, AppendProperties
  <1>2. LoadQueue(l \o <<e>>) = Reload(LoadQueue(l), e)
    BY <1>1, LoadAppend
  <1>3. ASSUME NEW kind PROVE IdsIn(l, kind) \subseteq IdsIn(l \o <<e>>, kind)
    <2>1. CASE e.kind = kind
      <3>1. IdsIn(l \o <<e>>, e.kind) = IdsIn(l, e.kind) \cup {e.id}
        BY OneOfKind
      <3>. QED
        BY <2>1, <3>1
    <2>2. CASE e.kind # kind
      <3>1. IdsIn(l \o <<e>>, kind) = IdsIn(l, kind)
        BY <2>2, OtherKinds
      <3>. QED
        BY <3>1
    <2>. QED
      BY <2>1, <2>2
  <1>. QED
    BY <1>1, <1>2, <1>3, LoadType

\* Events that loadQueue passes over.
LEMMA LoadOther ==
  ASSUME NEW l \in Seq(Event), NEW e \in Event,
         e.kind \notin {"queued", "edited", "cancelled", "delivered"}
  PROVE  LoadQueue(l \o <<e>>) = LoadQueue(l)
  BY LoadMore DEF Reload

\* Nothing but queueing a message, or taking one out, can lose one.
LEMMA LostMore ==
  ASSUME NEW l \in Seq(Event), NEW e \in Event, e.kind # "queued", NEW q, NEW c,
         InQueue(q) \subseteq InQueue(c) \cup IdsIn(l \o <<e>>, "cancelled")
                                        \cup IdsIn(l \o <<e>>, "user")
  PROVE  LostIn(l \o <<e>>, c) \subseteq LostIn(l, q)
  <1>1. IdsIn(l \o <<e>>, "queued") = IdsIn(l, "queued")
    BY OtherKinds
  <1>2. /\ IdsIn(l, "cancelled") \subseteq IdsIn(l \o <<e>>, "cancelled")
        /\ IdsIn(l, "user") \subseteq IdsIn(l \o <<e>>, "user")
    BY LoadMore
  <1>. QED
    BY <1>1, <1>2 DEF LostIn

\* The log and the queue, after each other.
Agree(l, q) == Ordered(l, q) /\ Reloads(l, q)

\* From log l and queue q to k and c: what agreed agrees, and nothing is lost.
Keeps(l, q, k, c) ==
  /\ k \in Seq(Event) /\ c \in Seq(Entries)
  /\ Agree(k, c) /\ LostIn(k, c) \subseteq LostIn(l, q)

\* An event that is not about the queue.
LEMMA OtherKeeps ==
  ASSUME NEW l \in Seq(Event), NEW q \in Seq(Entries), Agree(l, q), NEW e \in Event,
         e.kind \in {"state", "asked", "resolved"}
  PROVE  /\ Keeps(l, q, l \o <<e>>, q) /\ LoadQueue(l \o <<e>>) = LoadQueue(l)
         /\ IdsIn(l \o <<e>>, "queued") = IdsIn(l, "queued")
         /\ IdsIn(l \o <<e>>, "user") = IdsIn(l, "user")
  <1>1. LoadQueue(l \o <<e>>) = LoadQueue(l) /\ l \o <<e>> \in Seq(Event)
    BY LoadOther, LoadMore
  <1>2. Ordered(l \o <<e>>, q)
    BY OrderedOther DEF Agree
  <1>3. LostIn(l \o <<e>>, q) \subseteq LostIn(l, q)
    BY LostMore
  <1>. QED
    BY <1>1, <1>2, <1>3, OtherKinds DEF Keeps, Agree, Reloads

\* A message is queued.
LEMMA QueueKeeps ==
  ASSUME NEW l \in Seq(Event), NEW q \in Seq(Entries), Agree(l, q), NEW m \in Msgs,
         m \notin IdsIn(l, "queued") \cup IdsIn(l, "user")
  PROVE  /\ Keeps(l, q, l \o <<QueuedEv(m)>>, Append(q, Entry(m)))
         /\ LoadQueue(l) = q => LoadQueue(l \o <<QueuedEv(m)>>) = Append(q, Entry(m))
         /\ IdsIn(l \o <<QueuedEv(m)>>, "queued") = IdsIn(l, "queued") \cup {m}
         /\ IdsIn(l \o <<QueuedEv(m)>>, "user") = IdsIn(l, "user")
  <1>. DEFINE e == QueuedEv(m)
              k == l \o <<e>>
              c == Append(q, Entry(m))
  <1>1. e \in Event /\ e.kind = "queued" /\ e.id = m
    BY EventKinds
  <1>. HIDE DEF e
  <1>2. Entry(m) \in Entries /\ c \in Seq(Entries) /\ Entry(m).id = m
    <2>1. Entry(m) \in Entries /\ Entry(m).id = m
      BY DEF Entry, Entries
    <2>. QED
      BY <2>1, AppendProperties
  <1>3. k \in Seq(Event) /\ LoadQueue(k) = Append(LoadQueue(l), Entry(m))
    BY <1>1, LoadMore DEF Reload
  <1>4. Reloads(k, c)
    <2>1. CASE LoadQueue(l) = q
      BY <1>3, <2>1 DEF Reloads
    <2>2. CASE q # <<>> /\ LoadQueue(l) = Tail(q)
      BY <1>2, <1>3, <2>2, TailOfAppend DEF Reloads
    <2>. QED
      BY <2>1, <2>2 DEF Agree, Reloads
  <1>5. Ordered(k, c)
    BY OrderedQueued DEF Agree, e
  <1>6. IdsIn(k, "queued") = IdsIn(l, "queued") \cup {m} /\ IdsIn(k, "user") = IdsIn(l, "user")
        /\ IdsIn(k, "cancelled") = IdsIn(l, "cancelled")
    <2>1. IdsIn(k, e.kind) = IdsIn(l, e.kind) \cup {e.id}
      BY <1>1, OneOfKind
    <2>2. IdsIn(k, "user") = IdsIn(l, "user") /\ IdsIn(k, "cancelled") = IdsIn(l, "cancelled")
      BY <1>1, OtherKinds
    <2>. QED
      BY <1>1, <2>1, <2>2
  <1>7. InQueue(q) \cup {m} \subseteq InQueue(c)
    <2>1. /\ Len(q) \in Nat /\ Len(c) = Len(q) + 1 /\ c[Len(q) + 1] = Entry(m)
          /\ \A i \in 1 .. Len(q) : c[i] = q[i]
      BY <1>2, AppendProperties, LenProperties
    <2>. HIDE DEF c
    <2>2. Len(q) + 1 \in 1 .. Len(c) /\ \A i \in 1 .. Len(q) : i \in 1 .. Len(c)
      BY <2>1
    <2>. QED
      BY <1>2, <2>1, <2>2 DEF InQueue
  <1>8. LostIn(k, c) \subseteq LostIn(l, q)
    BY <1>6, <1>7 DEF LostIn
  <1>. QED
    BY <1>2, <1>3, <1>4, <1>5, <1>6, <1>8 DEF Keeps, Agree, e

\* A queued message is edited.
LEMMA EditKeeps ==
  ASSUME NEW l \in Seq(Event), NEW q \in Seq(Entries), Agree(l, q), NEW m \in Msgs
  PROVE  /\ Keeps(l, q, l \o <<EditedEv(m)>>, Edited(q, m))
         /\ LoadQueue(l) = q => LoadQueue(l \o <<EditedEv(m)>>) = Edited(q, m)
         /\ IdsIn(l \o <<EditedEv(m)>>, "queued") = IdsIn(l, "queued")
         /\ IdsIn(l \o <<EditedEv(m)>>, "user") = IdsIn(l, "user")
         /\ q = <<>> => Edited(q, m) = <<>>
  <1>. DEFINE e == EditedEv(m)
              k == l \o <<e>>
              c == Edited(q, m)
  <1>1. e \in Event /\ e.kind = "edited" /\ e.id = m
    BY EventKinds
  <1>. HIDE DEF e
  <1>2. c \in Seq(Entries) /\ Len(c) = Len(q) /\ \A i \in 1 .. Len(q) : c[i].id = q[i].id
    BY EditedIs
  <1>3. k \in Seq(Event) /\ LoadQueue(k) = Edited(LoadQueue(l), m)
    BY <1>1, LoadMore DEF Reload
  <1>4. Reloads(k, c)
    <2>1. CASE LoadQueue(l) = q
      BY <1>3, <2>1 DEF Reloads
    <2>2. CASE q # <<>> /\ LoadQueue(l) = Tail(q)
      BY <1>3, <2>2, TailOfEdited DEF Reloads
    <2>. QED
      BY <2>1, <2>2 DEF Agree, Reloads
  <1>5. Ordered(l, c) /\ InQueue(c) = InQueue(q)
    <2>. DEFINE g == [i \in 1 .. Len(c) |-> i]
    <2>1. /\ g \in [1 .. Len(c) -> 1 .. Len(q)]
          /\ \A a, b \in 1 .. Len(c) : a < b => g[a] < g[b]
          /\ \A a \in 1 .. Len(c) : c[a].id = q[g[a]].id
      BY <1>2
    <2>. HIDE DEF g, c
    <2>2. Ordered(l, c)
      BY <1>2, <2>1, OrderedPart DEF Agree
    <2>. QED
      BY <1>2, <2>2 DEF InQueue
  <1>6. Ordered(k, c)
    BY <1>1, <1>2, <1>5, OrderedOther
  <1>7. LostIn(k, c) \subseteq LostIn(l, q)
    BY <1>1, <1>5, LostMore
  <1>8. IdsIn(k, "queued") = IdsIn(l, "queued") /\ IdsIn(k, "user") = IdsIn(l, "user")
    BY <1>1, OtherKinds
  <1>9. q = <<>> => c = <<>>
    BY <1>2, NoEntries
  <1>. QED
    BY <1>2, <1>3, <1>4, <1>6, <1>7, <1>8, <1>9 DEF Keeps, Agree, e

\* A queued message is withdrawn.
LEMMA CancelKeeps ==
  ASSUME NEW l \in Seq(Event), NEW q \in Seq(Entries), Agree(l, q), NEW m \in Msgs
  PROVE  /\ Keeps(l, q, l \o <<CancelledEv(m)>>, Without(q, m))
         /\ LoadQueue(l) = q => LoadQueue(l \o <<CancelledEv(m)>>) = Without(q, m)
         /\ IdsIn(l \o <<CancelledEv(m)>>, "queued") = IdsIn(l, "queued")
         /\ IdsIn(l \o <<CancelledEv(m)>>, "user") = IdsIn(l, "user")
         /\ q = <<>> => Without(q, m) = <<>>
  <1>. DEFINE e == CancelledEv(m)
              k == l \o <<e>>
              c == Without(q, m)
  <1>1. e \in Event /\ e.kind = "cancelled" /\ e.id = m
    BY EventKinds
  <1>. HIDE DEF e
  <1>2. Len(q) \in Nat /\ DOMAIN q = 1 .. Len(q) /\ Distinct(q)
    BY LenProperties DEF Agree, Ordered
  <1>3. k \in Seq(Event) /\ LoadQueue(k) = Without(LoadQueue(l), m)
    BY <1>1, LoadMore DEF Reload
  <1>4. Reloads(k, c)
    <2>1. CASE LoadQueue(l) = q
      BY <1>3, <2>1 DEF Reloads
    <2>2. CASE q # <<>> /\ LoadQueue(l) = Tail(q) /\ q[1].id = m
      BY <1>2, <1>3, <2>2, WithoutFirst DEF Reloads
    <2>3. CASE q # <<>> /\ LoadQueue(l) = Tail(q) /\ q[1].id # m
      BY <1>3, <2>3, WithoutLater DEF Reloads
    <2>. QED
      BY <2>1, <2>2, <2>3 DEF Agree, Reloads
  <1>5. c \in Seq(Entries) /\ Ordered(l, c) /\ InQueue(q) \subseteq InQueue(c) \cup {m}
        /\ (q = <<>> => c = <<>>)
    <2>1. CASE \A i \in DOMAIN q : q[i].id # m
      BY <2>1, WithoutNone DEF Agree
    <2>2. CASE \E i \in DOMAIN q : q[i].id = m
      <3>1. PICK f \in 1 .. Len(q) :
               /\ q[f].id = m
               /\ c \in Seq(Entries) /\ Len(c) = Len(q) - 1
               /\ \A i \in 1 .. Len(q) - 1 : c[i] = q[IF i < f THEN i ELSE i + 1]
        BY <2>2, WithoutIs
      <3>. DEFINE g == [i \in 1 .. Len(c) |-> IF i < f THEN i ELSE i + 1]
      <3>. HIDE DEF c
      <3>2. /\ g \in [1 .. Len(c) -> 1 .. Len(q)]
            /\ \A a, b \in 1 .. Len(c) : a < b => g[a] < g[b]
            /\ \A a \in 1 .. Len(c) : c[a].id = q[g[a]].id
        BY <1>2, <3>1
      <3>3. \A a \in 1 .. Len(q) : q[a].id = m \/ \E b \in 1 .. Len(c) : q[a] = c[b]
        <4>. TAKE a \in 1 .. Len(q)
        <4>1. CASE a < f
          <5>1. a \in 1 .. Len(c) /\ c[a] = q[a]
            BY <1>2, <3>1, <4>1
          <5>. QED
            BY <5>1
        <4>2. CASE a = f
          BY <3>1, <4>2
        <4>3. CASE f < a
          <5>1. a - 1 \in 1 .. Len(c) /\ ~(a - 1 < f) /\ a - 1 + 1 = a
            BY <1>2, <3>1, <4>3
          <5>2. c[a - 1] = q[a]
            BY <3>1, <5>1
          <5>. QED
            BY <5>1, <5>2
        <4>. QED
          BY <4>1, <4>2, <4>3
      <3>. HIDE DEF g
      <3>4. Ordered(l, c)
        BY <3>1, <3>2, OrderedPart DEF Agree
      <3>5. InQueue(q) \subseteq InQueue(c) \cup {m}
        BY <3>3 DEF InQueue
      <3>6. q # <<>>
        BY <1>2, <3>1, NoEntries
      <3>. QED
        BY <3>1, <3>4, <3>5, <3>6
    <2>. QED
      BY <2>1, <2>2
  <1>6. Ordered(k, c)
    BY <1>1, <1>5, OrderedOther
  <1>7. IdsIn(k, "queued") = IdsIn(l, "queued") /\ IdsIn(k, "user") = IdsIn(l, "user")
    BY <1>1, OtherKinds
  <1>8. LostIn(k, c) \subseteq LostIn(l, q)
    <2>1. m \in IdsIn(k, "cancelled")
      <3>1. IdsIn(k, e.kind) = IdsIn(l, e.kind) \cup {e.id}
        BY <1>1, OneOfKind
      <3>. QED
        BY <1>1, <3>1
    <2>2. /\ e.kind # "queued"
          /\ InQueue(q) \subseteq InQueue(c) \cup IdsIn(l \o <<e>>, "cancelled")
                                         \cup IdsIn(l \o <<e>>, "user")
      BY <1>1, <1>5, <2>1
    <2>. HIDE DEF c
    <2>. QED
      BY <1>1, <2>2, LostMore
  <1>9. Keeps(l, q, k, c)
    <2>1. Agree(k, c)
      BY <1>4, <1>6 DEF Agree
    <2>. HIDE DEF k, c
    <2>. QED
      BY <1>3, <1>5, <1>8, <2>1 DEF Keeps
  <1>10. LoadQueue(l) = q => LoadQueue(k) = c
    BY <1>3
  <1>. HIDE DEF k, c
  <1>11. /\ Keeps(l, q, k, c) /\ (LoadQueue(l) = q => LoadQueue(k) = c)
         /\ IdsIn(k, "queued") = IdsIn(l, "queued") /\ IdsIn(k, "user") = IdsIn(l, "user")
         /\ q = <<>> => c = <<>>
    BY <1>5, <1>7, <1>9, <1>10
  <1>. QED
    BY <1>11 DEF k, c, e

------------------------------------------------------------------------------
(* Delivering a queue, one event after the other *)

\* A message's delivery is recorded.
LEMMA DeliveryKeeps ==
  ASSUME NEW l \in Seq(Event), NEW q \in Seq(Entries), Agree(l, q), q # <<>>
  PROVE  LET k == l \o <<DeliveredEv(q[1].id)>> IN
         /\ Keeps(l, q, k, q) /\ LoadQueue(k) = Tail(q)
         /\ IdsIn(k, "queued") = IdsIn(l, "queued") /\ IdsIn(k, "user") = IdsIn(l, "user")
  <1>. DEFINE e == DeliveredEv(q[1].id)
              k == l \o <<e>>
  <1>1. e \in Event /\ e.kind = "delivered" /\ e.id = q[1].id
    <2>1. q[1].id \in Msgs
      BY TailIs DEF Entries
    <2>. QED
      BY <2>1, EventKinds
  <1>. HIDE DEF e
  <1>2. k \in Seq(Event) /\ LoadQueue(k) = Without(LoadQueue(l), q[1].id)
    BY <1>1, LoadMore DEF Reload
  <1>3. LoadQueue(k) = Tail(q)
    <2>1. Distinct(q)
      BY DEF Agree, Ordered
    <2>. QED
      BY <1>2, <2>1, WithoutFirst DEF Agree, Reloads
  <1>4. Ordered(k, q)
    BY <1>1, OrderedOther DEF Agree
  <1>5. LostIn(k, q) \subseteq LostIn(l, q)
    BY <1>1, LostMore
  <1>6. IdsIn(k, "queued") = IdsIn(l, "queued") /\ IdsIn(k, "user") = IdsIn(l, "user")
    BY <1>1, OtherKinds
  <1>. QED
    BY <1>2, <1>3, <1>4, <1>5, <1>6 DEF Keeps, Agree, Reloads, e

\* Then the message is.
LEMMA MessageKeeps ==
  ASSUME NEW l \in Seq(Event), NEW q \in Seq(Entries), Agree(l, q), q # <<>>,
         LoadQueue(l) = Tail(q)
  PROVE  LET k == l \o <<UserEv(q[1].id, q[1].edited)>> IN
         /\ Keeps(l, q, k, Tail(q)) /\ LoadQueue(k) = Tail(q)
         /\ IdsIn(k, "queued") = IdsIn(l, "queued")
         /\ IdsIn(k, "user") = IdsIn(l, "user") \cup {q[1].id}
         /\ q[1].id \in IdsIn(l, "queued")
  <1>. DEFINE e == UserEv(q[1].id, q[1].edited)
              k == l \o <<e>>
              c == Tail(q)
  <1>0. q[1].id \in Msgs /\ q[1].edited \in BOOLEAN
    BY TailIs DEF Entries
  <1>1. e \in Event /\ e.kind = "user" /\ e.id = q[1].id
    BY <1>0, EventKinds
  <1>2. Ordered(k, c)
    BY <1>0, OrderedHead DEF Agree
  <1>3. /\ c \in Seq(Entries) /\ Len(q) \in Nat \ {0} /\ Len(c) = Len(q) - 1
        /\ \A i \in 1 .. Len(q) - 1 : c[i] = q[i + 1]
    BY TailIs
  <1>. HIDE DEF e, c
  <1>4. k \in Seq(Event) /\ LoadQueue(k) = c
    BY <1>1, LoadMore, LoadOther DEF c
  <1>5. IdsIn(k, "user") = IdsIn(l, "user") \cup {q[1].id} /\ IdsIn(k, "queued") = IdsIn(l, "queued")
    <2>1. IdsIn(k, e.kind) = IdsIn(l, e.kind) \cup {e.id}
      BY <1>1, OneOfKind
    <2>2. IdsIn(k, "queued") = IdsIn(l, "queued")
      BY <1>1, OtherKinds
    <2>. QED
      BY <1>1, <2>1, <2>2
  <1>6. InQueue(q) \subseteq InQueue(c) \cup {q[1].id}
    <2>1. \A a \in 1 .. Len(q) : a = 1 \/ (a - 1 \in 1 .. Len(c) /\ c[a - 1] = q[a])
      BY <1>3
    <2>. QED
      BY <2>1 DEF InQueue
  <1>7. LostIn(k, c) \subseteq LostIn(l, q)
    BY <1>1, <1>5, <1>6, LostMore
  <1>8. q[1].id \in IdsIn(l, "queued")
    <2>1. 1 \in 1 .. Len(q)
      BY <1>3
    <2>. QED
      BY <2>1 DEF Agree, Ordered, InQueue
  <1>. QED
    BY <1>2, <1>3, <1>4, <1>5, <1>7, <1>8 DEF Keeps, Agree, Reloads, e, c

\* The next event of a delivery, and what it leaves of the queue.
LEMMA NextDelivery ==
  ASSUME NEW q \in Seq(Entries), NEW n \in Nat, n < 2 * Len(q)
  PROVE  LET c == Popped(q, n) IN
         /\ c \in Seq(Entries) /\ c # <<>>
         /\ n % 2 = 0 => /\ DeliverScript(q)[n + 1] = DeliveredEv(c[1].id)
                         /\ Popped(q, n + 1) = c
         /\ n % 2 = 1 => /\ DeliverScript(q)[n + 1] = UserEv(c[1].id, c[1].edited)
                         /\ Popped(q, n + 1) = Tail(c)
  <1>. DEFINE c == Popped(q, n)
              h == n \div 2
  <1>1. Len(q) \in Nat /\ h \in Nat /\ h + 1 \in 1 .. Len(q)
    BY LenProperties
  <1>2. c \in Seq(Entries) /\ Len(c) = Len(q) - h /\ c[1] = q[h + 1]
    <2>1. /\ c \in Seq(Entries) /\ Len(c) = Len(q) - h
          /\ \A i \in 1 .. Len(q) - h : c[i] = q[i + h]
      <3>1. n <= 2 * Len(q) + 1
        BY <1>1
      <3>. QED
        BY <3>1, PoppedIs
    <2>2. 1 \in 1 .. Len(q) - h /\ 1 + h = h + 1
      BY <1>1
    <2>3. c[1] = q[1 + h]
      BY <2>1, <2>2
    <2>. QED
      BY <2>1, <2>2, <2>3
  <1>3. c # <<>>
    BY <1>1, <1>2, NoEntries
  <1>4. /\ DeliverScript(q)[2 * (h + 1) - 1] = DeliveredEv(q[h + 1].id)
        /\ DeliverScript(q)[2 * (h + 1)] = UserEv(q[h + 1].id, q[h + 1].edited)
    BY <1>1, DeliverIs
  <1>5. CASE n % 2 = 0
    <2>1. n + 1 = 2 * (h + 1) - 1 /\ (n + 1) \div 2 = h
      BY <1>5
    <2>2. Popped(q, n + 1) = c
      BY <2>1 DEF Popped
    <2>3. DeliverScript(q)[n + 1] = DeliveredEv(q[h + 1].id)
      BY <1>4, <2>1
    <2>. QED
      BY <1>2, <1>3, <1>5, <2>2, <2>3
  <1>6. CASE n % 2 = 1
    <2>1. n + 1 = 2 * (h + 1) /\ (n + 1) \div 2 = h + 1
      BY <1>6
    <2>2. Popped(q, n + 1) = Tail(c)
      <3>1. Tail(SubSeq(q, h + 1, Len(q))) = SubSeq(q, h + 1 + 1, Len(q))
        BY <1>1, HeadTailOfSubSeq
      <3>. QED
        BY <2>1, <3>1 DEF Popped
    <2>3. DeliverScript(q)[n + 1] = UserEv(q[h + 1].id, q[h + 1].edited)
      BY <1>4, <2>1
    <2>. QED
      BY <1>2, <1>3, <1>6, <2>2, <2>3
  <1>7. n % 2 = 0 \/ n % 2 = 1
    OBVIOUS
  <1>. QED
    BY <1>5, <1>6, <1>7

\* n events of the delivery of q have been recorded after l.
Delivered(l, q, n) ==
  LET k == l \o SubSeq(DeliverScript(q), 1, n)
      c == Popped(q, n)
  IN
  /\ Keeps(l, q, k, c)
  /\ n % 2 = 1 => c # <<>> /\ LoadQueue(k) = Tail(c)
  /\ IdsIn(k, "queued") = IdsIn(l, "queued")
  /\ IdsIn(k, "user") \subseteq IdsIn(l, "user") \cup IdsIn(l, "queued")

\* What is lost from one step to the next is lost from the first.
LEMMA KeepsOn ==
  ASSUME NEW l, NEW q, NEW k, NEW c, NEW j, NEW d, Keeps(l, q, k, c), Keeps(k, c, j, d)
  PROVE  Keeps(l, q, j, d)
  BY DEF Keeps

\* Three scripts in a row.
LEMMA ScriptsAssociate ==
  ASSUME NEW a \in Seq(Event), NEW b \in Seq(Event), NEW c \in Seq(Event)
  PROVE  a \o (b \o c) = (a \o b) \o c
  BY ConcatAssociative

\* However many events of a delivery are recorded, log and queue agree.
LEMMA DeliverKeeps ==
  ASSUME NEW l \in Seq(Event), NEW q \in Seq(Entries), Agree(l, q),
         NEW n \in Nat, n <= 2 * Len(q)
  PROVE  Delivered(l, q, n)
  <1>. DEFINE D == DeliverScript(q)
              L(i) == l \o SubSeq(D, 1, i)
              Bad == {i \in Nat : i <= 2 * Len(q) /\ ~Delivered(l, q, i)}
  <1>1. Len(q) \in Nat /\ D \in Seq(Event) /\ Len(D) = 2 * Len(q)
    BY LenProperties, DeliverIs DEF IsScript
  <1>2. Delivered(l, q, 0)
    <2>1. SubSeq(D, 1, 0) = <<>> /\ l \o <<>> = l
      BY SubSeqEmpty, ConcatEmptySeq
    <2>2. Popped(q, 0) = q
      <3>1. 0 \div 2 = 0 /\ 0 + 1 = 1
        OBVIOUS
      <3>. QED
        BY <3>1, SubSeqFull DEF Popped
    <2>3. 0 % 2 # 1
      OBVIOUS
    <2>. QED
      BY <2>1, <2>2, <2>3 DEF Delivered, Keeps
  <1>3. ASSUME NEW i \in Nat, i < 2 * Len(q), Delivered(l, q, i)
        PROVE  Delivered(l, q, i + 1)
    <2>. DEFINE c == Popped(q, i)
                k == L(i)
    <2>1. i + 1 \in 1 .. Len(D) /\ i + 1 - 1 = i
      BY <1>1, <1>3
    <2>2. L(i + 1) = k \o <<D[i + 1]>>
      <3>1. SubSeq(D, 1, i + 1) = SubSeq(D, 1, i) \o <<D[i + 1]>>
        BY <1>1, <2>1, SubSeqRecursiveSecond
      <3>2. SubSeq(D, 1, i) \in Seq(Event) /\ D[i + 1] \in Event
        <4>1. i \in Nat /\ i <= Len(D) /\ IsScript(D)
          BY <1>1, <1>3, DeliverIs
        <4>2. SubSeq(D, 1, i) \in Seq(Event)
          BY <4>1, CutScript DEF IsScript
        <4>. QED
          BY <1>1, <2>1, <4>2, ElementOfSeq
      <3>3. <<D[i + 1]>> \in Seq(Event)
        BY <3>2
      <3>. DEFINE a == SubSeq(D, 1, i)
                  b == <<D[i + 1]>>
      <3>4. l \o (a \o b) = (l \o a) \o b
        <4>1. a \in Seq(Event) /\ b \in Seq(Event)
          BY <3>2, <3>3
        <4>. HIDE DEF a, b
        <4>. QED
          BY <4>1, ScriptsAssociate
      <3>. QED
        BY <3>1, <3>4
    <2>3. /\ Keeps(l, q, k, c) /\ k \in Seq(Event) /\ c \in Seq(Entries) /\ Agree(k, c)
          /\ i % 2 = 1 => LoadQueue(k) = Tail(c)
          /\ IdsIn(k, "queued") = IdsIn(l, "queued")
          /\ IdsIn(k, "user") \subseteq IdsIn(l, "user") \cup IdsIn(l, "queued")
      BY <1>3 DEF Delivered, Keeps
    <2>4. /\ c # <<>>
          /\ i % 2 = 0 => D[i + 1] = DeliveredEv(c[1].id) /\ Popped(q, i + 1) = c
          /\ i % 2 = 1 => D[i + 1] = UserEv(c[1].id, c[1].edited) /\ Popped(q, i + 1) = Tail(c)
      BY <1>3, NextDelivery
    <2>. HIDE DEF c, k, L, D
    <2>5. CASE i % 2 = 0
      <3>. DEFINE j == k \o <<DeliveredEv(c[1].id)>>
      <3>1. /\ Keeps(k, c, j, c) /\ LoadQueue(j) = Tail(c)
            /\ IdsIn(j, "queued") = IdsIn(k, "queued") /\ IdsIn(j, "user") = IdsIn(k, "user")
        BY <2>3, <2>4, DeliveryKeeps
      <3>2. L(i + 1) = j /\ Popped(q, i + 1) = c
        BY <2>2, <2>4, <2>5
      <3>. HIDE DEF j
      <3>3. Keeps(l, q, j, c)
        BY <2>3, <3>1, KeepsOn
      <3>. QED
        BY <2>3, <2>4, <3>1, <3>2, <3>3 DEF Delivered, L, D
    <2>6. CASE i % 2 = 1
      <3>. DEFINE j == k \o <<UserEv(c[1].id, c[1].edited)>>
                  d == Tail(c)
      <3>1. /\ Keeps(k, c, j, d)
            /\ IdsIn(j, "queued") = IdsIn(k, "queued")
            /\ IdsIn(j, "user") = IdsIn(k, "user") \cup {c[1].id}
            /\ c[1].id \in IdsIn(k, "queued")
        BY <2>3, <2>4, <2>6, MessageKeeps
      <3>2. L(i + 1) = j /\ Popped(q, i + 1) = d
        BY <2>2, <2>4, <2>6
      <3>. HIDE DEF j, d
      <3>3. Keeps(l, q, j, d)
        BY <2>3, <3>1, KeepsOn
      <3>4. (i + 1) % 2 # 1
        BY <2>6
      <3>. QED
        BY <2>3, <3>1, <3>2, <3>3, <3>4 DEF Delivered, L, D
    <2>. QED
      BY <2>5, <2>6
  <1>4. Bad = {}
    <2>. SUFFICES ASSUME Bad # {} PROVE FALSE
      OBVIOUS
    <2>1. PICK i \in Bad : \A j \in Bad : i <= j
      <3>1. Bad \in SUBSET Nat
        OBVIOUS
      <3>. HIDE DEF Bad
      <3>. QED
        BY <3>1, LeastOf
    <2>2. i \in Nat /\ i <= 2 * Len(q) /\ ~Delivered(l, q, i)
      BY <2>1
    <2>3. i # 0
      BY <1>2, <2>2
    <2>4. i - 1 \in Nat /\ i - 1 < 2 * Len(q) /\ i - 1 \notin Bad
      BY <1>1, <2>1, <2>2, <2>3
    <2>5. Delivered(l, q, i - 1)
      BY <2>4
    <2>6. Delivered(l, q, i - 1 + 1)
      BY <1>3, <2>4, <2>5
    <2>7. i - 1 + 1 = i
      BY <2>2
    <2>. QED
      BY <2>2, <2>6, <2>7
  <1>. QED
    BY <1>4

------------------------------------------------------------------------------
(* What the handlers record about a queue *)

\* From l and q to k and c, with nothing queued and no message in the
\* conversation that was not queued before, or is in M.
Passes(l, q, k, c, M) ==
  /\ Keeps(l, q, k, c)
  /\ IdsIn(k, "queued") = IdsIn(l, "queued")
  /\ IdsIn(k, "user") \subseteq IdsIn(l, "user") \cup IdsIn(l, "queued") \cup M

\* One such way after the other is one.
LEMMA PassOn ==
  ASSUME NEW l, NEW q, NEW k, NEW c, NEW j, NEW d, NEW M,
         Passes(l, q, k, c, M), Passes(k, c, j, d, M)
  PROVE  Passes(l, q, j, d, M)
  <1>1. Keeps(l, q, j, d)
    BY KeepsOn DEF Passes
  <1>. QED
    BY <1>1 DEF Passes

\* Scripts one after the other.
LEMMA ScriptsJoin ==
  ASSUME NEW a \in Seq(Event), NEW b \in Seq(Event)
  PROVE  /\ a \o b \in Seq(Event)
         /\ Len(a \o b) = Len(a) + Len(b)
         /\ Len(a) \in Nat /\ Len(b) \in Nat
         /\ SubSeq(a, 1, Len(a)) = a
         /\ a \o <<>> = a
         /\ <<>> \in Seq(Event)
  <1>1. a \o b \in Seq(Event) /\ Len(a \o b) = Len(a) + Len(b)
    BY ConcatProperties
  <1>2. Len(a) \in Nat /\ Len(b) \in Nat
    BY LenProperties
  <1>3. SubSeq(a, 1, Len(a)) = a
    BY SubSeqFull
  <1>4. a \o <<>> = a
    BY ConcatEmptySeq
  <1>. QED
    BY <1>1, <1>2, <1>3, <1>4

\* The beginning of two scripts, within the first of them.
LEMMA CutInFirst ==
  ASSUME NEW a \in Seq(Event), NEW b \in Seq(Event),
         NEW m \in 1 .. Len(a), NEW n \in 1 .. Len(a)
  PROVE  SubSeq(a \o b, m, n) = SubSeq(a, m, n)
  BY SubSeqOfConcat1

\* ... and a part of the second.
LEMMA CutInSecond ==
  ASSUME NEW a \in Seq(Event), NEW b \in Seq(Event),
         NEW m \in Len(a) + 1 .. Len(a) + Len(b), NEW n \in Len(a) + 1 .. Len(a) + Len(b)
  PROVE  SubSeq(a \o b, m, n) = SubSeq(b, m - Len(a), n - Len(a))
  BY SubSeqOfConcat2

\* A log, a script for it and one event more.
ToCut(l, a, e) == l \in Seq(Event) /\ a \in Seq(Event) /\ e \in Event

\* Of the script and then the event, the first n events: the event is among them
\* only when n counts it.
CutBefore(l, a, e, n) ==
  /\ n <= Len(a) => SubSeq(a \o <<e>>, 1, n) = SubSeq(a, 1, n)
  /\ n = Len(a) => SubSeq(a, 1, n) = a
  /\ n = Len(a) + 1 => SubSeq(a \o <<e>>, 1, n) = a \o <<e>>
  /\ l \o (a \o <<e>>) = (l \o a) \o <<e>>

\* Of the event and then the script, the first n events.
CutAfter(l, a, e, n) ==
  l \o SubSeq(<<e>> \o a, 1, n) = IF n = 0 THEN l ELSE (l \o <<e>>) \o SubSeq(a, 1, n - 1)

\* A script of which n events are recorded, when it ends with event e.
LEMMA CutMore ==
  ASSUME NEW l, NEW a, NEW e, NEW n \in Nat, ToCut(l, a, e)
  PROVE  CutBefore(l, a, e, n)
  <1>. l \in Seq(Event) /\ a \in Seq(Event) /\ e \in Event
    BY DEF ToCut
  <1>. DEFINE b == <<e>>
  <1>1. b \in Seq(Event) /\ Len(b) = 1 /\ Len(a) \in Nat
    BY LenProperties
  <1>. HIDE DEF b
  <1>2. a \o b \in Seq(Event) /\ Len(a \o b) = Len(a) + 1
    <2>1. a \o b \in Seq(Event) /\ Len(a \o b) = Len(a) + Len(b)
      BY <1>1, ScriptsJoin
    <2>. QED
      BY <1>1, <2>1
  <1>3. ASSUME n <= Len(a) PROVE SubSeq(a \o b, 1, n) = SubSeq(a, 1, n)
    <2>1. CASE n = 0
      BY <2>1, SubSeqEmpty
    <2>2. CASE n # 0
      <3>1. 1 \in 1 .. Len(a) /\ n \in 1 .. Len(a)
        BY <1>1, <1>3, <2>2
      <3>. QED
        BY <1>1, <3>1, CutInFirst
    <2>. QED
      BY <2>1, <2>2
  <1>4. n = Len(a) => SubSeq(a, 1, n) = a
    BY SubSeqFull
  <1>5. n = Len(a) + 1 => SubSeq(a \o b, 1, n) = a \o b
    BY <1>2, SubSeqFull
  <1>6. l \o (a \o b) = (l \o a) \o b
    BY <1>1, ScriptsAssociate
  <1>. QED
    BY <1>3, <1>4, <1>5, <1>6 DEF b, CutBefore

\* ... or begins with it.
LEMMA CutFirst ==
  ASSUME NEW l, NEW a, NEW e, NEW n \in Nat, ToCut(l, a, e), n <= 1 + Len(a)
  PROVE  CutAfter(l, a, e, n)
  <1>. l \in Seq(Event) /\ a \in Seq(Event) /\ e \in Event
    BY DEF ToCut
  <1>. DEFINE b == <<e>>
              s == b \o a
  <1>1. b \in Seq(Event) /\ Len(b) = 1 /\ Len(a) \in Nat
    BY LenProperties
  <1>2. CASE n = 0
    BY <1>2, SubSeqEmpty, ConcatEmptySeq DEF CutAfter
  <1>3. CASE n # 0
    <2>. DEFINE c == SubSeq(a, 1, n - 1)
    <2>. HIDE DEF b
    <2>1. s \in Seq(Event) /\ Len(s) = 1 + Len(a)
      <3>1. s \in Seq(Event) /\ Len(s) = Len(b) + Len(a)
        BY <1>1, ScriptsJoin
      <3>. QED
        BY <1>1, <3>1
    <2>2. SubSeq(s, 1, n) = b \o c
      <3>1. CASE n = 1
        <4>1. SubSeq(s, 1, 1) = SubSeq(b, 1, 1)
          <5>1. 1 \in 1 .. Len(b)
            BY <1>1
          <5>. QED
            BY <1>1, <5>1, CutInFirst
        <4>2. SubSeq(b, 1, 1) = b
          BY <1>1, SubSeqFull
        <4>3. c = <<>>
          <5>1. n - 1 = 0 /\ 0 < 1
            BY <3>1
          <5>. QED
            BY <5>1, SubSeqEmpty
        <4>. QED
          BY <1>1, <3>1, <4>1, <4>2, <4>3, ConcatEmptySeq
      <3>2. CASE n # 1
        <4>1. /\ 1 \in 1 .. Len(s) + 1 /\ 1 \in 1 - 1 .. Len(s) /\ n \in 1 .. Len(s)
              /\ 1 + 1 \in Len(b) + 1 .. Len(b) + Len(a) /\ n \in Len(b) + 1 .. Len(b) + Len(a)
              /\ 1 + 1 - Len(b) = 1 /\ n - Len(b) = n - 1 /\ 1 \in 1 .. Len(b)
          BY <1>1, <1>3, <2>1, <3>2
        <4>. HIDE DEF s, c
        <4>2. SubSeq(s, 1, 1) \o SubSeq(s, 1 + 1, n) = SubSeq(s, 1, n)
          BY <2>1, <4>1, ConcatAdjacentSubSeq
        <4>3. SubSeq(s, 1, 1) = SubSeq(b, 1, 1)
          BY <1>1, <4>1, CutInFirst DEF s
        <4>4. SubSeq(b, 1, 1) = b
          BY <1>1, SubSeqFull
        <4>5. SubSeq(s, 1 + 1, n) = SubSeq(a, 1 + 1 - Len(b), n - Len(b))
          <5>1. b \in Seq(Event) /\ a \in Seq(Event)
            BY <1>1
          <5>2. /\ 1 + 1 \in Len(b) + 1 .. Len(b) + Len(a)
                /\ n \in Len(b) + 1 .. Len(b) + Len(a)
            BY <4>1
          <5>. QED
            BY <5>1, <5>2, CutInSecond DEF s
        <4>6. SubSeq(s, 1 + 1, n) = c
          BY <4>1, <4>5 DEF c
        <4>. QED
          BY <4>2, <4>3, <4>4, <4>6
      <3>. QED
        BY <3>1, <3>2
    <2>3. c \in Seq(Event)
      <3>1. n - 1 \in Int /\ \A i \in 1 .. n - 1 : a[i] \in Event
        BY <1>1, <1>3, ElementOfSeq
      <3>. QED
        BY <3>1, SubSeqProperties
    <2>. HIDE DEF c
    <2>4. l \o (b \o c) = (l \o b) \o c
      BY <1>1, <2>3, ScriptsAssociate
    <2>. QED
      BY <1>3, <2>2, <2>4 DEF b, c, CutAfter
  <1>. QED
    BY <1>2, <1>3

\* Nothing is left of a queue that is delivered.
LEMMA PoppedAll ==
  ASSUME NEW q \in Seq(Entries), NEW n \in Nat, n >= 2 * Len(q)
  PROVE  Popped(q, n) = <<>>
  <1>1. Len(q) \in Nat /\ n \div 2 \in Nat /\ Len(q) < n \div 2 + 1
    BY LenProperties
  <1>. QED
    BY <1>1, SubSeqEmpty DEF Popped

\* The deliveries.
LEMMA DeliverPasses ==
  ASSUME NEW l \in Seq(Event), NEW q \in Seq(Entries), Agree(l, q),
         NEW n \in Nat, n <= 2 * Len(q), NEW M
  PROVE  Passes(l, q, l \o SubSeq(DeliverScript(q), 1, n), Popped(q, n), M)
  BY DeliverKeeps DEF Passes, Delivered

\* All of them: a restart then finds no queue.
LEMMA DeliverAll ==
  ASSUME NEW l \in Seq(Event), NEW q \in Seq(Entries), Agree(l, q), NEW M
  PROVE  /\ Passes(l, q, l \o DeliverScript(q), <<>>, M)
         /\ LoadQueue(l \o DeliverScript(q)) = <<>>
  <1>1. /\ DeliverScript(q) \in Seq(Event) /\ Len(DeliverScript(q)) = 2 * Len(q)
        /\ Len(q) \in Nat /\ 2 * Len(q) \in Nat
    BY DeliverIs, LenProperties DEF IsScript
  <1>2. SubSeq(DeliverScript(q), 1, 2 * Len(q)) = DeliverScript(q) /\ Popped(q, 2 * Len(q)) = <<>>
    BY <1>1, SubSeqFull, PoppedAll
  <1>3. Passes(l, q, l \o SubSeq(DeliverScript(q), 1, 2 * Len(q)), Popped(q, 2 * Len(q)), M)
    BY <1>1, DeliverPasses
  <1>. QED
    BY <1>2, <1>3 DEF Passes, Keeps, Agree, Reloads

\* One event about something else.
LEMMA OtherPasses ==
  ASSUME NEW l \in Seq(Event), NEW q \in Seq(Entries), Agree(l, q), NEW e \in Event,
         e.kind \in {"state", "asked", "resolved"}, NEW M
  PROVE  Passes(l, q, l \o <<e>>, q, M) /\ LoadQueue(l \o <<e>>) = LoadQueue(l)
  BY OtherKeeps DEF Passes

\* A message that joins the conversation without the queue.
LEMMA DirectPasses ==
  ASSUME NEW l \in Seq(Event), NEW q \in Seq(Entries), Agree(l, q), NEW m \in Msgs,
         m \notin IdsIn(l, "queued") \cup IdsIn(l, "user")
  PROVE  /\ Passes(l, q, l \o <<UserEv(m, FALSE)>>, q, {m})
         /\ LoadQueue(l \o <<UserEv(m, FALSE)>>) = LoadQueue(l)
  <1>. DEFINE e == UserEv(m, FALSE)
              k == l \o <<e>>
  <1>1. e \in Event /\ e.kind = "user" /\ e.id = m
    BY EventKinds
  <1>2. Ordered(k, q)
    BY OrderedDirect DEF Agree
  <1>. HIDE DEF e
  <1>3. LoadQueue(k) = LoadQueue(l) /\ k \in Seq(Event)
    BY <1>1, LoadOther, LoadMore
  <1>4. LostIn(k, q) \subseteq LostIn(l, q)
    BY <1>1, LostMore
  <1>5. IdsIn(k, "user") = IdsIn(l, "user") \cup {m} /\ IdsIn(k, "queued") = IdsIn(l, "queued")
    <2>1. IdsIn(k, e.kind) = IdsIn(l, e.kind) \cup {e.id}
      BY <1>1, OneOfKind
    <2>2. IdsIn(k, "queued") = IdsIn(l, "queued")
      BY <1>1, OtherKinds
    <2>. QED
      BY <1>1, <2>1, <2>2
  <1>. QED
    BY <1>2, <1>3, <1>4, <1>5 DEF Passes, Keeps, Agree, Reloads, e

\* The deliveries and the state that follows, cut short anywhere.
LEMMA TurnPasses ==
  ASSUME NEW l \in Seq(Event), NEW q \in Seq(Entries), Agree(l, q),
         NEW n \in Nat, n <= 2 * Len(q) + 1, NEW M
  PROVE  Passes(l, q, l \o SubSeq(DeliverScript(q) \o <<Working>>, 1, n), Popped(q, n), M)
  <1>. DEFINE D == DeliverScript(q)
  <1>1. /\ D \in Seq(Event) /\ Len(D) = 2 * Len(q) /\ Len(q) \in Nat
        /\ Working \in Event /\ Working.kind = "state"
    BY DeliverIs, LenProperties, StatesRecorded DEF IsScript
  <1>2. /\ n <= Len(D) => SubSeq(D \o <<Working>>, 1, n) = SubSeq(D, 1, n)
        /\ n = Len(D) + 1 => SubSeq(D \o <<Working>>, 1, n) = D \o <<Working>>
        /\ l \o (D \o <<Working>>) = (l \o D) \o <<Working>>
    <2>. HIDE DEF D
    <2>1. ToCut(l, D, Working)
      BY <1>1 DEF ToCut
    <2>2. CutBefore(l, D, Working, n)
      BY <2>1, CutMore
    <2>. QED
      BY <2>2 DEF CutBefore
  <1>3. CASE n <= 2 * Len(q)
    BY <1>1, <1>2, <1>3, DeliverPasses
  <1>4. CASE n = 2 * Len(q) + 1
    <2>1. Passes(l, q, l \o D, <<>>, M)
      BY DeliverAll
    <2>2. l \o D \in Seq(Event) /\ <<>> \in Seq(Entries) /\ Agree(l \o D, <<>>)
      BY <2>1 DEF Passes, Keeps
    <2>3. Passes(l \o D, <<>>, (l \o D) \o <<Working>>, <<>>, M)
      BY <1>1, <2>2, OtherPasses
    <2>4. Popped(q, n) = <<>>
      BY <1>1, <1>4, PoppedAll
    <2>5. Passes(l, q, (l \o D) \o <<Working>>, <<>>, M)
      BY <2>1, <2>3, PassOn
    <2>. QED
      BY <1>1, <1>2, <1>4, <2>4, <2>5
  <1>5. n <= 2 * Len(q) \/ n = 2 * Len(q) + 1
    BY <1>1
  <1>. QED
    BY <1>3, <1>4, <1>5

\* What starts a turn, cut short anywhere.
LEMMA SendPasses ==
  ASSUME log \in Seq(Event), queue \in Seq(Entries), Agree(log, queue),
         NEW r \in Msgs \cup {"nudge"},
         r \in Msgs => r \notin IdsIn(log, "queued") \cup IdsIn(log, "user"),
         NEW n \in Nat, n <= Len(SendScript(r))
  PROVE  Passes(log, queue, log \o SubSeq(SendScript(r), 1, n), Popped(queue, n), {r})
  <1>. DEFINE D == DeliverScript(queue)
  <1>1. /\ D \in Seq(Event) /\ Len(D) = 2 * Len(queue) /\ Len(queue) \in Nat
        /\ Working \in Event /\ Working.kind = "state"
    BY DeliverIs, LenProperties, StatesRecorded DEF IsScript
  <1>2. CASE r \notin Msgs
    <2>1. SendScript(r) = D \o <<Working>>
      BY <1>1, <1>2, ConcatEmptySeq DEF SendScript
    <2>2. n <= 2 * Len(queue) + 1
      BY <1>2, SendIs
    <2>. QED
      BY <2>1, <2>2, TurnPasses
  <1>3. CASE r \in Msgs
    <2>. DEFINE u == UserEv(r, FALSE)
                E == D \o <<u>>
    <2>1. u \in Event
      BY <1>3, EventKinds
    <2>2. SendScript(r) = E \o <<Working>> /\ n <= 2 * Len(queue) + 2
      BY <1>1, <1>3, SendIs DEF SendScript
    <2>. HIDE DEF u, D
    <2>3. /\ n <= Len(D) => SubSeq(E, 1, n) = SubSeq(D, 1, n)
          /\ n = Len(D) + 1 => SubSeq(E, 1, n) = E
          /\ log \o E = (log \o D) \o <<u>>
      <3>1. ToCut(log, D, u)
        BY <1>1, <2>1 DEF ToCut
      <3>2. CutBefore(log, D, u, n)
        BY <3>1, CutMore
      <3>. QED
        BY <3>2 DEF CutBefore
    <2>4. E \in Seq(Event) /\ Len(E) = Len(D) + 1
      BY <1>1, <2>1, OneMore
    <2>. HIDE DEF E
    <2>5. /\ n <= Len(E) => SubSeq(E \o <<Working>>, 1, n) = SubSeq(E, 1, n)
          /\ n = Len(E) + 1 => SubSeq(E \o <<Working>>, 1, n) = E \o <<Working>>
          /\ log \o (E \o <<Working>>) = (log \o E) \o <<Working>>
      <3>1. ToCut(log, E, Working)
        BY <1>1, <2>4 DEF ToCut
      <3>2. CutBefore(log, E, Working, n)
        BY <3>1, CutMore
      <3>. QED
        BY <3>2 DEF CutBefore
    <2>6. CASE n <= Len(D)
      <3>1. n <= Len(E) /\ n <= 2 * Len(queue)
        BY <1>1, <2>4, <2>6
      <3>2. SubSeq(SendScript(r), 1, n) = SubSeq(D, 1, n)
        BY <2>2, <2>3, <2>5, <2>6, <3>1
      <3>3. Passes(log, queue, log \o SubSeq(D, 1, n), Popped(queue, n), {r})
        BY <3>1, DeliverPasses DEF D
      <3>. QED
        BY <3>2, <3>3
    <2>7. /\ Passes(log, queue, log \o D, <<>>, {r})
          /\ log \o D \in Seq(Event) /\ <<>> \in Seq(Entries) /\ Agree(log \o D, <<>>)
          /\ r \notin IdsIn(log \o D, "queued") \cup IdsIn(log \o D, "user")
      <3>1. Passes(log, queue, log \o D, <<>>, {})
        BY DeliverAll DEF D
      <3>. QED
        BY <1>3, <3>1 DEF Passes, Keeps
    <2>8. /\ Passes(log, queue, log \o E, <<>>, {r})
          /\ log \o E \in Seq(Event) /\ Agree(log \o E, <<>>)
      <3>1. Passes(log \o D, <<>>, (log \o D) \o <<u>>, <<>>, {r})
        BY <1>3, <2>7, DirectPasses DEF u
      <3>2. Passes(log, queue, log \o E, <<>>, {r})
        BY <2>3, <2>7, <3>1, PassOn
      <3>. QED
        BY <3>2 DEF Passes, Keeps
    <2>9. Passes(log, queue, log \o SendScript(r), <<>>, {r})
      <3>1. Passes(log \o E, <<>>, (log \o E) \o <<Working>>, <<>>, {r})
        BY <1>1, <2>7, <2>8, OtherPasses
      <3>. QED
        BY <2>2, <2>5, <2>8, <3>1, PassOn
    <2>10. CASE n = Len(D) + 1
      <3>1. Popped(queue, n) = <<>>
        BY <1>1, <2>10, PoppedAll
      <3>2. SubSeq(SendScript(r), 1, n) = E
        <4>1. n <= Len(E)
          BY <1>1, <2>4, <2>10
        <4>. QED
          BY <2>2, <2>3, <2>5, <2>10, <4>1
      <3>. QED
        BY <2>8, <3>1, <3>2
    <2>11. CASE n = Len(D) + 2
      <3>1. Popped(queue, n) = <<>>
        BY <1>1, <2>11, PoppedAll
      <3>2. SubSeq(SendScript(r), 1, n) = SendScript(r)
        <4>1. n = Len(E) + 1
          BY <1>1, <2>4, <2>11
        <4>. QED
          BY <2>2, <2>5, <4>1
      <3>. QED
        BY <2>9, <3>1, <3>2
    <2>. QED
      <3>1. n <= Len(D) \/ n = Len(D) + 1 \/ n = Len(D) + 2
        <4>1. Len(D) = 2 * Len(queue) /\ Len(queue) \in Nat
          BY <1>1
        <4>2. n <= 2 * Len(queue) + 2
          BY <2>2
        <4>. QED
          BY <4>1, <4>2
      <3>. QED
        BY <2>6, <2>10, <2>11, <3>1
  <1>. QED
    BY <1>2, <1>3

\* The end of a turn and what follows it, cut short anywhere.
LEMMA EndPasses ==
  ASSUME log \in Seq(Event), queue \in Seq(Entries), Agree(log, queue),
         NEW t \in Runs, run[t].end \in Ends,
         NEW n \in Nat, n <= 1 + Len(AfterScript(t)), NEW M
  PROVE  Passes(log, queue, log \o SubSeq(<<EndEv(run[t].end)>> \o AfterScript(t), 1, n),
                IF n > 0 /\ After(t) = "turn" THEN Popped(queue, n - 1) ELSE queue, M)
  <1>. DEFINE e == EndEv(run[t].end)
              A == AfterScript(t)
              k == log \o <<e>>
  <1>1. e \in Event /\ e.kind = "state" /\ A \in Seq(Event) /\ Len(A) \in Nat
    BY StatesRecorded, AfterIs, LenProperties DEF IsScript
  <1>. HIDE DEF e
  <1>2. log \o SubSeq(<<e>> \o A, 1, n) = IF n = 0 THEN log ELSE k \o SubSeq(A, 1, n - 1)
    <2>1. n <= 1 + Len(A)
      OBVIOUS
    <2>2. ToCut(log, A, e)
      BY <1>1 DEF ToCut
    <2>. HIDE DEF A
    <2>3. CutAfter(log, A, e, n)
      BY <2>1, <2>2, CutFirst
    <2>. QED
      BY <2>3 DEF CutAfter
  <1>3. Passes(log, queue, k, queue, M) /\ k \in Seq(Event) /\ Agree(k, queue)
    <2>1. Passes(log, queue, k, queue, M)
      BY <1>1, OtherPasses
    <2>. QED
      BY <2>1 DEF Passes, Keeps
  <1>. HIDE DEF k
  <1>4. CASE n = 0
    <2>1. Passes(log, queue, log, queue, M)
      BY DEF Passes, Keeps
    <2>2. log \o SubSeq(<<e>> \o A, 1, n) = log
      BY <1>2, <1>4
    <2>3. ~(n > 0)
      BY <1>4
    <2>. QED
      BY <2>1, <2>2, <2>3 DEF e
  <1>5. CASE n # 0 /\ After(t) = "turn"
    <2>1. n - 1 \in Nat /\ n - 1 <= 2 * Len(queue) + 1
      <3>1. Len(A) = 2 * Len(queue) + 1
        BY <1>5, AfterIs
      <3>. QED
        BY <1>1, <1>5, <3>1
    <2>2. A = DeliverScript(queue) \o <<Working>>
      BY <1>5 DEF AfterScript
    <2>3. Passes(k, queue, k \o SubSeq(A, 1, n - 1), Popped(queue, n - 1), M)
      BY <1>3, <2>1, <2>2, TurnPasses
    <2>4. Passes(log, queue, k \o SubSeq(A, 1, n - 1), Popped(queue, n - 1), M)
      BY <1>3, <2>3, PassOn
    <2>. QED
      <3>1. log \o SubSeq(<<e>> \o A, 1, n) = k \o SubSeq(A, 1, n - 1)
        BY <1>2, <1>5
      <3>2. n > 0
        BY <1>5
      <3>. QED
        BY <1>5, <2>4, <3>1, <3>2 DEF e
  <1>6. CASE n # 0 /\ After(t) # "turn"
    <2>1. Passes(log, queue, k \o SubSeq(A, 1, n - 1), queue, M)
      <3>1. CASE n - 1 = 0
        <4>1. k \o SubSeq(A, 1, n - 1) = k
          BY <1>3, <3>1, SubSeqEmpty, ConcatEmptySeq
        <4>. QED
          BY <1>3, <4>1
      <3>2. CASE n - 1 # 0
        <4>1. A = <<Compacting>> /\ n - 1 = 1
          <5>1. After(t) = "compaction"
            <6>1. After(t) # "compaction" => Len(A) = 0
              BY <1>6, AfterIs
            <6>. QED
              BY <1>6, <3>2, <6>1
          <5>2. Len(A) = 1
            BY <5>1, AfterIs
          <5>3. A = <<Compacting>>
            BY <5>1 DEF AfterScript
          <5>. QED
            BY <1>6, <3>2, <5>2, <5>3
        <4>2. Compacting \in Event /\ Compacting.kind = "state"
          BY StatesRecorded
        <4>3. SubSeq(A, 1, n - 1) = <<Compacting>>
          <5>1. <<Compacting>> \in Seq(Event) /\ Len(<<Compacting>>) = 1
            BY <4>2
          <5>. QED
            BY <4>1, <5>1, SubSeqFull
        <4>4. Passes(k, queue, k \o <<Compacting>>, queue, M)
          BY <1>3, <4>2, OtherPasses
        <4>. QED
          BY <1>3, <4>3, <4>4, PassOn
      <3>. QED
        BY <3>1, <3>2
    <2>. QED
      BY <1>2, <1>6, <2>1 DEF e
  <1>. QED
    BY <1>4, <1>5, <1>6

------------------------------------------------------------------------------
(* The queue and its log, in every state *)

\* The queue there is, or that the next process will find.
Waiting == IF up THEN queue ELSE LoadQueue(log)

\* How often the process has died.
Deaths == spent.restarts + IF up THEN 0 ELSE 1

\* What is recorded was sent, and is no request any more.
Owned ==
  /\ inbox \cap Msgs \subseteq spent.sent
  /\ IdsIn(log, "queued") \cup IdsIn(log, "user") \subseteq spent.sent \ inbox

QueueInv ==
  /\ Owned
  /\ Agree(log, Waiting)
  /\ IsFiniteSet(LostIn(log, Waiting)) /\ Cardinality(LostIn(log, Waiting)) <= Deaths
  /\ up /\ spent.fails = 0 => LoadQueue(log) = queue

\* A step of the process from a log and a queue that agree to others that do.
Moves ==
  /\ up /\ up' /\ Keeps(log, queue, log', queue')
  /\ spent'.sent = spent.sent /\ spent'.restarts = spent.restarts
  /\ spent'.fails = 0 => spent.fails = 0 /\ (LoadQueue(log) = queue => LoadQueue(log') = queue')
  /\ inbox' \cap Msgs \subseteq inbox
  /\ IdsIn(log', "queued") \cup IdsIn(log', "user")
       \subseteq IdsIn(log, "queued") \cup IdsIn(log, "user") \cup (inbox \ inbox')

\* ... or that has nothing to do with the queue.
Quiet ==
  /\ up /\ up' /\ queue' = queue
  /\ \/ log' = log
     \/ \E e \in Event : e.kind \in {"state", "asked", "resolved"} /\ log' = log \o <<e>>
  /\ spent'.sent = spent.sent /\ spent'.restarts = spent.restarts
  /\ spent'.fails >= spent.fails
  /\ inbox' \cap Msgs \subseteq inbox

\* The messages a log names.
LEMMA IdsAreMsgs ==
  ASSUME NEW l \in Seq(Event)
  PROVE  IdsIn(l, "queued") \cup IdsIn(l, "user") \subseteq Msgs
  <1>1. \A i \in DOMAIN l : l[i] \in Event
    BY LenProperties, ElementOfSeq
  <1>2. \A i \in DOMAIN l : l[i].kind \in {"queued", "user"} => l[i].id \in Msgs
    BY <1>1, EventForm DEF OfMsg
  <1>. QED
    BY <1>2 DEF IdsIn, AtIn

\* Nothing that is recorded was recorded before, or is a request still.
LEMMA OwnedStill ==
  ASSUME Typed, Typed', Owned, spent'.sent = spent.sent, inbox' \cap Msgs \subseteq inbox,
         IdsIn(log', "queued") \cup IdsIn(log', "user")
           \subseteq IdsIn(log, "queued") \cup IdsIn(log, "user") \cup (inbox \ inbox')
  PROVE  Owned'
  <1>1. log \in Seq(Event) /\ log' \in Seq(Event)
    BY DEF Typed, Data
  <1>2. IdsIn(log', "queued") \cup IdsIn(log', "user") \subseteq Msgs
    BY <1>1, IdsAreMsgs
  <1>. QED
    BY <1>2 DEF Owned

\* A step that moves keeps the invariant.
LEMMA MovesOn ==
  ASSUME Typed, Typed', QueueInv, Moves
  PROVE  QueueInv'
  <1>1. Owned'
    BY OwnedStill DEF Moves, QueueInv
  <1>2. Waiting = queue /\ Waiting' = queue' /\ Deaths' = Deaths
    BY DEF Moves, Waiting, Deaths
  <1>3. Agree(log', queue') /\ LostIn(log', queue') \subseteq LostIn(log, queue)
    BY DEF Moves, Keeps
  <1>4. IsFiniteSet(LostIn(log', queue')) /\ Cardinality(LostIn(log', queue')) <= Deaths'
    <2>1. IsFiniteSet(LostIn(log, queue)) /\ Cardinality(LostIn(log, queue)) <= Deaths
      BY <1>2 DEF QueueInv
    <2>2. /\ IsFiniteSet(LostIn(log', queue'))
          /\ Cardinality(LostIn(log', queue')) <= Cardinality(LostIn(log, queue))
      BY <1>3, <2>1, FS_Subset
    <2>3. Cardinality(LostIn(log', queue')) \in Nat /\ Cardinality(LostIn(log, queue)) \in Nat
      BY <2>1, <2>2, FS_CardinalityType
    <2>4. Deaths \in Nat
      BY Counts DEF Deaths
    <2>. QED
      BY <1>2, <2>1, <2>2, <2>3, <2>4
  <1>5. up' /\ spent'.fails = 0 => LoadQueue(log') = queue'
    BY DEF Moves, QueueInv
  <1>. QED
    BY <1>1, <1>2, <1>3, <1>4, <1>5 DEF QueueInv

\* What does not touch the queue.
LEMMA QuietMoves ==
  ASSUME Typed, QueueInv, Quiet
  PROVE  Moves
  <1>1. /\ log \in Seq(Event) /\ queue \in Seq(Entries) /\ Agree(log, queue) /\ up /\ up'
    BY DEF Typed, Data, QueueInv, Waiting, Quiet
  <1>2. /\ Keeps(log, queue, log', queue) /\ LoadQueue(log') = LoadQueue(log)
        /\ IdsIn(log', "queued") = IdsIn(log, "queued")
        /\ IdsIn(log', "user") = IdsIn(log, "user")
    <2>1. CASE log' = log
      BY <1>1, <2>1 DEF Keeps
    <2>2. ASSUME NEW e \in Event, e.kind \in {"state", "asked", "resolved"},
                 log' = log \o <<e>>
          PROVE  /\ Keeps(log, queue, log', queue) /\ LoadQueue(log') = LoadQueue(log)
                 /\ IdsIn(log', "queued") = IdsIn(log, "queued")
                 /\ IdsIn(log', "user") = IdsIn(log, "user")
      BY <1>1, <2>2, OtherKeeps
    <2>. QED
      BY <2>1, <2>2 DEF Quiet
  <1>3. spent'.fails = 0 => spent.fails = 0
    <2>1. spent.fails \in Nat /\ spent'.fails >= spent.fails
      BY Counts DEF Quiet
    <2>. QED
      BY <2>1
  <1>. QED
    BY <1>1, <1>2, <1>3 DEF Quiet, Moves

\* A script, recorded for the requests in M.
LEMMA PassesMove ==
  ASSUME up, up', NEW M, Passes(log, queue, log', queue', M), M \cap inbox' = {}, M \subseteq inbox,
         inbox' \subseteq inbox,
         spent'.sent = spent.sent, spent'.restarts = spent.restarts,
         spent'.fails = 0 => spent.fails = 0 /\ (LoadQueue(log) = queue => LoadQueue(log') = queue')
  PROVE  Moves
  BY DEF Passes, Moves

\* Everything delivered: a restart finds the queue empty, as it is.
LEMMA EmptyReloads ==
  ASSUME NEW l, NEW q, NEW k, NEW M, Passes(l, q, k, <<>>, M)
  PROVE  LoadQueue(k) = <<>>
  BY DEF Passes, Keeps, Agree, Reloads

\* How the counts change, for the queue.
LEMMA SpentSends ==
  ASSUME Typed,
         \/ spent' = spent
         \/ Fail
         \/ \E S : spent' = [spent EXCEPT !.asked = S]
         \/ \E n : spent' = [spent EXCEPT !.edits = n] \/ spent' = [spent EXCEPT !.compacts = n]
  PROVE  /\ spent'.sent = spent.sent /\ spent'.restarts = spent.restarts
         /\ spent'.fails >= spent.fails
  <1>1. spent \in SpentRecord /\ spent.fails \in Nat
    BY Counts
  <1>. QED
    BY <1>1 DEF SpentRecord, Fail

\* A failed append counts.
LEMMA FailCounts ==
  ASSUME Typed, Fail
  PROVE  spent'.sent = spent.sent /\ spent'.restarts = spent.restarts /\ spent'.fails # 0
  <1>1. spent \in SpentRecord /\ spent.fails \in Nat
    BY Counts
  <1>2. /\ spent'.sent = spent.sent /\ spent'.restarts = spent.restarts
        /\ spent'.fails = spent.fails + 1
    BY <1>1 DEF SpentRecord, Fail
  <1>. QED
    BY <1>1, <1>2

\* The steps of a turn between its starts and its end leave the queue alone.
LEMMA TurnQuiet ==
  ASSUME Typed, QueueInv, NEW t \in Runs, TurnStepOf(t)
  PROVE  Quiet \/ Boundary(t) \/ \E n \in Nat : BoundaryFails(t, n)
  <1>. USE DEF stored, memory
  <1>1. run[t].pc = "answered" => answer[run[t].prompt] \in Answers
    BY DEF Typed, Prompted
  <1>2. run[t].pc \in AtPrompt => run[t].prompt \in Prompts
    BY DEF Typed, Prompted
  <1>3. CASE \/ StepLimit(t) \/ Compacted(t) \/ CallCancelled(t) \/ NextTool(t) \/ ToolsDone(t)
             \/ ToolDone(t) \/ Stuck(t) \/ TakeAnswer(t) \/ GiveUp(t)
             \/ \E k \in 0 .. MaxTools : Replied(t, k)
    <2>1. /\ up /\ up' /\ log' = log /\ queue' = queue /\ inbox' = inbox /\ spent' = spent
      BY <1>3
      DEF StepLimit, Compacted, CallCancelled, NextTool, ToolsDone, ToolDone, Stuck, TakeAnswer,
          GiveUp, Replied
    <2>. QED
      BY <2>1, SpentSends DEF Quiet
  <1>4. ASSUME NEW e \in Event, e.kind \in {"state", "asked", "resolved"}, NEW s,
               Write(<<e>>, s) \/ log' = log, up, up', queue' = queue, inbox' = inbox,
               spent' = spent \/ Fail
        PROVE  Quiet
    <2>1. log' = log \/ log' = log \o <<e>>
      BY <1>4 DEF Write
    <2>. QED
      BY <1>4, <2>1, SpentSends DEF Quiet
  <1>5. CASE Wait(t)
    <2>1. Write(<<StateEv("WAITING", "")>>, "WAITING") \/ log' = log
      BY <1>5 DEF Wait
    <2>2. up /\ up' /\ queue' = queue /\ inbox' = inbox /\ (spent' = spent \/ Fail)
      BY <1>5 DEF Wait
    <2>3. StateEv("WAITING", "") \in Event /\ StateEv("WAITING", "").kind = "state"
      BY StatesRecorded
    <2>. QED
      BY <1>4, <2>1, <2>2, <2>3
  <1>6. CASE Resume(t)
    <2>1. Write(<<Working>>, "WORKING") \/ log' = log
      BY <1>6 DEF Resume
    <2>2. up /\ up' /\ queue' = queue /\ inbox' = inbox /\ (spent' = spent \/ Fail)
      BY <1>6 DEF Resume
    <2>3. Working \in Event /\ Working.kind = "state"
      BY StatesRecorded
    <2>. QED
      BY <1>4, <2>1, <2>2, <2>3
  <1>7. CASE Resolve(t)
    <2>. DEFINE p == run[t].prompt
                d == IF run[t].pc = "gaveup" THEN "interrupted" ELSE answer[p]
    <2>1. Write(<<ResolvedEv(p, d)>>, state) \/ log' = log
      BY <1>7 DEF Resolve
    <2>2. up /\ up' /\ queue' = queue /\ inbox' = inbox /\ (spent' = spent \/ Fail)
      BY <1>7 DEF Resolve
    <2>3. ResolvedEv(p, d) \in Event /\ ResolvedEv(p, d).kind = "resolved"
      <3>1. p \in Prompts /\ d \in Answers \cup {"interrupted"}
        BY <1>1, <1>2, <1>7 DEF Resolve, AtPrompt
      <3>. HIDE DEF p, d
      <3>. QED
        BY <3>1, EventKinds
    <2>. HIDE DEF p, d
    <2>. QED
      BY <1>4, <2>1, <2>2, <2>3
  <1>8. ASSUME NEW p \in Prompts, NEW pats \in SUBSET Patterns, Ask(t, p, pats)
        PROVE  Quiet
    <2>1. AskedEv(p) \in Event /\ AskedEv(p).kind = "asked"
      BY EventKinds
    <2>2. log' = log \/ log' = log \o <<AskedEv(p)>>
      BY <1>8 DEF Ask, Write
    <2>3. up /\ up' /\ queue' = queue /\ inbox' = inbox
      BY <1>8 DEF Ask
    <2>4. /\ spent'.sent = spent.sent /\ spent'.restarts = spent.restarts
          /\ spent'.fails >= spent.fails
      <3>1. CASE spent' = [spent EXCEPT !.asked = spent.asked \cup {p}]
        BY <3>1, SpentSends
      <3>2. CASE spent' = [spent EXCEPT !.asked = spent.asked \cup {p}, !.fails = @ + 1]
        <4>1. spent \in SpentRecord /\ spent.fails \in Nat
          BY Counts
        <4>2. /\ spent'.sent = spent.sent /\ spent'.restarts = spent.restarts
              /\ spent'.fails = spent.fails + 1
          BY <3>2, <4>1 DEF SpentRecord
        <4>. QED
          BY <4>1, <4>2
      <3>. QED
        BY <1>8, <3>1, <3>2 DEF Ask
    <2>. QED
      BY <2>1, <2>2, <2>3, <2>4 DEF Quiet
  <1>. QED
    BY <1>3, <1>5, <1>6, <1>7, <1>8 DEF TurnStepOf

\* A step boundary delivers the queue, or what it can of it.
LEMMA BoundaryMoves ==
  ASSUME Typed, QueueInv, NEW t \in Runs, Boundary(t) \/ \E n \in Nat : BoundaryFails(t, n)
  PROVE  Moves
  <1>. USE DEF stored, memory
  <1>1. /\ log \in Seq(Event) /\ queue \in Seq(Entries) /\ up /\ Agree(log, queue)
        /\ Len(queue) \in Nat
    BY LenProperties DEF Typed, Data, QueueInv, Waiting, Boundary, BoundaryFails
  <1>2. CASE Boundary(t) /\ run[t].step = 0
    <2>1. Quiet
      <3>1. /\ up /\ up' /\ log' = log /\ queue' = queue /\ inbox' = inbox /\ spent' = spent
        BY <1>2 DEF Boundary
      <3>. QED
        BY <3>1, SpentSends DEF Quiet
    <2>. QED
      BY <2>1, QuietMoves
  <1>3. CASE Boundary(t) /\ run[t].step # 0
    <2>1. /\ log' = log \o DeliverScript(queue) /\ queue' = <<>> /\ up'
          /\ inbox' = inbox /\ spent' = spent
      BY <1>3 DEF Boundary, Write
    <2>2. Passes(log, queue, log', queue', {}) /\ LoadQueue(log') = queue'
      BY <1>1, <2>1, DeliverAll
    <2>. QED
      BY <1>1, <2>1, <2>2, PassesMove
  <1>4. ASSUME NEW n \in Nat, BoundaryFails(t, n)
        PROVE  Moves
    <2>1. /\ log' = log \o SubSeq(DeliverScript(queue), 1, n) /\ queue' = Popped(queue, n) /\ up'
          /\ inbox' = inbox /\ Fail /\ n <= 2 * Len(queue)
      BY <1>1, <1>4 DEF BoundaryFails, Write
    <2>2. Passes(log, queue, log', queue', {})
      BY <1>1, <2>1, DeliverPasses
    <2>3. spent'.sent = spent.sent /\ spent'.restarts = spent.restarts /\ spent'.fails # 0
      BY <2>1, FailCounts
    <2>. QED
      BY <1>1, <2>1, <2>2, <2>3, PassesMove
  <1>. QED
    BY <1>2, <1>3, <1>4

\* The end of a turn, and the turn that it starts.
LEMMA EndMoves ==
  ASSUME Typed, QueueInv, NEW t \in Runs,
         \/ \E u \in Runs : EndTurn(t, u)
         \/ \E n \in Nat : EndTurnFails(t, n)
  PROVE  Moves
  <1>. DEFINE A == AfterScript(t)
              e == EndEv(run[t].end)
              s == <<e>> \o A
  <1>1. /\ log \in Seq(Event) /\ queue \in Seq(Entries) /\ up /\ Agree(log, queue)
        /\ Len(queue) \in Nat /\ run[t].end \in Ends
        /\ spent.fails = 0 => LoadQueue(log) = queue
    BY LenProperties
    DEF Typed, Data, Inv, TypeInv, RunRecord, QueueInv, Waiting, EndTurn, EndTurnFails
  <1>2. /\ s \in Seq(Event) /\ Len(s) = 1 + Len(A) /\ Len(A) \in Nat /\ A \in Seq(Event)
        /\ After(t) = "turn" => Len(A) = 2 * Len(queue) + 1
        /\ e \in Event /\ e.kind = "state"
    BY <1>1, AfterIs, LenProperties, StatesRecorded DEF IsScript
  <1>3. ASSUME NEW u \in Runs, EndTurn(t, u)
        PROVE  Moves
    <2>1. /\ log' = log \o s /\ up' /\ inbox' = inbox /\ spent' = spent
          /\ queue' = IF After(t) = "turn" THEN <<>> ELSE queue
      BY <1>3 DEF EndTurn, Write
    <2>. DEFINE n == 1 + Len(A)
    <2>2. n \in Nat /\ n > 0 /\ n <= 1 + Len(A) /\ n - 1 = Len(A)
      BY <1>2
    <2>3. log' = log \o SubSeq(s, 1, n)
      <3>1. SubSeq(s, 1, Len(s)) = s
        <4>1. s \in Seq(Event)
          BY <1>2
        <4>. HIDE DEF s
        <4>. QED
          BY <4>1, SubSeqFull
      <3>2. Len(s) = n
        BY <1>2
      <3>. HIDE DEF s, n
      <3>. QED
        BY <2>1, <3>1, <3>2
    <2>. HIDE DEF n
    <2>4. Passes(log, queue, log \o SubSeq(s, 1, n),
                 IF n > 0 /\ After(t) = "turn" THEN Popped(queue, n - 1) ELSE queue, {})
      BY <1>1, <2>2, EndPasses
    <2>5. queue' = IF n > 0 /\ After(t) = "turn" THEN Popped(queue, n - 1) ELSE queue
      <3>1. CASE After(t) = "turn"
        <4>1. n - 1 \in Nat /\ n - 1 >= 2 * Len(queue)
          BY <1>1, <1>2, <2>2, <3>1
        <4>2. Popped(queue, n - 1) = <<>>
          BY <1>1, <4>1, PoppedAll
        <4>. QED
          BY <2>1, <2>2, <3>1, <4>2
      <3>2. CASE After(t) # "turn"
        BY <2>1, <3>2
      <3>. QED
        BY <3>1, <3>2
    <2>6. Passes(log, queue, log', queue', {})
      BY <2>3, <2>4, <2>5
    <2>7. spent.fails = 0 => LoadQueue(log') = queue'
      <3>1. CASE After(t) = "turn"
        BY <2>1, <2>6, <3>1, EmptyReloads
      <3>2. CASE After(t) # "turn"
        <4>1. queue' = queue
          BY <2>1, <3>2
        <4>2. LoadQueue(log \o s) = LoadQueue(log)
          <5>1. /\ LoadQueue(log \o <<e>>) = LoadQueue(log) /\ log \o <<e>> \in Seq(Event)
            BY <1>1, <1>2, LoadOther, LoadMore
          <5>2. CASE A = <<>>
            <6>1. s = <<e>>
              BY <1>2, <5>2, ConcatEmptySeq
            <6>. QED
              BY <5>1, <6>1
          <5>3. CASE A = <<Compacting>>
            <6>1. Compacting \in Event /\ Compacting.kind = "state"
              BY StatesRecorded
            <6>2. log \o s = (log \o <<e>>) \o <<Compacting>>
              <7>. DEFINE b == <<e>>
                          c == <<Compacting>>
              <7>1. b \in Seq(Event) /\ c \in Seq(Event) /\ log \in Seq(Event)
                BY <1>1, <1>2, <6>1
              <7>2. s = b \o c
                BY <5>3
              <7>. HIDE DEF b, c, s
              <7>3. log \o (b \o c) = (log \o b) \o c
                BY <7>1, ScriptsAssociate
              <7>. QED
                BY <7>2, <7>3 DEF b, c
            <6>3. LoadQueue((log \o <<e>>) \o <<Compacting>>) = LoadQueue(log \o <<e>>)
              BY <5>1, <6>1, LoadOther
            <6>. QED
              BY <5>1, <6>2, <6>3
          <5>. QED
            BY <3>2, <5>2, <5>3 DEF AfterScript
        <4>. QED
          BY <1>1, <2>1, <4>1, <4>2
      <3>. QED
        BY <3>1, <3>2
    <2>. QED
      <3>1. /\ up /\ up' /\ inbox' = inbox /\ spent'.sent = spent.sent
            /\ spent'.restarts = spent.restarts /\ spent'.fails = spent.fails
        BY <1>1, <2>1
      <3>. QED
        BY <2>6, <2>7, <3>1, PassesMove
  <1>4. ASSUME NEW n \in Nat, EndTurnFails(t, n)
        PROVE  Moves
    <2>1. /\ log' = log \o SubSeq(s, 1, n) /\ up' /\ inbox' = inbox /\ Fail /\ n <= 1 + Len(A)
          /\ queue' = IF n > 0 /\ After(t) = "turn" THEN Popped(queue, n - 1) ELSE queue
      BY <1>2, <1>4 DEF EndTurnFails, Write
    <2>2. Passes(log, queue, log', queue', {})
      BY <1>1, <2>1, EndPasses
    <2>3. spent'.sent = spent.sent /\ spent'.restarts = spent.restarts /\ spent'.fails # 0
      BY <2>1, FailCounts
    <2>. QED
      <3>1. up /\ up' /\ inbox' = inbox
        BY <1>1, <2>1
      <3>. QED
        BY <2>2, <2>3, <3>1, PassesMove
  <1>. QED
    BY <1>3, <1>4

\* A client sends a message: nothing is recorded yet.
LEMMA SendKeeps ==
  ASSUME Typed, QueueInv, NEW m \in Msgs, SendMessage(m)
  PROVE  QueueInv'
  <1>. USE DEF stored, memory
  <1>1. spent \in SpentRecord
    BY Counts
  <1>2. /\ up /\ up' /\ log' = log /\ queue' = queue /\ inbox' = inbox \cup {m}
        /\ m \notin spent.sent
        /\ spent'.sent = spent.sent \cup {m} /\ spent'.restarts = spent.restarts
        /\ spent'.fails = spent.fails
    BY <1>1 DEF SendMessage, SpentRecord
  <1>3. Owned'
    BY <1>2 DEF QueueInv, Owned
  <1>4. Waiting' = Waiting /\ Deaths' = Deaths
    BY <1>2 DEF Waiting, Deaths
  <1>. QED
    BY <1>2, <1>3, <1>4 DEF QueueInv

\* A message that joins the queue, or changes in it, or leaves it.
LEMMA QueuedMoves ==
  ASSUME Typed, QueueInv, NEW m \in Msgs, Enqueue(m) \/ EditQueued(m) \/ CancelQueued(m)
  PROVE  Moves
  <1>1. /\ log \in Seq(Event) /\ queue \in Seq(Entries) /\ up /\ up' /\ Agree(log, queue)
    BY DEF Typed, Data, QueueInv, Waiting, Enqueue, EditQueued, CancelQueued
  <1>2. CASE Enqueue(m)
    <2>1. /\ log' = log \o <<QueuedEv(m)>> /\ queue' = Append(queue, Entry(m))
          /\ inbox' = inbox \ {m} /\ m \in inbox /\ spent' = spent
      BY <1>2 DEF Enqueue, Write
    <2>2. m \notin IdsIn(log, "queued") \cup IdsIn(log, "user")
      BY <2>1 DEF QueueInv, Owned
    <2>3. /\ Keeps(log, queue, log', queue')
          /\ LoadQueue(log) = queue => LoadQueue(log') = queue'
          /\ IdsIn(log', "queued") = IdsIn(log, "queued") \cup {m}
          /\ IdsIn(log', "user") = IdsIn(log, "user")
      BY <1>1, <2>1, <2>2, QueueKeeps
    <2>. QED
      BY <1>1, <2>1, <2>3 DEF Moves
  <1>3. CASE EditQueued(m)
    <2>1. /\ log' = log \o <<EditedEv(m)>> /\ queue' = Edited(queue, m) /\ inbox' = inbox
          /\ spent'.sent = spent.sent /\ spent'.restarts = spent.restarts
          /\ spent'.fails = spent.fails
      <3>1. spent \in SpentRecord
        BY Counts
      <3>. QED
        BY <1>3, <3>1 DEF EditQueued, Write, SpentRecord
    <2>2. /\ Keeps(log, queue, log', queue')
          /\ LoadQueue(log) = queue => LoadQueue(log') = queue'
          /\ IdsIn(log', "queued") = IdsIn(log, "queued")
          /\ IdsIn(log', "user") = IdsIn(log, "user")
      BY <1>1, <2>1, EditKeeps
    <2>. QED
      BY <1>1, <2>1, <2>2 DEF Moves
  <1>4. CASE CancelQueued(m)
    <2>1. /\ log' = log \o <<CancelledEv(m)>> /\ queue' = Without(queue, m) /\ inbox' = inbox
          /\ spent' = spent
      BY <1>4 DEF CancelQueued, Write
    <2>2. /\ Keeps(log, queue, log', queue')
          /\ LoadQueue(log) = queue => LoadQueue(log') = queue'
          /\ IdsIn(log', "queued") = IdsIn(log, "queued")
          /\ IdsIn(log', "user") = IdsIn(log, "user")
      BY <1>1, <2>1, CancelKeeps
    <2>. QED
      BY <1>1, <2>1, <2>2 DEF Moves
  <1>. QED
    BY <1>2, <1>3, <1>4

\* The start of a turn for request r, or as much of it as is recorded.
LEMMA StartMoves ==
  ASSUME Typed, QueueInv, NEW r \in Msgs \cup {"nudge"},
         (\E t \in Runs : SendStarts(r, t)) \/ (\E n \in Nat : SendFails(r, n))
  PROVE  Moves
  <1>1. /\ log \in Seq(Event) /\ queue \in Seq(Entries) /\ up /\ up' /\ Agree(log, queue)
        /\ r \in inbox /\ inbox' = inbox \ {r} /\ Len(queue) \in Nat
    BY LenProperties DEF Typed, Data, QueueInv, Waiting, SendStarts, SendFails
  <1>2. r \in Msgs => r \notin IdsIn(log, "queued") \cup IdsIn(log, "user")
    BY <1>1 DEF QueueInv, Owned
  <1>3. /\ SendScript(r) \in Seq(Event) /\ Len(SendScript(r)) \in Nat
        /\ Len(SendScript(r)) >= 2 * Len(queue)
        /\ SubSeq(SendScript(r), 1, Len(SendScript(r))) = SendScript(r)
    <2>1. /\ SendScript(r) \in Seq(Event)
          /\ Len(SendScript(r)) = 2 * Len(queue) + IF r \in Msgs THEN 2 ELSE 1
      BY <1>1, SendIs DEF IsScript
    <2>2. SubSeq(SendScript(r), 1, Len(SendScript(r))) = SendScript(r)
      BY <2>1, SubSeqFull
    <2>. QED
      BY <1>1, <2>1, <2>2
  <1>4. ASSUME NEW t \in Runs, SendStarts(r, t)
        PROVE  Moves
    <2>1. log' = log \o SendScript(r) /\ queue' = <<>> /\ spent' = spent
      BY <1>4 DEF SendStarts, Write
    <2>2. Popped(queue, Len(SendScript(r))) = <<>>
      BY <1>1, <1>3, PoppedAll
    <2>3. Passes(log, queue, log \o SubSeq(SendScript(r), 1, Len(SendScript(r))),
                 Popped(queue, Len(SendScript(r))), {r})
      <3>1. Len(SendScript(r)) \in Nat /\ Len(SendScript(r)) <= Len(SendScript(r))
        BY <1>3
      <3>. QED
        BY <1>1, <1>2, <3>1, SendPasses
    <2>4. Passes(log, queue, log', <<>>, {r})
      BY <1>3, <2>1, <2>2, <2>3
    <2>5. LoadQueue(log') = <<>>
      BY <2>4, EmptyReloads
    <2>. QED
      BY <1>1, <2>1, <2>4, <2>5, PassesMove
  <1>5. ASSUME NEW n \in Nat, SendFails(r, n)
        PROVE  Moves
    <2>1. /\ log' = log \o SubSeq(SendScript(r), 1, n) /\ queue' = Popped(queue, n) /\ Fail
          /\ n <= Len(SendScript(r))
      BY <1>3, <1>5 DEF SendFails, Write
    <2>2. Passes(log, queue, log', queue', {r})
      BY <1>1, <1>2, <2>1, SendPasses
    <2>3. spent'.sent = spent.sent /\ spent'.restarts = spent.restarts /\ spent'.fails # 0
      BY <2>1, FailCounts
    <2>. QED
      BY <1>1, <2>2, <2>3, PassesMove
  <1>. QED
    BY <1>4, <1>5

\* What clients do.
LEMMA QueueClient ==
  ASSUME Typed, Typed', QueueInv, Client
  PROVE  QueueInv'
  <1>. USE DEF stored, memory
  <1>1. ASSUME up, up', log' = log, queue' = queue, inbox' \cap Msgs \subseteq inbox,
               \/ spent' = spent
               \/ Fail
               \/ \E n : spent' = [spent EXCEPT !.compacts = n]
        PROVE  Quiet
    BY <1>1, SpentSends DEF Quiet
  <1>2. Msgs \cap {"nudge", "compact"} = {}
    BY SessionAssumption
  <1>3. ASSUME NEW m \in Msgs, EnqueueFails(m)
        PROVE  Quiet
    BY <1>1, <1>3 DEF EnqueueFails
  <1>4. CASE SendEmpty \/ Compact \/ Refuse \/ CompactLater \/ Interrupt
    <2>1. Quiet
      BY <1>1, <1>2, <1>4 DEF SendEmpty, Compact, Refuse, CompactLater, Interrupt
    <2>. QED
      BY <2>1, QuietMoves, MovesOn
  <1>5. ASSUME NEW t \in Runs, CompactNow(t)
        PROVE  Quiet
    <2>1. /\ up /\ up' /\ queue' = queue /\ inbox' \cap Msgs \subseteq inbox /\ spent' = spent
      BY <1>5 DEF CompactNow
    <2>2. log' = log \/ log' = log \o <<Compacting>>
      BY <1>5 DEF CompactNow, Write
    <2>3. Compacting \in Event /\ Compacting.kind = "state"
      BY StatesRecorded
    <2>. QED
      BY <2>1, <2>2, <2>3, SpentSends DEF Quiet
  <1>6. ASSUME NEW p \in Prompts, NEW d \in {"allow", "deny", "session"}, AnswerPrompt(p, d)
        PROVE  Quiet
    BY <1>1, <1>6 DEF AnswerPrompt
  <1>7. \A n \in 0 .. 2 * Len(queue) + 1 : n \in Nat
    OBVIOUS
  <1>8. CASE \E m \in Msgs : SendMessage(m)
    BY <1>8, SendKeeps
  <1>9. CASE \E m \in Msgs : Enqueue(m) \/ EditQueued(m) \/ CancelQueued(m)
    BY <1>9, QueuedMoves, MovesOn
  <1>10. CASE \E r \in Msgs \cup {"nudge"} :
                (\E t \in Runs : SendStarts(r, t)) \/ (\E n \in Nat : SendFails(r, n))
    BY <1>10, StartMoves, MovesOn
  <1>11. CASE Quiet
    BY <1>11, QuietMoves, MovesOn
  <1>. QED
    BY <1>3, <1>4, <1>5, <1>6, <1>7, <1>8, <1>9, <1>10, <1>11 DEF Client

\* Whatever a handler was recording when the process died.
LEMMA InProgressPasses ==
  ASSUME Typed, QueueInv, up, NEW s \in InProgress, NEW n \in Nat, n <= Len(s)
  PROVE  \E c : Passes(log, queue, log \o SubSeq(s, 1, n), c, inbox)
  <1>1. /\ log \in Seq(Event) /\ queue \in Seq(Entries) /\ Agree(log, queue)
    BY DEF Typed, Data, QueueInv, Waiting
  <1>2. CASE s = <<>>
    <2>1. n = 0
      BY <1>2
    <2>2. log \o SubSeq(s, 1, n) = log
      <3>1. SubSeq(s, 1, 0) = <<>>
        BY SubSeqEmpty
      <3>. QED
        BY <1>1, <2>1, <3>1, ConcatEmptySeq
    <2>3. Passes(log, queue, log, queue, inbox)
      BY <1>1 DEF Passes, Keeps
    <2>. QED
      BY <2>2, <2>3
  <1>3. ASSUME NEW r \in inbox, Startable(r), s = SendScript(r)
        PROVE  \E c : Passes(log, queue, log \o SubSeq(s, 1, n), c, inbox)
    <2>1. /\ r \in Msgs \cup {"nudge"}
          /\ r \in Msgs => r \notin IdsIn(log, "queued") \cup IdsIn(log, "user")
      BY <1>3 DEF QueueInv, Owned, Startable
    <2>2. Passes(log, queue, log \o SubSeq(s, 1, n), Popped(queue, n), {r})
      BY <1>1, <1>3, <2>1, SendPasses
    <2>3. Passes(log, queue, log \o SubSeq(s, 1, n), Popped(queue, n), inbox)
      BY <2>2 DEF Passes
    <2>. QED
      BY <2>3
  <1>4. CASE s = DeliverScript(queue)
    <2>1. Len(DeliverScript(queue)) = 2 * Len(queue)
      BY <1>1, DeliverIs
    <2>. QED
      BY <1>1, <1>4, <2>1, DeliverPasses
  <1>5. ASSUME NEW t \in Runs, s = <<EndEv(run[t].end)>> \o AfterScript(t)
        PROVE  \E c : Passes(log, queue, log \o SubSeq(s, 1, n), c, inbox)
    <2>1. run[t].end \in Ends
      BY DEF Typed, Inv, TypeInv, RunRecord
    <2>2. n <= 1 + Len(AfterScript(t))
      <3>1. Len(<<EndEv(run[t].end)>> \o AfterScript(t)) = 1 + Len(AfterScript(t))
        BY <1>1, <2>1, AfterIs
      <3>. QED
        BY <1>5, <3>1
    <2>3. Passes(log, queue, log \o SubSeq(<<EndEv(run[t].end)>> \o AfterScript(t), 1, n),
                 IF n > 0 /\ After(t) = "turn" THEN Popped(queue, n - 1) ELSE queue, inbox)
      BY <1>1, <2>1, <2>2, EndPasses
    <2>. QED
      BY <1>5, <2>3
  <1>. QED
    BY <1>2, <1>3, <1>4, <1>5 DEF InProgress

\* The queue a restart finds agrees with the log, and lacks one message at most.
LEMMA LoadedAgrees ==
  ASSUME NEW l \in Seq(Event), NEW c \in Seq(Entries), Agree(l, c)
  PROVE  /\ Agree(l, LoadQueue(l))
         /\ \E m : LostIn(l, LoadQueue(l)) \subseteq LostIn(l, c) \cup {m}
  <1>1. CASE LoadQueue(l) = c
    BY <1>1 DEF Agree, Reloads
  <1>2. CASE c # <<>> /\ LoadQueue(l) = Tail(c)
    <2>. DEFINE d == Tail(c)
                g == [a \in 1 .. Len(d) |-> a + 1]
    <2>1. /\ d \in Seq(Entries) /\ Len(c) \in Nat \ {0} /\ Len(d) = Len(c) - 1
          /\ \A i \in 1 .. Len(c) - 1 : d[i] = c[i + 1]
      BY <1>2, TailIs
    <2>. HIDE DEF d
    <2>2. /\ g \in [1 .. Len(d) -> 1 .. Len(c)]
          /\ \A a, b \in 1 .. Len(d) : a < b => g[a] < g[b]
          /\ \A a \in 1 .. Len(d) : d[a].id = c[g[a]].id
      BY <2>1
    <2>. HIDE DEF g
    <2>3. Ordered(l, d)
      BY <2>1, <2>2, OrderedPart DEF Agree
    <2>4. InQueue(c) \subseteq InQueue(d) \cup {c[1].id}
      <3>. SUFFICES ASSUME NEW a \in 1 .. Len(c), a # 1
                    PROVE  c[a].id \in InQueue(d)
        BY DEF InQueue
      <3>1. a - 1 \in 1 .. Len(d) /\ d[a - 1] = c[a]
        BY <2>1
      <3>. QED
        BY <3>1 DEF InQueue
    <2>5. LostIn(l, d) \subseteq LostIn(l, c) \cup {c[1].id}
      BY <2>4 DEF LostIn
    <2>. QED
      BY <1>2, <2>3, <2>5 DEF Agree, Reloads, d
  <1>. QED
    BY <1>1, <1>2 DEF Agree, Reloads

\* The process dies.
LEMMA QueueLost ==
  ASSUME Typed, Typed', QueueInv, up, Lost, NEW c, Passes(log, queue, log', c, inbox)
  PROVE  QueueInv'
  <1>1. /\ ~up' /\ inbox' = {} /\ spent' = spent
        /\ log' \in Seq(Event) /\ c \in Seq(Entries) /\ Agree(log', c)
        /\ LostIn(log', c) \subseteq LostIn(log, queue)
    BY DEF Lost, Passes, Keeps
  <1>2. Owned'
    <2>1. IdsIn(log', "queued") \cup IdsIn(log', "user")
            \subseteq IdsIn(log, "queued") \cup IdsIn(log, "user") \cup (inbox \ inbox')
      BY <1>1 DEF Passes
    <2>. QED
      BY <1>1, <2>1, OwnedStill DEF QueueInv
  <1>. DEFINE q == LoadQueue(log')
  <1>3. Waiting = queue /\ Waiting' = q /\ Deaths' = spent.restarts + 1 /\ Deaths = spent.restarts
    <2>1. spent.restarts \in Nat
      BY Counts
    <2>. QED
      BY <1>1, <2>1 DEF Waiting, Deaths
  <1>4. Agree(log', q)
    BY <1>1, LoadedAgrees
  <1>5. PICK m : LostIn(log', q) \subseteq LostIn(log', c) \cup {m}
    BY <1>1, LoadedAgrees
  <1>. HIDE DEF q
  <1>6. IsFiniteSet(LostIn(log', q)) /\ Cardinality(LostIn(log', q)) <= spent.restarts + 1
    <2>. DEFINE S == LostIn(log, queue)
                T == LostIn(log', q)
    <2>1. IsFiniteSet(S) /\ Cardinality(S) <= spent.restarts
      BY <1>3 DEF QueueInv
    <2>2. T \subseteq S \cup {m}
      BY <1>1, <1>5
    <2>. HIDE DEF S, T
    <2>3. /\ IsFiniteSet(S \cup {m}) /\ Cardinality(S) \in Nat
          /\ Cardinality(S \cup {m}) = IF m \in S THEN Cardinality(S) ELSE Cardinality(S) + 1
      BY <2>1, FS_AddElement, FS_CardinalityType
    <2>4. /\ IsFiniteSet(T) /\ Cardinality(T) <= Cardinality(S \cup {m})
          /\ Cardinality(T) \in Nat
      BY <2>2, <2>3, FS_Subset, FS_CardinalityType
    <2>5. spent.restarts \in Nat
      BY Counts
    <2>6. Cardinality(T) <= spent.restarts + 1
      BY <2>1, <2>3, <2>4, <2>5
    <2>. QED
      BY <2>4, <2>6 DEF T
  <1>. QED
    BY <1>1, <1>2, <1>3, <1>4, <1>6 DEF QueueInv

\* It starts again, with the queue it found.
LEMMA QueueRestart ==
  ASSUME Typed, Typed', QueueInv, Restart
  PROVE  QueueInv'
  <1>. DEFINE q == LoadQueue(log)
  <1>1. /\ ~up /\ up' /\ queue' = q /\ inbox' = inbox
        /\ log' = log \/ log' = log \o <<StateEv("STUCK", "restarted")>>
    BY DEF Restart, Write, stored
  <1>2. /\ log \in Seq(Event) /\ q \in Seq(Entries) /\ Agree(log, q) /\ Waiting = q
    BY <1>1, LoadType DEF Typed, Data, QueueInv, Waiting
  <1>3. StateEv("STUCK", "restarted") \in Event /\ StateEv("STUCK", "restarted").kind = "state"
    BY StatesRecorded
  <1>4. /\ spent'.sent = spent.sent /\ Deaths' = Deaths /\ Deaths \in Nat
    <2>1. spent \in SpentRecord /\ spent.restarts \in Nat
      BY Counts
    <2>2. spent'.sent = spent.sent /\ spent'.restarts = spent.restarts + 1
      BY <2>1 DEF Restart, SpentRecord
    <2>. QED
      BY <1>1, <2>1, <2>2 DEF Deaths
  <1>. HIDE DEF q
  <1>5. /\ Keeps(log, q, log', q) /\ LoadQueue(log') = LoadQueue(log)
        /\ IdsIn(log', "queued") = IdsIn(log, "queued")
        /\ IdsIn(log', "user") = IdsIn(log, "user")
    <2>1. CASE log' = log
      BY <1>2, <2>1 DEF Keeps
    <2>2. CASE log' = log \o <<StateEv("STUCK", "restarted")>>
      BY <1>2, <1>3, <2>2, OtherKeeps
    <2>. QED
      BY <1>1, <2>1, <2>2
  <1>6. Owned'
    BY <1>1, <1>4, <1>5, OwnedStill DEF QueueInv
  <1>7. Waiting' = q /\ queue' = q /\ LoadQueue(log') = q
    BY <1>1, <1>5 DEF Waiting, q
  <1>8. IsFiniteSet(LostIn(log', q)) /\ Cardinality(LostIn(log', q)) <= Deaths
    <2>1. /\ IsFiniteSet(LostIn(log, q)) /\ Cardinality(LostIn(log, q)) <= Deaths
          /\ LostIn(log', q) \subseteq LostIn(log, q)
      BY <1>2, <1>5 DEF QueueInv, Keeps
    <2>2. /\ IsFiniteSet(LostIn(log', q))
          /\ Cardinality(LostIn(log', q)) <= Cardinality(LostIn(log, q))
      BY <2>1, FS_Subset
    <2>3. Cardinality(LostIn(log', q)) \in Nat /\ Cardinality(LostIn(log, q)) \in Nat
      BY <2>1, <2>2, FS_CardinalityType
    <2>. QED
      BY <1>4, <2>1, <2>2, <2>3
  <1>. QED
    BY <1>4, <1>5, <1>6, <1>7, <1>8 DEF QueueInv, Keeps

\* Close, a crash, a restart.
LEMMA QueueProcess ==
  ASSUME Typed, Typed', QueueInv, Process
  PROVE  QueueInv'
  <1>. USE DEF stored, memory
  <1>1. CASE CloseFlag \/ CloseInterrupts \/ CloseReturns
    <2>1. /\ up /\ up' /\ log' = log /\ queue' = queue /\ inbox' = inbox /\ spent' = spent
      BY <1>1 DEF CloseFlag, CloseInterrupts, CloseReturns
    <2>2. Quiet
      BY <2>1, SpentSends DEF Quiet
    <2>. QED
      BY <2>2, QuietMoves, MovesOn
  <1>2. CASE Exit
    <2>1. up /\ Lost /\ log' = log
      BY <1>2 DEF Exit
    <2>2. Passes(log, queue, log', queue, inbox)
      BY <2>1 DEF Passes, Keeps, Typed, Data, QueueInv, Waiting
    <2>. QED
      BY <2>1, <2>2, QueueLost
  <1>3. CASE Crash
    <2>1. PICK s \in InProgress : \E n \in 0 .. Len(s) :
            Write(SubSeq(s, 1, n), StateAfter(s, n))
      BY <1>3 DEF Crash
    <2>2. PICK n \in 0 .. Len(s) : Write(SubSeq(s, 1, n), StateAfter(s, n))
      BY <2>1
    <2>3. Len(s) \in Nat
      BY InProgressIs, LenProperties DEF IsScript, Typed
    <2>4. n \in Nat /\ n <= Len(s) /\ log' = log \o SubSeq(s, 1, n) /\ up /\ Lost
      <3>1. up /\ Lost
        BY <1>3 DEF Crash
      <3>2. n \in Nat /\ n <= Len(s)
        BY <2>2, <2>3
      <3>3. log' = log \o SubSeq(s, 1, n)
        BY <2>2 DEF Write
      <3>. QED
        BY <3>1, <3>2, <3>3
    <2>5. PICK c : Passes(log, queue, log \o SubSeq(s, 1, n), c, inbox)
      BY <2>4, InProgressPasses
    <2>. QED
      BY <2>4, <2>5, QueueLost
  <1>4. CASE Restart
    BY <1>4, QueueRestart
  <1>. QED
    BY <1>1, <1>2, <1>3, <1>4 DEF Process

\* The invariant holds of an empty log and queue.
LEMMA QueueInit == Init => QueueInv
  <1>. SUFFICES ASSUME Init PROVE QueueInv
    OBVIOUS
  <1>1. /\ log = <<>> /\ queue = <<>> /\ inbox = {} /\ up /\ spent.sent = {}
        /\ spent.restarts = 0
    BY DEF Init
  <1>2. \A kind : AtIn(<<>>, kind) = {} /\ IdsIn(<<>>, kind) = {}
    BY DEF AtIn, IdsIn
  <1>3. Waiting = <<>> /\ Deaths = 0
    BY <1>1 DEF Waiting, Deaths
  <1>4. Owned
    BY <1>1, <1>2 DEF Owned
  <1>5. Agree(<<>>, <<>>)
    <2>1. Distinct(<<>>) /\ InQueue(<<>>) = {}
      BY DEF Distinct, InQueue
    <2>2. Ordered(<<>>, <<>>)
      BY <1>2, <2>1 DEF Ordered
    <2>. QED
      BY <2>2, LoadEmpty DEF Agree, Reloads
  <1>6. LostIn(<<>>, <<>>) = {}
    BY <1>2 DEF LostIn
  <1>7. IsFiniteSet({}) /\ Cardinality({}) = 0
    BY FS_EmptySet
  <1>. QED
    BY <1>1, <1>3, <1>4, <1>5, <1>6, <1>7, LoadEmpty DEF QueueInv

\* Every step keeps the types.
LEMMA TypedNext ==
  ASSUME Typed, [Next]_vars
  PROVE  Typed'
  BY InvNext, DataNext, PromptedNext DEF Typed

\* Every step keeps the queue and its log in agreement.
LEMMA QueueNext ==
  ASSUME Typed, QueueInv, [Next]_vars
  PROVE  QueueInv'
  <1>1. Typed'
    BY TypedNext
  <1>2. CASE Client
    BY <1>1, <1>2, QueueClient
  <1>3. ASSUME NEW t \in Runs, Advance(t) \/ Trouble(t)
        PROVE  QueueInv'
    <2>1. \A n \in 0 .. 2 * Len(queue) + 1 : n \in Nat
      OBVIOUS
    <2>2. \A n \in 0 .. 2 * Len(queue) : n \in Nat
      OBVIOUS
    <2>3. TurnStepOf(t) \/ (\E u \in Runs : EndTurn(t, u)) \/ (\E n \in Nat : EndTurnFails(t, n))
      BY <1>3, <2>1, <2>2 DEF Advance, Trouble, TurnStepOf
    <2>4. Moves
      BY <2>3, TurnQuiet, QuietMoves, BoundaryMoves, EndMoves
    <2>. QED
      BY <1>1, <2>4, MovesOn
  <1>4. CASE Process
    BY <1>1, <1>4, QueueProcess
  <1>5. CASE UNCHANGED vars
    BY <1>5 DEF vars, QueueInv, Owned, Waiting, Deaths
  <1>. QED
    BY <1>2, <1>3, <1>4, <1>5 DEF Next

\* In every state the queue and its log agree.
LEMMA QueueAlways == Spec => [](Typed /\ QueueInv)
  <1>1. Init => QueueInv
    BY QueueInit
  <1>2. Typed /\ QueueInv /\ [Next]_vars => QueueInv'
    BY QueueNext
  <1>. QED
    BY <1>1, <1>2, TypedAlways, PTL DEF Spec

\* A restart rebuilds the queue there is, but for a message whose delivery a
\* failed append cut short: what loadQueue replays (queue.go:18) and what the
\* handlers keep in memory (queue.go:85) are the same queue.
THEOREM RestartRebuildsQueue == Spec => []QueueRebuilds
  <1>1. Typed /\ QueueInv => QueueRebuilds
    <2>. SUFFICES ASSUME Typed, QueueInv, up
                  PROVE  \/ LoadQueue(log) = queue
                         \/ spent.fails > 0 /\ queue # <<>> /\ LoadQueue(log) = Tail(queue)
      BY DEF QueueRebuilds
    <2>1. spent.fails \in Nat
      BY Counts
    <2>2. Reloads(log, queue)
      BY DEF QueueInv, Waiting, Agree
    <2>3. spent.fails = 0 => LoadQueue(log) = queue
      BY DEF QueueInv
    <2>. QED
      <3>1. spent.fails = 0 \/ spent.fails > 0
        BY <2>1
      <3>. QED
        BY <2>2, <2>3, <3>1 DEF Reloads
  <1>. QED
    BY <1>1, QueueAlways, PTL

\* A message is in the conversation once at most, and queued messages join it
\* in the order they were queued, across failed appends, crashes and restarts
\* (queue.go:71-100, session.go:230).
THEOREM MessagesJoinInOrder == Spec => []DeliveredInOrder
  <1>1. QueueInv => DeliveredInOrder
    <2>. SUFFICES ASSUME QueueInv PROVE DeliveredInOrder
      OBVIOUS
    <2>1. Ordered(log, Waiting)
      BY DEF QueueInv, Agree
    <2>2. /\ \A i, j \in AtIn(log, "user") : log[i].id = log[j].id => i = j
          /\ \A i, j \in AtIn(log, "queued") : \A k, n \in AtIn(log, "user") :
               i < j /\ log[k].id = log[i].id /\ log[n].id = log[j].id => k < n
      BY <2>1 DEF Ordered
    <2>. QED
      BY <2>2, IdsOfLog DEF DeliveredInOrder
  <1>. QED
    BY <1>1, QueueAlways, PTL

\* Each death of the process loses one queued message at most, the one whose
\* delivery it cut short; nothing else does (queue.go:85, queue.go:18-36).
THEOREM MessagesAreKept == Spec => []NothingLost
  <1>1. Typed /\ QueueInv => NothingLost
    <2>. SUFFICES ASSUME Typed, QueueInv, up PROVE Cardinality(LostMsgs) <= spent.restarts
      BY DEF NothingLost
    <2>1. LostMsgs = LostIn(log, queue)
      <3>1. DOMAIN queue = 1 .. Len(queue)
        BY LenProperties DEF Typed, Data
      <3>2. Queued = InQueue(queue)
        BY <3>1 DEF Queued, InQueue
      <3>. QED
        BY <3>2, IdsOfLog DEF LostMsgs, LostIn
    <2>2. Waiting = queue /\ Deaths = spent.restarts
      <3>1. spent.restarts \in Nat
        BY Counts
      <3>. QED
        BY <3>1 DEF Waiting, Deaths
    <2>. QED
      BY <2>1, <2>2 DEF QueueInv
  <1>. QED
    BY <1>1, QueueAlways, PTL

------------------------------------------------------------------------------
(* Messages that wait on an idle session *)

\* The last state that log l records was recorded for reason w.
LastIs(l, w) ==
  \E i \in AtIn(l, "state") : l[i].why = w /\ \A j \in AtIn(l, "state") : j <= i

\* Messages wait on an idle session that nothing but an interrupt made wait.
Stranded ==
  /\ up /\ LiveRuns = {} /\ queue # <<>> /\ ~Closing
  /\ spent.fails = 0 /\ spent.restarts = 0

StrandedInv == Stranded => LastIs(log, "interrupted")

\* An event of another kind leaves the last state as it is.
LEMMA LastKept ==
  ASSUME NEW l \in Seq(Event), NEW e \in Event, e.kind # "state", NEW w, LastIs(l, w)
  PROVE  LastIs(l \o <<e>>, w)
  <1>1. /\ AtIn(l \o <<e>>, "state") = AtIn(l, "state")
        /\ \A i \in AtIn(l, "state") : (l \o <<e>>)[i] = l[i]
    BY OtherKinds
  <1>2. PICK i \in AtIn(l, "state") : l[i].why = w /\ \A j \in AtIn(l, "state") : j <= i
    BY DEF LastIs
  <1>. QED
    BY <1>1, <1>2 DEF LastIs

\* A recorded state is the last.
LEMMA LastNew ==
  ASSUME NEW l \in Seq(Event), NEW e \in Event, e.kind = "state"
  PROVE  LastIs(l \o <<e>>, e.why)
  <1>1. /\ AtIn(l \o <<e>>, e.kind) = AtIn(l, e.kind) \cup {Len(l) + 1}
        /\ (l \o <<e>>)[Len(l) + 1] = e
        /\ \A i \in AtIn(l, e.kind) : i \in 1 .. Len(l)
    BY OneOfKind
  <1>2. Len(l) \in Nat
    BY LenProperties
  <1>3. AtIn(l \o <<e>>, "state") = AtIn(l, "state") \cup {Len(l) + 1}
    BY <1>1
  <1>4. \A j \in AtIn(l \o <<e>>, "state") : j <= Len(l) + 1
    <2>1. \A j \in AtIn(l, "state") : j \in 1 .. Len(l)
      BY <1>1
    <2>2. \A j \in 1 .. Len(l) : j <= Len(l) + 1
      BY <1>2
    <2>3. Len(l) + 1 <= Len(l) + 1
      BY <1>2
    <2>. QED
      BY <1>3, <2>1, <2>2, <2>3
  <1>. QED
    BY <1>1, <1>3, <1>4 DEF LastIs

\* A session whose cancelTurn is set has a live run.
LEMMA TurnLives ==
  ASSUME Typed', cancelTurn' # None
  PROVE  LiveRuns' # {}
  BY DEF Typed, Inv, TypeInv, OneTurn

\* Nothing but a request that withdraws or edits a message happens to the
\* queue and the log of an idle session.
LEMMA Rests ==
  ASSUME Typed, StrandedInv, up' = up, run' = run, closer' = closer, queue' # <<>> => queue # <<>>,
         \/ log' = log
         \/ \E e \in Event : e.kind # "state" /\ log' = log \o <<e>>,
         spent'.fails >= spent.fails, spent'.restarts = spent.restarts
  PROVE  StrandedInv'
  <1>. SUFFICES ASSUME Stranded' PROVE LastIs(log', "interrupted")
    BY DEF StrandedInv
  <1>1. LiveRuns' = LiveRuns
    BY DEF LiveRuns, Live
  <1>2. spent.fails = 0
    <2>1. spent.fails \in Nat /\ spent'.fails = 0 /\ spent'.fails >= spent.fails
      BY Counts DEF Stranded
    <2>. QED
      BY <2>1
  <1>3. Stranded
    BY <1>1, <1>2 DEF Stranded, Closing
  <1>4. LastIs(log, "interrupted") /\ log \in Seq(Event)
    BY <1>3 DEF StrandedInv, Typed, Data
  <1>. QED
    BY <1>4, LastKept

\* What clients do.
LEMMA StrandedClient ==
  ASSUME Typed, Typed', StrandedInv, Client
  PROVE  StrandedInv'
  <1>. USE DEF stored, memory
  <1>1. CASE cancelTurn' # None
    BY <1>1, TurnLives DEF StrandedInv, Stranded
  <1>2. CASE queue' = <<>>
    BY <1>2 DEF StrandedInv, Stranded
  <1>3. CASE Fail
    BY <1>3, FailCounts DEF StrandedInv, Stranded
  <1>4. ASSUME up' = up, run' = run, closer' = closer, log' = log, queue' = queue,
               spent' = spent \/ \E n : spent' = [spent EXCEPT !.compacts = n]
        PROVE  StrandedInv'
    BY <1>4, SpentSends, Rests
  <1>5. ASSUME NEW m \in Msgs, SendMessage(m)
        PROVE  StrandedInv'
    <2>1. spent \in SpentRecord /\ spent.fails \in Nat
      BY Counts
    <2>2. /\ up' = up /\ run' = run /\ closer' = closer /\ log' = log /\ queue' = queue
          /\ spent'.fails = spent.fails /\ spent'.restarts = spent.restarts
      BY <1>5, <2>1 DEF SendMessage, SpentRecord
    <2>3. spent'.fails >= spent.fails
      BY <2>1, <2>2
    <2>. QED
      BY <2>2, <2>3, Rests
  <1>6. ASSUME NEW m \in Msgs, Enqueue(m)
        PROVE  StrandedInv'
    BY <1>1, <1>6 DEF Enqueue
  <1>7. ASSUME NEW m \in Msgs, EnqueueFails(m)
        PROVE  StrandedInv'
    BY <1>3, <1>7 DEF EnqueueFails
  <1>8. ASSUME NEW m \in Msgs, EditQueued(m)
        PROVE  StrandedInv'
    <2>1. /\ up' = up /\ run' = run /\ closer' = closer /\ log' = log \o <<EditedEv(m)>>
          /\ queue' = Edited(queue, m)
          /\ \E n : spent' = [spent EXCEPT !.edits = n]
      BY <1>8 DEF EditQueued, Write
    <2>2. EditedEv(m) \in Event /\ EditedEv(m).kind # "state"
      BY EventKinds
    <2>3. queue = <<>> => queue' = <<>>
      <3>1. queue \in Seq(Entries)
        BY DEF Typed, Data
      <3>2. Edited(queue, m) \in Seq(Entries) /\ Len(Edited(queue, m)) = Len(queue)
        BY <3>1, EditedIs
      <3>. QED
        BY <2>1, <3>1, <3>2, NoEntries
    <2>4. spent'.fails >= spent.fails /\ spent'.restarts = spent.restarts
      BY <2>1, SpentSends
    <2>. QED
      BY <2>1, <2>2, <2>3, <2>4, Rests
  <1>9. ASSUME NEW m \in Msgs, CancelQueued(m)
        PROVE  StrandedInv'
    <2>1. /\ up' = up /\ run' = run /\ closer' = closer /\ log' = log \o <<CancelledEv(m)>>
          /\ queue' = Without(queue, m) /\ spent' = spent
      BY <1>9 DEF CancelQueued, Write
    <2>2. CancelledEv(m) \in Event /\ CancelledEv(m).kind # "state"
      BY EventKinds
    <2>3. queue = <<>> => queue' = <<>>
      BY <2>1, WithoutNone
    <2>4. spent'.fails >= spent.fails /\ spent'.restarts = spent.restarts
      BY <2>1, SpentSends
    <2>. QED
      BY <2>1, <2>2, <2>3, <2>4, Rests
  <1>10. CASE SendEmpty \/ Compact \/ Refuse \/ CompactLater
    BY <1>4, <1>10 DEF SendEmpty, Compact, Refuse, CompactLater
  <1>11. CASE Interrupt
    BY <1>1, <1>11 DEF Interrupt
  <1>12. ASSUME NEW r \in Msgs \cup {"nudge"}, NEW t \in Runs, SendStarts(r, t)
         PROVE  StrandedInv'
    BY <1>2, <1>12 DEF SendStarts
  <1>13. ASSUME NEW r, NEW n, SendFails(r, n)
         PROVE  StrandedInv'
    BY <1>3, <1>13 DEF SendFails
  <1>14. ASSUME NEW t \in Runs, CompactNow(t)
         PROVE  StrandedInv'
    <2>1. CASE UNCHANGED <<stored, cancelTurn, run>>
      BY <1>4, <1>14, <2>1 DEF CompactNow
    <2>2. CASE Start(t, "compaction")
      <3>1. cancelTurn' # None
        BY <2>2, SessionAssumption DEF Start
      <3>. QED
        BY <1>1, <3>1
    <2>. QED
      BY <1>14, <2>1, <2>2 DEF CompactNow
  <1>15. ASSUME NEW p \in Prompts, NEW d \in {"allow", "deny", "session"}, AnswerPrompt(p, d)
         PROVE  StrandedInv'
    BY <1>4, <1>15 DEF AnswerPrompt
  <1>. QED
    BY <1>5, <1>6, <1>7, <1>8, <1>9, <1>10, <1>11, <1>12, <1>13, <1>14, <1>15 DEF Client

\* A turn ends.
LEMMA StrandedEnd ==
  ASSUME Typed, Typed', NEW t \in Runs, NEW u \in Runs, EndTurn(t, u)
  PROVE  StrandedInv'
  <1>. SUFFICES ASSUME Stranded' PROVE LastIs(log', "interrupted")
    BY DEF StrandedInv
  <1>1. queue' # <<>> /\ ~Closing' /\ LiveRuns' = {} /\ closer' = closer
    BY DEF Stranded, EndTurn
  <1>2. cancelTurn' = None
    BY <1>1, TurnLives
  <1>3. After(t) = "nothing"
    BY <1>2, SessionAssumption DEF EndTurn
  <1>4. queue' = queue /\ ~Closing
    BY <1>1, <1>3 DEF EndTurn, Closing
  <1>5. run[t].end = "interrupted"
    BY <1>1, <1>3, <1>4 DEF After
  <1>. DEFINE e == EndEv("interrupted")
  <1>6. e \in Event /\ e.kind = "state" /\ e.why = "interrupted"
    BY StatesRecorded DEF Ends, EndEv, StateEv
  <1>7. log' = log \o <<e>>
    <2>1. log' = log \o (<<e>> \o AfterScript(t))
      BY <1>5 DEF EndTurn, Write
    <2>2. AfterScript(t) = <<>>
      BY <1>3 DEF AfterScript
    <2>3. <<e>> \o <<>> = <<e>>
      <3>1. <<e>> \in Seq(Event)
        BY <1>6
      <3>. QED
        BY <3>1, ConcatEmptySeq
    <2>. QED
      BY <2>1, <2>2, <2>3
  <1>8. log \in Seq(Event)
    BY DEF Typed, Data
  <1>. HIDE DEF e
  <1>. QED
    BY <1>6, <1>7, <1>8, LastNew

\* Every step.
LEMMA StrandedNext ==
  ASSUME Typed, StrandedInv, [Next]_vars
  PROVE  StrandedInv'
  <1>. USE DEF stored, memory
  <1>1. Typed'
    BY TypedNext
  <1>2. CASE Client
    BY <1>1, <1>2, StrandedClient
  <1>3. ASSUME NEW t \in Runs, Advance(t) \/ Trouble(t)
        PROVE  StrandedInv'
    <2>1. \A n \in 0 .. 2 * Len(queue) : n \in Nat
      OBVIOUS
    <2>2. CASE TurnStepOf(t)
      <3>1. Live(t) /\ cancelTurn' = cancelTurn
        BY <2>2, TurnBeginsNothing
        DEF Typed, Live, TurnStepOf, StepLimit, Boundary, Compacted, CallCancelled, NextTool,
            ToolsDone, ToolDone, Stuck, Replied, BoundaryFails, Ask, Wait, TakeAnswer, GiveUp,
            Resolve, Resume
      <3>2. cancelTurn' # None
        BY <3>1, LiveIsCurrent, SessionAssumption DEF Typed
      <3>. QED
        BY <1>1, <3>2, TurnLives DEF StrandedInv, Stranded
    <2>3. ASSUME NEW u \in Runs, EndTurn(t, u)
          PROVE  StrandedInv'
      BY <1>1, <2>3, StrandedEnd
    <2>4. ASSUME NEW n, EndTurnFails(t, n)
          PROVE  StrandedInv'
      BY <2>4, FailCounts DEF EndTurnFails, StrandedInv, Stranded
    <2>. QED
      BY <1>3, <2>1, <2>2, <2>3, <2>4 DEF Advance, Trouble, TurnStepOf
  <1>4. CASE Process
    <2>1. CASE CloseFlag \/ CloseInterrupts \/ CloseReturns
      <3>1. closer' # "open"
        BY <2>1 DEF CloseFlag, CloseInterrupts, CloseReturns
      <3>. QED
        BY <3>1 DEF StrandedInv, Stranded, Closing
    <2>2. CASE Exit \/ Crash
      <3>1. ~up'
        BY <2>2 DEF Exit, Crash, Lost
      <3>. QED
        BY <3>1 DEF StrandedInv, Stranded
    <2>3. CASE Restart
      <3>1. spent \in SpentRecord /\ spent.restarts \in Nat
        BY Counts
      <3>2. spent'.restarts = spent.restarts + 1
        BY <2>3, <3>1 DEF Restart, SpentRecord
      <3>3. spent.restarts + 1 # 0
        BY <3>1
      <3>. QED
        BY <3>2, <3>3 DEF StrandedInv, Stranded
    <2>. QED
      BY <1>4, <2>1, <2>2, <2>3 DEF Process
  <1>5. CASE UNCHANGED vars
    BY <1>5 DEF vars, StrandedInv, Stranded, LiveRuns, Live, Closing
  <1>. QED
    BY <1>2, <1>3, <1>4, <1>5 DEF Next

\* Messages wait on an idle session only after an interrupted turn, a restart,
\* Close or a failed append: any other end of a turn starts the next with them
\* (session.go:323-380).
THEOREM NoMessageStranded == Spec => []NoStrandedQueue
  <1>1. Init => StrandedInv
    BY DEF Init, StrandedInv, Stranded
  <1>2. Typed /\ StrandedInv /\ [Next]_vars => StrandedInv'
    BY StrandedNext
  <1>3. Typed /\ StrandedInv => NoStrandedQueue
    <2>. SUFFICES ASSUME Typed, StrandedInv, up, LiveRuns = {}, queue # <<>>,
                         ~(Closing \/ spent.fails > 0 \/ spent.restarts > 0)
                  PROVE  LastWhy = "interrupted"
      BY DEF NoStrandedQueue
    <2>1. spent.fails = 0 /\ spent.restarts = 0
      <3>1. spent.fails \in Nat /\ spent.restarts \in Nat
        BY Counts
      <3>. QED
        BY <3>1
    <2>2. LastIs(log, "interrupted")
      BY <2>1 DEF StrandedInv, Stranded
    <2>3. PICK i \in AtIn(log, "state") : /\ log[i].why = "interrupted"
                                          /\ \A j \in AtIn(log, "state") : j <= i
      BY <2>2 DEF LastIs
    <2>4. At("state") = AtIn(log, "state") /\ AtIn(log, "state") # {}
      BY <2>3, IdsOfLog
    <2>. DEFINE k == CHOOSE x \in At("state") : \A j \in At("state") : j <= x
    <2>5. k \in At("state") /\ \A j \in At("state") : j <= k
      BY <2>3, <2>4
    <2>6. k = i
      <3>1. At("state") \subseteq Nat
        BY LenProperties DEF At, Typed, Data
      <3>2. k <= i /\ i <= k /\ k \in Nat /\ i \in Nat
        BY <2>3, <2>4, <2>5, <3>1
      <3>. HIDE DEF k
      <3>. QED
        BY <3>2
    <2>. QED
      BY <2>3, <2>4, <2>6 DEF LastWhy
  <1>. QED
    BY <1>1, <1>2, <1>3, TypedAlways, PTL DEF Spec
==============================================================================
