---------------------------- MODULE AttachProofs ----------------------------
(***************************************************************************)
(* What Attach keeps for any number of streams and any sizes of buffer and *)
(* page: the client is shown the log without a gap, and every step of the  *)
(* server, the app and the network is a step of EventLog or none.          *)
(*                                                                         *)
(* NoGap is not inductive: what the app folds next is in the wire of its   *)
(* stream, and what comes into the wire is in the page or in the channel   *)
(* of the handler.  The invariant says where each of them goes on.         *)
(***************************************************************************)
EXTENDS Attach, SequenceTheorems, TLAPS

\* Where the channel of stream s goes on.
Onward(s) == IF pc[s] = "replay" THEN snap[s] + 1 ELSE next[s]

\* The numbers q goes through from n.
From(q, n) == \A i \in DOMAIN q : q[i] = n + i - 1

\* A stream that does not serve yet has nothing under way.
Fresh(s) == pc[s] \in {"idle", "open"} =>
              page[s] = <<>> /\ chan[s] = <<>> /\ wire[s] = <<>>

\* The page goes on with what is to be sent next, and stays in the replay.
Paging(s) == pc[s] = "replay" =>
               /\ snap[s] <= last
               /\ next[s] + Len(page[s]) <= snap[s] + 1
               /\ From(page[s], next[s])

\* The channel goes on where the replay ends.
Following(s) == pc[s] \in {"replay", "live"} =>
                  /\ From(chan[s], Onward(s))
                  /\ Onward(s) + Len(chan[s]) <= last + 1
                  /\ s \in subs => Onward(s) + Len(chan[s]) = last + 1

\* Only a stream that is served subscribes, within its buffer.
Subscribed(s) == s \in subs => pc[s] \in {"replay", "live"} /\ Len(chan[s]) <= Buffer

\* What is on its way to the app goes on with what it has folded.
Showing(s) == cur = s =>
                /\ pc[s] # "idle"
                /\ s \in cut => wire[s] = <<>>
                /\ s \notin cut => /\ next[s] = Len(view) + Len(wire[s]) + 1
                                   /\ From(wire[s], Len(view) + 1)

StreamOK(s) == /\ next[s] <= last + 1
               /\ Fresh(s) /\ Paging(s) /\ Following(s) /\ Subscribed(s) /\ Showing(s)

Inv == AttachTypeOK /\ NoGap /\ \A s \in Streams : StreamOK(s)

------------------------------------------------------------------------------
(* Sequences of consecutive numbers *)

\* Without its head, such a sequence starts one later.
LEMMA TailFrom ==
  ASSUME NEW q \in Seq(Nat), q # <<>>, NEW n \in Nat, From(q, n)
  PROVE  /\ Head(q) = n
         /\ Tail(q) \in Seq(Nat) /\ Len(Tail(q)) = Len(q) - 1
         /\ From(Tail(q), n + 1)
  <1>1. Len(q) \in Nat \ {0} /\ DOMAIN q = 1 .. Len(q)
    BY EmptySeq
  <1>2. /\ Tail(q) \in Seq(Nat) /\ Len(Tail(q)) = Len(q) - 1
        /\ \A i \in 1 .. Len(Tail(q)) : Tail(q)[i] = q[i + 1]
    BY HeadTailProperties
  <1>3. Head(q) = q[1] /\ q[1] = n
    BY <1>1 DEF From
  <1>4. ASSUME NEW i \in DOMAIN Tail(q)
        PROVE  Tail(q)[i] = n + 1 + i - 1
    <2>1. i \in 1 .. Len(q) - 1 /\ i + 1 \in DOMAIN q
      BY <1>1, <1>2
    <2>2. Tail(q)[i] = q[i + 1]
      BY <2>1, <1>2
    <2>. QED
      BY <2>1, <2>2 DEF From
  <1>. QED
    BY <1>2, <1>3, <1>4 DEF From

\* Such a sequence goes on with the number that follows its last.
LEMMA AppendFrom ==
  ASSUME NEW q \in Seq(Nat), NEW n \in Nat, From(q, n), NEW e \in Nat, e = n + Len(q)
  PROVE  /\ Append(q, e) \in Seq(Nat) /\ Len(Append(q, e)) = Len(q) + 1
         /\ From(Append(q, e), n)
  <1>1. /\ Append(q, e) \in Seq(Nat) /\ Len(Append(q, e)) = Len(q) + 1
        /\ \A i \in 1 .. Len(q) : Append(q, e)[i] = q[i]
        /\ Append(q, e)[Len(q) + 1] = e
    BY AppendProperties
  <1>2. Len(q) \in Nat /\ DOMAIN q = 1 .. Len(q) /\ DOMAIN Append(q, e) = 1 .. Len(q) + 1
    BY <1>1
  <1>3. ASSUME NEW i \in 1 .. Len(q) + 1
        PROVE  Append(q, e)[i] = n + i - 1
    BY <1>1, <1>2 DEF From
  <1>. QED
    BY <1>1, <1>2, <1>3 DEF From

\* The n numbers from m on are such a sequence.
LEMMA CountFrom ==
  ASSUME NEW n \in Nat, NEW m \in Nat \ {0}
  PROVE  LET q == [i \in 1 .. n |-> m + i - 1] IN
         q \in Seq(Nat) /\ Len(q) = n /\ From(q, m)
  <1>. DEFINE q == [i \in 1 .. n |-> m + i - 1]
  <1>1. \A i \in 1 .. n : m + i - 1 \in Nat
    OBVIOUS
  <1>2. q \in [1 .. n -> Nat] /\ DOMAIN q = 1 .. n
    BY <1>1
  <1>3. From(q, m)
    BY DEF From
  <1>. HIDE DEF q
  <1>4. q \in Seq(Nat)
    <2>1. q \in UNION {[1 .. k -> Nat] : k \in Nat}
      BY <1>2
    <2>. QED
      BY <2>1, SeqDef, Zenon
  <1>5. Len(q) = n
    <2>1. DOMAIN q = 1 .. Len(q) /\ Len(q) \in Nat
      BY <1>4, LenProperties
    <2>2. 1 .. Len(q) = 1 .. n
      BY <2>1, <1>2
    <2>3. ~(n < Len(q))
      <3>1. n < Len(q) => Len(q) \in 1 .. Len(q) /\ Len(q) \notin 1 .. n
        BY <2>1
      <3>. QED
        BY <2>2, <3>1
    <2>4. ~(Len(q) < n)
      <3>1. Len(q) < n => n \in 1 .. n /\ n \notin 1 .. Len(q)
        BY <2>1
      <3>. QED
        BY <2>2, <3>1
    <2>5. \A x \in Nat : ~(n < x) /\ ~(x < n) => x = n
      OBVIOUS
    <2>6. Len(q) \in Nat
      BY <2>1
    <2>. HIDE DEF q
    <2>. QED
      BY <2>3, <2>4, <2>5, <2>6
  <1>. QED
    BY <1>3, <1>4, <1>5 DEF q

\* Events are folded up to the last one: the fold of what follows shows it.
LEMMA LastSeqIs == AttachTypeOK /\ NoGap => LastSeq = Len(view) /\ Len(view) \in Nat
  BY EmptySeq DEF AttachTypeOK, NoGap, LastSeq

------------------------------------------------------------------------------
(* Steps *)

\* The invariant holds at first, and every step keeps it.
LEMMA InvInit == AttachInit => Inv
  <1>. SUFFICES ASSUME AttachInit PROVE Inv
    OBVIOUS
  <1>1. AttachTypeOK
    BY DEF AttachInit, AttachTypeOK, StreamPcs
  <1>2. NoGap
    BY DEF AttachInit, NoGap
  <1>3. ASSUME NEW s \in Streams
        PROVE  StreamOK(s)
    BY AttachAssumption
    DEF AttachInit, StreamOK, Fresh, Paging, Following, Subscribed, Showing, From
  <1>. QED
    BY <1>1, <1>2, <1>3 DEF Inv

\* A stream that a step leaves alone, in a log that has not grown.
LEMMA Untouched ==
  ASSUME NEW s \in Streams, StreamOK(s), last' = last,
         /\ pc'[s] = pc[s] /\ next'[s] = next[s] /\ snap'[s] = snap[s]
         /\ page'[s] = page[s] /\ chan'[s] = chan[s],
         s \in subs' <=> s \in subs,
         wire'[s] = wire[s] \/ wire'[s] = <<>>,
         cur' = s => /\ cur = s /\ wire'[s] = wire[s] /\ view' = view
                     /\ s \in cut' <=> s \in cut
  PROVE  StreamOK(s)'
  BY DEF StreamOK, Fresh, Paging, Following, Subscribed, Showing, From, Onward

\* An append: what fits goes on where the channel ends.
LEMMA AppendStep ==
  ASSUME Inv, AppendLocked
  PROVE  Inv'
  <1>. USE DEF AppendLocked, Publish
  <1>1. /\ last \in Nat /\ subs \subseteq Streams /\ last' = last + 1
        /\ chan \in [Streams -> Seq(Nat)] /\ snap \in [Streams -> Nat]
        /\ next \in [Streams -> Nat \ {0}]
    BY DEF Inv, AttachTypeOK
  <1>2. ASSUME NEW s \in Streams, s \in subs, Len(chan[s]) < Buffer
        PROVE  /\ chan'[s] = Append(chan[s], last + 1)
               /\ chan'[s] \in Seq(Nat) /\ Len(chan'[s]) = Len(chan[s]) + 1
               /\ From(chan'[s], Onward(s))
               /\ Onward(s) + Len(chan[s]) = last + 1
    <2>1. chan'[s] = Append(chan[s], last + 1)
      BY <1>1, <1>2
    <2>2. From(chan[s], Onward(s)) /\ Onward(s) + Len(chan[s]) = last + 1
      BY <1>2 DEF Inv, StreamOK, Following, Subscribed
    <2>3. Onward(s) \in Nat
      BY <1>1 DEF Onward
    <2>. QED
      BY <2>1, <2>2, <2>3, <1>1, AppendFrom
  <1>3. ASSUME NEW s \in Streams, ~(s \in subs /\ Len(chan[s]) < Buffer)
        PROVE  chan'[s] = chan[s] /\ s \notin subs'
    BY <1>1, <1>3
  <1>4. chan' \in [Streams -> Seq(Nat)]
    <2>1. DOMAIN chan' = Streams /\ \A s \in Streams : chan'[s] \in Seq(Nat)
      BY <1>1, <1>2, <1>3
    <2>. QED
      BY <2>1
  <1>5. AttachTypeOK'
    BY <1>1, <1>4 DEF Inv, AttachTypeOK
  <1>6. NoGap'
    BY <1>1 DEF Inv, NoGap, AttachTypeOK
  <1>7. ASSUME NEW s \in Streams
        PROVE  StreamOK(s)'
    <2>1. /\ next'[s] = next[s] /\ pc'[s] = pc[s] /\ snap'[s] = snap[s]
          /\ page'[s] = page[s] /\ wire'[s] = wire[s]
          /\ Onward(s)' = Onward(s) /\ Onward(s) \in Nat
      BY <1>1 DEF Onward
    <2>2. StreamOK(s) /\ Len(chan[s]) \in Nat
      BY <1>1 DEF Inv
    <2>3. next[s] <= last' + 1 /\ Paging(s)' /\ Showing(s)'
      BY <1>1, <2>1, <2>2 DEF StreamOK, Paging, Showing, From
    <2>4. CASE s \in subs /\ Len(chan[s]) < Buffer
      <3>1. pc[s] \in {"replay", "live"}
        BY <2>2, <2>4 DEF StreamOK, Subscribed
      <3>2. Following(s)'
        BY <1>1, <1>2, <2>1, <2>2, <2>4 DEF Following, From
      <3>3. Subscribed(s)' /\ Fresh(s)'
        BY <1>2, <2>1, <2>2, <2>4, <3>1, AttachAssumption DEF Subscribed, Fresh
      <3>. QED
        BY <2>1, <2>3, <3>2, <3>3 DEF StreamOK
    <2>5. CASE ~(s \in subs /\ Len(chan[s]) < Buffer)
      <3>1. Following(s)' /\ Subscribed(s)' /\ Fresh(s)'
        BY <1>1, <1>3, <2>1, <2>2, <2>5
        DEF StreamOK, Following, Subscribed, Fresh, From
      <3>. QED
        BY <2>1, <2>3, <3>1 DEF StreamOK
    <2>. QED
      BY <2>4, <2>5
  <1>. QED
    BY <1>5, <1>6, <1>7 DEF Inv

\* The steps of a handler.
LEMMA HandleStep ==
  ASSUME Inv, NEW s \in Streams, Handle(s)
  PROVE  Inv'
  <1>1. /\ last \in Nat /\ pc \in [Streams -> StreamPcs] /\ next \in [Streams -> Nat \ {0}]
        /\ snap \in [Streams -> Nat] /\ page \in [Streams -> Seq(Nat)]
        /\ chan \in [Streams -> Seq(Nat)] /\ wire \in [Streams -> Seq(Nat)]
        /\ subs \subseteq Streams /\ view \in Seq(Nat) /\ Len(view) \in Nat
        /\ Len(page[s]) \in Nat /\ Len(chan[s]) \in Nat /\ Len(wire[s]) \in Nat
    BY DEF Inv, AttachTypeOK
  <1>2. StreamOK(s)
    BY DEF Inv
  \* What all of them leave alone.
  <1>3. last' = last /\ view' = view /\ cur' = cur /\ cut' = cut
    BY DEF Handle, Subscribe, Fetch, SendReplayed, GoLive, Relay, SlowClient, Gone, Return
  <1>4. NoGap'
    BY <1>3 DEF Inv, NoGap
  <1>5. ASSUME NEW r \in Streams \ {s}
        PROVE  StreamOK(r)'
    <2>1. /\ pc'[r] = pc[r] /\ next'[r] = next[r] /\ snap'[r] = snap[r]
          /\ page'[r] = page[r] /\ chan'[r] = chan[r] /\ wire'[r] = wire[r]
          /\ r \in subs' <=> r \in subs
      BY <1>1 DEF Handle, Subscribe, Fetch, SendReplayed, SendEvent, GoLive, Relay,
                 SlowClient, Gone, Return
    <2>. QED
      BY <1>3, <2>1, Untouched DEF Inv
  <1>6. ASSUME AttachTypeOK', StreamOK(s)'
        PROVE  Inv'
    BY <1>4, <1>5, <1>6 DEF Inv
  <1>7. ASSUME Subscribe(s)
        PROVE  Inv'
    <2>. USE DEF Subscribe
    <2>1. AttachTypeOK'
      BY <1>1, <1>7 DEF Inv, AttachTypeOK, StreamPcs
    <2>2. /\ pc'[s] = "replay" /\ snap'[s] = last /\ next'[s] = next[s]
          /\ chan'[s] = <<>> /\ page'[s] = <<>> /\ wire'[s] = wire[s] /\ s \in subs'
      BY <1>1, <1>2, <1>7 DEF StreamOK, Fresh
    <2>3. next[s] <= last + 1 /\ pc[s] = "open" /\ wire[s] = <<>>
      BY <1>2, <1>7 DEF StreamOK, Fresh
    <2>4. Onward(s)' = last + 1 /\ Len(chan'[s]) = 0 /\ Len(page'[s]) = 0
      BY <1>1, <2>2, EmptySeq DEF Onward
    <2>5. From(page'[s], next'[s]) /\ From(chan'[s], Onward(s)')
      BY <2>2 DEF From
    <2>6. Paging(s)'
      BY <1>1, <1>3, <2>2, <2>3, <2>4, <2>5 DEF Paging, From
    <2>7. Following(s)'
      BY <1>1, <1>3, <2>2, <2>4, <2>5 DEF Following, From
    <2>8. Fresh(s)' /\ Subscribed(s)' /\ Showing(s)'
      BY <1>1, <1>2, <1>3, <2>2, <2>3, <2>4, AttachAssumption
      DEF StreamOK, Fresh, Subscribed, Showing, From
    <2>9. StreamOK(s)'
      BY <1>3, <2>2, <2>3, <2>6, <2>7, <2>8 DEF StreamOK
    <2>. QED
      BY <1>6, <2>1, <2>9
  <1>8. ASSUME Fetch(s)
        PROVE  Inv'
    <2>. DEFINE rest == snap[s] - next[s] + 1
                n == IF rest < Page THEN rest ELSE Page
                q == [i \in 1 .. n |-> next[s] + i - 1]
    <2>. USE DEF Fetch
    <2>1. n \in Nat /\ n <= rest /\ rest \in Nat
      BY <1>1, <1>8, AttachAssumption
    <2>2. q \in Seq(Nat) /\ Len(q) = n /\ From(q, next[s])
      BY <1>1, <2>1, CountFrom
    <2>3. page' = [page EXCEPT ![s] = q]
      BY <1>8
    <2>. HIDE DEF q, n
    <2>4. AttachTypeOK'
      <3>1. page' \in [Streams -> Seq(Nat)]
        BY <1>1, <2>2, <2>3
      <3>2. UNCHANGED <<last, pc, next, snap, chan, subs, wire, cut, cur, view, used>>
        BY <1>8
      <3>. QED
        BY <3>1, <3>2 DEF Inv, AttachTypeOK
    <2>6. /\ page'[s] = q /\ pc'[s] = "replay" /\ next'[s] = next[s] /\ snap'[s] = snap[s]
          /\ chan'[s] = chan[s] /\ wire'[s] = wire[s] /\ subs' = subs /\ pc[s] = "replay"
      BY <1>1, <1>8, <2>3
    <2>7. next[s] + Len(q) <= snap[s] + 1
      BY <1>1, <2>1, <2>2
    <2>8. StreamOK(s)'
      BY <1>1, <1>2, <1>3, <2>2, <2>6, <2>7
      DEF StreamOK, Fresh, Paging, Following, Subscribed, Showing, From, Onward
    <2>. QED
      BY <1>6, <2>4, <2>8
  \* An event sent is the next of what is on its way.
  <1>9. ASSUME SendEvent(s, next[s]), s \notin cut
        PROVE  /\ wire' \in [Streams -> Seq(Nat)] /\ next' \in [Streams -> Nat \ {0}]
               /\ next'[s] = next[s] + 1
               /\ pc'[s] # "idle" => Showing(s)'
    <2>. USE DEF SendEvent
    <2>1. /\ wire'[s] = Append(wire[s], next[s]) /\ next'[s] = next[s] + 1
          /\ Append(wire[s], next[s]) \in Seq(Nat)
          /\ Len(Append(wire[s], next[s])) = Len(wire[s]) + 1
      BY <1>1, <1>9, AppendProperties
    <2>2. wire' \in [Streams -> Seq(Nat)] /\ next' \in [Streams -> Nat \ {0}]
      BY <1>1, <1>9, <2>1
    <2>3. ASSUME cur = s
          PROVE  From(wire'[s], Len(view) + 1)
      <3>1. next[s] = Len(view) + 1 + Len(wire[s]) /\ From(wire[s], Len(view) + 1)
        BY <1>1, <1>2, <1>9, <2>3 DEF StreamOK, Showing
      <3>. QED
        BY <1>1, <2>1, <3>1, AppendFrom
    <2>4. ASSUME pc'[s] # "idle"
          PROVE  Showing(s)'
      <3>1. cur = s => next'[s] = Len(view) + Len(wire'[s]) + 1
        BY <1>1, <1>2, <1>9, <2>1 DEF StreamOK, Showing
      <3>. QED
        BY <1>3, <1>9, <2>3, <2>4, <3>1 DEF Showing, From
    <2>. QED
      BY <2>1, <2>2, <2>4
  <1>10. ASSUME SendReplayed(s)
        PROVE  Inv'
    <2>. USE DEF SendReplayed
    <2>1. /\ Head(page[s]) = next[s]
          /\ Tail(page[s]) \in Seq(Nat) /\ Len(Tail(page[s])) = Len(page[s]) - 1
          /\ From(Tail(page[s]), next[s] + 1)
      BY <1>1, <1>2, <1>10, TailFrom DEF StreamOK, Paging
    <2>2. SendEvent(s, next[s]) /\ s \notin cut /\ pc'[s] = "replay" /\ pc[s] = "replay"
      BY <1>1, <1>10, <2>1
    <2>3. /\ wire' \in [Streams -> Seq(Nat)] /\ next' \in [Streams -> Nat \ {0}]
          /\ next'[s] = next[s] + 1 /\ Showing(s)'
      BY <1>9, <2>2
    <2>4. page'[s] = Tail(page[s]) /\ page' \in [Streams -> Seq(Nat)]
      BY <1>1, <1>10, <2>1
    <2>5. AttachTypeOK'
      BY <1>1, <1>10, <2>3, <2>4 DEF Inv, AttachTypeOK
    <2>6. /\ snap'[s] = snap[s] /\ chan'[s] = chan[s] /\ subs' = subs
          /\ Len(page[s]) >= 1
      BY <1>1, <1>10, EmptySeq
    <2>7. Paging(s)'
      BY <1>1, <1>2, <1>3, <2>1, <2>2, <2>3, <2>4, <2>6 DEF StreamOK, Paging, From
    <2>8. Following(s)'
      BY <1>1, <1>2, <1>3, <2>2, <2>6 DEF StreamOK, Following, From, Onward
    <2>9. next'[s] <= last' + 1
      BY <1>1, <1>2, <1>3, <2>2, <2>3, <2>6 DEF StreamOK, Paging
    <2>10. Fresh(s)' /\ Subscribed(s)'
      BY <1>2, <2>2, <2>6 DEF StreamOK, Fresh, Subscribed
    <2>. QED
      BY <1>6, <2>3, <2>5, <2>7, <2>8, <2>9, <2>10 DEF StreamOK
  <1>11. ASSUME GoLive(s)
        PROVE  Inv'
    <2>. USE DEF GoLive
    <2>1. AttachTypeOK'
      BY <1>1, <1>11 DEF Inv, AttachTypeOK, StreamPcs
    <2>2. /\ pc[s] = "replay" /\ pc'[s] = "live" /\ next'[s] = next[s] /\ snap'[s] = snap[s]
          /\ chan'[s] = chan[s] /\ page'[s] = <<>> /\ wire'[s] = wire[s] /\ subs' = subs
      BY <1>1, <1>11
    <2>3. next[s] = snap[s] + 1
      BY <1>1, <1>2, <1>11, EmptySeq DEF StreamOK, Paging
    <2>4. StreamOK(s)'
      BY <1>1, <1>2, <1>3, <2>2, <2>3
      DEF StreamOK, Fresh, Paging, Following, Subscribed, Showing, From, Onward
    <2>. QED
      BY <1>6, <2>1, <2>4
  <1>12. ASSUME Relay(s)
        PROVE  Inv'
    <2>. USE DEF Relay
    <2>1. pc[s] = "live" /\ pc'[s] = "live" /\ s \notin cut /\ chan[s] # <<>> /\ subs' = subs
      BY <1>1, <1>12
    <2>2. /\ Head(chan[s]) = next[s]
          /\ Tail(chan[s]) \in Seq(Nat) /\ Len(Tail(chan[s])) = Len(chan[s]) - 1
          /\ From(Tail(chan[s]), next[s] + 1)
      BY <1>1, <1>2, <2>1, TailFrom DEF StreamOK, Following, Onward
    <2>3. SendEvent(s, next[s])
      BY <1>1, <1>12, <2>2
    <2>4. /\ wire' \in [Streams -> Seq(Nat)] /\ next' \in [Streams -> Nat \ {0}]
          /\ next'[s] = next[s] + 1 /\ Showing(s)'
      BY <1>9, <2>1, <2>3
    <2>5. chan'[s] = Tail(chan[s]) /\ chan' \in [Streams -> Seq(Nat)]
      BY <1>1, <1>12, <2>2
    <2>6. AttachTypeOK'
      BY <1>1, <1>12, <2>4, <2>5 DEF Inv, AttachTypeOK
    <2>7. Following(s)'
      <3>1. Onward(s) = next[s] /\ Onward(s)' = next[s] + 1
        BY <2>1, <2>4 DEF Onward
      <3>2. From(chan'[s], Onward(s)')
        BY <2>2, <2>5, <3>1
      <3>3. /\ Onward(s) + Len(chan[s]) <= last + 1
            /\ s \in subs => Onward(s) + Len(chan[s]) = last + 1
        BY <1>2, <2>1 DEF StreamOK, Following
      <3>4. Onward(s)' + Len(chan'[s]) = Onward(s) + Len(chan[s])
        BY <1>1, <2>2, <2>5, <3>1
      <3>. QED
        BY <1>3, <2>1, <3>2, <3>3, <3>4 DEF Following, From
    <2>8. next'[s] <= last' + 1
      <3>1. Len(chan[s]) >= 1
        BY <1>1, <2>1, EmptySeq
      <3>. QED
        BY <1>1, <1>2, <1>3, <2>1, <2>4, <3>1 DEF StreamOK, Following, Onward
    <2>9. Fresh(s)' /\ Subscribed(s)' /\ Paging(s)'
      BY <1>1, <1>2, <2>1, <2>2, <2>5, AttachAssumption
      DEF StreamOK, Fresh, Subscribed, Paging
    <2>. QED
      BY <1>6, <2>4, <2>6, <2>7, <2>8, <2>9 DEF StreamOK
  <1>13. ASSUME SlowClient(s) \/ Gone(s)
        PROVE  Inv'
    <2>1. Return(s)
      BY <1>13 DEF SlowClient, Gone
    <2>2. AttachTypeOK'
      BY <1>1, <2>1 DEF Return, Inv, AttachTypeOK, StreamPcs
    <2>3. /\ pc'[s] = "done" /\ next'[s] = next[s] /\ wire'[s] = wire[s]
          /\ s \notin subs'
      BY <1>1, <2>1 DEF Return
    <2>4. StreamOK(s)'
      BY <1>2, <1>3, <2>3
      DEF StreamOK, Fresh, Paging, Following, Subscribed, Showing, From
    <2>. QED
      BY <1>6, <2>2, <2>4
  <1>. QED
    BY <1>7, <1>8, <1>10, <1>11, <1>12, <1>13 DEF Handle

\* The steps of the app and of the network.
LEMMA AppStep ==
  ASSUME Inv, NEW s \in Streams,
         Retry(s) \/ ReconnectNow(s) \/ OnEvent \/ Dropped \/ Break \/ Reuse(s)
  PROVE  Inv'
  <1>1. /\ last \in Nat /\ pc \in [Streams -> StreamPcs] /\ next \in [Streams -> Nat \ {0}]
        /\ snap \in [Streams -> Nat] /\ page \in [Streams -> Seq(Nat)]
        /\ chan \in [Streams -> Seq(Nat)] /\ wire \in [Streams -> Seq(Nat)]
        /\ subs \subseteq Streams /\ view \in Seq(Nat) /\ Len(view) \in Nat
        /\ cur \in Streams \cup {NoStream} /\ cut \subseteq Streams
        /\ used \in [breaks : Nat, reconnects : Nat]
    BY DEF Inv, AttachTypeOK
  <1>2. \A r \in Streams : StreamOK(r)
    BY DEF Inv
  <1>3. LastSeq = Len(view) /\ Len(view) <= last
    BY LastSeqIs DEF Inv, NoGap
  <1>4. ASSUME Retry(s) \/ ReconnectNow(s)
        PROVE  Inv'
    <2>1. /\ Open(s) /\ used' \in [breaks : Nat, reconnects : Nat]
          /\ cur \in {NoStream} \cup Streams
      BY <1>1, <1>4 DEF Retry, ReconnectNow
    <2>. USE DEF Open, AttachFrom
    <2>2. /\ pc[s] = "idle" /\ cur' = s /\ s # cur
          /\ last' = last /\ view' = view /\ snap' = snap /\ page' = page
          /\ chan' = chan /\ subs' = subs
          /\ pc' = [pc EXCEPT ![s] = "open"] /\ next' = [next EXCEPT ![s] = LastSeq + 1]
          /\ cut' = cut \cup ({cur} \ {NoStream})
          /\ wire' = IF cur = NoStream THEN wire ELSE [wire EXCEPT ![cur] = <<>>]
      BY <1>2, <2>1 DEF StreamOK, Showing
    <2>3. wire' \in [Streams -> Seq(Nat)] /\ next' \in [Streams -> Nat \ {0}]
          /\ pc' \in [Streams -> StreamPcs] /\ cut' \subseteq Streams
      BY <1>1, <1>3, <2>2, EmptySeq DEF StreamPcs
    <2>4. AttachTypeOK'
      BY <1>1, <2>1, <2>2, <2>3 DEF AttachTypeOK
    <2>5. NoGap'
      BY <2>2 DEF Inv, NoGap
    <2>6. ASSUME NEW r \in Streams \ {s}
          PROVE  StreamOK(r)'
      <3>1. wire'[r] = wire[r] \/ wire'[r] = <<>>
        BY <1>1, <2>2
      <3>2. /\ pc'[r] = pc[r] /\ next'[r] = next[r] /\ snap'[r] = snap[r]
            /\ page'[r] = page[r] /\ chan'[r] = chan[r] /\ cur' # r
        BY <1>1, <2>2
      <3>. QED
        BY <1>2, <2>2, <3>1, <3>2, Untouched
    <2>7. /\ page[s] = <<>> /\ chan[s] = <<>> /\ wire[s] = <<>> /\ s \notin subs
      BY <1>2, <2>2 DEF StreamOK, Fresh, Subscribed
    <2>8. /\ pc'[s] = "open" /\ next'[s] = Len(view) + 1 /\ page'[s] = <<>> /\ chan'[s] = <<>>
          /\ wire'[s] = <<>> /\ s \notin subs'
      BY <1>1, <1>3, <2>2, <2>7
    <2>9. StreamOK(s)'
      BY <1>1, <1>3, <2>2, <2>8, EmptySeq
      DEF StreamOK, Fresh, Paging, Following, Subscribed, Showing, From
    <2>. QED
      BY <2>4, <2>5, <2>6, <2>9 DEF Inv
  <1>5. ASSUME OnEvent
        PROVE  Inv'
    <2>. USE DEF OnEvent, Fold, server
    <2>1. cur \in Streams /\ wire[cur] # <<>> /\ cur \notin cut
      BY <1>1, <1>2, <1>5 DEF StreamOK, Showing
    <2>2. next[cur] = Len(view) + Len(wire[cur]) + 1 /\ From(wire[cur], Len(view) + 1)
      BY <1>2, <2>1 DEF StreamOK, Showing
    <2>. DEFINE q == wire[cur]
                first == Len(view) + 1
    <2>20. q \in Seq(Nat) /\ first \in Nat /\ q # <<>> /\ From(q, first)
      BY <1>1, <2>1, <2>2
    <2>. HIDE DEF q, first
    <2>21. /\ Head(q) = first /\ Tail(q) \in Seq(Nat) /\ Len(Tail(q)) = Len(q) - 1
           /\ From(Tail(q), first + 1)
      BY <2>20, TailFrom
    <2>. USE DEF q, first
    <2>3. /\ Head(wire[cur]) = Len(view) + 1
          /\ Tail(wire[cur]) \in Seq(Nat) /\ Len(Tail(wire[cur])) = Len(wire[cur]) - 1
          /\ From(Tail(wire[cur]), Len(view) + 1 + 1)
      BY <2>21
    <2>4. view' = Append(view, Len(view) + 1)
      <3>1. ~(Len(view) + 1 <= LastSeq)
        BY <1>1, <1>3
      <3>2. view' = IF Head(wire[cur]) <= LastSeq THEN view ELSE Append(view, Head(wire[cur]))
        BY <1>5
      <3>. QED
        BY <2>3, <3>1, <3>2
    <2>5. /\ view' \in Seq(Nat) /\ Len(view') = Len(view) + 1
          /\ \A i \in 1 .. Len(view) : view'[i] = view[i]
          /\ view'[Len(view) + 1] = Len(view) + 1
      BY <1>1, <2>4, AppendProperties
    <2>6. wire' = [wire EXCEPT ![cur] = Tail(wire[cur])] /\ wire' \in [Streams -> Seq(Nat)]
      BY <1>1, <1>5, <2>3
    <2>7. /\ last' = last /\ pc' = pc /\ next' = next /\ snap' = snap /\ page' = page
          /\ chan' = chan /\ subs' = subs /\ cut' = cut /\ cur' = cur /\ used' = used
      BY <1>5
    <2>8. AttachTypeOK'
      <3>1. AttachTypeOK
        BY <1>1 DEF Inv
      <3>. QED
        BY <2>5, <2>6, <2>7, <3>1 DEF AttachTypeOK
    <2>9. Len(view) + 1 <= last
      <3>1. Len(wire[cur]) \in Nat \ {0} /\ next[cur] <= last + 1
        BY <1>1, <1>2, <2>1, EmptySeq DEF StreamOK
      <3>. QED
        BY <1>1, <2>2, <3>1
    <2>10. NoGap'
      <3>1. \A i \in 1 .. Len(view) : view[i] = i
        <4>1. DOMAIN view = 1 .. Len(view)
          BY <1>1
        <4>. QED
          BY <4>1 DEF Inv, NoGap
      <3>2. ASSUME NEW i \in DOMAIN view'
            PROVE  view'[i] = i
        <4>1. i \in 1 .. Len(view) \/ i = Len(view) + 1
          BY <1>1, <2>5
        <4>. QED
          BY <4>1, <2>5, <3>1
      <3>3. Len(view') <= last'
        BY <2>5, <2>7, <2>9
      <3>. QED
        BY <3>2, <3>3 DEF NoGap
    <2>11. ASSUME NEW r \in Streams \ {cur}
           PROVE  StreamOK(r)'
      <3>1. wire'[r] = wire[r] /\ cur' # r
        BY <1>1, <2>6, <2>7
      <3>. QED
        BY <1>2, <2>7, <3>1, Untouched
    <2>12. wire'[cur] = Tail(wire[cur])
      BY <1>1, <2>1, <2>6
    <2>13. next[cur] = Len(view') + Len(wire'[cur]) + 1
      <3>1. Len(wire[cur]) \in Nat
        BY <1>1, <2>1
      <3>2. Len(wire'[cur]) = Len(wire[cur]) - 1
        BY <2>3, <2>12
      <3>3. Len(view) \in Nat /\ Len(view') = Len(view) + 1
        BY <1>1, <2>5
      <3>4. next[cur] = Len(view) + Len(wire[cur]) + 1
        BY <2>2
      <3>5. ASSUME NEW a \in Nat, NEW b \in Nat
            PROVE  (a + 1) + (b - 1) + 1 = a + b + 1
        OBVIOUS
      <3>. HIDE DEF q, first
      <3>. QED
        BY <3>1, <3>2, <3>3, <3>4, <3>5, Zenon
    <2>14. From(wire'[cur], Len(view') + 1)
      BY <1>1, <2>3, <2>5, <2>12
    <2>15. StreamOK(cur)
      BY <1>2, <2>1
    <2>16. pc[cur] # "idle" /\ ~(pc[cur] \in {"idle", "open"})
      BY <2>1, <2>15 DEF StreamOK, Fresh, Showing
    <2>17. ASSUME NEW r \in Streams, r = cur
           PROVE  StreamOK(r)'
      <3>1. Showing(r)'
        BY <2>1, <2>7, <2>13, <2>14, <2>16, <2>17 DEF Showing, From
      <3>2. next'[r] <= last' + 1 /\ Fresh(r)'
        BY <2>7, <2>15, <2>16, <2>17 DEF StreamOK, Fresh
      <3>3. Paging(r)' /\ Following(r)' /\ Subscribed(r)'
        BY <2>7, <2>15, <2>17 DEF StreamOK, Paging, Following, Subscribed, From, Onward
      <3>. QED
        BY <3>1, <3>2, <3>3 DEF StreamOK
    <2>. QED
      BY <2>8, <2>10, <2>11, <2>17 DEF Inv
  <1>6. ASSUME Dropped
        PROVE  Inv'
    <2>. USE DEF Dropped, server
    <2>1. AttachTypeOK' /\ NoGap'
      BY <1>6 DEF Inv, AttachTypeOK, NoGap
    <2>2. ASSUME NEW r \in Streams
          PROVE  StreamOK(r)'
      BY <1>1, <1>2, <1>6, Untouched, AttachAssumption
    <2>. QED
      BY <2>1, <2>2 DEF Inv
  <1>7. ASSUME Break
        PROVE  Inv'
    <2>. USE DEF Break, server
    <2>1. cur \in Streams /\ used' \in [breaks : Nat, reconnects : Nat]
      <3>1. used.breaks \in Nat /\ used.breaks + 1 \in Nat
        BY <1>1
      <3>. QED
        BY <1>1, <1>7, <3>1
    <2>2. wire' \in [Streams -> Seq(Nat)] /\ cut' \subseteq Streams
      BY <1>1, <1>7, <2>1, EmptySeq
    <2>3. AttachTypeOK' /\ NoGap'
      BY <1>1, <1>7, <2>1, <2>2 DEF Inv, AttachTypeOK, NoGap
    <2>4. ASSUME NEW r \in Streams, r # cur
          PROVE  StreamOK(r)'
      <3>1. wire'[r] = wire[r]
        BY <1>1, <1>7, <2>4
      <3>. QED
        BY <1>2, <1>7, <2>4, <3>1, Untouched
    <2>5. ASSUME NEW r \in Streams, r = cur
          PROVE  StreamOK(r)'
      <3>1. wire'[r] = <<>> /\ r \in cut'
        BY <1>1, <1>7, <2>5
      <3>2. StreamOK(r)
        BY <1>2
      <3>. QED
        BY <1>7, <2>5, <3>1, <3>2
        DEF StreamOK, Fresh, Paging, Following, Subscribed, Showing, From, Onward
    <2>. QED
      BY <2>3, <2>4, <2>5 DEF Inv
  <1>8. ASSUME Reuse(s)
        PROVE  Inv'
    <2>. USE DEF Reuse, Over
    <2>1. /\ pc' \in [Streams -> StreamPcs] /\ next' \in [Streams -> Nat \ {0}]
          /\ snap' \in [Streams -> Nat] /\ page' \in [Streams -> Seq(Nat)]
          /\ chan' \in [Streams -> Seq(Nat)] /\ wire' \in [Streams -> Seq(Nat)]
          /\ cut' \subseteq Streams
      BY <1>1, <1>8, EmptySeq DEF StreamPcs
    <2>2. AttachTypeOK' /\ NoGap'
      BY <1>1, <1>8, <2>1 DEF Inv, AttachTypeOK, NoGap
    <2>3. ASSUME NEW r \in Streams \ {s}
          PROVE  StreamOK(r)'
      BY <1>1, <1>2, <1>8, Untouched
    <2>4. StreamOK(s)'
      <3>1. /\ pc'[s] = "idle" /\ next'[s] = 1 /\ page'[s] = <<>> /\ chan'[s] = <<>>
            /\ wire'[s] = <<>> /\ cur' # s /\ s \notin subs' /\ last' = last
        BY <1>1, <1>2, <1>8 DEF StreamOK, Subscribed
      <3>. QED
        BY <1>1, <3>1 DEF StreamOK, Fresh, Paging, Following, Subscribed, Showing
    <2>. QED
      BY <2>2, <2>3, <2>4 DEF Inv
  <1>. QED
    BY <1>4, <1>5, <1>6, <1>7, <1>8

\* Every step keeps the inductive invariant.
LEMMA InvNext == Inv /\ [AttachNext]_attachVars => Inv'
  <1>. SUFFICES ASSUME Inv, [AttachNext]_attachVars PROVE Inv'
    OBVIOUS
  <1>1. CASE UNCHANGED attachVars
    <2>1. AttachTypeOK' /\ NoGap'
      BY <1>1 DEF Inv, AttachTypeOK, NoGap, attachVars
    <2>2. ASSUME NEW r \in Streams
          PROVE  StreamOK(r)'
      BY <1>1, Untouched DEF Inv, attachVars
    <2>. QED
      BY <2>1, <2>2 DEF Inv
  <1>2. ASSUME OnEvent \/ Dropped \/ Break
        PROVE  Inv'
    <2>1. \E s \in Streams : TRUE
      BY <1>2, AttachAssumption DEF OnEvent, Dropped, Break, Inv, AttachTypeOK
    <2>. QED
      BY <1>2, <2>1, AppStep
  <1>. QED
    BY <1>1, <1>2, AppendStep, HandleStep, AppStep DEF AttachNext, App

------------------------------------------------------------------------------
(* Theorems *)

\* The invariant holds of every reachable state.
THEOREM Invariance == AttachSpec => []Inv
  BY InvInit, InvNext, PTL DEF AttachSpec

\* Every variable keeps its type (session.go:169-240).
THEOREM AttachTypes == AttachSpec => []AttachTypeOK
  BY Invariance, PTL DEF Inv

\* The app is shown the log from its first event on, without a gap and without
\* a repetition, however often streams break, are dropped or are reopened
\* (session.go:184, flit_chat_notifier.dart:1).
THEOREM ShownWithoutGap == AttachSpec => []NoGap
  BY Invariance, PTL DEF Inv

\* What a handler has not sent yet is in the store or in its channel, up to the
\* newest event (session.go:187-189).
THEOREM NothingMissedBetween == AttachSpec => []HandlerComplete
  <1>1. Inv => HandlerComplete
    BY DEF Inv, StreamOK, Paging, Following, From, Onward, HandlerComplete
  <1>. QED
    BY <1>1, Invariance, PTL

\* No handler that has returned stays subscribed, and none lags behind by more
\* than its buffer (session.go:170-179, 195-199).
THEOREM SubscribersBounded == AttachSpec => []NoLeakedSubscriber
  <1>1. Inv => NoLeakedSubscriber
    BY DEF Inv, AttachTypeOK, StreamOK, Subscribed, NoLeakedSubscriber
  <1>. QED
    BY <1>1, Invariance, PTL

\* Every step is a step of EventLog or leaves the log and what is shown alone:
\* the safety part of ShowsTheLog.
THEOREM ImplementsEventLog == AttachSpec => Log!Init /\ [][Log!Next]_<<last, view>>
  <1>1. AttachInit => Log!Init
    BY DEF AttachInit, Log!Init
  <1>2. Inv /\ [AttachNext]_attachVars => [Log!Next]_<<last, view>>
    <2>. SUFFICES ASSUME Inv, [AttachNext]_attachVars PROVE [Log!Next]_<<last, view>>
      OBVIOUS
    <2>1. CASE AppendLocked
      BY <2>1 DEF AppendLocked, Log!Next, Log!Record
    <2>2. CASE OnEvent
      <3>1. LastSeq = Len(view) /\ Len(view) \in Nat /\ last' = last
        BY <2>2, LastSeqIs DEF Inv, OnEvent
      <3>2. cur \in Streams /\ wire[cur] # <<>> /\ StreamOK(cur) /\ wire[cur] \in Seq(Nat)
        BY <2>2 DEF OnEvent, Inv, AttachTypeOK
      <3>3. next[cur] = Len(view) + Len(wire[cur]) + 1 /\ From(wire[cur], Len(view) + 1)
        BY <3>2 DEF StreamOK, Showing
      <3>4. Head(wire[cur]) = Len(view) + 1
        BY <3>1, <3>2, <3>3, TailFrom
      <3>5. view' = Append(view, Len(view) + 1)
        BY <2>2, <3>1, <3>4 DEF OnEvent, Fold
      <3>6. Len(view) < last
        <4>1. /\ next[cur] <= last + 1 /\ next[cur] \in Nat /\ last \in Nat
              /\ Len(wire[cur]) \in Nat \ {0}
          BY <3>2, EmptySeq DEF StreamOK, Inv, AttachTypeOK
        <4>. QED
          BY <3>1, <3>3, <4>1
      <3>. QED
        BY <3>1, <3>5, <3>6 DEF Log!Next, Log!Show
    <2>3. CASE UNCHANGED <<last, view>>
      BY <2>3
    <2>4. ASSUME NEW s \in Streams, Handle(s) \/ Reuse(s) \/ ReconnectNow(s) \/ Retry(s)
          PROVE  UNCHANGED <<last, view>>
      BY <2>4 DEF Handle, Subscribe, Fetch, SendReplayed, GoLive, Relay, SlowClient,
                  Gone, Return, Reuse, ReconnectNow, Retry, Open
    <2>5. CASE Dropped \/ Break \/ UNCHANGED attachVars
      BY <2>5 DEF Dropped, Break, attachVars
    <2>. QED
      BY <2>1, <2>2, <2>3, <2>4, <2>5 DEF AttachNext, App
  <1>. QED
    BY <1>1, <1>2, Invariance, PTL DEF AttachSpec
==============================================================================
