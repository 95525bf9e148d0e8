------------------------------- MODULE Attach -------------------------------
(***************************************************************************)
(* One app client following the event log of one session: the server's     *)
(* session.attach (agent/session.go), which replays the log from the store *)
(* and then follows a subscription that appendLocked publishes to, and the *)
(* app's FlitChatNotifier, which folds what it receives and attaches again *)
(* from the last event folded when its stream drops.                       *)
(*                                                                         *)
(* A stream is one Attach call.  Clients share only the log and the lock   *)
(* that orders appends and subscriptions, so one client stands for all;    *)
(* an earlier stream of its own may still be served next to the new one.   *)
(* An event is its sequence number.                                        *)
(***************************************************************************)
EXTENDS Naturals, Sequences

CONSTANTS
  Streams,        \* Attach calls that can be under way at the same time
  NoStream,       \* no stream
  Buffer,         \* subscriberBuffer
  Page,           \* replayPage
  MaxSeq,         \* bound: events in the log
  MaxBreaks,      \* bound: times a connection breaks
  MaxReconnects   \* bound: times the user asks to reconnect

ASSUME AttachAssumption ==
  /\ NoStream \notin Streams
  /\ {Buffer, Page} \subseteq Nat \ {0}
  /\ {MaxSeq, MaxBreaks, MaxReconnects} \subseteq Nat

VARIABLES
  last,       \* info.LastSeq, and the newest event in the store
  pc,         \* where the handler of each stream is
  next,       \* attach's next: the event to send next
  snap,       \* attach's last: where replay ends
  page,       \* events read from the store and not sent yet
  chan,       \* sub.ch
  subs,       \* session.subs: the streams appends are published to
  wire,       \* events sent on each stream and not received yet
  cut,        \* streams whose connection is gone, or that the app aborted
  cur,        \* the stream behind the app's _subscription
  view,       \* the events folded, in order
  used        \* how much of the bounds on breaks and reconnects is used

attachVars == <<last, pc, next, snap, page, chan, subs, wire, cut, cur, view, used>>
server == <<pc, next, snap, page, chan, subs>>

\* The app's FlitFoldState.lastSeq: the newest event folded.
LastSeq == IF view = <<>> THEN 0 ELSE view[Len(view)]

------------------------------------------------------------------------------
(* The session *)

\* Variant: an event that does not fit is skipped and the subscriber kept.
PublishSkipping(n) ==
  /\ chan' = [s \in Streams |->
                IF s \in subs /\ Len(chan[s]) < Buffer THEN Append(chan[s], n) ELSE chan[s]]
  /\ UNCHANGED subs

\* The end of appendLocked: the event goes to every subscriber; one whose
\* buffer is full is dropped and its channel closed.
Publish(n) ==
  LET room == {s \in subs : Len(chan[s]) < Buffer} IN
  /\ chan' = [s \in Streams |-> IF s \in room THEN Append(chan[s], n) ELSE chan[s]]
  /\ subs' = room

\* appendLocked: recorded in the store, then published, under the lock.
AppendLocked ==
  /\ last < MaxSeq
  /\ last' = last + 1
  /\ Publish(last + 1)
  /\ UNCHANGED <<pc, next, snap, page, wire, cut, cur, view, used>>

------------------------------------------------------------------------------
(* The handler of a stream *)

\* Variant: the log's end is read before the lock is taken.
SubscribeStale(s) ==
  /\ pc[s] = "open"
  /\ pc' = [pc EXCEPT ![s] = "replay"]
  /\ \E n \in {last, last - 1} \cap Nat : snap' = [snap EXCEPT ![s] = n]
  /\ subs' = subs \cup {s}
  /\ UNCHANGED <<last, next, page, chan, wire, cut, cur, view, used>>

\* The log's end is noted and the stream subscribed in one critical section.
Subscribe(s) ==
  /\ pc[s] = "open"
  /\ pc' = [pc EXCEPT ![s] = "replay"]
  /\ snap' = [snap EXCEPT ![s] = last]
  /\ subs' = subs \cup {s}
  /\ UNCHANGED <<last, next, page, chan, wire, cut, cur, view, used>>

\* store.Events: one page, from next to the end of the replay.
Fetch(s) ==
  /\ pc[s] = "replay" /\ page[s] = <<>> /\ next[s] <= snap[s]
  /\ page' = [page EXCEPT ![s] =
                LET rest == snap[s] - next[s] + 1 IN
                [i \in 1 .. (IF rest < Page THEN rest ELSE Page) |-> next[s] + i - 1]]
  /\ UNCHANGED <<last, pc, next, snap, chan, subs, wire, cut, cur, view, used>>

\* send(ev), and the next event to send.
SendEvent(s, ev) ==
  /\ wire' = [wire EXCEPT ![s] = Append(@, ev)]
  /\ next' = [next EXCEPT ![s] = ev + 1]

SendReplayed(s) ==
  /\ pc[s] = "replay" /\ page[s] # <<>> /\ s \notin cut
  /\ SendEvent(s, Head(page[s]))
  /\ page' = [page EXCEPT ![s] = Tail(@)]
  /\ UNCHANGED <<last, pc, snap, chan, subs, cut, cur, view, used>>

GoLive(s) ==
  /\ pc[s] = "replay" /\ page[s] = <<>> /\ next[s] > snap[s]
  /\ pc' = [pc EXCEPT ![s] = "live"]
  /\ UNCHANGED <<last, next, snap, page, chan, subs, wire, cut, cur, view, used>>

\* The select receives an event; one that was replayed is not sent again.
Relay(s) ==
  /\ pc[s] = "live" /\ chan[s] # <<>> /\ s \notin cut
  /\ chan' = [chan EXCEPT ![s] = Tail(@)]
  /\ IF Head(chan[s]) < next[s] THEN UNCHANGED <<wire, next>>
     ELSE SendEvent(s, Head(chan[s]))
  /\ UNCHANGED <<last, pc, snap, page, subs, cut, cur, view, used>>

\* Variant: nothing is deferred.
ReturnSubscribed(s) ==
  /\ pc' = [pc EXCEPT ![s] = "done"]
  /\ UNCHANGED <<last, next, snap, page, chan, subs, wire, cut, cur, view, used>>

\* attach has returned: the deferred function unsubscribes, the response ends.
Return(s) ==
  /\ pc' = [pc EXCEPT ![s] = "done"]
  /\ subs' = subs \ {s}
  /\ UNCHANGED <<last, next, snap, page, chan, wire, cut, cur, view, used>>

\* The channel is closed and empty: ErrSlowClient.
SlowClient(s) ==
  /\ pc[s] = "live" /\ chan[s] = <<>> /\ s \notin subs
  /\ Return(s)

\* The context has ended, or a send fails.
Gone(s) ==
  /\ pc[s] \in {"open", "replay", "live"} /\ s \in cut
  /\ Return(s)

------------------------------------------------------------------------------
(* The app *)

\* The states of a stream nobody uses any more.
Over(s) == pc[s] = "done" /\ s # cur

\* Variant: the app attaches from the newest event it has.
AttachFromLast(s) == next' = [next EXCEPT ![s] = LastSeq]

\* The seq the app attaches from.
AttachFrom(s) == next' = [next EXCEPT ![s] = LastSeq + 1]

\* _attach: the stream there is is aborted, and a new one opened.
Open(s) ==
  /\ pc[s] = "idle"
  /\ cur' = s
  /\ cut' = cut \cup ({cur} \ {NoStream})
  /\ pc' = [pc EXCEPT ![s] = "open"]
  /\ AttachFrom(s)
  /\ wire' = IF cur = NoStream THEN wire ELSE [wire EXCEPT ![cur] = <<>>]
  /\ UNCHANGED <<last, snap, page, chan, subs, view>>

\* The first attach, and the retry timer.
Retry(s) == cur = NoStream /\ Open(s) /\ UNCHANGED used

\* reconnectNow, while a stream is open.
ReconnectNow(s) ==
  /\ cur # NoStream
  /\ used.reconnects < MaxReconnects
  /\ used' = [used EXCEPT !.reconnects = @ + 1]
  /\ Open(s)

\* foldFlitEvent: events at or below lastSeq are ignored.
Fold(ev) == view' = IF ev <= LastSeq THEN view ELSE Append(view, ev)

OnEvent ==
  /\ cur # NoStream /\ wire[cur] # <<>>
  /\ Fold(Head(wire[cur]))
  /\ wire' = [wire EXCEPT ![cur] = Tail(@)]
  /\ UNCHANGED <<last, server, cut, cur, used>>

\* Variant: the app does not look for the end of its stream.
DroppedUnseen == FALSE

\* _dropped: the stream ended, after what it still delivered, or broke.
Dropped ==
  /\ cur # NoStream /\ wire[cur] = <<>>
  /\ pc[cur] = "done" \/ cur \in cut
  /\ cur' = NoStream
  /\ UNCHANGED <<last, server, wire, cut, view, used>>

------------------------------------------------------------------------------
(* The network *)

\* The connection of the app's stream breaks; what was on its way is lost.
Break ==
  /\ cur # NoStream /\ cur \notin cut
  /\ used.breaks < MaxBreaks
  /\ used' = [used EXCEPT !.breaks = @ + 1]
  /\ cut' = cut \cup {cur}
  /\ wire' = [wire EXCEPT ![cur] = <<>>]
  /\ UNCHANGED <<last, server, cur, view>>

\* A stream that is over leaves its place to another.
Reuse(s) ==
  /\ Over(s)
  /\ pc' = [pc EXCEPT ![s] = "idle"]
  /\ next' = [next EXCEPT ![s] = 1]
  /\ snap' = [snap EXCEPT ![s] = 0]
  /\ page' = [page EXCEPT ![s] = <<>>]
  /\ chan' = [chan EXCEPT ![s] = <<>>]
  /\ wire' = [wire EXCEPT ![s] = <<>>]
  /\ cut' = cut \ {s}
  /\ UNCHANGED <<last, subs, cur, view, used>>

AttachInit ==
  /\ last = 0
  /\ pc = [s \in Streams |-> "idle"]
  /\ next = [s \in Streams |-> 1]
  /\ snap = [s \in Streams |-> 0]
  /\ page = [s \in Streams |-> <<>>]
  /\ chan = [s \in Streams |-> <<>>]
  /\ wire = [s \in Streams |-> <<>>]
  /\ subs = {} /\ cut = {} /\ cur = NoStream /\ view = <<>>
  /\ used = [breaks |-> 0, reconnects |-> 0]

Handle(s) ==
  \/ Subscribe(s) \/ Fetch(s) \/ SendReplayed(s) \/ GoLive(s) \/ Relay(s)
  \/ SlowClient(s) \/ Gone(s)

App == OnEvent \/ Dropped \/ (\E s \in Streams : Retry(s))

AttachNext ==
  \/ AppendLocked
  \/ \E s \in Streams : Handle(s) \/ Reuse(s) \/ ReconnectNow(s)
  \/ App
  \/ Break

AttachSpec == AttachInit /\ [][AttachNext]_attachVars

\* Handlers and the app go on; the retry timer fires.  Nothing has to be
\* recorded, no connection has to break.
AttachFairness ==
  /\ \A s \in Streams : WF_attachVars(Handle(s)) /\ WF_attachVars(Reuse(s))
  /\ WF_attachVars(OnEvent) /\ WF_attachVars(Dropped)
  /\ WF_attachVars(\E s \in Streams : Retry(s))

AttachFairSpec == AttachSpec /\ AttachFairness

------------------------------------------------------------------------------
(* Properties *)

StreamPcs == {"idle", "open", "replay", "live", "done"}

\* Every variable has its type.
AttachTypeOK ==
  /\ last \in Nat
  /\ pc \in [Streams -> StreamPcs]
  /\ next \in [Streams -> Nat \ {0}]
  /\ snap \in [Streams -> Nat]
  /\ page \in [Streams -> Seq(Nat)]
  /\ chan \in [Streams -> Seq(Nat)]
  /\ wire \in [Streams -> Seq(Nat)]
  /\ subs \subseteq Streams /\ cut \subseteq Streams
  /\ cur \in Streams \cup {NoStream}
  /\ view \in Seq(Nat)
  /\ used \in [breaks : Nat, reconnects : Nat]

\* The app is shown the log: its first events, each once, in order.  The fold
\* itself does not notice a gap (flit_fold.dart:749).
NoGap ==
  /\ Len(view) <= last
  /\ \A i \in DOMAIN view : view[i] = i

\* What a handler that serves has yet to send it has or can get: the rest of
\* the replay is in the store, and the channel goes on where the replay ends,
\* up to the newest event unless the subscriber was dropped.
HandlerComplete ==
  \A s \in Streams :
    LET from == IF pc[s] = "replay" THEN snap[s] + 1 ELSE next[s] IN
    pc[s] \in {"replay", "live"} =>
      /\ \A i \in DOMAIN chan[s] : chan[s][i] = from + i - 1
      /\ s \in subs => from + Len(chan[s]) = last + 1
      /\ pc[s] = "replay" => snap[s] <= last

\* A stream takes a place among the subscribers only while it is served.
NoLeakedSubscriber ==
  \A s \in subs : pc[s] \in {"replay", "live"} /\ Len(chan[s]) <= Buffer

\* The client sees what EventLog promises, in the end all of it.
Log == INSTANCE EventLog WITH shown <- view
ShowsTheLog == Log!Spec
==============================================================================
