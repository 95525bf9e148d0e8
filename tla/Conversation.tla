---------------------------- MODULE Conversation -----------------------------
(***************************************************************************)
(* What the model is shown of a session: the events of the log, branches   *)
(* (branches/branches.go, agent/branch.go), compactions (agent/compact.go) *)
(* and the messages built from them (agent/history.go).                    *)
(*                                                                         *)
(* The session's lock and its one turn at a time are module Session's; here *)
(* a turn is a sequence of appends that a crash or a failed append may cut *)
(* short anywhere.  An event's seq is its place in the log; messages, tool *)
(* calls and branches are named by the seq of the event that begins them.  *)
(***************************************************************************)
EXTENDS Naturals, Sequences, FiniteSets

CONSTANTS
  Keeps,       \* values of agent.compaction.keep_turns
  Named,       \* whether the server names its tool calls
  MaxCalls,    \* bound: tool calls of a reply
  MaxSwitches, \* bound: switches to a branch, forks included
  MaxCuts,     \* bound: turns cut short
  MaxLog       \* bound: events in the log

ASSUME ConversationAssumption ==
  /\ Keeps \subseteq Nat \ {0}
  /\ Named \in BOOLEAN
  /\ {MaxCalls, MaxSwitches, MaxCuts, MaxLog} \subseteq Nat

VARIABLES
  log,     \* the session's events
  turn,    \* what the running turn does next, and the calls of its last reply
  told,    \* history: on each branch, what was said there, in order
  cuts     \* how often a turn was cut short

conversationVars == <<log, turn, told, cuts>>

Root == 0

Idle == [at |-> "idle", calls |-> <<>>, joins |-> FALSE]

\* The numbers of S up to n, in order.
InOrder(n, S) ==
  LET to[k \in 0 .. n] ==
        IF k = 0 THEN <<>> ELSE IF k \in S THEN Append(to[k - 1], k) ELSE to[k - 1]
  IN  to[n]

\* What s holds in these places, in order.
Those(s, places) ==
  LET at == InOrder(Len(s), places) IN [i \in DOMAIN at |-> s[at[i]]]

Highest(S) == IF S = {} THEN 0 ELSE CHOOSE s \in S : \A t \in S : t <= s

------------------------------------------------------------------------------
(* Branches *)

Branches == {Root} \cup {i \in DOMAIN log : log[i].kind = "branch_created"}

\* info.BranchID is that of the last BranchSwitched.
Switched == {i \in DOMAIN log : log[i].kind = "branch_switched"}
Active == IF Switched = {} THEN Root ELSE log[Highest(Switched)].id

\* Tree.Path of each branch: the last seq that each branch contributes to it.
Path ==
  LET limit[b \in Branches] ==
        IF b = Root THEN [x \in {Root} |-> MaxLog]
        ELSE LET parent == log[b].parent
                 up == limit[parent]
             IN [x \in {b} \cup DOMAIN up |->
                   IF x = b THEN MaxLog ELSE IF x = parent THEN log[b].fork ELSE up[x]]
  IN limit

SessionWide(e) == e.kind \in {"branch_created", "branch_switched"}

\* Path.Filter, of the kinds history is built from.
OnBranch(b) ==
  LET limit == Path[b]
  IN {i \in DOMAIN log : /\ ~SessionWide(log[i]) /\ log[i].branch \in DOMAIN limit
                         /\ i <= limit[log[i].branch]}

------------------------------------------------------------------------------
(* The context of a model call *)

\* Events are sets of seqs here: their order is that of the log.

\* lastCompaction: the event, or none.
NoCompaction == [kind |-> "none", covered |-> 0, sums |-> {}]

LastCompaction(events) ==
  LET done == {i \in events : log[i].kind = "compaction_done"}
  IN IF done = {} THEN NoCompaction ELSE log[Highest(done)]

Starts(events, who) == {i \in events : log[i].kind = "message_started" /\ log[i].role = who}

UpTo(events, n) == {i \in events : i <= n}

After(events, n) == {i \in events : i > n}

\* Variant: a cut inside a turn does not keep the request.
ContextFromCut(events, c) == After(events, c.covered)

\* contextEvents: what follows the cut and, if that is inside a turn, the user
\* message the turn works on.
ContextEvents(events, c) ==
  LET kept == After(events, c.covered)
      older == UpTo(events, c.covered)
      begin == Starts(kept, "user") \cup Starts(kept, "assistant")
      inTurn == \E s \in Starts(kept, "assistant") : \A t \in begin : s <= t
      request == Highest(Starts(older, "user"))
  IN IF c.kind = "none" THEN events
     ELSE IF inTurn
     THEN kept \cup {i \in older : /\ log[i].kind \in {"message_started", "message_done"}
                                  /\ log[i].id = request}
     ELSE kept

\* buildMessages, one event at a time.  A message is who it is from, its id and
\* the calls it makes.
Entry(role, id, full) == [role |-> role, id |-> id, calls |-> <<>>, full |-> full]

\* The calls with no result so far are answered as interrupted.
Flush(acc) ==
  LET open == Those(acc.pending, {i \in DOMAIN acc.pending : acc.pending[i] \notin acc.done})
  IN [acc EXCEPT !.msgs = @ \o [i \in DOMAIN open |-> Entry("tool", open[i], TRUE)],
                 !.pending = <<>>]

Build(acc, e) ==
  CASE e.kind = "message_started" -> [acc EXCEPT !.known = @ \cup {e.id}]
    [] e.kind = "message_done" ->
         LET flushed == Flush(acc)
         IN IF e.id \in acc.known
            THEN [flushed EXCEPT !.msgs = Append(@, Entry(e.role, e.id, e.full))]
            ELSE flushed
    [] e.kind = "tool_call_started" ->
         LET at == {i \in DOMAIN acc.msgs : acc.msgs[i].role = "assistant" /\ acc.msgs[i].id = e.msg}
         IN IF at = {} THEN acc
            ELSE [acc EXCEPT !.msgs[Highest(at)].calls = Append(@, e.id),
                             !.pending = Append(@, e.id)]
    [] e.kind = "tool_call_done" ->
         [acc EXCEPT !.done = @ \cup {e.id}, !.msgs = Append(@, Entry("tool", e.id, TRUE))]
    [] OTHER -> acc

Nothing == [msgs |-> <<>>, known |-> {}, pending |-> <<>>, done |-> {}]

\* What has been built of these events at each place of the log.
Built(events) ==
  LET built[n \in 0 .. Len(log)] ==
        IF n = 0 THEN Nothing
        ELSE IF n \in events THEN Build(built[n - 1], log[n]) ELSE built[n - 1]
  IN  built

\* A reply that says and calls nothing is left out.
BuildMessages(events) ==
  LET msgs == Flush(Built(events)[Len(log)]).msgs
  IN Those(msgs, {i \in DOMAIN msgs : msgs[i].role # "assistant" \/ msgs[i].full \/ msgs[i].calls # <<>>})

Context(events, c) == BuildMessages(ContextEvents(events, c))

\* What a sequence of messages holds.
Contents(msgs) == {<<msgs[i].role, msgs[i].id>> : i \in DOMAIN msgs}

------------------------------------------------------------------------------
(* Compaction *)

UsersAfter(events, after) == InOrder(Len(log), After(Starts(events, "user"), after))

\* Variant: the last turn but keep loses its first event.
ChooseCutAt(events, after, keep, minKeep, midTurn) ==
  LET users == UsersAfter(events, after)
  IN IF Len(users) > keep THEN users[Len(users) - keep + 1] ELSE 0

\* chooseCut: the last event the summary covers; 0 if there is nothing to do.
ChooseCut(events, after, keep, minKeep, midTurn) ==
  LET users == UsersAfter(events, after)
      lastUser == IF users = <<>> THEN 0 ELSE users[Len(users)]
      steps == {s \in Starts(events, "assistant") : s > after /\ s > lastUser}
      Before(k) == users[Len(users) - k + 1] - 1
      fewer == {k \in minKeep .. keep - 1 : Len(users) > k}
  IN CASE Len(users) > keep -> Before(keep)
       [] Len(users) <= keep /\ midTurn /\ Cardinality(steps) >= 2 -> Highest(steps) - 1
       [] OTHER -> IF fewer = {} THEN 0
                   ELSE IF Highest(fewer) = 0 THEN Highest(events)
                   ELSE Before(Highest(fewer))

\* compact: the summary stands for what the one before it did and for what the
\* summary's request showed; 0 if it covers nothing or fails.
Compacted(keep, minKeep, midTurn) ==
  LET events == OnBranch(Active)
      before == LastCompaction(events)
      cut == ChooseCut(events, before.covered, keep, minKeep, midTurn)
  IN [kind |-> IF cut = 0 THEN "none" ELSE "compaction_done", branch |-> Active, covered |-> cut,
      sums |-> before.sums \cup Contents(Context(UpTo(events, cut), before))]

------------------------------------------------------------------------------
(* Appends *)

NextSeq == Len(log) + 1

CutShort == cuts < MaxCuts /\ cuts' = cuts + 1 /\ turn' = Idle

\* The events of a script are appended one by one, under the branch that is
\* active; it may end early, and the turn with it.
Do(script, then) ==
  /\ Len(log) + Len(script) <= MaxLog
  /\ \E n \in 1 .. Len(script) :
       /\ log' = log \o SubSeq(script, 1, n)
       /\ told' = [told EXCEPT ![Active] = @ \o [i \in 1 .. n |-> Len(log) + i]]
       /\ \/ n = Len(script) /\ turn' = then /\ UNCHANGED cuts
          \/ n < Len(script) /\ CutShort

Started(id, role) == [kind |-> "message_started", branch |-> Active, id |-> id, role |-> role]
Done(id, role, full) == [kind |-> "message_done", branch |-> Active, id |-> id, role |-> role, full |-> full]

UserMessage == <<Started(NextSeq, "user"), Done(NextSeq, "user", TRUE)>>

------------------------------------------------------------------------------
(* The session *)

At(where) == turn.at = where
Going(where, calls, joins) == [at |-> where, calls |-> calls, joins |-> joins]

\* A message that starts a turn, and one that joins it at a later step.
Send == At("idle") /\ Do(UserMessage, Going("boundary", <<>>, FALSE))
Join == At("boundary") /\ turn.joins /\ Do(UserMessage, turn)

\* A step of the loop: its request is built, with or without a compaction first.
Request ==
  /\ At("boundary")
  /\ turn' = Going("request", <<>>, FALSE)
  /\ UNCHANGED <<log, told, cuts>>

CompactMidTurn ==
  /\ At("boundary")
  /\ \E keep \in Keeps :
       LET c == Compacted(keep, 1, TRUE)
       IN c.kind # "none" /\ Do(<<c>>, Going("request", <<>>, FALSE))

CompactBetween ==
  /\ At("idle")
  /\ \E keep \in Keeps :
       LET c == Compacted(keep, 0, FALSE)
       IN c.kind # "none" /\ Do(<<c>>, Idle)

\* The model is called: its reply is a message with some calls, or it is cut
\* short by an interrupt or an error, which ends the turn.
Call == At("request") /\ Do(<<Started(NextSeq, "assistant")>>, Going("reply", <<NextSeq>>, FALSE))

Reply ==
  /\ At("reply")
  /\ \E n \in 0 .. MaxCalls, full \in BOOLEAN :
       LET msg == turn.calls[1]
           ids == [i \in 1 .. n |-> IF Named THEN NextSeq + i ELSE i]
           calls == [i \in 1 .. n |-> [kind |-> "tool_call_started", branch |-> Active,
                                       id |-> ids[i], msg |-> msg]]
       IN Do(<<Done(msg, "assistant", full)>> \o calls,
             IF n = 0 THEN Idle ELSE Going("tools", ids, FALSE))

ResultOf(id) == [kind |-> "tool_call_done", branch |-> Active, id |-> id]

\* The next call's result; after an interrupt, all that are left are recorded
\* as not run and the turn ends.
ToolDone ==
  /\ At("tools")
  /\ Do(<<ResultOf(Head(turn.calls))>>,
        IF Len(turn.calls) = 1 THEN Going("boundary", <<>>, TRUE)
        ELSE Going("tools", Tail(turn.calls), FALSE))

ToolsInterrupted ==
  /\ At("tools")
  /\ Do([i \in DOMAIN turn.calls |-> ResultOf(turn.calls[i])], Idle)

\* The process dies, or the turn ends here.
Cut ==
  /\ ~At("idle") /\ CutShort
  /\ UNCHANGED <<log, told>>

------------------------------------------------------------------------------
(* Forks *)

\* Variant: an edit keeps the message it replaces.
ForkSeqDone(m, edit) == CHOOSE i \in DOMAIN log : log[i].kind = "message_done" /\ log[i].id = m

\* Where a fork from user message m leaves the branch it was made on.
ForkSeq(m, edit) ==
  IF edit THEN m - 1
  ELSE CHOOSE i \in DOMAIN log : log[i].kind = "message_done" /\ log[i].id = m

MessageEvents(m) ==
  {i \in DOMAIN log : log[i].kind \in {"message_started", "message_done"} /\ log[i].id = m}

OnPath(m) ==
  LET events == OnBranch(Active)
  IN /\ m \in Starts(events, "user")
     /\ \E i \in events : log[i].kind = "message_done" /\ log[i].id = m

\* What was told on the branch up to m: with it, or before it.
ToldUpTo(m, edit) ==
  LET said == {told[Active][k] : k \in DOMAIN told[Active]}
  IN  InOrder(Len(log), {i \in said : i < m \/ (~edit /\ i \in MessageEvents(m))})

\* fork: BranchCreated, BranchSwitched, the edited message, and a turn.
Fork(m, edit) ==
  LET b == NextSeq
      created == [kind |-> "branch_created", branch |-> Active, id |-> b, parent |-> log[m].branch,
                  fork |-> ForkSeq(m, edit)]
      switched == [kind |-> "branch_switched", branch |-> b, id |-> b]
      On(e) == [e EXCEPT !.branch = b]
      said == IF edit THEN <<On(Started(b + 2, "user")), On(Done(b + 2, "user", TRUE))>> ELSE <<>>
      script == <<created, switched>> \o said
  IN
  /\ At("idle") /\ OnPath(m) /\ Cardinality(Switched) < MaxSwitches
  /\ Len(log) + Len(script) <= MaxLog
  /\ \E n \in 1 .. Len(script) :
       /\ log' = log \o SubSeq(script, 1, n)
       /\ \/ n = Len(script) /\ turn' = Going("boundary", <<>>, FALSE) /\ UNCHANGED cuts
          \/ n < Len(script) /\ CutShort
       /\ told' = [x \in DOMAIN told \cup {b} |->
                     IF x = b THEN ToldUpTo(m, edit) \o [i \in 1 .. (IF n > 2 THEN n - 2 ELSE 0) |-> b + 1 + i]
                     ELSE told[x]]

SwitchBranch(b) ==
  /\ At("idle") /\ b # Active /\ Cardinality(Switched) < MaxSwitches
  /\ Len(log) < MaxLog
  /\ log' = Append(log, [kind |-> "branch_switched", branch |-> b, id |-> b])
  /\ UNCHANGED <<turn, told, cuts>>

ConversationInit ==
  /\ log = <<>> /\ turn = Idle
  /\ told = [b \in {Root} |-> <<>>]
  /\ cuts = 0

ConversationNext ==
  \/ Send \/ Join \/ Request \/ CompactMidTurn \/ CompactBetween
  \/ Call \/ Reply \/ ToolDone \/ ToolsInterrupted \/ Cut
  \/ \E m \in DOMAIN log, edit \in BOOLEAN : Fork(m, edit)
  \/ \E b \in Branches : SwitchBranch(b)

ConversationSpec == ConversationInit /\ [][ConversationNext]_conversationVars

------------------------------------------------------------------------------
(* Properties *)

\* On every branch the log gives back what was said there, in order: nothing of
\* a sibling, of what followed a fork on its parent, or of a fork that was cut
\* short.
PathIsTheBranch ==
  \A b \in Branches : InOrder(Len(log), OnBranch(b)) = told[b]

\* What the messages of branch b said, as they would be without compaction.
Said(b) == Contents(BuildMessages({told[b][k] : k \in DOMAIN told[b]}))

ActiveContext ==
  LET events == OnBranch(Active) IN Context(events, LastCompaction(events))

\* The request of a model call and the summary in it stand for all that was said
\* on the active branch, and for nothing else, after compactions inside and
\* between turns and forks before and after them.
NothingForgotten ==
  At("request") =>
    Contents(ActiveContext) \cup LastCompaction(OnBranch(Active)).sums = Said(Active)

\* A conversation a model can be shown begins with a user's message and ends with
\* one or a result, and each reply's calls are followed by one result each.
ValidRequest(msgs) ==
  LET n == Len(msgs)
  IN /\ n > 0 /\ msgs[1].role = "user" /\ msgs[n].role # "assistant"
     /\ \A i \in 1 .. n :
          /\ msgs[i].role = "assistant" =>
               LET k == Len(msgs[i].calls) IN
               /\ i + k <= n
               /\ {msgs[j].id : j \in i + 1 .. i + k} = {msgs[i].calls[c] : c \in 1 .. k}
               /\ \A j \in i + 1 .. i + k : msgs[j].role = "tool"
          /\ msgs[i].role = "tool" =>
               \E a \in 1 .. i - 1 : msgs[a].role = "assistant" /\ i <= a + Len(msgs[a].calls)

\* Every request is one, however the turns before it ended and wherever a
\* compaction cut them.
RequestValid == At("request") => ValidRequest(ActiveContext)
==============================================================================
