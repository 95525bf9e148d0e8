------------------------------- MODULE Session -------------------------------
(***************************************************************************)
(* The runtime of one flit session: package agent's session (session.go,   *)
(* queue.go), its turns (turn.go, compact.go) and what Manager does to it  *)
(* (manager.go: Send, Compact, Interrupt, AnswerPrompt, Close, restart).   *)
(*                                                                         *)
(* Every handler runs under session.mu and is one step here.  A handler    *)
(* that appends several events can be cut short between two of them, by an *)
(* append that fails or by the death of the process: the steps named       *)
(* ...Fails and Crash leave a prefix of its events in the log.             *)
(*                                                                         *)
(* The log keeps the kinds of event the properties tell apart.  The three  *)
(* events of a user message are one, User, recorded when MessageDone is:   *)
(* the conversation is rebuilt from MessageDone (history.go:36-40).        *)
(***************************************************************************)
EXTENDS Naturals, Sequences, FiniteSets

CONSTANTS
  Msgs,         \* messages that clients may send, each at most once
  Prompts,      \* prompt ids the tools of the behaviour may use up
  Patterns,     \* shell patterns a prompt may offer to allow for the session
  Runs,         \* goroutines a turn or compaction can run on
  None,         \* no run, no prompt
  MaxSteps,     \* agent.max_steps
  MaxTools,     \* tool calls in one model reply
  MaxEdits,     \* bound: edits of queued messages
  MaxCompacts,  \* bound: Compact requests
  MaxFails,     \* bound: appends that fail
  MaxRestarts   \* bound: times the process starts again

ASSUME SessionAssumption ==
  /\ IsFiniteSet(Runs) /\ Runs # {}
  /\ None \notin Runs \cup Prompts
  /\ Msgs \cap {"nudge", "compact"} = {}
  /\ MaxSteps \in Nat \ {0}
  /\ {MaxTools, MaxEdits, MaxCompacts, MaxFails, MaxRestarts} \subseteq Nat

VARIABLES
  log,         \* the session's events, as stored
  state,       \* sessions.state in the store, and info.State in memory
  up,          \* the process runs
  closer,      \* how far Manager.Close is
  inbox,       \* requests past the checks in Manager, not yet in session.send
  queue,       \* session.queue
  compactAsk,  \* session.compactAsk # nil
  prompts,     \* keys of session.prompts
  offer,       \* patterns each prompt offers
  answer,      \* what is in each prompt's buffered channel
  allowed,     \* session.allowed
  cancelTurn,  \* the run whose context session.cancelTurn cancels
  run,         \* the turn goroutines
  spent        \* how much of each bound is used, and the messages sent

stored == <<log, state>>
memory == <<queue, compactAsk, prompts, offer, answer, allowed>>
vars == <<log, state, up, closer, inbox, queue, compactAsk, prompts, offer,
          answer, allowed, cancelTurn, run, spent>>

------------------------------------------------------------------------------
(* Events *)

StateEv(s, why)      == [kind |-> "state", state |-> s, why |-> why]
QueuedEv(m)          == [kind |-> "queued", id |-> m]
EditedEv(m)          == [kind |-> "edited", id |-> m]
CancelledEv(m)       == [kind |-> "cancelled", id |-> m]
DeliveredEv(m)       == [kind |-> "delivered", id |-> m]
UserEv(m, edited)    == [kind |-> "user", id |-> m, edited |-> edited]
AskedEv(p)           == [kind |-> "asked", id |-> p]
ResolvedEv(p, d)     == [kind |-> "resolved", id |-> p, decision |-> d]

Working    == StateEv("WORKING", "")
Compacting == StateEv("WORKING", "compacting")

\* How a run ends, and the state it records.
EndState(e) == IF e = "stuck" THEN "STUCK" ELSE "DONE"
EndEv(e)    == StateEv(EndState(e), e)

States == {"IDLE", "WORKING", "WAITING", "DONE", "STUCK"}
Busy   == {"WORKING", "WAITING"}

Entry(m) == [id |-> m, edited |-> FALSE]
Queued   == {queue[i].id : i \in DOMAIN queue}

\* The events that deliver queue q: each message's delivery and the message.
DeliverScript(q) ==
  [i \in 1 .. 2 * Len(q) |->
     LET e == q[(i + 1) \div 2]
     IN  IF i % 2 = 1 THEN DeliveredEv(e.id) ELSE UserEv(e.id, e.edited)]

\* Variant: the message leaves the queue with its delivery event.
PoppedEarly(q, n) == SubSeq(q, ((n + 1) \div 2) + 1, Len(q))

\* Variant: the queue is only cut once all of it is delivered.
PoppedLate(q, n) == IF n = 2 * Len(q) THEN <<>> ELSE q

\* The queue once n of those events are recorded.
Popped(q, n) == SubSeq(q, (n \div 2) + 1, Len(q))

\* What editQueue does to queue q: an entry goes, or its text changes.
Without(q, m) ==
  IF \E i \in DOMAIN q : q[i].id = m
    THEN LET first == CHOOSE i \in DOMAIN q :
                         q[i].id = m /\ \A j \in 1 .. i - 1 : q[j].id # m
         IN  [i \in 1 .. Len(q) - 1 |-> q[IF i < first THEN i ELSE i + 1]]
    ELSE q
Edited(q, m)  == [i \in DOMAIN q |->
                    IF q[i].id = m THEN [q[i] EXCEPT !.edited = TRUE] ELSE q[i]]

\* Variant: deliveries are not replayed.
ReloadUndelivered(q, ev) ==
  CASE ev.kind = "queued"    -> Append(q, Entry(ev.id))
    [] ev.kind = "edited"    -> Edited(q, ev.id)
    [] ev.kind = "cancelled" -> Without(q, ev.id)
    [] OTHER                 -> q

\* One event of the log as loadQueue replays it.
Reload(q, ev) ==
  CASE ev.kind = "queued"                   -> Append(q, Entry(ev.id))
    [] ev.kind = "edited"                   -> Edited(q, ev.id)
    [] ev.kind \in {"cancelled", "delivered"} -> Without(q, ev.id)
    [] OTHER                                -> q

LoadQueue(l) ==
  LET q[n \in 0 .. Len(l)] == IF n = 0 THEN <<>> ELSE Reload(q[n - 1], l[n])
  IN  q[Len(l)]

Resolutions(l, d) ==
  {l[i].id : i \in {j \in DOMAIN l : l[j].kind = "resolved" /\ l[j].decision = d}}

\* Variant: only what was allowed once is looked for.
LoadAllowedOnce(l) == UNION {offer[p] : p \in Resolutions(l, "allow")}

LoadAllowed(l) == UNION {offer[p] : p \in Resolutions(l, "session")}

------------------------------------------------------------------------------
(* The pieces steps are made of *)

Closing == closer # "open"

\* appendLocked, for events that all get recorded and leave state s.
Write(evs, s) == log' = log \o evs /\ state' = s

Fail == spent.fails < MaxFails /\ spent' = [spent EXCEPT !.fails = @ + 1]

IdleRun == [pc |-> "idle", kind |-> "turn", step |-> 0, left |-> 0,
            cancelled |-> FALSE, end |-> "done", prompt |-> None]

Live(t)  == run[t].pc # "idle"
LiveRuns == {t \in Runs : Live(t)}

NewRun(kind) == [IdleRun EXCEPT !.kind = kind,
                                !.pc = IF kind = "turn" THEN "boundary" ELSE "compact"]

\* The goroutine started under the lock: cancelTurn is its context's.
Start(t, kind) ==
  /\ ~Live(t)
  /\ run' = [run EXCEPT ![t] = NewRun(kind)]
  /\ cancelTurn' = t

Goto(t, pc) == run' = [run EXCEPT ![t].pc = pc]
EndWith(t, e) == run' = [run EXCEPT ![t].pc = "ended", ![t].end = e]

------------------------------------------------------------------------------
(* Clients: requests first pass the checks in Manager, without the session's *)
(* lock, and reach the session later.                                        *)

SendMessage(m) ==
  /\ up /\ ~Closing
  /\ m \notin spent.sent
  /\ inbox' = inbox \cup {m}
  /\ spent' = [spent EXCEPT !.sent = @ \cup {m}]
  /\ UNCHANGED <<stored, memory, up, closer, cancelTurn, run>>

\* Send with an empty text: only worth a step when it can find a queue.
SendEmpty ==
  /\ up /\ ~Closing
  /\ queue # <<>> /\ "nudge" \notin inbox
  /\ inbox' = inbox \cup {"nudge"}
  /\ UNCHANGED <<stored, memory, up, closer, cancelTurn, run, spent>>

Compact ==
  /\ up /\ ~Closing
  /\ spent.compacts < MaxCompacts
  /\ inbox' = inbox \cup {"compact"}
  /\ spent' = [spent EXCEPT !.compacts = @ + 1]
  /\ UNCHANGED <<stored, memory, up, closer, cancelTurn, run>>

\* session.send while a turn runs: the message is queued.
Enqueue(m) ==
  /\ up /\ m \in inbox /\ cancelTurn # None
  /\ inbox' = inbox \ {m}
  /\ Write(<<QueuedEv(m)>>, state)
  /\ queue' = Append(queue, Entry(m))
  /\ UNCHANGED <<up, closer, compactAsk, prompts, offer, answer, allowed,
                 cancelTurn, run, spent>>

\* The event cannot be recorded: Send returns its error.
EnqueueFails(m) ==
  /\ up /\ m \in inbox /\ cancelTurn # None
  /\ Fail
  /\ inbox' = inbox \ {m}
  /\ UNCHANGED <<stored, memory, up, closer, cancelTurn, run>>

\* What session.send records when it starts a turn for request r.
SendScript(r) ==
  DeliverScript(queue) \o (IF r \in Msgs THEN <<UserEv(r, FALSE)>> ELSE <<>>)
                       \o <<Working>>

\* An empty text is refused while a turn runs, or with nothing queued.
Startable(r) == r \in Msgs \/ (r = "nudge" /\ queue # <<>>)

\* Variant: whether a turn runs is looked up before the lock is taken.
SendStartsUnlocked(r, t) ==
  /\ up /\ r \in inbox /\ Startable(r)
  /\ inbox' = inbox \ {r}
  /\ Write(SendScript(r), "WORKING")
  /\ queue' = <<>>
  /\ Start(t, "turn")
  /\ UNCHANGED <<up, closer, compactAsk, prompts, offer, answer, allowed, spent>>

SendStarts(r, t) ==
  /\ up /\ r \in inbox /\ cancelTurn = None /\ Startable(r)
  /\ inbox' = inbox \ {r}
  /\ Write(SendScript(r), "WORKING")
  /\ queue' = <<>>
  /\ Start(t, "turn")
  /\ UNCHANGED <<up, closer, compactAsk, prompts, offer, answer, allowed, spent>>

\* The append after the first n fails and Send returns its error.
SendFails(r, n) ==
  /\ up /\ r \in inbox /\ cancelTurn = None /\ Startable(r)
  /\ n < Len(SendScript(r))
  /\ Fail
  /\ inbox' = inbox \ {r}
  /\ Write(SubSeq(SendScript(r), 1, n), state)
  /\ queue' = Popped(queue, n)
  /\ UNCHANGED <<up, closer, compactAsk, prompts, offer, answer, allowed,
                 cancelTurn, run>>

Refuse ==
  /\ up /\ "nudge" \in inbox
  /\ cancelTurn # None \/ queue = <<>>
  /\ inbox' = inbox \ {"nudge"}
  /\ UNCHANGED <<stored, memory, up, closer, cancelTurn, run, spent>>

\* requestCompact: left for the running turn's next step.
CompactLater ==
  /\ up /\ "compact" \in inbox /\ cancelTurn # None
  /\ inbox' = inbox \ {"compact"}
  /\ compactAsk' = TRUE
  /\ UNCHANGED <<stored, up, closer, queue, prompts, offer, answer, allowed,
                 cancelTurn, run, spent>>

\* requestCompact on an idle session: refused when there is nothing to cover or
\* the event cannot be recorded, else a run of its own.
CompactNow(t) ==
  /\ up /\ "compact" \in inbox /\ cancelTurn = None
  /\ inbox' = inbox \ {"compact"}
  /\ \/ UNCHANGED <<stored, cancelTurn, run>>
     \/ Write(<<Compacting>>, "WORKING") /\ Start(t, "compaction")
  /\ UNCHANGED <<memory, up, closer, spent>>

\* updateQueued, for EditQueuedMessage and CancelQueuedMessage.
EditQueued(m) ==
  /\ up /\ m \in Queued
  /\ spent.edits < MaxEdits
  /\ spent' = [spent EXCEPT !.edits = @ + 1]
  /\ Write(<<EditedEv(m)>>, state)
  /\ queue' = Edited(queue, m)
  /\ UNCHANGED <<up, closer, inbox, compactAsk, prompts, offer, answer, allowed,
                 cancelTurn, run>>

CancelQueued(m) ==
  /\ up /\ m \in Queued
  /\ Write(<<CancelledEv(m)>>, state)
  /\ queue' = Without(queue, m)
  /\ UNCHANGED <<up, closer, inbox, compactAsk, prompts, offer, answer, allowed,
                 cancelTurn, run, spent>>

Interrupt ==
  /\ up /\ cancelTurn # None
  /\ run' = [run EXCEPT ![cancelTurn].cancelled = TRUE]
  /\ UNCHANGED <<stored, memory, up, closer, inbox, cancelTurn, spent>>

\* Variant: the prompt is taken before the answer is found to be invalid.
AnswerPromptHasty(p, d) ==
  /\ up /\ p \in prompts
  /\ \E i \in DOMAIN log : log[i] = AskedEv(p)
  /\ prompts' = prompts \ {p}
  /\ answer' = IF d = "session" /\ offer[p] = {} THEN answer
               ELSE [answer EXCEPT ![p] = d]
  /\ UNCHANGED <<stored, up, closer, inbox, queue, compactAsk, offer, allowed,
                 cancelTurn, run, spent>>

\* AnswerPrompt: the first answer takes the prompt out of the map.  Clients
\* know of a prompt from its event in the log.
AnswerPrompt(p, d) ==
  /\ up /\ p \in prompts
  /\ \E i \in DOMAIN log : log[i] = AskedEv(p)
  /\ d = "session" => offer[p] # {}
  /\ prompts' = prompts \ {p}
  /\ answer' = [answer EXCEPT ![p] = d]
  /\ UNCHANGED <<stored, up, closer, inbox, queue, compactAsk, offer, allowed,
                 cancelTurn, run, spent>>

------------------------------------------------------------------------------
(* The turn *)

\* The top of loop, past max_steps: the turn stops stuck.
StepLimit(t) ==
  /\ up /\ run[t].pc = "boundary" /\ run[t].step = MaxSteps
  /\ EndWith(t, "stuck")
  /\ UNCHANGED <<stored, memory, up, closer, inbox, cancelTurn, spent>>

\* The step boundary: queued messages join the conversation (not before the
\* first call), and a compaction asked for, or due, comes before the call.
Boundary(t) ==
  /\ up /\ run[t].pc = "boundary" /\ run[t].step < MaxSteps
  /\ IF run[t].step = 0
       THEN UNCHANGED <<stored, queue>>
       ELSE Write(DeliverScript(queue), state) /\ queue' = <<>>
  /\ compactAsk' = FALSE
  /\ \E pc \in IF compactAsk THEN {"compact"} ELSE {"compact", "call"} : Goto(t, pc)
  /\ UNCHANGED <<up, closer, inbox, prompts, offer, answer, allowed, cancelTurn,
                 spent>>

\* deliverQueued's append after the first n fails: an internal error.
BoundaryFails(t, n) ==
  /\ up /\ run[t].pc = "boundary" /\ run[t].step \in 1 .. MaxSteps - 1
  /\ n < 2 * Len(queue)
  /\ Fail
  /\ Write(SubSeq(DeliverScript(queue), 1, n), state)
  /\ queue' = Popped(queue, n)
  /\ EndWith(t, "stuck")
  /\ UNCHANGED <<up, closer, inbox, compactAsk, prompts, offer, answer, allowed,
                 cancelTurn>>

\* A turn stops stuck: no model to call, a model error, or an event that could
\* not be recorded.
Stuck(t) ==
  /\ up /\ run[t].pc \in {"boundary", "compact", "call", "tools", "tool"}
  /\ EndWith(t, "stuck")
  /\ UNCHANGED <<stored, memory, up, closer, inbox, cancelTurn, spent>>

\* compact has returned, with or without a summary; then the context is looked at.
Compacted(t) ==
  /\ up /\ run[t].pc = "compact"
  /\ IF run[t].cancelled THEN EndWith(t, "interrupted")
     ELSE IF run[t].kind = "turn" THEN Goto(t, "call")
     ELSE EndWith(t, "done")
  /\ UNCHANGED <<stored, memory, up, closer, inbox, cancelTurn, spent>>

\* The model call returns a reply with k tool calls, cancelled or not.
Replied(t, k) ==
  /\ up /\ run[t].pc = "call"
  /\ IF k = 0 THEN EndWith(t, "done")
     ELSE run' = [run EXCEPT ![t].pc = "tools", ![t].left = k]
  /\ UNCHANGED <<stored, memory, up, closer, inbox, cancelTurn, spent>>

\* The model call fails and the turn's context has ended.
CallCancelled(t) ==
  /\ up /\ run[t].pc = "call" /\ run[t].cancelled
  /\ EndWith(t, "interrupted")
  /\ UNCHANGED <<stored, memory, up, closer, inbox, cancelTurn, spent>>

\* Variant: the call counts as done when it starts.
NextToolCounted(t) ==
  /\ up /\ run[t].pc = "tools" /\ run[t].left > 0
  /\ run' = [run EXCEPT ![t].pc   = IF run[t].cancelled THEN "tools" ELSE "tool",
                        ![t].left = @ - 1]
  /\ UNCHANGED <<stored, memory, up, closer, inbox, cancelTurn, spent>>

\* The next tool call: run, or recorded as not run once the turn is cancelled.
NextTool(t) ==
  /\ up /\ run[t].pc = "tools" /\ run[t].left > 0
  /\ run' = [run EXCEPT ![t].pc   = IF run[t].cancelled THEN "tools" ELSE "tool",
                        ![t].left = IF run[t].cancelled THEN @ - 1 ELSE @]
  /\ UNCHANGED <<stored, memory, up, closer, inbox, cancelTurn, spent>>

\* Variant: the steps are not counted.
ToolsDoneUncounted(t) ==
  /\ up /\ run[t].pc = "tools" /\ run[t].left = 0
  /\ IF run[t].cancelled THEN EndWith(t, "interrupted") ELSE Goto(t, "boundary")
  /\ UNCHANGED <<stored, memory, up, closer, inbox, cancelTurn, spent>>

\* After the last tool call: the next step, or the end of a cancelled turn.
ToolsDone(t) ==
  /\ up /\ run[t].pc = "tools" /\ run[t].left = 0
  /\ IF run[t].cancelled THEN EndWith(t, "interrupted")
     ELSE run' = [run EXCEPT ![t].pc = "boundary", ![t].step = @ + 1]
  /\ UNCHANGED <<stored, memory, up, closer, inbox, cancelTurn, spent>>

ToolDone(t) ==
  /\ up /\ run[t].pc = "tool"
  /\ run' = [run EXCEPT ![t].pc = "tools", ![t].left = @ - 1]
  /\ UNCHANGED <<stored, memory, up, closer, inbox, cancelTurn, spent>>

------------------------------------------------------------------------------
(* approveWith: each of its appends takes the lock anew.  When one fails the *)
(* tool gets the error, and its result says so; the turn goes on.            *)

\* The prompt is registered, then PromptRequested is recorded.
Ask(t, p, pats) ==
  /\ up /\ run[t].pc = "tool" /\ run[t].kind = "turn"
  /\ p \notin spent.asked
  /\ pats \subseteq Patterns \ allowed
  /\ prompts' = prompts \cup {p}
  /\ offer' = [offer EXCEPT ![p] = pats]
  /\ \/ /\ Write(<<AskedEv(p)>>, state)
        /\ run' = [run EXCEPT ![t].pc = "asked", ![t].prompt = p]
        /\ spent' = [spent EXCEPT !.asked = @ \cup {p}]
     \/ /\ spent.fails < MaxFails
        /\ spent' = [spent EXCEPT !.asked = @ \cup {p}, !.fails = @ + 1]
        /\ UNCHANGED <<stored, run>>
  /\ UNCHANGED <<up, closer, inbox, queue, compactAsk, answer, allowed, cancelTurn>>

\* The state is recorded as WAITING.
Wait(t) ==
  /\ up /\ run[t].pc = "asked"
  /\ \/ /\ Write(<<StateEv("WAITING", "")>>, "WAITING")
        /\ Goto(t, "waiting")
        /\ UNCHANGED spent
     \/ Fail /\ Goto(t, "tool") /\ UNCHANGED stored
  /\ UNCHANGED <<memory, up, closer, inbox, cancelTurn>>

\* The select takes the answer ...
TakeAnswer(t) ==
  LET p == run[t].prompt IN
  /\ up /\ run[t].pc = "waiting" /\ answer[p] # "none"
  /\ allowed' = IF answer[p] = "session" THEN allowed \cup offer[p] ELSE allowed
  /\ Goto(t, "answered")
  /\ UNCHANGED <<stored, up, closer, inbox, queue, compactAsk, prompts, offer,
                 answer, cancelTurn, spent>>

\* Variant: an interrupted prompt is not recorded as resolved.
GiveUpSilently(t) ==
  /\ up /\ run[t].pc = "waiting" /\ run[t].cancelled
  /\ prompts' = prompts \ {run[t].prompt}
  /\ Goto(t, "tool")
  /\ UNCHANGED <<stored, up, closer, inbox, queue, compactAsk, offer, answer,
                 allowed, cancelTurn, spent>>

\* Variant: the wait does not look at the context.
GiveUpNever(t) == FALSE

\* ... or the end of the context, even if an answer is there too.
GiveUp(t) ==
  /\ up /\ run[t].pc = "waiting" /\ run[t].cancelled
  /\ prompts' = prompts \ {run[t].prompt}
  /\ Goto(t, "gaveup")
  /\ UNCHANGED <<stored, up, closer, inbox, queue, compactAsk, offer, answer,
                 allowed, cancelTurn, spent>>

\* PromptResolved is recorded; an interrupted prompt ends approveWith there.
Resolve(t) ==
  LET p == run[t].prompt
      d == IF run[t].pc = "gaveup" THEN "interrupted" ELSE answer[p]
  IN
  /\ up /\ run[t].pc \in {"answered", "gaveup"}
  /\ \/ /\ Write(<<ResolvedEv(p, d)>>, state)
        /\ Goto(t, IF run[t].pc = "gaveup" THEN "tool" ELSE "resolved")
        /\ UNCHANGED spent
     \/ Fail /\ Goto(t, "tool") /\ UNCHANGED stored
  /\ UNCHANGED <<memory, up, closer, inbox, cancelTurn>>

\* The state is recorded as WORKING again.
Resume(t) ==
  /\ up /\ run[t].pc = "resolved"
  /\ \/ Write(<<Working>>, "WORKING") /\ UNCHANGED spent
     \/ Fail /\ UNCHANGED stored
  /\ Goto(t, "tool")
  /\ UNCHANGED <<memory, up, closer, inbox, cancelTurn>>

------------------------------------------------------------------------------
(* The end of a turn *)

\* Variant: a stuck turn leaves the queue alone.
AfterUnlessStuck(t) ==
  IF run[t].end = "interrupted" \/ Closing THEN "nothing"
  ELSE IF compactAsk /\ EndState(run[t].end) = "DONE" THEN "compaction"
  ELSE IF queue # <<>> /\ run[t].end # "stuck" THEN "turn"
  ELSE "nothing"

\* Variant: a turn that ends while flit shuts down starts the next.
AfterDespiteClose(t) ==
  IF run[t].end = "interrupted" THEN "nothing"
  ELSE IF compactAsk /\ EndState(run[t].end) = "DONE" THEN "compaction"
  ELSE IF queue # <<>> THEN "turn"
  ELSE "nothing"

\* What follows the end of run t: a compaction asked for too late in it, or the
\* queue, or nothing.
After(t) ==
  IF run[t].end = "interrupted" \/ Closing THEN "nothing"
  ELSE IF compactAsk /\ EndState(run[t].end) = "DONE" THEN "compaction"
  ELSE IF queue # <<>> THEN "turn"
  ELSE "nothing"

\* The events recorded after the end's.
AfterScript(t) ==
  CASE After(t) = "compaction" -> <<Compacting>>
    [] After(t) = "turn"       -> DeliverScript(queue) \o <<Working>>
    [] OTHER                   -> <<>>

EndTurn(t, u) ==
  LET e == run[t].end
      next == After(t)
  IN
  /\ up /\ run[t].pc = "ended"
  /\ compactAsk' = FALSE
  /\ Write(<<EndEv(e)>> \o AfterScript(t), IF next = "nothing" THEN EndState(e) ELSE "WORKING")
  /\ IF next = "nothing"
       THEN /\ cancelTurn' = None
            /\ run' = [run EXCEPT ![t] = IdleRun]
       ELSE /\ u = t \/ ~Live(u)
            /\ cancelTurn' = u
            /\ run' = [run EXCEPT ![t] = IdleRun, ![u] = NewRun(next)]
  /\ queue' = IF next = "turn" THEN <<>> ELSE queue
  /\ UNCHANGED <<up, closer, inbox, prompts, offer, answer, allowed, spent>>

\* The append after the first n fails: at 0 the end itself is not recorded.
EndTurnFails(t, n) ==
  LET e == run[t].end IN
  /\ up /\ run[t].pc = "ended"
  /\ n <= Len(AfterScript(t))
  /\ Fail
  /\ compactAsk' = FALSE
  /\ cancelTurn' = None
  /\ run' = [run EXCEPT ![t] = IdleRun]
  /\ Write(SubSeq(<<EndEv(e)>> \o AfterScript(t), 1, n),
           IF n = 0 THEN state ELSE EndState(e))
  /\ queue' = IF n > 0 /\ After(t) = "turn" THEN Popped(queue, n - 1) ELSE queue
  /\ UNCHANGED <<up, closer, inbox, prompts, offer, answer, allowed>>

------------------------------------------------------------------------------
(* The process *)

\* Manager.Close: the flag, then the interrupts, then the wait for the turns.
CloseFlag ==
  /\ up /\ closer = "open"
  /\ closer' = "flagged"
  /\ UNCHANGED <<stored, memory, up, inbox, cancelTurn, run, spent>>

CloseInterrupts ==
  /\ up /\ closer = "flagged"
  /\ closer' = "interrupted"
  /\ run' = IF cancelTurn = None THEN run ELSE [run EXCEPT ![cancelTurn].cancelled = TRUE]
  /\ UNCHANGED <<stored, memory, up, inbox, cancelTurn, spent>>

CloseReturns ==
  /\ up /\ closer = "interrupted" /\ LiveRuns = {}
  /\ closer' = "closed"
  /\ UNCHANGED <<stored, memory, up, inbox, cancelTurn, run, spent>>

\* Everything in memory is lost.
Lost ==
  /\ up' = FALSE
  /\ closer' = "open"
  /\ inbox' = {}
  /\ queue' = <<>>
  /\ compactAsk' = FALSE
  /\ prompts' = {}
  /\ allowed' = {}
  /\ answer' = [p \in Prompts |-> "none"]
  /\ cancelTurn' = None
  /\ run' = [t \in Runs |-> IdleRun]
  /\ UNCHANGED <<offer, spent>>

\* The process ends after Close.
Exit ==
  /\ up /\ closer = "closed"
  /\ Lost
  /\ UNCHANGED stored

\* The scripts a handler can be in the middle of, or about to start; an
\* append of one event is recorded or it is not.
InProgress ==
  {<<>>}
  \cup {SendScript(r) : r \in {x \in inbox : cancelTurn = None /\ Startable(x)}}
  \cup {DeliverScript(queue) :
          t \in {x \in Runs : run[x].pc = "boundary" /\ run[x].step \in 1 .. MaxSteps - 1}}
  \cup {<<EndEv(run[t].end)>> \o AfterScript(t) : t \in {x \in Runs : run[x].pc = "ended"}}

\* The state after the first n events of script s.
StateAfter(s, n) ==
  IF \E i \in 1 .. n : s[i].kind = "state"
    THEN s[CHOOSE i \in 1 .. n : /\ s[i].kind = "state"
                                 /\ \A j \in i + 1 .. n : s[j].kind # "state"].state
    ELSE state

Crash ==
  /\ up /\ spent.restarts < MaxRestarts
  /\ \E s \in InProgress : \E n \in 0 .. Len(s) :
        Write(SubSeq(s, 1, n), StateAfter(s, n))
  /\ Lost

\* Variant: the state the last process left is kept.
RestartUnmarked ==
  /\ ~up /\ spent.restarts < MaxRestarts
  /\ up' = TRUE
  /\ spent' = [spent EXCEPT !.restarts = @ + 1]
  /\ UNCHANGED stored
  /\ queue' = LoadQueue(log)
  /\ allowed' = LoadAllowed(log)
  /\ UNCHANGED <<closer, inbox, compactAsk, prompts, offer, answer, cancelTurn, run>>

\* NewManager: the session left mid-turn is marked stuck.  The queue and the
\* session's allowed patterns come back from the log.
Restart ==
  /\ ~up /\ spent.restarts < MaxRestarts
  /\ up' = TRUE
  /\ spent' = [spent EXCEPT !.restarts = @ + 1]
  /\ IF state \in Busy THEN Write(<<StateEv("STUCK", "restarted")>>, "STUCK")
     ELSE UNCHANGED stored
  /\ queue' = LoadQueue(log)
  /\ allowed' = LoadAllowed(log)
  /\ UNCHANGED <<closer, inbox, compactAsk, prompts, offer, answer, cancelTurn, run>>

------------------------------------------------------------------------------
Init ==
  /\ log = <<>> /\ state = "IDLE"
  /\ up = TRUE /\ closer = "open" /\ inbox = {}
  /\ queue = <<>> /\ compactAsk = FALSE
  /\ prompts = {} /\ allowed = {}
  /\ offer = [p \in Prompts |-> {}]
  /\ answer = [p \in Prompts |-> "none"]
  /\ cancelTurn = None
  /\ run = [t \in Runs |-> IdleRun]
  /\ spent = [sent |-> {}, asked |-> {}, edits |-> 0, compacts |-> 0, fails |-> 0,
              restarts |-> 0]

Client ==
  \/ \E m \in Msgs : \/ SendMessage(m) \/ Enqueue(m) \/ EnqueueFails(m)
                      \/ EditQueued(m) \/ CancelQueued(m)
  \/ SendEmpty \/ Compact \/ Refuse \/ CompactLater \/ Interrupt
  \/ \E r \in Msgs \cup {"nudge"} :
        \/ \E t \in Runs : SendStarts(r, t)
        \/ \E n \in 0 .. 2 * Len(queue) + 1 : SendFails(r, n)
  \/ \E t \in Runs : CompactNow(t)
  \/ \E p \in Prompts, d \in {"allow", "deny", "session"} : AnswerPrompt(p, d)

\* What the goroutine of run t does by itself.
Advance(t) ==
  \/ StepLimit(t) \/ Boundary(t) \/ Compacted(t)
  \/ \E k \in 0 .. MaxTools : Replied(t, k)
  \/ CallCancelled(t) \/ NextTool(t) \/ ToolsDone(t) \/ ToolDone(t)
  \/ \E p \in Prompts, pats \in SUBSET Patterns : Ask(t, p, pats)
  \/ Wait(t) \/ TakeAnswer(t) \/ GiveUp(t) \/ Resolve(t) \/ Resume(t)
  \/ \E u \in Runs : EndTurn(t, u)

Trouble(t) ==
  \/ Stuck(t)
  \/ \E n \in 0 .. 2 * Len(queue) : BoundaryFails(t, n)
  \/ \E n \in 0 .. 2 * Len(queue) + 1 : EndTurnFails(t, n)

Process == CloseFlag \/ CloseInterrupts \/ CloseReturns \/ Exit \/ Crash \/ Restart

Next == Client \/ (\E t \in Runs : Advance(t) \/ Trouble(t)) \/ Process

Spec == Init /\ [][Next]_vars
\* Goroutines go on as long as they can: model calls and tools end, by their
\* timeouts or because their context ends.  Clients owe nothing, and a crash
\* or a failing append is never due.
Fairness ==
  /\ \A t \in Runs : WF_vars(Advance(t))
  /\ WF_vars(CloseInterrupts) /\ WF_vars(CloseReturns)

FairSpec == Spec /\ Fairness

------------------------------------------------------------------------------
(* Properties *)

Pcs == {"idle", "boundary", "compact", "call", "tools", "tool", "asked", "waiting",
        "answered", "gaveup", "resolved", "ended"}
Ends == {"done", "interrupted", "stuck"}

RunRecord == [pc : Pcs, kind : {"turn", "compaction"}, step : 0 .. MaxSteps,
              left : 0 .. MaxTools, cancelled : BOOLEAN, end : Ends,
              prompt : Prompts \cup {None}]

\* Every variable has its type.
TypeOK ==
  /\ \A i \in DOMAIN log : log[i].kind \in {"state", "queued", "edited", "cancelled",
                                            "delivered", "user", "asked", "resolved"}
  /\ state \in States
  /\ up \in BOOLEAN
  /\ closer \in {"open", "flagged", "interrupted", "closed"}
  /\ inbox \subseteq Msgs \cup {"nudge", "compact"}
  /\ \A i \in DOMAIN queue : queue[i] \in [id : Msgs, edited : BOOLEAN]
  /\ compactAsk \in BOOLEAN
  /\ prompts \subseteq Prompts
  /\ offer \in [Prompts -> SUBSET Patterns]
  /\ answer \in [Prompts -> {"none", "allow", "deny", "session"}]
  /\ allowed \subseteq Patterns
  /\ cancelTurn \in Runs \cup {None}
  /\ run \in [Runs -> RunRecord]

At(kind)  == {i \in DOMAIN log : log[i].kind = kind}
Ids(kind) == {log[i].id : i \in At(kind)}

\* One turn at a time: the goroutine that lives is the one Interrupt would
\* cancel, and a compaction is only asked of a run that will look at the ask.
OneTurn ==
  /\ LiveRuns = {cancelTurn} \ {None}
  /\ compactAsk => cancelTurn # None

\* The recorded state says whether a turn runs; it outlives its turn only when
\* the turn's end could not be recorded (session.go:323, turn.go:71).
StateTracksTurn ==
  up => /\ LiveRuns # {} => state \in Busy
        /\ state \in Busy /\ LiveRuns = {} => spent.fails > 0

\* A restart would rebuild the queue there is, but for a message whose delivery
\* an append cut short: the process delivers that one again (queue.go:85).
QueueRebuilds ==
  up => \/ LoadQueue(log) = queue
        \/ spent.fails > 0 /\ queue # <<>> /\ LoadQueue(log) = Tail(queue)

\* A restart would allow the same patterns, but for an answer that is not
\* recorded yet or could not be; and it never allows more.
AllowedRebuilds ==
  up => /\ LoadAllowed(log) \subseteq allowed
        /\ \/ LoadAllowed(log) = allowed
           \/ spent.fails > 0
           \/ \E t \in Runs : run[t].pc = "answered"

\* A message is in the conversation at most once, and queued messages join it
\* in the order they were queued, however often deliveries fail.
DeliveredInOrder ==
  /\ \A i, j \in At("user") : log[i].id = log[j].id => i = j
  /\ \A i, j \in At("queued") : \A k, l \in At("user") :
       i < j /\ log[k].id = log[i].id /\ log[l].id = log[j].id => k < l

\* Queued messages that are neither waiting, nor withdrawn, nor delivered.
LostMsgs == Ids("queued") \ (Queued \cup Ids("cancelled") \cup Ids("user"))

\* A queued message never just disappears: each death of the process loses one
\* at most, the one whose delivery it cut short.
NothingLost == up => Cardinality(LostMsgs) <= spent.restarts

\* A turn that waits for an answer can get one: its prompt is in the log, can
\* be answered or has been, and the session shows as waiting.
WaitsAreAnswerable ==
  \A t \in Runs :
    run[t].pc = "waiting" =>
      LET p == run[t].prompt IN
      /\ state = "WAITING"
      /\ p \in Ids("asked") \ Ids("resolved")
      /\ p \in prompts \/ answer[p] # "none"

\* A prompt is resolved at most once, and only a live turn, a failed append or
\* the death of the process leaves one open.
PromptsSettled ==
  /\ \A i, j \in At("resolved") : log[i].id = log[j].id => i = j
  /\ up => Cardinality(Ids("asked") \ Ids("resolved"))
             <= Cardinality(LiveRuns) + spent.fails + spent.restarts

LastWhy ==
  IF At("state") = {} THEN "none"
  ELSE log[CHOOSE i \in At("state") : \A j \in At("state") : j <= i].why

\* Messages wait on an idle session only after an interrupted turn, a restart,
\* Close or a failed append: any other end of a turn starts the next.
NoStrandedQueue ==
  up /\ LiveRuns = {} /\ queue # <<>> =>
    \/ LastWhy \in {"interrupted", "restarted"}
    \/ Closing \/ spent.fails > 0 \/ spent.restarts > 0

\* A run that goroutine t begins in this step.
Begins(t) == /\ run'[t] \in {NewRun("turn"), NewRun("compaction")}
             /\ run[t] # run'[t]

\* A turn recorded as interrupted starts nothing and keeps the queue; once
\* Close has begun only requests already let in start a turn.
InterruptedStartsNothing ==
  [][\A t \in Runs :
       /\ (run[t].pc = "ended" /\ run[t].end = "interrupted" /\ up' /\ cancelTurn' # cancelTurn)
            => queue' = queue /\ ~\E u \in Runs : Begins(u)
       /\ Closing /\ Begins(t) => inbox' # inbox]_vars

\* An interrupted turn ends, wherever the interrupt finds it.
InterruptEnds ==
  \A t \in Runs : (Live(t) /\ run[t].cancelled) ~> ~(Live(t) /\ run[t].cancelled)

\* A queued message leaves the queue, unless its turn waits for an answer or no
\* turn runs any more.
QueueMoves ==
  \A m \in Msgs :
    m \in Queued ~> \/ m \notin Queued
                    \/ LiveRuns = {}
                    \/ \E t \in Runs : run[t].pc = "waiting"

\* Close returns, unless a turn that it did not interrupt waits for an answer.
CloseEnds ==
  closer = "flagged" ~> \/ closer = "closed" \/ ~up
                        \/ \E t \in Runs : run[t].pc = "waiting" /\ ~run[t].cancelled

------------------------------------------------------------------------------
(* What the code's documents say, and the code does not do *)

\* "Messages still queued when a turn is interrupted wait for the next Send"
\* (session.proto:38): a run whose context was cancelled leaves the queue alone.
InterruptKeepsQueue ==
  [][\A t \in Runs :
       run[t].pc = "ended" /\ run[t].cancelled /\ up' /\ run'[t] # run[t]
         => queue' = queue]_vars

\* "Close interrupts all running turns and waits for them to stop"
\* (manager.go:119).
CloseInterruptsAll ==
  closer \in {"interrupted", "closed"} => \A t \in LiveRuns : run[t].cancelled

\* A queued message is delivered as the user message whose start follows
\* (session.proto:980), also across a restart.
DeliveredMeansRecorded ==
  up /\ LiveRuns = {} => Ids("delivered") \subseteq Ids("user") \cup Queued
==============================================================================
