--------------------------- MODULE SessionProofs ----------------------------
(***************************************************************************)
(* What Session keeps for every set of messages, prompts and goroutines    *)
(* and every bound: one turn at a time, a recorded state that says whether *)
(* there is one, the types of all it stores and remembers, and prompts     *)
(* that are settled once and never leave a turn waiting for an answer that *)
(* cannot come.                                                            *)
(*                                                                         *)
(* One turn and its state rest on cancelTurn: under the lock it names the  *)
(* one goroutine that lives.  A goroutine's own fields come in because     *)
(* what starts a run must be told from what a run does later (a turn that  *)
(* begins is at its first step boundary), and because the process being    *)
(* down means that no goroutine is left.                                   *)
(*                                                                         *)
(* loadQueue is a recursive function over the log.  That there is such a   *)
(* function, and that there is only one, is proved from the order of the   *)
(* natural numbers: were there a prefix without it, there would be a least *)
(* one.                                                                    *)
(***************************************************************************)
EXTENDS Session, SequenceTheorems, FiniteSetTheorems, TLAPS

------------------------------------------------------------------------------
(* One turn *)

SpentRecord == [sent : SUBSET Msgs, asked : SUBSET Prompts, edits : Nat,
                compacts : Nat, fails : Nat, restarts : Nat]

\* The goroutine is inside a tool call.
InTool == {"tool", "asked", "waiting", "answered", "gaveup", "resolved"}

\* Where the goroutine r is agrees with its kind and its counts.
RunOK(r) ==
  /\ r \in RunRecord
  /\ r.pc \in {"call", "tools"} \cup InTool => r.step < MaxSteps
  /\ r.pc = "compact" /\ r.kind = "turn" => r.step < MaxSteps
  /\ r.pc \in InTool => r.left >= 1
  /\ r.pc \in {"boundary", "call", "tools"} \cup InTool => r.kind = "turn"

TypeInv ==
  /\ run \in [Runs -> RunRecord]
  /\ cancelTurn \in Runs \cup {None}
  /\ up \in BOOLEAN /\ compactAsk \in BOOLEAN
  /\ spent \in SpentRecord
  /\ \A t \in Runs : RunOK(run[t])

\* What the goroutine of run t does before the end of its turn.
TurnStepOf(t) ==
  \/ StepLimit(t) \/ Boundary(t) \/ Compacted(t) \/ CallCancelled(t)
  \/ NextTool(t) \/ ToolsDone(t) \/ ToolDone(t) \/ Stuck(t)
  \/ \E k \in 0 .. MaxTools : Replied(t, k)
  \/ \E n \in Nat : BoundaryFails(t, n)
  \/ \E p \in Prompts, pats \in SUBSET Patterns : Ask(t, p, pats)
  \/ Wait(t) \/ TakeAnswer(t) \/ GiveUp(t) \/ Resolve(t) \/ Resume(t)

Inv == /\ TypeInv /\ OneTurn /\ StateTracksTurn
       /\ ~up => cancelTurn = None

------------------------------------------------------------------------------
(* Lemmas *)

\* The runs started are well formed.
LEMMA NewRuns ==
  /\ RunOK(IdleRun) /\ IdleRun.pc = "idle"
  /\ \A k \in {"turn", "compaction"} :
       RunOK(NewRun(k)) /\ NewRun(k).pc \in {"boundary", "compact"}
  <1>. USE DEF RunOK, RunRecord, IdleRun, Pcs, Ends, InTool
  <1>1. MaxSteps \in Nat \ {0} /\ MaxTools \in Nat /\ 0 \in 0 .. MaxSteps /\ 0 \in 0 .. MaxTools
    BY SessionAssumption
  <1>2. RunOK(IdleRun) /\ IdleRun.pc = "idle"
    BY <1>1
  <1>3. ASSUME NEW k \in {"turn", "compaction"}
        PROVE  RunOK(NewRun(k)) /\ NewRun(k).pc \in {"boundary", "compact"}
    <2>. DEFINE b == IF k = "turn" THEN "boundary" ELSE "compact"
                r == [IdleRun EXCEPT !.kind = k, !.pc = b]
    <2>1. NewRun(k) = r
      BY DEF NewRun
    <2>2. b \in {"boundary", "compact"} /\ (b = "boundary" <=> k = "turn")
      OBVIOUS
    <2>. HIDE DEF b
    <2>3. /\ r \in RunRecord /\ r.pc = b /\ r.kind = k /\ r.step = 0 /\ r.left = 0
      BY <1>1, <2>2
    <2>4. 0 < MaxSteps
      BY <1>1
    <2>. HIDE DEF r
    <2>. QED
      BY <2>1, <2>2, <2>3, <2>4
  <1>. QED
    BY <1>2, <1>3

\* A run that has ended is well formed, whatever it was doing.
LEMMA EndedRun ==
  ASSUME NEW r \in RunRecord, NEW e \in Ends
  PROVE  RunOK([r EXCEPT !.pc = "ended", !.end = e]) /\ [r EXCEPT !.pc = "ended", !.end = e].pc = "ended"
  <1>. DEFINE m == [r EXCEPT !.pc = "ended", !.end = e]
  <1>1. m \in RunRecord /\ m.pc = "ended"
    BY DEF RunRecord, Pcs
  <1>. HIDE DEF m
  <1>2. RunOK(m) /\ m.pc = "ended"
    BY <1>1 DEF RunOK, InTool
  <1>. QED
    BY <1>2 DEF m

\* The goroutine that lives is the one cancelTurn names.
LEMMA LiveIsCurrent ==
  ASSUME Inv, NEW t \in Runs, Live(t)
  PROVE  cancelTurn = t /\ up /\ LiveRuns = {t} /\ \A u \in Runs : Live(u) => u = t
  BY SessionAssumption DEF Inv, TypeInv, OneTurn, LiveRuns

\* A goroutine goes on: it stays the only one, and the state stays busy.
LEMMA GoesOn ==
  ASSUME Inv, NEW t \in Runs, Live(t), NEW r, run' = [run EXCEPT ![t] = r],
         RunOK(r), r.pc # "idle", up' = up, cancelTurn' = cancelTurn,
         compactAsk' \in BOOLEAN, state' \in Busy, spent' \in SpentRecord
  PROVE  Inv'
  <1>1. cancelTurn = t /\ up /\ \A u \in Runs : Live(u) => u = t
    BY LiveIsCurrent
  <1>2. run' \in [Runs -> RunRecord] /\ run'[t] = r /\ \A u \in Runs \ {t} : run'[u] = run[u]
    BY DEF Inv, TypeInv, RunOK
  <1>3. TypeInv'
    BY <1>2 DEF Inv, TypeInv, Busy, States
  <1>4. LiveRuns' = {t} /\ t # None
    BY <1>1, <1>2, SessionAssumption DEF LiveRuns, Live
  <1>5. OneTurn' /\ StateTracksTurn'
    BY <1>1, <1>4 DEF OneTurn, StateTracksTurn
  <1>. QED
    BY <1>1, <1>3, <1>5 DEF Inv

\* A step that leaves the goroutines, the state and the process alone.
LEMMA Aside ==
  ASSUME Inv, UNCHANGED <<state, up, run, cancelTurn>>,
         compactAsk' \in BOOLEAN, compactAsk' => cancelTurn # None,
         spent' \in SpentRecord, spent'.fails >= spent.fails
  PROVE  Inv'
  <1>1. TypeInv'
    BY DEF Inv, TypeInv
  <1>2. LiveRuns' = LiveRuns
    BY DEF LiveRuns, Live
  <1>3. OneTurn'
    BY <1>2 DEF Inv, OneTurn
  <1>4. StateTracksTurn'
    <2>1. spent.fails \in Nat /\ spent'.fails \in Nat
      BY DEF Inv, TypeInv, SpentRecord
    <2>. QED
      BY <1>2, <2>1 DEF Inv, StateTracksTurn
  <1>. QED
    BY <1>1, <1>3, <1>4 DEF Inv

\* A goroutine starts where none lives.
LEMMA Begun ==
  ASSUME Inv, up, cancelTurn = None, NEW t \in Runs, NEW k \in {"turn", "compaction"},
         Start(t, k), up' = up, state' = "WORKING",
         compactAsk' \in BOOLEAN, spent' \in SpentRecord
  PROVE  Inv'
  <1>1. \A u \in Runs : ~Live(u)
    BY DEF Inv, OneTurn, LiveRuns
  <1>2. /\ run' = [run EXCEPT ![t] = NewRun(k)] /\ cancelTurn' = t /\ t # None
        /\ RunOK(NewRun(k)) /\ NewRun(k).pc # "idle"
    BY NewRuns, SessionAssumption DEF Start
  <1>3. run' \in [Runs -> RunRecord] /\ run'[t] = NewRun(k)
        /\ \A u \in Runs \ {t} : run'[u] = run[u]
    BY <1>2 DEF Inv, TypeInv, RunOK
  <1>4. TypeInv'
    BY <1>2, <1>3 DEF Inv, TypeInv, States
  <1>5. LiveRuns' = {t}
    BY <1>1, <1>2, <1>3 DEF LiveRuns, Live
  <1>. QED
    BY <1>2, <1>4, <1>5 DEF Inv, OneTurn, StateTracksTurn, Busy

------------------------------------------------------------------------------
(* The invariant *)

\* Everything starts idle.
LEMMA InvInit == Init => Inv
  <1>. SUFFICES ASSUME Init PROVE Inv
    OBVIOUS
  <1>1. TypeInv
    <2>1. /\ \A t \in Runs : RunOK(run[t])
          /\ run \in [Runs -> RunRecord]
      BY NewRuns DEF Init, RunOK
    <2>. QED
      BY <2>1 DEF Init, TypeInv, States, SpentRecord
  <1>2. LiveRuns = {}
    BY NewRuns DEF Init, LiveRuns, Live
  <1>. QED
    BY <1>1, <1>2 DEF Init, Inv, OneTurn, StateTracksTurn, Busy

\* What the clients do: requests, queue, answers and interrupts.
LEMMA ClientStep ==
  ASSUME Inv, Client
  PROVE  Inv'
  <1>. USE DEF stored, memory
  <1>1. TypeInv /\ spent.fails \in Nat
    BY DEF Inv, TypeInv, SpentRecord
  <1>2. compactAsk => cancelTurn # None
    BY DEF Inv, OneTurn
  <1>11. ASSUME NEW m \in Msgs, EnqueueFails(m)
         PROVE  Inv'
    <2>1. UNCHANGED <<state, up, run, cancelTurn, compactAsk>>
      BY <1>11 DEF EnqueueFails
    <2>2. spent' \in SpentRecord /\ spent'.fails >= spent.fails
      BY <1>1, <1>11 DEF EnqueueFails, Fail, TypeInv, SpentRecord
    <2>. QED
      BY <1>1, <1>2, <2>1, <2>2, Aside DEF TypeInv
  <1>3. ASSUME NEW m \in Msgs, SendMessage(m) \/ Enqueue(m) \/ EditQueued(m) \/ CancelQueued(m)
        PROVE  Inv'
    <2>1. UNCHANGED <<state, up, run, cancelTurn, compactAsk>>
      BY <1>3 DEF SendMessage, Enqueue, EditQueued, CancelQueued, Write
    <2>2. spent' \in SpentRecord /\ spent'.fails = spent.fails
      BY <1>1, <1>3
      DEF SendMessage, Enqueue, EditQueued, CancelQueued, TypeInv, SpentRecord
    <2>. QED
      BY <1>1, <1>2, <2>1, <2>2, Aside DEF TypeInv
  <1>4. ASSUME SendEmpty \/ Compact \/ Refuse \/ CompactLater
        PROVE  Inv'
    <2>1. UNCHANGED <<state, up, run, cancelTurn>>
      BY <1>4 DEF SendEmpty, Compact, Refuse, CompactLater
    <2>4. compactAsk' \in BOOLEAN /\ (compactAsk' => cancelTurn # None)
      <3>1. CASE SendEmpty \/ Compact \/ Refuse
        <4>1. compactAsk' = compactAsk
          BY <3>1 DEF SendEmpty, Compact, Refuse
        <4>. QED
          BY <1>1, <1>2, <4>1 DEF TypeInv
      <3>2. CASE CompactLater
        BY <3>2 DEF CompactLater
      <3>. QED
        BY <1>4, <3>1, <3>2
    <2>2. spent' \in SpentRecord /\ spent'.fails = spent.fails
      BY <1>1, <1>4 DEF SendEmpty, Compact, Refuse, CompactLater, TypeInv, SpentRecord
    <2>. QED
      BY <2>1, <2>2, <2>4, <1>1, Aside
  <1>5. ASSUME Interrupt
        PROVE  Inv'
    <2>1. cancelTurn \in Runs /\ Live(cancelTurn)
      BY <1>1, <1>5 DEF Interrupt, TypeInv, Inv, OneTurn, LiveRuns
    <2>. DEFINE r == [run[cancelTurn] EXCEPT !.cancelled = TRUE]
    <2>2. RunOK(r) /\ r.pc # "idle" /\ run' = [run EXCEPT ![cancelTurn] = r]
      BY <1>1, <1>5, <2>1 DEF Interrupt, TypeInv, RunOK, RunRecord, Live
    <2>3. state' \in Busy /\ spent' \in SpentRecord /\ compactAsk' \in BOOLEAN
      BY <1>1, <1>5, <2>1 DEF Interrupt, TypeInv, Inv, StateTracksTurn, LiveRuns
    <2>. QED
      BY <1>5, <2>1, <2>2, <2>3, GoesOn DEF Interrupt
  <1>6. ASSUME NEW r \in Msgs \cup {"nudge"}, NEW t \in Runs, SendStarts(r, t)
        PROVE  Inv'
    <2>1. /\ up /\ cancelTurn = None /\ Start(t, "turn") /\ up' = up /\ state' = "WORKING"
          /\ compactAsk' \in BOOLEAN /\ spent' \in SpentRecord
      BY <1>1, <1>6 DEF SendStarts, Write, TypeInv
    <2>. QED
      BY <2>1, Begun
  <1>7. ASSUME NEW r, NEW n \in Nat, SendFails(r, n)
        PROVE  Inv'
    <2>1. UNCHANGED <<state, up, run, cancelTurn, compactAsk>>
      BY <1>7 DEF SendFails, Write
    <2>2. spent' \in SpentRecord /\ spent'.fails >= spent.fails
      BY <1>1, <1>7 DEF SendFails, Fail, TypeInv, SpentRecord
    <2>. QED
      BY <1>1, <1>2, <2>1, <2>2, Aside DEF TypeInv
  <1>8. ASSUME NEW t \in Runs, CompactNow(t)
        PROVE  Inv'
    <2>. USE DEF CompactNow
    <2>1. /\ up /\ cancelTurn = None /\ up' = up /\ compactAsk' = compactAsk
          /\ compactAsk \in BOOLEAN /\ spent' = spent /\ spent \in SpentRecord
      BY <1>1, <1>8 DEF TypeInv
    <2>2. CASE UNCHANGED <<log, state, cancelTurn, run>>
      BY <1>1, <1>2, <2>1, <2>2, Aside
    <2>3. CASE Write(<<Compacting>>, "WORKING") /\ Start(t, "compaction")
      <3>1. state' = "WORKING"
        BY <2>3 DEF Write
      <3>. QED
        BY <2>1, <2>3, <3>1, Begun
    <2>. QED
      BY <1>8, <2>2, <2>3
  <1>9. ASSUME NEW p \in Prompts, NEW d, AnswerPrompt(p, d)
        PROVE  Inv'
    BY <1>1, <1>2, <1>9, Aside DEF AnswerPrompt, TypeInv
  <1>10. \A n \in 0 .. 2 * Len(queue) + 1 : n \in Nat
    OBVIOUS
  <1>. QED
    BY <1>3, <1>4, <1>5, <1>6, <1>7, <1>8, <1>9, <1>10, <1>11 DEF Client

\* What a turn or compaction does before it ends.
LEMMA TurnStep ==
  ASSUME Inv, NEW t \in Runs, TurnStepOf(t)
  PROVE  Inv'
  <1>. USE DEF stored, memory, Goto, EndWith, Write, Fail, TurnStepOf
  <1>1. /\ run[t] \in RunRecord /\ RunOK(run[t]) /\ run \in [Runs -> RunRecord]
        /\ spent \in SpentRecord /\ compactAsk \in BOOLEAN
        /\ MaxSteps \in Nat /\ MaxTools \in Nat
    BY SessionAssumption DEF Inv, TypeInv
  <1>2. Live(t)
    BY DEF Live, StepLimit, Boundary, Compacted, CallCancelled, NextTool, ToolsDone, ToolDone,
           Stuck, Replied, BoundaryFails, Ask, Wait, TakeAnswer, GiveUp, Resolve, Resume
  <1>3. state \in Busy
    BY <1>2, LiveIsCurrent DEF Inv, StateTracksTurn
  <1>4. /\ up' = up /\ cancelTurn' = cancelTurn
        /\ compactAsk' = compactAsk \/ compactAsk' = FALSE
        /\ state' = state \/ state' = "WORKING" \/ state' = "WAITING"
    BY DEF StepLimit, Boundary, Compacted, CallCancelled, NextTool, ToolsDone, ToolDone,
           Stuck, Replied, BoundaryFails, Ask, Wait, TakeAnswer, GiveUp, Resolve, Resume
  <1>8. compactAsk' \in BOOLEAN /\ state' \in Busy
    BY <1>1, <1>3, <1>4 DEF Busy
  <1>5. spent' \in SpentRecord
    <2>1. CASE spent' = spent
      BY <1>1, <2>1
    <2>2. CASE spent' = [spent EXCEPT !.fails = @ + 1]
      BY <1>1, <2>2 DEF SpentRecord
    <2>3. ASSUME NEW p \in Prompts, spent' = [spent EXCEPT !.asked = @ \cup {p}]
          PROVE  spent' \in SpentRecord
      BY <1>1, <2>3 DEF SpentRecord
    <2>4. ASSUME NEW p \in Prompts,
                 spent' = [spent EXCEPT !.asked = @ \cup {p}, !.fails = @ + 1]
          PROVE  spent' \in SpentRecord
      <3>1. spent.asked \cup {p} \in SUBSET Prompts /\ spent.fails + 1 \in Nat
        BY <1>1 DEF SpentRecord
      <3>. DEFINE a == spent.asked \cup {p}
                  f == spent.fails + 1
      <3>2. spent' = [spent EXCEPT !.asked = a, !.fails = f]
        BY <2>4
      <3>3. a \in SUBSET Prompts /\ f \in Nat
        BY <3>1
      <3>4. spent \in SpentRecord
        BY <1>1
      <3>. HIDE DEF a, f
      <3>. QED
        BY <3>2, <3>3, <3>4 DEF SpentRecord
    <2>5. \/ spent' = spent
          \/ spent' = [spent EXCEPT !.fails = @ + 1]
          \/ \E p \in Prompts : \/ spent' = [spent EXCEPT !.asked = @ \cup {p}]
                                \/ spent' = [spent EXCEPT !.asked = @ \cup {p}, !.fails = @ + 1]
      BY DEF StepLimit, Boundary, Compacted, CallCancelled, NextTool, ToolsDone, ToolDone,
             Stuck, Replied, BoundaryFails, Ask, Wait, TakeAnswer, GiveUp, Resolve, Resume
    <2>. QED
      BY <2>1, <2>2, <2>3, <2>4, <2>5
  <1>6. run' = [run EXCEPT ![t] = run'[t]]
    BY <1>1
    DEF StepLimit, Boundary, Compacted, CallCancelled, NextTool, ToolsDone, ToolDone,
        Stuck, Replied, BoundaryFails, Ask, Wait, TakeAnswer, GiveUp, Resolve, Resume
  <1>7. RunOK(run'[t]) /\ run'[t].pc # "idle"
    <2>. DEFINE r == run[t]
    <2>1. /\ r \in RunRecord /\ r.step \in 0 .. MaxSteps /\ r.left \in 0 .. MaxTools
          /\ r.cancelled \in BOOLEAN /\ r.kind \in {"turn", "compaction"}
      BY <1>1 DEF RunRecord
    \* A move within the turn that only changes the goroutine's place.
    <2>2. ASSUME NEW p \in Pcs \ {"idle"}, run' = [run EXCEPT ![t].pc = p],
                 p \in {"call", "tools"} \cup InTool => r.step < MaxSteps,
                 p = "compact" /\ r.kind = "turn" => r.step < MaxSteps,
                 p \in InTool => r.left >= 1,
                 p \in {"boundary", "call", "tools"} \cup InTool => r.kind = "turn"
          PROVE  RunOK(run'[t]) /\ run'[t].pc # "idle"
      <3>. DEFINE m == [r EXCEPT !.pc = p]
      <3>1. run'[t] = m
        BY <1>1, <2>2
      <3>2. m \in RunRecord /\ m.pc = p /\ m.kind = r.kind /\ m.step = r.step /\ m.left = r.left
        BY <2>1 DEF RunRecord
      <3>. HIDE DEF m
      <3>3. RunOK(m) /\ m.pc # "idle"
        BY <2>2, <3>2 DEF RunOK
      <3>. QED
        BY <3>1, <3>3
    <2>3. ASSUME NEW e \in Ends, run' = [run EXCEPT ![t].pc = "ended", ![t].end = e]
          PROVE  RunOK(run'[t]) /\ run'[t].pc # "idle"
      <3>1. run'[t] = [r EXCEPT !.pc = "ended", !.end = e]
        BY <1>1, <2>3
      <3>. HIDE DEF r
      <3>2. /\ RunOK([r EXCEPT !.pc = "ended", !.end = e])
            /\ [r EXCEPT !.pc = "ended", !.end = e].pc = "ended"
        BY <2>1, EndedRun
      <3>. QED
        BY <3>1, <3>2
    <2>4. CASE StepLimit(t) \/ CallCancelled(t) \/ Stuck(t) \/ \E n \in Nat : BoundaryFails(t, n)
      <3>1. \E e \in Ends : run' = [run EXCEPT ![t].pc = "ended", ![t].end = e]
        BY <2>4 DEF StepLimit, CallCancelled, Stuck, BoundaryFails, Ends
      <3>. QED
        BY <2>3, <3>1
    <2>5. CASE Boundary(t)
      <3>1. r.pc = "boundary" /\ r.step < MaxSteps /\ r.kind = "turn"
        BY <1>1, <2>5 DEF Boundary, RunOK
      <3>2. \E p \in {"compact", "call"} : run' = [run EXCEPT ![t].pc = p]
        BY <2>5 DEF Boundary
      <3>. QED
        BY <2>2, <3>1, <3>2 DEF Pcs, InTool
    <2>6. CASE Compacted(t)
      <3>1. CASE r.kind = "turn" /\ ~r.cancelled
        <4>1. run' = [run EXCEPT ![t].pc = "call"] /\ r.pc = "compact" /\ r.step < MaxSteps
          BY <1>1, <2>6, <3>1 DEF Compacted, RunOK
        <4>. QED
          BY <2>2, <3>1, <4>1 DEF Pcs, InTool
      <3>2. CASE ~(r.kind = "turn" /\ ~r.cancelled)
        <4>1. \E e \in Ends : run' = [run EXCEPT ![t].pc = "ended", ![t].end = e]
          BY <2>6, <3>2 DEF Compacted, Ends
        <4>. QED
          BY <2>3, <4>1
      <3>. QED
        BY <3>1, <3>2
    <2>7. ASSUME NEW k \in 0 .. MaxTools, Replied(t, k)
          PROVE  RunOK(run'[t]) /\ run'[t].pc # "idle"
      <3>1. CASE k = 0
        <4>1. run' = [run EXCEPT ![t].pc = "ended", ![t].end = "done"] /\ "done" \in Ends
          BY <2>7, <3>1 DEF Replied, Ends
        <4>. QED
          BY <2>3, <4>1
      <3>2. CASE k # 0
        <4>. DEFINE m == [r EXCEPT !.pc = "tools", !.left = k]
        <4>1. run'[t] = m /\ r.pc = "call" /\ r.step < MaxSteps /\ r.kind = "turn"
          BY <1>1, <2>7, <3>2 DEF Replied, RunOK
        <4>2. m \in RunRecord /\ m.pc = "tools" /\ m.kind = r.kind /\ m.step = r.step
          BY <2>1 DEF RunRecord, Pcs
        <4>. HIDE DEF m
        <4>3. RunOK(m) /\ m.pc # "idle"
          BY <4>1, <4>2 DEF RunOK, InTool
        <4>. QED
          BY <4>1, <4>3
      <3>. QED
        BY <3>1, <3>2
    <2>8. CASE NextTool(t)
      <3>1. r.pc = "tools" /\ r.left > 0 /\ r.left - 1 \in 0 .. MaxTools
            /\ r.step < MaxSteps /\ r.kind = "turn"
        BY <1>1, <2>1, <2>8 DEF NextTool, RunOK
      <3>. DEFINE l == IF r.cancelled THEN r.left - 1 ELSE r.left
                  p == IF r.cancelled THEN "tools" ELSE "tool"
                  m == [r EXCEPT !.pc = p, !.left = l]
      <3>2. run'[t] = m
        BY <1>1, <2>8 DEF NextTool
      <3>6. (l = r.left - 1 /\ p = "tools") \/ (l = r.left /\ p = "tool")
        OBVIOUS
      <3>. HIDE DEF l, p
      <3>3. l \in 0 .. MaxTools /\ (p = "tools" \/ (p = "tool" /\ l >= 1))
        BY <1>1, <2>1, <3>1, <3>6
      <3>4. m \in RunRecord /\ m.pc = p /\ m.kind = r.kind /\ m.step = r.step /\ m.left = l
        BY <2>1, <3>3 DEF RunRecord, Pcs
      <3>. HIDE DEF m
      <3>5. RunOK(m) /\ m.pc # "idle"
        BY <3>1, <3>3, <3>4 DEF RunOK, InTool
      <3>. QED
        BY <3>2, <3>5
    <2>9. CASE ToolsDone(t)
      <3>1. CASE r.cancelled
        <4>1. run' = [run EXCEPT ![t].pc = "ended", ![t].end = "interrupted"]
              /\ "interrupted" \in Ends
          BY <2>9, <3>1 DEF ToolsDone, Ends
        <4>. QED
          BY <2>3, <4>1
      <3>2. CASE ~r.cancelled
        <4>. DEFINE m == [r EXCEPT !.pc = "boundary", !.step = r.step + 1]
        <4>1. run'[t] = m /\ r.pc = "tools" /\ r.step < MaxSteps /\ r.kind = "turn"
          BY <1>1, <2>9, <3>2 DEF ToolsDone, RunOK
        <4>2. r.step + 1 \in 0 .. MaxSteps
          BY <1>1, <2>1, <4>1
        <4>3. m \in RunRecord /\ m.pc = "boundary" /\ m.kind = r.kind
          BY <2>1, <4>2 DEF RunRecord, Pcs
        <4>. HIDE DEF m
        <4>4. RunOK(m) /\ m.pc # "idle"
          BY <4>1, <4>3 DEF RunOK, InTool
        <4>. QED
          BY <4>1, <4>4
      <3>. QED
        BY <3>1, <3>2
    <2>10. CASE ToolDone(t)
      <3>. DEFINE m == [r EXCEPT !.pc = "tools", !.left = r.left - 1]
      <3>1. run'[t] = m /\ r.pc = "tool" /\ r.left >= 1 /\ r.step < MaxSteps /\ r.kind = "turn"
        BY <1>1, <2>10 DEF ToolDone, RunOK, InTool
      <3>2. r.left - 1 \in 0 .. MaxTools
        BY <1>1, <2>1, <3>1
      <3>3. m \in RunRecord /\ m.pc = "tools" /\ m.kind = r.kind /\ m.step = r.step
        BY <2>1, <3>2 DEF RunRecord, Pcs
      <3>. HIDE DEF m
      <3>4. RunOK(m) /\ m.pc # "idle"
        BY <3>1, <3>3 DEF RunOK, InTool
      <3>. QED
        BY <3>1, <3>4
    <2>11. ASSUME NEW p \in Prompts, NEW pats \in SUBSET Patterns, Ask(t, p, pats)
           PROVE  RunOK(run'[t]) /\ run'[t].pc # "idle"
      <3>1. r.pc = "tool"
        BY <2>11 DEF Ask
      <3>2. CASE run' = run
        BY <1>1, <3>1, <3>2
      <3>3. CASE run' = [run EXCEPT ![t].pc = "asked", ![t].prompt = p]
        <4>. DEFINE m == [r EXCEPT !.pc = "asked", !.prompt = p]
        <4>1. run'[t] = m
          BY <1>1, <3>3
        <4>2. /\ m \in RunRecord /\ m.pc = "asked" /\ m.kind = r.kind
              /\ m.step = r.step /\ m.left = r.left
          BY <1>1 DEF RunRecord, Pcs
        <4>. HIDE DEF m
        <4>3. RunOK(m) /\ m.pc # "idle"
          BY <1>1, <3>1, <4>2 DEF RunOK, InTool
        <4>. QED
          BY <4>1, <4>3
      <3>. QED
        BY <2>11, <3>2, <3>3 DEF Ask
    <2>12. CASE Wait(t) \/ TakeAnswer(t) \/ GiveUp(t) \/ Resolve(t) \/ Resume(t)
      <3>1. r.pc \in {"asked", "waiting", "answered", "gaveup", "resolved"}
        BY <2>12 DEF Wait, TakeAnswer, GiveUp, Resolve, Resume
      <3>2. \E p \in {"waiting", "tool", "answered", "gaveup", "resolved"} :
              run' = [run EXCEPT ![t].pc = p]
        BY <2>12 DEF Wait, TakeAnswer, GiveUp, Resolve, Resume
      <3>3. r.step < MaxSteps /\ r.left >= 1 /\ r.kind = "turn"
        BY <1>1, <3>1 DEF RunOK, InTool
      <3>. HIDE DEF r
      <3>. QED
        BY <2>2, <3>2, <3>3 DEF Pcs, InTool
    <2>. QED
      BY <2>4, <2>5, <2>6, <2>7, <2>8, <2>9, <2>10, <2>11, <2>12
  <1>. QED
    BY <1>2, <1>4, <1>5, <1>6, <1>7, <1>8, GoesOn
\* The goroutine t ends and none follows it.
LEMMA Over ==
  ASSUME Inv, NEW t \in Runs, Live(t), run' = [run EXCEPT ![t] = IdleRun],
         cancelTurn' = None, up' = up, compactAsk' = FALSE, spent' \in SpentRecord,
         state' \in Busy => spent'.fails > 0
  PROVE  Inv'
  <1>1. \A u \in Runs : Live(u) => u = t
    BY LiveIsCurrent
  <1>2. /\ run' \in [Runs -> RunRecord] /\ run'[t] = IdleRun
        /\ \A u \in Runs \ {t} : run'[u] = run[u]
    BY NewRuns DEF Inv, TypeInv, RunOK
  <1>3. TypeInv'
    BY <1>2, NewRuns DEF Inv, TypeInv
  <1>4. LiveRuns' = {}
    BY <1>1, <1>2, NewRuns DEF LiveRuns, Live
  <1>. QED
    BY <1>3, <1>4 DEF Inv, OneTurn, StateTracksTurn

\* The end of a turn, and what it starts.
LEMMA EndStep ==
  ASSUME Inv, NEW t \in Runs,
         \/ \E u \in Runs : EndTurn(t, u)
         \/ \E n \in Nat : EndTurnFails(t, n)
  PROVE  Inv'
  <1>1. TypeInv /\ spent \in SpentRecord /\ spent.fails \in Nat
    BY DEF Inv, TypeInv, SpentRecord
  <1>2. Live(t) /\ up /\ run[t].end \in Ends
    BY <1>1 DEF Live, EndTurn, EndTurnFails, TypeInv, RunRecord
  <1>3. \A e : EndState(e) \notin Busy
    BY DEF EndState, Busy
  <1>4. ASSUME NEW u \in Runs, EndTurn(t, u)
        PROVE  Inv'
    <2>. USE DEF EndTurn
    <2>1. up' = up /\ spent' = spent /\ compactAsk' = FALSE
      BY <1>4
    <2>2. CASE After(t) = "nothing"
      <3>1. state' \notin Busy /\ run' = [run EXCEPT ![t] = IdleRun] /\ cancelTurn' = None
        BY <1>3, <1>4, <2>2 DEF Write
      <3>. QED
        BY <1>1, <1>2, <2>1, <3>1, Over
    <2>3. CASE After(t) # "nothing"
      <3>1. After(t) \in {"turn", "compaction"}
        BY <2>3 DEF After
      <3>. DEFINE r == NewRun(After(t))
      <3>2. /\ RunOK(r) /\ r.pc # "idle" /\ state' = "WORKING" /\ cancelTurn' = u
            /\ run' = [run EXCEPT ![t] = IdleRun, ![u] = r]
        BY <1>4, <2>3, <3>1, NewRuns DEF Write
      <3>. HIDE DEF r
      <3>3. /\ run' \in [Runs -> RunRecord] /\ run'[u] = r
            /\ \A v \in Runs \ {u} : run'[v] = IF v = t THEN IdleRun ELSE run[v]
        BY <1>1, <3>2, NewRuns DEF TypeInv, RunOK
      <3>4. \A v \in Runs : Live(v) => v = t
        BY <1>2, LiveIsCurrent
      <3>5. TypeInv'
        BY <1>1, <2>1, <3>2, <3>3, NewRuns DEF TypeInv
      <3>6. LiveRuns' = {u} /\ u # None
        BY <3>2, <3>3, <3>4, NewRuns, SessionAssumption DEF LiveRuns, Live
      <3>. QED
        BY <1>2, <2>1, <3>2, <3>5, <3>6 DEF Inv, OneTurn, StateTracksTurn, Busy
    <2>. QED
      BY <2>2, <2>3
  <1>5. ASSUME NEW n \in Nat, EndTurnFails(t, n)
        PROVE  Inv'
    <2>1. /\ up' = up /\ compactAsk' = FALSE /\ cancelTurn' = None
          /\ run' = [run EXCEPT ![t] = IdleRun]
          /\ spent' = [spent EXCEPT !.fails = @ + 1]
      BY <1>5 DEF EndTurnFails, Fail
    <2>2. spent' \in SpentRecord /\ spent'.fails > 0
      BY <1>1, <2>1 DEF SpentRecord
    <2>. QED
      BY <1>2, <2>1, <2>2, Over
  <1>. QED
    BY <1>4, <1>5

\* What Close, the death of the process and its restart do.
LEMMA ProcessStep ==
  ASSUME Inv, Process
  PROVE  Inv'
  <1>. USE DEF stored, memory
  <1>1. TypeInv /\ spent \in SpentRecord /\ spent.fails \in Nat
    BY DEF Inv, TypeInv, SpentRecord
  <1>2. compactAsk => cancelTurn # None
    BY DEF Inv, OneTurn
  <1>3. CASE CloseFlag \/ CloseReturns
    <2>1. UNCHANGED <<state, up, run, cancelTurn, compactAsk, spent>>
      BY <1>3 DEF CloseFlag, CloseReturns
    <2>. QED
      BY <1>1, <1>2, <2>1, Aside DEF TypeInv
  <1>4. CASE CloseInterrupts
    <2>1. UNCHANGED <<state, up, cancelTurn, compactAsk, spent>>
      BY <1>4 DEF CloseInterrupts
    <2>2. CASE cancelTurn = None
      <3>1. run' = run
        BY <1>4, <2>2 DEF CloseInterrupts
      <3>. QED
        BY <1>1, <1>2, <2>1, <3>1, Aside DEF TypeInv
    <2>3. CASE cancelTurn # None
      <3>1. cancelTurn \in Runs /\ Live(cancelTurn) /\ state \in Busy
        BY <1>1, <1>4, <2>3 DEF CloseInterrupts, TypeInv, Inv, OneTurn, StateTracksTurn, LiveRuns
      <3>. DEFINE r == [run[cancelTurn] EXCEPT !.cancelled = TRUE]
      <3>2. RunOK(r) /\ r.pc # "idle" /\ run' = [run EXCEPT ![cancelTurn] = r]
        BY <1>1, <1>4, <2>3, <3>1 DEF CloseInterrupts, TypeInv, RunOK, RunRecord, Live
      <3>. HIDE DEF r
      <3>. QED
        BY <1>1, <2>1, <3>1, <3>2, GoesOn DEF TypeInv
    <2>. QED
      BY <2>2, <2>3
  <1>5. CASE Exit \/ Crash
    <2>1. /\ up' = FALSE /\ cancelTurn' = None /\ compactAsk' = FALSE /\ spent' = spent
          /\ run' = [t \in Runs |-> IdleRun]
      BY <1>5 DEF Exit, Crash, Lost
    <2>2. TypeInv'
      BY <1>1, <2>1, NewRuns DEF TypeInv, RunOK
    <2>3. LiveRuns' = {}
      BY <2>1, NewRuns DEF LiveRuns, Live
    <2>. QED
      BY <2>1, <2>2, <2>3 DEF Inv, OneTurn, StateTracksTurn
  <1>6. CASE Restart
    <2>1. /\ ~up /\ UNCHANGED <<cancelTurn, run, compactAsk>>
          /\ spent' = [spent EXCEPT !.restarts = @ + 1]
          /\ up' = TRUE
          /\ state' \notin Busy
      BY <1>6 DEF Restart, Write, Busy
    <2>2. cancelTurn = None /\ LiveRuns = {} /\ compactAsk = FALSE
      BY <1>1, <2>1 DEF Inv, OneTurn, TypeInv
    <2>3. spent' \in SpentRecord
      BY <1>1, <2>1 DEF SpentRecord
    <2>4. TypeInv'
      BY <1>1, <2>1, <2>3 DEF TypeInv
    <2>5. LiveRuns' = {}
      BY <2>1, <2>2 DEF LiveRuns, Live
    <2>. QED
      BY <2>1, <2>2, <2>4, <2>5 DEF Inv, OneTurn, StateTracksTurn
  <1>. QED
    BY <1>3, <1>4, <1>5, <1>6 DEF Process

\* Every step keeps the invariant.
LEMMA InvNext == Inv /\ [Next]_vars => Inv'
  <1>. SUFFICES ASSUME Inv, [Next]_vars PROVE Inv'
    OBVIOUS
  <1>1. CASE Client
    BY <1>1, ClientStep
  <1>2. ASSUME NEW t \in Runs, Advance(t)
        PROVE  Inv'
    BY <1>2, TurnStep, EndStep DEF Advance, TurnStepOf
  <1>3. ASSUME NEW t \in Runs, Trouble(t)
        PROVE  Inv'
    <2>1. \A n \in 0 .. 2 * Len(queue) + 1 : n \in Nat
      OBVIOUS
    <2>2. \A n \in 0 .. 2 * Len(queue) : n \in Nat
      OBVIOUS
    <2>. QED
      BY <1>3, <2>1, <2>2, TurnStep, EndStep DEF Trouble, TurnStepOf
  <1>4. CASE Process
    BY <1>4, ProcessStep
  <1>5. CASE UNCHANGED vars
    BY <1>5 DEF vars, Inv, TypeInv, OneTurn, StateTracksTurn, LiveRuns, Live
  <1>. QED
    BY <1>1, <1>2, <1>3, <1>4, <1>5 DEF Next

\* The invariant holds in every reachable state.
THEOREM Invariance == Spec => []Inv
  BY InvInit, InvNext, PTL DEF Spec

------------------------------------------------------------------------------
(* The properties *)

\* A session never has two turns: the one that lives is the one cancelTurn
\* cancels, and a compaction is only asked of a run (session.go:323-336).
THEOREM OneTurnAtATime == Spec => []OneTurn
  BY Invariance, PTL DEF Inv

\* The state in the store says whether a turn runs, but for an end that could
\* not be recorded (session.go:323, turn.go:71, manager.go:100-117).
THEOREM StateIsTheTurns == Spec => []StateTracksTurn
  BY Invariance, PTL DEF Inv
\* What a run that begins looks like: no other step gets a goroutine there.
LEMMA BeginsLike ==
  ASSUME NEW t \in Runs, Begins(t)
  PROVE  /\ run'[t].pc \in {"boundary", "compact"} /\ run'[t].step = 0
         /\ run'[t].pc = "compact" => run'[t].kind = "compaction"
         /\ ~run'[t].cancelled /\ run'[t] # IdleRun /\ run'[t] # run[t]
  <1>1. /\ NewRun("turn") = [IdleRun EXCEPT !.kind = "turn", !.pc = "boundary"]
        /\ NewRun("compaction") = [IdleRun EXCEPT !.kind = "compaction", !.pc = "compact"]
    BY DEF NewRun
  <1>2. \A k \in {"turn", "compaction"} :
          /\ NewRun(k).pc \in {"boundary", "compact"} /\ NewRun(k).step = 0
          /\ NewRun(k).pc = "compact" => NewRun(k).kind = "compaction"
          /\ ~NewRun(k).cancelled /\ NewRun(k) # IdleRun
    <2>1. ASSUME NEW k \in {"turn", "compaction"}, NEW b \in {"boundary", "compact"},
                 b = "compact" => k = "compaction",
                 NewRun(k) = [IdleRun EXCEPT !.kind = k, !.pc = b]
          PROVE  /\ NewRun(k).pc \in {"boundary", "compact"} /\ NewRun(k).step = 0
                 /\ NewRun(k).pc = "compact" => NewRun(k).kind = "compaction"
                 /\ ~NewRun(k).cancelled /\ NewRun(k) # IdleRun
      <3>1. NewRun(k).pc = b /\ NewRun(k).kind = k /\ NewRun(k).step = 0
            /\ NewRun(k).cancelled = FALSE /\ IdleRun.pc = "idle"
        BY <2>1 DEF IdleRun
      <3>. QED
        BY <2>1, <3>1
    <2>. QED
      BY <1>1, <2>1
  <1>. QED
    BY <1>2 DEF Begins

\* A step within a turn begins no run.
LEMMA TurnBeginsNothing ==
  ASSUME Inv, NEW t \in Runs, TurnStepOf(t)
  PROVE  cancelTurn' = cancelTurn /\ \A u \in Runs : ~Begins(u)
  <1>. USE DEF Goto, EndWith, TurnStepOf
  <1>1. run[t] \in RunRecord /\ RunOK(run[t]) /\ run \in [Runs -> RunRecord]
    BY DEF Inv, TypeInv
  <1>2. cancelTurn' = cancelTurn /\ run' = [run EXCEPT ![t] = run'[t]]
    BY <1>1
    DEF StepLimit, Boundary, Compacted, CallCancelled, NextTool, ToolsDone, ToolDone,
        Stuck, Replied, BoundaryFails, Ask, Wait, TakeAnswer, GiveUp, Resolve, Resume
  <1>3. ASSUME NEW u \in Runs \ {t}
        PROVE  ~Begins(u)
    BY <1>1, <1>2, BeginsLike
  <1>4. ~Begins(t)
    <2>1. CASE Boundary(t)
      <3>1. run[t].kind = "turn"
        BY <1>1, <2>1 DEF Boundary, RunOK
      <3>2. \E p \in {"compact", "call"} : run'[t] = [run[t] EXCEPT !.pc = p]
        BY <1>1, <2>1 DEF Boundary
      <3>3. run'[t].pc \in {"compact", "call"} /\ run'[t].kind = "turn"
        BY <1>1, <3>1, <3>2 DEF RunRecord
      <3>. QED
        BY <3>3, BeginsLike
    <2>2. CASE ToolsDone(t)
      <3>1. CASE run[t].cancelled
        <4>1. run'[t].pc = "ended"
          BY <1>1, <2>2, <3>1 DEF ToolsDone, RunRecord
        <4>. QED
          BY <4>1, BeginsLike
      <3>2. CASE ~run[t].cancelled
        <4>1. run'[t].step = run[t].step + 1 /\ run[t].step \in Nat
          BY <1>1, <2>2, <3>2, SessionAssumption DEF ToolsDone, RunRecord
        <4>. QED
          BY <4>1, BeginsLike
      <3>. QED
        BY <3>1, <3>2
    <2>3. ASSUME NEW k \in 0 .. MaxTools, Replied(t, k)
          PROVE  ~Begins(t)
      <3>1. run'[t].pc \in {"ended", "tools"}
        BY <1>1, <2>3 DEF Replied, RunRecord
      <3>. QED
        BY <3>1, BeginsLike
    <2>4. ASSUME NEW p \in Prompts, NEW pats \in SUBSET Patterns, Ask(t, p, pats)
          PROVE  ~Begins(t)
      <3>1. CASE run' = run
        BY <3>1, BeginsLike
      <3>2. CASE run' = [run EXCEPT ![t].pc = "asked", ![t].prompt = p]
        <4>1. run'[t].pc = "asked"
          BY <1>1, <3>2 DEF RunRecord
        <4>. QED
          BY <4>1, BeginsLike
      <3>. QED
        BY <2>4, <3>1, <3>2 DEF Ask
    <2>5. CASE \/ StepLimit(t) \/ CallCancelled(t) \/ Stuck(t)
               \/ \E n \in Nat : BoundaryFails(t, n)
      <3>1. run'[t].pc = "ended"
        BY <1>1, <2>5 DEF StepLimit, CallCancelled, Stuck, BoundaryFails, RunRecord
      <3>. QED
        BY <3>1, BeginsLike
    <2>6. CASE Compacted(t)
      <3>1. run'[t].pc \in {"ended", "call"}
        BY <1>1, <2>6 DEF Compacted, RunRecord
      <3>. QED
        BY <3>1, BeginsLike
    <2>7. CASE NextTool(t) \/ ToolDone(t)
      <3>1. run'[t].pc \in {"tools", "tool"}
        BY <1>1, <2>7 DEF NextTool, ToolDone, RunRecord
      <3>. QED
        BY <3>1, BeginsLike
    <2>8. CASE Wait(t) \/ TakeAnswer(t) \/ GiveUp(t) \/ Resolve(t) \/ Resume(t)
      <3>1. \E p \in {"waiting", "tool", "answered", "gaveup", "resolved"} :
              run' = [run EXCEPT ![t].pc = p]
        BY <2>8 DEF Wait, TakeAnswer, GiveUp, Resolve, Resume
      <3>2. run'[t].pc \in {"waiting", "tool", "answered", "gaveup", "resolved"}
        BY <1>1, <3>1 DEF RunRecord
      <3>. QED
        BY <3>2, BeginsLike
    <2>. QED
      BY <2>1, <2>2, <2>3, <2>4, <2>5, <2>6, <2>7, <2>8
  <1>. QED
    BY <1>2, <1>3, <1>4

\* A goroutine that is given nothing but its cancellation begins no run.
LEMMA CancelBeginsNothing ==
  ASSUME Inv, NEW c \in Runs, run' = [run EXCEPT ![c].cancelled = TRUE], NEW u \in Runs
  PROVE  ~Begins(u)
  <1>1. run \in [Runs -> RunRecord]
    BY DEF Inv, TypeInv
  <1>2. u # c => run'[u] = run[u]
    BY <1>1
  <1>3. run'[c].cancelled
    BY <1>1 DEF RunRecord
  <1>. QED
    BY <1>2, <1>3, BeginsLike

\* One step of the property: the property itself, without its box.
KeepsStill ==
  \A t \in Runs :
    /\ (run[t].pc = "ended" /\ run[t].end = "interrupted" /\ up' /\ cancelTurn' # cancelTurn)
         => queue' = queue /\ ~\E u \in Runs : Begins(u)
    /\ Closing /\ Begins(t) => inbox' # inbox

\* A step that leaves cancelTurn alone and begins no run.
LEMMA StillStep ==
  ASSUME cancelTurn' = cancelTurn, \A u \in Runs : ~Begins(u)
  PROVE  KeepsStill
  BY DEF KeepsStill

\* Every step keeps an interrupted turn's queue, and Close's promise.
LEMMA StillNext ==
  ASSUME Inv, [Next]_vars
  PROVE  KeepsStill
  <1>. USE DEF stored, memory
  <1>1. run \in [Runs -> RunRecord] /\ cancelTurn \in Runs \cup {None}
    BY DEF Inv, TypeInv
  <1>2. ASSUME UNCHANGED <<cancelTurn, run>>
        PROVE  KeepsStill
    BY <1>2, BeginsLike, StillStep
  <1>3. ASSUME Client
        PROVE  KeepsStill
    <2>1. ASSUME NEW m \in Msgs,
                 SendMessage(m) \/ Enqueue(m) \/ EnqueueFails(m) \/ EditQueued(m) \/ CancelQueued(m)
          PROVE  KeepsStill
      BY <1>2, <2>1 DEF SendMessage, Enqueue, EnqueueFails, EditQueued, CancelQueued
    <2>2. CASE SendEmpty \/ Compact \/ Refuse \/ CompactLater
      BY <1>2, <2>2 DEF SendEmpty, Compact, Refuse, CompactLater
    <2>3. CASE Interrupt
      <3>1. /\ cancelTurn' = cancelTurn /\ cancelTurn \in Runs
            /\ run' = [run EXCEPT ![cancelTurn].cancelled = TRUE]
        BY <1>1, <2>3 DEF Interrupt
      <3>. QED
        BY <3>1, CancelBeginsNothing, StillStep
    <2>4. ASSUME NEW n \in Nat, NEW r, SendFails(r, n)
          PROVE  KeepsStill
      BY <1>2, <2>4 DEF SendFails
    <2>5. ASSUME NEW p \in Prompts, NEW d, AnswerPrompt(p, d)
          PROVE  KeepsStill
      BY <1>2, <2>5 DEF AnswerPrompt
    <2>6. ASSUME NEW r, NEW t \in Runs, SendStarts(r, t)
          PROVE  KeepsStill
      <3>1. inbox' # inbox /\ cancelTurn = None
        BY <2>6 DEF SendStarts
      <3>2. \A u \in Runs : ~Live(u)
        BY <3>1 DEF Inv, OneTurn, LiveRuns
      <3>. QED
        BY <3>1, <3>2 DEF KeepsStill, Live
    <2>7. ASSUME NEW t \in Runs, CompactNow(t)
          PROVE  KeepsStill
      <3>1. inbox' # inbox /\ cancelTurn = None
        BY <2>7 DEF CompactNow
      <3>2. \A u \in Runs : ~Live(u)
        BY <3>1 DEF Inv, OneTurn, LiveRuns
      <3>. QED
        BY <3>1, <3>2 DEF KeepsStill, Live
    <2>8. \A n \in 0 .. 2 * Len(queue) + 1 : n \in Nat
      OBVIOUS
    <2>. QED
      BY <1>3, <2>1, <2>2, <2>3, <2>4, <2>5, <2>6, <2>7, <2>8 DEF Client
  <1>4. ASSUME NEW t \in Runs, TurnStepOf(t)
        PROVE  KeepsStill
    BY <1>4, TurnBeginsNothing, StillStep
  <1>5. ASSUME NEW t \in Runs,
               \/ \E u \in Runs : EndTurn(t, u)
               \/ \E n \in Nat : EndTurnFails(t, n)
        PROVE  KeepsStill
    <2>1. Live(t)
      BY <1>5 DEF Live, EndTurn, EndTurnFails
    <2>2. \A u \in Runs : run[u].pc = "ended" => u = t
      BY <2>1, LiveIsCurrent DEF Live
    <2>3. CASE After(t) = "nothing"
      <3>1. run' = [run EXCEPT ![t] = IdleRun] /\ queue' = queue
        BY <1>5, <2>3 DEF EndTurn, EndTurnFails
      <3>2. \A u \in Runs : run'[u] = IdleRun \/ run'[u] = run[u]
        BY <1>1, <3>1
      <3>3. \A u \in Runs : ~Begins(u)
        BY <3>2, BeginsLike
      <3>. QED
        BY <3>1, <3>3 DEF KeepsStill
    <2>4. CASE After(t) # "nothing"
      <3>1. run[t].end # "interrupted" /\ ~Closing
        BY <2>4 DEF After
      <3>. QED
        BY <2>2, <3>1 DEF KeepsStill
    <2>. QED
      BY <2>3, <2>4
  <1>6. CASE Process
    <2>1. CASE CloseFlag \/ CloseReturns
      BY <1>2, <2>1 DEF CloseFlag, CloseReturns
    <2>2. CASE CloseInterrupts
      <3>1. CASE cancelTurn = None
        BY <1>2, <2>2, <3>1 DEF CloseInterrupts
      <3>2. CASE cancelTurn # None
        <4>1. /\ cancelTurn' = cancelTurn /\ cancelTurn \in Runs
              /\ run' = [run EXCEPT ![cancelTurn].cancelled = TRUE]
          BY <1>1, <2>2, <3>2 DEF CloseInterrupts
        <4>. QED
          BY <4>1, CancelBeginsNothing, StillStep
      <3>. QED
        BY <3>1, <3>2
    <2>3. CASE Exit \/ Crash
      <3>1. up' = FALSE /\ run' = [t \in Runs |-> IdleRun]
        BY <2>3 DEF Exit, Crash, Lost
      <3>2. \A u \in Runs : ~Begins(u)
        BY <3>1, BeginsLike
      <3>. QED
        BY <3>1, <3>2 DEF KeepsStill
    <2>4. CASE Restart
      BY <1>2, <2>4 DEF Restart
    <2>. QED
      BY <1>6, <2>1, <2>2, <2>3, <2>4 DEF Process
  <1>7. CASE UNCHANGED vars
    BY <1>2, <1>7 DEF vars
  <1>8. ASSUME NEW t \in Runs, Advance(t) \/ Trouble(t)
        PROVE  KeepsStill
    <2>1. \A n \in 0 .. 2 * Len(queue) + 1 : n \in Nat
      OBVIOUS
    <2>2. \A n \in 0 .. 2 * Len(queue) : n \in Nat
      OBVIOUS
    <2>3. TurnStepOf(t) \/ (\E u \in Runs : EndTurn(t, u)) \/ (\E n \in Nat : EndTurnFails(t, n))
      BY <1>8, <2>1, <2>2 DEF Advance, Trouble, TurnStepOf
    <2>. QED
      BY <1>4, <1>5, <2>3
  <1>. QED
    BY <1>3, <1>6, <1>7, <1>8 DEF Next

\* An interrupted turn starts nothing and keeps the queue, and once Close has
\* begun only a request already let in starts a turn (turn.go:65-99,
\* manager.go:120-129).
THEOREM InterruptedStaysStill == Spec => InterruptedStartsNothing
  <1>1. Inv /\ [Next]_vars => [KeepsStill]_vars
    BY StillNext
  <1>. QED
    BY Invariance, <1>1, PTL DEF Spec, InterruptedStartsNothing, KeepsStill

------------------------------------------------------------------------------
(* The log and the prompts *)

Whys    == {"", "compacting", "restarted", "done", "interrupted", "stuck"}
Answers == {"allow", "deny", "session"}

Event ==
  {StateEv(s, w) : s \in States, w \in Whys}
  \cup {QueuedEv(m) : m \in Msgs} \cup {EditedEv(m) : m \in Msgs}
  \cup {CancelledEv(m) : m \in Msgs} \cup {DeliveredEv(m) : m \in Msgs}
  \cup {UserEv(m, e) : m \in Msgs, e \in BOOLEAN}
  \cup {AskedEv(p) : p \in Prompts}
  \cup {ResolvedEv(p, d) : p \in Prompts, d \in Answers \cup {"interrupted"}}

OfMsg    == {"queued", "edited", "cancelled", "delivered", "user"}
OfPrompt == {"asked", "resolved"}

Entries == [id : Msgs, edited : BOOLEAN]

------------------------------------------------------------------------------
(* Natural numbers *)

Less == {p \in Nat \X Nat : p[1] < p[2]}

\* A set of numbers has a least one.
LEMMA LeastOf ==
  ASSUME NEW S \in SUBSET Nat, S # {}
  PROVE  \E n \in S : \A k \in S : n <= k
  <1>1. IsWellFoundedOn(Less, Nat)
    BY NatLessThanWellFounded DEF OpToRel, Less
  <1>2. PICK n \in S : \A k \in S : <<k, n>> \notin Less
    BY <1>1, WFMin
  <1>3. ASSUME NEW k \in S PROVE n <= k
    <2>1. <<k, n>> \notin Less
      BY <1>2
    <2>. QED
      BY <2>1 DEF Less
  <1>. QED
    BY <1>3

------------------------------------------------------------------------------
(* Events *)

\* What each kind of event says.
LEMMA EventForm ==
  ASSUME NEW e \in Event
  PROVE  /\ e.kind \in {"state"} \cup OfMsg \cup OfPrompt
         /\ e.kind \in OfMsg => e.id \in Msgs
         /\ e.kind \in OfPrompt => e.id \in Prompts
         /\ e.kind = "state" => e.state \in States /\ e.why \in Whys
  BY DEF Event, OfMsg, OfPrompt, StateEv, QueuedEv, EditedEv, CancelledEv, DeliveredEv, UserEv,
         AskedEv, ResolvedEv

\* The events that the handlers record.
LEMMA EventKinds ==
  /\ \A s \in States, w \in Whys : StateEv(s, w) \in Event /\ StateEv(s, w).kind = "state"
  /\ \A m \in Msgs :
       /\ QueuedEv(m) \in Event /\ QueuedEv(m).kind = "queued" /\ QueuedEv(m).id = m
       /\ EditedEv(m) \in Event /\ EditedEv(m).kind = "edited" /\ EditedEv(m).id = m
       /\ CancelledEv(m) \in Event /\ CancelledEv(m).kind = "cancelled" /\ CancelledEv(m).id = m
       /\ DeliveredEv(m) \in Event /\ DeliveredEv(m).kind = "delivered" /\ DeliveredEv(m).id = m
       /\ \A e \in BOOLEAN :
            UserEv(m, e) \in Event /\ UserEv(m, e).kind = "user" /\ UserEv(m, e).id = m
  /\ \A p \in Prompts :
       /\ AskedEv(p) \in Event /\ AskedEv(p).kind = "asked" /\ AskedEv(p).id = p
       /\ \A d \in Answers \cup {"interrupted"} :
            /\ ResolvedEv(p, d) \in Event /\ ResolvedEv(p, d).kind = "resolved"
            /\ ResolvedEv(p, d).id = p /\ ResolvedEv(p, d).decision = d
  <1>1. \A s \in States, w \in Whys : StateEv(s, w) \in Event /\ StateEv(s, w).kind = "state"
    BY DEF Event, StateEv
  <1>2. ASSUME NEW m \in Msgs
        PROVE  /\ QueuedEv(m) \in Event /\ EditedEv(m) \in Event /\ CancelledEv(m) \in Event
               /\ DeliveredEv(m) \in Event /\ \A e \in BOOLEAN : UserEv(m, e) \in Event
    BY DEF Event
  <1>3. ASSUME NEW p \in Prompts
        PROVE  AskedEv(p) \in Event /\ \A d \in Answers \cup {"interrupted"} : ResolvedEv(p, d) \in Event
    BY DEF Event
  <1>4. ASSUME NEW m
        PROVE  /\ QueuedEv(m).kind = "queued" /\ QueuedEv(m).id = m
               /\ EditedEv(m).kind = "edited" /\ EditedEv(m).id = m
               /\ CancelledEv(m).kind = "cancelled" /\ CancelledEv(m).id = m
               /\ DeliveredEv(m).kind = "delivered" /\ DeliveredEv(m).id = m
               /\ \A e : UserEv(m, e).kind = "user" /\ UserEv(m, e).id = m
    BY DEF QueuedEv, EditedEv, CancelledEv, DeliveredEv, UserEv
  <1>5. ASSUME NEW p
        PROVE  /\ AskedEv(p).kind = "asked" /\ AskedEv(p).id = p
               /\ \A d : /\ ResolvedEv(p, d).kind = "resolved" /\ ResolvedEv(p, d).id = p
                         /\ ResolvedEv(p, d).decision = d
    BY DEF AskedEv, ResolvedEv
  <1>. QED
    BY <1>1, <1>2, <1>3, <1>4, <1>5

\* The states that are recorded.
LEMMA StatesRecorded ==
  /\ Working \in Event /\ Working.kind = "state"
  /\ Compacting \in Event /\ Compacting.kind = "state"
  /\ StateEv("WAITING", "") \in Event /\ StateEv("WAITING", "").kind = "state"
  /\ StateEv("STUCK", "restarted") \in Event /\ StateEv("STUCK", "restarted").kind = "state"
  /\ \A e \in Ends : EndEv(e) \in Event /\ EndEv(e).kind = "state" /\ EndState(e) \in States
  <1>1. /\ {"", "compacting", "restarted"} \subseteq Whys /\ Ends \subseteq Whys
        /\ {"WORKING", "WAITING", "STUCK", "DONE"} \subseteq States
    BY DEF Whys, Ends, States
  <1>2. \A e \in Ends : EndState(e) \in States
    BY <1>1 DEF EndState
  <1>5. \A s \in States, w \in Whys : StateEv(s, w) \in Event /\ StateEv(s, w).kind = "state"
    BY EventKinds
  <1>3. ASSUME NEW e \in Ends
        PROVE  EndEv(e) \in Event /\ EndEv(e).kind = "state"
    <2>1. EndState(e) \in States /\ e \in Whys
      BY <1>1, <1>2
    <2>. QED
      BY <1>5, <2>1 DEF EndEv
  <1>4. /\ StateEv("WORKING", "") \in Event /\ StateEv("WORKING", "").kind = "state"
        /\ StateEv("WORKING", "compacting") \in Event
        /\ StateEv("WORKING", "compacting").kind = "state"
        /\ StateEv("WAITING", "") \in Event /\ StateEv("WAITING", "").kind = "state"
        /\ StateEv("STUCK", "restarted") \in Event /\ StateEv("STUCK", "restarted").kind = "state"
    BY <1>1, <1>5
  <1>. QED
    BY <1>2, <1>3, <1>4 DEF Working, Compacting

------------------------------------------------------------------------------
(* Queues *)

\* What an edit does to a queue.
LEMMA EditedIs ==
  ASSUME NEW q \in Seq(Entries), NEW m
  PROVE  /\ Edited(q, m) \in Seq(Entries) /\ Len(Edited(q, m)) = Len(q)
         /\ \A i \in 1 .. Len(q) : Edited(q, m)[i].id = q[i].id
  <1>. DEFINE s == Edited(q, m)
  <1>1. Len(q) \in Nat /\ DOMAIN q = 1 .. Len(q) /\ \A i \in 1 .. Len(q) : q[i] \in Entries
    BY LenProperties, ElementOfSeq
  <1>2. \A i \in 1 .. Len(q) : s[i] \in Entries /\ s[i].id = q[i].id
    BY <1>1 DEF Edited, Entries
  <1>3. s = [i \in 1 .. Len(q) |-> s[i]]
    BY <1>1 DEF Edited
  <1>. HIDE DEF s
  <1>4. s \in [1 .. Len(q) -> Entries]
    BY <1>2, <1>3
  <1>5. s \in Seq(Entries) /\ Len(s) = Len(q)
    BY <1>1, <1>4
  <1>. QED
    BY <1>2, <1>5 DEF s

\* What a removal does to a queue that holds the message.
LEMMA WithoutIs ==
  ASSUME NEW q \in Seq(Entries), NEW m, \E i \in DOMAIN q : q[i].id = m
  PROVE  \E f \in 1 .. Len(q) :
           /\ q[f].id = m /\ \A j \in 1 .. f - 1 : q[j].id # m
           /\ Without(q, m) \in Seq(Entries) /\ Len(Without(q, m)) = Len(q) - 1
           /\ \A i \in 1 .. Len(q) - 1 : Without(q, m)[i] = q[IF i < f THEN i ELSE i + 1]
  <1>1. Len(q) \in Nat /\ DOMAIN q = 1 .. Len(q) /\ \A i \in 1 .. Len(q) : q[i] \in Entries
    BY LenProperties, ElementOfSeq
  <1>2. \E f \in DOMAIN q : q[f].id = m /\ \A j \in 1 .. f - 1 : q[j].id # m
    <2>. DEFINE S == {i \in Nat : i \in DOMAIN q /\ q[i].id = m}
    <2>1. S \in SUBSET Nat /\ S # {}
      BY <1>1
    <2>2. PICK f \in S : \A k \in S : f <= k
      BY <2>1, LeastOf
    <2>3. \A j \in 1 .. f - 1 : q[j].id # m
      BY <1>1, <2>2
    <2>. QED
      BY <2>2, <2>3
  <1>. DEFINE first == CHOOSE f \in DOMAIN q : q[f].id = m /\ \A j \in 1 .. f - 1 : q[j].id # m
              s == Without(q, m)
  <1>3. first \in 1 .. Len(q) /\ q[first].id = m /\ \A j \in 1 .. first - 1 : q[j].id # m
    BY <1>1, <1>2
  <1>4. s = [i \in 1 .. Len(q) - 1 |-> q[IF i < first THEN i ELSE i + 1]]
    BY DEF Without
  <1>. HIDE DEF first, s
  <1>5. \A i \in 1 .. Len(q) - 1 : s[i] = q[IF i < first THEN i ELSE i + 1] /\ s[i] \in Entries
    BY <1>1, <1>3, <1>4
  <1>6. s \in [1 .. Len(q) - 1 -> Entries] /\ Len(q) - 1 \in Nat
    BY <1>1, <1>3, <1>4, <1>5
  <1>7. s \in Seq(Entries) /\ Len(s) = Len(q) - 1
    BY <1>6
  <1>. QED
    BY <1>3, <1>5, <1>7 DEF s

\* ... and to one that does not.
LEMMA WithoutNone ==
  ASSUME NEW q, NEW m, \A i \in DOMAIN q : q[i].id # m
  PROVE  Without(q, m) = q
  BY DEF Without

\* Replaying one event gives a queue again.
LEMMA ReloadType ==
  ASSUME NEW q \in Seq(Entries), NEW ev \in Event
  PROVE  Reload(q, ev) \in Seq(Entries)
  <1>1. CASE ev.kind = "queued"
    <2>1. ev.id \in Msgs /\ Entry(ev.id) \in Entries /\ Reload(q, ev) = Append(q, Entry(ev.id))
      BY <1>1, EventForm DEF Reload, Entry, Entries, OfMsg
    <2>. QED
      BY <2>1, AppendProperties
  <1>2. CASE ev.kind = "edited"
    BY <1>2, EditedIs DEF Reload
  <1>3. CASE ev.kind \in {"cancelled", "delivered"}
    <2>1. Reload(q, ev) = Without(q, ev.id)
      BY <1>3 DEF Reload
    <2>2. Without(q, ev.id) \in Seq(Entries)
      BY WithoutIs, WithoutNone
    <2>. QED
      BY <2>1, <2>2
  <1>4. CASE ev.kind \notin {"queued", "edited", "cancelled", "delivered"}
    BY <1>4 DEF Reload
  <1>. QED
    BY <1>1, <1>2, <1>3, <1>4
------------------------------------------------------------------------------
(* loadQueue *)

\* f is the queue after each of the first events of l, as loadQueue rebuilds it.
Replays(l, f) ==
  f = [n \in 0 .. Len(l) |-> IF n = 0 THEN <<>> ELSE Reload(f[n - 1], l[n])]

\* Every log can be replayed.
LEMMA ReplayExists ==
  ASSUME NEW l \in Seq(Event)
  PROVE  \E f : Replays(l, f)
  <1>. DEFINE Upto(k, f) ==
                f = [n \in 0 .. k |-> IF n = 0 THEN <<>> ELSE Reload(f[n - 1], l[n])]
              Bad == {k \in Nat : ~\E f : Upto(k, f)}
  <1>1. Bad = {}
    <2>. SUFFICES ASSUME Bad # {} PROVE FALSE
      OBVIOUS
    <2>1. PICK k \in Bad : \A i \in Bad : k <= i
      <3>1. Bad \in SUBSET Nat
        OBVIOUS
      <3>. HIDE DEF Bad
      <3>. QED
        BY <3>1, LeastOf
    <2>2. k # 0
      <3>. DEFINE g == [n \in 0 .. 0 |-> <<>>]
      <3>1. Upto(0, g)
        OBVIOUS
      <3>. QED
        BY <3>1
    <2>3. k \in Nat /\ k - 1 \in Nat /\ k - 1 \notin Bad
      BY <2>1, <2>2
    <2>4. PICK f : Upto(k - 1, f)
      BY <2>3
    <2>. DEFINE g == [n \in 0 .. k |-> IF n = k THEN Reload(f[k - 1], l[k]) ELSE f[n]]
    <2>5. \A n \in 0 .. k - 1 : g[n] = f[n]
      BY <2>3
    <2>6. g[k] = Reload(g[k - 1], l[k])
      BY <2>3, <2>5
    <2>7. \A n \in 0 .. k - 1 : g[n] = IF n = 0 THEN <<>> ELSE Reload(g[n - 1], l[n])
      <3>. TAKE n \in 0 .. k - 1
      <3>1. f[n] = IF n = 0 THEN <<>> ELSE Reload(f[n - 1], l[n])
        BY <2>4
      <3>2. n # 0 => n - 1 \in 0 .. k - 1
        BY <2>3
      <3>. QED
        BY <2>5, <3>1, <3>2
    <2>9. g = [n \in 0 .. k |-> g[n]]
      OBVIOUS
    <2>. HIDE DEF g
    <2>8. \A n \in 0 .. k : g[n] = IF n = 0 THEN <<>> ELSE Reload(g[n - 1], l[n])
      <3>. TAKE n \in 0 .. k
      <3>1. CASE n = k
        BY <2>2, <2>6, <3>1
      <3>2. CASE n # k
        <4>1. n \in 0 .. k - 1
          BY <2>3, <3>2
        <4>. QED
          BY <2>7, <4>1
      <3>. QED
        BY <3>1, <3>2
    <2>10. Upto(k, g)
      BY <2>8, <2>9
    <2>. QED
      BY <2>1, <2>10
  <1>2. Len(l) \in Nat
    BY LenProperties
  <1>3. \E f : Upto(Len(l), f)
    BY <1>1, <1>2
  <1>. QED
    BY <1>3 DEF Replays

\* The queue after each event, from the one before.
LEMMA ReplayAt ==
  ASSUME NEW l, NEW f, Replays(l, f), NEW n \in 0 .. Len(l)
  PROVE  f[n] = IF n = 0 THEN <<>> ELSE Reload(f[n - 1], l[n])
  BY DEF Replays

\* Replays of two logs agree as long as the logs do.
LEMMA ReplaysAgree ==
  ASSUME NEW l \in Seq(Event), NEW k \in Seq(Event), NEW f, NEW g,
         Replays(l, f), Replays(k, g), Len(l) <= Len(k),
         \A i \in 1 .. Len(l) : l[i] = k[i]
  PROVE  f[Len(l)] = g[Len(l)]
  <1>. DEFINE Bad == {n \in Nat : n <= Len(l) /\ f[n] # g[n]}
  <1>1. Len(l) \in Nat /\ Len(k) \in Nat
    BY LenProperties
  <1>2. \A n \in 0 .. Len(l) :
          /\ f[n] = IF n = 0 THEN <<>> ELSE Reload(f[n - 1], l[n])
          /\ g[n] = IF n = 0 THEN <<>> ELSE Reload(g[n - 1], k[n])
    <2>. TAKE n \in 0 .. Len(l)
    <2>1. n \in 0 .. Len(k)
      BY <1>1
    <2>. QED
      BY <2>1, ReplayAt
  <1>3. Bad = {}
    <2>. SUFFICES ASSUME Bad # {} PROVE FALSE
      OBVIOUS
    <2>1. PICK n \in Bad : \A i \in Bad : n <= i
      <3>1. Bad \in SUBSET Nat
        OBVIOUS
      <3>. HIDE DEF Bad
      <3>. QED
        BY <3>1, LeastOf
    <2>2. n \in Nat /\ n <= Len(l) /\ f[n] # g[n]
      BY <2>1
    <2>3. n # 0
      BY <1>1, <1>2, <2>2
    <2>4. n - 1 \in Nat /\ n - 1 \notin Bad
      BY <2>1, <2>3
    <2>5. f[n - 1] = g[n - 1] /\ l[n] = k[n]
      BY <1>1, <2>2, <2>4
    <2>. QED
      BY <1>1, <1>2, <2>2, <2>3, <2>5
  <1>. QED
    BY <1>1, <1>3

\* loadQueue is the replay's last queue.
LEMMA LoadIs ==
  ASSUME NEW l \in Seq(Event)
  PROVE  \E f : Replays(l, f) /\ LoadQueue(l) = f[Len(l)]
  BY ReplayExists DEF Replays, LoadQueue

\* An empty log has an empty queue.
LEMMA LoadEmpty == LoadQueue(<<>>) = <<>>
  <1>1. <<>> \in Seq(Event) /\ Len(<<>>) = 0
    BY EmptySeq
  <1>2. PICK f : Replays(<<>>, f) /\ LoadQueue(<<>>) = f[Len(<<>>)]
    BY <1>1, LoadIs
  <1>. QED
    BY <1>1, <1>2, ReplayAt

\* What one more event does to the queue a restart finds.
LEMMA LoadAppend ==
  ASSUME NEW l \in Seq(Event), NEW ev \in Event
  PROVE  LoadQueue(Append(l, ev)) = Reload(LoadQueue(l), ev)
  <1>. DEFINE k == Append(l, ev)
  <1>1. /\ k \in Seq(Event) /\ Len(l) \in Nat /\ Len(k) = Len(l) + 1 /\ k[Len(k)] = ev
        /\ \A i \in 1 .. Len(l) : k[i] = l[i]
    BY AppendProperties, LenProperties
  <1>. HIDE DEF k
  <1>2. PICK f : Replays(l, f) /\ LoadQueue(l) = f[Len(l)]
    BY LoadIs
  <1>3. PICK g : Replays(k, g) /\ LoadQueue(k) = g[Len(k)]
    BY <1>1, LoadIs
  <1>4. f[Len(l)] = g[Len(l)]
    BY <1>1, <1>2, <1>3, ReplaysAgree
  <1>5. g[Len(k)] = Reload(g[Len(l)], ev)
    BY <1>1, <1>3 DEF Replays
  <1>. QED
    BY <1>2, <1>3, <1>4, <1>5 DEF k

\* What a restart finds is a queue.
LEMMA LoadType ==
  ASSUME NEW l \in Seq(Event)
  PROVE  LoadQueue(l) \in Seq(Entries)
  <1>1. PICK f : Replays(l, f) /\ LoadQueue(l) = f[Len(l)]
    BY LoadIs
  <1>. DEFINE Bad == {n \in Nat : n <= Len(l) /\ f[n] \notin Seq(Entries)}
  <1>2. Len(l) \in Nat /\ \A i \in 1 .. Len(l) : l[i] \in Event
    BY LenProperties, ElementOfSeq
  <1>3. Bad = {}
    <2>. SUFFICES ASSUME Bad # {} PROVE FALSE
      OBVIOUS
    <2>1. PICK n \in Bad : \A i \in Bad : n <= i
      <3>1. Bad \in SUBSET Nat
        OBVIOUS
      <3>. HIDE DEF Bad
      <3>. QED
        BY <3>1, LeastOf
    <2>2. n # 0
      BY <1>1, <1>2, <2>1 DEF Replays
    <2>3. n - 1 \in Nat /\ n - 1 \notin Bad
      BY <2>1, <2>2
    <2>4. f[n - 1] \in Seq(Entries) /\ l[n] \in Event /\ f[n] = Reload(f[n - 1], l[n])
      BY <1>1, <1>2, <2>1, <2>2, <2>3 DEF Replays
    <2>. QED
      BY <2>1, <2>4, ReloadType
  <1>. QED
    BY <1>1, <1>2, <1>3
------------------------------------------------------------------------------
(* What the handlers record *)

Plain == OfMsg \cup {"state"}

\* A sequence of events, none of them about a prompt.
IsScript(evs) == evs \in Seq(Event) /\ \A i \in 1 .. Len(evs) : evs[i].kind \in Plain

\* Delivering a queue takes two events a message.
LEMMA DeliverIs ==
  ASSUME NEW q \in Seq(Entries)
  PROVE  /\ IsScript(DeliverScript(q)) /\ Len(DeliverScript(q)) = 2 * Len(q)
         /\ \A a \in 1 .. Len(q) :
              /\ DeliverScript(q)[2 * a - 1] = DeliveredEv(q[a].id)
              /\ DeliverScript(q)[2 * a] = UserEv(q[a].id, q[a].edited)
  <1>. DEFINE s == DeliverScript(q)
  <1>1. Len(q) \in Nat /\ \A a \in 1 .. Len(q) : q[a] \in Entries
    BY LenProperties, ElementOfSeq
  <1>2. \A a \in 1 .. Len(q) : /\ s[2 * a - 1] = DeliveredEv(q[a].id)
                                /\ s[2 * a] = UserEv(q[a].id, q[a].edited)
    <2>. TAKE a \in 1 .. Len(q)
    <2>1. /\ 2 * a - 1 \in 1 .. 2 * Len(q) /\ 2 * a \in 1 .. 2 * Len(q)
          /\ (2 * a - 1 + 1) \div 2 = a /\ (2 * a + 1) \div 2 = a
          /\ (2 * a - 1) % 2 = 1 /\ (2 * a) % 2 = 0
      BY <1>1
    <2>. QED
      BY <2>1 DEF DeliverScript
  <1>3. \A a \in 1 .. Len(q) : /\ s[2 * a - 1] \in Event /\ s[2 * a - 1].kind \in Plain
                                /\ s[2 * a] \in Event /\ s[2 * a].kind \in Plain
    <2>. TAKE a \in 1 .. Len(q)
    <2>1. q[a].id \in Msgs /\ q[a].edited \in BOOLEAN
      BY <1>1 DEF Entries
    <2>. QED
      BY <1>2, <2>1, EventKinds DEF Plain, OfMsg
  <1>4. \A i \in 1 .. 2 * Len(q) :
          \E a \in 1 .. Len(q) : i = 2 * a - 1 \/ i = 2 * a
    <2>. TAKE i \in 1 .. 2 * Len(q)
    <2>1. (i + 1) \div 2 \in 1 .. Len(q)
      BY <1>1
    <2>2. i = 2 * ((i + 1) \div 2) - 1 \/ i = 2 * ((i + 1) \div 2)
      BY <1>1
    <2>. QED
      BY <2>1, <2>2
  <1>5. s = [i \in 1 .. 2 * Len(q) |-> s[i]]
    BY DEF DeliverScript
  <1>. HIDE DEF s
  <1>6. \A i \in 1 .. 2 * Len(q) : s[i] \in Event /\ s[i].kind \in Plain
    BY <1>3, <1>4
  <1>7. s \in [1 .. 2 * Len(q) -> Event] /\ 2 * Len(q) \in Nat
    BY <1>1, <1>5, <1>6
  <1>8. s \in Seq(Event) /\ Len(s) = 2 * Len(q)
    BY <1>7
  <1>. QED
    BY <1>2, <1>6, <1>8 DEF s, IsScript

\* Scripts follow one another.
LEMMA ConcatScripts ==
  ASSUME NEW a, NEW b, IsScript(a), IsScript(b)
  PROVE  IsScript(a \o b) /\ Len(a \o b) = Len(a) + Len(b)
  <1>1. Len(a) \in Nat /\ Len(b) \in Nat
    BY LenProperties DEF IsScript
  <1>2. /\ a \o b \in Seq(Event) /\ Len(a \o b) = Len(a) + Len(b)
        /\ \A i \in 1 .. Len(a) + Len(b) : (a \o b)[i] = IF i <= Len(a) THEN a[i] ELSE b[i - Len(a)]
    BY ConcatProperties DEF IsScript
  <1>3. ASSUME NEW i \in 1 .. Len(a) + Len(b) PROVE (a \o b)[i].kind \in Plain
    <2>1. CASE i <= Len(a)
      BY <1>1, <1>2, <2>1 DEF IsScript
    <2>2. CASE ~(i <= Len(a))
      <3>1. i - Len(a) \in 1 .. Len(b)
        BY <1>1, <2>2
      <3>. QED
        BY <1>2, <2>2, <3>1 DEF IsScript
    <2>. QED
      BY <2>1, <2>2
  <1>. QED
    BY <1>2, <1>3 DEF IsScript

\* What is recorded of a script that is cut short.
LEMMA CutScript ==
  ASSUME NEW a, IsScript(a), NEW n \in Nat, n <= Len(a)
  PROVE  /\ IsScript(SubSeq(a, 1, n)) /\ Len(SubSeq(a, 1, n)) = n
         /\ \A i \in 1 .. n : SubSeq(a, 1, n)[i] = a[i]
  <1>1. Len(a) \in Nat /\ \A i \in 1 .. n : a[i] \in Event /\ a[i].kind \in Plain
    BY LenProperties, ElementOfSeq DEF IsScript
  <1>. DEFINE c == SubSeq(a, 1, n)
  <1>2. c \in Seq(Event) /\ Len(c) = n /\ \A i \in 1 .. n : c[i] = a[i]
    <2>1. /\ c \in Seq(Event) /\ Len(c) = IF 1 <= n THEN n - 1 + 1 ELSE 0
          /\ \A i \in 1 .. n - 1 + 1 : c[i] = a[1 + i - 1]
      BY <1>1, SubSeqProperties
    <2>. HIDE DEF c
    <2>. QED
      BY <2>1
  <1>. QED
    BY <1>1, <1>2 DEF IsScript

\* One event, and none.
LEMMA ShortScripts ==
  /\ IsScript(<<>>) /\ Len(<<>>) = 0
  /\ \A e \in Event : e.kind \in Plain => IsScript(<<e>>) /\ Len(<<e>>) = 1
  BY EmptySeq DEF IsScript

\* What starts a turn, and what follows the end of one.
LEMMA SendIs ==
  ASSUME NEW r, queue \in Seq(Entries)
  PROVE  /\ IsScript(SendScript(r))
         /\ Len(SendScript(r)) = 2 * Len(queue) + IF r \in Msgs THEN 2 ELSE 1
  <1>1. IsScript(DeliverScript(queue)) /\ Len(DeliverScript(queue)) = 2 * Len(queue)
    BY DeliverIs
  <1>2. IsScript(<<Working>>) /\ Len(<<Working>>) = 1
    BY ShortScripts, StatesRecorded DEF Plain
  <1>. DEFINE u == IF r \in Msgs THEN <<UserEv(r, FALSE)>> ELSE <<>>
  <1>3. IsScript(u) /\ Len(u) = IF r \in Msgs THEN 1 ELSE 0
    <2>1. CASE r \in Msgs
      <3>1. UserEv(r, FALSE) \in Event /\ UserEv(r, FALSE).kind \in Plain
        <4>1. UserEv(r, FALSE) \in Event /\ UserEv(r, FALSE).kind = "user"
          BY <2>1, EventKinds
        <4>. QED
          BY <4>1 DEF Plain, OfMsg
      <3>2. IsScript(<<UserEv(r, FALSE)>>) /\ Len(<<UserEv(r, FALSE)>>) = 1
        BY <3>1, ShortScripts
      <3>. QED
        BY <2>1, <3>2
    <2>2. CASE r \notin Msgs
      BY <2>2, ShortScripts
    <2>. QED
      BY <2>1, <2>2
  <1>4. SendScript(r) = DeliverScript(queue) \o u \o <<Working>>
    BY DEF SendScript
  <1>. HIDE DEF u
  <1>5. Len(queue) \in Nat
    BY LenProperties
  <1>6. IsScript(DeliverScript(queue) \o u)
        /\ Len(DeliverScript(queue) \o u) = 2 * Len(queue) + IF r \in Msgs THEN 1 ELSE 0
    BY <1>1, <1>3, <1>5, ConcatScripts
  <1>. DEFINE d == DeliverScript(queue) \o u
  <1>7. IsScript(d) /\ Len(d) = 2 * Len(queue) + IF r \in Msgs THEN 1 ELSE 0
    BY <1>6
  <1>8. SendScript(r) = d \o <<Working>>
    BY <1>4
  <1>. HIDE DEF d
  <1>9. IsScript(d \o <<Working>>) /\ Len(d \o <<Working>>) = Len(d) + 1
    BY <1>2, <1>7, ConcatScripts
  <1>10. Len(SendScript(r)) = Len(d) + 1 /\ IsScript(SendScript(r))
    BY <1>8, <1>9
  <1>11. CASE r \in Msgs
    <2>1. Len(d) = 2 * Len(queue) + 1
      BY <1>7, <1>11
    <2>2. Len(SendScript(r)) = 2 * Len(queue) + 2
      BY <1>5, <1>10, <2>1
    <2>. QED
      BY <1>10, <1>11, <2>2
  <1>12. CASE r \notin Msgs
    <2>1. Len(d) = 2 * Len(queue)
      BY <1>5, <1>7, <1>12
    <2>2. Len(SendScript(r)) = 2 * Len(queue) + 1
      BY <1>10, <2>1
    <2>. QED
      BY <1>10, <1>12, <2>2
  <1>. QED
    BY <1>11, <1>12

\* What is recorded at the end of a turn.
LEMMA AfterIs ==
  ASSUME NEW t \in Runs, queue \in Seq(Entries), run[t].end \in Ends
  PROVE  /\ IsScript(AfterScript(t)) /\ IsScript(<<EndEv(run[t].end)>> \o AfterScript(t))
         /\ Len(<<EndEv(run[t].end)>> \o AfterScript(t)) = 1 + Len(AfterScript(t))
         /\ Len(AfterScript(t)) = CASE After(t) = "compaction" -> 1
                                    [] After(t) = "turn" -> 2 * Len(queue) + 1
                                    [] OTHER -> 0
  <1>. DEFINE s == AfterScript(t)
  <1>1. /\ IsScript(<<Working>>) /\ Len(<<Working>>) = 1
        /\ IsScript(<<Compacting>>) /\ Len(<<Compacting>>) = 1
        /\ IsScript(<<EndEv(run[t].end)>>) /\ Len(<<EndEv(run[t].end)>>) = 1
    BY ShortScripts, StatesRecorded DEF Plain
  <1>2. /\ IsScript(DeliverScript(queue) \o <<Working>>)
        /\ Len(DeliverScript(queue) \o <<Working>>) = 2 * Len(queue) + 1
    <2>1. IsScript(DeliverScript(queue)) /\ Len(DeliverScript(queue)) = 2 * Len(queue)
      BY DeliverIs
    <2>. QED
      BY <1>1, <2>1, ConcatScripts
  <1>3. IsScript(s) /\ Len(s) = CASE After(t) = "compaction" -> 1
                                  [] After(t) = "turn" -> 2 * Len(queue) + 1
                                  [] OTHER -> 0
    <2>1. CASE After(t) = "compaction"
      BY <1>1, <2>1 DEF AfterScript
    <2>2. CASE After(t) = "turn"
      BY <1>2, <2>2 DEF AfterScript
    <2>3. CASE After(t) \notin {"compaction", "turn"}
      BY <2>3, ShortScripts DEF AfterScript
    <2>. QED
      BY <2>1, <2>2, <2>3
  <1>. HIDE DEF s
  <1>4. IsScript(<<EndEv(run[t].end)>> \o s) /\ Len(<<EndEv(run[t].end)>> \o s) = 1 + Len(s)
    BY <1>1, <1>3, ConcatScripts
  <1>. QED
    BY <1>3, <1>4 DEF s
------------------------------------------------------------------------------
(* Types *)

Data ==
  /\ log \in Seq(Event) /\ state \in States
  /\ closer \in {"open", "flagged", "interrupted", "closed"}
  /\ inbox \subseteq Msgs \cup {"nudge", "compact"}
  /\ queue \in Seq(Entries)
  /\ prompts \subseteq Prompts
  /\ offer \in [Prompts -> SUBSET Patterns]
  /\ answer \in [Prompts -> {"none"} \cup Answers]
  /\ allowed \subseteq Patterns

\* The goroutine is between the request of a prompt and its resolution.
AtPrompt == {"asked", "waiting", "answered", "gaveup"}

\* It has asked a prompt then, and one that counts as answered has its answer.
Prompted ==
  \A t \in Runs :
    /\ run[t].pc \in AtPrompt => run[t].prompt \in Prompts
    /\ run[t].pc = "answered" => answer[run[t].prompt] \in Answers

\* The step records events, none of them about a prompt.
Grew == \E evs : IsScript(evs) /\ log' = log \o evs

\* A step that records nothing.
LEMMA GrewNot ==
  ASSUME Data, log' = log
  PROVE  Grew
  BY ShortScripts, ConcatEmptySeq DEF Data, Grew

\* The log stays a sequence of events.
LEMMA GrewType ==
  ASSUME Data, Grew
  PROVE  log' \in Seq(Event)
  BY ConcatProperties DEF Data, Grew, IsScript

\* A step that records one event.
LEMMA GrewOne ==
  ASSUME NEW e \in Event, e.kind \in Plain, NEW s, Write(<<e>>, s)
  PROVE  Grew /\ state' = s
  BY ShortScripts DEF Grew, Write

\* A queue of which the first messages are delivered.
LEMMA PoppedIs ==
  ASSUME NEW q \in Seq(Entries), NEW n \in Nat
  PROVE  /\ Popped(q, n) \in Seq(Entries)
         /\ n <= 2 * Len(q) + 1 => Len(Popped(q, n)) = Len(q) - (n \div 2)
         /\ \A i \in 1 .. Len(q) - (n \div 2) : Popped(q, n)[i] = q[i + (n \div 2)]
  <1>. DEFINE h == n \div 2
              c == SubSeq(q, h + 1, Len(q))
  <1>1. Len(q) \in Nat /\ h \in Nat /\ (n <= 2 * Len(q) + 1 => h <= Len(q))
        /\ \A i \in 1 .. Len(q) : q[i] \in Entries
    BY LenProperties, ElementOfSeq
  <1>. HIDE DEF h
  <1>2. /\ c \in Seq(Entries)
        /\ Len(c) = IF h + 1 <= Len(q) THEN Len(q) - (h + 1) + 1 ELSE 0
        /\ \A i \in 1 .. Len(q) - (h + 1) + 1 : c[i] = q[h + 1 + i - 1]
    <2>1. h + 1 \in Int /\ Len(q) \in Int /\ \A i \in h + 1 .. Len(q) : q[i] \in Entries
      BY <1>1
    <2>. QED
      BY <2>1, SubSeqProperties
  <1>3. Popped(q, n) = c
    BY DEF Popped, h
  <1>. HIDE DEF c
  <1>4. /\ n <= 2 * Len(q) + 1 => Len(c) = Len(q) - h
        /\ \A i \in 1 .. Len(q) - h : c[i] = q[i + h]
    BY <1>1, <1>2
  <1>. QED
    BY <1>2, <1>3, <1>4 DEF h

\* Everything starts empty.
LEMMA DataInit == Init => Data
  BY EmptySeq DEF Init, Data, States

\* The requests and answers of clients.
LEMMA DataClient ==
  ASSUME Inv, Data, Client
  PROVE  Data' /\ Grew
  <1>. USE DEF stored, memory
  <1>1. ASSUME Grew, UNCHANGED <<state, closer, queue, prompts, offer, answer, allowed>>,
               inbox' \subseteq inbox \cup Msgs \cup {"nudge", "compact"}
        PROVE  Data' /\ Grew
    BY <1>1, GrewType DEF Data
  <1>2. ASSUME NEW m \in Msgs, SendMessage(m) \/ EnqueueFails(m)
        PROVE  Data' /\ Grew
    BY <1>1, <1>2, GrewNot DEF SendMessage, EnqueueFails
  <1>3. ASSUME NEW m \in Msgs, Enqueue(m)
        PROVE  Data' /\ Grew
    <2>1. Grew
      BY <1>3, EventKinds, GrewOne DEF Enqueue, Plain, OfMsg
    <2>2. queue' \in Seq(Entries)
      BY <1>3, AppendProperties DEF Enqueue, Data, Entries, Entry
    <2>. QED
      BY <1>3, <2>1, <2>2, GrewType DEF Enqueue, Data, Write
  <1>4. ASSUME NEW m \in Msgs, EditQueued(m)
        PROVE  Data' /\ Grew
    <2>1. Grew
      BY <1>4, EventKinds, GrewOne DEF EditQueued, Plain, OfMsg
    <2>2. queue' \in Seq(Entries)
      BY <1>4, EditedIs DEF EditQueued, Data
    <2>. QED
      BY <1>4, <2>1, <2>2, GrewType DEF EditQueued, Data, Write
  <1>5. ASSUME NEW m \in Msgs, CancelQueued(m)
        PROVE  Data' /\ Grew
    <2>1. Grew
      BY <1>5, EventKinds, GrewOne DEF CancelQueued, Plain, OfMsg
    <2>2. queue' \in Seq(Entries)
      BY <1>5, WithoutIs, WithoutNone DEF CancelQueued, Data
    <2>. QED
      BY <1>5, <2>1, <2>2, GrewType DEF CancelQueued, Data, Write
  <1>6. CASE SendEmpty \/ Compact \/ Refuse \/ CompactLater \/ Interrupt
    BY <1>1, <1>6, GrewNot DEF SendEmpty, Compact, Refuse, CompactLater, Interrupt
  <1>7. ASSUME NEW r \in Msgs \cup {"nudge"}, NEW t \in Runs, SendStarts(r, t)
        PROVE  Data' /\ Grew
    <2>1. Grew
      BY <1>7, SendIs DEF SendStarts, Grew, Write, Data
    <2>. QED
      BY <1>7, <2>1, GrewType, EmptySeq DEF SendStarts, Data, Write, States
  <1>8. ASSUME NEW r, NEW n \in Nat, SendFails(r, n)
        PROVE  Data' /\ Grew
    <2>1. n < Len(SendScript(r)) /\ IsScript(SendScript(r)) /\ Len(SendScript(r)) \in Nat
      BY <1>8, SendIs, LenProperties DEF SendFails, Data, IsScript
    <2>2. IsScript(SubSeq(SendScript(r), 1, n))
      BY <2>1, CutScript
    <2>3. Grew
      BY <1>8, <2>2 DEF SendFails, Grew, Write
    <2>4. queue' \in Seq(Entries)
      BY <1>8, PoppedIs DEF SendFails, Data
    <2>. QED
      BY <1>8, <2>3, <2>4, GrewType DEF SendFails, Data, Write
  <1>9. ASSUME NEW t \in Runs, CompactNow(t)
        PROVE  Data' /\ Grew
    <2>1. CASE UNCHANGED <<log, state>>
      BY <1>1, <1>9, <2>1, GrewNot DEF CompactNow
    <2>2. CASE Write(<<Compacting>>, "WORKING")
      <3>1. Grew /\ state' = "WORKING"
        BY <2>2, GrewOne, StatesRecorded DEF Plain
      <3>. QED
        BY <1>9, <3>1, GrewType DEF CompactNow, Data, States
    <2>. QED
      BY <1>9, <2>1, <2>2 DEF CompactNow
  <1>10. ASSUME NEW p \in Prompts, NEW d \in {"allow", "deny", "session"}, AnswerPrompt(p, d)
         PROVE  Data' /\ Grew
    <2>1. Grew /\ log' = log
      BY <1>10, GrewNot DEF AnswerPrompt
    <2>. QED
      BY <1>10, <2>1 DEF AnswerPrompt, Data, Answers
  <1>11. \A n \in 0 .. 2 * Len(queue) + 1 : n \in Nat
    OBVIOUS
  <1>. QED
    BY <1>2, <1>3, <1>4, <1>5, <1>6, <1>7, <1>8, <1>9, <1>10, <1>11 DEF Client

\* What a turn does before it ends.
LEMMA DataTurn ==
  ASSUME Inv, Data, Prompted, NEW t \in Runs, TurnStepOf(t)
  PROVE  /\ Data'
         /\ \/ Grew
            \/ Resolve(t) \/ \E p \in Prompts, pats \in SUBSET Patterns : Ask(t, p, pats)
  <1>. USE DEF stored, memory, Goto, EndWith
  <1>1. ASSUME UNCHANGED <<stored, memory, closer, inbox>>
        PROVE  Data' /\ Grew
    BY <1>1, GrewNot DEF Data
  <1>2. CASE StepLimit(t) \/ Compacted(t) \/ CallCancelled(t) \/ NextTool(t)
             \/ ToolsDone(t) \/ ToolDone(t) \/ Stuck(t)
    BY <1>1, <1>2 DEF StepLimit, Compacted, CallCancelled, NextTool, ToolsDone, ToolDone, Stuck
  <1>3. ASSUME NEW k, Replied(t, k)
        PROVE  Data' /\ Grew
    BY <1>1, <1>3 DEF Replied
  <1>4. CASE Boundary(t)
    <2>1. CASE run[t].step = 0
      BY <1>4, <2>1, GrewNot DEF Boundary, Data
    <2>2. CASE run[t].step # 0
      <3>1. log' = log \o DeliverScript(queue) /\ state' = state /\ queue' = <<>>
        BY <1>4, <2>2 DEF Boundary, Write
      <3>2. Grew
        BY <3>1, DeliverIs DEF Grew, Data
      <3>. QED
        BY <1>4, <3>1, <3>2, GrewType, EmptySeq DEF Boundary, Data
    <2>. QED
      BY <2>1, <2>2
  <1>5. ASSUME NEW n \in Nat, BoundaryFails(t, n)
        PROVE  Data' /\ Grew
    <2>1. IsScript(DeliverScript(queue)) /\ n <= Len(DeliverScript(queue))
      BY <1>5, DeliverIs, LenProperties DEF BoundaryFails, Data
    <2>2. IsScript(SubSeq(DeliverScript(queue), 1, n))
      BY <2>1, CutScript
    <2>3. Grew
      BY <1>5, <2>2 DEF BoundaryFails, Grew, Write
    <2>4. queue' \in Seq(Entries)
      BY <1>5, PoppedIs DEF BoundaryFails, Data
    <2>. QED
      BY <1>5, <2>3, <2>4, GrewType DEF BoundaryFails, Data, Write
  <1>6. ASSUME NEW p \in Prompts, NEW pats \in SUBSET Patterns, Ask(t, p, pats)
        PROVE  Data'
    <2>1. AskedEv(p) \in Event
      BY EventKinds
    <2>2. log' \in Seq(Event) /\ state' = state
      <3>1. CASE Write(<<AskedEv(p)>>, state)
        <4>1. <<AskedEv(p)>> \in Seq(Event)
          BY <2>1
        <4>. QED
          BY <3>1, <4>1, ConcatProperties DEF Write, Data
      <3>2. CASE UNCHANGED stored
        BY <3>2 DEF Data
      <3>. QED
        BY <1>6, <3>1, <3>2 DEF Ask
    <2>3. prompts' \subseteq Prompts /\ offer' \in [Prompts -> SUBSET Patterns]
      BY <1>6 DEF Ask, Data
    <2>. QED
      BY <1>6, <2>2, <2>3 DEF Ask, Data
  <1>7. CASE Wait(t)
    <2>1. Grew /\ (state' = state \/ state' = "WAITING")
      <3>1. CASE Write(<<StateEv("WAITING", "")>>, "WAITING")
        BY <3>1, GrewOne, StatesRecorded DEF Plain
      <3>2. CASE UNCHANGED stored
        BY <3>2, GrewNot
      <3>. QED
        BY <1>7, <3>1, <3>2 DEF Wait
    <2>. QED
      BY <1>7, <2>1, GrewType DEF Wait, Data, States
  <1>8. CASE TakeAnswer(t)
    <2>1. run[t].prompt \in Prompts
      BY <1>8 DEF TakeAnswer, Prompted, AtPrompt
    <2>2. allowed' \subseteq Patterns
      BY <1>8, <2>1 DEF TakeAnswer, Data
    <2>. QED
      BY <1>8, <2>2, GrewNot DEF TakeAnswer, Data
  <1>9. CASE GiveUp(t)
    BY <1>9, GrewNot DEF GiveUp, Data
  <1>10. CASE Resolve(t)
    <2>. DEFINE p == run[t].prompt
                d == IF run[t].pc = "gaveup" THEN "interrupted" ELSE answer[p]
    <2>1. p \in Prompts /\ d \in Answers \cup {"interrupted"}
      BY <1>10 DEF Resolve, Prompted, AtPrompt
    <2>2. ResolvedEv(p, d) \in Event
      BY <2>1, EventKinds
    <2>3. Write(<<ResolvedEv(p, d)>>, state) \/ UNCHANGED stored
      BY <1>10 DEF Resolve
    <2>. HIDE DEF p, d
    <2>4. log' \in Seq(Event) /\ state' = state
      <3>1. CASE Write(<<ResolvedEv(p, d)>>, state)
        <4>1. <<ResolvedEv(p, d)>> \in Seq(Event)
          BY <2>2
        <4>. QED
          BY <3>1, <4>1, ConcatProperties DEF Write, Data
      <3>2. CASE UNCHANGED stored
        BY <3>2 DEF Data
      <3>. QED
        BY <2>3, <3>1, <3>2
    <2>. QED
      BY <1>10, <2>4 DEF Resolve, Data
  <1>11. CASE Resume(t)
    <2>1. Grew /\ (state' = state \/ state' = "WORKING")
      <3>1. CASE Write(<<Working>>, "WORKING")
        BY <3>1, GrewOne, StatesRecorded DEF Plain
      <3>2. CASE UNCHANGED stored
        BY <3>2, GrewNot
      <3>. QED
        BY <1>11, <3>1, <3>2 DEF Resume
    <2>. QED
      BY <1>11, <2>1, GrewType DEF Resume, Data, States
  <1>. QED
    BY <1>2, <1>3, <1>4, <1>5, <1>6, <1>7, <1>8, <1>9, <1>10, <1>11 DEF TurnStepOf

\* The end of a turn.
LEMMA DataEnd ==
  ASSUME Inv, Data, NEW t \in Runs,
         \/ \E u \in Runs : EndTurn(t, u)
         \/ \E n \in Nat : EndTurnFails(t, n)
  PROVE  Data' /\ Grew
  <1>. DEFINE s == <<EndEv(run[t].end)>> \o AfterScript(t)
  <1>1. run[t].end \in Ends
    BY DEF Inv, TypeInv, RunRecord
  <1>2. IsScript(s) /\ Len(s) = 1 + Len(AfterScript(t)) /\ Len(AfterScript(t)) \in Nat
    BY <1>1, AfterIs, LenProperties DEF Data, IsScript
  <1>3. EndState(run[t].end) \in States /\ "WORKING" \in States
    BY <1>1, StatesRecorded DEF States
  <1>4. ASSUME NEW u \in Runs, EndTurn(t, u)
        PROVE  Data' /\ Grew
    <2>1. log' = log \o s /\ (state' = EndState(run[t].end) \/ state' = "WORKING")
      BY <1>4 DEF EndTurn, Write
    <2>. HIDE DEF s
    <2>2. Grew
      BY <1>2, <2>1 DEF Grew
    <2>3. queue' \in Seq(Entries)
      BY <1>4, EmptySeq DEF EndTurn, Data
    <2>. QED
      BY <1>3, <1>4, <2>1, <2>2, <2>3, GrewType DEF EndTurn, Data
  <1>5. ASSUME NEW n \in Nat, EndTurnFails(t, n)
        PROVE  Data' /\ Grew
    <2>1. /\ log' = log \o SubSeq(s, 1, n) /\ n <= Len(AfterScript(t))
          /\ state' = state \/ state' = EndState(run[t].end)
      BY <1>5 DEF EndTurnFails, Write
    <2>. HIDE DEF s
    <2>2. IsScript(SubSeq(s, 1, n))
      BY <1>2, <2>1, CutScript
    <2>3. Grew
      BY <2>1, <2>2 DEF Grew
    <2>4. queue' \in Seq(Entries)
      <3>1. n > 0 => n - 1 \in Nat
        OBVIOUS
      <3>. QED
        BY <1>5, <3>1, PoppedIs DEF EndTurnFails, Data
    <2>. QED
      BY <1>3, <1>5, <2>1, <2>3, <2>4, GrewType DEF EndTurnFails, Data
  <1>. QED
    BY <1>4, <1>5

\* The scripts that the death of the process can cut short.
LEMMA InProgressIs ==
  ASSUME Inv, Data, NEW s \in InProgress
  PROVE  IsScript(s)
  <1>1. \A t \in Runs : run[t].end \in Ends
    BY DEF Inv, TypeInv, RunRecord
  <1>2. IsScript(<<>>) /\ IsScript(DeliverScript(queue)) /\ \A r : IsScript(SendScript(r))
    BY ShortScripts, DeliverIs, SendIs DEF Data
  <1>3. \A t \in Runs : IsScript(<<EndEv(run[t].end)>> \o AfterScript(t))
    BY <1>1, AfterIs DEF Data
  <1>. QED
    BY <1>2, <1>3 DEF InProgress

\* The state that a cut script leaves.
LEMMA StateAfterIs ==
  ASSUME Data, NEW s, IsScript(s), NEW n \in Nat, n <= Len(s)
  PROVE  StateAfter(s, n) \in States
  <1>. DEFINE I == {i \in Nat : i \in 1 .. n /\ s[i].kind = "state"}
              IsLast(i) == s[i].kind = "state" /\ \A j \in i + 1 .. n : s[j].kind # "state"
  <1>1. Len(s) \in Nat /\ \A i \in 1 .. n : s[i] \in Event
    BY LenProperties, ElementOfSeq DEF IsScript
  <1>2. CASE \E i \in 1 .. n : s[i].kind = "state"
    <2>1. \E i \in 1 .. n : IsLast(i)
      <3>. DEFINE U == {u \in Nat : \A i \in I : i <= u}
      <3>1. U \in SUBSET Nat /\ n \in U
        OBVIOUS
      <3>2. PICK u \in U : \A k \in U : u <= k
        <4>. HIDE DEF U
        <4>. QED
          BY <3>1, LeastOf
      <3>3. u \in I
        <4>1. SUFFICES ASSUME u \notin I PROVE FALSE
          OBVIOUS
        <4>2. u # 0
          BY <1>2, <3>2
        <4>3. u - 1 \in Nat /\ \A i \in I : i <= u - 1
          BY <3>2, <4>1, <4>2
        <4>. QED
          BY <3>2, <4>3
      <3>4. \A j \in u + 1 .. n : s[j].kind # "state"
        BY <3>2
      <3>. QED
        BY <3>3, <3>4
    <2>2. \A i \in 1 .. n : IsLast(i) => s[i].state \in States
      BY <1>1, EventForm
    <2>3. StateAfter(s, n) = s[CHOOSE i \in 1 .. n : IsLast(i)].state
      BY <1>2 DEF StateAfter
    <2>. HIDE DEF IsLast
    <2>. QED
      BY <2>1, <2>2, <2>3
  <1>3. CASE ~\E i \in 1 .. n : s[i].kind = "state"
    BY <1>3 DEF StateAfter, Data
  <1>. QED
    BY <1>2, <1>3

\* Close, the death of the process and its restart.
LEMMA DataProcess ==
  ASSUME Inv, Data, Process
  PROVE  Data' /\ Grew
  <1>. USE DEF stored, memory
  <1>1. CASE CloseFlag \/ CloseInterrupts \/ CloseReturns
    BY <1>1, GrewNot DEF CloseFlag, CloseInterrupts, CloseReturns, Data
  <1>2. ASSUME Lost, Grew, state' \in States
        PROVE  Data' /\ Grew
    BY <1>2, GrewType, EmptySeq DEF Lost, Data
  <1>3. CASE Exit
    BY <1>2, <1>3, GrewNot DEF Exit, Data
  <1>4. CASE Crash
    <2>5. PICK s \in InProgress : \E n \in 0 .. Len(s) :
            Write(SubSeq(s, 1, n), StateAfter(s, n))
      BY <1>4 DEF Crash
    <2>1. PICK n \in 0 .. Len(s) : Write(SubSeq(s, 1, n), StateAfter(s, n))
      BY <2>5
    <2>2. IsScript(s) /\ n \in Nat /\ n <= Len(s)
      BY <2>1, InProgressIs, LenProperties DEF IsScript
    <2>3. IsScript(SubSeq(s, 1, n)) /\ StateAfter(s, n) \in States
      BY <2>2, CutScript, StateAfterIs
    <2>4. Grew /\ state' \in States
      BY <2>1, <2>3 DEF Grew, Write
    <2>. QED
      BY <1>2, <1>4, <2>4 DEF Crash
  <1>5. CASE Restart
    <2>1. Grew /\ (state' = state \/ state' = "STUCK")
      <3>1. CASE Write(<<StateEv("STUCK", "restarted")>>, "STUCK")
        BY <3>1, GrewOne, StatesRecorded DEF Plain
      <3>2. CASE UNCHANGED stored
        BY <3>2, GrewNot
      <3>. QED
        BY <1>5, <3>1, <3>2 DEF Restart
    <2>2. LoadQueue(log) \in Seq(Entries) /\ LoadAllowed(log) \subseteq Patterns
      <3>1. \A p \in Resolutions(log, "session") : p \in Prompts
        <4>1. \A i \in DOMAIN log : log[i] \in Event
          BY LenProperties, ElementOfSeq DEF Data
        <4>. QED
          BY <4>1, EventForm DEF Resolutions, OfPrompt
      <3>. QED
        BY <3>1, LoadType DEF Data, LoadAllowed
    <2>. QED
      BY <1>5, <2>1, <2>2, GrewType DEF Restart, Data, States
  <1>. QED
    BY <1>1, <1>3, <1>4, <1>5 DEF Process

------------------------------------------------------------------------------
(* Steps, as the prompts see them *)

\* What the turn t does between the request of a prompt and its resolution.
PromptStep(t) ==
  \/ \E p \in Prompts, pats \in SUBSET Patterns : Ask(t, p, pats)
  \/ Wait(t) \/ TakeAnswer(t) \/ GiveUp(t) \/ Resolve(t)

\* No goroutine gets to a prompt, away from one, or on with one.
SameWaits ==
  \A u \in Runs : \/ run'[u].pc = run[u].pc /\ run'[u].prompt = run[u].prompt
                  \/ run[u].pc \notin AtPrompt /\ run'[u].pc \notin AtPrompt

\* A step of the running process that is not about a prompt.
Elsewhere ==
  /\ up /\ up' /\ Grew /\ SameWaits
  /\ UNCHANGED <<prompts, offer, answer, allowed>>
  /\ spent'.asked = spent.asked /\ spent'.restarts = spent.restarts
  /\ spent'.fails >= spent.fails
  /\ (\E t \in Runs : run[t].pc = "waiting") => state' = state

\* How the counts change.
LEMMA SpentMoves ==
  ASSUME Inv, \/ spent' = spent
              \/ Fail
              \/ \E S : spent' = [spent EXCEPT !.sent = S]
              \/ \E n : spent' = [spent EXCEPT !.edits = n] \/ spent' = [spent EXCEPT !.compacts = n]
  PROVE  /\ spent'.asked = spent.asked /\ spent'.restarts = spent.restarts
         /\ spent'.fails >= spent.fails
  <1>1. spent \in SpentRecord /\ spent.fails \in Nat
    BY DEF Inv, TypeInv, SpentRecord
  <1>. QED
    BY <1>1 DEF Fail, SpentRecord

\* A goroutine that is not at a prompt moves to another such place.
LEMMA MovesElsewhere ==
  ASSUME Inv, NEW t \in Runs, NEW r, run' = [run EXCEPT ![t] = r],
         run[t].pc \notin AtPrompt, r.pc \notin AtPrompt
  PROVE  SameWaits
  <1>1. run \in [Runs -> RunRecord]
    BY DEF Inv, TypeInv
  <1>. QED
    BY <1>1 DEF SameWaits

\* A goroutine is told to stop.
LEMMA CancelElsewhere ==
  ASSUME Inv, NEW t \in Runs, run' = [run EXCEPT ![t].cancelled = TRUE]
  PROVE  SameWaits
  <1>1. run \in [Runs -> RunRecord]
    BY DEF Inv, TypeInv
  <1>. QED
    BY <1>1 DEF SameWaits, RunRecord

\* Nothing happens to goroutines.
LEMMA RestElsewhere ==
  ASSUME run' = run
  PROVE  SameWaits
  BY DEF SameWaits

\* Where runs begin and end.
LEMMA BeginsElsewhere ==
  /\ IdleRun.pc \notin AtPrompt
  /\ \A k \in {"turn", "compaction"} : NewRun(k).pc \notin AtPrompt
  BY NewRuns DEF AtPrompt

\* Clients only touch prompts by answering them.
LEMMA ClientElsewhere ==
  ASSUME Inv, Data, Client
  PROVE  Elsewhere \/ \E p \in Prompts, d \in Answers : AnswerPrompt(p, d)
  <1>. USE DEF stored, memory
  <1>1. Grew
    BY DataClient
  <1>2. ASSUME NEW m \in Msgs,
               SendMessage(m) \/ Enqueue(m) \/ EnqueueFails(m) \/ EditQueued(m) \/ CancelQueued(m)
        PROVE  Elsewhere
    <2>1. /\ up /\ up' /\ UNCHANGED <<run, prompts, offer, answer, allowed>> /\ state' = state
          /\ \/ spent' = spent
             \/ Fail
             \/ \E S : spent' = [spent EXCEPT !.sent = S]
             \/ \E n : spent' = [spent EXCEPT !.edits = n]
      BY <1>2 DEF SendMessage, Enqueue, EnqueueFails, EditQueued, CancelQueued, Write
    <2>. QED
      BY <1>1, <2>1, SpentMoves, RestElsewhere DEF Elsewhere
  <1>3. CASE SendEmpty \/ Compact \/ Refuse \/ CompactLater
    <2>1. /\ up /\ up' /\ UNCHANGED <<run, prompts, offer, answer, allowed>> /\ state' = state
          /\ spent' = spent \/ \E n : spent' = [spent EXCEPT !.compacts = n]
      BY <1>3 DEF SendEmpty, Compact, Refuse, CompactLater
    <2>. QED
      BY <1>1, <2>1, SpentMoves, RestElsewhere DEF Elsewhere
  <1>4. CASE Interrupt
    <2>1. /\ cancelTurn \in Runs /\ run' = [run EXCEPT ![cancelTurn].cancelled = TRUE]
          /\ up /\ up' /\ UNCHANGED <<prompts, offer, answer, allowed>> /\ state' = state
          /\ spent' = spent
      BY <1>4 DEF Interrupt, Inv, TypeInv
    <2>. QED
      BY <1>1, <2>1, SpentMoves, CancelElsewhere DEF Elsewhere
  <1>5. ASSUME NEW t \in Runs, NEW k \in {"turn", "compaction"}, up, up', Start(t, k),
               cancelTurn = None, UNCHANGED <<prompts, offer, answer, allowed, spent>>
        PROVE  Elsewhere
    <2>1. \A u \in Runs : run[u].pc = "idle"
      BY <1>5 DEF Inv, OneTurn, LiveRuns, Live
    <2>2. SameWaits
      BY <1>5, <2>1, BeginsElsewhere, MovesElsewhere DEF Start, AtPrompt
    <2>. QED
      BY <1>1, <1>5, <2>1, <2>2, SpentMoves DEF Elsewhere
  <1>6. ASSUME NEW r, NEW t \in Runs, SendStarts(r, t)
        PROVE  Elsewhere
    BY <1>5, <1>6 DEF SendStarts
  <1>7. ASSUME NEW r, NEW n, SendFails(r, n)
        PROVE  Elsewhere
    <2>1. /\ up /\ up' /\ UNCHANGED <<run, prompts, offer, answer, allowed>> /\ state' = state
          /\ Fail
      BY <1>7 DEF SendFails, Write
    <2>. QED
      BY <1>1, <2>1, SpentMoves, RestElsewhere DEF Elsewhere
  <1>8. ASSUME NEW t \in Runs, CompactNow(t)
        PROVE  Elsewhere
    <2>1. CASE UNCHANGED <<stored, cancelTurn, run>>
      <3>1. /\ up /\ up' /\ UNCHANGED <<run, prompts, offer, answer, allowed>> /\ state' = state
            /\ spent' = spent
        BY <1>8, <2>1 DEF CompactNow
      <3>. QED
        BY <1>1, <3>1, SpentMoves, RestElsewhere DEF Elsewhere
    <2>2. CASE Start(t, "compaction")
      BY <1>5, <1>8, <2>2 DEF CompactNow
    <2>. QED
      BY <1>8, <2>1, <2>2 DEF CompactNow
  <1>. QED
    BY <1>2, <1>3, <1>4, <1>6, <1>7, <1>8 DEF Client, Answers

\* A turn that is not at a prompt.
LEMMA TurnElsewhere ==
  ASSUME Inv, Data, Prompted, NEW t \in Runs, TurnStepOf(t)
  PROVE  Elsewhere \/ PromptStep(t)
  <1>. USE DEF stored, memory, Goto, EndWith, Write, TurnStepOf
  <1>1. SUFFICES ASSUME ~PromptStep(t) PROVE Elsewhere
    OBVIOUS
  <1>2. Grew
    BY <1>1, DataTurn DEF PromptStep
  <1>3. /\ run[t] \in RunRecord /\ run \in [Runs -> RunRecord]
    BY DEF Inv, TypeInv
  <1>4. /\ run[t].pc \notin AtPrompt /\ Live(t)
        /\ run' = [run EXCEPT ![t] = run'[t]]
        /\ up /\ up' /\ UNCHANGED <<prompts, offer, answer, allowed>>
        /\ spent' = spent \/ Fail
    BY <1>1, <1>3
    DEF StepLimit, Boundary, Compacted, CallCancelled, NextTool, ToolsDone, ToolDone,
        Stuck, Replied, BoundaryFails, PromptStep, Resume, AtPrompt, Live
  <1>5. run'[t].pc \notin AtPrompt
    BY <1>1, <1>3
    DEF StepLimit, Boundary, Compacted, CallCancelled, NextTool, ToolsDone, ToolDone,
        Stuck, Replied, BoundaryFails, PromptStep, Resume, AtPrompt, RunRecord
  <1>6. \A u \in Runs : run[u].pc # "waiting"
    BY <1>4, LiveIsCurrent DEF Live, AtPrompt
  <1>. QED
    BY <1>2, <1>4, <1>5, <1>6, SpentMoves, MovesElsewhere DEF Elsewhere

\* The end of a turn.
LEMMA EndElsewhere ==
  ASSUME Inv, Data, NEW t \in Runs,
         \/ \E u \in Runs : EndTurn(t, u)
         \/ \E n \in Nat : EndTurnFails(t, n)
  PROVE  Elsewhere
  <1>1. Grew
    BY DataEnd
  <1>2. /\ run[t].pc = "ended" /\ up /\ up' /\ UNCHANGED <<prompts, offer, answer, allowed>>
        /\ spent' = spent \/ Fail
    BY DEF EndTurn, EndTurnFails
  <1>3. \A u \in Runs : run[u].pc \notin AtPrompt
    BY <1>2, LiveIsCurrent DEF Live, AtPrompt
  <1>4. run \in [Runs -> RunRecord]
    BY DEF Inv, TypeInv
  <1>5. \A u \in Runs : run'[u].pc \notin AtPrompt
    <2>1. ASSUME run' = [run EXCEPT ![t] = IdleRun]
          PROVE  \A u \in Runs : run'[u].pc \notin AtPrompt
      BY <1>3, <1>4, <2>1, BeginsElsewhere
    <2>2. ASSUME NEW v \in Runs, NEW k \in {"turn", "compaction"},
                 run' = [run EXCEPT ![t] = IdleRun, ![v] = NewRun(k)]
          PROVE  \A u \in Runs : run'[u].pc \notin AtPrompt
      BY <1>3, <1>4, <2>2, BeginsElsewhere
    <2>3. After(t) # "nothing" => After(t) \in {"turn", "compaction"}
      BY DEF After
    <2>. QED
      BY <2>1, <2>2, <2>3 DEF EndTurn, EndTurnFails
  <1>6. SameWaits /\ \A u \in Runs : run[u].pc # "waiting"
    BY <1>3, <1>5 DEF SameWaits, AtPrompt
  <1>. QED
    BY <1>1, <1>2, <1>6, SpentMoves DEF Elsewhere

\* Close, and the end of the process.
LEMMA ProcessElsewhere ==
  ASSUME Inv, Data, Process
  PROVE  Elsewhere \/ (up /\ Lost /\ Grew) \/ (Restart /\ Grew)
  <1>. USE DEF stored, memory
  <1>1. Grew
    BY DataProcess
  <1>2. CASE CloseFlag \/ CloseInterrupts \/ CloseReturns
    <2>1. /\ up /\ up' /\ UNCHANGED <<prompts, offer, answer, allowed>> /\ state' = state
          /\ spent' = spent
      BY <1>2 DEF CloseFlag, CloseInterrupts, CloseReturns
    <2>2. SameWaits
      <3>1. CASE run' = run
        BY <3>1, RestElsewhere
      <3>2. CASE cancelTurn # None /\ run' = [run EXCEPT ![cancelTurn].cancelled = TRUE]
        BY <3>2, CancelElsewhere DEF Inv, TypeInv
      <3>. QED
        BY <1>2, <3>1, <3>2 DEF CloseFlag, CloseInterrupts, CloseReturns
    <2>. QED
      BY <1>1, <2>1, <2>2, SpentMoves DEF Elsewhere
  <1>3. CASE Exit \/ Crash
    BY <1>1, <1>3 DEF Exit, Crash
  <1>. QED
    BY <1>1, <1>2, <1>3 DEF Process

\* Every step is one of these.
LEMMA StepKinds ==
  ASSUME Inv, Data, Prompted, [Next]_vars
  PROVE  \/ Elsewhere
         \/ \E p \in Prompts, d \in Answers : AnswerPrompt(p, d)
         \/ \E t \in Runs : PromptStep(t)
         \/ up /\ Lost /\ Grew
         \/ Restart /\ Grew
         \/ UNCHANGED vars
  <1>1. CASE Client
    BY <1>1, ClientElsewhere
  <1>2. ASSUME NEW t \in Runs, Advance(t) \/ Trouble(t)
        PROVE  Elsewhere \/ PromptStep(t)
    <2>1. \A n \in 0 .. 2 * Len(queue) + 1 : n \in Nat
      OBVIOUS
    <2>2. \A n \in 0 .. 2 * Len(queue) : n \in Nat
      OBVIOUS
    <2>3. TurnStepOf(t) \/ (\E u \in Runs : EndTurn(t, u)) \/ (\E n \in Nat : EndTurnFails(t, n))
      BY <1>2, <2>1, <2>2 DEF Advance, Trouble, TurnStepOf
    <2>. QED
      BY <2>3, TurnElsewhere, EndElsewhere
  <1>3. CASE Process
    BY <1>3, ProcessElsewhere
  <1>. QED
    BY <1>1, <1>2, <1>3 DEF Next

------------------------------------------------------------------------------
(* The types *)

\* A goroutine at a prompt has a prompt, whatever is done next.
LEMMA PromptedNext ==
  ASSUME Inv, Data, Prompted, [Next]_vars
  PROVE  Prompted'
  <1>1. run \in [Runs -> RunRecord] /\ answer \in [Prompts -> {"none"} \cup Answers]
    BY DEF Inv, TypeInv, Data
  <1>2. CASE Elsewhere
    BY <1>2 DEF Elsewhere, SameWaits, Prompted, AtPrompt
  <1>3. ASSUME NEW p \in Prompts, NEW d \in Answers, AnswerPrompt(p, d)
        PROVE  Prompted'
    BY <1>1, <1>3 DEF AnswerPrompt, Prompted, AtPrompt
  <1>4. ASSUME NEW t \in Runs, PromptStep(t)
        PROVE  Prompted'
    <2>. USE DEF Goto
    <2>1. ASSUME NEW p \in Prompts, NEW pats \in SUBSET Patterns, Ask(t, p, pats)
          PROVE  Prompted'
      <3>1. CASE run' = run
        BY <2>1, <3>1 DEF Ask, Prompted
      <3>2. CASE run' = [run EXCEPT ![t].pc = "asked", ![t].prompt = p]
        <4>1. /\ run'[t].pc = "asked" /\ run'[t].prompt = p
              /\ \A u \in Runs \ {t} : run'[u] = run[u]
          BY <1>1, <3>2 DEF RunRecord
        <4>. QED
          BY <2>1, <4>1 DEF Ask, Prompted
      <3>. QED
        BY <2>1, <3>1, <3>2 DEF Ask
    <2>2. ASSUME NEW pc \in (AtPrompt \ {"answered"}) \cup {"tool", "resolved"},
                 run[t].pc \in AtPrompt, Goto(t, pc), answer' = answer
          PROVE  Prompted'
      <3>1. /\ run'[t].pc = pc /\ run'[t].prompt = run[t].prompt
            /\ \A u \in Runs \ {t} : run'[u] = run[u]
        BY <1>1, <2>2 DEF RunRecord
      <3>. QED
        BY <2>2, <3>1 DEF Prompted, AtPrompt
    <2>3. CASE TakeAnswer(t)
      <3>1. /\ run'[t].pc = "answered" /\ run'[t].prompt = run[t].prompt
            /\ \A u \in Runs \ {t} : run'[u] = run[u]
        BY <1>1, <2>3 DEF TakeAnswer, RunRecord
      <3>2. run[t].prompt \in Prompts /\ answer[run[t].prompt] \in Answers /\ answer' = answer
        BY <1>1, <2>3 DEF TakeAnswer, Prompted, AtPrompt
      <3>. QED
        BY <3>1, <3>2 DEF Prompted
    <2>4. CASE Wait(t) \/ GiveUp(t) \/ Resolve(t)
      <3>1. run[t].pc \in AtPrompt /\ answer' = answer
        BY <2>4 DEF Wait, GiveUp, Resolve, AtPrompt, memory
      <3>2. \E pc \in (AtPrompt \ {"answered"}) \cup {"tool", "resolved"} : Goto(t, pc)
        BY <2>4 DEF Wait, GiveUp, Resolve, AtPrompt
      <3>. QED
        BY <2>2, <3>1, <3>2
    <2>. QED
      BY <1>4, <2>1, <2>3, <2>4 DEF PromptStep
  <1>5. CASE Lost
    BY <1>5, BeginsElsewhere DEF Lost, Prompted, AtPrompt
  <1>6. CASE Restart
    BY <1>6 DEF Restart, Prompted
  <1>7. CASE UNCHANGED vars
    BY <1>7 DEF vars, Prompted
  <1>. QED
    BY <1>2, <1>3, <1>4, <1>5, <1>6, <1>7, StepKinds

\* Every step keeps the types.
LEMMA DataNext ==
  ASSUME Inv, Data, Prompted, [Next]_vars
  PROVE  Data'
  <1>1. CASE Client
    BY <1>1, DataClient
  <1>2. ASSUME NEW t \in Runs, Advance(t) \/ Trouble(t)
        PROVE  Data'
    <2>1. \A n \in 0 .. 2 * Len(queue) + 1 : n \in Nat
      OBVIOUS
    <2>2. \A n \in 0 .. 2 * Len(queue) : n \in Nat
      OBVIOUS
    <2>3. TurnStepOf(t) \/ (\E u \in Runs : EndTurn(t, u)) \/ (\E n \in Nat : EndTurnFails(t, n))
      BY <1>2, <2>1, <2>2 DEF Advance, Trouble, TurnStepOf
    <2>. QED
      BY <2>3, DataTurn, DataEnd
  <1>3. CASE Process
    BY <1>3, DataProcess
  <1>4. CASE UNCHANGED vars
    BY <1>4 DEF vars, Data
  <1>. QED
    BY <1>1, <1>2, <1>3, <1>4 DEF Next

Typed == Inv /\ Data /\ Prompted

\* The types hold in every state that can be reached.
LEMMA TypedAlways == Spec => []Typed
  <1>1. Init => Typed
    <2>1. Init => Prompted
      BY BeginsElsewhere DEF Init, Prompted, AtPrompt
    <2>. QED
      BY <2>1, InvInit, DataInit DEF Typed
  <1>2. Typed /\ [Next]_vars => Typed'
    BY InvNext, DataNext, PromptedNext DEF Typed
  <1>. QED
    BY <1>1, <1>2, PTL DEF Spec

\* Whatever a session stores and remembers keeps its type: the queue that a
\* restart rebuilds from the log is a queue again, and what it allows again are
\* patterns that a prompt offered (queue.go:18-36, session.go:448-510).
THEOREM SessionTypes == Spec => []TypeOK
  <1>1. Typed => TypeOK
    <2>. SUFFICES ASSUME Typed PROVE TypeOK
      OBVIOUS
    <2>1. \A i \in DOMAIN log : log[i].kind \in {"state"} \cup OfMsg \cup OfPrompt
      BY LenProperties, ElementOfSeq, EventForm DEF Typed, Data
    <2>2. \A i \in DOMAIN queue : queue[i] \in Entries
      BY LenProperties, ElementOfSeq DEF Typed, Data
    <2>. QED
      BY <2>1, <2>2
      DEF Typed, Data, Inv, TypeInv, TypeOK, Entries, OfMsg, OfPrompt, Answers
  <1>. QED
    BY <1>1, TypedAlways, PTL

------------------------------------------------------------------------------
(* Places of a log *)

AtIn(l, kind)  == {i \in DOMAIN l : l[i].kind = kind}
IdsIn(l, kind) == {l[i].id : i \in AtIn(l, kind)}

\* What is in a log stays there, and plain events say nothing of prompts.
LEMMA PlainGrowth ==
  ASSUME Data, Grew, NEW kind \in OfPrompt
  PROVE  /\ AtIn(log', kind) = AtIn(log, kind)
         /\ \A i \in AtIn(log, kind) : log'[i] = log[i]
         /\ IdsIn(log', kind) = IdsIn(log, kind)
  <1>1. PICK evs : IsScript(evs) /\ log' = log \o evs
    BY DEF Grew
  <1>2. /\ Len(log) \in Nat /\ Len(evs) \in Nat /\ DOMAIN log = 1 .. Len(log)
        /\ DOMAIN log' = 1 .. Len(log) + Len(evs)
        /\ \A i \in 1 .. Len(log) + Len(evs) :
             log'[i] = IF i <= Len(log) THEN log[i] ELSE evs[i - Len(log)]
    BY <1>1, ConcatProperties, LenProperties DEF IsScript, Data
  <1>3. \A i \in 1 .. Len(log) + Len(evs) : ~(i <= Len(log)) => log'[i].kind # kind
    <2>. SUFFICES ASSUME NEW i \in 1 .. Len(log) + Len(evs), ~(i <= Len(log))
                  PROVE  log'[i].kind # kind
      OBVIOUS
    <2>1. i - Len(log) \in 1 .. Len(evs) /\ log'[i] = evs[i - Len(log)]
      BY <1>2
    <2>2. evs[i - Len(log)].kind \in Plain
      BY <1>1, <2>1 DEF IsScript
    <2>. QED
      BY <2>1, <2>2 DEF Plain, OfPrompt, OfMsg
  <1>4. /\ AtIn(log', kind) = AtIn(log, kind)
        /\ \A i \in AtIn(log, kind) : log'[i] = log[i]
    BY <1>2, <1>3 DEF AtIn
  <1>. QED
    BY <1>4 DEF IdsIn

\* Plain events resolve nothing.
LEMMA SameResolutions ==
  ASSUME Data, Grew, NEW d
  PROVE  Resolutions(log', d) = Resolutions(log, d)
  <1>1. /\ AtIn(log', "resolved") = AtIn(log, "resolved")
        /\ \A i \in AtIn(log, "resolved") : log'[i] = log[i]
    <2>1. "resolved" \in OfPrompt
      BY DEF OfPrompt
    <2>. QED
      BY <2>1, PlainGrowth
  <1>2. \A l : Resolutions(l, d) =
                 {l[i].id : i \in {j \in AtIn(l, "resolved") : l[j].decision = d}}
    BY DEF Resolutions, AtIn
  <1>. DEFINE S(l) == {j \in AtIn(l, "resolved") : l[j].decision = d}
  <1>3. S(log') = S(log) /\ \A i \in S(log) : log'[i].id = log[i].id
    BY <1>1
  <1>4. /\ Resolutions(log, d) = {log[i].id : i \in S(log)}
        /\ Resolutions(log', d) = {log'[i].id : i \in S(log')}
    BY <1>2
  <1>. HIDE DEF S
  <1>. QED
    BY <1>3, <1>4

\* One more event.
LEMMA OneMore ==
  ASSUME NEW l \in Seq(Event), NEW e \in Event
  PROVE  /\ l \o <<e>> \in Seq(Event)
         /\ Len(l) \in Nat /\ Len(l \o <<e>>) = Len(l) + 1 /\ (l \o <<e>>)[Len(l) + 1] = e
         /\ \A i \in 1 .. Len(l) : (l \o <<e>>)[i] = l[i]
         /\ DOMAIN l = 1 .. Len(l) /\ DOMAIN (l \o <<e>>) = 1 .. Len(l) + 1
  BY AppendProperties, AppendIsConcat, LenProperties

\* ... of one kind,
LEMMA OneOfKind ==
  ASSUME NEW l \in Seq(Event), NEW e \in Event
  PROVE  /\ AtIn(l \o <<e>>, e.kind) = AtIn(l, e.kind) \cup {Len(l) + 1}
         /\ IdsIn(l \o <<e>>, e.kind) = IdsIn(l, e.kind) \cup {e.id}
         /\ (l \o <<e>>)[Len(l) + 1] = e
         /\ \A i \in AtIn(l, e.kind) : (l \o <<e>>)[i] = l[i] /\ i \in 1 .. Len(l)
  <1>. DEFINE k == l \o <<e>>
              n == Len(l) + 1
              kind == e.kind
  <1>1. /\ Len(l) \in Nat /\ DOMAIN l = 1 .. Len(l) /\ DOMAIN k = 1 .. n
        /\ k[n] = e /\ \A i \in 1 .. Len(l) : k[i] = l[i]
    BY OneMore
  <1>. HIDE DEF k
  <1>2. /\ \A i \in 1 .. n : i \in 1 .. Len(l) \/ i = n
        /\ n \in 1 .. n /\ \A i \in 1 .. Len(l) : i \in 1 .. n
    BY <1>1
  <1>. HIDE DEF n
  <1>3. AtIn(k, kind) = AtIn(l, kind) \cup {n}
    BY <1>1, <1>2 DEF AtIn
  <1>4. \A i \in AtIn(l, kind) : k[i] = l[i] /\ i \in 1 .. Len(l)
    BY <1>1 DEF AtIn
  <1>5. {k[i].id : i \in AtIn(k, kind)} = {l[i].id : i \in AtIn(l, kind)} \cup {k[n].id}
    BY <1>3, <1>4
  <1>. QED
    BY <1>1, <1>3, <1>4, <1>5 DEF IdsIn, k, n

\* ... and of all the others.
LEMMA OtherKinds ==
  ASSUME NEW l \in Seq(Event), NEW e \in Event, NEW kind, e.kind # kind
  PROVE  /\ AtIn(l \o <<e>>, kind) = AtIn(l, kind)
         /\ IdsIn(l \o <<e>>, kind) = IdsIn(l, kind)
         /\ \A i \in AtIn(l, kind) : (l \o <<e>>)[i] = l[i] /\ i \in 1 .. Len(l)
  <1>. DEFINE k == l \o <<e>>
              n == Len(l) + 1
  <1>1. /\ Len(l) \in Nat /\ DOMAIN l = 1 .. Len(l) /\ DOMAIN k = 1 .. n
        /\ k[n] = e /\ \A i \in 1 .. Len(l) : k[i] = l[i]
    BY OneMore
  <1>. HIDE DEF k
  <1>2. /\ \A i \in 1 .. n : i \in 1 .. Len(l) \/ i = n
        /\ \A i \in 1 .. Len(l) : i \in 1 .. n
    BY <1>1
  <1>. HIDE DEF n
  <1>3. AtIn(k, kind) = AtIn(l, kind)
    BY <1>1, <1>2 DEF AtIn
  <1>4. \A i \in AtIn(l, kind) : k[i] = l[i] /\ i \in 1 .. Len(l)
    BY <1>1 DEF AtIn
  <1>. QED
    BY <1>3, <1>4 DEF IdsIn, k

------------------------------------------------------------------------------
(* The prompts *)

\* The prompts the goroutines are at, given what they do.
HeldIn(r) == {r[t].prompt : t \in {u \in Runs : r[u].pc \in AtPrompt}}

\* The prompts that the log leaves open.
OpenIn(l) == IdsIn(l, "asked") \ IdsIn(l, "resolved")

\* A prompt is asked once, and one that is answered is out of the map.
AskedOnce ==
  /\ IdsIn(log, "asked") \cup IdsIn(log, "resolved") \cup prompts \subseteq spent.asked
  /\ \A p \in Prompts : answer[p] # "none" => p \in spent.asked \ prompts

\* A prompt is resolved once.  The open ones are those that goroutines are at,
\* and one for each failed append and each death of the process.
ResolvedOnce ==
  /\ \A i, j \in AtIn(log, "resolved") : log[i].id = log[j].id => i = j
  /\ HeldIn(run) \subseteq OpenIn(log)
  /\ IsFiniteSet(OpenIn(log))
  /\ Cardinality(OpenIn(log) \ HeldIn(run))
       <= spent.fails + spent.restarts + (IF up THEN 0 ELSE 1)

\* A goroutine that waits can get an answer, and one that got it knows what it
\* allows.
Answerable ==
  \A t \in Runs :
    LET p == run[t].prompt IN
    /\ run[t].pc = "waiting" => state = "WAITING"
    /\ run[t].pc \in {"asked", "waiting"} => p \in prompts \/ answer[p] # "none"
    /\ run[t].pc = "answered" /\ answer[p] = "session" => offer[p] \subseteq allowed

\* What a goroutine has taken for allowed and not recorded yet.
UnrecordedIn(r, a, o) ==
  UNION {o[r[t].prompt] :
           t \in {u \in Runs : r[u].pc = "answered" /\ a[r[u].prompt] = "session"}}
Unrecorded == UnrecordedIn(run, answer, offer)

\* What is allowed is in the log, but for that, and for what could not be
\* recorded.
AllowedKnown ==
  up => /\ LoadAllowed(log) \subseteq allowed
        /\ spent.fails = 0 => allowed \subseteq LoadAllowed(log) \cup Unrecorded

PromptInv == AskedOnce /\ ResolvedOnce /\ Answerable /\ AllowedKnown

\* Who is at a prompt.
LEMMA HeldIs ==
  ASSUME NEW r, NEW t \in Runs, \A u \in Runs \ {t} : r[u].pc \notin AtPrompt
  PROVE  HeldIn(r) = IF r[t].pc \in AtPrompt THEN {r[t].prompt} ELSE {}
  BY DEF HeldIn

\* ... when no goroutine is.
LEMMA HeldByNone ==
  ASSUME NEW r, \A u \in Runs : r[u].pc \notin AtPrompt
  PROVE  HeldIn(r) = {}
  BY DEF HeldIn

\* A step that is not about a prompt keeps all of it.
LEMMA PromptsElsewhere ==
  ASSUME Typed, Typed', PromptInv, Elsewhere
  PROVE  PromptInv'
  <1>. USE DEF Typed, PromptInv
  <1>1. /\ \A kind \in OfPrompt : /\ AtIn(log', kind) = AtIn(log, kind)
                                  /\ IdsIn(log', kind) = IdsIn(log, kind)
                                  /\ \A i \in AtIn(log, kind) : log'[i] = log[i]
    BY PlainGrowth DEF Elsewhere
  <1>2. /\ OpenIn(log') = OpenIn(log)
        /\ IdsIn(log', "asked") = IdsIn(log, "asked")
        /\ IdsIn(log', "resolved") = IdsIn(log, "resolved")
    BY <1>1 DEF OpenIn, OfPrompt
  <1>3. HeldIn(run') = HeldIn(run)
    BY DEF Elsewhere, SameWaits, HeldIn
  <1>4. AskedOnce'
    BY <1>2 DEF Elsewhere, AskedOnce
  <1>5. ResolvedOnce'
    <2>1. \A i, j \in AtIn(log', "resolved") : log'[i].id = log'[j].id => i = j
      BY <1>1 DEF ResolvedOnce, OfPrompt
    <2>2. /\ spent.fails \in Nat /\ spent.restarts \in Nat
          /\ spent'.fails \in Nat /\ spent'.restarts = spent.restarts
          /\ spent'.fails >= spent.fails /\ up /\ up'
      <3>1. spent \in SpentRecord /\ spent' \in SpentRecord
        BY DEF Inv, TypeInv
      <3>. QED
        BY <3>1 DEF Elsewhere, SpentRecord
    <2>3. Cardinality(OpenIn(log) \ HeldIn(run)) \in Nat
      BY FS_Subset, FS_CardinalityType DEF ResolvedOnce
    <2>. QED
      BY <1>2, <1>3, <2>1, <2>2, <2>3 DEF ResolvedOnce
  <1>6. Answerable'
    BY DEF Elsewhere, SameWaits, Answerable, AtPrompt
  <1>7. AllowedKnown'
    <2>1. LoadAllowed(log)' = LoadAllowed(log)
      <3>1. Resolutions(log', "session") = Resolutions(log, "session")
        BY SameResolutions DEF Elsewhere
      <3>. QED
        BY <3>1 DEF LoadAllowed, Elsewhere
    <2>2. Unrecorded' = Unrecorded
      <3>. DEFINE U == {u \in Runs : run[u].pc = "answered" /\ answer[run[u].prompt] = "session"}
                  V == {u \in Runs : run'[u].pc = "answered" /\ answer[run'[u].prompt] = "session"}
      <3>1. U = V /\ \A t \in U : run'[t].prompt = run[t].prompt
        BY DEF Elsewhere, SameWaits, AtPrompt
      <3>2. /\ Unrecorded = UNION {offer[run[t].prompt] : t \in U}
            /\ Unrecorded' = UNION {offer[run'[t].prompt] : t \in V}
        BY DEF Elsewhere, Unrecorded, UnrecordedIn
      <3>. HIDE DEF U, V
      <3>3. {offer[run[t].prompt] : t \in U} = {offer[run'[t].prompt] : t \in V}
        BY <3>1
      <3>. QED
        BY <3>2, <3>3
    <2>3. spent'.fails = 0 => spent.fails = 0
      <3>1. spent.fails \in Nat /\ spent'.fails \in Nat
        BY DEF Inv, TypeInv, SpentRecord
      <3>. QED
        BY <3>1 DEF Elsewhere
    <2>. QED
      BY <2>1, <2>2, <2>3 DEF AllowedKnown, Elsewhere
  <1>. QED
    BY <1>4, <1>5, <1>6, <1>7

\* The goroutine that is about a prompt is the only one.
LEMMA PromptAlone ==
  ASSUME Typed, NEW t \in Runs, PromptStep(t)
  PROVE  /\ up /\ up' /\ run[t].pc \in AtPrompt \cup {"tool"} /\ run[t] \in RunRecord
         /\ run \in [Runs -> RunRecord]
         /\ \A u \in Runs \ {t} : run[u].pc = "idle" /\ run'[u] = run[u]
         /\ HeldIn(run) = IF run[t].pc \in AtPrompt THEN {run[t].prompt} ELSE {}
         /\ HeldIn(run') = IF run'[t].pc \in AtPrompt THEN {run'[t].prompt} ELSE {}
  <1>. USE DEF PromptStep, Typed
  <1>1. /\ run[t] \in RunRecord /\ run \in [Runs -> RunRecord]
    BY DEF Inv, TypeInv
  <1>2. up /\ up' /\ run[t].pc \in AtPrompt \cup {"tool"}
    <2>1. ASSUME NEW p, NEW pats, Ask(t, p, pats)
          PROVE  up /\ up' = up /\ run[t].pc = "tool"
      BY <2>1 DEF Ask
    <2>2. ASSUME Wait(t) \/ TakeAnswer(t) \/ GiveUp(t) \/ Resolve(t)
          PROVE  up /\ up' = up /\ run[t].pc \in AtPrompt
      BY <2>2 DEF Wait, TakeAnswer, GiveUp, Resolve, AtPrompt
    <2>. QED
      BY <2>1, <2>2
  <1>3. \A u \in Runs \ {t} : run'[u] = run[u]
    BY <1>1 DEF Ask, Wait, TakeAnswer, GiveUp, Resolve, Goto
  <1>4. Live(t)
    BY <1>2 DEF Live, AtPrompt
  <1>5. \A u \in Runs \ {t} : run[u].pc = "idle"
    BY <1>4, LiveIsCurrent DEF Live
  <1>6. \A u \in Runs \ {t} : run[u].pc \notin AtPrompt /\ run'[u].pc \notin AtPrompt
    BY <1>3, <1>5 DEF AtPrompt
  <1>. QED
    BY <1>1, <1>2, <1>3, <1>5, <1>6, HeldIs

\* The counts, and what the parts of a goroutine's record are after Goto.
LEMMA Counts ==
  ASSUME Typed
  PROVE  spent \in SpentRecord /\ spent.fails \in Nat /\ spent.restarts \in Nat
  BY DEF Typed, Inv, TypeInv, SpentRecord

\* Goto changes one goroutine's place, and no prompt it is at.
LEMMA GotoIs ==
  ASSUME Typed, NEW t \in Runs, NEW pc, Goto(t, pc)
  PROVE  /\ run'[t].pc = pc /\ run'[t].prompt = run[t].prompt
         /\ \A u \in Runs \ {t} : run'[u] = run[u]
  BY DEF Typed, Inv, TypeInv, RunRecord, Goto

\* A prompt that a goroutine is no longer at may stay open, if that is paid for.
LEMMA LeftOpen ==
  ASSUME ResolvedOnce, NEW p, HeldIn(run) \subseteq {p}
  PROVE  /\ IsFiniteSet(OpenIn(log)) /\ Cardinality(OpenIn(log)) \in Nat
         /\ Cardinality(OpenIn(log) \ HeldIn(run)) \in Nat
         /\ Cardinality(OpenIn(log)) <= Cardinality(OpenIn(log) \ HeldIn(run)) + 1
  <1>. DEFINE O == OpenIn(log)
              R == OpenIn(log) \ HeldIn(run)
  <1>1. IsFiniteSet(O) /\ IsFiniteSet(R) /\ IsFiniteSet(R \cup {p}) /\ O \subseteq R \cup {p}
    BY FS_Subset, FS_AddElement DEF ResolvedOnce
  <1>. HIDE DEF O, R
  <1>2. /\ Cardinality(O) \in Nat /\ Cardinality(R) \in Nat
        /\ Cardinality(O) <= Cardinality(R \cup {p})
        /\ Cardinality(R \cup {p}) <= Cardinality(R) + 1
    BY <1>1, FS_CardinalityType, FS_Subset, FS_AddElement
  <1>3. Cardinality(R \cup {p}) \in Nat
    BY <1>1, FS_CardinalityType
  <1>. QED
    BY <1>1, <1>2, <1>3 DEF O, R

\* The turn gives up on a prompt whose event could not be recorded.
LEMMA PromptDropped ==
  ASSUME Typed, PromptInv, NEW t \in Runs, PromptStep(t), Fail, Goto(t, "tool"),
         UNCHANGED <<stored, prompts, offer, answer, allowed>>
  PROVE  PromptInv'
  <1>. USE DEF Typed, PromptInv, stored
  <1>1. /\ up /\ up' /\ HeldIn(run') = {} /\ HeldIn(run) \subseteq {run[t].prompt}
        /\ \A u \in Runs : run'[u].pc \notin AtPrompt
    <2>1. run'[t].pc = "tool" /\ \A u \in Runs \ {t} : run'[u] = run[u] /\ run[u].pc = "idle"
      BY GotoIs, PromptAlone
    <2>2. \A u \in Runs : run'[u].pc \notin AtPrompt
      BY <2>1 DEF AtPrompt
    <2>. QED
      BY <2>2, PromptAlone, HeldByNone
  <1>2. /\ spent'.asked = spent.asked /\ spent'.restarts = spent.restarts
        /\ spent'.fails = spent.fails + 1 /\ spent.fails \in Nat /\ spent.restarts \in Nat
    BY Counts DEF Fail, SpentRecord
  <1>3. AskedOnce'
    BY <1>2 DEF AskedOnce
  <1>4. ResolvedOnce'
    <2>1. Cardinality(OpenIn(log)) <= spent'.fails + spent'.restarts
      <3>1. /\ Cardinality(OpenIn(log)) \in Nat
            /\ Cardinality(OpenIn(log) \ HeldIn(run)) \in Nat
            /\ Cardinality(OpenIn(log)) <= Cardinality(OpenIn(log) \ HeldIn(run)) + 1
        BY <1>1, LeftOpen
      <3>2. Cardinality(OpenIn(log) \ HeldIn(run)) <= spent.fails + spent.restarts + 0
        BY <1>1 DEF ResolvedOnce
      <3>. QED
        BY <1>2, <3>1, <3>2
    <2>2. OpenIn(log') \ HeldIn(run') = OpenIn(log)
      BY <1>1
    <2>. QED
      BY <1>1, <2>1, <2>2, <1>2 DEF ResolvedOnce
  <1>5. Answerable'
    BY <1>1 DEF Answerable, AtPrompt
  <1>6. AllowedKnown'
    <2>1. spent'.fails # 0
      BY <1>2
    <2>. QED
      BY <1>1, <2>1 DEF AllowedKnown, LoadAllowed
  <1>. QED
    BY <1>3, <1>4, <1>5, <1>6

\* A prompt is requested.
LEMMA PromptAsked ==
  ASSUME Typed, PromptInv, NEW t \in Runs, NEW p \in Prompts, NEW pats \in SUBSET Patterns,
         Ask(t, p, pats)
  PROVE  PromptInv'
  <1>. USE DEF Typed, PromptInv, stored
  <1>1. PromptStep(t) /\ run[t].pc = "tool" /\ p \notin spent.asked
    BY DEF PromptStep, Ask
  <1>2. /\ up /\ up' /\ run[t].pc \notin AtPrompt /\ HeldIn(run) = {}
        /\ \A u \in Runs \ {t} : run[u].pc = "idle" /\ run'[u] = run[u]
    BY <1>1, PromptAlone DEF AtPrompt
  <1>3. /\ prompts' = prompts \cup {p} /\ offer' = [offer EXCEPT ![p] = pats]
        /\ UNCHANGED <<answer, allowed>>
    BY DEF Ask
  <1>4. /\ p \notin IdsIn(log, "asked") /\ p \notin IdsIn(log, "resolved")
        /\ answer[p] = "none"
        /\ \A q \in Resolutions(log, "session") : q # p /\ q \in Prompts
    <2>1. \A q \in Resolutions(log, "session") : q \in IdsIn(log, "resolved")
      BY DEF Resolutions, IdsIn, AtIn
    <2>2. \A q \in Resolutions(log, "session") : q \in Prompts
      <3>1. \A i \in DOMAIN log : log[i] \in Event
        BY LenProperties, ElementOfSeq DEF Data
      <3>. QED
        BY <3>1, EventForm DEF Resolutions, OfPrompt
    <2>. QED
      BY <1>1, <2>1, <2>2 DEF AskedOnce
  <1>5. LoadAllowed(log) = UNION {offer'[q] : q \in Resolutions(log, "session")}
    <2>1. \A q \in Resolutions(log, "session") : offer'[q] = offer[q]
      BY <1>3, <1>4 DEF Data
    <2>2. {offer'[q] : q \in Resolutions(log, "session")} = {offer[q] : q \in Resolutions(log, "session")}
      BY <2>1
    <2>. QED
      BY <2>2 DEF LoadAllowed
  <1>6. Unrecorded = {}
    <2>1. \A u \in Runs : run[u].pc # "answered"
      BY <1>1, <1>2
    <2>. QED
      BY <2>1 DEF Unrecorded, UnrecordedIn
  <1>7. CASE /\ spent' = [spent EXCEPT !.asked = @ \cup {p}, !.fails = @ + 1]
             /\ UNCHANGED <<stored, run>>
    <2>. DEFINE a == spent.asked \cup {p}
                f == spent.fails + 1
    <2>1. spent' = [spent EXCEPT !.asked = a, !.fails = f]
      BY <1>7
    <2>2. /\ spent'.asked = a /\ spent'.fails = f /\ spent'.restarts = spent.restarts
      <3>. HIDE DEF a, f
      <3>. QED
        BY <2>1, Counts DEF SpentRecord
    <2>3. AskedOnce'
      BY <1>3, <1>4, <1>7, <2>2 DEF AskedOnce
    <2>4. ResolvedOnce'
      <3>1. Cardinality(OpenIn(log) \ HeldIn(run)) \in Nat
        BY <1>2, LeftOpen
      <3>. QED
        BY <1>2, <1>7, <2>2, <3>1, Counts DEF ResolvedOnce
    <2>5. Answerable'
      BY <1>1, <1>2, <1>3, <1>7 DEF Answerable
    <2>6. AllowedKnown'
      <3>1. spent'.fails # 0
        BY <2>2, Counts
      <3>2. LoadAllowed(log)' = LoadAllowed(log)
        BY <1>5, <1>7 DEF LoadAllowed
      <3>. QED
        BY <1>2, <1>3, <3>1, <3>2 DEF AllowedKnown
    <2>. QED
      BY <2>3, <2>4, <2>5, <2>6
  <1>8. CASE /\ Write(<<AskedEv(p)>>, state)
             /\ run' = [run EXCEPT ![t].pc = "asked", ![t].prompt = p]
             /\ spent' = [spent EXCEPT !.asked = @ \cup {p}]
    <2>1. /\ spent'.asked = spent.asked \cup {p} /\ spent'.fails = spent.fails
          /\ spent'.restarts = spent.restarts
      BY <1>8, Counts DEF SpentRecord
    <2>2. run'[t].pc = "asked" /\ run'[t].prompt = p
      BY <1>1, <1>8, PromptAlone DEF RunRecord
    <2>3. AskedEv(p) \in Event /\ AskedEv(p).kind = "asked" /\ AskedEv(p).id = p
      BY EventKinds
    <2>4. log' = log \o <<AskedEv(p)>> /\ state' = state /\ log \in Seq(Event)
      BY <1>8 DEF Write, Data
    <2>5. /\ IdsIn(log', "asked") = IdsIn(log, "asked") \cup {p}
          /\ IdsIn(log', "resolved") = IdsIn(log, "resolved")
          /\ AtIn(log', "resolved") = AtIn(log, "resolved")
          /\ \A i \in AtIn(log, "resolved") : log'[i] = log[i]
      <3>1. IdsIn(log', "asked") = IdsIn(log, "asked") \cup {p}
        <4>. DEFINE e == AskedEv(p)
        <4>. HIDE DEF e
        <4>1. e \in Event /\ e.kind = "asked" /\ e.id = p /\ log \in Seq(Event)
          BY <2>3, <2>4 DEF e
        <4>2. IdsIn(log \o <<e>>, e.kind) = IdsIn(log, e.kind) \cup {e.id}
          BY <4>1, OneOfKind
        <4>. QED
          BY <2>4, <4>1, <4>2 DEF e
      <3>2. /\ IdsIn(log', "resolved") = IdsIn(log, "resolved")
            /\ AtIn(log', "resolved") = AtIn(log, "resolved")
            /\ \A i \in AtIn(log, "resolved") : log'[i] = log[i]
        BY <2>3, <2>4, OtherKinds
      <3>. QED
        BY <3>1, <3>2
    <2>6. HeldIn(run') = {p} /\ OpenIn(log') = OpenIn(log) \cup {p} /\ p \notin OpenIn(log)
      <3>1. HeldIn(run') = {p}
        BY <1>1, <2>2, PromptAlone DEF AtPrompt
      <3>. QED
        BY <1>4, <2>5, <3>1 DEF OpenIn
    <2>7. AskedOnce'
      BY <1>3, <1>4, <2>1, <2>5 DEF AskedOnce
    <2>8. ResolvedOnce'
      <3>1. /\ IsFiniteSet(OpenIn(log')) /\ OpenIn(log') \ HeldIn(run') = OpenIn(log) \ HeldIn(run)
        BY <1>2, <2>6, FS_AddElement DEF ResolvedOnce
      <3>2. \A i, j \in AtIn(log', "resolved") : log'[i].id = log'[j].id => i = j
        BY <2>5 DEF ResolvedOnce
      <3>3. HeldIn(run') \subseteq OpenIn(log')
        BY <2>6
      <3>. QED
        BY <1>2, <2>1, <3>1, <3>2, <3>3 DEF ResolvedOnce
    <2>9. Answerable'
      <3>1. \A u \in Runs \ {t} : run'[u].pc = "idle"
        BY <1>2
      <3>. QED
        BY <1>3, <2>2, <3>1 DEF Answerable
    <2>10. AllowedKnown'
      <3>1. Resolutions(log', "session") = Resolutions(log, "session")
        BY <2>5 DEF Resolutions, AtIn
      <3>2. LoadAllowed(log)' = LoadAllowed(log)
        BY <1>5, <3>1 DEF LoadAllowed
      <3>. QED
        BY <1>2, <1>3, <1>6, <2>1, <3>2 DEF AllowedKnown
    <2>. QED
      BY <2>7, <2>8, <2>9, <2>10
  <1>. QED
    BY <1>7, <1>8 DEF Ask

\* The prompts that are open are, as long as goroutines stay at theirs.
LEMMA SameOpen ==
  ASSUME Typed, PromptInv, Grew, HeldIn(run') = HeldIn(run), up, up', spent' = spent
  PROVE  /\ ResolvedOnce' /\ OpenIn(log') = OpenIn(log)
         /\ \A kind \in OfPrompt : IdsIn(log', kind) = IdsIn(log, kind)
  <1>. USE DEF Typed, PromptInv
  <1>1. /\ \A kind \in OfPrompt : IdsIn(log', kind) = IdsIn(log, kind)
        /\ AtIn(log', "resolved") = AtIn(log, "resolved")
        /\ \A i \in AtIn(log, "resolved") : log'[i] = log[i]
    BY PlainGrowth DEF OfPrompt
  <1>2. OpenIn(log') = OpenIn(log)
    BY <1>1 DEF OpenIn, OfPrompt
  <1>. QED
    BY <1>1, <1>2 DEF ResolvedOnce

\* What the only goroutine at work has not recorded.
LEMMA UnrecordedIs ==
  ASSUME NEW r, NEW a, NEW o, NEW t \in Runs, \A u \in Runs \ {t} : r[u].pc # "answered"
  PROVE  UnrecordedIn(r, a, o) =
           IF r[t].pc = "answered" /\ a[r[t].prompt] = "session" THEN o[r[t].prompt] ELSE {}
  BY DEF UnrecordedIn

\* A turn waits, takes the answer, or gives up: the prompt stays open.
LEMMA PromptGoesOn ==
  ASSUME Typed, PromptInv, NEW t \in Runs, PromptStep(t), run[t].pc \in AtPrompt,
         NEW pc \in AtPrompt, Goto(t, pc), Grew, spent' = spent, offer' = offer, answer' = answer
  PROVE  /\ ResolvedOnce' /\ LoadAllowed(log)' = LoadAllowed(log)
         /\ IdsIn(log', "asked") = IdsIn(log, "asked")
         /\ IdsIn(log', "resolved") = IdsIn(log, "resolved")
         /\ up /\ up'
         /\ run'[t].pc = pc /\ run'[t].prompt = run[t].prompt
         /\ \A u \in Runs \ {t} : run[u].pc = "idle" /\ run'[u].pc = "idle"
  <1>1. /\ up /\ up' /\ run'[t].pc = pc /\ run'[t].prompt = run[t].prompt
        /\ \A u \in Runs \ {t} : run[u].pc = "idle" /\ run'[u].pc = "idle"
    BY GotoIs, PromptAlone
  <1>2. HeldIn(run') = HeldIn(run)
    <2>1. HeldIn(run) = {run[t].prompt}
      BY PromptAlone
    <2>2. run'[t].pc \in AtPrompt
      BY <1>1
    <2>3. HeldIn(run') = {run'[t].prompt}
      BY <2>2, PromptAlone
    <2>. QED
      BY <1>1, <2>1, <2>3
  <1>3. Resolutions(log', "session") = Resolutions(log, "session")
    BY SameResolutions DEF Typed
  <1>4. LoadAllowed(log)' = LoadAllowed(log)
    BY <1>3 DEF LoadAllowed
  <1>5. ResolvedOnce' /\ \A kind \in OfPrompt : IdsIn(log', kind) = IdsIn(log, kind)
    BY <1>1, <1>2, SameOpen
  <1>. QED
    BY <1>1, <1>4, <1>5 DEF OfPrompt

\* A turn shows as waiting.
LEMMA PromptWaits ==
  ASSUME Typed, PromptInv, NEW t \in Runs, Wait(t)
  PROVE  PromptInv'
  <1>. USE DEF PromptInv, stored, memory
  <1>1. PromptStep(t) /\ run[t].pc = "asked" /\ UNCHANGED <<prompts, offer, answer, allowed>>
    BY DEF PromptStep, Wait
  <1>2. CASE Fail /\ Goto(t, "tool") /\ UNCHANGED stored
    BY <1>1, <1>2, PromptDropped
  <1>3. CASE Write(<<StateEv("WAITING", "")>>, "WAITING") /\ Goto(t, "waiting") /\ spent' = spent
    <2>1. Grew /\ state' = "WAITING"
      <3>1. /\ StateEv("WAITING", "") \in Event /\ StateEv("WAITING", "").kind \in Plain
        BY StatesRecorded, EventKinds DEF Plain
      <3>. QED
        BY <1>3, <3>1, GrewOne
    <2>2. /\ ResolvedOnce' /\ LoadAllowed(log)' = LoadAllowed(log)
          /\ IdsIn(log', "asked") = IdsIn(log, "asked")
          /\ IdsIn(log', "resolved") = IdsIn(log, "resolved")
          /\ up /\ up'
          /\ run'[t].pc = "waiting" /\ run'[t].prompt = run[t].prompt
          /\ \A u \in Runs \ {t} : run[u].pc = "idle" /\ run'[u].pc = "idle"
      BY <1>1, <1>3, <2>1, PromptGoesOn DEF AtPrompt
    <2>3. AskedOnce'
      BY <1>1, <1>3, <2>2 DEF AskedOnce
    <2>4. Answerable'
      BY <1>1, <2>1, <2>2 DEF Answerable
    <2>5. Unrecorded = {} /\ Unrecorded' = {}
      BY <1>1, <2>2, UnrecordedIs DEF Unrecorded
    <2>6. AllowedKnown'
      BY <1>1, <1>3, <2>2, <2>5 DEF AllowedKnown
    <2>. QED
      BY <2>2, <2>3, <2>4, <2>6
  <1>. QED
    BY <1>2, <1>3 DEF Wait

\* The answer reaches the turn.
LEMMA PromptTaken ==
  ASSUME Typed, PromptInv, NEW t \in Runs, TakeAnswer(t)
  PROVE  PromptInv'
  <1>. USE DEF PromptInv, stored
  <1>1. /\ PromptStep(t) /\ run[t].pc = "waiting" /\ Goto(t, "answered")
        /\ UNCHANGED <<prompts, offer, answer, spent, log>>
    BY DEF PromptStep, TakeAnswer
  <1>2. /\ ResolvedOnce' /\ LoadAllowed(log)' = LoadAllowed(log)
        /\ IdsIn(log', "asked") = IdsIn(log, "asked")
        /\ IdsIn(log', "resolved") = IdsIn(log, "resolved")
        /\ up /\ up'
        /\ run'[t].pc = "answered" /\ run'[t].prompt = run[t].prompt
        /\ \A u \in Runs \ {t} : run[u].pc = "idle" /\ run'[u].pc = "idle"
    <2>1. Grew
      BY <1>1, GrewNot DEF Typed
    <2>. QED
      BY <1>1, <2>1, PromptGoesOn DEF AtPrompt
  <1>3. AskedOnce'
    BY <1>1, <1>2 DEF AskedOnce
  <1>4. allowed' = IF answer[run[t].prompt] = "session" THEN allowed \cup offer[run[t].prompt]
                   ELSE allowed
    BY DEF TakeAnswer
  <1>5. Answerable'
    BY <1>1, <1>2, <1>4 DEF Answerable
  <1>6. /\ Unrecorded = {}
        /\ Unrecorded' = IF answer[run[t].prompt] = "session" THEN offer[run[t].prompt] ELSE {}
    <2>1. \A u \in Runs \ {t} : run[u].pc # "answered" /\ run'[u].pc # "answered"
      BY <1>2
    <2>2. Unrecorded = {}
      BY <1>1, <2>1, UnrecordedIs DEF Unrecorded
    <2>3. Unrecorded' = UnrecordedIn(run', answer, offer)
      BY <1>1 DEF Unrecorded
    <2>4. UnrecordedIn(run', answer, offer) =
            IF answer[run[t].prompt] = "session" THEN offer[run[t].prompt] ELSE {}
      <3>1. UnrecordedIn(run', answer, offer) =
              IF run'[t].pc = "answered" /\ answer[run'[t].prompt] = "session"
                THEN offer[run'[t].prompt] ELSE {}
        BY <2>1, UnrecordedIs
      <3>. QED
        BY <1>2, <3>1
    <2>. QED
      BY <2>2, <2>3, <2>4
  <1>7. AllowedKnown'
    BY <1>1, <1>2, <1>4, <1>6 DEF AllowedKnown
  <1>. QED
    BY <1>2, <1>3, <1>5, <1>7

\* The turn gives up on the prompt.
LEMMA PromptGivenUp ==
  ASSUME Typed, PromptInv, NEW t \in Runs, GiveUp(t)
  PROVE  PromptInv'
  <1>. USE DEF PromptInv, stored
  <1>1. /\ PromptStep(t) /\ run[t].pc = "waiting" /\ Goto(t, "gaveup")
        /\ prompts' = prompts \ {run[t].prompt}
        /\ UNCHANGED <<offer, answer, allowed, spent, log>>
    BY DEF PromptStep, GiveUp
  <1>2. /\ ResolvedOnce' /\ LoadAllowed(log)' = LoadAllowed(log)
        /\ IdsIn(log', "asked") = IdsIn(log, "asked")
        /\ IdsIn(log', "resolved") = IdsIn(log, "resolved")
        /\ up /\ up'
        /\ run'[t].pc = "gaveup" /\ run'[t].prompt = run[t].prompt
        /\ \A u \in Runs \ {t} : run[u].pc = "idle" /\ run'[u].pc = "idle"
    <2>1. Grew
      BY <1>1, GrewNot DEF Typed
    <2>. QED
      BY <1>1, <2>1, PromptGoesOn DEF AtPrompt
  <1>3. AskedOnce'
    BY <1>1, <1>2 DEF AskedOnce
  <1>4. Answerable'
    BY <1>2 DEF Answerable
  <1>5. Unrecorded = {} /\ Unrecorded' = {}
    BY <1>1, <1>2, UnrecordedIs DEF Unrecorded
  <1>6. AllowedKnown'
    BY <1>1, <1>2, <1>5 DEF AllowedKnown
  <1>. QED
    BY <1>2, <1>3, <1>4, <1>6

\* The turn records how the prompt was resolved.
LEMMA PromptResolved ==
  ASSUME Typed, PromptInv, NEW t \in Runs, Resolve(t)
  PROVE  PromptInv'
  <1>. USE DEF PromptInv, stored, memory
  <1>. DEFINE p == run[t].prompt
              d == IF run[t].pc = "gaveup" THEN "interrupted" ELSE answer[p]
              e == ResolvedEv(p, d)
  <1>1. /\ PromptStep(t) /\ run[t].pc \in {"answered", "gaveup"}
        /\ UNCHANGED <<prompts, offer, answer, allowed>>
    BY DEF PromptStep, Resolve
  <1>2. CASE Fail /\ Goto(t, "tool") /\ UNCHANGED stored
    BY <1>1, <1>2, PromptDropped
  <1>3. CASE /\ Write(<<e>>, state)
             /\ Goto(t, IF run[t].pc = "gaveup" THEN "tool" ELSE "resolved")
             /\ spent' = spent
    <2>1. /\ run'[t].pc \notin AtPrompt
          /\ up /\ up'
          /\ \A u \in Runs \ {t} : run[u].pc = "idle" /\ run'[u].pc = "idle"
      <3>1. run'[t].pc \in {"tool", "resolved"} /\ \A u \in Runs \ {t} : run'[u] = run[u]
        BY <1>3, GotoIs
      <3>2. up /\ up' /\ \A u \in Runs \ {t} : run[u].pc = "idle"
        BY <1>1, PromptAlone
      <3>. QED
        BY <3>1, <3>2 DEF AtPrompt
    <2>2. HeldIn(run) = {p} /\ HeldIn(run') = {} /\ p \in OpenIn(log)
      <3>1. run[t].pc \in AtPrompt
        BY <1>1 DEF AtPrompt
      <3>2. HeldIn(run) = {p}
        BY <1>1, <3>1, PromptAlone
      <3>3. HeldIn(run') = {}
        BY <1>1, <2>1, PromptAlone
      <3>. QED
        BY <3>2, <3>3 DEF ResolvedOnce
    <2>3. e \in Event /\ e.kind = "resolved" /\ e.id = p /\ e.decision = d
      <3>1. p \in Prompts /\ d \in Answers \cup {"interrupted"}
        BY <1>1 DEF Typed, Prompted, AtPrompt
      <3>2. e \in Event /\ e.kind = "resolved" /\ e.id = p
        BY <3>1, EventKinds
      <3>. QED
        BY <3>2 DEF ResolvedEv
    <2>. HIDE DEF p, d, e
    <2>4. log' = log \o <<e>> /\ log \in Seq(Event)
      BY <1>3 DEF Write, Typed, Data
    <2>5. /\ AtIn(log', "resolved") = AtIn(log, "resolved") \cup {Len(log) + 1}
          /\ IdsIn(log', "resolved") = IdsIn(log, "resolved") \cup {p}
          /\ log'[Len(log) + 1] = e
          /\ \A i \in AtIn(log, "resolved") : log'[i] = log[i] /\ i \in 1 .. Len(log)
      <3>1. /\ AtIn(log', e.kind) = AtIn(log, e.kind) \cup {Len(log) + 1}
            /\ IdsIn(log', e.kind) = IdsIn(log, e.kind) \cup {e.id}
            /\ log'[Len(log) + 1] = e
            /\ \A i \in AtIn(log, e.kind) : log'[i] = log[i] /\ i \in 1 .. Len(log)
        BY <2>3, <2>4, OneOfKind
      <3>. QED
        BY <2>3, <3>1
    <2>6. IdsIn(log', "asked") = IdsIn(log, "asked")
      BY <2>3, <2>4, OtherKinds
    <2>7. AskedOnce'
      BY <1>1, <1>3, <2>2, <2>5, <2>6 DEF AskedOnce, OpenIn
    <2>8. ResolvedOnce'
      <3>1. OpenIn(log') = OpenIn(log) \ {p}
        BY <2>5, <2>6 DEF OpenIn
      <3>2. IsFiniteSet(OpenIn(log')) /\ OpenIn(log') \ HeldIn(run') = OpenIn(log) \ HeldIn(run)
        <4>1. IsFiniteSet(OpenIn(log)) /\ OpenIn(log) \ {p} \subseteq OpenIn(log)
          BY DEF ResolvedOnce
        <4>2. IsFiniteSet(OpenIn(log'))
          BY <3>1, <4>1, FS_Subset
        <4>. QED
          BY <2>2, <3>1, <4>2
      <3>3. \A i \in AtIn(log, "resolved") : log[i].id # p
        BY <2>2 DEF OpenIn, IdsIn
      <3>4. \A i, j \in AtIn(log', "resolved") : log'[i].id = log'[j].id => i = j
        BY <2>3, <2>5, <3>3 DEF ResolvedOnce
      <3>. QED
        BY <1>3, <2>1, <2>2, <3>2, <3>4 DEF ResolvedOnce
    <2>9. Answerable'
      BY <2>1 DEF Answerable, AtPrompt
    <2>10. Resolutions(log', "session") =
             Resolutions(log, "session") \cup (IF d = "session" THEN {p} ELSE {})
      <3>. DEFINE S(l) == {j \in AtIn(l, "resolved") : l[j].decision = "session"}
      <3>1. \A l : Resolutions(l, "session") = {l[i].id : i \in S(l)}
        BY DEF Resolutions, AtIn
      <3>2. S(log') = S(log) \cup (IF d = "session" THEN {Len(log) + 1} ELSE {})
        BY <2>3, <2>5
      <3>3. \A i \in S(log) : log'[i].id = log[i].id
        BY <2>5
      <3>4. log'[Len(log) + 1].id = p
        BY <2>3, <2>5
      <3>5. Resolutions(log, "session") = {log[i].id : i \in S(log)}
            /\ Resolutions(log', "session") = {log'[i].id : i \in S(log')}
        BY <3>1
      <3>. HIDE DEF S
      <3>6. CASE d = "session"
        <4>1. S(log') = S(log) \cup {Len(log) + 1}
          BY <3>2, <3>6
        <4>. QED
          BY <3>3, <3>4, <3>5, <3>6, <4>1
      <3>7. CASE d # "session"
        BY <3>2, <3>3, <3>5, <3>7
      <3>. QED
        BY <3>6, <3>7
    <2>11. LoadAllowed(log)' = LoadAllowed(log) \cup (IF d = "session" THEN offer[p] ELSE {})
      BY <1>1, <2>10 DEF LoadAllowed
    <2>12. d = "session" => run[t].pc = "answered" /\ answer[p] = "session"
      BY <1>1 DEF d
    <2>13. Unrecorded = IF d = "session" THEN offer[p] ELSE {}
      <3>1. \A u \in Runs \ {t} : run[u].pc # "answered"
        BY <2>1
      <3>2. Unrecorded = IF run[t].pc = "answered" /\ answer[p] = "session" THEN offer[p] ELSE {}
        BY <3>1, UnrecordedIs DEF Unrecorded, p
      <3>. QED
        BY <1>1, <3>2 DEF d
    <2>14. AllowedKnown'
      <3>1. d = "session" => offer[p] \subseteq allowed
        BY <2>12 DEF Answerable, p
      <3>. QED
        BY <1>1, <1>3, <2>1, <2>11, <2>13, <3>1 DEF AllowedKnown
    <2>. QED
      BY <2>7, <2>8, <2>9, <2>14
  <1>. QED
    BY <1>2, <1>3 DEF Resolve

\* A client answers.
LEMMA PromptAnswered ==
  ASSUME Typed, PromptInv, NEW p \in Prompts, NEW d \in Answers, AnswerPrompt(p, d)
  PROVE  PromptInv'
  <1>. USE DEF PromptInv, stored
  <1>1. /\ up /\ up' = up /\ p \in prompts /\ prompts' = prompts \ {p}
        /\ answer' = [answer EXCEPT ![p] = d]
        /\ UNCHANGED <<log, state, offer, allowed, run, spent>>
    BY DEF AnswerPrompt
  <1>2. answer'[p] = d /\ d # "none" /\ \A q \in Prompts \ {p} : answer'[q] = answer[q]
    BY <1>1 DEF Typed, Data, Answers
  <1>3. AskedOnce'
    BY <1>1, <1>2 DEF AskedOnce
  <1>4. ResolvedOnce'
    BY <1>1 DEF ResolvedOnce
  <1>5. \A u \in Runs : run[u].pc = "answered" => run[u].prompt \in Prompts \ {p}
    BY <1>1 DEF Typed, Prompted, AtPrompt, Answers, AskedOnce
  <1>6. \A u \in Runs : run[u].pc = "answered" => answer'[run[u].prompt] = answer[run[u].prompt]
    BY <1>2, <1>5
  <1>7. Answerable'
    <2>1. \A u \in Runs : run[u].pc \in {"asked", "waiting"} => run[u].prompt \in Prompts
      BY DEF Typed, Prompted, AtPrompt
    <2>. QED
      BY <1>1, <1>2, <1>6, <2>1 DEF Answerable
  <1>8. Unrecorded' = Unrecorded
    BY <1>1, <1>6 DEF Unrecorded, UnrecordedIn
  <1>9. AllowedKnown'
    BY <1>1, <1>8 DEF AllowedKnown, LoadAllowed
  <1>. QED
    BY <1>3, <1>4, <1>7, <1>9

\* The process dies: what a turn was waiting for stays open.
LEMMA PromptLost ==
  ASSUME Typed, PromptInv, Typed', up, Lost, Grew
  PROVE  PromptInv'
  <1>. USE DEF Typed, PromptInv
  <1>1. \A u \in Runs : run'[u].pc = "idle"
    BY DEF Lost, IdleRun
  <1>2. HeldIn(run') = {}
    BY <1>1, HeldByNone DEF AtPrompt
  <1>3. /\ ~up' /\ prompts' = {} /\ spent' = spent
        /\ answer' = [p \in Prompts |-> "none"]
    BY DEF Lost
  <1>4. /\ \A kind \in OfPrompt : IdsIn(log', kind) = IdsIn(log, kind)
        /\ AtIn(log', "resolved") = AtIn(log, "resolved")
        /\ \A i \in AtIn(log, "resolved") : log'[i] = log[i]
    BY PlainGrowth DEF OfPrompt
  <1>5. OpenIn(log') = OpenIn(log)
    BY <1>4 DEF OpenIn, OfPrompt
  <1>6. AskedOnce'
    BY <1>3, <1>4 DEF AskedOnce, OfPrompt
  <1>7. ResolvedOnce'
    <2>1. PICK p : HeldIn(run) \subseteq {p}
      <3>1. \A t \in Runs : run[t].pc \in AtPrompt => Live(t)
        BY DEF AtPrompt, Live
      <3>2. \A t, u \in Runs : Live(t) /\ Live(u) => t = u
        BY LiveIsCurrent
      <3>. QED
        BY <3>1, <3>2 DEF HeldIn
    <2>2. /\ Cardinality(OpenIn(log)) \in Nat
          /\ Cardinality(OpenIn(log) \ HeldIn(run)) \in Nat
          /\ Cardinality(OpenIn(log)) <= Cardinality(OpenIn(log) \ HeldIn(run)) + 1
      BY <2>1, LeftOpen
    <2>3. Cardinality(OpenIn(log) \ HeldIn(run)) <= spent.fails + spent.restarts + 0
      BY DEF ResolvedOnce
    <2>4. Cardinality(OpenIn(log)) <= spent.fails + spent.restarts + 1
      BY <2>2, <2>3, Counts
    <2>5. OpenIn(log') \ HeldIn(run') = OpenIn(log)
      BY <1>2, <1>5
    <2>6. Cardinality(OpenIn(log') \ HeldIn(run'))
            <= spent'.fails + spent'.restarts + (IF up' THEN 0 ELSE 1)
      BY <1>3, <2>4, <2>5
    <2>. QED
      BY <1>2, <1>4, <1>5, <2>6 DEF ResolvedOnce
  <1>8. Answerable'
    BY <1>1 DEF Answerable
  <1>9. AllowedKnown'
    BY <1>3 DEF AllowedKnown
  <1>. QED
    BY <1>6, <1>7, <1>8, <1>9

\* The process starts again: nothing waits, and what the log allows is allowed.
LEMMA PromptRestart ==
  ASSUME Typed, PromptInv, Typed', Restart, Grew
  PROVE  PromptInv'
  <1>. USE DEF Typed, PromptInv
  <1>1. \A u \in Runs : run[u].pc = "idle" /\ run' = run
    BY DEF Restart, Inv, OneTurn, LiveRuns, Live
  <1>2. HeldIn(run) = {} /\ HeldIn(run') = {}
    BY <1>1, HeldByNone DEF AtPrompt
  <1>3. /\ ~up /\ up' /\ UNCHANGED <<prompts, offer, answer>>
        /\ allowed' = LoadAllowed(log)
    BY DEF Restart
  <1>4. /\ spent'.asked = spent.asked /\ spent'.fails = spent.fails
        /\ spent'.restarts = spent.restarts + 1
    BY Counts DEF Restart, SpentRecord
  <1>5. /\ \A kind \in OfPrompt : IdsIn(log', kind) = IdsIn(log, kind)
        /\ AtIn(log', "resolved") = AtIn(log, "resolved")
        /\ \A i \in AtIn(log, "resolved") : log'[i] = log[i]
    BY PlainGrowth DEF OfPrompt
  <1>6. OpenIn(log') = OpenIn(log)
    BY <1>5 DEF OpenIn, OfPrompt
  <1>7. AskedOnce'
    BY <1>3, <1>4, <1>5 DEF AskedOnce, OfPrompt
  <1>8. ResolvedOnce'
    <2>1. Cardinality(OpenIn(log) \ HeldIn(run)) <= spent.fails + spent.restarts + 1
      BY <1>3 DEF ResolvedOnce
    <2>2. spent.fails + spent.restarts + 1 = spent'.fails + spent'.restarts + 0
      BY <1>4, Counts
    <2>3. OpenIn(log') \ HeldIn(run') = OpenIn(log) \ HeldIn(run)
      BY <1>2, <1>6
    <2>4. Cardinality(OpenIn(log') \ HeldIn(run'))
            <= spent'.fails + spent'.restarts + (IF up' THEN 0 ELSE 1)
      BY <1>3, <2>1, <2>2, <2>3
    <2>. QED
      BY <1>2, <1>5, <1>6, <2>4 DEF ResolvedOnce
  <1>9. Answerable'
    BY <1>1 DEF Answerable
  <1>10. AllowedKnown'
    <2>1. LoadAllowed(log)' = LoadAllowed(log)
      BY <1>3, SameResolutions DEF LoadAllowed
    <2>. QED
      BY <1>3, <2>1 DEF AllowedKnown
  <1>. QED
    BY <1>7, <1>8, <1>9, <1>10

\* Every step keeps the prompts in order.
LEMMA PromptNext == Typed /\ PromptInv /\ [Next]_vars => PromptInv'
  <1>. SUFFICES ASSUME Typed, PromptInv, [Next]_vars PROVE PromptInv'
    OBVIOUS
  <1>1. Typed'
    BY InvNext, DataNext, PromptedNext DEF Typed
  <1>2. CASE Elsewhere
    BY <1>1, <1>2, PromptsElsewhere
  <1>3. CASE \E p \in Prompts, d \in Answers : AnswerPrompt(p, d)
    BY <1>3, PromptAnswered
  <1>4. CASE \E t \in Runs : PromptStep(t)
    BY <1>4, PromptAsked, PromptWaits, PromptTaken, PromptGivenUp, PromptResolved DEF PromptStep
  <1>5. CASE up /\ Lost /\ Grew
    BY <1>1, <1>5, PromptLost
  <1>6. CASE Restart /\ Grew
    BY <1>1, <1>6, PromptRestart
  <1>7. CASE UNCHANGED vars
    <2>1. UNCHANGED <<log, state, up, prompts, offer, answer, allowed, run, spent>>
      BY <1>7 DEF vars
    <2>2. LoadAllowed(log)' = LoadAllowed(log) /\ Unrecorded' = Unrecorded
      BY <2>1 DEF LoadAllowed, Unrecorded
    <2>. QED
      BY <2>1, <2>2 DEF PromptInv, AskedOnce, ResolvedOnce, Answerable, AllowedKnown
  <1>. QED
    BY <1>2, <1>3, <1>4, <1>5, <1>6, <1>7, StepKinds DEF Typed

\* At first there is none.
LEMMA PromptInit == Init => PromptInv
  <1>. SUFFICES ASSUME Init PROVE PromptInv
    OBVIOUS
  <1>1. \A kind : AtIn(log, kind) = {} /\ IdsIn(log, kind) = {}
    <2>1. DOMAIN log = {}
      BY EmptySeq, LenProperties DEF Init
    <2>. QED
      BY <2>1 DEF AtIn, IdsIn
  <1>2. \A u \in Runs : run[u].pc = "idle"
    BY DEF Init, IdleRun
  <1>3. OpenIn(log) = {} /\ HeldIn(run) = {}
    BY <1>1, <1>2, HeldByNone DEF OpenIn, AtPrompt
  <1>4. AskedOnce
    BY <1>1 DEF Init, AskedOnce
  <1>5. ResolvedOnce
    <2>1. /\ IsFiniteSet(OpenIn(log)) /\ Cardinality(OpenIn(log) \ HeldIn(run)) = 0
          /\ spent.fails = 0 /\ spent.restarts = 0 /\ up
      BY <1>3, FS_EmptySet DEF Init
    <2>. QED
      BY <1>1, <1>3, <2>1 DEF ResolvedOnce
  <1>6. Answerable
    BY <1>2 DEF Answerable
  <1>7. AllowedKnown
    <2>1. LoadAllowed(log) = {} /\ allowed = {}
      BY <1>1 DEF LoadAllowed, Resolutions, AtIn, IdsIn, Init
    <2>. QED
      BY <2>1 DEF AllowedKnown
  <1>. QED
    BY <1>4, <1>5, <1>6, <1>7 DEF PromptInv

\* The invariant of the prompts holds in every state that can be reached.
LEMMA PromptsAlways == Spec => [](Typed /\ PromptInv)
  <1>1. Init => PromptInv
    BY PromptInit
  <1>2. Typed /\ PromptInv /\ [Next]_vars => PromptInv'
    BY PromptNext
  <1>. QED
    BY <1>1, <1>2, TypedAlways, PTL DEF Spec

\* What Session calls the places and ids of the log it has.
LEMMA IdsOfLog ==
  \A kind : At(kind) = AtIn(log, kind) /\ Ids(kind) = IdsIn(log, kind)
  BY DEF At, Ids, AtIn, IdsIn

\* A turn that waits for an answer can get one: the session shows as waiting,
\* the prompt it is at is in the log and not resolved, and either clients can
\* still answer it or the answer is in its channel (session.go:420-510).
THEOREM EveryWaitIsAnswerable == Spec => []WaitsAreAnswerable
  <1>1. Typed /\ PromptInv => WaitsAreAnswerable
    <2>. SUFFICES ASSUME Typed, PromptInv, NEW t \in Runs, run[t].pc = "waiting"
                  PROVE  /\ state = "WAITING"
                         /\ run[t].prompt \in Ids("asked") \ Ids("resolved")
                         /\ run[t].prompt \in prompts \/ answer[run[t].prompt] # "none"
      BY DEF WaitsAreAnswerable
    <2>1. run[t].prompt \in HeldIn(run)
      BY DEF HeldIn, AtPrompt
    <2>2. run[t].prompt \in OpenIn(log)
      BY <2>1 DEF PromptInv, ResolvedOnce
    <2>3. run[t].prompt \in Ids("asked") \ Ids("resolved")
      BY <2>2, IdsOfLog DEF OpenIn
    <2>. QED
      BY <2>3 DEF PromptInv, Answerable
  <1>. QED
    BY <1>1, PromptsAlways, PTL

\* A prompt is resolved once at most, however its answer, an interrupt and a
\* restart race; and the prompts that stay open are the one the live turn is at
\* and one for each failed append and each restart (session.go:420-510).
THEOREM PromptsAreSettled == Spec => []PromptsSettled
  <1>1. Typed /\ PromptInv => PromptsSettled
    <2>. SUFFICES ASSUME Typed, PromptInv PROVE PromptsSettled
      OBVIOUS
    <2>1. \A i, j \in At("resolved") : log[i].id = log[j].id => i = j
      BY IdsOfLog DEF PromptInv, ResolvedOnce
    <2>2. ASSUME up
          PROVE  Cardinality(OpenIn(log)) <= Cardinality(LiveRuns) + spent.fails + spent.restarts
      <3>1. /\ spent.fails \in Nat /\ spent.restarts \in Nat
            /\ Cardinality(OpenIn(log) \ HeldIn(run)) <= spent.fails + spent.restarts + 0
            /\ IsFiniteSet(OpenIn(log))
        BY <2>2, Counts DEF PromptInv, ResolvedOnce
      <3>2. IsFiniteSet(LiveRuns) /\ Cardinality(LiveRuns) \in Nat
        BY SessionAssumption, FS_Subset, FS_CardinalityType DEF LiveRuns
      <3>3. CASE HeldIn(run) = {}
        <4>1. OpenIn(log) \ HeldIn(run) = OpenIn(log) /\ Cardinality(OpenIn(log)) \in Nat
          BY <3>1, <3>3, FS_CardinalityType
        <4>2. Cardinality(OpenIn(log)) <= spent.fails + spent.restarts + 0
          BY <3>1, <4>1
        <4>. QED
          BY <3>1, <3>2, <4>1, <4>2
      <3>4. CASE HeldIn(run) # {}
        <4>1. PICK t \in Runs : run[t].pc \in AtPrompt
          BY <3>4 DEF HeldIn
        <4>2. Live(t) /\ \A u \in Runs : Live(u) => u = t
          BY <4>1, LiveIsCurrent DEF Typed, AtPrompt, Live
        <4>3. HeldIn(run) \subseteq {run[t].prompt}
          BY <4>2 DEF HeldIn, Live, AtPrompt
        <4>4. LiveRuns = {t} /\ Cardinality(LiveRuns) = 1
          BY <4>2, FS_Singleton DEF LiveRuns
        <4>5. /\ Cardinality(OpenIn(log)) \in Nat
              /\ Cardinality(OpenIn(log) \ HeldIn(run)) \in Nat
              /\ Cardinality(OpenIn(log)) <= Cardinality(OpenIn(log) \ HeldIn(run)) + 1
          BY <4>3, LeftOpen DEF PromptInv
        <4>. QED
          BY <3>1, <4>4, <4>5
      <3>. QED
        BY <3>3, <3>4
    <2>3. OpenIn(log) = Ids("asked") \ Ids("resolved")
      BY IdsOfLog DEF OpenIn
    <2>. QED
      BY <2>1, <2>2, <2>3 DEF PromptsSettled
  <1>. QED
    BY <1>1, PromptsAlways, PTL

\* A restart allows nothing that was not allowed, and all that was, but for an
\* answer that is not recorded yet or could not be (session.go:100-117, 452-510).
THEOREM RestartAllowsTheSame == Spec => []AllowedRebuilds
  <1>1. Typed /\ PromptInv => AllowedRebuilds
    <2>. SUFFICES ASSUME Typed, PromptInv, up PROVE AllowedRebuilds
      BY DEF AllowedRebuilds
    <2>1. spent.fails \in Nat
      BY Counts
    <2>2. (\A t \in Runs : run[t].pc # "answered") => Unrecorded = {}
      BY DEF Unrecorded, UnrecordedIn
    <2>. QED
      BY <2>1, <2>2 DEF PromptInv, AllowedKnown, AllowedRebuilds
  <1>. QED
    BY <1>1, PromptsAlways, PTL
==============================================================================
