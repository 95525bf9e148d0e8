------------------------------ MODULE ModelCall ------------------------------
(***************************************************************************)
(* One call of the model in a turn: its attempts (the loop of agent/turn.go *)
(* around StreamTrace), RetryModelCall (agent/session.go) and the watchdog *)
(* (llm/llm.go), with the server's answers as the environment.             *)
(*                                                                         *)
(* The turn's goroutine, the one that asks a llama.cpp server before it    *)
(* gives a call up, the watchdog's and the RPCs run side by side.  Of the  *)
(* reply only its deltas matter here.  The watchdog may give up at any     *)
(* time: a limit that is long, or off, only takes behaviours away.         *)
(***************************************************************************)
EXTENDS Naturals, Sequences, FiniteSets

CONSTANTS
  MaxRetries,   \* agent.model_retries
  MaxAttempts,  \* bound: attempts
  MaxDeltas     \* bound: deltas of the reply, over all attempts

ASSUME CallAssumption == {MaxRetries, MaxDeltas} \subseteq Nat /\ MaxAttempts \in Nat \ {0}

VARIABLES
  llama,        \* whether the endpoint is a llama.cpp server
  pc,           \* where the turn's goroutine is
  attempt,      \* the attempt it makes
  autoRetries,  \* turn.go's counter
  callLog,      \* the events of the call: <<kind, attempt>>
  text,         \* how many deltas the turn's builders hold
  registered,   \* cancelCall # nil
  callOutput,   \* session.callOutput
  asked,        \* retries accepted: Len(callLog) at that time, by attempt; 0: none
  asking,       \* attempts whose retry still asks the server
  cause,        \* what cancelled callCtx: "none", "retry" or "turn"
  watch,        \* the watchdog: what came, whether it gave up, and how far it is
  late,         \* an attempt ended while its timer's function waited for watch.mu
  err,          \* what StreamTrace returned
  again,        \* "none", "user" or "auto": why the call is made again
  interrupted,  \* the turn's context has ended
  appendErr     \* appendErr

callVars == <<llama, pc, attempt, autoRetries, callLog, text, registered, callOutput, asked,
              asking, cause, watch, late, err, again, interrupted, appendErr>>

Attempts == 1 .. MaxAttempts
Quiet == [stalled |-> FALSE, probing |-> FALSE, cancelled |-> FALSE]
InFlight == pc \in {"waiting", "sent"}
Log(kind) == callLog' = Append(callLog, <<kind, attempt>>)

------------------------------------------------------------------------------
(* The attempt *)

\* ModelCallStarted, setCall, and Acquire.
BeginAttempt ==
  /\ pc = "begin"
  /\ \/ /\ Log("started")
        /\ pc' = "waiting" /\ registered' = TRUE
     \/ pc' = "failed" /\ UNCHANGED <<callLog, registered>>
  /\ callOutput' = FALSE /\ cause' = (IF interrupted THEN "turn" ELSE "none") /\ watch' = Quiet
  /\ UNCHANGED <<llama, late, attempt, autoRetries, text, asked, asking, err, again, interrupted, appendErr>>

\* The limiter lets the call in, and the request is sent.
Admitted ==
  /\ pc = "waiting" /\ pc' = "sent"
  /\ UNCHANGED <<llama, late, attempt, autoRetries, callLog, text, registered, callOutput, asked,
                 asking, cause, watch, err, again, interrupted, appendErr>>

\* Handler.Text and Reasoning: a delta, also one that was read before the call
\* was cancelled.  When it cannot be recorded the stream goes on.
Delta ==
  /\ pc = "sent" /\ text < MaxDeltas
  /\ text' = text + 1 /\ callOutput' = TRUE
  /\ \/ Log("delta") /\ UNCHANGED appendErr
     \/ appendErr' = TRUE /\ UNCHANGED callLog
  /\ UNCHANGED <<llama, late, pc, attempt, autoRetries, registered, asked, asking, cause, watch, err, again, interrupted>>

\* Handler.Queued, Admitted and Progress, when their event cannot be recorded.
HandlerFails ==
  /\ InFlight /\ ~appendErr /\ appendErr' = TRUE
  /\ UNCHANGED <<llama, late, pc, attempt, autoRetries, callLog, text, registered, callOutput,
                 asked, asking, cause, watch, err, again, interrupted>>

\* StreamTrace returns.  A call that was cancelled may have failed or be complete.
\* finish stops the timer, which may just have run out: its function then has
\* watch.mu next.
Returns(e) ==
  /\ InFlight
  /\ \/ e \in {"ok", "refused", "broken"} /\ pc = "sent"
     \/ e = "stall" /\ pc = "sent" /\ watch.cancelled
     \/ e = "cancelled" /\ cause # "none" /\ ~watch.cancelled
  /\ err' = e /\ pc' = "returned"
  /\ \/ UNCHANGED late
     \/ pc = "sent" /\ ~watch.stalled /\ late' = TRUE
  /\ UNCHANGED <<llama, attempt, autoRetries, callLog, text, registered, callOutput, asked,
                 asking, cause, watch, again, interrupted, appendErr>>

ReturnsCancelled == Returns("cancelled") \/ Returns("stall")

\* userRetry.
UserRetry ==
  /\ pc = "returned" /\ pc' = "judged"
  /\ again' = IF err # "ok" /\ ~interrupted /\ cause = "retry" THEN "user" ELSE "none"
  /\ UNCHANGED <<llama, late, attempt, autoRetries, callLog, text, registered, callOutput, asked,
                 asking, cause, watch, err, interrupted, appendErr>>

Retryable(e) == e \in {"broken", "stall"}

\* Variant: what has come of the reply does not matter.
MayRetryAnyway ==
  err # "ok" /\ again = "none" /\ ~interrupted /\ Retryable(err) /\ autoRetries < MaxRetries

MayRetry ==
  err # "ok" /\ again = "none" /\ ~interrupted /\ Retryable(err) /\ text = 0 /\ autoRetries < MaxRetries

\* setCall(nil, nil), and autoRetry.
AutoRetry ==
  /\ pc = "judged"
  /\ pc' = (IF appendErr THEN "failed" ELSE "decided")
  /\ registered' = FALSE /\ callOutput' = FALSE
  /\ again' = IF MayRetry THEN "auto" ELSE again
  /\ UNCHANGED <<llama, late, attempt, autoRetries, callLog, text, asked, asking, cause, watch, err,
                 interrupted, appendErr>>

\* callEnded.
Outcome ==
  CASE again = "user" -> "retried"
    [] err = "ok" -> "ok"
    [] err # "ok" /\ again # "user" /\ interrupted -> "cancelled"
    [] err = "stall" /\ again # "user" /\ ~interrupted -> "stalled"
    [] OTHER -> "error"

\* ModelCallEnded, and the next attempt or the end of the call.
Ended ==
  /\ pc = "decided"
  /\ again = "none" \/ attempt < MaxAttempts
  /\ \/ /\ Log(Outcome)
        /\ pc' = IF again # "none" THEN "begin" ELSE "message"
        /\ attempt' = IF again # "none" THEN attempt + 1 ELSE attempt
        /\ autoRetries' = IF again = "auto" THEN autoRetries + 1 ELSE autoRetries
     \/ pc' = "failed" /\ UNCHANGED <<callLog, attempt, autoRetries>>
  /\ UNCHANGED <<llama, late, text, registered, callOutput, asked, asking, cause, watch, err, again,
                 interrupted, appendErr>>

\* MessageDone, and how the call leaves the turn: it goes on, is stuck or
\* interrupted.
EndMessage ==
  /\ pc = "message"
  /\ \/ /\ Log("done")
        /\ pc' = IF err = "ok" THEN "answered" ELSE IF interrupted THEN "interrupted" ELSE "stuck"
     \/ pc' = "failed" /\ UNCHANGED callLog
  /\ UNCHANGED <<llama, late, attempt, autoRetries, text, registered, callOutput, asked, asking, cause,
                 watch, err, again, interrupted, appendErr>>

------------------------------------------------------------------------------
(* Those who cancel *)

Cancel(why) ==
  cause' = IF cause = "none" /\ pc \in {"waiting", "sent", "returned"} THEN why ELSE cause

\* retryCall.  A llama.cpp server is asked first, without the lock.
RetryModelCall ==
  /\ registered /\ ~callOutput
  /\ IF llama
     THEN /\ asked[attempt] = 0
          /\ asking' = asking \cup {attempt} /\ UNCHANGED cause
     ELSE Cancel("retry") /\ UNCHANGED asking
  /\ asked' = [asked EXCEPT ![attempt] = IF @ = 0 THEN Len(callLog) ELSE @]
  /\ UNCHANGED <<llama, late, pc, attempt, autoRetries, callLog, text, registered, callOutput, watch,
                 err, again, interrupted, appendErr>>

\* Variant: the call is left alone once the server was asked about it.
AskedOnly(n) ==
  /\ n \in asking /\ asking' = asking \ {n}
  /\ UNCHANGED cause
  /\ UNCHANGED <<llama, late, pc, attempt, autoRetries, callLog, text, registered, callOutput, asked,
                 watch, err, again, interrupted, appendErr>>

\* The server has answered, or not in time: the call it was asked about is
\* cancelled, if it still runs.
Asked(n) ==
  /\ n \in asking /\ asking' = asking \ {n}
  /\ IF n = attempt THEN Cancel("retry") ELSE UNCHANGED cause
  /\ UNCHANGED <<llama, late, pc, attempt, autoRetries, callLog, text, registered, callOutput, asked,
                 watch, err, again, interrupted, appendErr>>

\* The watchdog's own cancel wins unless the call was cancelled before.
GivenUp == [watch EXCEPT !.probing = FALSE, !.cancelled = (cause = "none")]

\* fire: the call was quiet for too long.  A llama.cpp server is asked first,
\* and whatever it sends meanwhile does not save the call.
Fire ==
  /\ pc = "sent" /\ ~watch.stalled
  /\ watch' =
       IF llama THEN [watch EXCEPT !.stalled = TRUE, !.probing = TRUE]
       ELSE [GivenUp EXCEPT !.stalled = TRUE]
  /\ UNCHANGED <<llama, late, pc, attempt, autoRetries, callLog, text, registered, callOutput, asked,
                 asking, cause, err, again, interrupted, appendErr>>

Probed ==
  /\ pc = "sent" /\ watch.probing
  /\ watch' = GivenUp
  /\ UNCHANGED <<llama, late, pc, attempt, autoRetries, callLog, text, registered, callOutput, asked,
                 asking, cause, err, again, interrupted, appendErr>>

\* fire after finish: finish took cancel away, and fire calls it.  When something
\* came meanwhile, it sets the timer again first.
LateFire ==
  /\ late /\ pc # "dead"
  /\ pc' = "dead" /\ registered' = FALSE
  /\ UNCHANGED <<llama, late, attempt, autoRetries, callLog, text, callOutput, asked, asking,
                 cause, watch, err, again, interrupted, appendErr>>

Interrupt ==
  /\ ~interrupted /\ interrupted' = TRUE
  /\ Cancel("turn")
  /\ UNCHANGED <<llama, late, pc, attempt, autoRetries, callLog, text, registered, callOutput, asked,
                 asking, watch, err, again, appendErr>>

------------------------------------------------------------------------------
CallInit ==
  /\ llama \in BOOLEAN
  /\ pc = "begin" /\ attempt = 1 /\ autoRetries = 0
  /\ callLog = <<>> /\ text = 0
  /\ registered = FALSE /\ callOutput = FALSE
  /\ asked = [n \in Attempts |-> 0] /\ asking = {}
  /\ cause = "none" /\ watch = Quiet
  /\ err = "none" /\ again = "none" /\ late = FALSE
  /\ interrupted = FALSE /\ appendErr = FALSE

TurnStep == BeginAttempt \/ UserRetry \/ AutoRetry \/ Ended \/ EndMessage

CallNext ==
  \/ TurnStep
  \/ Admitted \/ Delta \/ HandlerFails
  \/ \E e \in {"ok", "refused", "broken"} : Returns(e)
  \/ ReturnsCancelled
  \/ RetryModelCall
  \/ \E n \in Attempts : Asked(n)
  \/ Fire \/ LateFire \/ Probed \/ Interrupt

CallSpec == CallInit /\ [][CallNext]_callVars

\* The goroutines go on; a server that is asked answers or runs into its
\* timeout; a cancelled call returns.  Nothing is assumed of the endpoint.
CallFairness ==
  /\ WF_callVars(TurnStep) /\ WF_callVars(ReturnsCancelled) /\ WF_callVars(Probed)
  /\ \A n \in Attempts : WF_callVars(Asked(n))

CallFairSpec == CallSpec /\ CallFairness

------------------------------------------------------------------------------
(* Properties *)

CallKinds == {"started", "delta", "ok", "stalled", "error", "cancelled", "retried", "done"}

CallTypeOK ==
  /\ llama \in BOOLEAN
  /\ pc \in {"begin", "waiting", "sent", "returned", "judged", "decided", "message",
             "answered", "stuck", "interrupted", "failed", "dead"}
  /\ attempt \in Attempts /\ autoRetries \in Nat
  /\ callLog \in Seq(CallKinds \X Attempts)
  /\ text \in Nat
  /\ {registered, callOutput, interrupted, late, appendErr} \subseteq BOOLEAN
  /\ asked \in [Attempts -> Nat] /\ asking \in SUBSET Attempts
  /\ cause \in {"none", "retry", "turn"}
  /\ watch \in [stalled : BOOLEAN, probing : BOOLEAN, cancelled : BOOLEAN]
  /\ err \in {"none", "ok", "refused", "broken", "stall", "cancelled"}
  /\ again \in {"none", "user", "auto"}

DeltasOf(n) == {i \in DOMAIN callLog : callLog[i] = <<"delta", n>>}

\* A reply is in the log once: the deltas of a message come from one attempt
\* ("Only a call that produced nothing can be retried without the log showing
\* half a reply twice", turn.go).
ReplyOnce ==
  \A n, k \in Attempts : DeltasOf(n) # {} /\ DeltasOf(k) # {} => n = k

\* The log shows a reply of an attempt that was made again only when a retry was
\* accepted before the first of it came, and flit makes no more attempts on its
\* own than it is configured to.
TwiceOnlyOnRequest ==
  /\ autoRetries <= MaxRetries
  /\ \A n \in 1 .. attempt - 1 :
       DeltasOf(n) # {} => asked[n] # 0 /\ \A i \in DeltasOf(n) : asked[n] < i

\* A retry that was accepted, or a turn that is interrupted, ends the attempt
\* it found, whatever the endpoint does, unless the process ends.
CancelledCallsEnd ==
  \A n \in Attempts :
    attempt = n /\ (asked[n] # 0 \/ interrupted)
      ~> attempt # n \/ pc \in {"decided", "answered", "stuck", "interrupted", "failed", "dead"}
==============================================================================
