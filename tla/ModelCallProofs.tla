--------------------------- MODULE ModelCallProofs ----------------------------
(***************************************************************************)
(* Proofs about ModelCall: in every behaviour a reply is in the log twice  *)
(* only when a retry was accepted before the first of it came.             *)
(***************************************************************************)
EXTENDS ModelCall, TLAPS

------------------------------------------------------------------------------
(* The inductive invariant *)

\* A retry is of an attempt that was made, and accepted before its deltas.
AskedInOrder ==
  \A n \in Attempts : asked[n] # 0 =>
    /\ n <= attempt /\ asked[n] <= Len(callLog)
    /\ \A i \in DeltasOf(n) : asked[n] < i

\* What is not begun has left nothing.
NothingAhead ==
  \A n \in Attempts : n > attempt \/ (n = attempt /\ pc = "begin") => DeltasOf(n) = {} /\ asked[n] = 0

\* What can still be retried has left nothing, and so has all of a call without text.
OutputSeen ==
  /\ registered /\ ~callOutput => DeltasOf(attempt) = {}
  /\ text = 0 => \A n \in Attempts : DeltasOf(n) = {}

Registration ==
  /\ registered <=> pc \in {"waiting", "sent", "returned", "judged"}
  /\ registered => callLog # <<>>

\* A call is cancelled for a retry, and made again for one, only if that was asked.
Causes ==
  /\ \A n \in asking : asked[n] # 0
  /\ cause = "retry" /\ pc \in {"waiting", "sent", "returned"} => asked[attempt] # 0
  /\ again = "user" /\ pc \in {"judged", "decided"} => asked[attempt] # 0
  /\ pc = "judged" => again # "auto"
  /\ again = "auto" /\ pc = "decided" => text = 0 /\ autoRetries < MaxRetries

CallInductive ==
  /\ AskedInOrder /\ NothingAhead /\ OutputSeen /\ Registration /\ Causes
  /\ TwiceOnlyOnRequest

------------------------------------------------------------------------------
(* The log *)

\* An appended event is a delta of the attempt that runs, or no delta.
LEMMA LogAppends ==
  ASSUME CallTypeOK, NEW kind \in CallKinds, Log(kind)
  PROVE  /\ callLog' \in Seq(CallKinds \X Attempts) /\ callLog' # <<>>
         /\ Len(callLog') = Len(callLog) + 1
         /\ \A n \in Attempts : DeltasOf(n)' =
              IF kind = "delta" /\ n = attempt THEN DeltasOf(n) \cup {Len(callLog) + 1} ELSE DeltasOf(n)
<1> DEFINE e == <<kind, attempt>>
<1>1. e \in CallKinds \X Attempts /\ callLog \in Seq(CallKinds \X Attempts)
  BY DEF CallTypeOK
<1>2. callLog' = Append(callLog, e)
  BY DEF Log
<1>3. /\ callLog' \in Seq(CallKinds \X Attempts) /\ callLog' # <<>>
      /\ Len(callLog') = Len(callLog) + 1
  BY <1>1, <1>2
<1>4. ASSUME NEW n \in Attempts
      PROVE  DeltasOf(n)' =
              IF kind = "delta" /\ n = attempt THEN DeltasOf(n) \cup {Len(callLog) + 1} ELSE DeltasOf(n)
  <2>1. DOMAIN callLog' = DOMAIN callLog \cup {Len(callLog) + 1}
    BY <1>1, <1>2
  <2>2. \A i \in DOMAIN callLog : callLog'[i] = callLog[i]
    BY <1>1, <1>2
  <2>3. callLog'[Len(callLog) + 1] = <<kind, attempt>>
    BY <1>1, <1>2
  <2>4. <<kind, attempt>> = <<"delta", n>> <=> kind = "delta" /\ n = attempt
    OBVIOUS
  <2>5. Len(callLog) + 1 \notin DOMAIN callLog
    BY <1>1
  <2> QED BY <2>1, <2>2, <2>3, <2>4, <2>5 DEF DeltasOf
<1> QED BY <1>3, <1>4

\* The deltas of an attempt are positions of the log.
LEMMA DeltasAreLogged ==
  ASSUME CallTypeOK
  PROVE  \A n \in Attempts : \A i \in DeltasOf(n) : i \in Nat /\ 0 < i /\ i <= Len(callLog)
BY DEF CallTypeOK, DeltasOf

------------------------------------------------------------------------------
(* Steps *)

\* The steps that leave the log alone and, but for the one named, only move pc.
LEMMA TypeStep ==
  ASSUME CallTypeOK, [CallNext]_callVars
  PROVE  CallTypeOK'
<1> USE CallAssumption DEF CallTypeOK, Attempts
<1>1. ASSUME NEW kind \in CallKinds, Log(kind) PROVE callLog' \in Seq(CallKinds \X Attempts)
  BY <1>1, LogAppends
<1>2. Quiet \in [stalled : BOOLEAN, probing : BOOLEAN, cancelled : BOOLEAN]
  BY DEF Quiet
<1>3. GivenUp \in [stalled : BOOLEAN, probing : BOOLEAN, cancelled : BOOLEAN]
  BY DEF GivenUp
<1>4. Len(callLog) \in Nat
  OBVIOUS
<1>5. Outcome \in CallKinds
  BY DEF Outcome, CallKinds
<1>6. CASE BeginAttempt
  <2>1. callLog' \in Seq(CallKinds \X Attempts) /\ pc' \in {"waiting", "failed"} /\ registered' \in BOOLEAN
    BY <1>1, <1>6 DEF BeginAttempt, CallKinds
  <2> QED BY <1>2, <1>6, <2>1 DEF BeginAttempt
<1>7. CASE Admitted
  BY <1>7 DEF Admitted
<1>8. CASE Delta
  <2>1. callLog' \in Seq(CallKinds \X Attempts) /\ appendErr' \in BOOLEAN
    BY <1>1, <1>8 DEF Delta, CallKinds
  <2>2. text' \in Nat /\ callOutput' \in BOOLEAN
    BY <1>8 DEF Delta
  <2> QED BY <1>8, <2>1, <2>2 DEF Delta
<1>9. ASSUME NEW e \in {"ok", "refused", "broken", "stall", "cancelled"}, Returns(e) PROVE CallTypeOK'
  BY <1>9 DEF Returns
<1>10. CASE UserRetry
  BY <1>10 DEF UserRetry
<1>11. CASE AutoRetry
  BY <1>11 DEF AutoRetry
<1>12. CASE Ended
  <2>1. callLog' \in Seq(CallKinds \X Attempts) /\ pc' \in {"begin", "message", "failed"}
    BY <1>1, <1>5, <1>12 DEF Ended
  <2>2. attempt' \in Attempts /\ autoRetries' \in Nat
    BY <1>12 DEF Ended
  <2> QED BY <1>12, <2>1, <2>2 DEF Ended
<1>13. CASE EndMessage
  BY <1>1, <1>13 DEF EndMessage, CallKinds
<1>14. CASE RetryModelCall
  <2>1. asked' \in [Attempts -> Nat]
    BY <1>4, <1>14 DEF RetryModelCall
  <2>2. asking' \in SUBSET Attempts /\ cause' \in {"none", "retry", "turn"}
    BY <1>14 DEF RetryModelCall, Cancel
  <2> QED BY <1>14, <2>1, <2>2 DEF RetryModelCall
<1>15. ASSUME NEW n \in Attempts, Asked(n) PROVE CallTypeOK'
  BY <1>15 DEF Asked, Cancel
<1>16. CASE Fire
  <2>1. [GivenUp EXCEPT !.stalled = TRUE] \in [stalled : BOOLEAN, probing : BOOLEAN, cancelled : BOOLEAN]
    BY <1>3
  <2> QED BY <2>1, <1>16 DEF Fire
<1>17. CASE Probed
  BY <1>3, <1>17 DEF Probed
<1>18. CASE Interrupt
  BY <1>18 DEF Interrupt, Cancel
<1>19. CASE UNCHANGED callVars
  BY <1>19 DEF callVars
<1>20. CASE HandlerFails
  BY <1>20 DEF HandlerFails
<1>21. ASSUME LateFire PROVE CallTypeOK'
  BY <1>21 DEF LateFire
<1> QED
  BY <1>6, <1>7, <1>8, <1>9, <1>10, <1>11, <1>12, <1>13, <1>14, <1>15, <1>16, <1>17, <1>18, <1>19,
     <1>20, <1>21
     DEF CallNext, TurnStep, ReturnsCancelled

\* A step that leaves the log, the attempt and the retries alone keeps the
\* parts that are about them.
LEMMA LogAlone ==
  ASSUME CallInductive, UNCHANGED <<callLog, attempt, asked, autoRetries>>
  PROVE  /\ AskedInOrder' /\ TwiceOnlyOnRequest'
         /\ \A n \in Attempts : DeltasOf(n)' = DeltasOf(n)
<1>1. \A n : DeltasOf(n)' = DeltasOf(n)
  BY DEF DeltasOf
<1>2. AskedInOrder'
  BY <1>1 DEF CallInductive, AskedInOrder
<1>3. TwiceOnlyOnRequest'
  BY <1>1 DEF CallInductive, TwiceOnlyOnRequest
<1> QED BY <1>1, <1>2, <1>3

\* A call begins in the invariant.
LEMMA CallBegins == CallInit => CallTypeOK /\ CallInductive
<1> SUFFICES ASSUME CallInit PROVE CallTypeOK /\ CallInductive
  OBVIOUS
<1> USE CallAssumption DEF CallInit, Attempts
<1>1. CallTypeOK
  <2>1. callLog \in Seq(CallKinds \X Attempts) /\ attempt \in Attempts
    OBVIOUS
  <2>2. watch \in [stalled : BOOLEAN, probing : BOOLEAN, cancelled : BOOLEAN]
    BY DEF Quiet
  <2>3. asked \in [Attempts -> Nat] /\ asking \in SUBSET Attempts
    OBVIOUS
  <2> QED BY <2>1, <2>2, <2>3 DEF CallTypeOK
<1>2. \A n : DeltasOf(n) = {}
  BY DEF DeltasOf
<1>3. AskedInOrder /\ NothingAhead /\ OutputSeen /\ TwiceOnlyOnRequest
  BY <1>2 DEF AskedInOrder, NothingAhead, OutputSeen, TwiceOnlyOnRequest
<1>4. Registration /\ Causes
  BY DEF Registration, Causes
<1> QED BY <1>1, <1>3, <1>4 DEF CallInductive

\* An event that is no delta leaves the deltas where they are.
LEMMA LogOther ==
  ASSUME CallTypeOK, NEW kind \in CallKinds \ {"delta"}, Log(kind)
  PROVE  /\ callLog' # <<>> /\ Len(callLog') = Len(callLog) + 1
         /\ \A n \in Attempts : DeltasOf(n)' = DeltasOf(n)
BY LogAppends

\* A step of a call keeps the invariant.
LEMMA InductiveStep ==
  ASSUME CallTypeOK, CallInductive, [CallNext]_callVars
  PROVE  CallInductive'
<1>0. \A a \in Nat : \A n \in 1 .. a - 1 : n \in Nat /\ 1 <= n /\ n < a
  OBVIOUS
<1> USE CallAssumption
<1>1. /\ attempt \in Attempts /\ attempt \in Nat /\ autoRetries \in Nat /\ text \in Nat
      /\ Len(callLog) \in Nat /\ asked \in [Attempts -> Nat]
      /\ \A n \in Attempts : n \in Nat
      /\ \A n \in 1 .. attempt : n \in Attempts
  BY DEF CallTypeOK, Attempts
<1>2. AskedInOrder /\ NothingAhead /\ OutputSeen /\ Registration /\ Causes /\ TwiceOnlyOnRequest
  BY DEF CallInductive
<1>3. \A n \in Attempts : \A i \in DeltasOf(n) : i \in Nat /\ 0 < i /\ i <= Len(callLog)
  BY DeltasAreLogged
<1>4. CASE BeginAttempt
  <2> USE <1>4 DEF BeginAttempt
  <2>1. /\ \A n \in Attempts : DeltasOf(n)' = DeltasOf(n)
        /\ \/ pc' = "waiting" /\ registered' = TRUE /\ callLog' # <<>> /\ Len(callLog') = Len(callLog) + 1
           \/ pc' = "failed" /\ registered' = registered /\ callLog' = callLog
    <3>1. CASE Log("started") /\ pc' = "waiting" /\ registered' = TRUE
      <4>1. "started" \in CallKinds \ {"delta"}
        BY DEF CallKinds
      <4>2. /\ callLog' # <<>> /\ Len(callLog') = Len(callLog) + 1
            /\ \A n \in Attempts : DeltasOf(n)' = DeltasOf(n)
        BY <3>1, <4>1, LogOther
      <4> QED BY <3>1, <4>2
    <3>2. CASE pc' = "failed" /\ UNCHANGED <<callLog, registered>>
      BY <3>2 DEF DeltasOf
    <3> QED BY <3>1, <3>2
  <2>2. AskedInOrder'
    BY <1>1, <1>2, <2>1 DEF AskedInOrder
  <2>3. NothingAhead' /\ OutputSeen'
    BY <1>1, <1>2, <2>1 DEF NothingAhead, OutputSeen, Registration
  <2>4. Registration' /\ Causes'
    BY <1>1, <1>2, <2>1 DEF Registration, Causes
  <2>5. TwiceOnlyOnRequest'
    BY <1>1, <1>2, <2>1 DEF TwiceOnlyOnRequest
  <2> QED BY <2>2, <2>3, <2>4, <2>5 DEF CallInductive
<1>5. CASE Delta
  <2> USE <1>5 DEF Delta
  <2>1. /\ \A n \in Attempts : n # attempt => DeltasOf(n)' = DeltasOf(n)
        /\ \A i \in DeltasOf(attempt)' : i \in DeltasOf(attempt) \/ i = Len(callLog) + 1
        /\ Len(callLog') >= Len(callLog) /\ Len(callLog') \in Nat
        /\ callLog # <<>> => callLog' # <<>>
    <3>1. CASE Log("delta")
      BY <1>1, <3>1, LogAppends DEF CallKinds
    <3>2. CASE callLog' = callLog
      BY <1>1, <3>2 DEF DeltasOf
    <3> QED BY <3>1, <3>2
  <2>2. AskedInOrder'
    BY <1>1, <1>2, <1>3, <2>1 DEF AskedInOrder
  <2>3. NothingAhead' /\ OutputSeen'
    BY <1>1, <1>2, <2>1 DEF NothingAhead, OutputSeen
  <2>4. Registration' /\ Causes'
    BY <1>1, <1>2, <2>1 DEF Registration, Causes
  <2>5. TwiceOnlyOnRequest'
    BY <1>1, <1>2, <2>1 DEF TwiceOnlyOnRequest
  <2> QED BY <2>2, <2>3, <2>4, <2>5 DEF CallInductive
<1>6. CASE Ended
  <2> USE <1>6 DEF Ended
  <2>1. CASE Log(Outcome)
    <3>1. Outcome \in CallKinds \ {"delta"}
      BY DEF Outcome, CallKinds
    <3>2. /\ \A n \in Attempts : DeltasOf(n)' = DeltasOf(n)
          /\ Len(callLog') = Len(callLog) + 1
      BY <2>1, <3>1, LogOther
    <3>3. /\ attempt' \in Nat /\ attempt <= attempt'
          /\ \A n \in Nat : n < attempt' => n <= attempt
          /\ attempt' # attempt => again # "none" /\ attempt' = attempt + 1
          /\ pc' \in {"begin", "message", "failed"}
          /\ pc' = "begin" => attempt' = attempt + 1
          /\ autoRetries' <= MaxRetries
      <4>1. again = "auto" => autoRetries < MaxRetries
        BY <1>2 DEF Causes
      <4> QED BY <1>1, <1>2, <4>1 DEF TwiceOnlyOnRequest
    <3>4. AskedInOrder'
      BY <1>1, <1>2, <3>2, <3>3 DEF AskedInOrder
    <3>5. NothingAhead'
      BY <1>1, <1>2, <3>2, <3>3 DEF NothingAhead
    <3>6. OutputSeen' /\ Registration' /\ Causes'
      BY <1>1, <1>2, <3>2, <3>3 DEF OutputSeen, Registration, Causes
    <3>7. TwiceOnlyOnRequest'
      <4>1. again # "none" /\ DeltasOf(attempt) # {} => asked[attempt] # 0
        BY <1>1, <1>2 DEF Causes, OutputSeen, CallTypeOK
      <4>2. DeltasOf(attempt) # {} /\ asked[attempt] # 0 => \A i \in DeltasOf(attempt) : asked[attempt] < i
        BY <1>1, <1>2 DEF AskedInOrder
      <4>3. ASSUME NEW n \in 1 .. attempt' - 1, DeltasOf(n)' # {}
            PROVE  asked'[n] # 0 /\ \A i \in DeltasOf(n)' : asked'[n] < i
        <5> attempt' \in Nat /\ n \in Nat /\ 1 <= n /\ n < attempt'
          BY <1>0, <3>3
        <5>1. n \in 1 .. attempt /\ n \in Attempts /\ asked' = asked /\ DeltasOf(n)' = DeltasOf(n)
          BY <1>1, <3>2, <3>3, <4>3
        <5>2. CASE n = attempt
          <6>1. again # "none"
            BY <1>1, <3>3, <4>3, <5>2
          <6> QED BY <4>1, <4>2, <4>3, <5>1, <5>2, <6>1
        <5>3. CASE n \in 1 .. attempt - 1
          BY <1>2, <4>3, <5>1, <5>3 DEF TwiceOnlyOnRequest
        <5> QED BY <1>1, <5>1, <5>2, <5>3
      <4> QED BY <3>3, <4>3 DEF TwiceOnlyOnRequest
    <3> QED BY <3>4, <3>5, <3>6, <3>7 DEF CallInductive
  <2>2. CASE pc' = "failed" /\ UNCHANGED <<callLog, attempt, autoRetries>>
    <3>1. AskedInOrder' /\ TwiceOnlyOnRequest' /\ \A n \in Attempts : DeltasOf(n)' = DeltasOf(n)
      BY <2>2, LogAlone
    <3>2. NothingAhead' /\ OutputSeen' /\ Registration' /\ Causes'
      BY <1>1, <1>2, <2>2, <3>1 DEF NothingAhead, OutputSeen, Registration, Causes
    <3> QED BY <3>1, <3>2 DEF CallInductive
  <2> QED BY <2>1, <2>2
<1>7. CASE EndMessage
  <2> USE <1>7 DEF EndMessage
  <2>1. /\ \A n \in Attempts : DeltasOf(n)' = DeltasOf(n)
        /\ Len(callLog') \in Nat /\ Len(callLog) <= Len(callLog')
        /\ pc' \in {"answered", "interrupted", "stuck", "failed"}
    <3>1. CASE Log("done")
      BY <1>1, <3>1, LogOther DEF CallKinds
    <3>2. CASE pc' = "failed" /\ UNCHANGED callLog
      BY <1>1, <3>2 DEF DeltasOf
    <3> QED BY <3>1, <3>2
  <2>2. AskedInOrder' /\ TwiceOnlyOnRequest'
    BY <1>1, <1>2, <2>1 DEF AskedInOrder, TwiceOnlyOnRequest
  <2>3. NothingAhead' /\ OutputSeen' /\ Registration' /\ Causes'
    BY <1>1, <1>2, <2>1 DEF NothingAhead, OutputSeen, Registration, Causes
  <2> QED BY <2>2, <2>3 DEF CallInductive
<1>8. CASE RetryModelCall
  <2> USE <1>8 DEF RetryModelCall
  <2>1. \A n : DeltasOf(n)' = DeltasOf(n)
    BY DEF DeltasOf
  <2>2. DeltasOf(attempt) = {} /\ Len(callLog) > 0 /\ pc # "begin"
    BY <1>1, <1>2 DEF OutputSeen, Registration, CallTypeOK
  <2>3. /\ asked'[attempt] # 0 /\ asked' \in [Attempts -> Nat]
        /\ asked'[attempt] = asked[attempt] \/ asked'[attempt] = Len(callLog)
        /\ \A n \in Attempts : n # attempt => asked'[n] = asked[n]
    BY <1>1, <2>2
  <2>4. AskedInOrder'
    BY <1>1, <1>2, <2>1, <2>2, <2>3 DEF AskedInOrder
  <2>5. NothingAhead' /\ OutputSeen' /\ Registration'
    BY <1>1, <1>2, <2>1, <2>2, <2>3 DEF NothingAhead, OutputSeen, Registration
  <2>6. Causes'
    <3>1. \A n \in asking' : n \in Attempts /\ (n \in asking \/ n = attempt)
      BY <1>1 DEF CallTypeOK
    <3> QED BY <1>1, <1>2, <2>3, <3>1 DEF Causes
  <2>7. TwiceOnlyOnRequest'
    BY <1>1, <1>2, <2>1, <2>2, <2>3 DEF TwiceOnlyOnRequest
  <2> QED BY <2>4, <2>5, <2>6, <2>7 DEF CallInductive
<1>9. ASSUME UNCHANGED <<callLog, attempt, asked, autoRetries>>, NothingAhead', OutputSeen', Registration', Causes'
      PROVE  CallInductive'
  BY <1>9, LogAlone DEF CallInductive
<1>10. ASSUME UNCHANGED <<callLog, attempt, asked, autoRetries>>
       PROVE  \A n : DeltasOf(n)' = DeltasOf(n)
  BY <1>10 DEF DeltasOf
<1> USE DEF NothingAhead, OutputSeen, Registration, Causes
<1>11. CASE Admitted
  BY <1>1, <1>2, <1>9, <1>10, <1>11 DEF Admitted
<1>12. ASSUME NEW e \in {"ok", "refused", "broken", "stall", "cancelled"}, Returns(e) PROVE CallInductive'
  BY <1>1, <1>2, <1>9, <1>10, <1>12 DEF Returns, InFlight
<1>13. CASE UserRetry
  BY <1>1, <1>2, <1>9, <1>10, <1>13 DEF UserRetry
<1>14. CASE AutoRetry
  BY <1>1, <1>2, <1>9, <1>10, <1>14 DEF AutoRetry, MayRetry
<1>15. ASSUME NEW n \in Attempts, Asked(n) PROVE CallInductive'
  BY <1>1, <1>2, <1>9, <1>10, <1>15 DEF Asked, Cancel
<1>16. CASE Fire \/ Probed
  BY <1>1, <1>2, <1>9, <1>10, <1>16 DEF Fire, Probed
<1>17. CASE Interrupt
  BY <1>1, <1>2, <1>9, <1>10, <1>17 DEF Interrupt, Cancel
<1>18. CASE UNCHANGED callVars
  BY <1>1, <1>2, <1>9, <1>10, <1>18 DEF callVars
<1>19. CASE HandlerFails
  BY <1>1, <1>2, <1>9, <1>10, <1>19 DEF HandlerFails
<1>20. ASSUME LateFire PROVE CallInductive'
  BY <1>1, <1>2, <1>9, <1>10, <1>20 DEF LateFire
<1> QED
  BY <1>4, <1>5, <1>6, <1>7, <1>8, <1>11, <1>12, <1>13, <1>14, <1>15, <1>16, <1>17, <1>18, <1>19, <1>20
     DEF CallNext, TurnStep, ReturnsCancelled

------------------------------------------------------------------------------
(* Theorems *)

\* The invariant holds in every state a call reaches.
LEMMA CallInvariant == CallSpec => [](CallTypeOK /\ CallInductive)
<1>1. CallInit => CallTypeOK /\ CallInductive
  BY CallBegins
<1>2. (CallTypeOK /\ CallInductive) /\ [CallNext]_callVars => (CallTypeOK /\ CallInductive)'
  BY TypeStep, InductiveStep
<1> QED BY <1>1, <1>2, PTL DEF CallSpec

\* Every variable of a model call keeps its type.
THEOREM CallTypes == CallSpec => []CallTypeOK
BY CallInvariant, PTL

\* The log shows a reply of an attempt that was made again only when a retry was
\* accepted before the first of it came, and flit makes no more attempts on its
\* own than it is configured to (the attempts of agent/turn.go, retryCall of
\* agent/session.go): for any number of attempts, retries and deltas.
THEOREM RepliesTwiceOnlyOnRequest == CallSpec => []TwiceOnlyOnRequest
<1>1. CallInductive => TwiceOnlyOnRequest
  BY DEF CallInductive
<1> QED BY CallInvariant, <1>1, PTL
==============================================================================
