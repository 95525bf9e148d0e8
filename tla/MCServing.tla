----------------------------- MODULE MCServing -------------------------------
(***************************************************************************)
(* What clients wait for: the turns of a session, the streams of its log   *)
(* and the slots of its model calls.  They share no state; a behaviour is  *)
(* one of one part, and the others stay as they begin.                     *)
(***************************************************************************)
EXTENDS Session, Attach, Limiter

VARIABLE part

servingVars == <<part, vars, attachVars, limiterVars>>

\* A part that does not run begins in one state only.
ServingInit ==
  /\ part \in {"session", "attach", "limiter"}
  /\ Init
  /\ AttachInit
  /\ LimiterInit /\ (part # "limiter" => limit = 0)

ServingNext ==
  /\ UNCHANGED part
  /\ \/ part = "session" /\ Next /\ UNCHANGED <<attachVars, limiterVars>>
     \/ part = "attach" /\ AttachNext /\ UNCHANGED <<vars, limiterVars>>
     \/ part = "limiter" /\ LimiterNext /\ UNCHANGED <<vars, attachVars>>

\* Each part's own fairness, where it is the one that runs.
ServingFairness ==
  /\ Fairness
  /\ \A s \in Streams : WF_attachVars(part = "attach" /\ Handle(s)) /\ WF_attachVars(Reuse(s))
  /\ WF_attachVars(OnEvent) /\ WF_attachVars(Dropped)
  /\ WF_attachVars(part = "attach" /\ \E s \in Streams : Retry(s))
  /\ LimiterFairness

ServingSpec == ServingInit /\ [][ServingNext]_servingVars /\ ServingFairness
==============================================================================
