------------------------------ MODULE MCParts --------------------------------
(***************************************************************************)
(* Three parts of flit that share no state (the scheduler, one model call  *)
(* and the conversation built from a log) on small instances.  A behaviour *)
(* is one of one part; the others stay as they begin.                      *)
(***************************************************************************)
EXTENDS Conversation, ModelCall, MCScheduler

VARIABLE part

partsVars == <<part, vars, callVars, conversationVars>>

PartsInit ==
  /\ part \in {"scheduler", "call", "conversation"}
  /\ Init /\ (part # "scheduler" => \A j \in Jobs : file[j] = NoFile)
  /\ CallInit /\ (part # "call" => llama)
  /\ ConversationInit

PartsNext ==
  /\ UNCHANGED part
  /\ \/ part = "scheduler" /\ NextStep /\ UNCHANGED <<callVars, conversationVars>>
     \/ part = "call" /\ CallNext /\ UNCHANGED <<vars, conversationVars>>
     \/ part = "conversation" /\ ConversationNext /\ UNCHANGED <<vars, callVars>>

\* Each part's own fairness, where it is the one that runs.
PartsFairness ==
  /\ SchedulerFairness
  /\ WF_callVars(part = "call" /\ TurnStep)
  /\ WF_callVars(part = "call" /\ ReturnsCancelled)
  /\ WF_callVars(part = "call" /\ Probed)
  /\ \A n \in Attempts : WF_callVars(part = "call" /\ Asked(n))

PartsSpec == PartsInit /\ [][PartsNext]_partsVars /\ PartsFairness
==============================================================================
