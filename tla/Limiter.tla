------------------------------- MODULE Limiter -------------------------------
(***************************************************************************)
(* llm.Limiter (internal/llm/limit.go): the slots of one provider and      *)
(* model.  Gates of other keys share nothing with it but the lock; Changed *)
(* treats each of them alike.                                              *)
(*                                                                         *)
(* The limit is the live configuration's: it changes at any time, and the  *)
(* config watcher calls Changed only afterwards (cmd/flit/main.go:328).    *)
(* A limit of 0 is no limit.                                               *)
(***************************************************************************)
EXTENDS Integers, Sequences, FiniteSets

CONSTANTS
  Callers,   \* calls that can be made at the same time
  Limits     \* the limits the configuration may set

ASSUME LimiterAssumption ==
  /\ IsFiniteSet(Callers)
  /\ Limits \subseteq Nat /\ Limits # {}

VARIABLES
  limit,     \* what Concurrency(provider, model) returns now
  stale,     \* the limit has changed and Changed has not run yet
  present,   \* the gate is in Limiter.gates
  inUse,     \* gate.inUse
  waiting,   \* gate.waiting
  stage,     \* where each call is
  ended      \* calls whose context has ended

limiterVars == <<limit, stale, present, inUse, waiting, stage, ended>>

\* Calls the gate has counted a slot for.
Holders == {c \in Callers : stage[c] \in {"granted", "holding"}}

Waiters == {waiting[i] : i \in DOMAIN waiting}

------------------------------------------------------------------------------
(* The gate *)

\* Whether the loop of pump stops with n slots in use.
Full(n) == limit > 0 /\ n >= limit

\* Variant: a slot that was freed is handed on, whatever the limit is now.
GrantedOn(n, w) ==
  IF limit = 0 \/ Len(w) <= limit - n THEN Len(w)
  ELSE IF n < limit THEN limit - n ELSE IF n < inUse /\ w # <<>> THEN 1 ELSE 0

\* How many of the waiters w pump lets in, with n slots in use.
Granted(n, w) ==
  IF limit = 0 \/ Len(w) <= limit - n THEN Len(w)
  ELSE IF n < limit THEN limit - n ELSE 0

\* Variant: the gate goes once no call holds a slot or once none waits.
ForgetEarly(n, w) == present' = (n # 0 /\ w # <<>>)

\* forget: an idle gate leaves the map.
Forget(n, w) == present' = (n # 0 \/ w # <<>>)

\* Variant: a slot freed is kept for the calls that ask for it next.
PumpNone(n, w, moved) ==
  /\ inUse' = n
  /\ waiting' = w
  /\ stage' = moved
  /\ Forget(n, w)

\* pump: free slots go to waiters in order, then an idle gate is dropped.
\* moved is where the calls are otherwise.
Pump(n, w, moved) ==
  LET k == Granted(n, w) IN
  /\ inUse' = n + k
  /\ waiting' = SubSeq(w, k + 1, Len(w))
  /\ stage' = [c \in Callers |->
              IF \E i \in 1 .. k : w[i] = c THEN "granted" ELSE moved[c]]
  /\ Forget(n + k, SubSeq(w, k + 1, Len(w)))

------------------------------------------------------------------------------
(* Calls *)

\* Variant: a call is let in past those that wait.
AcquireBarging(c) ==
  /\ stage[c] = "idle"
  /\ present' = TRUE
  /\ IF ~Full(inUse)
       THEN /\ inUse' = inUse + 1
            /\ stage' = [stage EXCEPT ![c] = "holding"]
            /\ UNCHANGED waiting
       ELSE /\ waiting' = Append(waiting, c)
            /\ stage' = [stage EXCEPT ![c] = "waiting"]
            /\ UNCHANGED inUse
  /\ UNCHANGED <<limit, stale, ended>>

\* Acquire, up to the select: a slot at once, or a place in the queue.
Acquire(c) ==
  /\ stage[c] = "idle"
  /\ present' = TRUE
  /\ IF waiting = <<>> /\ ~Full(inUse)
       THEN /\ inUse' = inUse + 1
            /\ stage' = [stage EXCEPT ![c] = "holding"]
            /\ UNCHANGED waiting
       ELSE /\ waiting' = Append(waiting, c)
            /\ stage' = [stage EXCEPT ![c] = "waiting"]
            /\ UNCHANGED inUse
  /\ UNCHANGED <<limit, stale, ended>>

\* The select takes the slot granted.
Ready(c) ==
  /\ stage[c] = "granted"
  /\ stage' = [stage EXCEPT ![c] = "holding"]
  /\ UNCHANGED <<limit, stale, present, inUse, waiting, ended>>

\* Variant: a slot granted as the context ended is not passed on.
DeclineLeaking(c) ==
  /\ c \in ended /\ stage[c] = "granted"
  /\ ended' = ended \ {c}
  /\ stage' = [stage EXCEPT ![c] = "idle"]
  /\ UNCHANGED <<limit, stale, present, inUse, waiting>>

\* The select takes the end of the context, though a slot was granted
\* meanwhile: the slot is passed on.
Decline(c) ==
  /\ c \in ended /\ stage[c] = "granted"
  /\ ended' = ended \ {c}
  /\ Pump(inUse - 1, waiting, [stage EXCEPT ![c] = "idle"])
  /\ UNCHANGED <<limit, stale>>

\* removeWaiter, at the waiter's place in the queue.
RemoveWaiter(ws, i) == SubSeq(ws, 1, i - 1) \o SubSeq(ws, i + 1, Len(ws))

\* Variant: the slot of a call that never held one is freed.
LeaveReleasing(c) ==
  /\ c \in ended /\ stage[c] = "waiting"
  /\ ended' = ended \ {c}
  /\ \E i \in DOMAIN waiting :
       /\ waiting[i] = c
       /\ Pump(inUse - 1, RemoveWaiter(waiting, i), [stage EXCEPT ![c] = "idle"])
  /\ UNCHANGED <<limit, stale>>

\* The context ends while the call waits: it leaves the queue.
Leave(c) ==
  /\ c \in ended /\ stage[c] = "waiting"
  /\ ended' = ended \ {c}
  /\ \E i \in DOMAIN waiting :
       /\ waiting[i] = c
       /\ waiting' = RemoveWaiter(waiting, i)
       /\ Forget(inUse, RemoveWaiter(waiting, i))
  /\ stage' = [stage EXCEPT ![c] = "idle"]
  /\ UNCHANGED <<limit, stale, inUse>>

\* The function Acquire returned: the call is over, well or cancelled.
Release(c) ==
  /\ stage[c] = "holding"
  /\ ended' = ended \ {c}
  /\ Pump(inUse - 1, waiting, [stage EXCEPT ![c] = "idle"])
  /\ UNCHANGED <<limit, stale>>

\* The call's context ends: an interrupt, a retry by request, a timeout.
End(c) ==
  /\ stage[c] # "idle" /\ c \notin ended
  /\ ended' = ended \cup {c}
  /\ UNCHANGED <<limit, stale, present, inUse, waiting, stage>>

------------------------------------------------------------------------------
(* The configuration *)

SetLimit(n) ==
  /\ n # limit
  /\ limit' = n /\ stale' = TRUE
  /\ UNCHANGED <<present, inUse, waiting, stage, ended>>

Changed ==
  /\ stale
  /\ stale' = FALSE
  /\ IF present THEN Pump(inUse, waiting, stage)
     ELSE UNCHANGED <<present, inUse, waiting, stage>>
  /\ UNCHANGED <<limit, ended>>

LimiterInit ==
  /\ limit \in Limits /\ stale = FALSE
  /\ present = FALSE /\ inUse = 0 /\ waiting = <<>>
  /\ stage = [c \in Callers |-> "idle"] /\ ended = {}

LimiterNext ==
  \/ \E c \in Callers : Acquire(c) \/ Ready(c) \/ Decline(c) \/ Leave(c) \/ Release(c) \/ End(c)
  \/ \E n \in Limits : SetLimit(n)
  \/ Changed

LimiterSpec == LimiterInit /\ [][LimiterNext]_limiterVars

\* A call that got its slot ends: the stream is read to its end or to one of
\* its timeouts.  The watcher calls Changed.  Nobody has to cancel anything.
LimiterFairness ==
  /\ \A c \in Callers : WF_limiterVars(Ready(c)) /\ WF_limiterVars(Release(c))
  /\ WF_limiterVars(Changed)

LimiterFairSpec == LimiterSpec /\ LimiterFairness

------------------------------------------------------------------------------
(* Properties *)

\* Every variable has its type.
LimiterTypeOK ==
  /\ limit \in Limits /\ stale \in BOOLEAN /\ present \in BOOLEAN
  /\ inUse \in Nat
  /\ waiting \in Seq(Callers)
  /\ stage \in [Callers -> {"idle", "waiting", "granted", "holding"}]
  /\ ended \subseteq Callers

\* Every slot in use is some call's and every call's slot is in use, whatever
\* ends as it is granted; those that wait are queued, once each.
SlotsAccounted ==
  /\ inUse = Cardinality(Holders)
  /\ Waiters = {c \in Callers : stage[c] = "waiting"}
  /\ \A i, j \in DOMAIN waiting : waiting[i] = waiting[j] => i = j

\* The gate is in the map while a call needs it (the function that frees a
\* slot looks it up there), and only then.
GateKept == present <=> (Holders # {} \/ waiting # <<>>)

\* Calls wait only behind a call that will free its slot, even between a
\* change of the limit and Changed; once Changed has run, no slot is free.
NobodyWaitsForNobody ==
  waiting # <<>> => /\ inUse >= 1
                    /\ stale \/ Full(inUse)

\* A call is given a slot only within the limit in force: a slot that is freed is
\* not handed on past a limit that was lowered meanwhile.
GivenWithinLimit == Holders' \subseteq Holders \/ limit' = 0 \/ inUse' <= limit'

\* A call loses its slot only by a step of its own, which ends it; the
\* configuration and Changed stop no call.
TakenFromNobody ==
  /\ \A c \in Holders \ Holders' : stage'[c] = "idle"
  /\ limit' # limit \/ stale' # stale => Holders \subseteq Holders'

\* However the limit changes: what is given is within the limit now, and what was
\* given stays.
WithinLimit == [][GivenWithinLimit /\ TakenFromNobody]_limiterVars

\* First come, first served: a call gets a slot only if every call queued
\* before it has one too.
FirstComeFirstServed ==
  [][/\ \A c \in Callers : stage[c] = "idle" /\ stage'[c] = "holding" => waiting = <<>>
     /\ \A i, j \in DOMAIN waiting :
          i < j /\ stage'[waiting[j]] = "granted" => stage'[waiting[i]] = "granted"
    ]_limiterVars

\* A call that waits gets its slot, or its context ends.
EveryCallServed ==
  \A c \in Callers : stage[c] = "waiting" ~> stage[c] # "waiting"
==============================================================================
