SPECIFICATION ServingSpec
CONSTANTS
  Msgs = {m1, m2}
  Prompts = {p1}
  Patterns = {}
  Runs = {r1}
  None = None
  MaxSteps = 2
  MaxTools = 1
  MaxEdits = 0
  MaxCompacts = 0
  MaxFails = 0
  MaxRestarts = 0
  Streams = {s1, s2}
  NoStream = NoStream
  Buffer = 1
  Page = 2
  MaxSeq = 4
  MaxBreaks = 1
  MaxReconnects = 1
  Callers = {c1, c2, c3, c4}
  Limits = {0, 1, 2}
INVARIANTS
  AttachTypeOK
  NoGap
  HandlerComplete
  NoLeakedSubscriber
  LimiterTypeOK
  SlotsAccounted
  GateKept
  NobodyWaitsForNobody
PROPERTIES
  InterruptEnds
  QueueMoves
  CloseEnds
  ShowsTheLog
  WithinLimit
  FirstComeFirstServed
  EveryCallServed
\* Clients may have nothing more to ask, and then everything rests.
CHECK_DEADLOCK FALSE
