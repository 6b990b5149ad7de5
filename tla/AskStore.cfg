\* Asks of two connections meet in one conversation, with the reaper, the lost
\* 202 and the failing audit line; no reader.
SPECIFICATION Spec
CONSTANTS
  Oids = {alice}
  Cids = {c1}
  Tids = {t1, t2, t3}
  Handlers = {h1, h2}
  Readers = {}
  None = None
  TTL = 0
  MAX_EVENTS = 9
  MAX_STEPS = 2
  MaxCalls = 1
  CallKinds = {"query"}
  Cancellable = {}
  RefusalReasons = {}
  ClientMayVanish = TRUE
  AuditMayFail = TRUE
SYMMETRY Symmetry
INVARIANTS
  TypeInv
  OneRunPerConversation
  PromptHoldsEarlierAnswers
PROPERTIES
  ReapSparesRuns
  ImplementsContract
