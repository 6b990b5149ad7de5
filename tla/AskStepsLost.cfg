\* A run that raises after it has told a step.
SPECIFICATION Spec
CONSTANTS
  Oids = {alice}
  Cids = {c1}
  Tids = {t1}
  Handlers = {h1}
  Readers = {}
  None = None
  TTL = 0
  MAX_EVENTS = 9
  MAX_STEPS = 2
  MaxCalls = 1
  CallKinds = {"query"}
  Cancellable = {}
  RefusalReasons = {}
  ClientMayVanish = FALSE
  AuditMayFail = FALSE
INVARIANTS
  DoneCountsSteps
