\* A cancel that arrives while the model is asked, or after it has answered.
SPECIFICATION Spec
CONSTANTS
  Oids = {alice}
  Cids = {c1}
  Tids = {t1}
  Handlers = {h1}
  Readers = {}
  None = None
  TTL = 0
  MAX_EVENTS = 9
  MAX_STEPS = 1
  MaxCalls = 1
  CallKinds = {"query"}
  Cancellable = {t1}
  RefusalReasons = {}
  ClientMayVanish = FALSE
  AuditMayFail = FALSE
INVARIANTS
  CancelSilences
