\* The stream handler reads `finished` after it has let the condition go.
SPECIFICATION Spec
CONSTANTS
  Oids = {alice}
  Cids = {c1}
  Tids = {t1}
  Handlers = {h1}
  Readers = {r1}
  None = None
  TTL = 0
  MAX_EVENTS = 9
  MAX_STEPS = 1
  MaxCalls = 1
  CallKinds = {"query"}
  Cancellable = {}
  RefusalReasons = {}
  ClientMayVanish = FALSE
  AuditMayFail = FALSE
INVARIANTS
  ClosedAfterDone
