\* An ask and a reader of it, every 202 delivered and every audit
\* line written.
SPECIFICATION FairSpec
CONSTANTS
  Oids = {alice}
  Cids = {c1}
  Tids = {t1}
  Handlers = {h1}
  Readers = {r1}
  None = None
  TTL = 0
  MAX_EVENTS = 9
  MAX_STEPS = 1
  MaxCalls = 1
  CallKinds = {"query"}
  Cancellable = {t1}
  RefusalReasons = {}
  ClientMayVanish = FALSE
  AuditMayFail = FALSE
PROPERTIES
  RunsFinish
  StreamsEnd
  StoreDrains
