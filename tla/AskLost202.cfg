\* The client of an ask is gone before its 202 is written.
SPECIFICATION FairSpec
CONSTANTS
  Oids = {alice}
  Cids = {c1}
  Tids = {t1}
  Handlers = {h1}
  Readers = {}
  None = None
  TTL = 0
  MAX_EVENTS = 9
  MAX_STEPS = 1
  MaxCalls = 1
  CallKinds = {"query"}
  Cancellable = {}
  RefusalReasons = {}
  ClientMayVanish = TRUE
  AuditMayFail = FALSE
PROPERTIES
  StoreDrains
