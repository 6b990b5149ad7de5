\* A reader follows, loses, resumes, replays one ticket whose turns
\* overflow its retained list, cancelled at any moment, while it runs and after.
SPECIFICATION Spec
CONSTANTS
  Oids = {alice}
  Cids = {c1}
  Tids = {t1}
  Handlers = {h1}
  Readers = {r1}
  None = None
  TTL = 1
  MAX_EVENTS = 4
  MAX_STEPS = 2
  MaxCalls = 1
  CallKinds = {"query", "listing", "failed"}
  Cancellable = {t1}
  RefusalReasons = {"refusal"}
  ClientMayVanish = FALSE
  AuditMayFail = FALSE
INVARIANTS
  EndStaysVisible
  CancelOutlivesOneTurn
  RefusalNeverSmoothed
  ReaderLossless
