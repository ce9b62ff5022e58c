SPECIFICATION Spec
CONSTANTS
  Nil = Nil
  Tenants = {"kb", "acme"}
  Groups = {"billing", "hr"}
  Sources = {"report.pdf"}
  Contents = {"long", "short"}
  Jobs = {j1, j2}
  Extraction <- MCExtraction
  DocumentKey <- MCDocumentKey
  Pipeline = "canonical"
  ALLOW_NEEDS_REVIEW = FALSE
  FAIL_ON_ZERO_CHUNKS = TRUE
  Workers = {w1}
  Identities <- MCOneIdentity
  Prefetch = 1
  MaxCrashes = 0
  MaxFaults = 0
  MaxRedeliveries = 0
CHECK_DEADLOCK FALSE
INVARIANTS
  ReuploadOverwrites
