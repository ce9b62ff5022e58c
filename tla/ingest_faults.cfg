SPECIFICATION Spec
CONSTANTS
  Nil = Nil
  Tenants = {"kb", "acme"}
  Groups = {"billing", "hr"}
  Sources = {"report.pdf"}
  Contents = {"long", "short", "broken"}
  Jobs = {j1, j2, j3}
  Extraction <- MCExtraction
  DocumentKey <- MCDocumentKey
  Pipeline = "legacy"
  ALLOW_NEEDS_REVIEW = FALSE
  FAIL_ON_ZERO_CHUNKS = TRUE
  Workers = {w1, w2}
  Identities <- MCTenants
  Prefetch = 2
  MaxCrashes = 1
  MaxFaults = 1
  MaxRedeliveries = 1
CHECK_DEADLOCK FALSE
SYMMETRY Symmetry
INVARIANTS
  TypeOK
  SuccessIsSearchable
  LossesNeedCrashes
  FailuresAreExplained
PROPERTIES
  ImplementsDocumentStore
