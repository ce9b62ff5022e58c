SPECIFICATION FairSpec
CONSTANTS
  Nil = Nil
  Tenants = {"kb", "acme"}
  Groups = {"billing", "hr"}
  Sources = {"report.pdf", "Report.pdf"}
  Contents = {"long", "scan", "torn", "blank"}
  Jobs = {j1, j2}
  Extraction <- MCExtraction
  DocumentKey <- MCDocumentKey
  Pipeline = "canonical"
  ALLOW_NEEDS_REVIEW = FALSE
  FAIL_ON_ZERO_CHUNKS = TRUE
  Workers = {w1, w2}
  Identities <- MCTwoIdentities
  Prefetch = 1
  MaxCrashes = 1
  MaxFaults = 1
  MaxRedeliveries = 1
CHECK_DEADLOCK FALSE
INVARIANTS
  VerdictMatchesIndex
  SameFileOnce
  StartedMeansRunning
PROPERTIES
  JobsSettle
