SPECIFICATION FairSpec
CONSTANTS
  Nil = Nil
  Tabs = {t1, t2}
  kb = kb
  acme = acme
  guest = guest
  Accounts = {kb, guest}
  Uploaders = {kb}
  Creators = {}
  Tenant <- MCTenant
  Watchers = {t1}
  MaxCalls = 2
  MaxTokens = 2
  MaxUploads = 1
  MaxJobs = 2
  MaxTroubles = 1
CHECK_DEADLOCK FALSE
PROPERTIES
  SessionsEndForAReason
  ToastsAreDue
  RowsSettle
