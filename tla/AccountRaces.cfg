SPECIFICATION Spec
CONSTANTS
  Ids = {u1, u2}
  NoDoc = NoDoc
  RawNames = {"ann", "theadmin", " "}
  RawEmails = {"ann@"}
  NameOf <- OddNames
  EmailOf <- OneEmail
  Blank = ""
  SeedName = "theadmin"
  SeedEmail = "root@"
  Slots = {c1, c2}
  NoId = NoId
  Servers = {"p1", "p2"}
  Faults = TRUE
SYMMETRY AccountSymmetry
INVARIANTS TypeOK OneSuperAdmin TokenAfterDecision PendingListed
PROPERTY SuperAdminUntouched
