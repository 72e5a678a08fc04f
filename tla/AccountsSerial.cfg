SPECIFICATION SerialSpec
CONSTANTS
  Ids = {u1, u2}
  NoDoc = NoDoc
  RawNames = {"ann"}
  RawEmails = {"ann@"}
  NameOf <- OneName
  EmailOf <- OneEmail
  Blank = ""
  SeedName = "theadmin"
  SeedEmail = "root@"
  Slots = {c1, c2}
  NoId = NoId
  Servers = {"p1", "p2"}
  Faults = FALSE
INVARIANT AdminIsApproved
PROPERTY SeedSettles
