SPECIFICATION SerialFairSpec
CONSTANTS
  Users = {"ann", "bob"}
  Admins = {"bob"}
  Dates = {1, 2}
  NoUser = NoUser
  NoDate = NoDate
  Keep = Keep
  Tickets = {"t1"}
  NoTicket = NoTicket
  Slots = {"c1"}
  Sockets = {"s1", "s2"}
  NoSocket = NoSocket
  Claims <- OneEachOrNone
  Faults = TRUE
  Crashes = TRUE
INVARIANTS HeldIsDated CleanedUp AnnouncedAgrees
PROPERTIES DeskSpec CleanupReleases
