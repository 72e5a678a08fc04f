SPECIFICATION Spec
CONSTANTS
  Users = {"ann", "bob"}
  Admins = {"bob"}
  Dates = {1}
  NoUser = NoUser
  NoDate = NoDate
  Keep = Keep
  Tickets = {"t1"}
  NoTicket = NoTicket
  Slots = {"c1", "c2"}
  Sockets = {"s1"}
  NoSocket = NoSocket
  Claims <- OnlyAnn
  Faults = FALSE
  Crashes = FALSE
PROPERTY LockNotTaken
