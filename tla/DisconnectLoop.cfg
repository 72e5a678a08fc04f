SPECIFICATION FairSpec
CONSTANTS
  Users = {"ann"}
  Admins = {"ann"}
  Dates = {1}
  NoUser = NoUser
  NoDate = NoDate
  Keep = Keep
  Tickets = {"t1", "t2"}
  NoTicket = NoTicket
  Slots = {"c1"}
  Sockets = {"s1"}
  NoSocket = NoSocket
  Claims <- AnnOrNone
  Faults = FALSE
  Crashes = FALSE
PROPERTY DisconnectTerminates
