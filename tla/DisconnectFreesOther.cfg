SPECIFICATION SerialSpec
CONSTANTS
  Users = {"ann", "bob"}
  Admins = {"bob"}
  Dates = {1}
  NoUser = NoUser
  NoDate = NoDate
  Keep = Keep
  Tickets = {"t1"}
  NoTicket = NoTicket
  Slots = {"c1"}
  Sockets = {"s1", "s2"}
  NoSocket = NoSocket
  Claims <- OneEach
  Faults = FALSE
  Crashes = FALSE
PROPERTY DisconnectReleasesOwn
