SPECIFICATION Spec
CONSTANTS
  Reading <- TwoReadings
  Extended <- ExtendedReadings
  blank = blank
  metered = metered
  Blank = blank
  Request = Request
  Publisher = Publisher
  Network = Network
  Nothing = Nothing
  MaxAsked = 2
  MaxReports = 1
  MaxDrops = 1
  Redirects = 2
  a1 = a1
  a2 = a2
  Ip <- Addresses
  MaxMoves = 2
  MaxFaults = 1
  MaxReboots = 1
  Command = Command
  w1 = w1
  w2 = w2
  Web <- WebThreads
  Address <- Addresses
  NoAddress = NoAddress
  MaxIssues = 3
  MaxRequests = 2
  MaxTroubles = 1
  Channels = 2
  IdleCurrent = 19
  Message <- Messages
  Gone = Gone
  MaxMessages = 2
  Base = 4
  MaxBytes = 2
  MaxPacket = 14
  Sent <- Connections
  Response <- Responses
INVARIANTS
  TypesOK
  DiscoveryFollowsLink
  AnswersAreTrue
  RulesLeadHere
  EnableHeals
  OneReport
  AnsweredIsKept
  HandlerIsInStep
PROPERTIES
  CatchesUp
  OneRoot
  TargetIsReached
CHECK_DEADLOCK FALSE
