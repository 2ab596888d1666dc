SPECIFICATION FairSpec
CONSTANTS
  a = a
  b = b
  Clients        <- MCClients
  Topics         <- MCTopics
  Wants          <- MCWants
  NoEvent        = NoEvent
  Publishers     = 2
  PublishBuffer  = 1
  ReplayCapacity = 2
  ChannelLen     = 1
  MaxSubscribers = 1
  MaxEvents      = 3
  MaxEra         = 1
INVARIANTS
  InRecordOrder
  
PROPERTIES
  MissedIsAnnounced
