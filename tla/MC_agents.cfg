SPECIFICATION ConnectionFairSpec
CONSTANTS
 a1 = a1
 s1 = s1
 s2 = s2
 i1 = i1
 i2 = i2
 h1 = h1
 NoId = NoId
 NoSocket = NoSocket
 NoAgent = NoAgent
 Agents <- OneAgent
 Sockets <- TwoSockets
 Ids <- TwoIds
 Hosts <- OneHost
 HostOf <- SameHost
 MaxMishaps = 1
 MaxUnderWay = 2
PROPERTIES GoneIsOffline LiveIsOnline
CHECK_DEADLOCK FALSE
