SPECIFICATION BurstSpec
CONSTANTS
  Nodes = {1, 5, 9, 13, 17, 21, 25, 29}
  Switches = {1, 5, 9, 13}
  SwitchPorts = 4
  Links <- TorusLinks
  Routes <- TorusRoutes
  InputBuffers = 1
  OutputBuffers = 1
  InternalBuffers = 1
  Bandwidth = 4
  ChannelLatency = 1
  LatencyDivider = 4
  SendCapacity = 1
  RecvCapacity = 4
  Memories = {}
  MaxRequests = 1
  Flows <- TorusFlows
  Stubborn = {}
INVARIANT DeadlockFree
