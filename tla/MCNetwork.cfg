SPECIFICATION FairSpec
CONSTANTS
  Nodes <- MCNodes
  Switches = {0, 1}
  SwitchPorts = 3
  Links <- MCLinks
  Routes <- MCRoutes
  InputBuffers = 1
  OutputBuffers = 1
  InternalBuffers = 1
  Bandwidth = 4
  ChannelLatency = 1
  LatencyDivider = 4
  SendCapacity = 1
  RecvCapacity = 1
  Memories = {2}
  MaxRequests = 1
  Flows <- MCFlows
  Stubborn <- MCStubborn
INVARIANT TypeOK
INVARIANT CountersMatch
PROPERTY AllDelivered
