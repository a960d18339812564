CONSTANTS
  amplifier = amplifier
  radio = radio
  music = music
  socket = socket
  Nodes <- MCNodes
  Routes <- MCRoutes
  Source <- MCSource
  Sink <- MCSink
  Resources = {socket}
  Positions = {0, 1}
  MaxNodes = 1
  MaxResources = 1
  ServiceTime = 1
  MaxTimeout = 2
  MprRetries = 1
  RetryRange = 3
  ClockRange = 3
SPECIFICATION Spec
INVARIANT TimesAgree
 
PROPERTY PendingIsServiced
