SPECIFICATION FairSpec
CONSTANTS
  Versions = {1, 2}
  Devices <- MCDevices
  Channels <- MCChannels
  Interface <- MCInterface
  Accepted = {"usb"}
  Filters = {TRUE, FALSE}
  Drivers <- MCDrivers
  MaxFaults = 1
  MaxPlugs = 2
  MaxRestarts = 1
INVARIANTS TypeOK StopIsFinal   ConfiguredAreLinked CardIsCreated
PROPERTIES ChannelsAreConfigured 
CHECK_DEADLOCK FALSE
