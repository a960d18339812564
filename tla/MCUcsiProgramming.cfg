CONSTANTS
  QueueLen = 2
  MaxNodes = 1
  MaxScripts = 1
  Routes = {r1}
  RemoteCmds = {}
  Calls = {"newconfig", "program"}
  MayFail = {}
  Null = null
SPECIFICATION FairSpec
PROPERTY ModeConverges
