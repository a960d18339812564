CONSTANTS
  QueueLen = 2
  MaxNodes = 1
  MaxScripts = 1
  Routes = {r1}
  RemoteCmds = {"I2CWrite"}
  Calls = {"newconfig", "script", "route", "remote", "error"}
  MayFail = {"Init", "Stop", "NsRun", "RmSetRoute", "I2CWrite"}
  Null = null
SPECIFICATION FairSpec
 
PROPERTY EveryCommandIsAnswered
PROPERTY RefinesFifo
PROPERTY QueueAdvances
