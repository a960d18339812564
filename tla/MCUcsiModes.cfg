CONSTANTS
  QueueLen = 2
  MaxNodes = 1
  MaxScripts = 1
  Routes = {r1}
  RemoteCmds = {}
  Calls = {"newconfig", "mode"}
  MayFail = {"Init", "Stop"}
  Null = null
SPECIFICATION FairSpec
 
PROPERTY FollowUpFits
INVARIANT NoAnswerIsLost
