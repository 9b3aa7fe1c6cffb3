SPECIFICATION FairSpec
CONSTANTS
  flood = flood
  fire = fire
  Events = {flood, fire}
  Polygons = {flood}
  Scheduler = Scheduler
  Command = Command
  MaxVersion <- MCMaxVersion
  Fits <- MCFits
  MaxFaults = 1
PROPERTY
  ClosedIsLearnedAtAnyAge
CHECK_DEADLOCK FALSE
