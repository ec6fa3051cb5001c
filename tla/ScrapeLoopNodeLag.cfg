\* The node may report a head older than the index's staging block.
CONSTANTS
  UnripeDist = 1
  SleepChoices = {0, 5, 14, 20}
  MaxHead = 6
  UintMod = 16
  NodeMayLag = TRUE

SPECIFICATION Spec

PROPERTY NearHeadPolite
