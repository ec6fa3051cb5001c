\* The node reports the true head; --sleep of 0, 5, 14 or 20 seconds.
CONSTANTS
  UnripeDist = 1
  SleepChoices = {0, 5, 14, 20}
  MaxHead = 6
  UintMod = 16
  NodeMayLag = FALSE

SPECIFICATION Spec

INVARIANT TypeOK

PROPERTY NearHeadPolite
