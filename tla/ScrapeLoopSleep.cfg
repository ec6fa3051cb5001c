\* The node reports the true head; --sleep of 5 seconds.
CONSTANTS
  UnripeDist = 1
  SleepChoices = {5}
  MaxHead = 6
  UintMod = 16
  NodeMayLag = FALSE

SPECIFICATION Spec

PROPERTY ConfiguredSleepHonored
