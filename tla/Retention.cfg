SPECIFICATION FairSpec
CONSTANTS
  Threads = {scheduler, executor}
  Scheduler = scheduler
  Sizes = {1, 3}
  Rules <- MCRules
  MaxBackups = 2
  MaxDays = 2
  MaxRules = 1
  MaxExtras = 1
INVARIANTS
  TypeOK
  LoopsFollowPolicy
  AllowedBackupsStay
PROPERTIES
  EmptyRuleIsRemoved
  ExcessIsRemoved
CHECK_DEADLOCK FALSE
