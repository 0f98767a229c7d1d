CONSTANTS
  MaxRun = 3
  MaxBusy = 1
  MaxDeaf = 1
SPECIFICATION GSpec
CHECK_DEADLOCK FALSE
INVARIANTS
  NoForgottenChild
  
  BusyWhileWorking
PROPERTIES
  EndsOwnRun
  CrashNoticed
  OrphansEnd
