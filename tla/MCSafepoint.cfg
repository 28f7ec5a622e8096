CONSTANTS
  m1 = m1
  m2 = m2
  m3 = m3
  Mutator <- Threads
  NoMutator = NoMutator
  MaxEpoch = 2
  OomPossible = TRUE
SPECIFICATION FairSpec
INVARIANTS
  TypeOK
  WorldStopped
  NobodyMissed
  TlabsFlushed
  RootsCurrent
  StoppedHasDriver
PROPERTIES
  ArrivalIsFinal
  DriveEnds
  StoppedRunsAgain
  ImplementsStopTheWorld
CHECK_DEADLOCK FALSE
