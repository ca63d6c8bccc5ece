\* Two events of every kind in two tasks of one or two instances.
CONSTANTS
  Names <- MCNames
  Unique <- UniqueName
  Kinds <- MCKinds
  Instances <- OneOrTwo
  U32 = 16
  MaxDeclared = 1
  MaxTasks = 2
  MaxEvents = 2
SPECIFICATION Spec
INVARIANT HandlesFit
INVARIANT MeetByName
INVARIANT BarriersCountThreads
INVARIANT BuffersApart
CHECK_DEADLOCK FALSE
