SPECIFICATION Spec
CONSTANTS
  t1 = t1
  t2 = t2
  t3 = t3
  Tasks <- MCTasks
  NULL = NULL
  Boot = Boot
  Sites = {s1}
  Outcomes <- MCOutcomes
INVARIANTS
  TypeOK
  TaskListLinked
  ContextPreserved
  BoundedWait
PROPERTIES
  EveryTaskRuns
  KeyboardServed
  ImplementsRoundRobin
