SPECIFICATION WorkerSpec
CONSTANTS
  p1 = p1
  p2 = p2
  NoProc = NoProc
  Procs = {p1, p2}
  Commands = {"start", "rebuild", "kill", "prune"}
  Faults = {"setup", "detect", "crash"}
  Overlap = {"commands", "worker"}
  LongDelay = FALSE
INVARIANT TypeOK
INVARIANT LastOneOutArms
PROPERTY ArmedWorkerStops
CHECK_DEADLOCK FALSE
