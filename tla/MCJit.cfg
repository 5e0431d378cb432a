SPECIFICATION FairSpec
CONSTANTS
  MaxLen = 4
  Inputs <- MCInputs
  Faults = {"memory", "fopen", "write", "fork", "exec", "link", "dlopen"}
  MaxKills = 2
INVARIANTS ParsesGrammar PrintsOwn
PROPERTIES CleansUp EveryRunEnds
CHECK_DEADLOCK FALSE
