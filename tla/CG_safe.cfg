SPECIFICATION Spec
CONSTANTS
  c1 = c1
  c2 = c2
  NRepos = 2
  Comments = {c1}
  RepoOf <- MCRepoOf
  MaxAgentCycles = 1
  MaxRetries = 1
  MaxRestarts = 1
  MaxAdmin = 1
CHECK_DEADLOCK FALSE
INVARIANTS ConvergedRows DoneIsClosed CyclesBounded NeverStranded
PROPERTY KeepsToMachine
VIEW SafeView
