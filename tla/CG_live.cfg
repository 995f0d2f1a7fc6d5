SPECIFICATION LiveSpec
CONSTANTS
  c1 = c1
  c2 = c2
  NRepos = 1
  Comments = {c1}
  RepoOf <- MCRepoOf
  MaxAgentCycles = 2
  MaxRetries = 0
  MaxRestarts = 1
  MaxAdmin = 1
CHECK_DEADLOCK FALSE
INVARIANT CommentsOnce
PROPERTIES StalledResumes MergedCloses MergeIsNoticed AbandonCarriedOut
