\* Three processes, three locks made one after the other, two processes killed.
SPECIFICATION FairSpec
CONSTANTS
  Proc = {1, 2, 3}
  MaxMade = 3
  MaxTicket = 3
  MaxKills = 2
  MaxLost = 0
  Prompt = TRUE
  Brief = TRUE
INVARIANT HolderKept
INVARIANT OneReclaimer
PROPERTY MutexImplemented
PROPERTY LoneContenderEnters
CHECK_DEADLOCK FALSE
