SPECIFICATION FairSpec
CONSTANTS
  Workers = {w1}
  Conns = {c1}
  Fds = {4}
  listen_sd = 3
  SyscallsMayFail = FALSE
  Reconnects = FALSE
PROPERTIES QueuedIsTaken
CHECK_DEADLOCK FALSE
