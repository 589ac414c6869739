SPECIFICATION FairSpec
CONSTANTS
  Workers = {w1, w2}
  Conns = {c1, c2}
  Fds = {4, 5}
  listen_sd = 3
  SyscallsMayFail = FALSE
  Reconnects = FALSE
PROPERTIES ReadableIsQueued 
CHECK_DEADLOCK FALSE
