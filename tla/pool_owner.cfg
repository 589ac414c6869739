SPECIFICATION Spec
CONSTANTS
  Workers = {w1, w2}
  Conns = {c1, c2, c3}
  Fds = {4, 5, 6}
  listen_sd = 3
  SyscallsMayFail = TRUE
  Reconnects = FALSE
SYMMETRY PoolSymmetry
INVARIANTS TypeOK OneOwner MaxIsLargest ElementThere AllReadyHandled
PROPERTIES LifecycleSpec
CHECK_DEADLOCK FALSE
