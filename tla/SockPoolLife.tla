----------------------------- MODULE SockPoolLife -----------------------------
(***************************************************************************)
(* The life of a connection in SockPool, as ConnLifecycle describes it: a  *)
(* refinement mapping from descriptors, queue and threads.                 *)
(***************************************************************************)
EXTENDS SockPool

Lifecycle == INSTANCE ConnLifecycle WITH
  up <- Alive,
  phase <- [c \in Conns |-> PhaseOf(c)],
  ready <- IF Alive THEN [n \in DOMAIN sockDescServiceList |-> fdConn[sockDescServiceList[n]]]
                    ELSE <<>>,
  server <- [w \in Workers |-> IF Alive /\ Serving(w) THEN {fdConn[sockFd[w]]} ELSE {}]

\* The threads, locks and descriptors implement the life cycle that ConnLifecycle
\* describes: one worker to a connection and one connection to a worker, first
\* readable first served, and no connection dropped between the two threads.
LifecycleSpec == Lifecycle!Spec
==============================================================================
