------------------------------- MODULE SockPool -------------------------------
(***************************************************************************)
(* The connection handling of memstashed (src/src/ssock.cpp): socketMain,  *)
(* which accepts connections, watches them with select and queues the      *)
(* readable ones, and socketThread, the worker that takes a descriptor     *)
(* from the queue and serves it until the connection ends.                 *)
(*                                                                         *)
(* Granularity.  Every access to shared data is a step of its own: the     *)
(* regions under sockDescMutex, the predicate of the condition variable,   *)
(* the start of the wait (which releases threadNotifyMutex), the           *)
(* notification, and each use of numberActiveThreads.  master_set, max_sd  *)
(* and working_set are touched by the main thread only, so masterMutex is  *)
(* never contended and is left out.  Accepted sockets block (accept does   *)
(* not pass O_NONBLOCK on), so recv never ends with EWOULDBLOCK.           *)
(***************************************************************************)
EXTENDS Naturals, Sequences, FiniteSets, Functions

CONSTANTS
  Workers,          \* the thread pool, gServWorkerThreads of them
  Conns,            \* clients; each has at most one connection at a time
  Fds,              \* descriptors available to accepted connections
  listen_sd,        \* the listening socket
  SyscallsMayFail,  \* may accept and select fail?
  Reconnects        \* do clients come back after a connection?

ASSUME DescriptorsAssumption == /\ Fds \subseteq Nat /\ IsFiniteSet(Fds)
                                /\ listen_sd \in Nat \ Fds
ASSUME WorkersAssumption == IsFiniteSet(Workers)
ASSUME SwitchesAssumption == SyscallsMayFail \in BOOLEAN /\ Reconnects \in BOOLEAN

VARIABLES
  master_set,           \* descriptors the main thread selects on
  max_sd,
  working_set,          \* what select returned
  i,                    \* position of the loop over working_set
  desc_ready,
  new_sd,
  end_server,
  mpc,                  \* next step of the main thread
  sockDescServiceList,  \* the queue of readable descriptors
  sockDescMutex,        \* the set of (at most one) holders
  threadNotifyMutex,    \* the set of (at most one) holders
  waiters,              \* workers blocked on threadNotify
  wpc,                  \* next step of each worker
  sockFd,               \* the descriptor each worker took
  numberActiveThreads,
  fdConn,               \* kernel: open descriptor -> its connection
  backlog,              \* kernel: connections not accepted yet
  client                \* what the other end of each connection has done

selecting == <<master_set, max_sd, working_set, i, desc_ready, new_sd, end_server>>
queue == <<sockDescServiceList, sockDescMutex>>
pool == <<threadNotifyMutex, waiters, wpc, sockFd, numberActiveThreads>>
kernel == <<fdConn, backlog, client>>
vars == <<selecting, mpc, queue, pool, kernel>>

-----------------------------------------------------------------------------
(* Kernel and clients *)

Open == DOMAIN fdConn

\* select: a pending connection, data, or the end of the stream.
Readable(fd) == IF fd = listen_sd THEN backlog # <<>>
                                  ELSE client[fdConn[fd]] \in {"sent", "gone"}

\* close(fd): the connection is over.
Close(fd) == /\ fdConn' = Restrict(fdConn, Open \ {fd})
             /\ client' = [client EXCEPT ![fdConn[fd]] = IF Reconnects THEN "away" ELSE "over"]

Connect(c) ==
  /\ client[c] = "away"
  /\ client' = [client EXCEPT ![c] = "quiet"]
  /\ backlog' = Append(backlog, c)
  /\ UNCHANGED <<selecting, mpc, queue, pool, fdConn>>

Send(c) ==
  /\ client[c] = "quiet"
  /\ client' = [client EXCEPT ![c] = "sent"]
  /\ UNCHANGED <<selecting, mpc, queue, pool, fdConn, backlog>>

Hangup(c) ==
  /\ client[c] \in {"quiet", "sent"}
  /\ client' = [client EXCEPT ![c] = "gone"]
  /\ UNCHANGED <<selecting, mpc, queue, pool, fdConn, backlog>>

-----------------------------------------------------------------------------
(* socketMain *)

\* The copy of master_set and select, which returns the readable descriptors.
Select ==
  /\ mpc = "select"
  /\ LET ready == {fd \in master_set : fd <= max_sd /\ Readable(fd)}
     IN /\ ready # {}
        /\ working_set' = ready
        /\ desc_ready' = Cardinality(ready)
  /\ i' = 0
  /\ mpc' = "scan"
  /\ UNCHANGED <<master_set, max_sd, new_sd, end_server, queue, pool, kernel>>

\* select fails: the loop is left.
SelectFails ==
  /\ SyscallsMayFail
  /\ mpc = "select"
  /\ mpc' = "cleanup"
  /\ UNCHANGED <<selecting, queue, pool, kernel>>

\* The descriptor the for loop reaches next.
Reaches(fd) ==
  /\ mpc = "scan"
  /\ desc_ready > 0
  /\ fd \in working_set /\ i <= fd /\ fd <= max_sd
  /\ \A g \in working_set : g < i \/ fd <= g

\* Variant: the listening socket is not counted.
ScanListenUncounted ==
  /\ Reaches(listen_sd)
  /\ i' = listen_sd
  /\ mpc' = "accept"
  /\ UNCHANGED <<master_set, max_sd, working_set, desc_ready, new_sd, end_server, queue, pool, kernel>>

ScanListen ==
  /\ Reaches(listen_sd)
  /\ desc_ready' = desc_ready - 1
  /\ i' = listen_sd
  /\ mpc' = "accept"
  /\ UNCHANGED <<master_set, max_sd, working_set, new_sd, end_server, queue, pool, kernel>>

\* Variant: the descriptor stays in master_set.
DispatchKeepsBit(fd) ==
  /\ Reaches(fd)
  /\ sockDescMutex = {}
  /\ sockDescServiceList' = Append(sockDescServiceList, fd)
  /\ desc_ready' = desc_ready - 1
  /\ i' = fd + 1
  /\ mpc' = "notify"
  /\ UNCHANGED <<master_set, max_sd, working_set, new_sd, end_server, sockDescMutex, pool, kernel>>

\* Variant: push_front.
DispatchInFront(fd) ==
  /\ Reaches(fd)
  /\ sockDescMutex = {}
  /\ sockDescServiceList' = <<fd>> \o sockDescServiceList
  /\ master_set' = master_set \ {fd}
  /\ desc_ready' = desc_ready - 1
  /\ i' = fd + 1
  /\ mpc' = IF fd = max_sd THEN "lower" ELSE "notify"
  /\ UNCHANGED <<max_sd, working_set, new_sd, end_server, sockDescMutex, pool, kernel>>

\* A connection is readable: push_back, and FD_CLR.
Dispatch(fd) ==
  /\ Reaches(fd)
  /\ sockDescMutex = {}
  /\ sockDescServiceList' = Append(sockDescServiceList, fd)
  /\ master_set' = master_set \ {fd}
  /\ desc_ready' = desc_ready - 1
  /\ i' = fd + 1
  /\ mpc' = IF fd = max_sd THEN "lower" ELSE "notify"
  /\ UNCHANGED <<max_sd, working_set, new_sd, end_server, sockDescMutex, pool, kernel>>

\* while (FD_ISSET(max_sd, &master_set) == FALSE) max_sd -= 1
Lower ==
  /\ mpc = "lower"
  /\ IF max_sd \in master_set
     THEN mpc' = "notify" /\ UNCHANGED max_sd
     ELSE max_sd' = max_sd - 1 /\ UNCHANGED mpc
  /\ UNCHANGED <<master_set, working_set, i, desc_ready, new_sd, end_server, queue, pool, kernel>>

\* notify_one wakes one of the waiting workers, if there is one.
Notify ==
  /\ mpc = "notify"
  /\ IF waiters = {} THEN UNCHANGED waiters
                     ELSE \E w \in waiters : waiters' = waiters \ {w}
  /\ mpc' = "scan"
  /\ UNCHANGED <<selecting, queue, threadNotifyMutex, wpc, sockFd, numberActiveThreads, kernel>>

ScanDone ==
  /\ mpc = "scan"
  /\ desc_ready = 0 \/ \A fd \in working_set : fd < i \/ fd > max_sd
  /\ mpc' = IF end_server THEN "cleanup" ELSE "select"
  /\ UNCHANGED <<selecting, queue, pool, kernel>>

\* accept returns the lowest free descriptor.
Accept(fd) ==
  /\ mpc = "accept"
  /\ backlog # <<>>
  /\ fd \in Fds \ Open /\ \A g \in Fds \ Open : fd <= g
  /\ fdConn' = [g \in Open \cup {fd} |-> IF g = fd THEN Head(backlog) ELSE fdConn[g]]
  /\ backlog' = Tail(backlog)
  /\ new_sd' = fd
  /\ mpc' = "admit"
  /\ UNCHANGED <<master_set, max_sd, working_set, i, desc_ready, end_server, queue, pool, client>>

\* EWOULDBLOCK: all have been accepted.
AcceptNone ==
  /\ mpc = "accept"
  /\ backlog = <<>>
  /\ i' = i + 1
  /\ mpc' = "scan"
  /\ UNCHANGED <<master_set, max_sd, working_set, desc_ready, new_sd, end_server, queue, pool, kernel>>

\* Any other failure, such as no free descriptor, ends the server after this round.
AcceptFails ==
  /\ mpc = "accept"
  /\ SyscallsMayFail \/ (backlog # <<>> /\ Fds \subseteq Open)
  /\ end_server' = TRUE
  /\ i' = i + 1
  /\ mpc' = "scan"
  /\ UNCHANGED <<master_set, max_sd, working_set, desc_ready, new_sd, queue, pool, kernel>>

AllBusy == numberActiveThreads >= Cardinality(Workers)

Reject ==
  /\ mpc = "admit"
  /\ AllBusy
  /\ Close(new_sd)
  /\ mpc' = "accept"
  /\ UNCHANGED <<selecting, queue, pool, backlog>>

\* Variant: max_sd is not raised.
RegisterLow ==
  /\ mpc = "admit"
  /\ ~AllBusy
  /\ master_set' = master_set \cup {new_sd}
  /\ mpc' = "accept"
  /\ UNCHANGED <<max_sd, working_set, i, desc_ready, new_sd, end_server, queue, pool, kernel>>

Register ==
  /\ mpc = "admit"
  /\ ~AllBusy
  /\ master_set' = master_set \cup {new_sd}
  /\ max_sd' = IF new_sd > max_sd THEN new_sd ELSE max_sd
  /\ mpc' = "accept"
  /\ UNCHANGED <<working_set, i, desc_ready, new_sd, end_server, queue, pool, kernel>>

\* What is in master_set is closed and socketMain returns.  Destroying threadList
\* then ends the process, and with it every connection.
Cleanup ==
  /\ mpc = "cleanup"
  /\ mpc' = "returned"
  /\ fdConn' = Restrict(fdConn, {})
  /\ backlog' = <<>>
  /\ client' = [c \in Conns |-> "over"]
  /\ UNCHANGED <<selecting, queue, pool>>

Main == \/ Select \/ SelectFails \/ ScanListen \/ Lower \/ Notify \/ ScanDone
        \/ \E fd \in Fds : Dispatch(fd) \/ Accept(fd)
        \/ AcceptNone \/ AcceptFails \/ Reject \/ Register \/ Cleanup

-----------------------------------------------------------------------------
(* socketThread *)

WorkerGoto(w, label) == wpc' = [wpc EXCEPT ![w] = label]

\* Variant: the wait returns without the mutex.
LockSkipped(w) ==
  /\ wpc[w] \in {"lock", "wait"} /\ w \notin waiters
  /\ WorkerGoto(w, "test")
  /\ UNCHANGED <<selecting, mpc, queue, threadNotifyMutex, waiters, sockFd, numberActiveThreads, kernel>>

\* l.lock(), at the start, after a connection, and inside wait after a notification.
Lock(w) ==
  /\ wpc[w] \in {"lock", "wait"} /\ w \notin waiters
  /\ threadNotifyMutex = {}
  /\ threadNotifyMutex' = {w}
  /\ WorkerGoto(w, "test")
  /\ UNCHANGED <<selecting, mpc, queue, waiters, sockFd, numberActiveThreads, kernel>>

\* The predicate of the wait reads the queue, without sockDescMutex.
Test(w) ==
  /\ wpc[w] = "test"
  /\ WorkerGoto(w, IF sockDescServiceList # <<>> THEN "take" ELSE "block")
  /\ UNCHANGED <<selecting, mpc, queue, threadNotifyMutex, waiters, sockFd, numberActiveThreads, kernel>>

\* The wait begins: the worker joins the waiters and releases the mutex at once.
Block(w) ==
  /\ wpc[w] = "block"
  /\ waiters' = waiters \cup {w}
  /\ threadNotifyMutex' = threadNotifyMutex \ {w}
  /\ WorkerGoto(w, "wait")
  /\ UNCHANGED <<selecting, mpc, queue, sockFd, numberActiveThreads, kernel>>

\* A condition variable may wake without a notification.
Spurious(w) ==
  /\ w \in waiters
  /\ waiters' = waiters \ {w}
  /\ UNCHANGED <<selecting, mpc, queue, threadNotifyMutex, wpc, sockFd, numberActiveThreads, kernel>>

\* Variant: the worker keeps threadNotifyMutex while it serves.
TakeKeepsLock(w) ==
  /\ wpc[w] = "take"
  /\ sockDescMutex = {}
  /\ sockDescServiceList # <<>>
  /\ sockFd' = [sockFd EXCEPT ![w] = Head(sockDescServiceList)]
  /\ sockDescServiceList' = Tail(sockDescServiceList)
  /\ WorkerGoto(w, "count")
  /\ UNCHANGED <<selecting, mpc, sockDescMutex, threadNotifyMutex, waiters, numberActiveThreads, kernel>>

\* The region under sockDescMutex, and l.unlock().  If the queue were empty, the
\* continue would leave sockDescMutex locked.
Take(w) ==
  /\ wpc[w] = "take"
  /\ sockDescMutex = {}
  /\ IF sockDescServiceList = <<>>
     THEN /\ sockDescMutex' = {w}
          /\ WorkerGoto(w, "test")
          /\ UNCHANGED <<sockDescServiceList, sockFd, threadNotifyMutex>>
     ELSE /\ sockFd' = [sockFd EXCEPT ![w] = Head(sockDescServiceList)]
          /\ sockDescServiceList' = Tail(sockDescServiceList)
          /\ threadNotifyMutex' = threadNotifyMutex \ {w}
          /\ WorkerGoto(w, "count")
          /\ UNCHANGED sockDescMutex
  /\ UNCHANGED <<selecting, mpc, waiters, numberActiveThreads, kernel>>

\* Variant: the worker is not counted.
CountUpSkipped(w) ==
  /\ wpc[w] = "count"
  /\ WorkerGoto(w, "serve")
  /\ UNCHANGED <<selecting, mpc, queue, threadNotifyMutex, waiters, sockFd, numberActiveThreads, kernel>>

CountUp(w) ==
  /\ wpc[w] = "count"
  /\ numberActiveThreads' = numberActiveThreads + 1
  /\ WorkerGoto(w, "serve")
  /\ UNCHANGED <<selecting, mpc, queue, threadNotifyMutex, waiters, sockFd, kernel>>

\* sockHandleIncomingConn: recv returns data, which is processed.
Recv(w) ==
  /\ wpc[w] = "serve"
  /\ client[fdConn[sockFd[w]]] = "sent"
  /\ client' = [client EXCEPT ![fdConn[sockFd[w]]] = "quiet"]
  /\ UNCHANGED <<selecting, mpc, queue, pool, fdConn, backlog>>

\* sockHandleIncomingConn: the client has quit or gone, and the socket is closed.
Finish(w) ==
  /\ wpc[w] = "serve"
  /\ client[fdConn[sockFd[w]]] \in {"sent", "gone"}
  /\ Close(sockFd[w])
  /\ WorkerGoto(w, "uncount")
  /\ UNCHANGED <<selecting, mpc, queue, threadNotifyMutex, waiters, sockFd, numberActiveThreads, backlog>>

CountDown(w) ==
  /\ wpc[w] = "uncount"
  /\ numberActiveThreads' = numberActiveThreads - 1
  /\ WorkerGoto(w, "lock")
  /\ UNCHANGED <<selecting, mpc, queue, threadNotifyMutex, waiters, sockFd, kernel>>

Worker(w) == Lock(w) \/ Test(w) \/ Block(w) \/ Take(w) \/ CountUp(w) \/ Recv(w) \/ Finish(w)
             \/ CountDown(w)

-----------------------------------------------------------------------------

Init ==
  /\ master_set = {listen_sd} /\ max_sd = listen_sd
  /\ working_set = {} /\ i = 0 /\ desc_ready = 0 /\ new_sd = listen_sd
  /\ end_server = FALSE /\ mpc = "select"
  /\ sockDescServiceList = <<>> /\ sockDescMutex = {}
  /\ threadNotifyMutex = {} /\ waiters = {}
  /\ wpc = [w \in Workers |-> "lock"]
  /\ sockFd = [w \in Workers |-> listen_sd]
  /\ numberActiveThreads = 0
  /\ fdConn = [fd \in {} |-> 0]
  /\ backlog = <<>>
  /\ client = [c \in Conns |-> "away"]

Alive == mpc # "returned"

Next ==
  /\ Alive
  /\ \/ Main
     \/ \E w \in Workers : Worker(w) \/ Spurious(w)
     \/ \E c \in Conns : Connect(c) \/ Send(c) \/ Hangup(c)

Spec == Init /\ [][Next]_vars

\* Threads that can run do, and clients go away in the end.
FairSpec ==
  /\ Spec
  /\ WF_vars(Alive /\ Main)
  /\ \A w \in Workers : WF_vars(Alive /\ Worker(w))
  /\ \A c \in Conns : WF_vars(Alive /\ Hangup(c))

-----------------------------------------------------------------------------
(* Properties *)

MainPcs == {"select", "scan", "lower", "notify", "accept", "admit", "cleanup", "returned"}
WorkerPcs == {"lock", "wait", "test", "block", "take", "count", "serve", "uncount"}

\* The variables keep their types; numberActiveThreads never drops below zero
\* (lines 188-192), nor desc_ready and max_sd (lines 342, 412-413).
TypeOK ==
  /\ {max_sd, i, desc_ready, numberActiveThreads} \subseteq Nat
  /\ master_set \subseteq Fds \cup {listen_sd} /\ working_set \subseteq Fds \cup {listen_sd}
  /\ new_sd \in Fds \cup {listen_sd}
  /\ end_server \in BOOLEAN /\ mpc \in MainPcs
  /\ sockDescServiceList \in Seq(Fds)
  /\ sockDescMutex \subseteq Workers /\ threadNotifyMutex \subseteq Workers
  /\ waiters \subseteq Workers
  /\ wpc \in [Workers -> WorkerPcs] /\ sockFd \in [Workers -> Fds \cup {listen_sd}]
  /\ Open \subseteq Fds /\ \A fd \in Open : fdConn[fd] \in Conns
  /\ backlog \in Seq(Conns)
  /\ client \in [Conns -> {"away", "quiet", "sent", "gone", "over"}]

\* Who is responsible for a descriptor.
Admitting == IF mpc = "admit" THEN {new_sd} ELSE {}
Registered == master_set \ {listen_sd}
Queued == Range(sockDescServiceList)
Serving(w) == wpc[w] \in {"count", "serve"}
Served == {sockFd[w] : w \in {v \in Workers : Serving(v)}}

\* Every open connection is in one place: just accepted, watched by select,
\* queued once, or with one worker.  So no descriptor is served twice at the same
\* time, none is lost, and none is selected, queued or served after its close,
\* although close and accept reuse descriptor numbers (lines 155, 363, 404-409).
OneOwner ==
  Alive =>
    /\ Open = Admitting \cup Registered \cup Queued \cup Served
    /\ Admitting \cap (Registered \cup Queued \cup Served) = {}
    /\ Registered \cap (Queued \cup Served) = {}
    /\ Queued \cap Served = {}
    /\ \A m, n \in DOMAIN sockDescServiceList :
         sockDescServiceList[m] = sockDescServiceList[n] => m = n
    /\ \A v, w \in Workers : Serving(v) /\ Serving(w) /\ sockFd[v] = sockFd[w] => v = w

\* select covers every registered descriptor, and the loop that lowers max_sd stops
\* at one: max_sd is the largest in master_set, except inside that loop, where it is
\* not below it (lines 387-388, 410-414).
MaxIsLargest ==
  /\ \A fd \in master_set : fd <= max_sd
  /\ listen_sd \in master_set
  /\ mpc # "lower" => max_sd \in master_set

\* A worker that leaves the wait finds an element in the queue, as the comment on
\* line 173 says: nobody takes it between the test and the lock of sockDescMutex.
\* The continue of line 178, with sockDescMutex locked, is never taken.
ElementThere == \A w \in Workers : wpc[w] = "take" => sockDescServiceList # <<>>

\* Everything select reported is handled before select is called again, although
\* the loop's bound max_sd moves while it runs (line 328).
AllReadyHandled == mpc = "select" => desc_ready = 0

\* A registered connection that becomes readable is queued in the end.
ReadableIsQueued ==
  \A fd \in Fds : (fd \in master_set /\ Readable(fd)) ~> fd \notin master_set

\* A queued connection is taken by a worker in the end.
QueuedIsTaken == \A fd \in Fds : fd \in Queued ~> fd \notin Queued

\* A worker sleeps although there is work.
Asleep == waiters # {} /\ sockDescServiceList # <<>> /\ mpc # "notify"

\* A queued connection is taken in the end, unless a worker sleeps on although
\* there is work: no other schedule of locks, tests and notifications blocks the pool.
QueuedIsTakenOrAsleep == \A fd \in Fds : fd \in Queued ~> (fd \notin Queued \/ Asleep)
-----------------------------------------------------------------------------
(* The life of a connection *)

PhaseOf(c) ==
  LET fds == {fd \in Open : fdConn[fd] = c}
  IN CASE c \in Range(backlog) \/ fds \cap Admitting # {} -> "pending"
       [] fds \cap Registered # {} -> "open"
       [] fds \cap Queued # {} -> "ready"
       [] fds \cap Served # {} -> "served"
       [] OTHER -> "away"
==============================================================================
