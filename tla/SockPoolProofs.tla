---------------------------- MODULE SockPoolProofs ----------------------------
(***************************************************************************)
(* Proofs about SockPool, for any number of workers, clients and           *)
(* descriptors.  IInv is inductive; next to the properties it says who may *)
(* hold threadNotifyMutex, what numberActiveThreads and desc_ready count,  *)
(* and that what the scan has yet to reach is still registered.  The       *)
(* refinement of ConnLifecycle follows, with its own invariant, RInv.      *)
(***************************************************************************)
EXTENDS SockPoolLife, FiniteSetTheorems, TLAPS

\* threadNotifyMutex is held by at most one worker, from the lock to the wait or
\* to the unlock.  sockDescMutex is free between two steps.
Mutexes ==
  /\ \A v, w \in threadNotifyMutex : v = w
  /\ \A w \in Workers : wpc[w] \in {"test", "block", "take"} <=> w \in threadNotifyMutex
  /\ sockDescMutex = {}

Counted == {w \in Workers : wpc[w] \in {"serve", "uncount"}}

CountIsRight == numberActiveThreads = Cardinality(Counted)

\* What the scan has not reached is still registered.
AheadIsRegistered == \A fd \in working_set : i <= fd => fd \in master_set

\* What desc_ready counts.
Ahead == {fd \in working_set : i <= fd /\ ~(mpc \in {"accept", "admit"} /\ fd = i)}

ReadyIsRight ==
  /\ mpc \in {"scan", "lower", "notify", "accept", "admit"} => desc_ready = Cardinality(Ahead)
  /\ AllReadyHandled

IInv == /\ TypeOK /\ MaxIsLargest /\ AheadIsRegistered /\ Mutexes /\ ElementThere
        /\ CountIsRight /\ ReadyIsRight /\ OneOwner

Client == \E c \in Conns : Connect(c) \/ Send(c) \/ Hangup(c)

-----------------------------------------------------------------------------
(* Sequences as queues *)

\* push_back adds its argument to the queue's elements.
LEMMA AppendFacts ==
  ASSUME NEW S, NEW s \in Seq(S), NEW e \in S
  PROVE  /\ Append(s, e) \in Seq(S)
         /\ Append(s, e) # <<>>
         /\ Range(Append(s, e)) = Range(s) \cup {e}
         /\ (\A m, n \in DOMAIN s : s[m] = s[n] => m = n) /\ e \notin Range(s)
              => \A m, n \in DOMAIN Append(s, e) : Append(s, e)[m] = Append(s, e)[n] => m = n
<1> DEFINE a == Append(s, e)
<1>1. /\ a \in Seq(S) /\ a # <<>> /\ Len(s) \in Nat
      /\ DOMAIN s = 1 .. Len(s) /\ DOMAIN a = 1 .. Len(s) + 1
      /\ \A n \in 1 .. Len(s) : a[n] = s[n]
      /\ a[Len(s) + 1] = e
  OBVIOUS
<1> HIDE DEF a
<1>2. Range(a) = Range(s) \cup {e}
  BY <1>1 DEF Range
<1>3. ASSUME \A m, n \in DOMAIN s : s[m] = s[n] => m = n, e \notin Range(s),
             NEW m \in DOMAIN a, NEW n \in DOMAIN a, a[m] = a[n]
      PROVE  m = n
  BY <1>1, <1>3 DEF Range
<1> QED
  BY <1>1, <1>2, <1>3 DEF a

\* What a queue stands for grows by what the new element stands for.
LEMMA MapAppend ==
  ASSUME NEW S, NEW s \in Seq(S), NEW e \in S, NEW f
  PROVE  [n \in DOMAIN Append(s, e) |-> f[Append(s, e)[n]]]
           = Append([n \in DOMAIN s |-> f[s[n]]], f[e])
<1> DEFINE r == [n \in 1 .. Len(s) |-> f[s[n]]]
           t == [n \in 1 .. Len(s) + 1 |-> f[Append(s, e)[n]]]
<1>1. /\ Len(s) \in Nat /\ DOMAIN s = 1 .. Len(s)
      /\ DOMAIN Append(s, e) = 1 .. Len(s) + 1
      /\ Append(s, e)[Len(s) + 1] = e
      /\ \A n \in 1 .. Len(s) : Append(s, e)[n] = s[n]
  OBVIOUS
<1>2. \A n \in 1 .. Len(s) : t[n] = r[n]
  BY <1>1
<1>3. t[Len(s) + 1] = f[e]
  BY <1>1
<1>4. DOMAIN r = 1 .. Len(s) /\ DOMAIN t = 1 .. Len(s) + 1
  OBVIOUS
<1>5. r \in Seq({f[s[n]] : n \in 1 .. Len(s)} \cup {f[e]})
      /\ t \in Seq({f[s[n]] : n \in 1 .. Len(s)} \cup {f[e]}) /\ Len(r) = Len(s)
      /\ Len(t) = Len(s) + 1
  BY <1>1
<1>6. t = Append(r, f[e])
  <2> HIDE DEF r, t
  <2> QED
    BY <1>1, <1>2, <1>3, <1>4, <1>5
<1> QED
  BY <1>1, <1>6, Zenon

\* Taking the first element removes it, and only it, from the queue's elements.
LEMMA TailFacts ==
  ASSUME NEW S, NEW s \in Seq(S), s # <<>>
  PROVE  /\ Tail(s) \in Seq(S) /\ Head(s) \in S /\ Head(s) \in Range(s)
         /\ Range(s) = Range(Tail(s)) \cup {Head(s)}
         /\ (\A m, n \in DOMAIN s : s[m] = s[n] => m = n)
              => /\ \A m, n \in DOMAIN Tail(s) : Tail(s)[m] = Tail(s)[n] => m = n
                 /\ Head(s) \notin Range(Tail(s))
<1> DEFINE t == Tail(s)
           h == Head(s)
<1>1. /\ t \in Seq(S) /\ h \in S /\ h = s[1] /\ Len(s) \in Nat \ {0}
      /\ DOMAIN s = 1 .. Len(s) /\ DOMAIN t = 1 .. Len(s) - 1
      /\ \A n \in 1 .. Len(s) - 1 : t[n] = s[n + 1]
  OBVIOUS
<1> HIDE DEF t, h
<1>2. Range(t) \subseteq Range(s) /\ h \in Range(s)
  <2>1. \A n \in DOMAIN t : n + 1 \in DOMAIN s /\ t[n] = s[n + 1]
    BY <1>1
  <2>2. 1 \in DOMAIN s /\ h = s[1]
    BY <1>1
  <2> QED
    BY <2>1, <2>2, Zenon DEF Range
<1>3. ASSUME NEW n \in DOMAIN s PROVE s[n] \in Range(t) \cup {h}
  <2>1. CASE n = 1
    BY <1>1, <2>1
  <2>2. CASE n # 1
    <3>1. n - 1 \in DOMAIN t /\ t[n - 1] = s[n]
      BY <1>1, <1>3, <2>2
    <3> QED
      BY <3>1 DEF Range
  <2> QED
    BY <2>1, <2>2
<1>4. ASSUME \A m, n \in DOMAIN s : s[m] = s[n] => m = n
      PROVE  /\ \A m, n \in DOMAIN t : t[m] = t[n] => m = n
             /\ h \notin Range(t)
  <2>1. ASSUME NEW m \in DOMAIN t, NEW n \in DOMAIN t, t[m] = t[n]
        PROVE  m = n
    <3>1. m + 1 \in DOMAIN s /\ n + 1 \in DOMAIN s /\ s[m + 1] = s[n + 1]
      BY <1>1, <2>1
    <3>2. m + 1 = n + 1
      BY <1>4, <3>1
    <3> QED
      BY <1>1, <3>2
  <2>2. ASSUME NEW n \in DOMAIN t, t[n] = h
        PROVE  FALSE
    <3>1. n + 1 \in DOMAIN s /\ 1 \in DOMAIN s /\ s[n + 1] = s[1] /\ n + 1 # 1
      BY <1>1, <2>2
    <3> QED
      BY <1>4, <3>1
  <2> QED
    BY <2>1, <2>2 DEF Range
<1> QED
  BY <1>1, <1>2, <1>3, <1>4, SMTT(30) DEF Range, t, h

-----------------------------------------------------------------------------
(* The main thread and its descriptor sets *)

\* accept raises max_sd (lines 387-388) and a dispatch lowers it (lines 410-414) so
\* that it stays the largest registered descriptor.
LEMMA MaxStep ==
  ASSUME IInv, Next
  PROVE  MaxIsLargest' /\ AheadIsRegistered'
<1> USE DescriptorsAssumption
<1>1. /\ max_sd \in Nat /\ i \in Nat /\ listen_sd \in Nat /\ new_sd \in Nat
      /\ \A fd \in master_set : fd \in Nat
      /\ \A fd \in working_set : fd \in Nat
      /\ MaxIsLargest /\ AheadIsRegistered
  BY Zenon DEF IInv, TypeOK
<1>2. CASE Select \/ SelectFails \/ ScanListen \/ Notify \/ ScanDone
  <2>1. /\ UNCHANGED <<master_set, max_sd>> /\ mpc' # "lower" /\ mpc # "lower"
        /\ \/ working_set' \subseteq master_set
           \/ UNCHANGED working_set /\ i' \in Nat /\ i' >= i
    <3>1. CASE Select
      BY <3>1 DEF Select
    <3>2. CASE SelectFails \/ Notify \/ ScanDone
      BY <1>1, <3>2 DEF SelectFails, Notify, ScanDone, selecting
    <3>3. CASE ScanListen
      BY <1>1, <3>3 DEF ScanListen, Reaches
    <3> QED
      BY <1>2, <3>1, <3>2, <3>3
  <2>2. MaxIsLargest'
    BY <1>1, <2>1 DEF MaxIsLargest
  <2>3. AheadIsRegistered'
    BY <1>1, <2>1 DEF AheadIsRegistered
  <2> QED
    BY <2>2, <2>3
<1>3. CASE Lower
  BY <1>1, <1>3 DEF Lower, MaxIsLargest, AheadIsRegistered
<1>4. CASE \E fd \in Fds : Dispatch(fd)
  BY <1>1, <1>4 DEF Dispatch, Reaches, MaxIsLargest, AheadIsRegistered
<1>5. CASE (\E fd \in Fds : Accept(fd)) \/ AcceptNone \/ AcceptFails \/ Reject \/ Cleanup
  <2>1. /\ UNCHANGED <<master_set, max_sd, working_set>> /\ mpc' # "lower" /\ mpc # "lower"
        /\ i' \in Nat /\ i' >= i
    <3>1. CASE (\E fd \in Fds : Accept(fd)) \/ Reject \/ Cleanup
      <4>1. UNCHANGED <<master_set, max_sd, working_set, i>> /\ mpc' # "lower" /\ mpc # "lower"
        BY <3>1, Zenon DEF Accept, Reject, Cleanup, selecting
      <4> QED
        BY <1>1, <4>1
    <3>2. CASE AcceptNone \/ AcceptFails
      BY <1>1, <3>2 DEF AcceptNone, AcceptFails
    <3> QED
      BY <1>5, <3>1, <3>2
  <2>2. MaxIsLargest'
    BY <1>1, <2>1 DEF MaxIsLargest
  <2>3. AheadIsRegistered'
    BY <1>1, <2>1 DEF AheadIsRegistered
  <2> QED
    BY <2>2, <2>3
<1>6. CASE Register
  BY <1>1, <1>6 DEF Register, MaxIsLargest, AheadIsRegistered
<1>7. CASE Client \/ \E w \in Workers : Worker(w) \/ Spurious(w)
  <2>1. UNCHANGED <<selecting, mpc>>
    BY <1>7 DEF Client, Connect, Send, Hangup, Worker, Lock, Test, Block, Take, CountUp, Recv,
                Finish, CountDown, Spurious
  <2> QED
    BY <1>1, <2>1 DEF selecting, MaxIsLargest, AheadIsRegistered
<1> QED
  BY <1>2, <1>3, <1>4, <1>5, <1>6, <1>7 DEF Next, Main, Client

\* desc_ready counts what the loop of line 328 has yet to reach, so the loop stops
\* neither early nor late.
LEMMA ReadyStep ==
  ASSUME IInv, Next
  PROVE  ReadyIsRight' /\ desc_ready' \in Nat
<1> USE DescriptorsAssumption
<1>1. /\ max_sd \in Nat /\ i \in Nat /\ listen_sd \in Nat /\ desc_ready \in Nat
      /\ \A fd \in master_set \cup working_set : fd \in Nat
      /\ MaxIsLargest /\ AheadIsRegistered /\ ReadyIsRight
  BY Zenon DEF IInv, TypeOK
<1>2. /\ IsFiniteSet(Ahead) /\ IsFiniteSet(master_set)
  <2>1. IsFiniteSet(Fds \cup {listen_sd})
    BY FS_AddElement
  <2>2. Ahead \subseteq Fds \cup {listen_sd} /\ master_set \subseteq Fds \cup {listen_sd}
    BY Zenon DEF IInv, TypeOK, Ahead
  <2> QED
    BY <2>1, <2>2, FS_Subset, Zenon
<1>3. CASE Select
  <2> DEFINE ready == {fd \in master_set : fd <= max_sd /\ Readable(fd)}
  <2>1. IsFiniteSet(ready)
    BY <1>2, FS_Subset
  <2>2. working_set' = ready /\ desc_ready' = Cardinality(ready) /\ i' = 0 /\ mpc' = "scan"
    BY <1>3 DEF Select
  <2>3. Ahead' = ready
    BY <1>1, <2>2 DEF Ahead
  <2> HIDE DEF ready
  <2> QED
    BY <2>1, <2>2, <2>3, FS_CardinalityType DEF ReadyIsRight, AllReadyHandled
<1>4. ASSUME NEW fd \in Fds \cup {listen_sd}, Reaches(fd), UNCHANGED working_set,
             desc_ready' = desc_ready - 1,
             \/ fd = listen_sd /\ i' = fd /\ mpc' = "accept"
             \/ i' = fd + 1 /\ mpc' \in {"lower", "notify"}
      PROVE  ReadyIsRight' /\ desc_ready' \in Nat
  <2>1. desc_ready = Cardinality(Ahead) /\ fd \in Ahead /\ desc_ready - 1 \in Nat
    BY <1>1, <1>4 DEF Reaches, ReadyIsRight, Ahead
  <2>2. Ahead' = Ahead \ {fd}
    BY <1>1, <1>4 DEF Reaches, Ahead
  <2>3. Cardinality(Ahead \ {fd}) = Cardinality(Ahead) - 1
    BY <1>2, <2>1, FS_RemoveElement, Zenon
  <2> QED
    BY <1>4, <2>1, <2>2, <2>3 DEF ReadyIsRight, AllReadyHandled
<1>5. CASE ScanListen
  BY <1>4, <1>5 DEF ScanListen
<1>6. CASE \E fd \in Fds : Dispatch(fd)
  BY <1>4, <1>6 DEF Dispatch
<1>7. CASE ScanDone
  <2>1. desc_ready = Cardinality(Ahead)
    BY <1>1, <1>7 DEF ScanDone, ReadyIsRight
  <2>2. ASSUME \A fd \in working_set : fd < i \/ fd > max_sd
        PROVE  Ahead = {}
    <3> SUFFICES ASSUME NEW fd \in working_set, i <= fd PROVE FALSE
      BY DEF Ahead
    <3>1. fd \in Nat /\ fd <= max_sd
      BY <1>1, Zenon DEF MaxIsLargest, AheadIsRegistered
    <3> QED
      BY <1>1, <2>2, <3>1
  <2>3. desc_ready = 0
    BY <1>7, <2>1, <2>2, FS_EmptySet DEF ScanDone
  <2> QED
    BY <1>7, <2>3 DEF ScanDone, selecting, ReadyIsRight, AllReadyHandled
<1>8. CASE AcceptNone \/ AcceptFails
  <2>1. Ahead' = Ahead /\ mpc = "accept" /\ mpc' = "scan" /\ UNCHANGED desc_ready
    BY <1>1, <1>8 DEF AcceptNone, AcceptFails, Ahead
  <2> QED
    BY <1>1, <2>1 DEF ReadyIsRight, AllReadyHandled
<1>9. CASE Lower \/ Notify \/ (\E fd \in Fds : Accept(fd)) \/ Reject \/ Register
  <2>1. /\ Ahead' = Ahead /\ UNCHANGED desc_ready
        /\ mpc \in {"lower", "notify", "accept", "admit"}
        /\ mpc' \in {"lower", "notify", "accept", "admit", "scan"}
    BY <1>9, Zenon DEF Lower, Notify, Accept, Reject, Register, Ahead, selecting
  <2> QED
    BY <1>1, <2>1 DEF ReadyIsRight, AllReadyHandled
<1>10. CASE SelectFails \/ Cleanup
  BY <1>1, <1>10 DEF SelectFails, Cleanup, selecting, ReadyIsRight, AllReadyHandled
<1>11. CASE Client \/ \E w \in Workers : Worker(w) \/ Spurious(w)
  <2>1. UNCHANGED <<selecting, mpc>>
    BY <1>11 DEF Client, Connect, Send, Hangup, Worker, Lock, Test, Block, Take, CountUp, Recv,
                 Finish, CountDown, Spurious
  <2>2. Ahead' = Ahead
    BY <2>1 DEF selecting, Ahead
  <2> QED
    BY <1>1, <2>1, <2>2 DEF selecting, ReadyIsRight, AllReadyHandled
<1> QED
  BY <1>3, <1>5, <1>6, <1>7, <1>8, <1>9, <1>10, <1>11 DEF Next, Main, Client

-----------------------------------------------------------------------------
(* The workers *)

\* Steps that are not a worker's own leave the workers' mutex and labels alone,
\* and only the main thread's push makes the queue longer.
LEMMA OthersLeavePool ==
  ASSUME IInv, Next, ~ \E w \in Workers : Worker(w)
  PROVE  /\ UNCHANGED <<threadNotifyMutex, wpc, sockFd, numberActiveThreads, sockDescMutex>>
         /\ \/ UNCHANGED sockDescServiceList
            \/ \E fd \in Fds : Dispatch(fd)
<1>1. CASE Client \/ \E w \in Workers : Spurious(w)
  BY <1>1 DEF Client, Connect, Send, Hangup, Spurious, pool, queue
<1>2. CASE \E fd \in Fds : Dispatch(fd)
  BY <1>2 DEF Dispatch, pool
<1>3. CASE Select \/ SelectFails \/ ScanListen \/ Lower \/ Notify \/ ScanDone
  BY <1>3 DEF Select, SelectFails, ScanListen, Lower, Notify, ScanDone, pool, queue
<1>4. CASE (\E fd \in Fds : Accept(fd)) \/ AcceptNone \/ AcceptFails
  BY <1>4, Zenon DEF Accept, AcceptNone, AcceptFails, pool, queue
<1>5. CASE Reject \/ Register \/ Cleanup
  BY <1>5 DEF Reject, Register, Cleanup, pool, queue
<1> QED
  BY <1>1, <1>2, <1>3, <1>4, <1>5 DEF Next, Main, Client

\* threadNotifyMutex goes from worker to worker (lines 167, 171, 186, 193), and the
\* element the predicate saw stays, because only its holder takes from the queue.
LEMMA MutexStep ==
  ASSUME IInv, Next
  PROVE  Mutexes' /\ ElementThere'
<1>1. CASE ~ \E w \in Workers : Worker(w)
  <2>1. CASE UNCHANGED sockDescServiceList
    BY <1>1, <2>1, OthersLeavePool DEF IInv, Mutexes, ElementThere
  <2>2. CASE \E fd \in Fds : Dispatch(fd)
    <3>1. sockDescServiceList' # <<>>
      BY <2>2, AppendFacts DEF Dispatch, IInv, TypeOK
    <3> QED
      BY <1>1, <3>1, OthersLeavePool DEF IInv, Mutexes, ElementThere
  <2> QED
    BY <1>1, <2>1, <2>2, OthersLeavePool
<1>2. ASSUME NEW w \in Workers, Worker(w)
      PROVE  Mutexes' /\ ElementThere'
  <2>0. /\ wpc \in [Workers -> WorkerPcs] /\ threadNotifyMutex \subseteq Workers
        /\ Mutexes /\ ElementThere
    BY DEF IInv, TypeOK
  <2>1. CASE Lock(w)
    BY <2>0, <2>1 DEF Lock, WorkerGoto, Mutexes, ElementThere, queue
  <2>2. CASE Test(w)
    BY <2>0, <2>2 DEF Test, WorkerGoto, Mutexes, ElementThere, queue
  <2>3. CASE Block(w)
    BY <2>0, <2>3 DEF Block, WorkerGoto, Mutexes, ElementThere, queue
  <2>4. CASE Take(w)
    <3>1. sockDescServiceList # <<>> /\ w \in threadNotifyMutex
      BY <2>0, <2>4 DEF Take, Mutexes, ElementThere
    <3>2. \A v \in Workers \ {w} : v \notin threadNotifyMutex /\ wpc[v] # "take"
      BY <2>0, <3>1 DEF Mutexes
    <3> QED
      BY <2>0, <2>4, <3>1, <3>2 DEF Take, WorkerGoto, Mutexes, ElementThere
  <2>5. CASE CountUp(w) \/ Recv(w) \/ Finish(w) \/ CountDown(w)
    BY <2>0, <2>5 DEF CountUp, Recv, Finish, CountDown, WorkerGoto, Mutexes, ElementThere, queue, pool
  <2> QED
    BY <1>2, <2>1, <2>2, <2>3, <2>4, <2>5 DEF Worker
<1> QED
  BY <1>1, <1>2

\* numberActiveThreads is the number of workers between its increment and its
\* decrement (lines 188-192).
LEMMA CountStep ==
  ASSUME IInv, Next
  PROVE  CountIsRight' /\ numberActiveThreads' \in Nat
<1>0. /\ wpc \in [Workers -> WorkerPcs] /\ numberActiveThreads \in Nat
      /\ numberActiveThreads = Cardinality(Counted)
  BY DEF IInv, TypeOK, CountIsRight
<1>1. IsFiniteSet(Counted)
  BY WorkersAssumption, FS_Subset DEF Counted
<1>2. CASE ~ \E w \in Workers : Worker(w)
  <2>1. Counted' = Counted
    BY <1>2, OthersLeavePool DEF Counted
  <2> QED
    BY <1>0, <1>2, <2>1, OthersLeavePool DEF CountIsRight
<1>3. ASSUME NEW w \in Workers, Worker(w)
      PROVE  CountIsRight' /\ numberActiveThreads' \in Nat
  <2>1. CASE Lock(w) \/ Test(w) \/ Block(w) \/ Take(w) \/ Recv(w) \/ Finish(w)
    <3>1. Counted' = Counted
      BY <1>0, <2>1 DEF Lock, Test, Block, Take, Recv, Finish, WorkerGoto, Counted, pool
    <3>2. UNCHANGED numberActiveThreads
      BY <2>1 DEF Lock, Test, Block, Take, Recv, Finish, pool
    <3> QED
      BY <1>0, <3>1, <3>2 DEF CountIsRight
  <2>2. CASE CountUp(w)
    <3>1. Counted' = Counted \cup {w} /\ w \notin Counted
      BY <1>0, <2>2 DEF CountUp, WorkerGoto, Counted
    <3>2. Cardinality(Counted \cup {w}) = Cardinality(Counted) + 1
      BY <1>1, <3>1, FS_AddElement, Zenon
    <3> QED
      BY <1>0, <2>2, <3>1, <3>2 DEF CountUp, CountIsRight
  <2>3. CASE CountDown(w)
    <3>1. Counted' = Counted \ {w} /\ w \in Counted
      BY <1>0, <2>3 DEF CountDown, WorkerGoto, Counted
    <3>2. Cardinality(Counted \ {w}) = Cardinality(Counted) - 1 /\ IsFiniteSet(Counted \ {w})
      BY <1>1, <3>1, FS_RemoveElement
    <3>3. Cardinality(Counted \ {w}) \in Nat
      BY <3>2, FS_CardinalityType
    <3> QED
      BY <1>0, <2>3, <3>1, <3>2, <3>3 DEF CountDown, CountIsRight
  <2> QED
    BY <1>3, <2>1, <2>2, <2>3 DEF Worker
<1> QED
  BY <1>2, <1>3

-----------------------------------------------------------------------------
(* Ownership of descriptors *)

\* close takes one descriptor from the open ones and leaves the others.
LEMMA CloseFacts ==
  ASSUME TypeOK, NEW fd \in Open, Close(fd)
  PROVE  /\ Open' = Open \ {fd}
         /\ \A g \in Open' : fdConn'[g] = fdConn[g]
         /\ client' \in [Conns -> {"away", "quiet", "sent", "gone", "over"}]
<1>1. DOMAIN fdConn' = DOMAIN fdConn \ {fd} /\ \A g \in DOMAIN fdConn' : fdConn'[g] = fdConn[g]
  BY DEF Close, Restrict, Open
<1>2. fdConn[fd] \in Conns
  BY DEF TypeOK
<1>3. client' \in [Conns -> {"away", "quiet", "sent", "gone", "over"}]
  BY <1>2 DEF TypeOK, Close
<1> QED
  BY <1>1, <1>3 DEF Open

\* A step that moves no descriptor preserves ownership.
LEMMA OwnerSame ==
  ASSUME IInv, Alive, UNCHANGED <<sockDescServiceList, sockFd>>,
         Open' = Open, Admitting' = Admitting, Registered' = Registered,
         \A w \in Workers : Serving(w)' <=> Serving(w)
  PROVE  OneOwner'
<1>1. Served' = Served /\ Queued' = Queued
  BY DEF Served, Queued
<1>2. OneOwner
  BY DEF IInv
<1> QED
  BY <1>1, <1>2 DEF OneOwner

\* Every step moves a descriptor from one owner to the next: accept, FD_SET,
\* push_back with FD_CLR, the take, and close.
LEMMA OwnerStep ==
  ASSUME IInv, Next
  PROVE  OneOwner'
<1> USE DescriptorsAssumption
<1>0. Alive /\ OneOwner /\ TypeOK
  BY DEF Next, IInv
<1>1. CASE Client \/ \E w \in Workers : Spurious(w)
  <2>1. UNCHANGED <<selecting, mpc, queue, wpc, sockFd, fdConn>>
    BY <1>1 DEF Client, Connect, Send, Hangup, Spurious, pool, kernel
  <2> QED
    BY <1>0, <2>1, OwnerSame DEF Open, Admitting, Registered, Serving, selecting, queue
<1>2. CASE Select \/ SelectFails \/ ScanListen \/ Lower \/ Notify \/ ScanDone \/ AcceptNone \/ AcceptFails
  <2>1. UNCHANGED <<master_set, queue, wpc, sockFd, fdConn>> /\ mpc # "admit" /\ mpc' # "admit"
    <3>1. CASE Select \/ SelectFails \/ ScanListen
      BY <3>1 DEF Select, SelectFails, ScanListen, Reaches, selecting, pool, kernel
    <3>2. CASE Lower \/ Notify \/ ScanDone
      BY <3>2 DEF Lower, Notify, ScanDone, selecting, pool, kernel
    <3>3. CASE AcceptNone \/ AcceptFails
      BY <3>3 DEF AcceptNone, AcceptFails, pool, kernel
    <3> QED
      BY <1>2, <3>1, <3>2, <3>3
  <2> QED
    BY <1>0, <2>1, OwnerSame DEF Open, Admitting, Registered, Serving, queue
<1>3. ASSUME NEW fd \in Fds, Accept(fd)
      PROVE  OneOwner'
  <2>1. Open' = Open \cup {fd} /\ fd \notin Open /\ Admitting = {} /\ Admitting' = {fd}
    BY <1>3 DEF Accept, Open, Admitting
  <2>2. Registered' = Registered /\ Queued' = Queued /\ Served' = Served
    BY <1>3 DEF Accept, Registered, Queued, Served, Serving, queue, pool
  <2>3. UNCHANGED <<sockDescServiceList, wpc, sockFd>>
    BY <1>3 DEF Accept, queue, pool
  <2> QED
    BY <1>0, <2>1, <2>2, <2>3, ZenonT(30) DEF OneOwner, Serving
<1>4. CASE Reject
  <2>1. Admitting = {new_sd} /\ Admitting' = {} /\ new_sd \in Open
    BY <1>0, <1>4 DEF Reject, Admitting, OneOwner
  <2>2. Open' = Open \ {new_sd}
    BY <1>0, <1>4, <2>1, CloseFacts DEF Reject
  <2>3. UNCHANGED <<master_set, sockDescServiceList, wpc, sockFd>>
    BY <1>4 DEF Reject, selecting, queue, pool
  <2>4. Registered' = Registered /\ Queued' = Queued /\ Served' = Served
    BY <2>3 DEF Registered, Queued, Served, Serving
  <2> QED
    BY <1>0, <2>1, <2>2, <2>3, <2>4 DEF OneOwner, Serving
<1>5. CASE Register
  <2>1. Admitting = {new_sd} /\ Admitting' = {} /\ new_sd \in Open
    BY <1>0, <1>5 DEF Register, Admitting, OneOwner
  <2>2. new_sd # listen_sd
    BY <1>0, <2>1 DEF TypeOK
  <2>3. Registered' = Registered \cup {new_sd} /\ Open' = Open
    BY <1>5, <2>2 DEF Register, Registered, Open, kernel
  <2>4. UNCHANGED <<sockDescServiceList, wpc, sockFd>>
    BY <1>5 DEF Register, queue, pool
  <2>5. Queued' = Queued /\ Served' = Served
    BY <2>4 DEF Queued, Served, Serving
  <2> QED
    BY <1>0, <2>1, <2>3, <2>4, <2>5 DEF OneOwner, Serving
<1>6. ASSUME NEW fd \in Fds, Dispatch(fd)
      PROVE  OneOwner'
  <2>1. fd \in Registered
    BY <1>6 DEF Dispatch, Reaches, Registered, IInv, AheadIsRegistered
  <2>2. /\ Registered' = Registered \ {fd} /\ Open' = Open /\ Admitting = {} /\ Admitting' = {}
        /\ UNCHANGED <<wpc, sockFd>> /\ sockDescServiceList' = Append(sockDescServiceList, fd)
    BY <1>6 DEF Dispatch, Reaches, Registered, Open, Admitting, kernel, pool
  <2>3. fd \notin Queued /\ sockDescServiceList \in Seq(Fds)
    BY <1>0, <2>1 DEF OneOwner, TypeOK
  <2>4. /\ Queued' = Queued \cup {fd}
        /\ \A m, n \in DOMAIN sockDescServiceList' :
             sockDescServiceList'[m] = sockDescServiceList'[n] => m = n
    BY <1>0, <2>2, <2>3, AppendFacts DEF Queued, OneOwner
  <2>5. Served' = Served
    BY <2>2 DEF Served, Serving
  <2> QED
    BY <1>0, <2>1, <2>2, <2>4, <2>5 DEF OneOwner, Serving
<1>7. CASE Cleanup
  BY <1>7 DEF Cleanup, OneOwner, Alive
<1>8. ASSUME NEW w \in Workers, Lock(w) \/ Test(w) \/ Block(w) \/ CountUp(w) \/ Recv(w) \/ CountDown(w)
      PROVE  OneOwner'
  <2>1. UNCHANGED <<selecting, mpc, queue, sockFd, fdConn>>
    BY <1>8, Zenon DEF Lock, Test, Block, CountUp, Recv, CountDown, pool, kernel
  <2>2. \A v \in Workers : Serving(v)' <=> Serving(v)
    BY <1>0, <1>8 DEF Lock, Test, Block, CountUp, Recv, CountDown, WorkerGoto, Serving, TypeOK, pool
  <2> QED
    BY <1>0, <2>1, <2>2, OwnerSame, Zenon DEF Open, Admitting, Registered, selecting, queue
<1>9. ASSUME NEW w \in Workers, Take(w)
      PROVE  OneOwner'
  <2> DEFINE h == Head(sockDescServiceList)
  <2>1. /\ sockDescServiceList # <<>> /\ sockDescServiceList \in Seq(Fds)
        /\ wpc[w] = "take"
    BY <1>9 DEF Take, IInv, ElementThere, TypeOK
  <2>2. /\ UNCHANGED <<selecting, mpc, fdConn>>
        /\ sockDescServiceList' = Tail(sockDescServiceList)
        /\ sockFd' = [sockFd EXCEPT ![w] = h] /\ wpc' = [wpc EXCEPT ![w] = "count"]
    BY <1>9, <2>1, Zenon DEF Take, WorkerGoto, kernel
  <2>3. /\ h \in Queued /\ Queued = Queued' \cup {h} /\ h \notin Queued'
        /\ \A m, n \in DOMAIN sockDescServiceList' :
             sockDescServiceList'[m] = sockDescServiceList'[n] => m = n
    BY <1>0, <2>1, <2>2, TailFacts DEF Queued, OneOwner
  <2> HIDE DEF h
  <2>4. ~Serving(w) /\ Serving(w)' /\ sockFd'[w] = h
        /\ \A v \in Workers \ {w} : (Serving(v)' <=> Serving(v)) /\ sockFd'[v] = sockFd[v]
    BY <1>0, <2>1, <2>2 DEF Serving, TypeOK
  <2>5. Served' = Served \cup {h}
    BY <2>4 DEF Served
  <2>6. Open' = Open /\ Admitting' = Admitting /\ Registered' = Registered
    BY <2>2 DEF Open, Admitting, Registered, selecting
  <2>7. \A v \in Workers : Serving(v) => sockFd[v] # h
    BY <1>0, <2>3 DEF OneOwner, Served
  <2>8. \A v, u \in Workers : Serving(v)' /\ Serving(u)' /\ sockFd'[v] = sockFd'[u] => v = u
    BY <1>0, <2>4, <2>7 DEF OneOwner
  <2>9. /\ Open' = Admitting' \cup Registered' \cup Queued' \cup Served'
        /\ Admitting' \cap (Registered' \cup Queued' \cup Served') = {}
        /\ Registered' \cap (Queued' \cup Served') = {}
        /\ Queued' \cap Served' = {}
    BY <1>0, <2>3, <2>5, <2>6, SMTT(30) DEF OneOwner
  <2> QED
    BY <2>3, <2>8, <2>9 DEF OneOwner
<1>10. ASSUME NEW w \in Workers, Finish(w)
       PROVE  OneOwner'
  <2> DEFINE fd == sockFd[w]
  <2>1. Serving(w) /\ fd \in Served /\ fd \in Open
    BY <1>0, <1>10, SMTT(30) DEF Finish, Serving, Served, OneOwner
  <2>2. Open' = Open \ {fd}
    BY <1>0, <1>10, <2>1, CloseFacts DEF Finish
  <2>3. UNCHANGED <<selecting, mpc, queue, sockFd>> /\ wpc' = [wpc EXCEPT ![w] = "uncount"]
    BY <1>10, SMTT(30) DEF Finish, WorkerGoto
  <2>4. ~Serving(w)' /\ \A v \in Workers \ {w} : Serving(v)' <=> Serving(v)
    BY <1>0, <2>3 DEF Serving, TypeOK
  <2>5. \A v \in Workers \ {w} : Serving(v) => sockFd[v] # fd
    BY <1>0, <2>1 DEF OneOwner
  <2> HIDE DEF fd
  <2>6. Served' = Served \ {fd}
    BY <2>3, <2>4, <2>5 DEF Served, fd
  <2>7. Admitting' = Admitting /\ Registered' = Registered /\ Queued' = Queued
    BY <2>3 DEF Admitting, Registered, Queued, selecting, queue
  <2>8. /\ Open' = Admitting' \cup Registered' \cup Queued' \cup Served'
        /\ Admitting' \cap (Registered' \cup Queued' \cup Served') = {}
        /\ Registered' \cap (Queued' \cup Served') = {}
        /\ Queued' \cap Served' = {}
    BY <1>0, <2>1, <2>2, <2>6, <2>7 DEF OneOwner
  <2>9. \A v, u \in Workers : Serving(v)' /\ Serving(u)' /\ sockFd'[v] = sockFd'[u] => v = u
    BY <1>0, <2>3, <2>4 DEF OneOwner
  <2>10. UNCHANGED sockDescServiceList
    BY <2>3 DEF queue
  <2>11. (\A m, n \in DOMAIN sockDescServiceList :
            sockDescServiceList[m] = sockDescServiceList[n] => m = n)'
    BY <1>0, <2>10, Zenon DEF OneOwner
  <2> QED
    BY <2>8, <2>9, <2>11, Zenon DEF OneOwner
<1> QED
  BY <1>1, <1>2, <1>3, <1>4, <1>5, <1>6, <1>7, <1>8, <1>9, <1>10 DEF Next, Main, Worker, Client

-----------------------------------------------------------------------------
(* Types and the invariant *)

\* Every step keeps the types.
LEMMA TypeStep ==
  ASSUME IInv, Next
  PROVE  TypeOK'
<1> USE DescriptorsAssumption
<1>0. TypeOK /\ OneOwner /\ Alive
  BY DEF IInv, Next
<1>1. desc_ready' \in Nat /\ numberActiveThreads' \in Nat
  BY ReadyStep, CountStep
<1>2. /\ max_sd' \in Nat /\ i' \in Nat
      /\ master_set' \subseteq Fds \cup {listen_sd} /\ working_set' \subseteq Fds \cup {listen_sd}
      /\ new_sd' \in Fds \cup {listen_sd} /\ end_server' \in BOOLEAN /\ mpc' \in MainPcs
  <2>0. /\ max_sd \in Nat /\ i \in Nat
        /\ master_set \subseteq Fds \cup {listen_sd} /\ working_set \subseteq Fds \cup {listen_sd}
        /\ new_sd \in Fds \cup {listen_sd} /\ end_server \in BOOLEAN /\ mpc \in MainPcs
    BY <1>0 DEF TypeOK
  <2>1. CASE Client \/ \E w \in Workers : Worker(w) \/ Spurious(w)
    <3>1. UNCHANGED <<selecting, mpc>>
      BY <2>1 DEF Client, Connect, Send, Hangup, Worker, Lock, Test, Block, Take, CountUp, Recv,
                  Finish, CountDown, Spurious
    <3> QED
      BY <2>0, <3>1 DEF selecting
  <2>2. CASE Select \/ ScanListen
    <3>1. working_set' \subseteq Fds \cup {listen_sd} /\ i' \in Nat /\ mpc' \in MainPcs
      <4>1. i' \in Nat /\ mpc' \in MainPcs
        BY <2>2 DEF Select, ScanListen, MainPcs
      <4>2. CASE Select
        <5>1. working_set' \subseteq master_set
          BY <4>2 DEF Select
        <5> QED
          BY <2>0, <4>1, <5>1
      <4>3. CASE ScanListen
        BY <2>0, <4>1, <4>3 DEF ScanListen
      <4> QED
        BY <2>2, <4>2, <4>3
    <3>2. UNCHANGED <<master_set, max_sd, new_sd, end_server>>
      BY <2>2 DEF Select, ScanListen
    <3> QED
      BY <2>0, <3>1, <3>2
  <2>9. CASE SelectFails \/ Notify
    BY <2>0, <2>9, Zenon DEF SelectFails, Notify, selecting, MainPcs
  <2>3. CASE ScanDone
    BY <2>0, <2>3 DEF ScanDone, selecting, MainPcs
  <2>4. CASE Lower
    <3>1. max_sd \notin master_set => max_sd - 1 \in Nat
      <4>1. listen_sd \in master_set /\ listen_sd <= max_sd
        BY DEF IInv, MaxIsLargest
      <4> QED
        BY <2>0, <4>1
    <3> QED
      BY <2>0, <2>4, <3>1 DEF Lower, MainPcs
  <2>5. CASE \E fd \in Fds : Dispatch(fd)
    BY <2>0, <2>5 DEF Dispatch, MainPcs
  <2>6. CASE \E fd \in Fds : Accept(fd)
    BY <2>0, <2>6 DEF Accept, MainPcs
  <2>10. CASE AcceptNone \/ AcceptFails
    <3>1. UNCHANGED <<master_set, max_sd, working_set, new_sd>> /\ i' = i + 1 /\ mpc' = "scan"
      BY <2>10 DEF AcceptNone, AcceptFails
    <3>2. end_server' \in BOOLEAN
      BY <2>0, <2>10, Zenon DEF AcceptNone, AcceptFails
    <3>3. i' \in Nat
      BY <2>0, <3>1
    <3> QED
      BY <2>0, <3>1, <3>2, <3>3 DEF MainPcs
  <2>7. CASE Reject \/ Cleanup
    BY <2>0, <2>7, Zenon DEF Reject, Cleanup, selecting, MainPcs
  <2>8. CASE Register
    BY <2>0, <2>8 DEF Register, MainPcs
  <2> QED
    BY <2>1, <2>2, <2>3, <2>4, <2>5, <2>6, <2>7, <2>8, <2>9, <2>10, SMTT(30)
       DEF Next, Main, Client
<1> DEFINE PoolTypes ==
      /\ sockDescServiceList \in Seq(Fds) /\ sockDescMutex \subseteq Workers
      /\ threadNotifyMutex \subseteq Workers
      /\ wpc \in [Workers -> WorkerPcs] /\ sockFd \in [Workers -> Fds \cup {listen_sd}]
<1>3. PoolTypes'
  <2>0. PoolTypes
    BY <1>0 DEF TypeOK
  <2>1. CASE ~ \E w \in Workers : Worker(w)
    <3>0. sockDescServiceList \in Seq(Fds)
      BY <2>0
    <3>2. ASSUME UNCHANGED sockDescServiceList
          PROVE  sockDescServiceList' \in Seq(Fds)
      BY <3>0, <3>2
    <3>3. ASSUME NEW fd \in Fds, Dispatch(fd)
          PROVE  sockDescServiceList' \in Seq(Fds)
      <4>1. sockDescServiceList' = Append(sockDescServiceList, fd)
        BY <3>3, Zenon DEF Dispatch
      <4> QED
        BY <3>0, <4>1, AppendFacts, SMTT(30)
    <3>1. sockDescServiceList' \in Seq(Fds)
      BY <2>1, <3>2, <3>3, OthersLeavePool, Zenon
    <3> QED
      BY <2>0, <2>1, <3>1, OthersLeavePool, Zenon
  <2>2. ASSUME NEW w \in Workers, Take(w)
        PROVE  PoolTypes'
    <3>1. sockDescServiceList # <<>>
      BY <2>2 DEF Take, IInv, ElementThere
    <3>2. Tail(sockDescServiceList) \in Seq(Fds) /\ Head(sockDescServiceList) \in Fds
      BY <2>0, <3>1, TailFacts, Zenon
    <3> QED
      BY <2>0, <2>2, <3>1, <3>2 DEF Take, WorkerGoto, WorkerPcs
  <2>3. ASSUME NEW w \in Workers,
               Lock(w) \/ Test(w) \/ Block(w) \/ CountUp(w) \/ Recv(w) \/ Finish(w) \/ CountDown(w)
        PROVE  PoolTypes'
    BY <2>0, <2>3 DEF Lock, Test, Block, CountUp, Recv, Finish, CountDown, WorkerGoto, WorkerPcs,
                      queue, pool
  <2> QED
    BY <2>1, <2>2, <2>3 DEF Worker
<1>4. waiters' \subseteq Workers
  <2>1. waiters \subseteq Workers
    BY <1>0, SMTT(30) DEF TypeOK
  <2>2. CASE Main
    BY <2>1, <2>2, ZenonT(30) DEF Main, Select, SelectFails, ScanListen, Lower, Notify, ScanDone, Dispatch,
       Accept, AcceptNone, AcceptFails, Reject, Register, Cleanup, pool
  <2>3. ASSUME NEW w \in Workers, Worker(w) \/ Spurious(w)
        PROVE  waiters' \subseteq Workers
    BY <2>1, <2>3 DEF Worker, Lock, Test, Block, Take, CountUp, Recv, Finish, CountDown, Spurious, pool
  <2>4. CASE Client
    BY <2>1, <2>4, Zenon DEF Client, Connect, Send, Hangup, pool
  <2> QED
    BY <2>2, <2>3, <2>4 DEF Next, Client
<1> DEFINE KernelTypes ==
      /\ Open \subseteq Fds /\ \A fd \in Open : fdConn[fd] \in Conns
      /\ backlog \in Seq(Conns)
      /\ client \in [Conns -> {"away", "quiet", "sent", "gone", "over"}]
<1>5. KernelTypes'
  <2>0. KernelTypes
    BY <1>0 DEF TypeOK
  <2>1. CASE UNCHANGED kernel
    BY <2>0, <2>1 DEF kernel, Open
  <2>2. ASSUME NEW c \in Conns, Connect(c) \/ Send(c) \/ Hangup(c)
        PROVE  KernelTypes'
    <3>1. UNCHANGED fdConn /\ Open' = Open
      BY <2>2, Zenon DEF Connect, Send, Hangup, Open
    <3>2. backlog' \in Seq(Conns)
      <4>1. backlog' = backlog \/ backlog' = Append(backlog, c)
        BY <2>2, Zenon DEF Connect, Send, Hangup
      <4>2. backlog \in Seq(Conns)
        BY <2>0, Zenon DEF KernelTypes
      <4> QED
        BY <2>2, <4>1, <4>2, AppendFacts
    <3>3. client' \in [Conns -> {"away", "quiet", "sent", "gone", "over"}]
      BY <2>0, <2>2 DEF Connect, Send, Hangup
    <3> QED
      BY <2>0, <3>1, <3>2, <3>3, Zenon
  <2>3. ASSUME NEW fd \in Fds, Accept(fd)
        PROVE  KernelTypes'
    <3>1. Head(backlog) \in Conns /\ Tail(backlog) \in Seq(Conns)
      BY <2>0, <2>3, TailFacts DEF Accept
    <3>2. Open' = Open \cup {fd} /\ \A g \in Open' : fdConn'[g] \in Conns
      BY <2>0, <2>3, <3>1 DEF Accept, Open
    <3> QED
      BY <2>0, <2>3, <3>1, <3>2, Zenon DEF Accept
  <2>4. ASSUME NEW fd \in Open, Close(fd), UNCHANGED backlog
        PROVE  KernelTypes'
    BY <1>0, <2>0, <2>4, CloseFacts, ZenonT(30)
  <2>5. CASE Reject
    <3>1. new_sd \in Open
      BY <1>0, <2>5, Zenon DEF Reject, OneOwner, Admitting
    <3> QED
      BY <2>4, <2>5, <3>1 DEF Reject
  <2>6. ASSUME NEW w \in Workers, Finish(w)
        PROVE  KernelTypes'
    <3>1. sockFd[w] \in Open
      BY <1>0, <2>6 DEF Finish, OneOwner, Served, Serving
    <3>2. Close(sockFd[w]) /\ UNCHANGED backlog
      BY <2>6, Zenon DEF Finish
    <3> QED
      BY <2>4, <3>1, <3>2, Zenon
  <2>7. ASSUME NEW w \in Workers, Recv(w)
        PROVE  KernelTypes'
    BY <2>0, <2>7, Zenon DEF Recv, Open
  <2>8. CASE Cleanup
    <3>1. Open' = {}
      BY <2>8 DEF Cleanup, Open, Restrict
    <3> QED
      BY <2>8, <3>1 DEF Cleanup
  <2>9. CASE Main /\ ~Reject /\ ~Cleanup /\ ~ \E fd \in Fds : Accept(fd)
    <3>1. UNCHANGED kernel
      BY <2>9 DEF Main, Select, SelectFails, ScanListen, Lower, Notify, ScanDone, Dispatch,
         AcceptNone, AcceptFails, Register
    <3> QED
      BY <2>1, <3>1, Zenon
  <2>10. ASSUME NEW w \in Workers,
                Lock(w) \/ Test(w) \/ Block(w) \/ Take(w) \/ CountUp(w) \/ CountDown(w) \/ Spurious(w)
         PROVE  KernelTypes'
    <3>1. UNCHANGED kernel
      BY <2>10 DEF Lock, Test, Block, Take, CountUp, CountDown, Spurious
    <3> QED
      BY <2>1, <3>1, Zenon
  <2> QED
    BY <2>2, <2>3, <2>5, <2>6, <2>7, <2>8, <2>9, <2>10, Zenon DEF Next, Main, Worker
<1> QED
  BY <1>1, <1>2, <1>3, <1>4, <1>5 DEF TypeOK

\* The state in which socketMain enters its loop satisfies the invariant.
LEMMA InitIInv == Init => IInv
<1> SUFFICES ASSUME Init PROVE IInv
  BY Zenon
<1> USE DescriptorsAssumption
<1>1. TypeOK
  <2>1. Open = {} /\ <<>> \in Seq(Fds) /\ <<>> \in Seq(Conns)
    BY DEF Init, Open
  <2>2. wpc \in [Workers -> WorkerPcs] /\ sockFd \in [Workers -> Fds \cup {listen_sd}]
        /\ client \in [Conns -> {"away", "quiet", "sent", "gone", "over"}]
    BY DEF Init, WorkerPcs
  <2> QED
    <3>1. {max_sd, i, desc_ready, numberActiveThreads} \subseteq Nat
      BY DEF Init
    <3>2. /\ master_set \subseteq Fds \cup {listen_sd} /\ working_set \subseteq Fds \cup {listen_sd}
          /\ new_sd \in Fds \cup {listen_sd} /\ end_server \in BOOLEAN /\ mpc \in MainPcs
      BY Zenon DEF Init, MainPcs
    <3>3. /\ sockDescServiceList \in Seq(Fds) /\ backlog \in Seq(Conns)
          /\ sockDescMutex \subseteq Workers /\ threadNotifyMutex \subseteq Workers
          /\ waiters \subseteq Workers
      BY <2>1 DEF Init
    <3> QED
      BY <2>1, <2>2, <3>1, <3>2, <3>3 DEF TypeOK
<1>2. MaxIsLargest /\ AheadIsRegistered /\ Mutexes /\ ElementThere
  BY DEF Init, MaxIsLargest, AheadIsRegistered, Mutexes, ElementThere
<1>3. Counted = {}
  BY DEF Init, Counted
<1>4. CountIsRight /\ ReadyIsRight
  BY <1>3, FS_EmptySet DEF Init, CountIsRight, ReadyIsRight, AllReadyHandled
<1>5. Queued = {} /\ Served = {} /\ Registered = {} /\ Admitting = {} /\ Open = {}
  BY DEF Init, Queued, Range, Served, Serving, Registered, Admitting, Open
<1>6. OneOwner
  BY <1>5 DEF Init, OneOwner, Serving
<1> QED
  BY <1>1, <1>2, <1>4, <1>6 DEF IInv

\* Every step of the main thread, a worker or a client preserves the invariant.
LEMMA NextIInv == IInv /\ [Next]_vars => IInv'
<1>1. ASSUME IInv, Next PROVE IInv'
  BY <1>1, TypeStep, MaxStep, ReadyStep, MutexStep, CountStep, OwnerStep DEF IInv
<1>2. ASSUME IInv, UNCHANGED vars PROVE IInv'
  <2>1. UNCHANGED <<selecting, mpc, queue, pool, kernel>>
    BY <1>2, Zenon DEF vars
  <2>2. TypeOK'
    BY <1>2, <2>1 DEF IInv, TypeOK, selecting, queue, pool, kernel, Open
  <2>3. MaxIsLargest' /\ AheadIsRegistered' /\ Mutexes' /\ ElementThere'
    BY <1>2, <2>1 DEF IInv, MaxIsLargest, AheadIsRegistered, Mutexes, ElementThere, selecting,
                      queue, pool
  <2>4. Counted' = Counted /\ Ahead' = Ahead
    BY <2>1 DEF Counted, Ahead, selecting, pool
  <2>5. CountIsRight' /\ ReadyIsRight'
    BY <1>2, <2>1, <2>4 DEF IInv, CountIsRight, ReadyIsRight, AllReadyHandled, selecting, pool
  <2>6. OneOwner'
    <3>1. CASE Alive
      BY <1>2, <2>1, <3>1, OwnerSame DEF Open, Admitting, Registered, Serving, selecting, queue,
                                         pool, kernel
    <3>2. CASE ~Alive
      BY <2>1, <3>2 DEF OneOwner, Alive
    <3> QED
      BY <3>1, <3>2
  <2> QED
    BY <2>2, <2>3, <2>5, <2>6 DEF IInv
<1> QED
  BY <1>1, <1>2

\* The inductive invariant of the main thread and the pool holds in every
\* reachable state.
THEOREM Invariance == Spec => []IInv
  BY InitIInv, NextIInv, PTL DEF Spec

\* The types are kept; numberActiveThreads and desc_ready never wrap below zero
\* (lines 192 and 342), and max_sd stops at the listening socket (line 412).
THEOREM TypeCorrect == Spec => []TypeOK
<1>1. IInv => TypeOK
  BY DEF IInv
<1> QED
  BY <1>1, Invariance, PTL

\* However main thread, workers and clients interleave, a descriptor is in one
\* place at a time: no connection is served by two workers, lost, or used after
\* its close.
THEOREM OwnerSafety == Spec => []OneOwner
<1>1. IInv => OneOwner
  BY DEF IInv
<1> QED
  BY <1>1, Invariance, PTL

\* select always covers every registered descriptor, and the loop that lowers
\* max_sd ends.
THEOREM MaxCorrect == Spec => []MaxIsLargest
<1>1. IInv => MaxIsLargest
  BY DEF IInv
<1> QED
  BY <1>1, Invariance, PTL

\* The branch of socketThread that would leave sockDescMutex locked is dead: what
\* the predicate of the wait saw is still there when sockDescMutex is locked.
THEOREM TakeFindsElement == Spec => []ElementThere
<1>1. IInv => ElementThere
  BY DEF IInv
<1> QED
  BY <1>1, Invariance, PTL

\* The loop over working_set leaves out nothing that select reported.
THEOREM ScanComplete == Spec => []AllReadyHandled
<1>1. IInv => AllReadyHandled
  BY DEF IInv, ReadyIsRight
<1> QED
  BY <1>1, Invariance, PTL
-----------------------------------------------------------------------------
(* SockPool implements ConnLifecycle: every step of the threads and of the    *)
(* clients moves at most one connection, and from a phase to the next.        *)
(* OneOwner says where a descriptor is; ConnectionsApart carries that over to *)
(* connections, because no two descriptors belong to one connection.  Where(c)*)
(* is then the phase of c, and a step that moves one descriptor moves one     *)
(* connection.                                                                *)

ConnsOf(S) == {fdConn[fd] : fd \in S}

\* A connection is in the backlog once, or has one descriptor, or is not there.
ConnectionsApart ==
  Alive =>
    /\ \A f, g \in Open : fdConn[f] = fdConn[g] => f = g
    /\ \A m, n \in DOMAIN backlog : backlog[m] = backlog[n] => m = n
    /\ Range(backlog) \cap ConnsOf(Open) = {}
    /\ \A c \in Conns : client[c] = "away" => c \notin Range(backlog) \cup ConnsOf(Open)

\* The connections in each phase.
Pending == Range(backlog) \cup ConnsOf(Admitting)
Watched == ConnsOf(Registered)
Waiting == ConnsOf(Queued)
InService == ConnsOf(Served)

Where(c) == IF c \in Pending THEN "pending" ELSE
            IF c \in Watched THEN "open" ELSE
            IF c \in Waiting THEN "ready" ELSE
            IF c \in InService THEN "served" ELSE "away"

PhasesApart ==
  /\ Pending \cap (Watched \cup Waiting \cup InService) = {}
  /\ Watched \cap (Waiting \cup InService) = {}
  /\ Waiting \cap InService = {}

\* The state of ConnLifecycle.
phaseOfConns == [c \in Conns |-> PhaseOf(c)]
readyConns == IF Alive THEN [n \in DOMAIN sockDescServiceList |-> fdConn[sockDescServiceList[n]]]
                       ELSE <<>>
serverOf == [w \in Workers |-> IF Alive /\ Serving(w) THEN {fdConn[sockFd[w]]} ELSE {}]

\* A descriptor's owner gives the phase of its connection.
PhasesFit ==
  /\ \A c \in Conns : PhaseOf(c) = Where(c)
  /\ \A c \in Conns, fd \in Admitting : fdConn[fd] = c => PhaseOf(c) = "pending"
  /\ \A c \in Conns, fd \in Registered : fdConn[fd] = c => PhaseOf(c) = "open"
  /\ \A c \in Conns, fd \in Queued : fdConn[fd] = c => PhaseOf(c) = "ready"
  /\ \A c \in Conns, fd \in Served : fdConn[fd] = c => PhaseOf(c) = "served"
  /\ \A c \in Conns \ (Range(backlog) \cup ConnsOf(Open)) : PhaseOf(c) = "away"

RInv == IInv /\ ConnectionsApart /\ (Alive => PhasesFit)

-----------------------------------------------------------------------------
(* Connections and descriptors *)

\* A connection is in one place only: accept takes it from the backlog and gives
\* it one descriptor (line 363), close ends it (lines 155, 377).
LEMMA ApartStep ==
  ASSUME IInv, ConnectionsApart, Next
  PROVE  ConnectionsApart'
<1>0. /\ Alive /\ TypeOK /\ OneOwner /\ backlog \in Seq(Conns)
      /\ client \in [Conns -> {"away", "quiet", "sent", "gone", "over"}]
      /\ \A fd \in Open : fdConn[fd] \in Conns
  BY Zenon DEF Next, IInv, TypeOK
<1>1. /\ \A f, g \in Open : fdConn[f] = fdConn[g] => f = g
      /\ \A m, n \in DOMAIN backlog : backlog[m] = backlog[n] => m = n
      /\ Range(backlog) \cap ConnsOf(Open) = {}
      /\ \A c \in Conns : client[c] = "away" => c \notin Range(backlog) \cup ConnsOf(Open)
  BY <1>0, Zenon DEF ConnectionsApart
<1>2. ASSUME UNCHANGED <<fdConn, backlog>>,
             \A c \in Conns : client'[c] = "away" => client[c] = "away"
      PROVE  ConnectionsApart'
  <2>1. Open' = Open /\ ConnsOf(Open)' = ConnsOf(Open)
    BY <1>2, Zenon DEF Open, ConnsOf
  <2> QED
    BY <1>1, <1>2, <2>1 DEF ConnectionsApart
<1>3. ASSUME NEW c \in Conns, Connect(c)
      PROVE  ConnectionsApart'
  <2>1. UNCHANGED fdConn /\ backlog' = Append(backlog, c) /\ client[c] = "away"
        /\ \A d \in Conns : client'[d] = "away" => client[d] = "away" /\ d # c
    BY <1>0, <1>3 DEF Connect
  <2>2. Open' = Open /\ ConnsOf(Open)' = ConnsOf(Open)
    BY <2>1, Zenon DEF Open, ConnsOf
  <2>3. Range(backlog') = Range(backlog) \cup {c}
        /\ \A m, n \in DOMAIN backlog' : backlog'[m] = backlog'[n] => m = n
    BY <1>0, <1>1, <2>1, AppendFacts
  <2> QED
    BY <1>1, <2>1, <2>2, <2>3 DEF ConnectionsApart
<1>4. ASSUME NEW c \in Conns, Send(c) \/ Hangup(c)
      PROVE  ConnectionsApart'
  BY <1>0, <1>2, <1>4 DEF Send, Hangup
<1>5. ASSUME NEW w \in Workers, Recv(w)
      PROVE  ConnectionsApart'
  BY <1>0, <1>2, <1>5 DEF Recv
<1>6. ASSUME NEW fd \in Fds, Accept(fd)
      PROVE  ConnectionsApart'
  <2> DEFINE h == Head(backlog)
  <2>1. UNCHANGED client /\ backlog' = Tail(backlog) /\ backlog # <<>> /\ fd \notin Open
        /\ Open' = Open \cup {fd} /\ fdConn'[fd] = h /\ \A g \in Open : fdConn'[g] = fdConn[g]
    BY <1>6 DEF Accept, Open
  <2>2. Range(backlog) = Range(backlog') \cup {h} /\ h \notin Range(backlog')
        /\ \A m, n \in DOMAIN backlog' : backlog'[m] = backlog'[n] => m = n
    BY <1>0, <1>1, <2>1, TailFacts
  <2> HIDE DEF h
  <2>3. ConnsOf(Open)' = ConnsOf(Open) \cup {h}
    BY <2>1 DEF ConnsOf
  <2>4. \A f, g \in Open' : fdConn'[f] = fdConn'[g] => f = g
    <3>1. \A f \in Open : fdConn[f] # h
      BY <1>1, <2>2 DEF ConnsOf
    <3> QED
      BY <1>1, <2>1, <3>1
  <2>5. /\ Range(backlog') \cap ConnsOf(Open)' = {}
        /\ Range(backlog') \cup ConnsOf(Open)' = Range(backlog) \cup ConnsOf(Open)
    BY <1>1, <2>2, <2>3, ZenonT(30)
  <2> QED
    BY <1>1, <2>1, <2>2, <2>4, <2>5, Zenon DEF ConnectionsApart
<1>7. ASSUME NEW fd \in Open, Close(fd), UNCHANGED backlog
      PROVE  ConnectionsApart'
  <2>1. Open' = Open \ {fd} /\ \A g \in Open' : fdConn'[g] = fdConn[g]
    BY <1>0, <1>7, CloseFacts
  <2>2. \A d \in Conns : client'[d] = "away" => client[d] = "away" \/ d = fdConn[fd]
    BY <1>0, <1>7 DEF Close
  <2>3. ConnsOf(Open)' \subseteq ConnsOf(Open) \ {fdConn[fd]} /\ fdConn[fd] \in ConnsOf(Open)
    <3>1. \A g \in Open' : g \in Open /\ fdConn'[g] = fdConn[g] /\ fdConn[g] # fdConn[fd]
      BY <1>1, <2>1
    <3> QED
      BY <3>1, Zenon DEF ConnsOf
  <2>4. \A f, g \in Open' : fdConn'[f] = fdConn'[g] => f = g
    BY <1>1, <2>1
  <2> QED
    BY <1>1, <1>7, <2>2, <2>3, <2>4, ZenonT(30) DEF ConnectionsApart
<1>8. CASE Reject
  <2>1. new_sd \in Open
    BY <1>0, <1>8 DEF Reject, OneOwner, Admitting
  <2> QED
    BY <1>7, <1>8, <2>1 DEF Reject
<1>9. ASSUME NEW w \in Workers, Finish(w)
      PROVE  ConnectionsApart'
  <2>1. sockFd[w] \in Open
    BY <1>0, <1>9 DEF Finish, OneOwner, Served, Serving
  <2> QED
    BY <1>7, <1>9, <2>1, Zenon DEF Finish
<1>10. CASE Cleanup
  BY <1>10 DEF Cleanup, ConnectionsApart, Alive
<1>11. CASE UNCHANGED kernel
  BY <1>2, <1>11 DEF kernel
<1>12. CASE Main /\ ~Reject /\ ~Cleanup /\ ~ \E fd \in Fds : Accept(fd)
  <2>1. UNCHANGED kernel
    BY <1>12 DEF Main, Select, SelectFails, ScanListen, Lower, Notify, ScanDone, Dispatch,
       AcceptNone, AcceptFails, Register
  <2> QED
    BY <1>11, <2>1, Zenon
<1>13. ASSUME NEW w \in Workers,
              Lock(w) \/ Test(w) \/ Block(w) \/ Take(w) \/ CountUp(w) \/ CountDown(w) \/ Spurious(w)
       PROVE  ConnectionsApart'
  <2>1. UNCHANGED kernel
    BY <1>13, Zenon DEF Lock, Test, Block, Take, CountUp, CountDown, Spurious
  <2> QED
    BY <1>11, <2>1, Zenon
<1> QED
  BY <1>3, <1>4, <1>5, <1>6, <1>8, <1>9, <1>10, <1>12, <1>13, ZenonT(30) DEF Next, Main, Worker

\* The sets that the main thread, the queue and the workers own make up the phases.
LEMMA PhaseFacts == IInv /\ ConnectionsApart => RInv
<1> SUFFICES ASSUME IInv, ConnectionsApart, Alive PROVE PhasesFit
  BY Zenon DEF RInv
<1>1. /\ \A f, g \in Open : fdConn[f] = fdConn[g] => f = g
      /\ Range(backlog) \cap ConnsOf(Open) = {}
      /\ \A fd \in Open : fdConn[fd] \in Conns
  BY DEF ConnectionsApart, IInv, TypeOK
<1>2. /\ Open = Admitting \cup Registered \cup Queued \cup Served
      /\ Admitting \cap (Registered \cup Queued \cup Served) = {}
      /\ Registered \cap (Queued \cup Served) = {}
      /\ Queued \cap Served = {}
  BY DEF OneOwner, IInv
<1>3. ASSUME NEW S, NEW T, S \subseteq Open, T \subseteq Open, S \cap T = {}
      PROVE  ConnsOf(S) \cap ConnsOf(T) = {} /\ ConnsOf(S) \subseteq ConnsOf(Open)
  BY <1>1, <1>3, Zenon DEF ConnsOf
<1>4. PhasesApart
  <2>1. /\ ConnsOf(Admitting) \cap ConnsOf(Registered) = {}
        /\ ConnsOf(Admitting) \cap ConnsOf(Queued) = {}
        /\ ConnsOf(Admitting) \cap ConnsOf(Served) = {}
        /\ ConnsOf(Registered) \cap ConnsOf(Queued) = {}
        /\ ConnsOf(Registered) \cap ConnsOf(Served) = {}
        /\ ConnsOf(Queued) \cap ConnsOf(Served) = {}
    <3>1. /\ Admitting \subseteq Open /\ Registered \subseteq Open
          /\ Queued \subseteq Open /\ Served \subseteq Open
          /\ Admitting \cap Registered = {} /\ Admitting \cap Queued = {}
          /\ Admitting \cap Served = {} /\ Registered \cap Queued = {}
          /\ Registered \cap Served = {} /\ Queued \cap Served = {}
      BY <1>2
    <3> QED
      BY <1>3, <3>1, Zenon
  <2>2. ConnsOf(Registered) \cup ConnsOf(Queued) \cup ConnsOf(Served) \subseteq ConnsOf(Open)
    BY <1>2 DEF ConnsOf
  <2> QED
    BY <1>1, <2>1, <2>2 DEF PhasesApart, Pending, Watched, Waiting, InService
<1>5. ASSUME NEW c \in Conns PROVE PhaseOf(c) = Where(c)
  <2> DEFINE fds == {fd \in Open : fdConn[fd] = c}
  <2>1. ASSUME NEW S, S \subseteq Open PROVE fds \cap S # {} <=> c \in ConnsOf(S)
    BY <2>1 DEF ConnsOf
  <2>2. /\ fds \cap Admitting # {} <=> c \in ConnsOf(Admitting)
        /\ fds \cap Registered # {} <=> c \in ConnsOf(Registered)
        /\ fds \cap Queued # {} <=> c \in ConnsOf(Queued)
        /\ fds \cap Served # {} <=> c \in ConnsOf(Served)
    BY <1>2, <2>1
  <2>3. PhaseOf(c) = CASE c \in Range(backlog) \/ fds \cap Admitting # {} -> "pending"
                       [] fds \cap Registered # {} -> "open"
                       [] fds \cap Queued # {} -> "ready"
                       [] fds \cap Served # {} -> "served"
                       [] OTHER -> "away"
    BY DEF PhaseOf
  <2> HIDE DEF fds
  <2> QED
    BY <1>4, <2>2, <2>3 DEF PhasesApart, Where, Pending, Watched, Waiting, InService
<1>6. ASSUME NEW c \in Conns, NEW fd \in Open, fdConn[fd] = c
      PROVE  /\ fd \in Admitting => PhaseOf(c) = "pending"
             /\ fd \in Registered => PhaseOf(c) = "open"
             /\ fd \in Queued => PhaseOf(c) = "ready"
             /\ fd \in Served => PhaseOf(c) = "served"
  <2>1. /\ fd \in Admitting => c \in Pending
        /\ fd \in Registered => c \in Watched
        /\ fd \in Queued => c \in Waiting
        /\ fd \in Served => c \in InService
    BY <1>6 DEF Pending, Watched, Waiting, InService, ConnsOf
  <2> QED
    BY <1>4, <1>5, <2>1 DEF PhasesApart, Where
<1>7. ASSUME NEW c \in Conns \ (Range(backlog) \cup ConnsOf(Open))
      PROVE  PhaseOf(c) = "away"
  <2>1. c \notin Pending \cup Watched \cup Waiting \cup InService
    BY <1>2, <1>7 DEF Pending, Watched, Waiting, InService, ConnsOf
  <2> QED
    BY <1>5, <2>1 DEF Where
<1> QED
  BY <1>2, <1>5, <1>6, <1>7 DEF PhasesFit

-----------------------------------------------------------------------------
(* What a step changes *)

\* Connections that keep their place keep their phase.
LEMMA Moved ==
  ASSUME RInv, RInv', Alive, Alive', NEW c \in Conns,
         \A d \in Conns \ {c} : /\ d \in Pending' <=> d \in Pending
                                /\ d \in Watched' <=> d \in Watched
                                /\ d \in Waiting' <=> d \in Waiting
                                /\ d \in InService' <=> d \in InService
  PROVE  phaseOfConns' = [phaseOfConns EXCEPT ![c] = PhaseOf(c)']
<1>1. (\A d \in Conns : PhaseOf(d) = Where(d)) /\ (\A d \in Conns : PhaseOf(d)' = Where(d)')
  BY Zenon DEF RInv, PhasesFit
<1>2. \A d \in Conns \ {c} : Where(d)' = Where(d)
  <2> SUFFICES ASSUME NEW d \in Conns \ {c} PROVE Where(d)' = Where(d)
    OBVIOUS
  <2>1. /\ d \in Pending' <=> d \in Pending
        /\ d \in Watched' <=> d \in Watched
        /\ d \in Waiting' <=> d \in Waiting
        /\ d \in InService' <=> d \in InService
    OBVIOUS
  <2>2. Where(d)' = IF d \in Pending' THEN "pending" ELSE
                    IF d \in Watched' THEN "open" ELSE
                    IF d \in Waiting' THEN "ready" ELSE
                    IF d \in InService' THEN "served" ELSE "away"
    BY DEF Where
  <2> QED
    BY <2>1, <2>2 DEF Where
<1>3. \A d \in Conns \ {c} : PhaseOf(d)' = PhaseOf(d)
  BY <1>1, <1>2
<1> QED
  BY <1>3, Zenon DEF phaseOfConns

\* A step that moves one descriptor moves its connection only.
LEMMA MovedFd ==
  ASSUME RInv, RInv', Alive, Alive', NEW fd \in Open, NEW c, fdConn[fd] = c,
         Open' \subseteq Open, \A g \in Open' : fdConn'[g] = fdConn[g],
         Range(backlog)' = Range(backlog),
         Admitting' \ {fd} = Admitting \ {fd}, Registered' \ {fd} = Registered \ {fd},
         Queued' \ {fd} = Queued \ {fd}, Served' \ {fd} = Served \ {fd}
  PROVE  c \in Conns /\ phaseOfConns' = [phaseOfConns EXCEPT ![c] = PhaseOf(c)']
<1>1. /\ c \in Conns
      /\ Open = Admitting \cup Registered \cup Queued \cup Served
      /\ Open' = Admitting' \cup Registered' \cup Queued' \cup Served'
  BY Zenon DEF RInv, IInv, TypeOK, OneOwner
<1>2. ASSUME NEW d \in Conns \ {c}, NEW S, NEW T, S \subseteq Open, T \subseteq Open',
             T \ {fd} = S \ {fd}
      PROVE  d \in {fdConn'[g] : g \in T} <=> d \in ConnsOf(S)
  BY <1>2 DEF ConnsOf
<1>3. ASSUME NEW d \in Conns \ {c}
      PROVE  /\ d \in ConnsOf(Admitting)' <=> d \in ConnsOf(Admitting)
             /\ d \in ConnsOf(Registered)' <=> d \in ConnsOf(Registered)
             /\ d \in ConnsOf(Queued)' <=> d \in ConnsOf(Queued)
             /\ d \in ConnsOf(Served)' <=> d \in ConnsOf(Served)
  <2>1. /\ ConnsOf(Admitting)' = {fdConn'[g] : g \in Admitting'}
        /\ ConnsOf(Registered)' = {fdConn'[g] : g \in Registered'}
        /\ ConnsOf(Queued)' = {fdConn'[g] : g \in Queued'}
        /\ ConnsOf(Served)' = {fdConn'[g] : g \in Served'}
    BY DEF ConnsOf
  <2>2. d \in {fdConn'[g] : g \in Admitting'} <=> d \in ConnsOf(Admitting)
    BY <1>1, <1>2, Zenon
  <2>3. d \in {fdConn'[g] : g \in Registered'} <=> d \in ConnsOf(Registered)
    BY <1>1, <1>2, Zenon
  <2>4. d \in {fdConn'[g] : g \in Queued'} <=> d \in ConnsOf(Queued)
    BY <1>1, <1>2, Zenon
  <2>5. d \in {fdConn'[g] : g \in Served'} <=> d \in ConnsOf(Served)
    BY <1>1, <1>2, Zenon
  <2> QED
    BY <2>1, <2>2, <2>3, <2>4, <2>5, Zenon
<1>4. ASSUME NEW d \in Conns \ {c}
      PROVE  /\ d \in Pending' <=> d \in Pending
             /\ d \in Watched' <=> d \in Watched
             /\ d \in Waiting' <=> d \in Waiting
             /\ d \in InService' <=> d \in InService
  BY <1>3 DEF Pending, Watched, Waiting, InService
<1>5. phaseOfConns' = [phaseOfConns EXCEPT ![c] = PhaseOf(c)']
  BY <1>1, <1>4, Moved, Zenon
<1> QED
  BY <1>1, <1>5, Zenon

\* A step that leaves the queue and its connections alone leaves ready alone.
LEMMA SameReady ==
  ASSUME Alive, Alive', UNCHANGED sockDescServiceList,
         \A fd \in Queued : fdConn'[fd] = fdConn[fd]
  PROVE  readyConns' = readyConns
<1>1. \A n \in DOMAIN sockDescServiceList :
        fdConn'[sockDescServiceList[n]] = fdConn[sockDescServiceList[n]]
  BY DEF Queued, Range
<1> QED
  BY <1>1 DEF readyConns

\* A step in which no worker starts or ends a service leaves server alone.
LEMMA SameServer ==
  ASSUME Alive, Alive',
         \A w \in Workers : Serving(w)' <=> Serving(w),
         \A w \in Workers : Serving(w) => /\ sockFd'[w] = sockFd[w]
                                          /\ fdConn'[sockFd[w]] = fdConn[sockFd[w]]
  PROVE  serverOf' = serverOf
<1>1. ASSUME NEW w \in Workers
      PROVE  (IF Alive /\ Serving(w) THEN {fdConn[sockFd[w]]} ELSE {})'
               = IF Alive /\ Serving(w) THEN {fdConn[sockFd[w]]} ELSE {}
  <2>1. CASE Serving(w)
    BY <2>1
  <2>2. CASE ~Serving(w)
    BY <2>2
  <2> QED
    BY <2>1, <2>2
<1> QED
  BY <1>1, Zenon DEF serverOf

\* A step that moves no descriptor and no pending connection is a stutter.
LEMMA Stutter ==
  ASSUME Alive, Alive', UNCHANGED <<fdConn, backlog, sockDescServiceList, sockFd>>,
         Admitting' = Admitting, Registered' = Registered,
         \A w \in Workers : Serving(w)' <=> Serving(w)
  PROVE  UNCHANGED <<phaseOfConns, readyConns, serverOf>>
<1>1. Open' = Open /\ Queued' = Queued /\ Served' = Served
  BY DEF Open, Queued, Served
<1>2. \A c \in Conns : PhaseOf(c)' = PhaseOf(c)
  BY <1>1 DEF PhaseOf
<1>3. phaseOfConns' = phaseOfConns
  BY <1>2 DEF phaseOfConns
<1>4. readyConns' = readyConns /\ serverOf' = serverOf
  BY SameReady, SameServer
<1> QED
  BY <1>3, <1>4

\* After close the connection has no place.
LEMMA ClosedIsAway ==
  ASSUME RInv, RInv', Alive, Alive', NEW fd \in Open, NEW c, c = fdConn[fd], UNCHANGED backlog,
         Open' = Open \ {fd}, \A g \in Open' : fdConn'[g] = fdConn[g]
  PROVE  PhaseOf(c)' = "away"
<1>1. /\ \A f, g \in Open : fdConn[f] = fdConn[g] => f = g
      /\ Range(backlog) \cap ConnsOf(Open) = {} /\ c \in Conns
  BY Zenon DEF RInv, IInv, TypeOK, ConnectionsApart
<1>2. c \notin ConnsOf(Open)'
  BY <1>1 DEF ConnsOf
<1>3. c \notin Range(backlog)'
  BY <1>1 DEF ConnsOf
<1>4. \A d \in Conns \ (Range(backlog)' \cup ConnsOf(Open)') : PhaseOf(d)' = "away"
  BY Zenon DEF RInv, PhasesFit
<1> QED
  BY <1>1, <1>2, <1>3, <1>4, Zenon

\* push_back puts the connection last in ready.
LEMMA ReadyAppend ==
  ASSUME Alive, Alive', UNCHANGED fdConn, sockDescServiceList \in Seq(Fds), NEW fd \in Fds,
         sockDescServiceList' = Append(sockDescServiceList, fd)
  PROVE  readyConns' = Append(readyConns, fdConn[fd])
<1> DEFINE s == sockDescServiceList
<1>1. readyConns = [n \in DOMAIN s |-> fdConn[s[n]]]
  BY Zenon DEF readyConns
<1>2. readyConns' = [n \in DOMAIN Append(s, fd) |-> fdConn[Append(s, fd)[n]]]
  BY Zenon DEF readyConns
<1>3. [n \in DOMAIN Append(s, fd) |-> fdConn[Append(s, fd)[n]]]
        = Append([n \in DOMAIN s |-> fdConn[s[n]]], fdConn[fd])
  BY MapAppend
<1> QED
  BY <1>1, <1>2, <1>3

\* begin and erase (lines 180-182) take the first connection from ready.
LEMMA ReadyTail ==
  ASSUME Alive, Alive', UNCHANGED fdConn, sockDescServiceList \in Seq(Fds),
         sockDescServiceList # <<>>, sockDescServiceList' = Tail(sockDescServiceList)
  PROVE  /\ readyConns # <<>> /\ Head(readyConns) = fdConn[Head(sockDescServiceList)]
         /\ readyConns' = Tail(readyConns)
<1> DEFINE s == sockDescServiceList
           r == [n \in 1 .. Len(s) |-> fdConn[s[n]]]
           t == [n \in 1 .. Len(s) - 1 |-> fdConn[Tail(s)[n]]]
<1>1. /\ Len(s) \in Nat \ {0} /\ DOMAIN s = 1 .. Len(s) /\ Head(s) = s[1]
      /\ DOMAIN Tail(s) = 1 .. Len(s) - 1
      /\ \A n \in 1 .. Len(s) - 1 : Tail(s)[n] = s[n + 1]
  OBVIOUS
<1>2. readyConns = r /\ readyConns' = t
  BY <1>1 DEF readyConns
<1>3. \A n \in 1 .. Len(s) - 1 : t[n] = r[n + 1]
  BY <1>1
<1>4. r[1] = fdConn[Head(s)]
  BY <1>1
<1>5. /\ r \in Seq({fdConn[s[n]] : n \in 1 .. Len(s)}) /\ t \in Seq({fdConn[s[n]] : n \in 1 .. Len(s)})
      /\ Len(r) = Len(s) /\ Len(t) = Len(s) - 1
  BY <1>1
<1> HIDE DEF r, t
<1>6. r # <<>> /\ Head(r) = r[1] /\ t = Tail(r)
  <2> DEFINE S == {fdConn[s[n]] : n \in 1 .. Len(s)}
  <2>1. r \in Seq(S) /\ t \in Seq(S)
    BY <1>5
  <2> HIDE DEF S
  <2>2. r # <<>> /\ Head(r) = r[1]
    BY <1>1, <1>5, <2>1
  <2>3. /\ Tail(r) \in Seq(S) /\ Len(Tail(r)) = Len(t)
        /\ \A n \in 1 .. Len(t) : Tail(r)[n] = r[n + 1]
    BY <1>1, <1>5, <2>1, <2>2
  <2>4. \A n \in 1 .. Len(t) : t[n] = Tail(r)[n]
    BY <1>3, <1>5, <2>3
  <2> QED
    BY <2>1, <2>2, <2>3, <2>4
<1> QED
  BY <1>2, <1>4, <1>6

\* Only the end of socketMain ends the process.
LEMMA StaysAlive ==
  ASSUME Next, ~Cleanup
  PROVE  Alive'
<1>1. CASE Main
  BY <1>1, ZenonT(30) DEF Main, Alive, Select, SelectFails, ScanListen, Lower, Notify, ScanDone, Dispatch,
     Accept, AcceptNone, AcceptFails, Reject, Register, Next
<1>2. CASE Client \/ \E w \in Workers : Worker(w) \/ Spurious(w)
  <2>1. UNCHANGED mpc
    BY <1>2, Zenon DEF Client, Connect, Send, Hangup, Worker, Lock, Test, Block, Take, CountUp, Recv,
                Finish, CountDown, Spurious
  <2> QED
    BY <2>1, Zenon DEF Alive, Next
<1> QED
  BY <1>1, <1>2 DEF Next, Client

\* All other steps of the threads and of the clients change no phase.
LEMMA QuietSteps ==
  ASSUME IInv, Alive, Alive',
         \/ Select \/ SelectFails \/ ScanListen \/ Lower \/ Notify \/ ScanDone
         \/ AcceptNone \/ AcceptFails
         \/ \E c \in Conns : Send(c) \/ Hangup(c)
         \/ \E w \in Workers : Lock(w) \/ Test(w) \/ Block(w) \/ CountUp(w) \/ Recv(w) \/ CountDown(w)
                               \/ Spurious(w)
  PROVE  UNCHANGED <<phaseOfConns, readyConns, serverOf>>
<1>1. ASSUME UNCHANGED <<master_set, queue, wpc, sockFd, kernel>>, mpc # "admit", mpc' # "admit"
      PROVE  UNCHANGED <<phaseOfConns, readyConns, serverOf>>
  <2>1. UNCHANGED <<fdConn, backlog, sockDescServiceList, sockFd, wpc, master_set>>
    BY <1>1 DEF kernel, queue
  <2> QED
    BY <1>1, <2>1, Stutter, Zenon DEF Admitting, Registered, Serving
<1>2. CASE Select \/ SelectFails \/ ScanListen
  <2>1. UNCHANGED <<master_set, queue, wpc, sockFd, kernel>> /\ mpc # "admit" /\ mpc' # "admit"
    BY <1>2, Zenon DEF Select, SelectFails, ScanListen, Reaches, selecting, pool
  <2> QED
    BY <1>1, <2>1, Zenon
<1>3. CASE Lower \/ Notify \/ ScanDone
  BY <1>1, <1>3, Zenon DEF Lower, Notify, ScanDone, selecting, pool
<1>4. CASE AcceptNone \/ AcceptFails
  BY <1>1, <1>4 DEF AcceptNone, AcceptFails, pool
<1>5. ASSUME UNCHANGED <<selecting, mpc, queue, sockFd, fdConn, backlog>>,
             \A v \in Workers : Serving(v)' <=> Serving(v)
      PROVE  UNCHANGED <<phaseOfConns, readyConns, serverOf>>
  <2>1. UNCHANGED <<fdConn, backlog, sockDescServiceList, sockFd>>
        /\ Admitting' = Admitting /\ Registered' = Registered
    BY <1>5, Zenon DEF selecting, queue, Admitting, Registered
  <2> QED
    BY <1>5, <2>1, Stutter
<1>6. ASSUME NEW c \in Conns, Send(c) \/ Hangup(c)
      PROVE  UNCHANGED <<phaseOfConns, readyConns, serverOf>>
  BY <1>5, <1>6, Zenon DEF Send, Hangup, pool, Serving
<1>7. ASSUME NEW w \in Workers,
             Lock(w) \/ Test(w) \/ Block(w) \/ CountUp(w) \/ Recv(w) \/ CountDown(w) \/ Spurious(w)
      PROVE  UNCHANGED <<phaseOfConns, readyConns, serverOf>>
  <2>1. UNCHANGED <<selecting, mpc, queue, sockFd, fdConn, backlog>>
    <3>1. CASE Lock(w) \/ Test(w) \/ Block(w)
      BY <3>1, Zenon DEF Lock, Test, Block, kernel
    <3>2. CASE CountUp(w) \/ CountDown(w)
      BY <3>2, Zenon DEF CountUp, CountDown, kernel
    <3>3. CASE Recv(w) \/ Spurious(w)
      BY <3>3, Zenon DEF Recv, Spurious, pool, kernel
    <3> QED
      BY <1>7, <3>1, <3>2, <3>3, Zenon
  <2>2. wpc \in [Workers -> WorkerPcs]
    BY Zenon DEF IInv, TypeOK
  <2>3. \A v \in Workers : Serving(v)' <=> Serving(v)
    <3>1. CASE Lock(w) \/ Test(w) \/ Block(w)
      BY <2>2, <3>1, Zenon DEF Lock, Test, Block, WorkerGoto, Serving
    <3>2. CASE CountUp(w) \/ CountDown(w)
      BY <2>2, <3>2 DEF CountUp, CountDown, WorkerGoto, Serving
    <3>3. CASE Recv(w) \/ Spurious(w)
      BY <3>3, Zenon DEF Recv, Spurious, Serving, pool
    <3> QED
      BY <1>7, <3>1, <3>2, <3>3, Zenon
  <2> QED
    BY <1>5, <2>1, <2>3
<1> QED
  BY <1>2, <1>3, <1>4, <1>6, <1>7, Zenon
-----------------------------------------------------------------------------
(* The steps as steps of ConnLifecycle *)

\* A connection that changes its phase takes a step of ConnLifecycle.
LEMMA LifecycleMove ==
  ASSUME Alive, Alive', NEW c \in Conns, PhaseOf(c)' # PhaseOf(c),
         phaseOfConns' = [phaseOfConns EXCEPT ![c] = PhaseOf(c)']
  PROVE  Lifecycle!Move(c, PhaseOf(c), PhaseOf(c)') /\ phaseOfConns'[c] # phaseOfConns[c]
<1>1. phaseOfConns'[c] = PhaseOf(c)' /\ phaseOfConns[c] = PhaseOf(c)
  BY Zenon DEF phaseOfConns
<1>2. Alive' = Alive
  BY Zenon DEF Alive
<1> QED
  BY <1>1, <1>2 DEF Lifecycle!Move, phaseOfConns

\* While the queue and the workers keep their descriptors, ready and server stay.
LEMMA UnservedSame ==
  ASSUME Alive, Alive', UNCHANGED <<sockDescServiceList, sockFd, wpc>>,
         \A fd \in Queued \cup Served : fdConn'[fd] = fdConn[fd]
  PROVE  readyConns' = readyConns /\ serverOf' = serverOf
<1>1. \A w \in Workers : Serving(w)' <=> Serving(w)
  BY Zenon DEF Serving
<1>2. \A w \in Workers : Serving(w) => sockFd[w] \in Served
  BY DEF Served
<1>3. readyConns' = readyConns
  BY SameReady, Zenon
<1>4. serverOf' = serverOf
  BY <1>1, <1>2, SameServer
<1> QED
  BY <1>3, <1>4, Zenon

\* connect: the connection waits in the backlog.
LEMMA ConnectStep ==
  ASSUME RInv, RInv', Next, Alive', NEW c \in Conns, Connect(c)
  PROVE  Lifecycle!Next
<1>0. /\ Alive /\ TypeOK /\ OneOwner /\ PhasesFit /\ PhasesFit'
      /\ backlog \in Seq(Conns) /\ \A g \in Open : fdConn[g] \in Conns
      /\ Open = Admitting \cup Registered \cup Queued \cup Served
  BY Zenon DEF Next, RInv, IInv, TypeOK, OneOwner
<1>1. /\ UNCHANGED <<selecting, mpc, queue, pool, fdConn>>
      /\ client[c] = "away" /\ backlog' = Append(backlog, c)
  BY Zenon DEF Connect
<1>2. /\ UNCHANGED <<sockDescServiceList, sockFd, wpc, fdConn>>
      /\ Admitting' = Admitting /\ Registered' = Registered
  BY <1>1, Zenon DEF selecting, queue, pool, Admitting, Registered
<1>3. Queued' = Queued /\ Served' = Served
  BY <1>2, Zenon DEF Queued, Served, Serving
<1>4. Range(backlog)' = Range(backlog) \cup {c}
  BY <1>0, <1>1, AppendFacts, ZenonT(30)
<1>5. /\ Pending' = Pending \cup {c} /\ Watched' = Watched
      /\ Waiting' = Waiting /\ InService' = InService
  BY <1>2, <1>3, <1>4, Zenon DEF Pending, Watched, Waiting, InService, ConnsOf
<1>6. phaseOfConns' = [phaseOfConns EXCEPT ![c] = PhaseOf(c)']
  BY <1>0, <1>5, Moved, Zenon
<1>7. PhaseOf(c)' = "pending"
  BY <1>0, <1>5, Zenon DEF PhasesFit, Where
<1>8. PhaseOf(c) = "away"
  <2>1. c \notin Range(backlog) \cup ConnsOf(Open)
    BY <1>0, <1>1, Zenon DEF RInv, ConnectionsApart
  <2> QED
    BY <1>0, <2>1, Zenon DEF PhasesFit
<1>9. Lifecycle!Move(c, "away", "pending") /\ phaseOfConns'[c] # phaseOfConns[c]
  <2>1. PhaseOf(c)' # PhaseOf(c)
    BY <1>7, <1>8
  <2>2. Lifecycle!Move(c, PhaseOf(c), PhaseOf(c)') /\ phaseOfConns'[c] # phaseOfConns[c]
    BY <1>0, <1>6, <2>1, LifecycleMove, Zenon
  <2> QED
    BY <1>7, <1>8, <2>2, Zenon
<1>10. readyConns' = readyConns /\ serverOf' = serverOf
  BY <1>0, <1>2, UnservedSame
<1>11. Lifecycle!Arrive(c)
  BY <1>9, <1>10, Zenon DEF Lifecycle!Arrive, readyConns, serverOf
<1> QED
  BY <1>9, <1>11, Zenon DEF Lifecycle!Next, phaseOfConns

\* accept (line 363) changes no phase: the connection is pending until it is
\* registered or closed.
LEMMA AcceptStep ==
  ASSUME RInv, RInv', Next, Alive', NEW fd \in Fds, Accept(fd)
  PROVE  UNCHANGED <<phaseOfConns, readyConns, serverOf>>
<1>0. /\ Alive /\ TypeOK /\ OneOwner /\ PhasesFit /\ PhasesFit'
      /\ backlog \in Seq(Conns) /\ \A g \in Open : fdConn[g] \in Conns
      /\ Open = Admitting \cup Registered \cup Queued \cup Served
  BY Zenon DEF Next, RInv, IInv, TypeOK, OneOwner
<1>1. /\ UNCHANGED <<master_set, queue, pool>> /\ mpc = "accept" /\ mpc' = "admit" /\ new_sd' = fd
      /\ backlog # <<>> /\ backlog' = Tail(backlog) /\ fd \notin Open
      /\ fdConn'[fd] = Head(backlog) /\ \A g \in Open : fdConn'[g] = fdConn[g]
  BY DEF Accept, Open
<1>2. /\ UNCHANGED <<sockDescServiceList, sockFd, wpc>>
      /\ Admitting = {} /\ Admitting' = {fd} /\ Registered' = Registered
  BY <1>1 DEF queue, pool, Admitting, Registered
<1>3. Queued' = Queued /\ Served' = Served
  BY <1>2, Zenon DEF Queued, Served, Serving
<1>4. Range(backlog) = Range(backlog)' \cup {fdConn'[fd]} /\ fdConn'[fd] \in Conns
  <2>1. Range(backlog) = Range(Tail(backlog)) \cup {Head(backlog)} /\ Head(backlog) \in Conns
    BY <1>0, <1>1, TailFacts, Zenon
  <2> QED
    BY <1>1, <2>1, Zenon
<1>5. Pending' = Pending
  BY <1>2, <1>4, Zenon DEF Pending, ConnsOf
<1>6. Watched' = Watched /\ Waiting' = Waiting /\ InService' = InService
  <2>1. \A g \in Registered \cup Queued \cup Served : fdConn'[g] = fdConn[g]
    BY <1>0, <1>1
  <2> QED
    BY <1>2, <1>3, <2>1, Zenon DEF Watched, Waiting, InService, ConnsOf
<1>7. ASSUME NEW c \in Conns PROVE PhaseOf(c)' = PhaseOf(c)
  <2>1. Where(c)' = Where(c)
    BY <1>5, <1>6 DEF Where
  <2> QED
    BY <1>0, <2>1, Zenon DEF PhasesFit
<1>8. phaseOfConns' = phaseOfConns
  BY <1>7, Zenon DEF phaseOfConns
<1> QED
  BY <1>0, <1>1, <1>2, <1>8, UnservedSame

\* The test of line 374 decides about the accepted connection only.
LEMMA AdmittedMoves ==
  ASSUME RInv, RInv', Next, Alive', NEW c, c = fdConn[new_sd], NEW fd, fd = new_sd,
         mpc = "admit", mpc' = "accept",
         UNCHANGED <<backlog, sockDescServiceList, sockFd, wpc>>,
         Open' \subseteq Open, Open \ {fd} \subseteq Open', \A g \in Open' : fdConn'[g] = fdConn[g],
         Registered' \ {fd} = Registered
  PROVE  /\ c \in Conns /\ fd \in Open /\ PhaseOf(c) = "pending"
         /\ phaseOfConns' = [phaseOfConns EXCEPT ![c] = PhaseOf(c)']
         /\ UNCHANGED <<readyConns, serverOf>>
<1>0. /\ Alive /\ TypeOK /\ OneOwner /\ PhasesFit /\ PhasesFit'
      /\ backlog \in Seq(Conns) /\ \A g \in Open : fdConn[g] \in Conns
      /\ Open = Admitting \cup Registered \cup Queued \cup Served
  BY Zenon DEF Next, RInv, IInv, TypeOK, OneOwner
<1>1. Admitting = {fd} /\ Admitting' = {} /\ fd \in Open
  BY <1>0, Zenon DEF Admitting
<1>2. fd \notin Registered \cup Queued \cup Served
  BY <1>0, <1>1, Zenon DEF OneOwner
<1>3. Queued' = Queued /\ Served' = Served
  BY Zenon DEF Queued, Served, Serving
<1>4. c \in Conns /\ phaseOfConns' = [phaseOfConns EXCEPT ![c] = PhaseOf(c)']
  <2>1. Admitting' \ {fd} = Admitting \ {fd} /\ Registered' \ {fd} = Registered \ {fd}
    BY <1>1, <1>2, Zenon
  <2> QED
    BY <1>0, <1>1, <1>3, <2>1, MovedFd, Zenon
<1>5. PhaseOf(c) = "pending"
  BY <1>0, <1>1, Zenon DEF PhasesFit
<1>6. \A g \in Queued \cup Served : fdConn'[g] = fdConn[g]
  BY <1>0, <1>2, Zenon
<1>7. UNCHANGED <<readyConns, serverOf>>
  BY <1>0, <1>6, UnservedSame, Zenon
<1> QED
  BY <1>1, <1>4, <1>5, <1>7, Zenon

\* FD_SET (line 386): the connection is admitted.
LEMMA RegisterStep ==
  ASSUME RInv, RInv', Next, Alive', Register
  PROVE  Lifecycle!Next
<1>0. /\ Alive /\ TypeOK /\ OneOwner /\ PhasesFit /\ PhasesFit'
      /\ backlog \in Seq(Conns) /\ \A g \in Open : fdConn[g] \in Conns
      /\ Open = Admitting \cup Registered \cup Queued \cup Served
  BY Zenon DEF Next, RInv, IInv, TypeOK, OneOwner
<1>1. PICK fd : fd = new_sd
  OBVIOUS
<1>2. PICK c : c = fdConn[new_sd]
  OBVIOUS
<1>3. /\ mpc = "admit" /\ mpc' = "accept" /\ UNCHANGED <<queue, pool, kernel>>
      /\ master_set' = master_set \cup {fd}
  BY <1>1, Zenon DEF Register
<1>4. UNCHANGED <<fdConn, backlog, sockDescServiceList, sockFd, wpc>> /\ Open' = Open
  BY <1>3, Zenon DEF queue, pool, kernel, Open
<1>5. fd \in Admitting /\ fd \in Open /\ fd # listen_sd /\ fd \notin Registered
  BY <1>0, <1>1, <1>3, DescriptorsAssumption, Zenon DEF Admitting, OneOwner, TypeOK
<1>6. Registered' = Registered \cup {fd}
  BY <1>3, <1>5, Zenon DEF Registered
<1>7. /\ c \in Conns /\ PhaseOf(c) = "pending"
      /\ phaseOfConns' = [phaseOfConns EXCEPT ![c] = PhaseOf(c)']
      /\ UNCHANGED <<readyConns, serverOf>>
  BY <1>1, <1>2, <1>3, <1>4, <1>5, <1>6, AdmittedMoves, ZenonT(30)
<1>8. PhaseOf(c)' = "open"
  <2>1. \A d \in Conns, g \in Registered' : fdConn'[g] = d => PhaseOf(d)' = "open"
    BY <1>0, Zenon DEF PhasesFit
  <2>2. fdConn'[fd] = c /\ fd \in Registered'
    BY <1>1, <1>2, <1>4, <1>6
  <2> QED
    BY <1>7, <2>1, <2>2, Zenon
<1>9. Lifecycle!Move(c, "pending", "open") /\ phaseOfConns'[c] # phaseOfConns[c]
  <2>1. PhaseOf(c)' # PhaseOf(c)
    BY <1>7, <1>8
  <2>2. Lifecycle!Move(c, PhaseOf(c), PhaseOf(c)') /\ phaseOfConns'[c] # phaseOfConns[c]
    BY <1>0, <1>7, <2>1, LifecycleMove, Zenon
  <2> QED
    BY <1>7, <1>8, <2>2, Zenon
<1>10. Lifecycle!Admit(c)
  BY <1>7, <1>9, Zenon DEF Lifecycle!Admit, readyConns, serverOf
<1> QED
  BY <1>7, <1>9, <1>10, Zenon DEF Lifecycle!Next, phaseOfConns

\* The close of line 377: the connection is refused.
LEMMA RejectStep ==
  ASSUME RInv, RInv', Next, Alive', Reject
  PROVE  Lifecycle!Next
<1>0. /\ Alive /\ TypeOK /\ OneOwner /\ PhasesFit /\ PhasesFit'
      /\ backlog \in Seq(Conns) /\ \A g \in Open : fdConn[g] \in Conns
      /\ Open = Admitting \cup Registered \cup Queued \cup Served
  BY Zenon DEF Next, RInv, IInv, TypeOK, OneOwner
<1>1. PICK fd : fd = new_sd
  OBVIOUS
<1>2. PICK c : c = fdConn[new_sd]
  OBVIOUS
<1>3. /\ mpc = "admit" /\ mpc' = "accept" /\ UNCHANGED <<selecting, queue, pool, backlog>>
      /\ Close(fd)
  BY <1>1, Zenon DEF Reject
<1>4. UNCHANGED <<master_set, sockDescServiceList, sockFd, wpc>>
  BY <1>3, Zenon DEF selecting, queue, pool
<1>5. fd \in Admitting /\ fd \in Open /\ fd \notin Registered
  BY <1>0, <1>1, <1>3, Zenon DEF Admitting, OneOwner
<1>6. Open' = Open \ {fd} /\ \A g \in Open' : fdConn'[g] = fdConn[g]
  BY <1>0, <1>3, <1>5, CloseFacts, Zenon
<1>7. /\ c \in Conns /\ PhaseOf(c) = "pending"
      /\ phaseOfConns' = [phaseOfConns EXCEPT ![c] = PhaseOf(c)']
      /\ UNCHANGED <<readyConns, serverOf>>
  <2>1. Registered' \ {fd} = Registered
    BY <1>4, <1>5, Zenon DEF Registered
  <2> QED
    BY <1>1, <1>2, <1>3, <1>4, <1>6, <2>1, AdmittedMoves, Zenon
<1>8. PhaseOf(c)' = "away"
  BY <1>0, <1>1, <1>2, <1>3, <1>5, <1>6, ClosedIsAway
<1>9. Lifecycle!Move(c, "pending", "away") /\ phaseOfConns'[c] # phaseOfConns[c]
  <2>1. PhaseOf(c)' # PhaseOf(c)
    BY <1>7, <1>8
  <2>2. Lifecycle!Move(c, PhaseOf(c), PhaseOf(c)') /\ phaseOfConns'[c] # phaseOfConns[c]
    BY <1>0, <1>7, <2>1, LifecycleMove, Zenon
  <2> QED
    BY <1>7, <1>8, <2>2, Zenon
<1>10. Lifecycle!Refuse(c)
  BY <1>7, <1>9, Zenon DEF Lifecycle!Refuse, readyConns, serverOf
<1> QED
  BY <1>7, <1>9, <1>10, Zenon DEF Lifecycle!Next, phaseOfConns

\* push_back with FD_CLR (lines 404-409): the connection waits for a worker.
LEMMA DispatchStep ==
  ASSUME RInv, RInv', Next, NEW fd \in Fds, Dispatch(fd)
  PROVE  Lifecycle!Next
<1>0. /\ Alive /\ TypeOK /\ OneOwner /\ PhasesFit /\ sockDescServiceList \in Seq(Fds)
      /\ Open = Admitting \cup Registered \cup Queued \cup Served
      /\ \A g \in Open : fdConn[g] \in Conns
  BY Zenon DEF Next, RInv, IInv, TypeOK, OneOwner
<1>1. /\ mpc = "scan" /\ mpc' \in {"lower", "notify"} /\ master_set' = master_set \ {fd}
      /\ sockDescServiceList' = Append(sockDescServiceList, fd) /\ UNCHANGED <<pool, kernel>>
  BY DEF Dispatch, Reaches
<1>2. Alive' /\ PhasesFit'
  BY <1>1 DEF Alive, RInv
<1>3. UNCHANGED <<fdConn, backlog, sockFd, wpc>> /\ Open' = Open
  BY <1>1 DEF pool, kernel, Open
<1>4. fd \in Registered /\ fd \in Open
  BY <1>0, DescriptorsAssumption DEF Dispatch, Reaches, Registered, RInv, IInv, AheadIsRegistered
<1>5. /\ Registered' = Registered \ {fd} /\ Queued' = Queued \cup {fd} /\ Served' = Served
      /\ Admitting = {} /\ Admitting' = {}
  <2>1. Queued' = Queued \cup {fd}
    BY <1>0, <1>1, AppendFacts DEF Queued
  <2> QED
    BY <1>1, <1>3, <2>1 DEF Registered, Served, Serving, Admitting
<1>6. PICK c : c = fdConn[fd]
  OBVIOUS
<1>7. c \in Conns /\ phaseOfConns' = [phaseOfConns EXCEPT ![c] = PhaseOf(c)']
  BY <1>0, <1>2, <1>3, <1>4, <1>5, <1>6, MovedFd
<1>8. PhaseOf(c) = "open"
  BY <1>0, <1>4, <1>6, <1>7, Zenon DEF PhasesFit
<1>9. PhaseOf(c)' = "ready"
  <2>1. \A d \in Conns, g \in Queued' : fdConn'[g] = d => PhaseOf(d)' = "ready"
    BY <1>2, Zenon DEF PhasesFit
  <2>2. fdConn'[fd] = c /\ fd \in Queued'
    BY <1>3, <1>5, <1>6
  <2> QED
    BY <1>7, <2>1, <2>2, Zenon
<1>10. Lifecycle!Move(c, "open", "ready") /\ phaseOfConns'[c] # phaseOfConns[c]
  <2>1. PhaseOf(c)' # PhaseOf(c)
    BY <1>8, <1>9
  <2>2. Lifecycle!Move(c, PhaseOf(c), PhaseOf(c)') /\ phaseOfConns'[c] # phaseOfConns[c]
    BY <1>0, <1>2, <1>7, <2>1, LifecycleMove, Zenon
  <2> QED
    BY <1>8, <1>9, <2>2, Zenon
<1>11. readyConns' = Append(readyConns, c)
  BY <1>0, <1>1, <1>2, <1>3, <1>6, ReadyAppend, Zenon
<1>12. serverOf' = serverOf
  BY <1>0, <1>2, <1>3, SameServer DEF Serving
<1>13. Lifecycle!BecomeReady(c)
  BY <1>10, <1>11, <1>12, Zenon DEF Lifecycle!BecomeReady, readyConns, serverOf
<1> QED
  BY <1>7, <1>10, <1>13, Zenon DEF Lifecycle!Next, phaseOfConns

\* A worker takes the first descriptor of the queue (lines 180-183): the connection
\* that became readable first is served, by a worker that serves no other.
LEMMA TakeStep ==
  ASSUME RInv, RInv', Next, NEW w \in Workers, Take(w)
  PROVE  Lifecycle!Next
<1> DEFINE h == Head(sockDescServiceList)
<1>0. /\ Alive /\ TypeOK /\ OneOwner /\ PhasesFit /\ sockDescServiceList \in Seq(Fds)
      /\ Open = Admitting \cup Registered \cup Queued \cup Served
      /\ wpc \in [Workers -> WorkerPcs] /\ sockFd \in [Workers -> Fds \cup {listen_sd}]
  BY Zenon DEF Next, RInv, IInv, TypeOK, OneOwner
<1>1. sockDescServiceList # <<>> /\ wpc[w] = "take"
  BY DEF Take, RInv, IInv, ElementThere
<1>2. /\ UNCHANGED <<selecting, mpc, kernel>>
      /\ sockDescServiceList' = Tail(sockDescServiceList)
      /\ sockFd' = [sockFd EXCEPT ![w] = h] /\ wpc' = [wpc EXCEPT ![w] = "count"]
  BY <1>1, SMTT(30) DEF Take, WorkerGoto
<1>3. /\ UNCHANGED <<fdConn, backlog>> /\ Open' = Open /\ Admitting' = Admitting
      /\ Registered' = Registered
  BY <1>2 DEF kernel, selecting, Open, Admitting, Registered
<1>4. Alive' /\ PhasesFit'
  BY <1>0, <1>2 DEF Alive, RInv
<1>5. PICK fd : fd = h
  BY Zenon
<1>6. fd \in Queued /\ Queued' \ {fd} = Queued \ {fd} /\ fd \in Open
  BY <1>0, <1>1, <1>2, <1>5, TailFacts DEF Queued
<1>7. /\ ~Serving(w) /\ Serving(w)' /\ sockFd'[w] = fd
      /\ \A v \in Workers \ {w} : (Serving(v)' <=> Serving(v)) /\ sockFd'[v] = sockFd[v]
  BY <1>0, <1>1, <1>2, <1>5, Zenon DEF Serving
<1>8. Served' = Served \cup {fd}
  BY <1>7 DEF Served
<1>9. PICK c : c = fdConn[fd]
  BY Zenon
<1>10. c \in Conns /\ phaseOfConns' = [phaseOfConns EXCEPT ![c] = PhaseOf(c)']
  <2>1. Served' \ {fd} = Served \ {fd}
    BY <1>8
  <2> QED
    BY <1>0, <1>3, <1>4, <1>6, <1>9, <2>1, MovedFd, ZenonT(30)
<1>11. PhaseOf(c) = "ready"
  BY <1>0, <1>6, <1>9, <1>10, Zenon DEF PhasesFit
<1>12. PhaseOf(c)' = "served"
  <2>1. \A d \in Conns, g \in Served' : fdConn'[g] = d => PhaseOf(d)' = "served"
    BY <1>4, Zenon DEF PhasesFit
  <2>2. fdConn'[fd] = c /\ fd \in Served'
    BY <1>3, <1>8, <1>9
  <2> QED
    BY <1>10, <2>1, <2>2, Zenon
<1>13. Lifecycle!Move(c, "ready", "served") /\ phaseOfConns'[c] # phaseOfConns[c]
  <2>1. PhaseOf(c)' # PhaseOf(c)
    BY <1>11, <1>12
  <2>2. Lifecycle!Move(c, PhaseOf(c), PhaseOf(c)') /\ phaseOfConns'[c] # phaseOfConns[c]
    BY <1>0, <1>4, <1>10, <2>1, LifecycleMove, Zenon
  <2> QED
    BY <1>11, <1>12, <2>2, Zenon
<1>14. readyConns # <<>> /\ Head(readyConns) = c /\ readyConns' = Tail(readyConns)
  BY <1>0, <1>1, <1>2, <1>3, <1>4, <1>5, <1>9, ReadyTail, ZenonT(30)
<1>15. serverOf[w] = {}
  BY <1>7 DEF serverOf
<1>16. serverOf' = [serverOf EXCEPT ![w] = {c}]
  BY <1>0, <1>3, <1>4, <1>7, <1>9, Zenon DEF serverOf
<1>17. Lifecycle!Assign(c, w)
  BY <1>13, <1>14, <1>15, <1>16, Zenon DEF Lifecycle!Assign, readyConns, serverOf
<1> QED
  BY <1>10, <1>13, <1>17, Zenon DEF Lifecycle!Next, phaseOfConns

\* The worker closes the connection it serves (line 155), and is free for the next.
LEMMA FinishStep ==
  ASSUME RInv, RInv', Next, NEW w \in Workers, Finish(w)
  PROVE  Lifecycle!Next
<1>0. /\ Alive /\ TypeOK /\ OneOwner /\ PhasesFit
      /\ Open = Admitting \cup Registered \cup Queued \cup Served
      /\ wpc \in [Workers -> WorkerPcs]
  BY Zenon DEF Next, RInv, IInv, TypeOK, OneOwner
<1>1. PICK fd : fd = sockFd[w]
  OBVIOUS
<1>2. /\ UNCHANGED <<selecting, mpc, queue, sockFd, backlog>> /\ Close(fd)
      /\ wpc[w] = "serve" /\ wpc' = [wpc EXCEPT ![w] = "uncount"]
  BY <1>1, Zenon DEF Finish, WorkerGoto
<1>3. Alive' /\ PhasesFit'
  BY <1>0, <1>2, Zenon DEF Alive, RInv
<1>4. Serving(w) /\ fd \in Served /\ fd \in Open
  BY <1>0, <1>1, <1>2, Zenon DEF Serving, Served
<1>5. Open' = Open \ {fd} /\ \A g \in Open' : fdConn'[g] = fdConn[g]
  BY <1>0, <1>2, <1>4, CloseFacts, Zenon
<1>6. /\ ~Serving(w)' /\ \A v \in Workers \ {w} : Serving(v)' <=> Serving(v)
      /\ \A v \in Workers \ {w} : Serving(v) => sockFd[v] \in Open'
  <2>1. ~Serving(w)' /\ \A v \in Workers \ {w} : Serving(v)' <=> Serving(v)
    BY <1>0, <1>2, Zenon DEF Serving
  <2>2. \A v \in Workers \ {w} : Serving(v) => sockFd[v] # fd /\ sockFd[v] \in Served
    BY <1>0, <1>1, <1>4, Zenon DEF OneOwner, Served
  <2> QED
    BY <1>0, <1>5, <2>1, <2>2, Zenon
<1>7. UNCHANGED <<sockDescServiceList, sockFd, backlog>> /\ Admitting' = Admitting
      /\ Registered' = Registered /\ Queued' = Queued
  <2>1. UNCHANGED <<mpc, master_set, new_sd, sockDescServiceList, sockFd, backlog>>
    BY <1>2, Zenon DEF selecting, queue
  <2> QED
    BY <2>1, Zenon DEF Admitting, Registered, Queued
<1>8. Served' \ {fd} = Served \ {fd}
  BY <1>1, <1>6, <1>7, Zenon DEF Served
<1>9. PICK c : c = fdConn[fd]
  OBVIOUS
<1>10. c \in Conns /\ phaseOfConns' = [phaseOfConns EXCEPT ![c] = PhaseOf(c)']
  BY <1>0, <1>3, <1>4, <1>5, <1>7, <1>8, <1>9, MovedFd
<1>11. PhaseOf(c) = "served"
  BY <1>0, <1>4, <1>9, <1>10, Zenon DEF PhasesFit
<1>12. PhaseOf(c)' = "away"
  BY <1>0, <1>3, <1>4, <1>5, <1>7, <1>9, ClosedIsAway, ZenonT(30)
<1>13. Lifecycle!Move(c, "served", "away") /\ phaseOfConns'[c] # phaseOfConns[c]
  <2>1. PhaseOf(c)' # PhaseOf(c)
    BY <1>11, <1>12
  <2>2. Lifecycle!Move(c, PhaseOf(c), PhaseOf(c)') /\ phaseOfConns'[c] # phaseOfConns[c]
    BY <1>0, <1>3, <1>10, <2>1, LifecycleMove, Zenon
  <2> QED
    BY <1>11, <1>12, <2>2, Zenon
<1>14. readyConns' = readyConns
  <2>1. \A g \in Queued : fdConn'[g] = fdConn[g]
    BY <1>0, <1>4, <1>5, Zenon DEF OneOwner
  <2> QED
    BY <1>0, <1>3, <1>7, <2>1, SameReady, ZenonT(30)
<1>15. serverOf[w] = {c}
  BY <1>0, <1>1, <1>4, <1>9 DEF serverOf
<1>16. serverOf' = [serverOf EXCEPT ![w] = {}]
  BY <1>0, <1>3, <1>5, <1>6, <1>7, Zenon DEF serverOf
<1>17. Lifecycle!End(c, w)
  BY <1>13, <1>14, <1>15, <1>16, Zenon DEF Lifecycle!End, readyConns, serverOf
<1> QED
  BY <1>10, <1>13, <1>17, Zenon DEF Lifecycle!Next, phaseOfConns

\* When socketMain returns, every connection ends (lines 425-434).
LEMMA CleanupStep ==
  ASSUME Alive, Cleanup
  PROVE  Lifecycle!Shutdown
<1>1. Alive' = FALSE /\ fdConn' = Restrict(fdConn, {}) /\ backlog' = <<>>
  BY DEF Cleanup, Alive
<1>2. Open' = {} /\ Range(backlog)' = {}
  BY <1>1 DEF Open, Restrict, Range
<1>3. \A c \in Conns : PhaseOf(c)' = "away"
  BY <1>2 DEF PhaseOf
<1>4. phaseOfConns' = [c \in Conns |-> "away"]
  BY <1>3, Zenon DEF phaseOfConns
<1>5. readyConns' = <<>> /\ serverOf' = [w \in Workers |-> {}]
  BY <1>1 DEF readyConns, serverOf
<1> QED
  BY <1>1, <1>4, <1>5, Zenon DEF Lifecycle!Shutdown, phaseOfConns, readyConns, serverOf

\* Every step of the server is a step of the life cycle, or changes nothing in it.
LEMMA Simulation ==
  ASSUME RInv, RInv', [Next]_vars
  PROVE  [Lifecycle!Next]_(Lifecycle!vars)
<1>1. ASSUME Alive' <=> Alive, UNCHANGED <<phaseOfConns, readyConns, serverOf>>
      PROVE  UNCHANGED Lifecycle!vars
  <2>1. Alive' = Alive
    BY <1>1 DEF Alive
  <2> QED
    BY <1>1, <2>1, Zenon DEF Lifecycle!vars, phaseOfConns, readyConns, serverOf
<1>2. CASE UNCHANGED vars
  <2>1. UNCHANGED <<selecting, mpc, queue, pool, kernel>>
    BY <1>2, SMTT(30) DEF vars
  <2>2. UNCHANGED <<mpc, master_set, new_sd, sockDescServiceList, wpc, sockFd, fdConn, backlog>>
    BY <2>1 DEF selecting, queue, pool, kernel
  <2>3. \A c \in Conns : PhaseOf(c)' = PhaseOf(c)
    BY <2>2, ZenonT(30) DEF PhaseOf, Open, Admitting, Registered, Queued, Served, Serving
  <2>4. UNCHANGED <<phaseOfConns, readyConns, serverOf>>
    BY <2>2, <2>3 DEF phaseOfConns, readyConns, serverOf, Alive, Serving
  <2>5. Alive' <=> Alive
    BY <2>2 DEF Alive
  <2> QED
    BY <1>1, <2>4, <2>5
<1>3. CASE Next
  <2>1. Alive /\ IInv
    BY <1>3 DEF Next, RInv
  <2>2. CASE Cleanup
    BY <2>1, <2>2, CleanupStep, Zenon DEF Lifecycle!Next
  <2>3. CASE ~Cleanup
    <3>1. Alive'
      BY <1>3, <2>1, <2>3, StaysAlive
    <3>2. CASE (\E c \in Conns : Connect(c)) \/ Reject \/ Register
      BY <1>3, <3>1, <3>2, ConnectStep, RejectStep, RegisterStep, Zenon
    <3>6. CASE \E fd \in Fds : Accept(fd)
      <4>1. UNCHANGED <<phaseOfConns, readyConns, serverOf>>
        BY <1>3, <3>1, <3>6, AcceptStep, Zenon
      <4> QED
        BY <1>1, <2>1, <3>1, <4>1
    <3>3. CASE \E fd \in Fds : Dispatch(fd)
      BY <1>3, <3>3, DispatchStep
    <3>4. CASE \E w \in Workers : Take(w) \/ Finish(w)
      BY <1>3, <3>4, TakeStep, FinishStep
    <3>5. CASE \/ Select \/ SelectFails \/ ScanListen \/ Lower \/ Notify \/ ScanDone
               \/ AcceptNone \/ AcceptFails
               \/ \E c \in Conns : Send(c) \/ Hangup(c)
               \/ \E w \in Workers : Lock(w) \/ Test(w) \/ Block(w) \/ CountUp(w) \/ Recv(w)
                                     \/ CountDown(w) \/ Spurious(w)
      BY <1>1, <2>1, <3>1, <3>5, QuietSteps
    <3> QED
      BY <1>3, <2>3, <3>2, <3>3, <3>4, <3>5, <3>6, ZenonT(30) DEF Next, Main, Worker
  <2> QED
    BY <2>2, <2>3
<1> QED
  BY <1>2, <1>3

\* The threads, the queue and the descriptor sets of ssock.cpp implement
\* ConnLifecycle: each connection goes through its phases in order, waits for its
\* turn, and is served by one worker, which serves no other.
THEOREM ImplementsLifecycle == Spec => LifecycleSpec
<1>1. Init => ConnectionsApart
  BY DEF Init, ConnectionsApart, ConnsOf, Open, Range
<1>2. IInv /\ ConnectionsApart /\ [Next]_vars => ConnectionsApart'
  <2>1. ASSUME ConnectionsApart, UNCHANGED vars PROVE ConnectionsApart'
    <3>1. UNCHANGED <<mpc, kernel>>
      BY <2>1, SMTT(30) DEF vars
    <3> QED
      BY <2>1, <3>1 DEF kernel, ConnectionsApart, ConnsOf, Open, Alive
  <2> QED
    BY <2>1, ApartStep, Zenon
<1>3. Init => Lifecycle!Init
  <2> SUFFICES ASSUME Init PROVE Lifecycle!Init
    OBVIOUS
  <2>1. Open = {} /\ Range(backlog) = {} /\ Alive
    BY DEF Init, Open, Range, Alive
  <2>2. \A c \in Conns : PhaseOf(c) = "away"
    BY <2>1 DEF PhaseOf
  <2>3. \A w \in Workers : ~Serving(w)
    BY DEF Init, Serving
  <2>4. [n \in DOMAIN sockDescServiceList |-> fdConn[sockDescServiceList[n]]] = <<>>
    BY DEF Init
  <2>5. Alive = TRUE
    BY DEF Init, Alive
  <2> QED
    BY <2>2, <2>3, <2>4, <2>5 DEF Lifecycle!Init
<1> QED
  BY <1>1, <1>2, <1>3, InitIInv, NextIInv, PhaseFacts, Simulation, PTL
     DEF Spec, LifecycleSpec, Lifecycle!Spec
==============================================================================
