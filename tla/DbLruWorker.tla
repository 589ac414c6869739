---------------------------- MODULE DbLruWorker ----------------------------
(***************************************************************************)
(* Flushes and cas tokens of DbLru when calls do not overlap: one worker,  *)
(* any number of keys, values, tables and calls.                           *)
(*                                                                         *)
(* With two workers the properties fail or depend on the order in which    *)
(* flush stamps are published.  With one, the invariant WInv says what a   *)
(* call may rely on between its steps: nothing is newer than the stamp,    *)
(* and no token as new as the token, that it has drawn.  Most steps are    *)
(* quiet for WInv; the others have a lemma each.                           *)
(***************************************************************************)
EXTENDS DbLruProofs
-----------------------------------------------------------------------------
(* With one worker: flushes and cas tokens *)

\* Calls do not overlap.
OneWorker == \A t, u \in Threads : t = u

\* dbDeleteElement is called with time 0 (src/src/scmd.cpp, lines 652-654).
DeletesAtOnce == \A c \in Calls : c.op = "delete" => c.expiry = 0

\* From the draw of a stamp, and of a token, to the region that uses it.
BeforePcs == {"draw", "drawn", "memory", "probe", "lockTimestamps", "lockValues", "scan",
              "emplace", "get"}
TokenPcs == {"memory", "probe", "lockTimestamps", "lockValues", "scan", "emplace"}

\* A token the generator has handed out, or a first draw.
Issued(c) == c \in Nat \X Nat /\ (c[2] = 0 \/ c[2] < generator.next)

\* An element of k with token c has value v.
Means(c, k, v) ==
  c[2] # 0 /\ k \in DOMAIN gKeyToValueHashMap /\ gKeyToValueHashMap[k].cas = c
    => gKeyToValueHashMap[k].value = v

FlushesInOrder ==
  /\ gFlushAllTimestamp <= gTimestamp
  /\ FlushHidesOlder
  /\ gFlushAllTime > now => gIsFlushAllSet

TokensIssued ==
  /\ \A k \in DOMAIN gKeyToValueHashMap : Issued(gKeyToValueHashMap[k].cas)
  /\ \A t \in Threads : \A s \in seen[t] :
       Issued(s.cas) /\ Means(s.cas, s.key, s.value) /\ \A r \in seen[t] : r = s

WrittenEarlier ==
  \A k \in DOMAIN gKeyToValueHashMap : gKeyToValueHashMap[k].writtenAt < gTimestamp

\* No flush has happened and nothing was written since the call drew its stamp.
StampFits(t) ==
  /\ pc[t] \in StampedPcs => gFlushAllTimestamp <= loc[t].timestamp
  /\ pc[t] \in BeforePcs =>
       \A k \in DOMAIN gKeyToValueHashMap : gKeyToValueHashMap[k].writtenAt < loc[t].timestamp

FlushFits(t) ==
  /\ pc[t] = "flushStore" => loc[t].timestamp = gTimestamp
  /\ pc[t] = "setFlush" => gIsFlushAllSet
  /\ pc[t] \in {"flushStamp", "flushStore", "flushClear"} => gFlushAllTime <= now

\* The token of a store is newer than all that are known.
TokenFits(t) ==
  /\ pc[t] = "drawn" => loc[t].cas[2] = generator.next
  /\ pc[t] \in TokenPcs =>
       /\ Issued(loc[t].cas)
       /\ loc[t].cas[2] # 0 =>
            /\ \A k \in DOMAIN gKeyToValueHashMap : gKeyToValueHashMap[k].cas[2] < loc[t].cas[2]
            /\ \A s \in seen[t] : s.cas[2] < loc[t].cas[2]

\* A delete works on its own parameters; a cas call compares with the token
\* its client has seen of that key.
ParamsFit(t) ==
  /\ pc[t] = "delete" => loc[t].call.op = "delete" /\ loc[t].expiry = loc[t].call.expiry
  /\ pc[t] \in {"stamp", "draw", "drawn"} \cup TokenPcs /\ loc[t].call.cas =>
       \E s \in seen[t] : s.key = loc[t].call.key /\ s.cas = loc[t].check

\* A get hands on the token together with its value.
HasRead(t) == pc[t] = "relink" \/ (pc[t] = "done" /\ loc[t].status = "SUCCESS")

GetFits(t) ==
  loc[t].call.op = "get" =>
    /\ pc[t] \in {"idle", "stamp", "get", "relink", "done"}
    /\ HasRead(t) => Issued(loc[t].cas) /\ Means(loc[t].cas, Key(t), loc[t].value)

CallFits(t) == StampFits(t) /\ FlushFits(t) /\ TokenFits(t) /\ ParamsFit(t) /\ GetFits(t)

WInv == FlushesInOrder /\ TokensIssued /\ WrittenEarlier /\ \A t \in Threads : CallFits(t)

\* What NoResurrection says of a step.
StaysDead ==
  \A k \in DOMAIN gKeyToValueHashMap \cap DOMAIN gKeyToValueHashMap' :
    LET e == gKeyToValueHashMap[k]
        f == gKeyToValueHashMap'[k]
    IN e.writtenAt = f.writtenAt /\ Dead(e, gFlushAllTimestamp, now)
         => Dead(f, gFlushAllTimestamp', now')

\* The map loses elements, or changes their expiry at most.  A quiet step does no more
\* to the map, leaves stamps, flushes, tokens and the clock alone, and keeps the
\* parameters of its call.
MapShrinks ==
  \A k \in DOMAIN gKeyToValueHashMap' :
    k \in DOMAIN gKeyToValueHashMap /\ gKeyToValueHashMap'[k] = gKeyToValueHashMap[k]

MapKeeps ==
  \A k \in DOMAIN gKeyToValueHashMap' :
    LET e == gKeyToValueHashMap[k]
        f == gKeyToValueHashMap'[k]
    IN /\ k \in DOMAIN gKeyToValueHashMap
       /\ f.cas = e.cas /\ f.value = e.value
       /\ f.timestamp = e.timestamp /\ f.writtenAt = e.writtenAt

SameCall(l, m) == /\ l.call = m.call /\ l.timestamp = m.timestamp /\ l.cas = m.cas
                  /\ l.value = m.value /\ l.check = m.check

Quiet(t) ==
  /\ MapKeeps
  /\ UNCHANGED <<gTimestamp, flushState, generator, env>>
  /\ SameCall(loc'[t], loc[t])
  /\ pc'[t] \in TokenPcs \cup {"grow", "erase", "resize", "link", "done"}
  /\ pc'[t] \in StampedPcs => pc[t] \in StampedPcs
  /\ pc'[t] \in TokenPcs => pc[t] \in TokenPcs
  /\ pc[t] \notin {"idle", "stamp", "done"}
  /\ pc[t] \in {"get", "relink"} => pc'[t] = "done"
  /\ pc[t] = "get" => loc'[t].status # "SUCCESS"

\* What is known of the map, the stamps and the flush when the map shrinks.
LEMMA ShrinkKeeps ==
  ASSUME IInv, IInv', WInv, MapKeeps, gTimestamp' >= gTimestamp,
         UNCHANGED gFlushAllTimestamp
  PROVE  FlushHidesOlder' /\ WrittenEarlier'
<1>1. FlushHidesOlder'
  BY DEF WInv, FlushesInOrder, FlushHidesOlder, MapKeeps
<1>2. ASSUME NEW k \in DOMAIN gKeyToValueHashMap'
      PROVE  gKeyToValueHashMap'[k].writtenAt < gTimestamp'
  <2>1. /\ k \in DOMAIN gKeyToValueHashMap
        /\ gKeyToValueHashMap'[k].writtenAt = gKeyToValueHashMap[k].writtenAt
        /\ gKeyToValueHashMap[k] \in Entry /\ gTimestamp \in Nat /\ gTimestamp' \in Nat
    BY DEF MapKeeps, IInv, TypeOK
  <2>2. gKeyToValueHashMap[k].writtenAt < gTimestamp /\ gKeyToValueHashMap[k].writtenAt \in Nat
    BY <2>1 DEF WInv, WrittenEarlier, Entry
  <2> QED
    BY <2>1, <2>2
<1> QED
  BY <1>1, <1>2 DEF WrittenEarlier

\* What is known of tokens when the map shrinks.
LEMMA ShrinkTokens ==
  ASSUME IInv, IInv', WInv, MapKeeps, generator.next' >= generator.next, UNCHANGED seen
  PROVE  TokensIssued'
<1>1. generator.next \in Nat /\ generator'.next \in Nat
  BY DEF IInv, TypeOK
<1>2. ASSUME NEW c, Issued(c) PROVE Issued(c)'
  <2>1. c \in Nat \X Nat /\ c[2] \in Nat
    BY <1>2 DEF Issued
  <2> QED
    BY <1>1, <1>2, <2>1 DEF Issued
<1>3. ASSUME NEW c, NEW k, NEW v, Means(c, k, v) PROVE Means(c, k, v)'
  BY <1>3 DEF Means, MapKeeps
<1>4. ASSUME NEW k \in DOMAIN gKeyToValueHashMap'
      PROVE  Issued(gKeyToValueHashMap[k].cas)' 
  BY <1>2, Zenon DEF MapKeeps, WInv, TokensIssued
<1> QED
  BY <1>2, <1>3, <1>4, Zenon DEF WInv, TokensIssued

\* With one worker, what fits the call that took the step fits all.
LEMMA Alone ==
  ASSUME OneWorker, NEW t \in Threads, FlushesInOrder', TokensIssued', WrittenEarlier', CallFits(t)'
  PROVE  WInv'
<1>1. \A u \in Threads : u = t
  BY DEF OneWorker
<1> QED
  BY <1>1, Zenon DEF WInv

\* A step that leaves the clock and the flush alone, and the map but for removals,
\* brings nothing back.
LEMMA ShrinkStaysDead ==
  ASSUME MapShrinks, UNCHANGED <<gFlushAllTimestamp, now>>
  PROVE  StaysDead
BY Zenon DEF MapShrinks, StaysDead, Dead

\* A quiet step preserves the invariant.
LEMMA QuietStep ==
  ASSUME OneWorker, IInv, IInv', WInv, NEW t \in Threads, Quiet(t)
  PROVE  WInv'
<1>1. /\ MapKeeps /\ gTimestamp' = gTimestamp /\ gFlushAllTimestamp' = gFlushAllTimestamp
      /\ gFlushAllTime' = gFlushAllTime /\ gIsFlushAllSet' = gIsFlushAllSet
      /\ generator' = generator /\ now' = now /\ seen' = seen /\ gTimestamp \in Nat
      /\ generator.next \in Nat
  BY DEF Quiet, flushState, env, IInv, TypeOK
<1>2. FlushesInOrder' /\ WrittenEarlier'
  BY <1>1, ShrinkKeeps DEF WInv, FlushesInOrder
<1>3. TokensIssued'
  BY <1>1, ShrinkTokens
<1>4. CallFits(t)
  BY DEF WInv
<1>5. StampFits(t)'
  <2>1. pc'[t] \in BeforePcs => pc[t] \in BeforePcs
    BY DEF Quiet, BeforePcs, TokenPcs
  <2> QED
    BY <1>1, <1>4, <2>1 DEF CallFits, StampFits, MapKeeps, Quiet, SameCall
<1>6. FlushFits(t)'
  BY DEF FlushFits, Quiet, TokenPcs
<1>7. TokenFits(t)'
  <2>1. pc'[t] # "drawn" /\ loc'[t].cas = loc[t].cas
    BY DEF Quiet, SameCall, TokenPcs
  <2>2. pc'[t] \in TokenPcs => pc[t] \in TokenPcs
    BY DEF Quiet
  <2> QED
    BY <1>1, <1>4, <2>1, <2>2, Zenon DEF CallFits, TokenFits, MapKeeps, Issued
<1>8. ParamsFit(t)'
  <2>1. /\ loc'[t].call = loc[t].call /\ loc'[t].check = loc[t].check
        /\ pc'[t] \notin {"stamp", "draw", "drawn", "delete"}
        /\ pc'[t] \in TokenPcs => pc[t] \in TokenPcs
    BY DEF Quiet, SameCall, TokenPcs
  <2> QED
    BY <1>1, <1>4, <2>1, Zenon DEF CallFits, ParamsFit
<1>9. GetFits(t)'
  <2> SUFFICES ASSUME loc'[t].call.op = "get"
               PROVE  /\ pc'[t] \in {"idle", "stamp", "get", "relink", "done"}
                      /\ HasRead(t)' => Issued(loc[t].cas)' /\ Means(loc[t].cas, Key(t), loc[t].value)'
    BY Zenon DEF GetFits
  <2>1. /\ loc[t].call.op = "get" /\ loc'[t].cas = loc[t].cas /\ loc'[t].value = loc[t].value
        /\ Key(t)' = Key(t)
    BY DEF Quiet, SameCall, Key
  <2>2. pc[t] \in {"get", "relink"}
    BY <1>4, <2>1 DEF CallFits, GetFits, Quiet
  <2>3. pc'[t] = "done"
    BY <2>2 DEF Quiet, TokenPcs
  <2>4. HasRead(t)' => pc[t] = "relink"
    BY <2>2, <2>3 DEF Quiet, HasRead
  <2>5. HasRead(t)' => Issued(loc[t].cas) /\ Means(loc[t].cas, Key(t), loc[t].value)
    BY <1>4, <2>1, <2>4, Zenon DEF CallFits, GetFits, HasRead
  <2> QED
    BY <1>1, <2>1, <2>3, <2>5, Zenon DEF Issued, Means, MapKeeps
<1> QED
  BY <1>1, <1>2, <1>3, <1>5, <1>6, <1>7, <1>8, <1>9, Alone, Zenon DEF CallFits

\* Scratch variables of the loops are not parameters of the call.
LEMMA ScratchFields ==
  ASSUME NEW m \in Local, NEW x
  PROVE  /\ SameCall(m, m)
         /\ SameCall([m EXCEPT !.table = x], m) /\ SameCall([m EXCEPT !.evictCur = x], m)
         /\ SameCall([m EXCEPT !.one = x], m) /\ SameCall([m EXCEPT !.status = x], m)
         /\ [m EXCEPT !.status = x].status = x
BY Zenon DEF Local, SameCall

\* Scratch variables that are set together.
LEMMA ScratchPairs ==
  ASSUME NEW m \in Local, NEW x, NEW y
  PROVE  /\ SameCall([m EXCEPT !.table = x, !.status = y], m)
         /\ SameCall([m EXCEPT !.table = x, !.evictCur = y], m)
         /\ SameCall([m EXCEPT !.one = x, !.evictCur = y], m)
BY Zenon DEF Local, SameCall

\* A move from label to label that keeps the parameters of the call.
LEMMA QuietMove ==
  ASSUME IInv, NEW t \in Threads, NEW p, NEW l, SameCall(l, loc[t]),
         pc' = [pc EXCEPT ![t] = p], loc' = [loc EXCEPT ![t] = l],
         MapKeeps, UNCHANGED <<gTimestamp, flushState, generator, env>>,
         \/ pc[t] \in TokenPcs /\ p \in TokenPcs
         \/ pc[t] \in LinkPcs \ {"relink"} /\ p \in {"resize", "link"}
         \/ pc[t] \notin {"idle", "stamp", "done"} /\ p = "done"
              /\ (pc[t] = "get" => l.status # "SUCCESS")
  PROVE  Quiet(t)
<1>1. pc'[t] = p /\ loc'[t] = l
  BY Types
<1>2. /\ p \in TokenPcs \cup {"grow", "erase", "resize", "link", "done"}
      /\ p \in StampedPcs => pc[t] \in StampedPcs
      /\ p \in TokenPcs => pc[t] \in TokenPcs
      /\ pc[t] \notin {"idle", "stamp", "done"}
      /\ pc[t] \in {"get", "relink"} => p = "done"
  BY DEF TokenPcs, StampedPcs, LinkPcs
<1>3. pc[t] = "get" => l.status # "SUCCESS"
  BY DEF TokenPcs, LinkPcs
<1> QED
  BY <1>1, <1>2, <1>3, Zenon DEF Quiet

\* An unchanged map, and one without a key, are what MapShrinks says.
LEMMA ShrinkCases ==
  ASSUME TypeOK, UNCHANGED gKeyToValueHashMap \/ \E k : gKeyToValueHashMap' = Without(k)
  PROVE  MapShrinks /\ MapKeeps
<1>1. MapShrinks
  BY WithoutType, Zenon DEF MapShrinks
<1> QED
  BY <1>1, Zenon DEF MapShrinks, MapKeeps

\* The loop that makes room, outside removeLRUElement, is quiet.
LEMMA RoomQuiet ==
  ASSUME IInv, NEW t \in Threads, CheckMemory(t) \/ ProbeEmpty(t) \/ ProbeNonEmpty(t)
  PROVE  Quiet(t) /\ MapShrinks
<1>1. /\ pc[t] \in {"memory", "probe"} /\ UNCHANGED <<gTimestamp, flushState, generator, env>>
      /\ UNCHANGED gKeyToValueHashMap /\ loc[t] \in Local /\ TypeOK
  BY DEF CheckMemory, ProbeEmpty, ProbeNonEmpty, store, IInv, TypeOK
<1>2. MapShrinks /\ MapKeeps
  BY <1>1, ShrinkCases, Zenon
<1>3. \E p \in TokenPcs \cup {"done"} : \E l :
        pc' = [pc EXCEPT ![t] = p] /\ loc' = [loc EXCEPT ![t] = l] /\ SameCall(l, loc[t])
  <2>1. CASE CheckMemory(t)
    <3>1. loc' = [loc EXCEPT ![t] = [loc[t] EXCEPT !.table = Table(t)]] \/ loc' = [loc EXCEPT ![t] = loc[t]]
      BY <2>1 DEF CheckMemory, Goto, GotoWith, IInv, TypeOK
    <3>2. \E p \in TokenPcs : pc' = [pc EXCEPT ![t] = p]
      BY <2>1, Zenon DEF CheckMemory, Goto, GotoWith, TokenPcs
    <3>3. SameCall([loc[t] EXCEPT !.table = Table(t)], loc[t]) /\ SameCall(loc[t], loc[t])
      BY <1>1, ScratchFields, Zenon
    <3> QED
      BY <3>1, <3>2, <3>3, Zenon
  <2>2. CASE ProbeEmpty(t)
    <3> DEFINE moved == [loc[t] EXCEPT !.table = NextTable(loc[t].table)]
               full == [loc[t] EXCEPT !.table = NextTable(loc[t].table), !.status = "MEMORY_FULL"]
               evict == [loc[t] EXCEPT !.table = NextTable(loc[t].table), !.evictCur = now]
    <3>1. SameCall(moved, loc[t]) /\ SameCall(full, loc[t]) /\ SameCall(evict, loc[t])
      BY <1>1, ScratchFields, ScratchPairs, Zenon
    <3>2. \/ pc' = [pc EXCEPT ![t] = "done"] /\ loc' = [loc EXCEPT ![t] = full]
          \/ pc' = [pc EXCEPT ![t] = "memory"] /\ loc' = [loc EXCEPT ![t] = moved]
          \/ pc' = [pc EXCEPT ![t] = "lockTimestamps"] /\ loc' = [loc EXCEPT ![t] = evict]
      BY <2>2 DEF ProbeEmpty, GotoWith
    <3> HIDE DEF moved, full, evict
    <3> QED
      BY <3>1, <3>2, Zenon DEF TokenPcs
  <2>3. CASE ProbeNonEmpty(t)
    BY <1>1, <2>3, ScratchFields, Zenon DEF ProbeNonEmpty, GotoWith, TokenPcs
  <2> QED
    BY <2>1, <2>2, <2>3
<1>4. pc[t] \in TokenPcs /\ pc[t] \notin {"idle", "stamp", "done", "get"}
  BY <1>1 DEF TokenPcs
<1> QED
  BY <1>1, <1>2, <1>3, <1>4, QuietMove, Zenon

\* Taking the mutexes, the loop of removeLRUElement and its evictions are quiet.
LEMMA EvictQuiet ==
  ASSUME IInv, NEW t \in Threads, LockTimestamps(t) \/ LockValues(t) \/ Scan(t) \/ BadAlloc(t)
  PROVE  Quiet(t) /\ MapShrinks
<1>1. /\ pc[t] \in {"lockTimestamps", "lockValues", "scan", "emplace"}
      /\ UNCHANGED <<gTimestamp, flushState, generator, env>> /\ loc[t] \in Local /\ TypeOK
  BY DEF LockTimestamps, LockValues, Scan, BadAlloc, IInv, TypeOK
<1>2. \E p \in TokenPcs \cup {"done"} : \E l :
        pc' = [pc EXCEPT ![t] = p] /\ loc' = [loc EXCEPT ![t] = l] /\ SameCall(l, loc[t])
  <2>1. CASE LockTimestamps(t)
    <3>1. loc' = [loc EXCEPT ![t] = loc[t]] /\ pc' = [pc EXCEPT ![t] = "lockValues"]
      BY <2>1 DEF LockTimestamps, Goto, IInv, TypeOK
    <3> QED
      BY <1>1, <3>1, ScratchFields, Zenon DEF TokenPcs
  <2>2. CASE LockValues(t)
    BY <1>1, <2>2, ScratchFields, Zenon DEF LockValues, GotoWith, TokenPcs
  <2>3. CASE BadAlloc(t)
    BY <1>1, <2>3, ScratchFields, Zenon DEF BadAlloc, ReturnStatus, GotoWith
  <2>4. CASE Scan(t)
    <3>1. \/ GotoWith(t, "memory", [loc[t] EXCEPT !.one = {}, !.evictCur = 0])
          \/ \E e : GotoWith(t, "scan", [loc[t] EXCEPT !.one = {e}])
      BY <2>4, Zenon DEF Scan, ScanElement, EvictOrphan, EvictExpired, EvictLarger, EvictEntry, EvictReturn,
                  KeepFirst, EvictNothing
    <3>2. SameCall([loc[t] EXCEPT !.one = {}, !.evictCur = 0], loc[t])
      BY <1>1, ScratchPairs, Zenon
    <3>3. \A e : SameCall([loc[t] EXCEPT !.one = {e}], loc[t])
      BY <1>1, ScratchFields, Zenon
    <3>4. "memory" \in TokenPcs /\ "scan" \in TokenPcs
      BY DEF TokenPcs
    <3> QED
      BY <3>1, <3>2, <3>3, <3>4, Zenon DEF GotoWith
  <2> QED
    BY <2>1, <2>2, <2>3, <2>4
<1>3. MapShrinks /\ MapKeeps
  <2>1. UNCHANGED gKeyToValueHashMap \/ \E k : gKeyToValueHashMap' = Without(k)
    BY Zenon DEF LockTimestamps, LockValues, BadAlloc, Scan, ScanElement, EvictOrphan, EvictExpired, EvictLarger,
           EvictEntry, KeepFirst, EvictNothing, store
  <2> QED
    BY <1>1, <2>1, ShrinkCases, Zenon
<1>4. pc[t] \in TokenPcs /\ pc[t] \notin {"idle", "stamp", "done", "get"}
  BY <1>1 DEF TokenPcs
<1> QED
  BY <1>1, <1>2, <1>3, <1>4, QuietMove, Zenon

\* The steps after the region on the map are quiet.
LEMMA LinkQuiet ==
  ASSUME IInv, NEW t \in Threads, Grow(t) \/ Resize(t) \/ Erase(t) \/ Link(t) \/ Relink(t)
  PROVE  Quiet(t) /\ MapShrinks
<1>1. /\ UNCHANGED <<gTimestamp, flushState, generator, env>>
      /\ UNCHANGED gKeyToValueHashMap /\ loc[t] \in Local /\ TypeOK
  BY DEF Grow, Resize, Erase, Link, Relink, SetTimestamps, store, IInv, TypeOK
<1>2. MapShrinks /\ MapKeeps
  BY <1>1, ShrinkCases, Zenon
<1>3. CASE Grow(t) \/ Resize(t) \/ Erase(t)
  <2>1. \E p \in {"resize", "link"} : pc' = [pc EXCEPT ![t] = p]
    BY <1>3, Zenon DEF Grow, Resize, Erase, Goto
  <2>2. loc' = [loc EXCEPT ![t] = loc[t]] /\ pc[t] \in LinkPcs \ {"relink"}
    BY <1>3 DEF Grow, Resize, Erase, Goto, IInv, TypeOK, LinkPcs
  <2> QED
    BY <1>1, <1>2, <2>1, <2>2, ScratchFields, QuietMove, Zenon
<1>4. CASE Link(t) \/ Relink(t)
  <2> DEFINE l == [loc[t] EXCEPT !.status = "SUCCESS"]
  <2>1. pc' = [pc EXCEPT ![t] = "done"] /\ loc' = [loc EXCEPT ![t] = l]
    BY <1>4, Zenon DEF Link, Relink, ReturnStatus, GotoWith
  <2>2. SameCall(l, loc[t])
    BY <1>1, ScratchFields, Zenon
  <2>3. pc[t] \notin {"idle", "stamp", "done", "get"}
    BY <1>4 DEF Link, Relink
  <2> HIDE DEF l
  <2> QED
    BY <1>1, <1>2, <2>1, <2>2, <2>3, QuietMove, Zenon
<1> QED
  BY <1>3, <1>4

\* A call on its way changes neither map, stamps, tokens nor what the client has seen:
\* it is left to show what fits the call.
LEMMA CallMoves ==
  ASSUME OneWorker, IInv, IInv', WInv, NEW t \in Threads,
         UNCHANGED <<gKeyToValueHashMap, seen, now>>,
         gTimestamp' >= gTimestamp, generator'.next >= generator.next,
         UNCHANGED gFlushAllTimestamp, gFlushAllTime' > now => gIsFlushAllSet', CallFits(t)'
  PROVE  WInv' /\ StaysDead
<1>1. MapShrinks /\ MapKeeps
  BY ShrinkCases DEF IInv
<1>2. FlushHidesOlder' /\ WrittenEarlier'
  BY <1>1, ShrinkKeeps
<1>3. TokensIssued'
  BY <1>1, ShrinkTokens
<1>4. FlushesInOrder'
  <2>1. gFlushAllTimestamp' <= gTimestamp'
    BY DEF WInv, FlushesInOrder, IInv, TypeOK
  <2> QED
    BY <1>2, <2>1 DEF FlushesInOrder
<1> QED
  BY <1>1, <1>2, <1>3, <1>4, Alone, ShrinkStaysDead

\* The start of a call: a cas call takes the token its client has seen.
LEMMA BeginWorker ==
  ASSUME OneWorker, IInv, IInv', WInv, NEW t \in Threads, NEW c \in Calls, Begin(t, c)
  PROVE  WInv' /\ StaysDead
<1> DEFINE token == IF c.cas THEN (CHOOSE s \in seen[t] : TRUE).cas ELSE NoCas
           l == [Blank EXCEPT !.call = c, !.cur = now, !.check = token, !.value = c.value,
                              !.expiry = c.expiry, !.table = TableOf[c.key]]
<1>1. ASSUME c.cas
      PROVE  \E s \in seen[t] : s.key = c.key /\ s.cas = token
  <2>1. PICK s \in seen[t] : s.key = c.key
    BY <1>1, Zenon DEF Begin
  <2>2. \A r \in seen[t] : r = s
    BY Zenon DEF WInv, TokensIssued
  <2>3. (CHOOSE r \in seen[t] : TRUE) = s
    BY <2>2, Zenon
  <2> QED
    BY <1>1, <2>1, <2>3, Zenon
<1> HIDE DEF token
<1>2. l.call = c /\ l.check = token /\ l.status = "none" /\ l.expiry = c.expiry
  BY BlankType, Zenon DEF Local
<1>3. /\ \E p : pc' = [pc EXCEPT ![t] = p] /\ (p = "done" \/ p = FirstStep[c.op])
      /\ loc' = [loc EXCEPT ![t] = l]
      /\ gIsFlushAllSet' = (gIsFlushAllSet \/ c.op = "setFlush")
      /\ UNCHANGED <<gKeyToValueHashMap, gTimestamp, gFlushAllTimestamp, gFlushAllTime, generator, env>>
  BY Zenon DEF Begin, GotoWith, token, store
<1> HIDE DEF l
<1>4. loc'[t] = l /\ (pc'[t] = "done" \/ pc'[t] = FirstStep[c.op])
  BY <1>3, Types
<1>5. c.op \in {"insert", "add", "get", "delete", "setFlush", "handleFlush"}
  BY CallsAssumption DEF CallRecord
<1>6. /\ pc'[t] \in {"done", "stamp", "delete", "setFlush", "flushTime"}
      /\ pc'[t] = "setFlush" => c.op = "setFlush"
      /\ pc'[t] = "delete" => c.op = "delete"
      /\ c.op = "get" => pc'[t] \in {"done", "stamp"}
  BY <1>4, <1>5 DEF FirstStep
<1>7. StampFits(t)' /\ TokenFits(t)'
  BY <1>6, Zenon DEF StampFits, TokenFits, StampedPcs, LinkPcs, BeforePcs, TokenPcs
<1>8. FlushFits(t)'
  BY <1>3, <1>6, Zenon DEF FlushFits
<1>9. ParamsFit(t)'
  BY <1>1, <1>2, <1>3, <1>4, <1>6, Zenon DEF ParamsFit, env
<1>10. GetFits(t)'
  BY <1>2, <1>4, <1>6, Zenon DEF GetFits, HasRead
<1>11. gFlushAllTime' > now => gIsFlushAllSet'
  BY <1>3, Zenon DEF WInv, FlushesInOrder
<1>12. /\ gTimestamp' >= gTimestamp /\ generator'.next >= generator.next
       /\ UNCHANGED <<gKeyToValueHashMap, seen, now>> /\ UNCHANGED gFlushAllTimestamp
  BY <1>3 DEF env, IInv, TypeOK
<1> QED
  BY <1>7, <1>8, <1>9, <1>10, <1>11, <1>12, CallMoves, Zenon DEF CallFits

\* timestamp = gTimestamp++: nothing is newer than the stamp.
LEMMA StampWorker ==
  ASSUME OneWorker, IInv, IInv', WInv, NEW t \in Threads, Stamp(t)
  PROVE  WInv' /\ StaysDead
<1> DEFINE l == [loc[t] EXCEPT !.timestamp = gTimestamp]
           m == [loc[t] EXCEPT !.timestamp = gTimestamp, !.cas = <<loc[t].cur, 0>>]
<1>0. loc[t] \in Local /\ CallFits(t) /\ gTimestamp \in Nat /\ pc[t] = "stamp"
  BY DEF IInv, TypeOK, WInv, Stamp
<1>1. /\ l.timestamp = gTimestamp /\ l.call = loc[t].call /\ l.check = loc[t].check
      /\ m.timestamp = gTimestamp /\ m.call = loc[t].call /\ m.check = loc[t].check
      /\ m.cas = <<loc[t].cur, 0>> /\ m.cas \in Nat \X Nat /\ m.cas[2] = 0
  <2>1. /\ l.timestamp = gTimestamp /\ l.call = loc[t].call /\ l.check = loc[t].check
        /\ m.timestamp = gTimestamp /\ m.call = loc[t].call /\ m.check = loc[t].check
        /\ m.cas = <<loc[t].cur, 0>>
    BY <1>0, Zenon DEF Local
  <2>2. loc[t].cur \in Nat
    BY <1>0, Zenon DEF Local
  <2>3. <<loc[t].cur, 0>> \in Nat \X Nat /\ <<loc[t].cur, 0>>[2] = 0
    BY <2>2
  <2> HIDE DEF l, m
  <2> QED
    BY <2>1, <2>3, Zenon
<1>2. \/ pc' = [pc EXCEPT ![t] = "draw"] /\ loc' = [loc EXCEPT ![t] = l] /\ l.call.op = "insert"
      \/ pc' = [pc EXCEPT ![t] = "memory"] /\ loc' = [loc EXCEPT ![t] = m] /\ l.call.op = "add"
      \/ pc' = [pc EXCEPT ![t] = "get"] /\ loc' = [loc EXCEPT ![t] = l]
  BY DEF Stamp, GotoWith
<1> HIDE DEF l, m
<1>3. /\ gTimestamp' = gTimestamp + 1 /\ generator' = generator
      /\ UNCHANGED <<gKeyToValueHashMap, seen, now>> /\ UNCHANGED gFlushAllTimestamp
      /\ gFlushAllTime' = gFlushAllTime /\ gIsFlushAllSet' = gIsFlushAllSet
  BY DEF Stamp, store, flushState, env
<1>4. /\ pc'[t] \in {"draw", "memory", "get"} /\ loc'[t].timestamp = gTimestamp
      /\ loc'[t].call = loc[t].call /\ loc'[t].check = loc[t].check
      /\ pc'[t] = "memory" => loc'[t].cas \in Nat \X Nat /\ loc'[t].cas[2] = 0
      /\ loc[t].call.op = "get" => pc'[t] = "get"
  BY <1>1, <1>2, Types
<1>5. StampFits(t)'
  BY <1>3, <1>4 DEF StampFits, WInv, FlushesInOrder, WrittenEarlier
<1>6. FlushFits(t)' /\ GetFits(t)'
  BY <1>4, Zenon DEF FlushFits, GetFits, HasRead
<1>7. TokenFits(t)'
  BY <1>4, Zenon DEF TokenFits, TokenPcs, Issued
<1>8. ParamsFit(t)'
  BY <1>0, <1>3, <1>4, Zenon DEF ParamsFit, CallFits
<1>9. gFlushAllTime' > now => gIsFlushAllSet'
  BY <1>3 DEF WInv, FlushesInOrder
<1>10. gTimestamp' >= gTimestamp /\ generator'.next >= generator.next
  BY <1>0, <1>3 DEF IInv, TypeOK
<1> QED
  BY <1>3, <1>5, <1>6, <1>7, <1>8, <1>9, <1>10, CallMoves, Zenon DEF CallFits

\* Drawing a token: with one worker it is newer than all tokens that are known.
LEMMA DrawWorker ==
  ASSUME OneWorker, IInv, IInv', WInv, NEW t \in Threads, Draw(t) \/ Drawn(t)
  PROVE  WInv' /\ StaysDead
<1>0. /\ loc[t] \in Local /\ CallFits(t) /\ generator.next \in Nat /\ generator'.next \in Nat
      /\ generator \in [seed: SUBSET Nat, next: Nat] /\ gTimestamp \in Nat
  BY DEF IInv, TypeOK, WInv
<1>1. /\ UNCHANGED <<gKeyToValueHashMap, seen, now>> /\ UNCHANGED gFlushAllTimestamp
      /\ gTimestamp' = gTimestamp
      /\ gFlushAllTime' = gFlushAllTime /\ gIsFlushAllSet' = gIsFlushAllSet
  BY DEF Draw, Drawn, store, flushState, env
<1>2. gFlushAllTime' > now => gIsFlushAllSet'
  BY <1>1 DEF WInv, FlushesInOrder
<1>3. CASE Draw(t)
  <2>1. PICK s : /\ pc' = [pc EXCEPT ![t] = "drawn"]
                 /\ loc' = [loc EXCEPT ![t] = [loc[t] EXCEPT !.cas = <<s, generator.next>>]]
    BY <1>3, Zenon DEF Draw, GotoWith
  <2> DEFINE l == [loc[t] EXCEPT !.cas = <<s, generator.next>>]
  <2>2. /\ l.cas = <<s, generator.next>> /\ l.call = loc[t].call /\ l.check = loc[t].check
        /\ l.timestamp = loc[t].timestamp
    BY <1>0, Zenon DEF Local
  <2>3. pc'[t] = "drawn" /\ loc'[t] = l /\ pc[t] = "draw"
    BY <1>3, <2>1, Types DEF Draw
  <2> HIDE DEF l
  <2>4. generator'.next = generator.next
    BY <1>0, <1>3 DEF Draw
  <2>5. loc'[t].cas[2] = generator'.next
    BY <2>2, <2>3, <2>4
  <2>6. TokenFits(t)'
    BY <2>3, <2>5, Zenon DEF TokenFits, TokenPcs
  <2>7. pc[t] \in StampedPcs /\ pc[t] \in BeforePcs
    BY <2>3 DEF StampedPcs, BeforePcs
  <2>8. StampFits(t)'
    BY <1>0, <1>1, <2>2, <2>3, <2>7, Zenon DEF StampFits, CallFits
  <2>9. FlushFits(t)' /\ ParamsFit(t)'
    BY <1>0, <1>1, <2>2, <2>3, Zenon DEF FlushFits, ParamsFit, CallFits
  <2>10. GetFits(t)'
    BY <1>0, <2>2, <2>3 DEF GetFits, CallFits
  <2>11. generator'.next >= generator.next /\ gTimestamp' >= gTimestamp
    BY <1>0, <1>1, <2>4
  <2> QED
    BY <1>1, <1>2, <2>6, <2>8, <2>9, <2>10, <2>11, CallMoves, Zenon DEF CallFits
<1>4. CASE Drawn(t)
  <2>1. pc'[t] = "memory" /\ loc'[t] = loc[t] /\ pc[t] = "drawn"
    BY <1>4, Types DEF Drawn, Goto
  <2>2. generator'.next = loc[t].cas[2] + 1 /\ loc[t].cas[2] = generator.next
        /\ loc[t].cas \in Nat \X Nat
    BY <1>0, <1>4, <2>1 DEF Drawn, CallFits, TokenFits, IInv, DrawnIsToken
  <2>3. \A c : Issued(c) /\ generator.next # 0 => c[2] < generator.next
    BY <1>0 DEF Issued
  <2>4. Issued(loc[t].cas)'
    BY <1>0, <2>1, <2>2 DEF Issued
  <2>5. /\ \A k \in DOMAIN gKeyToValueHashMap : Issued(gKeyToValueHashMap[k].cas)
        /\ \A s \in seen[t] : Issued(s.cas)
    BY DEF WInv, TokensIssued
  <2>6. TokenFits(t)'
    BY <1>1, <2>1, <2>2, <2>3, <2>4, <2>5, Zenon DEF TokenFits
  <2>7. StampFits(t)'
    BY <1>0, <1>1, <2>1, Zenon DEF StampFits, CallFits, StampedPcs, BeforePcs
  <2>8. FlushFits(t)' /\ ParamsFit(t)'
    BY <1>0, <1>1, <2>1, Zenon DEF FlushFits, ParamsFit, CallFits
  <2>9. GetFits(t)'
    BY <1>0, <2>1 DEF GetFits, CallFits
  <2>10. generator'.next >= generator.next /\ gTimestamp' >= gTimestamp
    BY <1>0, <1>1, <2>2
  <2> QED
    BY <1>1, <1>2, <2>6, <2>7, <2>8, <2>9, <2>10, CallMoves, Zenon DEF CallFits
<1> QED
  BY <1>3, <1>4

\* Setting, testing, stamping and clearing a flush.
LEMMA FlushWorker ==
  ASSUME OneWorker, IInv, IInv', WInv, NEW t \in Threads,
         SetFlush(t) \/ FlushTime(t) \/ FlushStamp(t) \/ FlushClear(t)
  PROVE  WInv' /\ StaysDead
<1>0. /\ loc[t] \in Local /\ CallFits(t) /\ gTimestamp \in Nat /\ now \in Nat
      /\ gFlushAllTime \in Nat
  BY DEF IInv, TypeOK, WInv
<1>1. /\ UNCHANGED <<gKeyToValueHashMap, seen, now>> /\ UNCHANGED gFlushAllTimestamp
      /\ generator' = generator /\ gTimestamp' >= gTimestamp
  BY <1>0 DEF SetFlush, FlushTime, FlushStamp, FlushClear, store, flushState, env
<1>2. /\ pc[t] \in {"setFlush", "flushTime", "flushStamp", "flushClear"}
      /\ pc'[t] \in {"done", "flushStamp", "flushStore"} /\ loc'[t].call = loc[t].call
  <2>1. CASE FlushStamp(t)
    <3>1. [loc[t] EXCEPT !.timestamp = gTimestamp + 1].call = loc[t].call
      BY <1>0, Zenon DEF Local
    <3> QED
      BY <2>1, <3>1, Types DEF FlushStamp, GotoWith
  <2>2. CASE ~FlushStamp(t)
    BY <2>2, Types DEF SetFlush, FlushTime, FlushClear, Goto
  <2> QED
    BY <2>1, <2>2
<1>3. loc[t].call.op # "get"
  BY <1>0, <1>2 DEF CallFits, GetFits
<1>4. StampFits(t)' /\ TokenFits(t)' /\ ParamsFit(t)'
  BY <1>2, Zenon DEF StampFits, TokenFits, ParamsFit, StampedPcs, LinkPcs, BeforePcs, TokenPcs
<1>5. GetFits(t)'
  BY <1>2, <1>3, Zenon DEF GetFits
<1>6. /\ pc'[t] = "flushStore" => loc'[t].timestamp = gTimestamp'
      /\ pc'[t] \in {"flushStamp", "flushStore"} => gFlushAllTime' <= now
      /\ gFlushAllTime' > now => gIsFlushAllSet'
  <2>1. CASE SetFlush(t)
    BY <1>0, <2>1, Types DEF SetFlush, Goto, CallFits, FlushFits
  <2>2. CASE FlushTime(t)
    BY <2>2, Types DEF FlushTime, Goto, flushState, WInv, FlushesInOrder
  <2>3. CASE FlushStamp(t)
    <3>1. loc'[t].timestamp = gTimestamp'
      <4>1. [loc[t] EXCEPT !.timestamp = gTimestamp + 1].timestamp = gTimestamp + 1
        BY <1>0, Zenon DEF Local
      <4> QED
        BY <2>3, <4>1, Types DEF FlushStamp, GotoWith
    <3>2. gFlushAllTime' = gFlushAllTime /\ gFlushAllTime <= now
      BY <1>0, <2>3, Zenon DEF FlushStamp, CallFits, FlushFits, flushState
    <3> QED
      BY <1>0, <3>1, <3>2
  <2>4. CASE FlushClear(t)
    BY <1>0, <2>4, Types DEF FlushClear, Goto, CallFits, FlushFits
  <2> QED
    BY <2>1, <2>2, <2>3, <2>4
<1>7. FlushFits(t)'
  BY <1>1, <1>2, <1>6 DEF FlushFits
<1>8. generator'.next >= generator.next
  BY <1>1 DEF IInv, TypeOK
<1> QED
  BY <1>1, <1>4, <1>5, <1>6, <1>7, <1>8, CallMoves, Zenon DEF CallFits

\* Publishing the stamp of a flush: with one worker it is above all recorded stamps,
\* so that the flush hides all there is.
LEMMA FlushStoreWorker ==
  ASSUME OneWorker, IInv, IInv', WInv, NEW t \in Threads, FlushStore(t)
  PROVE  WInv' /\ StaysDead
<1>0. /\ loc[t] \in Local /\ CallFits(t) /\ gTimestamp \in Nat /\ gFlushAllTimestamp \in Nat
  BY Zenon DEF IInv, TypeOK, WInv
<1>1. /\ pc[t] = "flushStore" /\ pc'[t] = "flushClear" /\ loc' = loc
      /\ gFlushAllTimestamp' = loc[t].timestamp /\ gTimestamp' = gTimestamp
      /\ gKeyToValueHashMap' = gKeyToValueHashMap /\ seen' = seen /\ now' = now
      /\ generator' = generator /\ gFlushAllTime' = gFlushAllTime
      /\ gIsFlushAllSet' = gIsFlushAllSet
  BY Types DEF FlushStore, Goto, store, env
<1>2. gFlushAllTimestamp' = gTimestamp /\ gFlushAllTime <= now
  BY <1>0, <1>1 DEF CallFits, FlushFits
<1>3. ASSUME NEW k \in DOMAIN gKeyToValueHashMap
      PROVE  gKeyToValueHashMap[k].timestamp < gTimestamp
  <2>1. k \in Keys /\ gKeyToValueHashMap[k].timestamp \in Nat
    BY DEF IInv, TypeOK, Entry
  <2>2. Claimed(gKeyToValueHashMap[k].timestamp, k)
    BY Zenon DEF Claimed
  <2> QED
    BY <2>1, <2>2, Zenon DEF IInv, StampsOwned
<1>4. FlushesInOrder'
  <2>1. FlushHidesOlder'
    BY <1>1, <1>2, <1>3 DEF FlushHidesOlder
  <2>2. gFlushAllTimestamp' <= gTimestamp'
    BY <1>0, <1>1, <1>2
  <2>3. gFlushAllTime' > now' => gIsFlushAllSet'
    BY <1>1 DEF WInv, FlushesInOrder
  <2> QED
    BY <2>1, <2>2, <2>3, Zenon DEF FlushesInOrder
<1>5. MapKeeps
  BY <1>1, Zenon DEF MapKeeps
<1>6. TokensIssued'
  <2>1. generator'.next >= generator.next
    BY <1>1 DEF IInv, TypeOK
  <2> QED
    BY <1>1, <1>5, <2>1, ShrinkTokens, Zenon
<1>7. WrittenEarlier'
  BY <1>1 DEF WInv, WrittenEarlier
<1>8. CallFits(t)'
  <2>1. loc[t].call.op # "get"
    BY <1>0, <1>1 DEF CallFits, GetFits
  <2>2. StampFits(t)' /\ TokenFits(t)' /\ ParamsFit(t)'
    BY <1>1, Zenon DEF StampFits, TokenFits, ParamsFit, StampedPcs, LinkPcs, BeforePcs, TokenPcs
  <2>3. FlushFits(t)'
    BY <1>1, <1>2, Zenon DEF FlushFits
  <2>4. GetFits(t)'
    BY <1>1, <2>1, Zenon DEF GetFits
  <2> QED
    BY <2>2, <2>3, <2>4 DEF CallFits
<1>9. StaysDead
  <2> SUFFICES ASSUME NEW k \in DOMAIN gKeyToValueHashMap,
                      Dead(gKeyToValueHashMap[k], gFlushAllTimestamp, now)
               PROVE  Dead(gKeyToValueHashMap[k], gTimestamp, now)
    BY <1>1, <1>2, Zenon DEF StaysDead
  <2> QED
    BY <1>3 DEF Dead
<1> QED
  BY <1>4, <1>6, <1>7, <1>8, <1>9, Alone, Zenon

\* The return of a call: a client that sends cas requests has seen what its get read.
LEMMA ReturnWorker ==
  ASSUME OneWorker, IInv, IInv', WInv, NEW t \in Threads, Return(t)
  PROVE  WInv' /\ StaysDead
<1> DEFINE r == [key |-> Key(t), cas |-> loc[t].cas, value |-> loc[t].value]
<1>0. CallFits(t) /\ pc[t] = "done" /\ seen \in [Threads -> SUBSET [key: Keys, cas: CasTokens, value: Values]]
  BY DEF IInv, TypeOK, WInv, Return
<1>1. /\ gFlushAllTimestamp' = gFlushAllTimestamp /\ gTimestamp' = gTimestamp
      /\ gKeyToValueHashMap' = gKeyToValueHashMap /\ now' = now
      /\ generator' = generator /\ gFlushAllTime' = gFlushAllTime
      /\ gIsFlushAllSet' = gIsFlushAllSet
  BY DEF Return, store, flushState
<1>2. pc'[t] = "idle"
  BY Types DEF Return, GotoWith
<1>3. CallFits(t)'
  <2>1. StampFits(t)' /\ FlushFits(t)' /\ TokenFits(t)' /\ ParamsFit(t)'
    BY <1>2, Zenon DEF StampFits, FlushFits, TokenFits, ParamsFit, StampedPcs, LinkPcs, BeforePcs, TokenPcs
  <2>2. GetFits(t)'
    BY <1>2, Zenon DEF GetFits, HasRead
  <2> QED
    BY <2>1, <2>2 DEF CallFits
<1>4. FlushesInOrder' /\ WrittenEarlier'
  BY <1>1 DEF WInv, FlushesInOrder, FlushHidesOlder, WrittenEarlier
<1>5. TokensIssued'
  <2>1. \A c : Issued(c)' <=> Issued(c)
    BY <1>1, Zenon DEF Issued
  <2>2. \A c, k, v : Means(c, k, v)' <=> Means(c, k, v)
    BY <1>1, Zenon DEF Means
  <2>3. (\A k \in DOMAIN gKeyToValueHashMap : Issued(gKeyToValueHashMap[k].cas))'
    BY <1>1, <2>1, Zenon DEF WInv, TokensIssued
  <2>4. seen'[t] = seen[t] \/ (seen'[t] = {r} /\ loc[t].call.op = "get" /\ loc[t].status = "SUCCESS")
    BY <1>0, Zenon DEF Return
  <2>5. ASSUME NEW s \in seen'[t]
        PROVE  Issued(s.cas) /\ Means(s.cas, s.key, s.value) /\ \A q \in seen'[t] : q = s
    <3>1. CASE seen'[t] = seen[t]
      BY <3>1, Zenon DEF WInv, TokensIssued
    <3>2. CASE seen'[t] = {r} /\ loc[t].call.op = "get" /\ loc[t].status = "SUCCESS"
      <4>1. Issued(loc[t].cas) /\ Means(loc[t].cas, Key(t), loc[t].value)
        BY <1>0, <3>2, Zenon DEF CallFits, GetFits, HasRead
      <4>2. s = r /\ r.cas = loc[t].cas /\ r.key = Key(t) /\ r.value = loc[t].value
        BY <3>2
      <4> HIDE DEF r
      <4> QED
        BY <3>2, <4>1, <4>2, Zenon
    <3> QED
      BY <2>4, <3>1, <3>2
  <2>6. \A u \in Threads : u = t
    BY DEF OneWorker
  <2> QED
    BY <2>1, <2>2, <2>3, <2>5, <2>6, Zenon DEF TokensIssued
<1>6. StaysDead
  BY <1>1, Zenon DEF StaysDead
<1> QED
  BY <1>3, <1>4, <1>5, <1>6, Alone, Zenon

\* The passing of time: what has expired stays so.
LEMMA TickWorker ==
  ASSUME IInv, IInv', WInv, Tick
  PROVE  WInv' /\ StaysDead
<1>0. now \in Nat /\ now' = now + 1 /\ gFlushAllTime \in Nat
  BY DEF Tick, IInv, TypeOK
<1>1. /\ gFlushAllTimestamp' = gFlushAllTimestamp /\ gTimestamp' = gTimestamp
      /\ gKeyToValueHashMap' = gKeyToValueHashMap /\ seen' = seen /\ pc' = pc /\ loc' = loc
      /\ generator' = generator /\ gFlushAllTime' = gFlushAllTime
      /\ gIsFlushAllSet' = gIsFlushAllSet
  BY DEF Tick, store, flushState
<1>2. FlushesInOrder'
  BY <1>0, <1>1 DEF WInv, FlushesInOrder, FlushHidesOlder
<1>3. TokensIssued' /\ WrittenEarlier'
  BY <1>1, Zenon DEF WInv, TokensIssued, Issued, Means, WrittenEarlier
<1>4. ASSUME NEW t \in Threads PROVE CallFits(t)'
  <2>1. CallFits(t)
    BY Zenon DEF WInv
  <2>2. StampFits(t)' /\ TokenFits(t)' /\ ParamsFit(t)'
    BY <1>1, <2>1, Zenon DEF CallFits, StampFits, TokenFits, ParamsFit, Issued
  <2>3. FlushFits(t)'
    BY <1>0, <1>1, <2>1 DEF CallFits, FlushFits
  <2>4. GetFits(t)'
    BY <1>1, <2>1, Zenon DEF CallFits, GetFits, HasRead, Issued, Means, Key
  <2> QED
    BY <2>2, <2>3, <2>4 DEF CallFits
<1>5. StaysDead
  <2> SUFFICES ASSUME NEW k \in DOMAIN gKeyToValueHashMap,
                      Dead(gKeyToValueHashMap[k], gFlushAllTimestamp, now)
               PROVE  Dead(gKeyToValueHashMap[k], gFlushAllTimestamp, now + 1)
    BY <1>0, <1>1, Zenon DEF StaysDead
  <2>1. gKeyToValueHashMap[k].expiry \in Nat
    BY SizesAssumption DEF IInv, TypeOK, Entry
  <2> QED
    BY <1>0, <2>1 DEF Dead
<1> QED
  BY <1>2, <1>3, <1>4, <1>5, Zenon DEF WInv

\* A store writes an element with the call's stamp and token: no flush hides it, and
\* nobody has seen its token.
LEMMA StoreWorker ==
  ASSUME OneWorker, IInv, IInv', WInv, NEW t \in Threads, NEW e \in Entry,
         gKeyToValueHashMap' = Put(Key(t), e), pc[t] = "emplace",
         e.cas = loc[t].cas, e.writtenAt = loc[t].timestamp,
         pc'[t] \in {"grow", "erase", "relink"},
         loc'[t].call = loc[t].call, loc'[t].timestamp = loc[t].timestamp,
         UNCHANGED <<gTimestamp, flushState, generator, env>>
  PROVE  WInv' /\ StaysDead
<1> DEFINE k == Key(t)
           m == gKeyToValueHashMap
<1>0. /\ CallFits(t) /\ loc[t].timestamp \in Nat /\ k \in Keys /\ TypeOK /\ TokensIssued
      /\ gTimestamp \in Nat /\ gFlushAllTimestamp \in Nat
  BY KeyType, Zenon DEF IInv, TypeOK, Local, WInv
<1>1. /\ gFlushAllTimestamp' = gFlushAllTimestamp /\ gTimestamp' = gTimestamp
      /\ now' = now /\ generator' = generator /\ gFlushAllTime' = gFlushAllTime
      /\ gIsFlushAllSet' = gIsFlushAllSet /\ seen' = seen
  BY Zenon DEF flushState, env
<1>2. /\ DOMAIN m' = DOMAIN m \cup {k} /\ m'[k] = e
      /\ \A j \in DOMAIN m \ {k} : m'[j] = m[j]
  BY <1>0, PutType, Zenon
<1>3. /\ gFlushAllTimestamp <= loc[t].timestamp
      /\ \A j \in DOMAIN m : m[j].writtenAt < loc[t].timestamp
      /\ Issued(loc[t].cas)
      /\ loc[t].cas[2] # 0 => \A s \in seen[t] : s.cas[2] < loc[t].cas[2]
  BY <1>0, Zenon DEF CallFits, StampFits, TokenFits, StampedPcs, BeforePcs, TokenPcs
<1>4. loc[t].timestamp < gTimestamp
  <2>1. Claimed(loc[t].timestamp, k)
    BY Zenon DEF Claimed, StampedPcs
  <2> QED
    BY <1>0, <2>1, Zenon DEF IInv, StampsOwned
<1>5. FlushesInOrder'
  <2>1. ASSUME NEW j \in DOMAIN m', m'[j].writtenAt < gFlushAllTimestamp
        PROVE  m'[j].timestamp < gFlushAllTimestamp
    <3>1. j # k
      BY <1>0, <1>2, <1>3, <2>1
    <3> QED
      BY <1>2, <2>1, <3>1, Zenon DEF WInv, FlushesInOrder, FlushHidesOlder
  <2>2. FlushHidesOlder'
    BY <1>1, <2>1, Zenon DEF FlushHidesOlder
  <2> QED
    BY <1>1, <2>2, Zenon DEF WInv, FlushesInOrder
<1>6. WrittenEarlier'
  BY <1>1, <1>2, <1>4, Zenon DEF WInv, WrittenEarlier
<1>7. TokensIssued'
  <2>1. \A c : Issued(c)' <=> Issued(c)
    BY <1>1, Zenon DEF Issued
  <2>2. (\A j \in DOMAIN m : Issued(m[j].cas))'
    BY <1>0, <1>2, <1>3, <2>1, Zenon DEF TokensIssued
  <2>3. ASSUME NEW s \in seen[t]
        PROVE  Means(s.cas, s.key, s.value)'
    <3>1. Issued(s.cas) /\ Means(s.cas, s.key, s.value)
      BY <1>0, Zenon DEF TokensIssued
    <3>2. CASE s.key # k
      BY <1>2, <3>1, <3>2, Zenon DEF Means
    <3>3. CASE s.key = k
      <4>1. ~(s.cas[2] # 0 /\ e.cas = s.cas)
        <5>1. s.cas[2] \in Nat
          BY <3>1 DEF Issued
        <5>2. loc[t].cas[2] # 0 => s.cas[2] < loc[t].cas[2]
          BY <1>3, Zenon
        <5> QED
          BY <5>1, <5>2
      <4> QED
        BY <1>2, <3>3, <4>1, Zenon DEF Means
    <3> QED
      BY <3>2, <3>3, Zenon
  <2>4. \A u \in Threads : u = t
    BY Zenon DEF OneWorker
  <2> QED
    BY <1>0, <1>1, <2>1, <2>2, <2>3, <2>4, Zenon DEF TokensIssued
<1>8. CallFits(t)'
  <2>1. loc[t].call.op # "get"
    BY <1>0 DEF CallFits, GetFits
  <2>2. StampFits(t)'
    BY <1>1, <1>3, Zenon DEF StampFits, BeforePcs
  <2>3. FlushFits(t)' /\ TokenFits(t)' /\ ParamsFit(t)'
    BY Zenon DEF FlushFits, TokenFits, ParamsFit, TokenPcs
  <2>4. GetFits(t)'
    BY <2>1, Zenon DEF GetFits
  <2> QED
    BY <2>2, <2>3, <2>4, Zenon DEF CallFits
<1>9. StaysDead
  <2> SUFFICES ASSUME NEW j \in DOMAIN m, m[j].writtenAt = m'[j].writtenAt,
                      Dead(m[j], gFlushAllTimestamp, now)
               PROVE  Dead(m'[j], gFlushAllTimestamp, now)
    BY <1>1, Zenon DEF StaysDead
  <2>1. j # k
    <3>1. m[j].writtenAt \in Nat /\ m[j].writtenAt < loc[t].timestamp
      BY <1>0, <1>3, Zenon DEF TypeOK, Entry
    <3>2. j = k => m[j].writtenAt = loc[t].timestamp
      BY <1>2, Zenon
    <3>3. loc[t].timestamp \in Nat
      BY <1>0, Zenon
    <3>4. m[j].writtenAt # loc[t].timestamp
      BY <3>1, <3>3
    <3> QED
      BY <3>2, <3>4, Zenon
  <2> QED
    BY <1>2, <2>1, Zenon
<1> QED
  BY <1>5, <1>6, <1>7, <1>8, <1>9, Alone, Zenon

\* The emplace regions of dbInsertElement and dbAddElement.
LEMMA EmplaceWorker ==
  ASSUME OneWorker, IInv, IInv', WInv, NEW t \in Threads, Emplace(t)
  PROVE  WInv' /\ StaysDead
<1> DEFINE k == Key(t)
           e == gKeyToValueHashMap[k]
           new == [expiry |-> NewExpiry(loc[t].cur, loc[t].expiry), value |-> loc[t].value,
                   cas |-> loc[t].cas, timestamp |-> loc[t].timestamp,
                   writtenAt |-> loc[t].timestamp]
           over == [e EXCEPT !.expiry = Wrap(loc[t].cur + loc[t].expiry), !.cas = loc[t].cas,
                             !.value = loc[t].value, !.writtenAt = loc[t].timestamp]
           old == [loc[t] EXCEPT !.old = e.timestamp,
                                 !.diff = ValueLen[e.value] - ValueLen[loc[t].value]]
<1>0. /\ loc[t] \in Local /\ TypeOK /\ k \in Keys /\ pc[t] = "emplace"
      /\ k \in DOMAIN gKeyToValueHashMap => e \in Entry
      /\ k \in DOMAIN gKeyToValueHashMap' => gKeyToValueHashMap'[k] \in Entry
      /\ UNCHANGED <<gTimestamp, flushState, generator, env>>
  BY KeyType, Zenon DEF Emplace, IInv, TypeOK
<1>1. /\ new.cas = loc[t].cas /\ new.writtenAt = loc[t].timestamp
      /\ old.call = loc[t].call /\ old.timestamp = loc[t].timestamp
  BY <1>0, Zenon DEF Local
<1>2. ASSUME k \in DOMAIN gKeyToValueHashMap
      PROVE  over.cas = loc[t].cas /\ over.writtenAt = loc[t].timestamp
  BY <1>0, <1>2, Zenon DEF Entry
<1>3. \/ /\ gKeyToValueHashMap' = Put(k, new)
         /\ pc' = [pc EXCEPT ![t] = "grow"] /\ UNCHANGED loc
      \/ /\ k \in DOMAIN gKeyToValueHashMap /\ gKeyToValueHashMap' = Put(k, over)
         /\ pc' = [pc EXCEPT ![t] = "erase"] \/ pc' = [pc EXCEPT ![t] = "relink"]
         /\ loc' = [loc EXCEPT ![t] = old]
      \/ UNCHANGED gKeyToValueHashMap /\ ReturnStatus(t, "EXIST")
      \/ UNCHANGED gKeyToValueHashMap /\ ReturnStatus(t, "NOT_EXIST")
  BY Zenon DEF Emplace, InsertEmplace, AddEmplace, EmplaceNew, Overwrite, Goto, GotoWith
<1> HIDE DEF new, over, old
<1>4. ASSUME NEW x, gKeyToValueHashMap' = Put(k, x)
      PROVE  x \in Entry
  <2>1. k \in DOMAIN Put(k, x) /\ Put(k, x)[k] = x
    BY DEF Put
  <2> QED
    BY <1>0, <1>4, <2>1, Zenon
<1>5. CASE /\ gKeyToValueHashMap' = Put(k, new)
           /\ pc' = [pc EXCEPT ![t] = "grow"] /\ UNCHANGED loc
  <2>1. pc'[t] = "grow" /\ loc'[t] = loc[t] /\ new \in Entry
    BY <1>4, <1>5, Types
  <2> QED
    BY <1>0, <1>1, <1>5, <2>1, StoreWorker, Zenon
<1>6. CASE /\ k \in DOMAIN gKeyToValueHashMap /\ gKeyToValueHashMap' = Put(k, over)
           /\ pc' = [pc EXCEPT ![t] = "erase"] \/ pc' = [pc EXCEPT ![t] = "relink"]
           /\ loc' = [loc EXCEPT ![t] = old]
  <2>1. pc'[t] \in {"erase", "relink"} /\ loc'[t] = old /\ over \in Entry
    BY <1>4, <1>6, Types
  <2> QED
    BY <1>0, <1>1, <1>2, <1>6, <2>1, StoreWorker, Zenon
<1>7. ASSUME NEW s, UNCHANGED gKeyToValueHashMap, ReturnStatus(t, s)
      PROVE  WInv' /\ StaysDead
  <2> DEFINE l == [loc[t] EXCEPT !.status = s]
  <2>1. pc' = [pc EXCEPT ![t] = "done"] /\ loc' = [loc EXCEPT ![t] = l]
    BY <1>7, Zenon DEF ReturnStatus, GotoWith
  <2>2. SameCall(l, loc[t])
    BY <1>0, ScratchFields, Zenon
  <2>3. MapShrinks /\ MapKeeps
    BY <1>0, <1>7, ShrinkCases, Zenon
  <2> HIDE DEF l
  <2>4. Quiet(t)
    BY <1>0, <2>1, <2>2, <2>3, QuietMove, Zenon
  <2>5. UNCHANGED <<gFlushAllTimestamp, now>>
    BY <1>0, Zenon DEF flushState, env
  <2> QED
    BY <2>3, <2>4, <2>5, QuietStep, ShrinkStaysDead, Zenon
<1> QED
  BY <1>3, <1>5, <1>6, <1>7, Zenon

\* A call that finds nothing to do returns without a value.
LEMMA ReturnsEmpty ==
  ASSUME OneWorker, IInv, IInv', WInv, NEW t \in Threads, NEW s, ReturnStatus(t, s),
         pc[t] \in {"get", "delete"}, pc[t] = "get" => s # "SUCCESS", MapKeeps,
         UNCHANGED <<gTimestamp, flushState, generator, env>>
  PROVE  WInv' /\ (MapShrinks => StaysDead)
<1> DEFINE l == [loc[t] EXCEPT !.status = s]
<1>1. pc' = [pc EXCEPT ![t] = "done"] /\ loc' = [loc EXCEPT ![t] = l]
  BY Zenon DEF ReturnStatus, GotoWith
<1>2. loc[t] \in Local
  BY DEF IInv, TypeOK
<1>3. SameCall(l, loc[t]) /\ l.status = s
  BY <1>2, ScratchFields, Zenon
<1> HIDE DEF l
<1>4. pc[t] \notin {"idle", "stamp", "done"}
  OBVIOUS
<1>5. Quiet(t)
  BY <1>1, <1>3, <1>4, QuietMove, Zenon
<1>6. UNCHANGED <<gFlushAllTimestamp, now>>
  BY Zenon DEF flushState, env
<1> QED
  BY <1>5, <1>6, QuietStep, ShrinkStaysDead, Zenon

\* A get that finds a live element renews its timestamp: what a flush has hidden is
\* not live, so no flush is undone.
LEMMA RenewWorker ==
  ASSUME OneWorker, IInv, IInv', WInv, NEW t \in Threads, Key(t) \in DOMAIN gKeyToValueHashMap,
         NEW e \in Entry, e = gKeyToValueHashMap[Key(t)], NEW f \in Entry,
         f.expiry = e.expiry, f.value = e.value, f.cas = e.cas, f.writtenAt = e.writtenAt,
         gKeyToValueHashMap' = Put(Key(t), f), ~(e.timestamp < gFlushAllTimestamp),
         pc[t] = "get", pc'[t] = "relink", loc'[t].call = loc[t].call,
         loc'[t].timestamp = loc[t].timestamp, loc'[t].value = e.value, loc'[t].cas = e.cas,
         UNCHANGED <<gTimestamp, flushState, generator, env>>
  PROVE  WInv' /\ StaysDead
<1> DEFINE k == Key(t)
           m == gKeyToValueHashMap
<1>0. /\ CallFits(t) /\ k \in Keys /\ TypeOK /\ TokensIssued
      /\ Key(t)' = k
  BY KeyType, Zenon DEF IInv, WInv, Key
<1>1. /\ gFlushAllTimestamp' = gFlushAllTimestamp /\ gTimestamp' = gTimestamp
      /\ now' = now /\ generator' = generator /\ gFlushAllTime' = gFlushAllTime
      /\ gIsFlushAllSet' = gIsFlushAllSet /\ seen' = seen
  BY DEF flushState, env
<1>2. /\ DOMAIN m' = DOMAIN m /\ m'[k] = f
      /\ \A j \in DOMAIN m \ {k} : m'[j] = m[j]
  <2>1. DOMAIN m \cup {k} = DOMAIN m
    OBVIOUS
  <2> QED
    BY <1>0, <2>1, PutType, Zenon
<1>3. \A j \in DOMAIN m : /\ m'[j].writtenAt = m[j].writtenAt /\ m'[j].cas = m[j].cas
                          /\ m'[j].value = m[j].value /\ m'[j].expiry = m[j].expiry
  BY <1>2, Zenon
<1>4. gFlushAllTimestamp <= loc[t].timestamp
  BY <1>0, Zenon DEF CallFits, StampFits, StampedPcs
<1>5. FlushesInOrder'
  <2>1. ASSUME NEW j \in DOMAIN m, m'[j].writtenAt < gFlushAllTimestamp
        PROVE  m'[j].timestamp < gFlushAllTimestamp
    BY <1>2, <1>3, <2>1, Zenon DEF WInv, FlushesInOrder, FlushHidesOlder
  <2>2. FlushHidesOlder'
    BY <1>1, <1>2, <2>1, Zenon DEF FlushHidesOlder
  <2> QED
    BY <1>1, <2>2, Zenon DEF WInv, FlushesInOrder
<1>6. WrittenEarlier'
  BY <1>1, <1>2, <1>3, Zenon DEF WInv, WrittenEarlier
<1>7. \A c : Issued(c)' <=> Issued(c)
  BY <1>1, Zenon DEF Issued
<1>8. TokensIssued'
  <2>1. (\A j \in DOMAIN m : Issued(m[j].cas))'
    BY <1>0, <1>2, <1>3, <1>7, Zenon DEF TokensIssued
  <2>2. ASSUME NEW s \in seen[t]
        PROVE  Means(s.cas, s.key, s.value)'
    <3>1. Means(s.cas, s.key, s.value)
      BY <1>0, Zenon DEF TokensIssued
    <3> QED
      BY <1>2, <1>3, <3>1, Zenon DEF Means
  <2>3. \A u \in Threads : u = t
    BY Zenon DEF OneWorker
  <2> QED
    BY <1>0, <1>1, <1>7, <2>1, <2>2, <2>3, Zenon DEF TokensIssued
<1>9. CallFits(t)'
  <2>1. StampFits(t)'
    BY <1>1, <1>4, Zenon DEF StampFits, BeforePcs
  <2>2. FlushFits(t)' /\ TokenFits(t)' /\ ParamsFit(t)'
    BY Zenon DEF FlushFits, TokenFits, ParamsFit, TokenPcs
  <2>3. Issued(loc[t].cas)'
    BY <1>0, <1>7, Zenon DEF TokensIssued
  <2>4. Means(loc[t].cas, Key(t), loc[t].value)'
    BY <1>0, <1>2, Zenon DEF Means
  <2>5. GetFits(t)'
    BY <2>3, <2>4, Zenon DEF GetFits
  <2> QED
    BY <2>1, <2>2, <2>5 DEF CallFits
<1>10. StaysDead
  <2> SUFFICES ASSUME NEW j \in DOMAIN m, Dead(m[j], gFlushAllTimestamp, now)
               PROVE  Dead(m'[j], gFlushAllTimestamp, now)
    BY <1>1, Zenon DEF StaysDead
  <2>1. CASE j = k
    BY <1>3, <2>1, Zenon DEF Dead
  <2>2. CASE j # k
    BY <1>2, <2>2, Zenon
  <2> QED
    BY <2>1, <2>2
<1> QED
  BY <1>5, <1>6, <1>8, <1>9, <1>10, Alone, Zenon

\* dbGetElement.
LEMMA GetWorker ==
  ASSUME OneWorker, IInv, IInv', WInv, NEW t \in Threads, Get(t)
  PROVE  WInv' /\ StaysDead
<1> DEFINE k == Key(t)
           e == gKeyToValueHashMap[k]
           f == [e EXCEPT !.timestamp = loc[t].timestamp]
           l == [loc[t] EXCEPT !.old = e.timestamp, !.value = e.value, !.cas = e.cas,
                               !.expiry = Wrap(e.expiry - loc[t].cur)]
<1>0. /\ loc[t] \in Local /\ TypeOK /\ k \in Keys /\ pc[t] = "get"
      /\ k \in DOMAIN gKeyToValueHashMap => e \in Entry
      /\ UNCHANGED <<gTimestamp, flushState, generator, env>>
  BY KeyType DEF Get, IInv, TypeOK
<1>1. \/ UNCHANGED gKeyToValueHashMap /\ ReturnStatus(t, "NOT_EXIST")
      \/ gKeyToValueHashMap' = Without(k) /\ ReturnStatus(t, "NOT_EXIST")
      \/ /\ k \in DOMAIN gKeyToValueHashMap /\ ~(e.timestamp < gFlushAllTimestamp)
         /\ gKeyToValueHashMap' = Put(k, f)
         /\ pc' = [pc EXCEPT ![t] = "relink"] /\ loc' = [loc EXCEPT ![t] = l]
  BY Zenon DEF Get, GotoWith, Expired
<1>2. ASSUME UNCHANGED gKeyToValueHashMap \/ gKeyToValueHashMap' = Without(k),
             ReturnStatus(t, "NOT_EXIST")
      PROVE  WInv' /\ StaysDead
  <2>1. MapShrinks /\ MapKeeps
    BY <1>0, <1>2, ShrinkCases, Zenon
  <2>2. "NOT_EXIST" # "SUCCESS"
    OBVIOUS
  <2> QED
    BY <1>0, <1>2, <2>1, <2>2, ReturnsEmpty, Zenon
<1>3. ASSUME k \in DOMAIN gKeyToValueHashMap, ~(e.timestamp < gFlushAllTimestamp),
             gKeyToValueHashMap' = Put(k, f),
             pc' = [pc EXCEPT ![t] = "relink"], loc' = [loc EXCEPT ![t] = l]
      PROVE  WInv' /\ StaysDead
  <2>1. /\ f.expiry = e.expiry /\ f.value = e.value /\ f.cas = e.cas /\ f.writtenAt = e.writtenAt
        /\ l.call = loc[t].call /\ l.timestamp = loc[t].timestamp
        /\ l.value = e.value /\ l.cas = e.cas
    BY <1>0, <1>3, Zenon DEF Entry, Local
  <2>2. f \in Entry
    BY <1>0, <1>3, Zenon DEF Entry, Local
  <2> HIDE DEF f, l
  <2>3. pc'[t] = "relink" /\ loc'[t] = l
    BY <1>3, Types
  <2> HIDE DEF e
  <2>4. e \in Entry /\ e = gKeyToValueHashMap[k]
    BY <1>0, <1>3, Zenon DEF e
  <2> QED
    BY <1>0, <1>3, <2>1, <2>2, <2>3, <2>4, RenewWorker, Zenon
<1> QED
  BY <1>1, <1>2, <1>3, Zenon

\* dbDeleteElement removes the element, or moves its expiry.
LEMMA DeleteWorker ==
  ASSUME OneWorker, IInv, IInv', WInv, NEW t \in Threads, Delete(t)
  PROVE  WInv' /\ (DeletesAtOnce => StaysDead)
<1> DEFINE k == Key(t)
           e == gKeyToValueHashMap[k]
           f == [e EXCEPT !.expiry = Wrap(loc[t].cur + loc[t].expiry)]
<1>0. /\ loc[t] \in Local /\ TypeOK /\ k \in Keys /\ pc[t] = "delete" /\ CallFits(t)
      /\ k \in DOMAIN gKeyToValueHashMap => e \in Entry
      /\ UNCHANGED <<gTimestamp, flushState, generator, env>>
  BY KeyType DEF Delete, IInv, TypeOK, WInv
<1>1. PICK s : ReturnStatus(t, s)
  BY Zenon DEF Delete
<1>2. \/ UNCHANGED gKeyToValueHashMap
      \/ gKeyToValueHashMap' = Without(k)
      \/ /\ k \in DOMAIN gKeyToValueHashMap /\ loc[t].expiry # 0
         /\ gKeyToValueHashMap' = Put(k, f)
  BY Zenon DEF Delete
<1>3. CASE UNCHANGED gKeyToValueHashMap \/ gKeyToValueHashMap' = Without(k)
  <2>1. MapShrinks /\ MapKeeps
    BY <1>0, <1>3, ShrinkCases, Zenon
  <2> QED
    BY <1>0, <1>1, <2>1, ReturnsEmpty, Zenon
<1>4. CASE /\ k \in DOMAIN gKeyToValueHashMap /\ loc[t].expiry # 0
           /\ gKeyToValueHashMap' = Put(k, f)
  <2>1. /\ f.timestamp = e.timestamp /\ f.value = e.value /\ f.cas = e.cas
        /\ f.writtenAt = e.writtenAt
    BY <1>0, <1>4, Zenon DEF Entry
  <2> HIDE DEF f
  <2>2. /\ DOMAIN gKeyToValueHashMap' = DOMAIN gKeyToValueHashMap \cup {k}
        /\ gKeyToValueHashMap'[k] = f
        /\ \A j \in DOMAIN gKeyToValueHashMap \ {k} : gKeyToValueHashMap'[j] = gKeyToValueHashMap[j]
    BY <1>4 DEF Put
  <2>3. MapKeeps
    BY <1>4, <2>1, <2>2, Zenon DEF MapKeeps
  <2>4. ~DeletesAtOnce
    <3>1. loc[t].call.op = "delete" /\ loc[t].call.expiry # 0
      BY <1>0, <1>4, Zenon DEF CallFits, ParamsFit
    <3>2. loc[t].call \in Calls
      BY <1>0, Zenon DEF Local
    <3> QED
      BY <3>1, <3>2, Zenon DEF DeletesAtOnce
  <2> QED
    BY <1>0, <1>1, <2>3, <2>4, ReturnsEmpty, Zenon
<1> QED
  BY <1>2, <1>3, <1>4

\* Before the first call.
LEMMA InitWInv == Init => WInv
<1> SUFFICES ASSUME Init PROVE WInv
  OBVIOUS
<1>1. /\ DOMAIN gKeyToValueHashMap = {} /\ gFlushAllTimestamp = 0 /\ gTimestamp = 0
      /\ gFlushAllTime = 0 /\ now = 1
      /\ \A t \in Threads : pc[t] = "idle" /\ seen[t] = {}
  BY DEF Init
<1>2. FlushesInOrder /\ TokensIssued /\ WrittenEarlier
  BY <1>1 DEF FlushesInOrder, FlushHidesOlder, TokensIssued, WrittenEarlier
<1>3. ASSUME NEW t \in Threads
      PROVE  CallFits(t)
  BY <1>1, Zenon DEF CallFits, StampFits, FlushFits, TokenFits, ParamsFit, GetFits, HasRead,
     StampedPcs, LinkPcs, BeforePcs, TokenPcs
<1> QED
  BY <1>2, <1>3 DEF WInv

\* A step that changes nothing.
LEMMA StutterWorker == WInv /\ UNCHANGED vars => WInv'
<1> SUFFICES ASSUME WInv, UNCHANGED vars PROVE WInv'
  OBVIOUS
<1>1. /\ gKeyToValueHashMap' = gKeyToValueHashMap /\ gTimestamp' = gTimestamp
      /\ gFlushAllTimestamp' = gFlushAllTimestamp /\ gFlushAllTime' = gFlushAllTime
      /\ gIsFlushAllSet' = gIsFlushAllSet /\ generator' = generator /\ now' = now
      /\ seen' = seen /\ pc' = pc /\ loc' = loc
  BY Zenon DEF vars, store, flushState, env
<1>2. /\ \A c : Issued(c)' <=> Issued(c)
      /\ \A c, k, v : Means(c, k, v)' <=> Means(c, k, v)
      /\ \A t : Key(t)' = Key(t)
  BY <1>1, Zenon DEF Issued, Means, Key
<1>3. FlushesInOrder' /\ WrittenEarlier'
  BY <1>1, Zenon DEF WInv, FlushesInOrder, FlushHidesOlder, WrittenEarlier
<1>4. TokensIssued'
  BY <1>1, <1>2, Zenon DEF WInv, TokensIssued
<1>5. ASSUME NEW t \in Threads
      PROVE  CallFits(t)'
  <2>1. StampFits(t)' /\ FlushFits(t)' /\ TokenFits(t)' /\ ParamsFit(t)'
    BY <1>1, <1>2, Zenon DEF WInv, CallFits, StampFits, FlushFits, TokenFits, ParamsFit
  <2>2. GetFits(t)'
    BY <1>1, <1>2, Zenon DEF WInv, CallFits, GetFits, HasRead
  <2> QED
    BY <2>1, <2>2 DEF CallFits
<1> QED
  BY <1>3, <1>4, <1>5 DEF WInv

\* Every step of the one worker preserves the invariant, and brings nothing dead back.
LEMMA NextWorker ==
  ASSUME OneWorker, IInv, IInv', WInv, Next
  PROVE  WInv' /\ (DeletesAtOnce => StaysDead)
<1>1. CASE Tick
  BY <1>1, TickWorker, Zenon
<1>2. ASSUME NEW t \in Threads, NEW c \in Calls, Begin(t, c)
      PROVE  WInv' /\ StaysDead
  BY <1>2, BeginWorker, Zenon
<1>3. ASSUME NEW t \in Threads, Quiet(t) /\ MapShrinks
      PROVE  WInv' /\ StaysDead
  <2>1. UNCHANGED <<gFlushAllTimestamp, now>>
    BY <1>3, Zenon DEF Quiet, flushState, env
  <2> QED
    BY <1>3, <2>1, QuietStep, ShrinkStaysDead, Zenon
<1>4. ASSUME NEW t \in Threads, MakeRoom(t) \/ BadAlloc(t)
      PROVE  WInv' /\ StaysDead
  BY <1>3, <1>4, RoomQuiet, EvictQuiet, Zenon DEF MakeRoom
<1>5. ASSUME NEW t \in Threads, Grow(t) \/ Resize(t) \/ Erase(t) \/ Link(t) \/ Relink(t)
      PROVE  WInv' /\ StaysDead
  BY <1>3, <1>5, LinkQuiet, Zenon
<1>6. ASSUME NEW t \in Threads, Flush(t)
      PROVE  WInv' /\ StaysDead
  BY <1>6, FlushWorker, FlushStoreWorker, Zenon DEF Flush
<1>7. ASSUME NEW t \in Threads, Stamp(t) \/ Draw(t) \/ Drawn(t) \/ Emplace(t) \/ Get(t) \/ Return(t)
      PROVE  WInv' /\ StaysDead
  BY <1>7, StampWorker, DrawWorker, EmplaceWorker, GetWorker, ReturnWorker, Zenon
<1>8. ASSUME NEW t \in Threads, Step(t)
      PROVE  WInv' /\ (DeletesAtOnce => StaysDead)
  BY <1>4, <1>5, <1>6, <1>7, <1>8, DeleteWorker, Zenon DEF Step
<1> QED
  BY <1>1, <1>2, <1>8, Zenon DEF Next

\* With one worker the invariant holds in every reachable state.
LEMMA WorkerInvariance == OneWorker => (Spec => [](IInv /\ WInv))
<1>1. ASSUME OneWorker
      PROVE  IInv /\ IInv' /\ WInv /\ [Next]_vars => WInv'
  BY <1>1, NextWorker, StutterWorker, Zenon
<1>2. ASSUME OneWorker
      PROVE  Spec => [](IInv /\ WInv)
  BY <1>1, <1>2, InitIInv, NextIInv, InitWInv, PTL DEF Spec
<1> QED
  BY <1>2

\* A flush hides every value stored before it, for good, when calls do not overlap:
\* the stamp that dbHandleFlushAll draws and publishes in two steps is then still the
\* newest when it is published.
THEOREM FlushHidesOlderWithOneWorker == OneWorker => (Spec => []FlushHidesOlder)
<1>1. IInv /\ WInv => FlushHidesOlder
  BY DEF WInv, FlushesInOrder
<1> QED
  BY <1>1, WorkerInvariance, PTL

\* A delayed flush_all that has not yet happened keeps its flag, when calls do not
\* overlap: no handler clears the flag of a flush it has not performed.
THEOREM PendingFlushArmedWithOneWorker == OneWorker => (Spec => []PendingFlushArmed)
<1>1. IInv /\ WInv => PendingFlushArmed
  BY DEF WInv, FlushesInOrder, PendingFlushArmed
<1> QED
  BY <1>1, WorkerInvariance, PTL

\* What has expired or been flushed stays so until it is stored anew, when calls do
\* not overlap: dbGetElement renews live elements only, flush stamps are published in
\* order, and dbDeleteElement, called with time 0, moves no expiry.
THEOREM NoResurrectionWithOneWorker == OneWorker /\ DeletesAtOnce => (Spec => NoResurrection)
<1>1. ASSUME OneWorker, DeletesAtOnce
      PROVE  IInv /\ IInv' /\ WInv /\ [Next]_vars => [StaysDead]_vars
  BY <1>1, NextWorker, Zenon
<1>2. ASSUME OneWorker, DeletesAtOnce
      PROVE  Spec => [][StaysDead]_vars
  <2>1. Spec => [](IInv /\ WInv)
    BY <1>2, WorkerInvariance
  <2> QED
    BY <1>1, <1>2, <2>1, PTL DEF Spec
<1> QED
  BY <1>2, Zenon DEF NoResurrection, StaysDead

\* A cas store replaces only the value its client last read, when calls do not
\* overlap: every token the generator hands out is newer than the one the client holds.
THEOREM CasReplacesWhatWasReadWithOneWorker == OneWorker => (Spec => CasReplacesWhatWasRead)
<1> DEFINE ReadValue ==
      \A t \in Threads :
        (pc[t] = "emplace" /\ pc'[t] = "erase" /\ loc[t].call.cas /\ loc[t].check[2] # 0) =>
          \A s \in seen[t] : gKeyToValueHashMap[Key(t)].value = s.value
<1>1. ASSUME OneWorker
      PROVE  IInv /\ WInv /\ [Next]_vars => [ReadValue]_vars
  <2> SUFFICES ASSUME IInv, WInv, Next, NEW t \in Threads, pc[t] = "emplace", pc'[t] = "erase",
                      loc[t].call.cas, loc[t].check[2] # 0, NEW s \in seen[t]
               PROVE  gKeyToValueHashMap[Key(t)].value = s.value
    OBVIOUS
  <2>1. PICK u \in Threads : Step(u) \/ \E c \in Calls : Begin(u, c)
    BY Zenon DEF Next, Tick
  <2>2. u = t
    BY <1>1, Zenon DEF OneWorker
  <2>3. \A p : pc' = [pc EXCEPT ![t] = p] => p = "erase"
    BY Types
  <2>4. Emplace(t)
    <3>1. Emplace(t) \/ BadAlloc(t)
      BY <2>1, <2>2, Zenon DEF Step, MakeRoom, Flush, Begin, Stamp, Draw, Drawn, CheckMemory,
         ProbeEmpty, ProbeNonEmpty, LockTimestamps, LockValues, Scan, Get, Delete, Grow, Resize,
         Erase, Link, Relink, SetFlush, FlushTime, FlushStamp, FlushStore, FlushClear, Return
    <3>2. ~BadAlloc(t)
      BY <2>3 DEF BadAlloc, ReturnStatus, GotoWith
    <3> QED
      BY <3>1, <3>2
  <2>5. PICK r \in seen[t] : r.key = Key(t) /\ r.cas = loc[t].check
    BY Zenon DEF WInv, CallFits, ParamsFit, TokenPcs, Key
  <2>6. r = s /\ Issued(s.cas) /\ Means(s.cas, s.key, s.value)
    BY Zenon DEF WInv, TokensIssued
  <2>7. s.cas # NoCas
    BY <2>6 DEF Issued, NoCas
  <2>8. Key(t) \in DOMAIN gKeyToValueHashMap /\ gKeyToValueHashMap[Key(t)].cas = s.cas
    <3>1. ~EmplaceNew(t) /\ ~Overwrite(t, "relink") /\ \A x : ~ReturnStatus(t, x)
      BY <2>3 DEF EmplaceNew, Overwrite, ReturnStatus, Goto, GotoWith
    <3>2. /\ Key(t) \in DOMAIN gKeyToValueHashMap
          /\ loc[t].check \in {NoCas, gKeyToValueHashMap[Key(t)].cas}
      BY <2>4, <3>1, Zenon DEF Emplace, InsertEmplace, AddEmplace
    <3> QED
      BY <2>5, <2>6, <2>7, <3>2, Zenon
  <2> QED
    BY <2>5, <2>6, <2>8, Zenon DEF Means
<1>2. ASSUME OneWorker
      PROVE  Spec => [][ReadValue]_vars
  <2>1. Spec => [](IInv /\ WInv)
    BY <1>2, WorkerInvariance
  <2> QED
    BY <1>1, <1>2, <2>1, PTL DEF Spec
<1> QED
  BY <1>2, Zenon DEF CasReplacesWhatWasRead
=============================================================================
