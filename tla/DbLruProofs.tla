---------------------------- MODULE DbLruProofs ----------------------------
(***************************************************************************)
(* Results about DbLru, for any number of threads, keys, tables and calls. *)
(*                                                                         *)
(* One inductive invariant, IInv, carries all of them.  Its parts: types;  *)
(* what the two mutexes protect while removeLRUElement scans a table; who  *)
(* owns a stamp; and that eviction can reach every element.  The actions   *)
(* fall into four shapes (thread-local, map, timestamp set, eviction); a   *)
(* lemma for each shape says what a step must respect to preserve IInv.    *)
(***************************************************************************)
EXTENDS DbLru, TLAPS

OneHolder == \A b \in Tables : /\ \A t, u \in gKeyToValueMutex[b] : t = u
                               /\ \A t, u \in gTimestampToKeyMutex[b] : t = u

EvictorHolds ==
  \A t \in Threads :
    /\ pc[t] \in {"lockValues", "scan"} => t \in gTimestampToKeyMutex[loc[t].table]
    /\ pc[t] = "scan" => t \in gKeyToValueMutex[loc[t].table]

TimestampsInOwnTable == \A b \in Tables : \A e \in gTimestampToKeySet[b] : TableOf[e.key] = b

DrawnIsToken == \A t \in Threads : pc[t] = "drawn" => loc[t].cas \in Nat \X Nat

\* Stamp n is recorded for key k: in the set, in the map, or by a call.
Claimed(n, k) ==
  \/ [timestamp |-> n, key |-> k] \in gTimestampToKeySet[TableOf[k]]
  \/ k \in DOMAIN gKeyToValueHashMap /\ gKeyToValueHashMap[k].timestamp = n
  \/ \E t \in Threads : /\ Key(t) = k
                        /\ \/ pc[t] \in StampedPcs /\ loc[t].timestamp = n
                           \/ pc[t] \in {"erase", "relink"} /\ loc[t].old = n

\* Recorded stamps have been drawn, each for one key.
StampsOwned ==
  \A n \in Nat : \A k \in Keys :
    Claimed(n, k) => n < gTimestamp /\ \A j \in Keys : Claimed(n, j) => j = k

IInv == /\ TypeOK /\ OneHolder /\ EvictorHolds /\ TimestampsInOwnTable /\ DrawnIsToken
        /\ CandidateStaysValid /\ StampsOwned /\ EveryEntryEvictable

-----------------------------------------------------------------------------
(* What a step of thread t may do to its own state *)

\* Types of everything but the structures and the mutexes.
AtomicsOK ==
  /\ gStoredSize \in 0 .. WordMod - 1
  /\ {gTimestamp, gFlushAllTimestamp, gFlushAllTime} \subseteq Nat
  /\ gIsFlushAllSet \in BOOLEAN
  /\ generator \in [seed: SUBSET Nat, next: Nat]
  /\ now \in Nat
  /\ seen \in [Threads -> SUBSET [key: Keys, cas: CasTokens, value: Values]]

\* Only t moves; it draws at most one stamp, and keeps what it owes.
Moves(t) ==
  /\ pc' \in [Threads -> Pcs] /\ loc' \in [Threads -> Local]
  /\ \A u \in Threads \ {t} : pc'[u] = pc[u] /\ loc'[u] = loc[u]
  /\ pc'[t] = "drawn" => loc'[t].cas \in Nat \X Nat
  /\ gTimestamp' \in Nat /\ gTimestamp' >= gTimestamp
  /\ pc'[t] \in StampedPcs =>
       \/ pc[t] \in StampedPcs /\ loc'[t].timestamp = loc[t].timestamp
                               /\ loc'[t].call = loc[t].call
       \/ loc'[t].timestamp = gTimestamp /\ gTimestamp' = gTimestamp + 1
  /\ pc'[t] \in {"erase", "relink"} => Claimed(loc'[t].old, loc'[t].call.key)

\* A step that has its timestamp still to insert keeps it so.
KeepsLink(t) == pc[t] \in LinkPcs => pc'[t] \in LinkPcs /\ loc'[t].call = loc[t].call

\* Stamps are claimed anew only by drawing one.
ClaimsGrow(t) ==
  \A n \in Nat : \A k \in Keys :
    Claimed(n, k)' => \/ Claimed(n, k)
                      \/ n = gTimestamp /\ gTimestamp' = gTimestamp + 1 /\ k = Key(t)'

\* Ownership of stamps is kept by a step that claims nothing but a stamp it draws.
LEMMA StampsOwnedStep ==
  ASSUME IInv, NEW t \in Threads, Moves(t), ClaimsGrow(t)
  PROVE  StampsOwned'
<1>1. /\ gTimestamp \in Nat /\ gTimestamp' \in Nat /\ gTimestamp' >= gTimestamp
      /\ StampsOwned
  BY DEF IInv, TypeOK, Moves
<1>2. ASSUME NEW n \in Nat, NEW k \in Keys, Claimed(n, k)'
      PROVE  n < gTimestamp'
  BY <1>1, <1>2 DEF StampsOwned, ClaimsGrow
<1>3. ASSUME NEW n \in Nat, NEW k \in Keys, NEW j \in Keys, Claimed(n, k)', Claimed(n, j)'
      PROVE  j = k
  BY <1>1, <1>3 DEF StampsOwned, ClaimsGrow
<1> QED
  BY <1>2, <1>3 DEF StampsOwned

\* The types that the steps of a call rely on.
LEMMA Types ==
  ASSUME IInv
  PROVE  pc \in [Threads -> Pcs] /\ loc \in [Threads -> Local] /\ gTimestamp \in Nat
BY DEF IInv, TypeOK

\* The types of the map's domain, the timestamp sets and the mutexes.
LEMMA Structures ==
  ASSUME IInv
  PROVE  /\ DOMAIN gKeyToValueHashMap \subseteq Keys
         /\ gTimestampToKeySet \in [Tables -> SUBSET TimestampToKeyStruct]
         /\ gKeyToValueMutex \in [Tables -> SUBSET Threads]
         /\ gTimestampToKeyMutex \in [Tables -> SUBSET Threads]
BY DEF IInv, TypeOK

\* The locals of a thread with no call are well typed, and hold no result.
LEMMA BlankType == Blank \in Local /\ Blank.one = {} /\ Blank.status = "none"
<1> DEFINE S == [call: Calls, cur: {0}, check: {NoCas}, cas: {NoCas}, value: Values,
                 expiry: {0}, timestamp: {0}, table: {0}, old: {0}, diff: {0},
                 evictCur: {0}, one: {{}}, status: {"none"}]
<1>1. PICK c \in Calls : c.value \in Values
  BY CallsAssumption DEF CallRecord
<1>2. [call |-> c, cur |-> 0, check |-> NoCas, cas |-> NoCas, value |-> c.value,
       expiry |-> 0, timestamp |-> 0, table |-> 0, old |-> 0, diff |-> 0,
       evictCur |-> 0, one |-> {}, status |-> "none"] \in S
  BY <1>1
<1>3. Blank \in S
  BY <1>2, Zenon DEF Blank
<1>4. S \subseteq Local
  BY TablesAssumption DEF Local, CasTokens, Tables, Statuses
<1> QED
  BY <1>3, <1>4

-----------------------------------------------------------------------------
(* The shapes of steps *)

\* A move of a thread from label to label that keeps its call and its stamp.
LEMMA GotoMoves ==
  ASSUME IInv, NEW t \in Threads, NEW p \in Pcs, NEW l \in Local,
         pc' = [pc EXCEPT ![t] = p], loc' = [loc EXCEPT ![t] = l],
         l.call = loc[t].call, l.timestamp = loc[t].timestamp, UNCHANGED gTimestamp,
         p \notin {"drawn", "erase", "relink"}, p \in StampedPcs => pc[t] \in StampedPcs
  PROVE  Moves(t) /\ pc'[t] = p /\ loc'[t] = l
<1>1. pc'[t] = p /\ loc'[t] = l
  BY Types
<1> QED
  BY <1>1, Types DEF Moves

\* The same for a call that takes the stamp of an entry out of use.
LEMMA ClaimMoves ==
  ASSUME IInv, NEW t \in Threads, NEW p, p \in {"erase", "relink"}, NEW l \in Local,
         pc' = [pc EXCEPT ![t] = p], loc' = [loc EXCEPT ![t] = l],
         l.call = loc[t].call, l.timestamp = loc[t].timestamp, UNCHANGED gTimestamp,
         pc[t] \in StampedPcs, Claimed(l.old, l.call.key)
  PROVE  Moves(t) /\ pc'[t] = p /\ loc'[t] = l
<1>1. pc \in [Threads -> Pcs] /\ loc \in [Threads -> Local] /\ gTimestamp \in Nat
  BY Types, Zenon
<1>2. pc'[t] = p /\ loc'[t] = l
  BY <1>1, Zenon
<1>3. p \in Pcs
  BY Zenon DEF Pcs
<1>4. pc' \in [Threads -> Pcs] /\ loc' \in [Threads -> Local]
  BY <1>1, <1>3, Zenon
<1>5. \A u \in Threads \ {t} : pc'[u] = pc[u] /\ loc'[u] = loc[u]
  BY <1>1, Zenon
<1>6. p # "drawn"
  BY Zenon
<1>7. gTimestamp' \in Nat /\ gTimestamp' >= gTimestamp
  BY <1>1
<1> QED
  BY <1>2, <1>4, <1>5, <1>6, <1>7, Zenon DEF Moves

\* A step that leaves the map and the sets alone keeps what the invariant says of them.
LEMMA StoreKept ==
  ASSUME IInv, NEW t \in Threads, Moves(t), KeepsLink(t), UNCHANGED store
  PROVE  TimestampsInOwnTable' /\ DrawnIsToken' /\ StampsOwned' /\ EveryEntryEvictable'
<1>1. TimestampsInOwnTable' /\ DrawnIsToken'
  BY DEF IInv, TimestampsInOwnTable, DrawnIsToken, Moves, store
<1>2. ClaimsGrow(t)
  BY DEF ClaimsGrow, Claimed, Moves, Key, store
<1>3. StampsOwned'
  BY <1>2, StampsOwnedStep
<1>4. EveryEntryEvictable'
  <2>1. EveryEntryEvictable
    BY DEF IInv
  <2> QED
    BY <2>1 DEF EveryEntryEvictable, KeepsLink, Moves, Key, store
<1> QED
  BY <1>1, <1>3, <1>4

\* Thread-local steps: neither structure nor mutex changes, no scan begins.
LEMMA LocalShape ==
  ASSUME IInv, NEW t \in Threads, Moves(t), KeepsLink(t), AtomicsOK',
         UNCHANGED <<store, mutexes>>,
         pc'[t] \notin {"lockValues", "scan"}
  PROVE  IInv'
<1>1. TypeOK'
  BY DEF IInv, TypeOK, AtomicsOK, Moves, store, mutexes
<1>2. OneHolder' /\ EvictorHolds' /\ CandidateStaysValid'
  BY DEF IInv, OneHolder, EvictorHolds, CandidateStaysValid, Moves, store, mutexes
<1> QED
  BY <1>1, <1>2, StoreKept DEF IInv

\* Regions under gKeyToValueMutex: the map changes at the call's key only.
MapChange(t) ==
  LET k == Key(t)
      m == gKeyToValueHashMap
  IN /\ DOMAIN m' \subseteq Keys
     /\ \A j \in DOMAIN m' : m'[j] \in Entry
     /\ \A j \in Keys \ {k} : j \in DOMAIN m' <=> j \in DOMAIN m
     /\ \A j \in DOMAIN m' \ {k} : m'[j] = m[j]
     /\ k \in DOMAIN m' =>
          /\ \/ k \in DOMAIN m /\ m'[k].timestamp = m[k].timestamp
             \/ pc[t] \in StampedPcs /\ m'[k].timestamp = loc[t].timestamp
          /\ k \in DOMAIN m \/ (pc'[t] \in LinkPcs /\ loc'[t].call = loc[t].call)

\* A step that changes the map at its own key, while that key's table is not being
\* scanned, preserves the invariant.
LEMMA MapShape ==
  ASSUME IInv, NEW t \in Threads, Moves(t), KeepsLink(t), AtomicsOK', MapChange(t),
         Free(gKeyToValueMutex, Table(t)),
         UNCHANGED <<gTimestampToKeySet, mutexes>>,
         pc'[t] \notin {"lockValues", "scan"}
  PROVE  IInv'
<1>1. TypeOK'
  BY DEF IInv, TypeOK, AtomicsOK, Moves, MapChange, mutexes
<1>2. OneHolder' /\ TimestampsInOwnTable'
  BY DEF IInv, OneHolder, TimestampsInOwnTable, mutexes
<1>3. EvictorHolds' /\ DrawnIsToken'
  BY DEF IInv, EvictorHolds, DrawnIsToken, Moves, mutexes
<1>4. CandidateStaysValid'
  <2> SUFFICES ASSUME NEW u \in Threads, pc'[u] = "scan", NEW e \in loc'[u].one
               PROVE  e \in gTimestampToKeySet'[loc'[u].table] /\ e.key \in DOMAIN gKeyToValueHashMap'
    BY DEF CandidateStaysValid
  <2>1. u # t /\ pc[u] = "scan" /\ loc'[u] = loc[u]
    BY DEF Moves
  <2>2. /\ e \in gTimestampToKeySet[loc[u].table]
        /\ e.key \in DOMAIN gKeyToValueHashMap
        /\ loc[u].table \in Tables
        /\ u \in gKeyToValueMutex[loc[u].table]
    BY <2>1, Types DEF IInv, Local, CandidateStaysValid, EvictorHolds
  <2>3. e.key # Key(t) /\ e.key \in Keys
    BY <2>2, Structures DEF IInv, TimestampsInOwnTable, Free, Table
  <2> QED
    BY <2>1, <2>2, <2>3 DEF MapChange
<1>5. ClaimsGrow(t)
  <2> SUFFICES ASSUME NEW n \in Nat, NEW k \in Keys, Claimed(n, k)', ~Claimed(n, k)
               PROVE  n = gTimestamp /\ gTimestamp' = gTimestamp + 1 /\ k = Key(t)'
    BY DEF ClaimsGrow
  <2>1. ~(k \in DOMAIN gKeyToValueHashMap' /\ gKeyToValueHashMap'[k].timestamp = n)
    BY Zenon DEF Claimed, MapChange, Key
  <2> QED
    BY <2>1, SMTT(30) DEF Claimed, Moves, Key
<1>6. StampsOwned'
  BY <1>5, StampsOwnedStep
<1>7. EveryEntryEvictable'
  BY Structures DEF IInv, EveryEntryEvictable, KeepsLink, Moves, MapChange, Key
<1> QED
  BY <1>1, <1>2, <1>3, <1>4, <1>6, <1>7 DEF IInv

\* Regions under gTimestampToKeyMutex: timestamps of the call's key go, its own comes.
TimestampChange(t) ==
  LET b == Table(t)
      mine == [timestamp |-> loc[t].timestamp, key |-> Key(t)]
  IN \E S \in SUBSET TimestampToKeyStruct :
       /\ gTimestampToKeySet' = [gTimestampToKeySet EXCEPT ![b] = S]
       /\ \A e \in S : e \in gTimestampToKeySet[b] \/ (e = mine /\ pc[t] \in StampedPcs)
       /\ \A e \in gTimestampToKeySet[b] \ S : e.key = Key(t)
       /\ mine \in S \/ (pc'[t] \in LinkPcs /\ loc'[t].call = loc[t].call)

\* A step that replaces timestamps of its own key, while that table is not being
\* scanned, preserves the invariant.
LEMMA TimestampShape ==
  ASSUME IInv, NEW t \in Threads, Moves(t), AtomicsOK', TimestampChange(t),
         pc[t] \in LinkPcs,
         Free(gTimestampToKeyMutex, Table(t)),
         UNCHANGED <<gKeyToValueHashMap, mutexes>>,
         pc'[t] \notin {"lockValues", "scan"}
  PROVE  IInv'
<1> DEFINE b == Table(t)
           mine == [timestamp |-> loc[t].timestamp, key |-> Key(t)]
<1>0. PICK S \in SUBSET TimestampToKeyStruct :
       /\ gTimestampToKeySet' = [gTimestampToKeySet EXCEPT ![b] = S]
       /\ \A e \in S : e \in gTimestampToKeySet[b] \/ (e = mine /\ pc[t] \in StampedPcs)
       /\ \A e \in gTimestampToKeySet[b] \ S : e.key = Key(t)
       /\ mine \in S \/ (pc'[t] \in LinkPcs /\ loc'[t].call = loc[t].call)
  BY Zenon DEF TimestampChange
<1>k. Key(t) \in Keys /\ b \in Tables
  BY Types, CallsAssumption, TablesAssumption DEF Local, CallRecord, Key, Table
<1>1. TypeOK'
  BY <1>0, <1>k, Zenon DEF IInv, TypeOK, AtomicsOK, Moves, mutexes
<1>2. OneHolder' /\ EvictorHolds' /\ DrawnIsToken'
  BY DEF IInv, OneHolder, EvictorHolds, DrawnIsToken, Moves, mutexes
<1>3. TimestampsInOwnTable'
  BY <1>0, <1>k, Structures DEF IInv, TimestampsInOwnTable, Table
<1>4. CandidateStaysValid'
  <2> SUFFICES ASSUME NEW u \in Threads, pc'[u] = "scan", NEW e \in loc'[u].one
               PROVE  e \in gTimestampToKeySet'[loc'[u].table] /\ e.key \in DOMAIN gKeyToValueHashMap'
    BY DEF CandidateStaysValid
  <2>1. u # t /\ pc[u] = "scan" /\ loc'[u] = loc[u]
    BY Zenon DEF Moves
  <2>2. /\ e \in gTimestampToKeySet[loc[u].table]
        /\ e.key \in DOMAIN gKeyToValueHashMap
        /\ loc[u].table \in Tables
        /\ u \in gTimestampToKeyMutex[loc[u].table]
    BY <2>1, Types DEF IInv, Local, CandidateStaysValid, EvictorHolds
  <2>3. loc[u].table # b
    BY <2>2, ZenonT(30) DEF Free
  <2> QED
    BY <1>0, <2>1, <2>2, <2>3, Structures
<1>5. ClaimsGrow(t)
  <2> SUFFICES ASSUME NEW n \in Nat, NEW k \in Keys, Claimed(n, k)', ~Claimed(n, k)
               PROVE  n = gTimestamp /\ gTimestamp' = gTimestamp + 1 /\ k = Key(t)'
    BY DEF ClaimsGrow
  <2>1. ASSUME [timestamp |-> n, key |-> k] \in gTimestampToKeySet'[TableOf[k]]
        PROVE  FALSE
    <3>1. TableOf[k] \in Tables
      BY TablesAssumption, Zenon
    <3>2. [timestamp |-> n, key |-> k] \notin gTimestampToKeySet[TableOf[k]]
      BY SMTT(30) DEF Claimed
    <3>3. TableOf[k] = b /\ [timestamp |-> n, key |-> k] = mine /\ pc[t] \in StampedPcs
      BY <1>0, <1>k, <2>1, <3>1, <3>2, Structures
    <3> QED
      BY <3>3 DEF Claimed
  <2> QED
    BY <2>1 DEF Claimed, Moves, Key
<1>6. StampsOwned'
  BY <1>5, StampsOwnedStep
<1>7. EveryEntryEvictable'
  <2> SUFFICES ASSUME NEW k \in DOMAIN gKeyToValueHashMap
               PROVE  \/ \E e \in gTimestampToKeySet'[TableOf[k]] : e.key = k
                      \/ \E u \in Threads : pc'[u] \in LinkPcs /\ loc'[u].call.key = k
    BY DEF EveryEntryEvictable, Key
  <2>1. k \in Keys /\ TableOf[k] \in Tables
    BY TablesAssumption, Structures, Zenon
  <2>2. CASE k = Key(t)
    BY <1>0, <1>k, <2>2, Structures DEF Key, Table
  <2>3. CASE k # Key(t) /\ \E e \in gTimestampToKeySet[TableOf[k]] : e.key = k
    BY <1>0, <1>k, <2>1, <2>3, Structures
  <2>4. CASE k # Key(t) /\ \E u \in Threads : pc[u] \in LinkPcs /\ Key(u) = k
    BY <2>4, SMTT(30) DEF Moves, Key
  <2>5. EveryEntryEvictable
    BY DEF IInv
  <2> QED
    BY <2>2, <2>3, <2>4, <2>5 DEF EveryEntryEvictable
<1> QED
  BY <1>1, <1>2, <1>3, <1>4, <1>6, <1>7 DEF IInv
-----------------------------------------------------------------------------
(* The steps outside the map and the sets, and the regions under gKeyToValueMutex *)


\* Arithmetic on unsigned long yields an unsigned long.
LEMMA WrapType == \A n \in Int : Wrap(n) \in 0 .. WordMod - 1
  BY SizesAssumption DEF Wrap

\* The key of a call, its table, and the table a scan is at are in range.
LEMMA KeyType ==
  ASSUME TypeOK, NEW t \in Threads
  PROVE  Key(t) \in Keys /\ Table(t) \in Tables /\ loc[t].table \in Tables
  BY CallsAssumption, TablesAssumption DEF TypeOK, Local, CallRecord, Key, Table

\* The start of a call preserves the invariant (reading the clock, and the flag tests of
\* dbSetFlushAll and dbHandleFlushAll).
LEMMA BeginStep ==
  ASSUME IInv, NEW t \in Threads, NEW c \in Calls, Begin(t, c)
  PROVE  IInv'
<1>1. c \in CallRecord /\ TableOf[c.key] \in Tables
  BY CallsAssumption, TablesAssumption DEF CallRecord
<1> DEFINE token == IF c.cas THEN (CHOOSE s \in seen[t] : TRUE).cas ELSE NoCas
           l == [Blank EXCEPT !.call = c, !.cur = now, !.check = token, !.value = c.value,
                              !.expiry = c.expiry, !.table = TableOf[c.key]]
<1>2. token \in CasTokens
  <2>1. CASE c.cas
    BY <2>1 DEF Begin, IInv, TypeOK
  <2>2. CASE ~c.cas
    BY <2>2 DEF CasTokens
  <2> QED BY <2>1, <2>2
<1>3. l \in Local
  <2> HIDE DEF token
  <2> QED
    BY <1>1, <1>2, BlankType, Zenon DEF IInv, TypeOK, Local, CallRecord
<1>4. \E p \in Pcs \ (StampedPcs \cup {"drawn"}) :
        pc' = [pc EXCEPT ![t] = p] /\ loc' = [loc EXCEPT ![t] = l]
  <2>1. FirstStep[c.op] \in Pcs \ (StampedPcs \cup {"drawn"})
    BY <1>1 DEF FirstStep, CallRecord, Pcs, StampedPcs, LinkPcs
  <2>2. "done" \in Pcs \ (StampedPcs \cup {"drawn"})
    BY DEF Pcs, StampedPcs, LinkPcs
  <2> QED
    BY <2>1, <2>2, Zenon DEF Begin, GotoWith
<1> HIDE DEF l
<1>5. Moves(t)
  BY <1>3, <1>4, Types DEF Begin, Moves, StampedPcs, LinkPcs
<1>6. KeepsLink(t) /\ AtomicsOK' /\ UNCHANGED <<store, mutexes>>
  BY DEF Begin, KeepsLink, LinkPcs, AtomicsOK, IInv, TypeOK, env
<1>7. pc'[t] \notin {"lockValues", "scan"}
  BY <1>4 DEF IInv, TypeOK, StampedPcs
<1> QED
  BY <1>5, <1>6, <1>7, LocalShape

\* The return of a call preserves the invariant.
LEMMA ReturnStep ==
  ASSUME IInv, NEW t \in Threads, Return(t)
  PROVE  IInv'
<1>1. Moves(t) /\ pc'[t] = "idle"
  BY BlankType, Types DEF Return, GotoWith, Moves, Pcs, StampedPcs, LinkPcs
<1>2. seen' \in [Threads -> SUBSET [key: Keys, cas: CasTokens, value: Values]]
  BY KeyType DEF Return, IInv, TypeOK, Local
<1>3. KeepsLink(t) /\ AtomicsOK' /\ UNCHANGED <<store, mutexes>>
  BY <1>2 DEF Return, KeepsLink, LinkPcs, AtomicsOK, IInv, TypeOK, flushState
<1> QED
  BY <1>1, <1>3, LocalShape

\* timestamp = gTimestamp++ preserves the invariant: the stamp is new.
LEMMA StampStep ==
  ASSUME IInv, NEW t \in Threads, Stamp(t)
  PROVE  IInv'
<1> DEFINE l == [loc[t] EXCEPT !.timestamp = gTimestamp]
           m == [l EXCEPT !.cas = <<l.cur, 0>>]
<1>1. l \in Local /\ m \in Local /\ l.timestamp = gTimestamp /\ m.timestamp = gTimestamp
  <2>1. l \in Local /\ l.timestamp = gTimestamp
    BY DEF IInv, TypeOK, Local
  <2> HIDE DEF l
  <2>2. <<l.cur, 0>> \in CasTokens
    BY <2>1 DEF Local, CasTokens
  <2> QED
    BY <2>1, <2>2 DEF Local
<1>2. \/ pc' = [pc EXCEPT ![t] = "draw"] /\ loc' = [loc EXCEPT ![t] = l]
      \/ pc' = [pc EXCEPT ![t] = "memory"] /\ loc' = [loc EXCEPT ![t] = m]
      \/ pc' = [pc EXCEPT ![t] = "get"] /\ loc' = [loc EXCEPT ![t] = l]
  BY DEF Stamp, GotoWith
<1> HIDE DEF l, m
<1>3. Moves(t) /\ pc'[t] \notin {"lockValues", "scan"}
  BY <1>1, <1>2, Types DEF Stamp, Moves, Pcs
<1>4. KeepsLink(t) /\ AtomicsOK' /\ UNCHANGED <<store, mutexes>>
  BY DEF Stamp, KeepsLink, LinkPcs, AtomicsOK, IInv, TypeOK, flushState, env
<1> QED
  BY <1>3, <1>4, LocalShape

\* Drawing a cas token preserves the invariant.
LEMMA DrawStep ==
  ASSUME IInv, NEW t \in Threads, Draw(t)
  PROVE  IInv'
<1> DEFINE seeded == IF generator.seed = {} THEN {loc[t].cur} ELSE generator.seed
<1>1. seeded \in SUBSET Nat /\ generator.next \in Nat
  BY DEF IInv, TypeOK, Local
<1>2. PICK s \in seeded : /\ pc' = [pc EXCEPT ![t] = "drawn"]
                          /\ loc' = [loc EXCEPT ![t] = [loc[t] EXCEPT !.cas = <<s, generator.next>>]]
  BY Zenon DEF Draw, GotoWith
<1> DEFINE l == [loc[t] EXCEPT !.cas = <<s, generator.next>>]
<1>3. /\ l \in Local /\ l.cas \in Nat \X Nat
      /\ l.timestamp = loc[t].timestamp /\ l.call = loc[t].call
  <2>1. <<s, generator.next>> \in Nat \X Nat /\ <<s, generator.next>> \in CasTokens
    BY <1>1 DEF CasTokens
  <2>2. loc[t] \in Local
    BY DEF IInv, TypeOK
  <2> QED
    BY <2>1, <2>2 DEF Local
<1> HIDE DEF l
<1>4. Moves(t) /\ pc'[t] = "drawn"
  BY <1>2, <1>3, Types DEF Draw, Moves, Pcs, StampedPcs, l
<1>5. KeepsLink(t) /\ AtomicsOK' /\ UNCHANGED <<store, mutexes>>
  BY <1>1 DEF Draw, KeepsLink, LinkPcs, AtomicsOK, IInv, TypeOK, flushState, env
<1> QED
  BY <1>4, <1>5, LocalShape

\* Advancing the generator preserves the invariant.
LEMMA DrawnStep ==
  ASSUME IInv, NEW t \in Threads, Drawn(t)
  PROVE  IInv'
<1>1. loc[t].cas[2] + 1 \in Nat
  BY DEF Drawn, IInv, DrawnIsToken
<1>2. Moves(t) /\ pc'[t] = "memory"
  BY Types DEF Drawn, Goto, Moves, Pcs, StampedPcs
<1>3. KeepsLink(t) /\ AtomicsOK' /\ UNCHANGED <<store, mutexes>>
  BY <1>1 DEF Drawn, KeepsLink, LinkPcs, AtomicsOK, IInv, TypeOK, flushState, env
<1> QED
  BY <1>2, <1>3, LocalShape

\* The steps of the loop that makes room, outside removeLRUElement.
LEMMA RoomStep ==
  ASSUME IInv, NEW t \in Threads, CheckMemory(t) \/ ProbeEmpty(t) \/ ProbeNonEmpty(t)
  PROVE  IInv'
<1>1. NextTable(loc[t].table) \in Tables
  BY KeyType, TablesAssumption DEF IInv, NextTable, Tables
<1>2. \E l \in Local : \E p \in Pcs \ {"lockValues", "scan", "drawn", "erase", "relink"} :
        /\ l.timestamp = loc[t].timestamp /\ l.call = loc[t].call
        /\ pc' = [pc EXCEPT ![t] = p] /\ loc' = [loc EXCEPT ![t] = l]
  <2>0. loc[t] \in Local /\ now \in Nat
    BY DEF IInv, TypeOK
  <2>1. CASE CheckMemory(t)
    <3> DEFINE l == [loc[t] EXCEPT !.table = Table(t)]
    <3>1. l \in Local /\ l.timestamp = loc[t].timestamp /\ l.call = loc[t].call
      BY KeyType, <2>0 DEF IInv, Local
    <3>2. loc' = [loc EXCEPT ![t] = l] \/ loc' = [loc EXCEPT ![t] = loc[t]]
      BY <2>1 DEF CheckMemory, Goto, GotoWith, IInv, TypeOK
    <3> QED
      BY <2>0, <2>1, <3>1, <3>2, Zenon DEF CheckMemory, Goto, GotoWith, Pcs
  <2>2. CASE ProbeEmpty(t)
    <3> DEFINE moved == [loc[t] EXCEPT !.table = NextTable(loc[t].table)]
               full == [moved EXCEPT !.status = "MEMORY_FULL"]
               evict == [moved EXCEPT !.evictCur = now]
    <3>1. /\ {moved, full, evict} \subseteq Local
          /\ \A l \in {moved, full, evict} :
               l.timestamp = loc[t].timestamp /\ l.call = loc[t].call
      <4>1. moved \in Local /\ moved.timestamp = loc[t].timestamp /\ moved.call = loc[t].call
        BY <1>1, <2>0 DEF Local
      <4> HIDE DEF moved
      <4>2. full \in Local /\ full.timestamp = loc[t].timestamp /\ full.call = loc[t].call
        BY <4>1 DEF Local, Statuses
      <4>3. evict \in Local /\ evict.timestamp = loc[t].timestamp /\ evict.call = loc[t].call
        BY <2>0, <4>1 DEF Local
      <4> QED
        BY <4>1, <4>2, <4>3
    <3>2. \/ pc' = [pc EXCEPT ![t] = "done"] /\ loc' = [loc EXCEPT ![t] = full]
          \/ pc' = [pc EXCEPT ![t] = "memory"] /\ loc' = [loc EXCEPT ![t] = moved]
          \/ pc' = [pc EXCEPT ![t] = "lockTimestamps"] /\ loc' = [loc EXCEPT ![t] = evict]
      BY <2>2 DEF ProbeEmpty, GotoWith
    <3> HIDE DEF moved, full, evict
    <3> QED
      BY <3>1, <3>2 DEF Pcs
  <2>3. CASE ProbeNonEmpty(t)
    <3> DEFINE l == [loc[t] EXCEPT !.evictCur = now]
    <3>1. l \in Local /\ l.timestamp = loc[t].timestamp /\ l.call = loc[t].call
      BY <2>0 DEF Local
    <3>2. pc' = [pc EXCEPT ![t] = "lockTimestamps"] /\ loc' = [loc EXCEPT ![t] = l]
      BY <2>3 DEF ProbeNonEmpty, GotoWith
    <3> HIDE DEF l
    <3> QED
      BY <3>1, <3>2, Zenon DEF Pcs
  <2> QED
    BY <2>1, <2>2, <2>3
<1>3. /\ pc[t] \in {"memory", "probe"}
      /\ UNCHANGED <<store, mutexes, gStoredSize, gTimestamp, flushState, generator, env>>
  BY Zenon DEF CheckMemory, ProbeEmpty, ProbeNonEmpty
<1>4. Moves(t) /\ pc'[t] \notin {"lockValues", "scan"}
  BY <1>2, <1>3, Types DEF Moves, StampedPcs
<1>5. KeepsLink(t) /\ AtomicsOK'
  BY <1>3 DEF KeepsLink, LinkPcs, AtomicsOK, IInv, TypeOK, flushState, env
<1> QED
  BY <1>3, <1>4, <1>5, LocalShape

\* gStoredSize += and -= after a store.
LEMMA SizeStep ==
  ASSUME IInv, NEW t \in Threads, Grow(t) \/ Resize(t)
  PROVE  IInv'
<1>1. gStoredSize' \in 0 .. WordMod - 1
  <2>1. /\ gStoredSize \in Nat /\ loc[t].diff \in Int
        /\ ElementSize(Key(t), loc[t].value) \in Nat
    BY KeyType, SizesAssumption DEF IInv, TypeOK, Local, ElementSize
  <2> QED
    <3>1. PICK n \in {gStoredSize + ElementSize(Key(t), loc[t].value), gStoredSize - loc[t].diff} :
            gStoredSize' = Wrap(n)
      BY Zenon DEF Grow, Resize
    <3>2. n \in Int
      BY <2>1
    <3> QED
      BY <3>1, <3>2, WrapType, Zenon
<1>2. Moves(t) /\ pc'[t] = "link" /\ KeepsLink(t)
  BY Types DEF Grow, Resize, Goto, Moves, KeepsLink, Pcs, StampedPcs, LinkPcs
<1>3. AtomicsOK' /\ UNCHANGED <<store, mutexes>>
  BY <1>1 DEF Grow, Resize, AtomicsOK, IInv, TypeOK, flushState, env
<1> QED
  BY <1>2, <1>3, LocalShape

\* The steps of dbSetFlushAll and dbHandleFlushAll preserve the invariant.
LEMMA FlushStep ==
  ASSUME IInv, NEW t \in Threads, Flush(t)
  PROVE  IInv'
<1>1. loc[t] \in Local /\ gTimestamp \in Nat /\ gFlushAllTime' \in Nat
  BY WrapType DEF Flush, SetFlush, FlushTime, FlushStamp, FlushStore, FlushClear, IInv, TypeOK,
                  Local, flushState
<1> DEFINE l == [loc[t] EXCEPT !.timestamp = gTimestamp + 1]
<1>2. l \in Local
  BY <1>1 DEF Local
<1>3. \E p \in {"done", "flushStamp", "flushStore", "flushClear"} :
        /\ pc' = [pc EXCEPT ![t] = p]
        /\ loc' = [loc EXCEPT ![t] = l] \/ UNCHANGED loc
  BY DEF Flush, SetFlush, FlushTime, FlushStamp, FlushStore, FlushClear, Goto, GotoWith
<1>4. /\ pc[t] \in {"setFlush", "flushTime", "flushStamp", "flushStore", "flushClear"}
      /\ gTimestamp' \in {gTimestamp, gTimestamp + 1}
      /\ UNCHANGED <<store, mutexes>>
  BY DEF Flush, SetFlush, FlushTime, FlushStamp, FlushStore, FlushClear
<1> HIDE DEF l
<1>5. Moves(t) /\ pc'[t] \notin {"lockValues", "scan"}
  BY <1>1, <1>2, <1>3, <1>4, Types DEF Moves, Pcs, StampedPcs, LinkPcs
<1>6. KeepsLink(t)
  BY <1>4 DEF KeepsLink, LinkPcs
<1>7. gFlushAllTimestamp' \in Nat
  BY <1>1 DEF Flush, SetFlush, FlushTime, FlushStamp, FlushStore, FlushClear, IInv, TypeOK,
              Local, flushState
<1>8. gIsFlushAllSet' \in BOOLEAN
  BY Zenon DEF Flush, SetFlush, FlushTime, FlushStamp, FlushStore, FlushClear, IInv, TypeOK, flushState
<1>9. UNCHANGED <<gStoredSize, generator, env>>
  BY DEF Flush, SetFlush, FlushTime, FlushStamp, FlushStore, FlushClear
<1>10. AtomicsOK'
  BY <1>1, <1>4, <1>7, <1>8, <1>9 DEF AtomicsOK, IInv, TypeOK, env
<1> QED
  BY <1>4, <1>5, <1>6, <1>10, LocalShape

\* What Put and Without leave in the map.
LEMMA PutType ==
  ASSUME TypeOK, NEW k \in Keys, NEW e \in Entry
  PROVE  /\ DOMAIN Put(k, e) = DOMAIN gKeyToValueHashMap \cup {k}
         /\ DOMAIN Put(k, e) \subseteq Keys
         /\ \A j \in DOMAIN Put(k, e) : Put(k, e)[j] \in Entry
         /\ Put(k, e)[k] = e
         /\ \A j \in DOMAIN gKeyToValueHashMap \ {k} : Put(k, e)[j] = gKeyToValueHashMap[j]
  BY DEF TypeOK, Put

\* What erasing a key leaves in the map.
LEMMA WithoutType ==
  ASSUME TypeOK, NEW k
  PROVE  /\ DOMAIN Without(k) = DOMAIN gKeyToValueHashMap \ {k}
         /\ \A j \in DOMAIN Without(k) : Without(k)[j] = gKeyToValueHashMap[j]
  BY Zenon DEF TypeOK, Without, Restrict

\* A region that keeps the map, puts an entry at the call's key, or removes it.
LEMMA RegionStep ==
  ASSUME IInv, NEW t \in Threads, Moves(t), pc[t] \in {"emplace", "get", "delete"},
         pc'[t] \in {"done", "grow", "erase", "relink"},
         loc'[t].call = loc[t].call,
         Free(gKeyToValueMutex, Table(t)),
         UNCHANGED <<gTimestampToKeySet, mutexes, gStoredSize, gTimestamp, flushState, generator, env>>,
         \/ UNCHANGED gKeyToValueHashMap
         \/ gKeyToValueHashMap' = Without(Key(t))
         \/ \E e \in Entry :
              /\ gKeyToValueHashMap' = Put(Key(t), e)
              /\ \/ Key(t) \in DOMAIN gKeyToValueHashMap
                      /\ e.timestamp = gKeyToValueHashMap[Key(t)].timestamp
                 \/ /\ pc[t] \in StampedPcs /\ e.timestamp = loc[t].timestamp
                    /\ Key(t) \in DOMAIN gKeyToValueHashMap \/ pc'[t] \in LinkPcs
  PROVE  IInv'
<1>0. TypeOK /\ Key(t) \in Keys
  BY KeyType, Zenon DEF IInv
<1>1. KeepsLink(t) /\ AtomicsOK'
  BY Zenon DEF KeepsLink, LinkPcs, AtomicsOK, IInv, TypeOK, flushState, env
<1>2. MapChange(t)
  <2>1. CASE UNCHANGED gKeyToValueHashMap
    <3> DEFINE m == gKeyToValueHashMap
    <3>1. m' = m /\ DOMAIN m \subseteq Keys /\ \A j \in DOMAIN m : m[j] \in Entry
      BY <1>0, <2>1, Zenon DEF TypeOK
    <3> QED
      BY <3>1, Zenon DEF MapChange
  <2>2. CASE gKeyToValueHashMap' = Without(Key(t))
    <3> DEFINE m == gKeyToValueHashMap
               p == Without(Key(t))
    <3>1. /\ DOMAIN p = DOMAIN m \ {Key(t)}
          /\ \A j \in DOMAIN p : p[j] = m[j]
      BY <1>0, WithoutType, Zenon
    <3>2. DOMAIN m \subseteq Keys /\ \A j \in DOMAIN m : m[j] \in Entry
      BY <1>0, Zenon DEF TypeOK
    <3>3. m' = p
      BY <2>2, Zenon
    <3> HIDE DEF p
    <3>4. /\ DOMAIN m' = DOMAIN m \ {Key(t)} /\ DOMAIN m' \subseteq Keys
          /\ \A j \in DOMAIN m' : m'[j] = m[j] /\ m'[j] \in Entry
      BY <3>1, <3>2, <3>3, Zenon
    <3> QED
      BY <3>4, Zenon DEF MapChange
  <2>3. ASSUME NEW e \in Entry, gKeyToValueHashMap' = Put(Key(t), e),
               \/ Key(t) \in DOMAIN gKeyToValueHashMap
                    /\ e.timestamp = gKeyToValueHashMap[Key(t)].timestamp
               \/ /\ pc[t] \in StampedPcs /\ e.timestamp = loc[t].timestamp
                  /\ Key(t) \in DOMAIN gKeyToValueHashMap \/ pc'[t] \in LinkPcs
        PROVE  MapChange(t)
    <3> DEFINE m == gKeyToValueHashMap
               p == Put(Key(t), e)
    <3>1. /\ DOMAIN p = DOMAIN m \cup {Key(t)} /\ DOMAIN p \subseteq Keys
          /\ \A j \in DOMAIN p : p[j] \in Entry
          /\ p[Key(t)] = e
          /\ \A j \in DOMAIN m \ {Key(t)} : p[j] = m[j]
      BY <1>0, PutType, Zenon
    <3> HIDE DEF p
    <3>2. m' = p
      BY <2>3, Zenon DEF p
    <3>3. m'[Key(t)].timestamp = e.timestamp
      BY <3>1, <3>2, ZenonT(30)
    <3>4. /\ \/ Key(t) \in DOMAIN m /\ m'[Key(t)].timestamp = m[Key(t)].timestamp
             \/ pc[t] \in StampedPcs /\ m'[Key(t)].timestamp = loc[t].timestamp
          /\ Key(t) \in DOMAIN m \/ (pc'[t] \in LinkPcs /\ loc'[t].call = loc[t].call)
      BY <2>3, <3>3
    <3> QED
      BY <1>0, <3>1, <3>2, <3>4, Zenon DEF MapChange
  <2> QED
    BY <2>1, <2>2, <2>3, ZenonT(30)
<1> QED
  BY <1>1, <1>2, MapShape, Zenon
-----------------------------------------------------------------------------
(* The regions under gKeyToValueMutex that change the map *)

\* The emplace regions of dbInsertElement and dbAddElement preserve the invariant.
LEMMA EmplaceStep ==
  ASSUME IInv, NEW t \in Threads, Emplace(t)
  PROVE  IInv'
<1> DEFINE k == Key(t)
           e == gKeyToValueHashMap[k]
           new == [expiry |-> NewExpiry(loc[t].cur, loc[t].expiry), value |-> loc[t].value,
                   cas |-> loc[t].cas, timestamp |-> loc[t].timestamp,
                   writtenAt |-> loc[t].timestamp]
           over == [e EXCEPT !.expiry = Wrap(loc[t].cur + loc[t].expiry), !.cas = loc[t].cas,
                             !.value = loc[t].value, !.writtenAt = loc[t].timestamp]
           old == [loc[t] EXCEPT !.old = e.timestamp,
                                 !.diff = ValueLen[e.value] - ValueLen[loc[t].value]]
<1>1. /\ k \in Keys /\ loc[t] \in Local /\ pc[t] = "emplace"
      /\ loc[t].cur \in Nat /\ loc[t].expiry \in Nat
      /\ k \in DOMAIN gKeyToValueHashMap => e \in Entry
  BY KeyType DEF Emplace, IInv, TypeOK, Local
<1>2. new \in Entry /\ new.timestamp = loc[t].timestamp
  <2>1. NewExpiry(loc[t].cur, loc[t].expiry) \in 0 .. WordMod - 1
    BY <1>1, WrapType, SizesAssumption DEF NewExpiry, ULONG_MAX
  <2> QED
    BY <1>1, <2>1 DEF Entry, Local
<1>3. ASSUME k \in DOMAIN gKeyToValueHashMap
      PROVE  over \in Entry /\ over.timestamp = e.timestamp
  <2>1. Wrap(loc[t].cur + loc[t].expiry) \in 0 .. WordMod - 1
    BY <1>1, WrapType
  <2> QED
    BY <1>1, <1>3, <2>1, Zenon DEF Entry, Local
<1>4. ASSUME k \in DOMAIN gKeyToValueHashMap
      PROVE  /\ old \in Local /\ old.call = loc[t].call /\ old.old = e.timestamp
             /\ old.timestamp = loc[t].timestamp
  <2>1. ValueLen[e.value] - ValueLen[loc[t].value] \in Int /\ e.timestamp \in Nat
    BY <1>1, <1>4, SizesAssumption DEF Entry, Local
  <2> QED
    BY <1>1, <2>1, Zenon DEF Local
<1>5. /\ Free(gKeyToValueMutex, Table(t))
      /\ UNCHANGED <<gTimestampToKeySet, mutexes, gStoredSize, gTimestamp, flushState, generator, env>>
  BY DEF Emplace
<1>6. \/ /\ gKeyToValueHashMap' = Put(k, new)
         /\ pc' = [pc EXCEPT ![t] = "grow"] /\ UNCHANGED loc
      \/ /\ k \in DOMAIN gKeyToValueHashMap /\ gKeyToValueHashMap' = Put(k, over)
         /\ pc' = [pc EXCEPT ![t] = "erase"] \/ pc' = [pc EXCEPT ![t] = "relink"]
         /\ loc' = [loc EXCEPT ![t] = old]
      \/ UNCHANGED gKeyToValueHashMap /\ ReturnStatus(t, "EXIST")
      \/ UNCHANGED gKeyToValueHashMap /\ ReturnStatus(t, "NOT_EXIST")
  BY Zenon DEF Emplace, InsertEmplace, AddEmplace, EmplaceNew, Overwrite, Goto, GotoWith
<1> HIDE DEF new, over, old
<1>7. CASE /\ gKeyToValueHashMap' = Put(k, new)
           /\ pc' = [pc EXCEPT ![t] = "grow"] /\ UNCHANGED loc
  <2>1. Moves(t) /\ pc'[t] = "grow" /\ loc'[t].call = loc[t].call
    BY <1>1, <1>5, <1>7, Types DEF Moves, Pcs, StampedPcs
  <2> QED
    BY <1>1, <1>2, <1>5, <1>7, <2>1, RegionStep, Zenon DEF StampedPcs, LinkPcs
<1>8. CASE /\ k \in DOMAIN gKeyToValueHashMap /\ gKeyToValueHashMap' = Put(k, over)
           /\ pc' = [pc EXCEPT ![t] = "erase"] \/ pc' = [pc EXCEPT ![t] = "relink"]
           /\ loc' = [loc EXCEPT ![t] = old]
  <2>0. Claimed(e.timestamp, k)
    BY <1>8 DEF Claimed
  <2>1. loc'[t] = old /\ pc'[t] \in {"erase", "relink"} /\ loc'[t].call = loc[t].call
    BY <1>4, <1>8, Zenon DEF IInv, TypeOK
  <2>2. Claimed(loc'[t].old, loc'[t].call.key)
    BY <1>4, <1>8, <2>0, <2>1, Zenon DEF Key
  <2>3. Moves(t)
    <3>1. pc[t] \in StampedPcs /\ Claimed(old.old, old.call.key)
      BY <1>1, <2>1, <2>2, Zenon DEF StampedPcs
    <3>2. ASSUME NEW p, p \in {"erase", "relink"}, pc' = [pc EXCEPT ![t] = p]
          PROVE  Moves(t)
      BY <1>4, <1>5, <1>8, <3>1, <3>2, ClaimMoves, Zenon
    <3> QED
      BY <1>8, <3>2, Zenon
  <2> QED
    BY <1>1, <1>3, <1>5, <1>8, <2>1, <2>3, RegionStep, Zenon
<1>9. ASSUME NEW s \in Statuses, UNCHANGED gKeyToValueHashMap, ReturnStatus(t, s)
      PROVE  IInv'
  <2> DEFINE l == [loc[t] EXCEPT !.status = s]
  <2>1. l \in Local /\ l.call = loc[t].call
    BY <1>1 DEF Local
  <2>2. pc' = [pc EXCEPT ![t] = "done"] /\ loc' = [loc EXCEPT ![t] = l]
    BY <1>9 DEF ReturnStatus, GotoWith
  <2> HIDE DEF l
  <2>3. Moves(t) /\ pc'[t] = "done" /\ loc'[t].call = loc[t].call
    BY <1>5, <2>1, <2>2, Types DEF Moves, Pcs, StampedPcs, LinkPcs
  <2> QED
    BY <1>1, <1>5, <1>9, <2>3, RegionStep
<1> QED
  BY <1>6, <1>7, <1>8, <1>9 DEF Statuses

\* The map region of dbGetElement preserves the invariant.
LEMMA GetStep ==
  ASSUME IInv, NEW t \in Threads, Get(t)
  PROVE  IInv'
<1> DEFINE k == Key(t)
           e == gKeyToValueHashMap[k]
           new == [e EXCEPT !.timestamp = loc[t].timestamp]
           found == [loc[t] EXCEPT !.old = e.timestamp, !.value = e.value, !.cas = e.cas,
                                   !.expiry = Wrap(e.expiry - loc[t].cur)]
           missed == [loc[t] EXCEPT !.status = "NOT_EXIST"]
<1>1. /\ k \in Keys /\ loc[t] \in Local /\ pc[t] = "get"
      /\ loc[t].cur \in Nat /\ loc[t].timestamp \in Nat
      /\ k \in DOMAIN gKeyToValueHashMap => e \in Entry
  BY KeyType DEF Get, IInv, TypeOK, Local
<1>2. missed \in Local /\ missed.call = loc[t].call
  BY <1>1 DEF Local, Statuses
<1>3. ASSUME k \in DOMAIN gKeyToValueHashMap
      PROVE  /\ new \in Entry /\ new.timestamp = loc[t].timestamp
             /\ found \in Local /\ found.call = loc[t].call
             /\ found.old = e.timestamp /\ found.timestamp = loc[t].timestamp
  <2>1. new \in Entry /\ new.timestamp = loc[t].timestamp
    BY <1>1, <1>3 DEF Entry
  <2>2. Wrap(e.expiry - loc[t].cur) \in Nat
    <3>1. e.expiry \in Nat
      BY <1>1, <1>3 DEF Entry
    <3> QED
      BY <1>1, <3>1, WrapType
  <2>3. e.timestamp \in Nat /\ e.value \in Values /\ e.cas \in CasTokens
    BY <1>1, <1>3 DEF Entry
  <2>4. /\ found \in Local /\ found.call = loc[t].call
        /\ found.old = e.timestamp /\ found.timestamp = loc[t].timestamp
    BY <1>1, <2>2, <2>3, Zenon DEF Local
  <2> QED
    BY <2>1, <2>4
<1>4. /\ Free(gKeyToValueMutex, Table(t))
      /\ UNCHANGED <<gTimestampToKeySet, mutexes, gStoredSize, gTimestamp, flushState, generator, env>>
  BY DEF Get
<1>5. \/ /\ UNCHANGED gKeyToValueHashMap \/ gKeyToValueHashMap' = Without(k)
         /\ pc' = [pc EXCEPT ![t] = "done"] /\ loc' = [loc EXCEPT ![t] = missed]
      \/ /\ k \in DOMAIN gKeyToValueHashMap /\ gKeyToValueHashMap' = Put(k, new)
         /\ pc' = [pc EXCEPT ![t] = "relink"] /\ loc' = [loc EXCEPT ![t] = found]
  BY Zenon DEF Get, ReturnStatus, GotoWith
<1> HIDE DEF new, found, missed
<1>6. CASE /\ UNCHANGED gKeyToValueHashMap \/ gKeyToValueHashMap' = Without(k)
           /\ pc' = [pc EXCEPT ![t] = "done"] /\ loc' = [loc EXCEPT ![t] = missed]
  <2>1. Moves(t) /\ pc'[t] = "done" /\ loc'[t].call = loc[t].call
    BY <1>2, <1>4, <1>6, Types DEF Moves, Pcs, StampedPcs, LinkPcs
  <2> QED
    BY <1>1, <1>4, <1>6, <2>1, RegionStep, Zenon
<1>7. CASE /\ k \in DOMAIN gKeyToValueHashMap /\ gKeyToValueHashMap' = Put(k, new)
           /\ pc' = [pc EXCEPT ![t] = "relink"] /\ loc' = [loc EXCEPT ![t] = found]
  <2>1. Claimed(e.timestamp, k)
    BY <1>7 DEF Claimed
  <2>2. loc'[t] = found /\ pc'[t] = "relink" /\ loc'[t].call = loc[t].call
    BY <1>3, <1>7, Zenon DEF IInv, TypeOK
  <2>3. Claimed(loc'[t].old, loc'[t].call.key)
    BY <1>3, <1>7, <2>1, <2>2, Zenon DEF Key
  <2>4. Moves(t)
    <3>1. pc[t] \in StampedPcs /\ Claimed(found.old, found.call.key) /\ "relink" \in {"erase", "relink"}
      BY <1>1, <2>2, <2>3, Zenon DEF StampedPcs
    <3> QED
      BY <1>3, <1>4, <1>7, <3>1, ClaimMoves, Zenon
  <2> QED
    BY <1>1, <1>3, <1>4, <1>7, <2>2, <2>4, RegionStep, Zenon DEF StampedPcs
<1> QED
  BY <1>5, <1>6, <1>7

\* dbDeleteElement preserves the invariant.
LEMMA DeleteStep ==
  ASSUME IInv, NEW t \in Threads, Delete(t)
  PROVE  IInv'
<1> DEFINE k == Key(t)
           e == gKeyToValueHashMap[k]
           later == [e EXCEPT !.expiry = Wrap(loc[t].cur + loc[t].expiry)]
<1>1. /\ k \in Keys /\ loc[t] \in Local /\ pc[t] = "delete"
      /\ loc[t].cur \in Nat /\ loc[t].expiry \in Nat
      /\ k \in DOMAIN gKeyToValueHashMap => e \in Entry
  BY KeyType DEF Delete, IInv, TypeOK, Local
<1>2. ASSUME k \in DOMAIN gKeyToValueHashMap
      PROVE  later \in Entry /\ later.timestamp = e.timestamp
  <2>1. Wrap(loc[t].cur + loc[t].expiry) \in 0 .. WordMod - 1
    BY <1>1, WrapType
  <2> QED
    BY <1>1, <1>2, <2>1 DEF Entry
<1>3. /\ Free(gKeyToValueMutex, Table(t))
      /\ UNCHANGED <<gTimestampToKeySet, mutexes, gStoredSize, gTimestamp, flushState, generator, env>>
  BY DEF Delete
<1>4. /\ \/ UNCHANGED gKeyToValueHashMap
         \/ gKeyToValueHashMap' = Without(k)
         \/ k \in DOMAIN gKeyToValueHashMap /\ gKeyToValueHashMap' = Put(k, later)
      /\ ReturnStatus(t, "NOT_EXIST") \/ ReturnStatus(t, "SUCCESS")
  BY DEF Delete
<1> HIDE DEF later
<1>5. ASSUME NEW s \in Statuses, ReturnStatus(t, s)
      PROVE  Moves(t) /\ pc'[t] = "done" /\ loc'[t].call = loc[t].call
  <2> DEFINE l == [loc[t] EXCEPT !.status = s]
  <2>1. l \in Local /\ l.call = loc[t].call
    BY <1>1 DEF Local
  <2>2. pc' = [pc EXCEPT ![t] = "done"] /\ loc' = [loc EXCEPT ![t] = l]
    BY <1>5 DEF ReturnStatus, GotoWith
  <2> HIDE DEF l
  <2> QED
    BY <1>3, <2>1, <2>2, Types DEF Moves, Pcs, StampedPcs, LinkPcs
<1>6. Moves(t) /\ pc'[t] = "done" /\ loc'[t].call = loc[t].call
  BY <1>4, <1>5 DEF Statuses
<1> QED
  BY <1>1, <1>2, <1>3, <1>4, <1>6, RegionStep

-----------------------------------------------------------------------------
(* removeLRUElement: the two mutexes, the loop over timestamps, the eviction *)


\* removeLRUElement drops timestamp e and, with it, its key from the map.
LEMMA EvictionShape ==
  ASSUME IInv, NEW t \in Threads, Moves(t), AtomicsOK',
         pc[t] = "scan", pc'[t] = "memory",
         NEW e \in gTimestampToKeySet[loc[t].table],
         gTimestampToKeySet' = [gTimestampToKeySet EXCEPT ![loc[t].table] = @ \ {e}],
         DOMAIN gKeyToValueHashMap' = DOMAIN gKeyToValueHashMap \ {e.key},
         \A j \in DOMAIN gKeyToValueHashMap' : gKeyToValueHashMap'[j] = gKeyToValueHashMap[j],
         gKeyToValueMutex' = [gKeyToValueMutex EXCEPT ![loc[t].table] = {}],
         gTimestampToKeyMutex' = [gTimestampToKeyMutex EXCEPT ![loc[t].table] = {}]
  PROVE  IInv'
<1> DEFINE b == loc[t].table
<1>k. /\ b \in Tables /\ t \in gKeyToValueMutex[b] /\ t \in gTimestampToKeyMutex[b]
      /\ e.key \in Keys /\ TableOf[e.key] = b
  <2>1. b \in Tables
    BY KeyType, Zenon DEF IInv
  <2>2. t \in gKeyToValueMutex[b] /\ t \in gTimestampToKeyMutex[b]
    BY Zenon DEF IInv, EvictorHolds
  <2>3. e \in TimestampToKeyStruct
    BY <2>1, Structures, Zenon
  <2>4. e.key \in Keys
    BY <2>3, Zenon DEF TimestampToKeyStruct
  <2>5. TableOf[e.key] = b
    BY <2>1, Zenon DEF IInv, TimestampsInOwnTable
  <2> QED
    BY <2>1, <2>2, <2>4, <2>5, Zenon
<1>1. TypeOK'
  BY <1>k, Zenon DEF IInv, TypeOK, AtomicsOK, Moves
<1>2. OneHolder' /\ DrawnIsToken' /\ TimestampsInOwnTable'
  <2>1. /\ gTimestampToKeySet \in [Tables -> SUBSET TimestampToKeyStruct]
        /\ gKeyToValueMutex \in [Tables -> SUBSET Threads]
        /\ gTimestampToKeyMutex \in [Tables -> SUBSET Threads]
    BY Structures, Zenon
  <2>2. ASSUME NEW c \in Tables
        PROVE  /\ gTimestampToKeySet'[c] \subseteq gTimestampToKeySet[c]
               /\ gKeyToValueMutex'[c] \subseteq gKeyToValueMutex[c]
               /\ gTimestampToKeyMutex'[c] \subseteq gTimestampToKeyMutex[c]
    BY <2>1, <2>2, Zenon
  <2>h. OneHolder
    BY Zenon DEF IInv
  <2>3. OneHolder'
    <3> SUFFICES ASSUME NEW c \in Tables
                 PROVE  /\ \A v, u \in gKeyToValueMutex'[c] : v = u
                        /\ \A v, u \in gTimestampToKeyMutex'[c] : v = u
      BY Zenon DEF OneHolder
    <3>1. /\ \A v, u \in gKeyToValueMutex[c] : v = u
          /\ \A v, u \in gTimestampToKeyMutex[c] : v = u
      BY <2>h, Zenon DEF OneHolder
    <3>2. /\ gKeyToValueMutex'[c] \subseteq gKeyToValueMutex[c]
          /\ gTimestampToKeyMutex'[c] \subseteq gTimestampToKeyMutex[c]
      BY <2>2, Zenon
    <3> QED
      BY <3>1, <3>2, Zenon
  <2>4. DrawnIsToken'
    BY Zenon DEF IInv, DrawnIsToken, Moves
  <2>5. TimestampsInOwnTable'
    BY <2>2, Zenon DEF IInv, TimestampsInOwnTable
  <2> QED
    BY <2>3, <2>4, <2>5, Zenon
<1>3. ASSUME NEW u \in Threads, u # t, pc[u] \in {"lockValues", "scan"}
      PROVE  loc[u].table \in Tables \ {b}
  BY <1>3, <1>k, Types, Zenon DEF IInv, Local, OneHolder, EvictorHolds
<1>4. EvictorHolds'
  <2>1. pc'[t] \notin {"lockValues", "scan"}
    BY Zenon
  <2>2. ASSUME NEW u \in Threads, u # t
        PROVE  /\ pc'[u] = pc[u] /\ loc'[u] = loc[u]
               /\ pc[u] \in {"lockValues", "scan"} => u \in gTimestampToKeyMutex[loc[u].table]
               /\ pc[u] = "scan" => u \in gKeyToValueMutex[loc[u].table]
    BY <2>2, Zenon DEF IInv, EvictorHolds, Moves
  <2>3. ASSUME NEW c \in Tables \ {b}
        PROVE  /\ gKeyToValueMutex'[c] = gKeyToValueMutex[c]
               /\ gTimestampToKeyMutex'[c] = gTimestampToKeyMutex[c]
    BY <2>3, Structures, Zenon
  <2>4. ASSUME NEW u \in Threads
        PROVE  /\ pc'[u] \in {"lockValues", "scan"} => u \in gTimestampToKeyMutex'[loc'[u].table]
               /\ pc'[u] = "scan" => u \in gKeyToValueMutex'[loc'[u].table]
    <3>1. CASE u = t
      BY <2>1, <3>1, Zenon
    <3>2. CASE u # t /\ pc[u] \in {"lockValues", "scan"}
      <4>1. loc[u].table \in Tables \ {b}
        BY <1>3, <3>2, Zenon
      <4>2. /\ gKeyToValueMutex'[loc[u].table] = gKeyToValueMutex[loc[u].table]
            /\ gTimestampToKeyMutex'[loc[u].table] = gTimestampToKeyMutex[loc[u].table]
        BY <2>3, <4>1, Zenon
      <4>3. /\ pc'[u] = pc[u] /\ loc'[u] = loc[u]
            /\ u \in gTimestampToKeyMutex[loc[u].table]
            /\ pc[u] = "scan" => u \in gKeyToValueMutex[loc[u].table]
        BY <2>2, <3>2, Zenon
      <4> QED
        BY <4>2, <4>3, Zenon
    <3>3. CASE u # t /\ pc[u] \notin {"lockValues", "scan"}
      BY <2>2, <3>3, Zenon
    <3> QED
      BY <3>1, <3>2, <3>3, Zenon
  <2> QED
    BY <2>4, Zenon DEF EvictorHolds
<1>5. CandidateStaysValid'
  <2> SUFFICES ASSUME NEW u \in Threads, pc'[u] = "scan", NEW f \in loc'[u].one
               PROVE  f \in gTimestampToKeySet'[loc'[u].table] /\ f.key \in DOMAIN gKeyToValueHashMap'
    BY Zenon DEF CandidateStaysValid
  <2>1. u # t /\ pc[u] = "scan" /\ loc'[u] = loc[u]
    BY Zenon DEF Moves
  <2>2. f \in gTimestampToKeySet[loc[u].table] /\ f.key \in DOMAIN gKeyToValueHashMap
    BY <2>1, Zenon DEF IInv, CandidateStaysValid
  <2>3. loc[u].table \in Tables \ {b}
    BY <1>3, <2>1, Zenon
  <2>4. f.key # e.key
    <3>1. TimestampsInOwnTable
      BY Zenon DEF IInv
    <3>2. TableOf[f.key] = loc[u].table
      BY <2>2, <2>3, <3>1, Zenon DEF TimestampsInOwnTable
    <3> QED
      BY <1>k, <2>3, <3>2, Zenon
  <2> QED
    BY <1>k, <2>1, <2>2, <2>3, <2>4, Structures
<1>6. ClaimsGrow(t)
  <2> SUFFICES ASSUME NEW n \in Nat, NEW k \in Keys, Claimed(n, k)', ~Claimed(n, k)
               PROVE  n = gTimestamp /\ gTimestamp' = gTimestamp + 1 /\ k = Key(t)'
    BY Zenon DEF ClaimsGrow
  <2>1. [timestamp |-> n, key |-> k] \notin gTimestampToKeySet'[TableOf[k]]
    BY <1>k, TablesAssumption, Structures, ZenonT(30) DEF Claimed
  <2>2. ~(k \in DOMAIN gKeyToValueHashMap' /\ gKeyToValueHashMap'[k].timestamp = n)
    BY Zenon DEF Claimed
  <2>3. PICK u \in Threads :
          /\ Key(u)' = k
          /\ \/ pc'[u] \in StampedPcs /\ loc'[u].timestamp = n
             \/ pc'[u] \in {"erase", "relink"} /\ loc'[u].old = n
    BY <2>1, <2>2, Zenon DEF Claimed
  <2>4. u = t
    BY <2>3, Zenon DEF Claimed, Moves, Key
  <2>5. pc'[t] \notin {"erase", "relink"}
    BY Zenon
  <2> QED
    BY <2>3, <2>4, <2>5, Zenon DEF Claimed, Moves, Key
<1>7. StampsOwned'
  BY <1>6, StampsOwnedStep
<1>8. EveryEntryEvictable'
  <2> SUFFICES ASSUME NEW k \in DOMAIN gKeyToValueHashMap'
               PROVE  \/ \E f \in gTimestampToKeySet'[TableOf[k]] : f.key = k
                      \/ \E u \in Threads : pc'[u] \in LinkPcs /\ loc'[u].call.key = k
    BY SMTT(30) DEF EveryEntryEvictable, Key
  <2>1. k \in DOMAIN gKeyToValueHashMap /\ k # e.key /\ TableOf[k] \in Tables
    BY TablesAssumption, Structures, Zenon
  <2>2. CASE \E f \in gTimestampToKeySet[TableOf[k]] : f.key = k
    BY <1>k, <2>1, <2>2, Structures, Zenon
  <2>3. CASE \E u \in Threads : pc[u] \in LinkPcs /\ Key(u) = k
    BY <2>3, Zenon DEF Moves, Key, LinkPcs
  <2>4. EveryEntryEvictable
    BY DEF IInv
  <2> QED
    BY <2>1, <2>2, <2>3, <2>4, Zenon DEF EveryEntryEvictable
<1> QED
  BY <1>1, <1>2, <1>4, <1>5, <1>7, <1>8, Zenon DEF IInv

\* Taking a free mutex: nobody else is inside what it protects.
LEMMA LockStep ==
  ASSUME IInv, NEW t \in Threads, BadAlloc(t) \/ LockTimestamps(t) \/ LockValues(t)
  PROVE  IInv'
<1> DEFINE full == [loc[t] EXCEPT !.status = "MEMORY_FULL"]
           none == [loc[t] EXCEPT !.one = {}]
<1>1. /\ loc[t] \in Local /\ Table(t) \in Tables /\ loc[t].table \in Tables
      /\ full \in Local /\ full.call = loc[t].call /\ full.timestamp = loc[t].timestamp
      /\ none \in Local /\ none.call = loc[t].call /\ none.table = loc[t].table
      /\ none.one = {} /\ none.timestamp = loc[t].timestamp
  <2>1. loc[t] \in Local /\ Table(t) \in Tables /\ loc[t].table \in Tables
    BY KeyType, Types DEF IInv
  <2>2. full \in Local /\ full.call = loc[t].call /\ full.timestamp = loc[t].timestamp
    BY <2>1 DEF Local, Statuses
  <2>3. /\ none \in Local /\ none.call = loc[t].call /\ none.table = loc[t].table
        /\ none.one = {} /\ none.timestamp = loc[t].timestamp
    BY <2>1 DEF Local
  <2> QED
    BY <2>1, <2>2, <2>3
<1>2. /\ UNCHANGED <<store, gStoredSize, gTimestamp, flushState, generator, env>>
      /\ pc[t] \in {"emplace", "lockTimestamps", "lockValues"}
  BY DEF BadAlloc, LockTimestamps, LockValues
<1>3. \/ /\ pc' = [pc EXCEPT ![t] = "done"] /\ loc' = [loc EXCEPT ![t] = full]
         /\ pc[t] = "emplace"
      \/ /\ pc' = [pc EXCEPT ![t] = "lockValues"] /\ UNCHANGED loc
         /\ pc[t] = "lockTimestamps"
      \/ /\ pc' = [pc EXCEPT ![t] = "scan"] /\ loc' = [loc EXCEPT ![t] = none]
         /\ pc[t] = "lockValues"
  BY Zenon DEF BadAlloc, LockTimestamps, LockValues, Goto, GotoWith, ReturnStatus
<1> HIDE DEF full, none
<1>4. Moves(t) /\ KeepsLink(t)
  <2>1. pc[t] \notin LinkPcs /\ UNCHANGED gTimestamp
    BY <1>2, Zenon DEF LinkPcs
  <2>2. CASE pc' = [pc EXCEPT ![t] = "done"] /\ loc' = [loc EXCEPT ![t] = full]
    <3>1. "done" \in Pcs \ {"drawn", "erase", "relink"} /\ "done" \notin StampedPcs
      BY Zenon DEF Pcs, StampedPcs, LinkPcs
    <3> QED
      BY <1>1, <2>1, <2>2, <3>1, GotoMoves, Zenon DEF KeepsLink
  <2>3. CASE pc' = [pc EXCEPT ![t] = "lockValues"] /\ UNCHANGED loc /\ pc[t] = "lockTimestamps"
    <3>1. "lockValues" \in Pcs \ {"drawn", "erase", "relink"} /\ pc[t] \in StampedPcs
      BY <2>3, Zenon DEF Pcs, StampedPcs, LinkPcs
    <3>2. loc' = [loc EXCEPT ![t] = loc[t]]
      BY <2>3, Types, Zenon
    <3> QED
      BY <1>1, <2>1, <2>3, <3>1, <3>2, GotoMoves, Zenon DEF KeepsLink
  <2>4. CASE pc' = [pc EXCEPT ![t] = "scan"] /\ loc' = [loc EXCEPT ![t] = none] /\ pc[t] = "lockValues"
    <3>1. "scan" \in Pcs \ {"drawn", "erase", "relink"} /\ pc[t] \in StampedPcs
      BY <2>4, Zenon DEF Pcs, StampedPcs, LinkPcs
    <3> QED
      BY <1>1, <2>1, <2>4, <3>1, GotoMoves, Zenon DEF KeepsLink
  <2> QED
    BY <1>3, <2>2, <2>3, <2>4, Zenon
<1>5. AtomicsOK'
  BY <1>2 DEF AtomicsOK, IInv, TypeOK, flushState, env
<1>6. \/ /\ UNCHANGED gTimestampToKeyMutex
         /\ \E b \in Tables : /\ gKeyToValueMutex[b] = {}
                              /\ gKeyToValueMutex' = [gKeyToValueMutex EXCEPT ![b] = {t}]
      \/ /\ UNCHANGED gKeyToValueMutex
         /\ \E b \in Tables : /\ gTimestampToKeyMutex[b] = {}
                              /\ gTimestampToKeyMutex' = [gTimestampToKeyMutex EXCEPT ![b] = {t}]
  BY <1>1, ZenonT(30) DEF BadAlloc, LockTimestamps, LockValues, Free
<1>7. TypeOK'
  <2>1. gKeyToValueMutex' \in [Tables -> SUBSET Threads] /\ gTimestampToKeyMutex' \in [Tables -> SUBSET Threads]
    BY <1>6, Structures, Zenon
  <2>2. pc' \in [Threads -> Pcs] /\ loc' \in [Threads -> Local]
    BY <1>4, Zenon DEF Moves
  <2> QED
    BY <1>2, <1>5, <2>1, <2>2, Zenon DEF IInv, TypeOK, AtomicsOK, store
<1>8. OneHolder'
  BY <1>6, Structures DEF IInv, OneHolder
<1>9. EvictorHolds'
  <2>1. \A b \in Tables : /\ gKeyToValueMutex[b] \subseteq gKeyToValueMutex'[b]
                          /\ gTimestampToKeyMutex[b] \subseteq gTimestampToKeyMutex'[b]
    BY <1>6, Structures, Zenon
  <2>2. \A u \in Threads \ {t} : pc'[u] = pc[u] /\ loc'[u] = loc[u] /\ loc[u].table \in Tables
    BY <1>4, KeyType, Zenon DEF Moves, IInv
  <2>3. ASSUME pc'[t] = "lockValues" PROVE t \in gTimestampToKeyMutex'[loc'[t].table]
    BY <1>1, <1>3, <2>3, Types, Structures DEF BadAlloc, LockTimestamps, LockValues
  <2>4. ASSUME pc'[t] = "scan"
        PROVE  t \in gTimestampToKeyMutex'[loc'[t].table] /\ t \in gKeyToValueMutex'[loc'[t].table]
    BY <1>1, <1>3, <2>1, <2>4, Types, Structures DEF BadAlloc, LockTimestamps, LockValues, IInv, EvictorHolds
  <2> QED
    BY <2>1, <2>2, <2>3, <2>4 DEF IInv, EvictorHolds
<1>10. CandidateStaysValid'
  <2>1. pc'[t] = "scan" => loc'[t].one = {}
    BY <1>1, <1>3, Types
  <2> QED
    BY <1>2, <1>4, <2>1, Zenon DEF IInv, CandidateStaysValid, Moves, store
<1>11. UNCHANGED store
  BY <1>2
<1> QED
  BY <1>4, <1>7, <1>8, <1>9, <1>10, <1>11, StoreKept DEF IInv

\* A step of removeLRUElement that evicts and returns.
LEMMA EvictStep ==
  ASSUME IInv, NEW t \in Threads, pc[t] = "scan",
         NEW e \in gTimestampToKeySet[loc[t].table],
         EvictOrphan(t, e) \/ (e.key \in DOMAIN gKeyToValueHashMap /\ EvictEntry(t, e)),
         UNCHANGED <<gTimestamp, flushState, generator, env>>
  PROVE  IInv'
<1> DEFINE l == [loc[t] EXCEPT !.one = {}, !.evictCur = 0]
<1>1. l \in Local /\ l.call = loc[t].call /\ l.timestamp = loc[t].timestamp
  <2>1. loc[t] \in Local
    BY Types
  <2> QED
    BY <2>1, Zenon DEF Local
<1>2. EvictReturn(t) /\ Unlink(t, e)
  BY DEF EvictOrphan, EvictEntry
<1>3. pc' = [pc EXCEPT ![t] = "memory"] /\ loc' = [loc EXCEPT ![t] = l]
  BY <1>2 DEF EvictReturn, GotoWith
<1> HIDE DEF l
<1>4. Moves(t) /\ pc'[t] = "memory"
  BY <1>1, <1>3, GotoMoves, Zenon DEF Pcs, StampedPcs
<1>5. e.key \in Keys
  <2>1. loc[t].table \in Tables
    BY KeyType, Zenon DEF IInv
  <2>2. e \in TimestampToKeyStruct
    BY <2>1, Structures, Zenon
  <2> QED
    BY <2>2, Zenon DEF TimestampToKeyStruct
<1>6. gStoredSize' \in 0 .. WordMod - 1
  <2>1. gStoredSize \in Nat /\ OrphanSize(e.key) \in Nat
    BY <1>5, SizesAssumption DEF IInv, TypeOK, OrphanSize
  <2>2. ASSUME e.key \in DOMAIN gKeyToValueHashMap
        PROVE  EvictedSize(e.key, gKeyToValueHashMap[e.key].value) \in Nat
    <3>1. gKeyToValueHashMap[e.key].value \in Values
      BY <2>2, Zenon DEF IInv, TypeOK, Entry
    <3> QED
      BY <1>5, <3>1, SizesAssumption DEF EvictedSize
  <2> QED
    <3>1. CASE EvictOrphan(t, e)
      <4>1. gStoredSize' = Wrap(gStoredSize - OrphanSize(e.key))
        BY <3>1, Zenon DEF EvictOrphan
      <4> QED
        BY <2>1, <4>1, WrapType
    <3>2. CASE e.key \in DOMAIN gKeyToValueHashMap /\ EvictEntry(t, e)
      <4> DEFINE n == EvictedSize(e.key, gKeyToValueHashMap[e.key].value)
      <4>1. gStoredSize' = Wrap(gStoredSize - n) /\ n \in Nat
        BY <2>2, <3>2, Zenon DEF EvictEntry
      <4> HIDE DEF n
      <4> QED
        BY <2>1, <4>1, WrapType
    <3> QED
      BY <3>1, <3>2, Zenon
<1>7. AtomicsOK'
  BY <1>6, Zenon DEF AtomicsOK, IInv, TypeOK, flushState, env
<1>8. /\ DOMAIN gKeyToValueHashMap' = DOMAIN gKeyToValueHashMap \ {e.key}
      /\ \A j \in DOMAIN gKeyToValueHashMap' : gKeyToValueHashMap'[j] = gKeyToValueHashMap[j]
  BY WithoutType, ZenonT(30) DEF IInv, EvictOrphan, EvictEntry
<1> QED
  BY <1>2, <1>4, <1>7, <1>8, EvictionShape, Zenon DEF Unlink, EvictReturn

\* A step of removeLRUElement that changes its own state only, mutexes still held.
LEMMA LookStep ==
  ASSUME IInv, NEW t \in Threads, pc[t] = "scan",
         EvictNothing(t) \/ \E e \in Unvisited(t) : KeepFirst(t, e),
         UNCHANGED <<gTimestamp, flushState, generator, env>>
  PROVE  IInv'
<1>1. CASE EvictNothing(t)
  <2> DEFINE l == [loc[t] EXCEPT !.one = {}, !.evictCur = 0]
  <2>1. l \in Local /\ l.call = loc[t].call /\ l.timestamp = loc[t].timestamp
    <3>1. loc[t] \in Local
      BY Types
    <3> QED
      BY <3>1, Zenon DEF Local
  <2>2. /\ pc' = [pc EXCEPT ![t] = "memory"] /\ loc' = [loc EXCEPT ![t] = l]
        /\ UNCHANGED <<store, mutexes, gStoredSize>>
    BY <1>1 DEF EvictNothing, GotoWith
  <2> HIDE DEF l
  <2>3. Moves(t) /\ pc'[t] = "memory"
    BY <2>1, <2>2, GotoMoves, Zenon DEF Pcs, StampedPcs
  <2>4. AtomicsOK'
    BY <2>2 DEF AtomicsOK, IInv, TypeOK, flushState, env
  <2>5. KeepsLink(t)
    BY DEF KeepsLink, LinkPcs
  <2> QED
    BY <2>2, <2>3, <2>4, <2>5, LocalShape
<1>2. ASSUME NEW e \in Unvisited(t), KeepFirst(t, e)
      PROVE  IInv'
  <2> DEFINE l == [loc[t] EXCEPT !.one = {e}]
  <2>0. /\ loc[t] \in Local /\ loc[t].table \in Tables
        /\ e \in gTimestampToKeySet[loc[t].table] /\ e \in TimestampToKeyStruct
    BY KeyType, Types, Structures DEF IInv, Unvisited
  <2>1. /\ l \in Local /\ l.call = loc[t].call /\ l.timestamp = loc[t].timestamp
        /\ l.one = {e} /\ l.table = loc[t].table
    BY <2>0 DEF Local
  <2>2. /\ pc' = [pc EXCEPT ![t] = "scan"] /\ loc' = [loc EXCEPT ![t] = l]
        /\ UNCHANGED <<store, mutexes, gStoredSize>>
        /\ e.key \in DOMAIN gKeyToValueHashMap
    BY <1>2, SMTT(30) DEF KeepFirst, GotoWith
  <2> HIDE DEF l
  <2>3. Moves(t) /\ pc'[t] = "scan" /\ loc'[t] = l
    BY <2>1, <2>2, GotoMoves, Zenon DEF Pcs, StampedPcs
  <2>4. KeepsLink(t)
    BY SMTT(30) DEF KeepsLink, LinkPcs
  <2>5. TypeOK'
    BY <2>2, <2>3, ZenonT(30) DEF Moves, IInv, TypeOK, flushState, env, store, mutexes
  <2>6. OneHolder' /\ EvictorHolds'
    <3>1. \A u \in Threads : /\ pc'[u] = "lockValues" => pc[u] = "lockValues"
                             /\ pc'[u] = "scan" => pc[u] = "scan"
                             /\ loc'[u].table = loc[u].table
      BY <1>2, <2>1, <2>3 DEF Moves, KeepFirst
    <3>2. UNCHANGED gKeyToValueMutex /\ UNCHANGED gTimestampToKeyMutex /\ OneHolder /\ EvictorHolds
      BY <2>2, Zenon DEF IInv, mutexes
    <3>3. OneHolder'
      BY <3>2 DEF OneHolder
    <3>4. ASSUME NEW u \in Threads
          PROVE  /\ pc'[u] \in {"lockValues", "scan"} => u \in gTimestampToKeyMutex'[loc'[u].table]
                 /\ pc'[u] = "scan" => u \in gKeyToValueMutex'[loc'[u].table]
      <4>1. /\ pc[u] \in {"lockValues", "scan"} => u \in gTimestampToKeyMutex[loc[u].table]
            /\ pc[u] = "scan" => u \in gKeyToValueMutex[loc[u].table]
        BY <3>2, Zenon DEF EvictorHolds
      <4>2. /\ pc'[u] \in {"lockValues", "scan"} => pc[u] \in {"lockValues", "scan"}
            /\ pc'[u] = "scan" => pc[u] = "scan"
            /\ loc'[u].table = loc[u].table
        BY <3>1
      <4> QED
        BY <3>2, <4>1, <4>2
    <3> QED
      BY <3>3, <3>4, Zenon DEF EvictorHolds
  <2>7. CandidateStaysValid'
    BY <2>0, <2>1, <2>2, <2>3, Zenon DEF IInv, CandidateStaysValid, Moves, store
  <2> QED
    BY <2>2, <2>3, <2>4, <2>5, <2>6, <2>7, StoreKept, Zenon DEF IInv
<1> QED
  BY <1>1, <1>2

\* Every step of the loop of removeLRUElement preserves the invariant.
LEMMA ScanStep ==
  ASSUME IInv, NEW t \in Threads, Scan(t)
  PROVE  IInv'
<1>1. pc[t] = "scan" /\ UNCHANGED <<gTimestamp, flushState, generator, env>>
  BY DEF Scan
<1>2. CASE EvictNothing(t)
  BY <1>1, <1>2, LookStep
<1>3. ASSUME NEW e \in Unvisited(t), ScanElement(t, e)
      PROVE  IInv'
  <2>1. e \in gTimestampToKeySet[loc[t].table]
    BY Zenon DEF Unvisited
  <2>2. CASE EvictOrphan(t, e) \/ EvictExpired(t, e)
    BY <1>1, <2>1, <2>2, EvictStep DEF EvictExpired
  <2>3. CASE KeepFirst(t, e)
    BY <1>1, <2>3, LookStep
  <2>4. CASE EvictLarger(t, e)
    <3>1. PICK one \in loc[t].one :
            EvictEntry(t, IF StoredLen(one) < StoredLen(e) THEN e ELSE one)
      BY <2>4 DEF EvictLarger
    <3>2. one \in gTimestampToKeySet[loc[t].table] /\ one.key \in DOMAIN gKeyToValueHashMap
      BY <1>1 DEF IInv, CandidateStaysValid
    <3>3. PICK f \in {e, one} : EvictEntry(t, f)
      BY <3>1
    <3>4. f \in gTimestampToKeySet[loc[t].table] /\ f.key \in DOMAIN gKeyToValueHashMap
      BY <2>1, <2>4, <3>2 DEF EvictLarger
    <3> QED
      BY <1>1, <3>3, <3>4, EvictStep
  <2> QED
    BY <1>3, <2>2, <2>3, <2>4 DEF ScanElement
<1> QED
  BY <1>2, <1>3 DEF Scan

-----------------------------------------------------------------------------
(* The regions under gTimestampToKeyMutex, and time *)


\* The set and its new contents after an erase or an insert.
LEMMA EraseStampOwn ==
  ASSUME IInv, NEW k \in Keys, NEW n \in Nat, Claimed(n, k)
  PROVE  \A e \in gTimestampToKeySet[TableOf[k]] \ EraseStamp(gTimestampToKeySet[TableOf[k]], n) :
           e.key = k
<1> SUFFICES ASSUME NEW e \in gTimestampToKeySet[TableOf[k]], e.timestamp = n
             PROVE  e.key = k
  BY DEF EraseStamp
<1>1. TableOf[k] \in Tables
  BY TablesAssumption, Zenon
<1>2. e \in TimestampToKeyStruct /\ TableOf[e.key] = TableOf[k]
  BY <1>1 DEF IInv, TypeOK, TimestampsInOwnTable
<1>3. e = [timestamp |-> n, key |-> e.key] /\ e.key \in Keys
  BY <1>2 DEF TimestampToKeyStruct
<1>4. Claimed(n, e.key)
  BY <1>2, <1>3, Zenon DEF Claimed
<1> QED
  BY <1>3, <1>4 DEF IInv, StampsOwned

\* A stamp that one key claims is in the set for that key or not at all, so that
\* inserting it always leaves it there.
LEMMA InsertStampOwn ==
  ASSUME IInv, NEW k \in Keys, NEW n \in Nat, Claimed(n, k),
         NEW S \in SUBSET gTimestampToKeySet[TableOf[k]]
  PROVE  InsertStamp(S, n, k) = S \cup {[timestamp |-> n, key |-> k]}
<1>1. TableOf[k] \in Tables
  BY TablesAssumption
<1>2. ASSUME NEW e \in S, e.timestamp = n
      PROVE  e = [timestamp |-> n, key |-> k]
  <2>1. e \in TimestampToKeyStruct /\ TableOf[e.key] = TableOf[k]
    BY <1>1, Zenon DEF IInv, TypeOK, TimestampsInOwnTable
  <2>2. e = [timestamp |-> n, key |-> e.key] /\ e.key \in Keys
    BY <1>2, <2>1 DEF TimestampToKeyStruct
  <2>3. Claimed(n, e.key)
    BY <2>1, <2>2 DEF Claimed
  <2>4. e.key = k
    BY <2>2, <2>3, ZenonT(30) DEF IInv, StampsOwned
  <2> QED
    BY <2>2, <2>4, ZenonT(30)
<1> QED
  BY <1>2 DEF InsertStamp

\* Replacing a timestamp: what Erase, Link and Relink do to the set.
LEMMA RelinkEffect ==
  ASSUME IInv, NEW t \in Threads, Erase(t) \/ Link(t) \/ Relink(t)
  PROVE  \E S \in SUBSET TimestampToKeyStruct :
           LET b == Table(t)
               mine == [timestamp |-> loc[t].timestamp, key |-> Key(t)]
           IN /\ gTimestampToKeySet' = [gTimestampToKeySet EXCEPT ![b] = S]
              /\ \A e \in S : e \in gTimestampToKeySet[b] \/ e = mine
              /\ \A e \in gTimestampToKeySet[b] \ S : e.key = Key(t)
              /\ pc[t] \in {"link", "relink"} => mine \in S
<1> DEFINE b == Table(t)
           k == Key(t)
           n == loc[t].timestamp
           T == gTimestampToKeySet[b]
           E == EraseStamp(T, loc[t].old)
           mine == [timestamp |-> n, key |-> k]
<1>1. /\ k \in Keys /\ b \in Tables /\ b = TableOf[k] /\ n \in Nat /\ loc[t].old \in Nat
      /\ T \in SUBSET TimestampToKeyStruct /\ mine \in TimestampToKeyStruct
  BY KeyType, ZenonT(30) DEF IInv, TypeOK, Local, Table, TimestampToKeyStruct
<1>2. E \subseteq T
  BY Zenon DEF EraseStamp
<1>3. Claimed(n, k)
  BY Zenon DEF Claimed, Erase, Link, Relink, StampedPcs, LinkPcs
<1>4. ASSUME pc[t] \in {"erase", "relink"}
      PROVE  \A e \in T \ E : e.key = k
  <2>1. Claimed(loc[t].old, k)
    BY <1>4, ZenonT(30) DEF Claimed
  <2> QED
    BY <1>1, <2>1, EraseStampOwn, Zenon
<1>5. InsertStamp(T, n, k) = T \cup {mine} /\ InsertStamp(E, n, k) = E \cup {mine}
  BY <1>1, <1>2, <1>3, InsertStampOwn, Zenon
<1>6. CASE Erase(t)
  <2>1. gTimestampToKeySet' = [gTimestampToKeySet EXCEPT ![b] = E] /\ pc[t] = "erase"
    BY <1>6, Zenon DEF Erase, SetTimestamps
  <2>2. E \in SUBSET TimestampToKeyStruct
    BY <1>1, <1>2, Zenon
  <2> WITNESS E \in SUBSET TimestampToKeyStruct
  <2> QED
    BY <1>2, <1>4, <2>1, Zenon
<1>7. CASE Link(t)
  <2>1. gTimestampToKeySet' = [gTimestampToKeySet EXCEPT ![b] = T \cup {mine}]
    BY <1>5, <1>7, Zenon DEF Link, SetTimestamps
  <2>2. T \cup {mine} \in SUBSET TimestampToKeyStruct
    BY <1>1, ZenonT(30)
  <2> WITNESS T \cup {mine} \in SUBSET TimestampToKeyStruct
  <2> QED
    BY <2>1
<1>8. CASE Relink(t)
  <2>1. /\ gTimestampToKeySet' = [gTimestampToKeySet EXCEPT ![b] = E \cup {mine}]
        /\ pc[t] = "relink"
    BY <1>5, <1>8, ZenonT(30) DEF Relink, SetTimestamps
  <2>2. E \cup {mine} \in SUBSET TimestampToKeyStruct
    BY <1>1, <1>2, ZenonT(30)
  <2> WITNESS E \cup {mine} \in SUBSET TimestampToKeyStruct
  <2> QED
    BY <1>2, <1>4, <2>1
<1> QED
  BY <1>6, <1>7, <1>8, Zenon

\* The regions under gTimestampToKeyMutex of the stores and of dbGetElement preserve it.
LEMMA TimestampStep ==
  ASSUME IInv, NEW t \in Threads, Erase(t) \/ Link(t) \/ Relink(t)
  PROVE  IInv'
<1> DEFINE l == [loc[t] EXCEPT !.status = "SUCCESS"]
<1>1. l \in Local /\ l.call = loc[t].call /\ l.timestamp = loc[t].timestamp
  <2>1. loc[t] \in Local
    BY Types, Zenon
  <2> QED
    BY <2>1 DEF Local, Statuses
<1>2. /\ pc[t] \in {"erase", "link", "relink"} /\ Free(gTimestampToKeyMutex, Table(t))
      /\ UNCHANGED <<gKeyToValueHashMap, mutexes, gStoredSize, gTimestamp, flushState, generator, env>>
  BY Zenon DEF Erase, Link, Relink, SetTimestamps
<1>3. \/ pc[t] = "erase" /\ pc' = [pc EXCEPT ![t] = "resize"] /\ UNCHANGED loc
      \/ /\ pc[t] \in {"link", "relink"}
         /\ pc' = [pc EXCEPT ![t] = "done"] /\ loc' = [loc EXCEPT ![t] = l]
  BY SMTT(30) DEF Erase, Link, Relink, Goto, ReturnStatus, GotoWith
<1> HIDE DEF l
<1>4. Moves(t) /\ pc'[t] \in {"resize", "done"} /\ loc'[t].call = loc[t].call
  <2>1. PICK p \in {"resize", "done"}, m \in Local :
          /\ pc' = [pc EXCEPT ![t] = p] /\ loc' = [loc EXCEPT ![t] = m]
          /\ m.call = loc[t].call /\ m.timestamp = loc[t].timestamp
    <3>1. CASE pc[t] = "erase"
      <4>1. loc[t] \in Local /\ loc' = [loc EXCEPT ![t] = loc[t]]
        BY <1>3, <3>1, Types
      <4> QED
        BY <1>3, <3>1, <4>1, Zenon
    <3>2. CASE pc[t] \in {"link", "relink"}
      BY <1>1, <1>3, <3>2
    <3> QED
      BY <1>2, <3>1, <3>2
  <2>2. p \in Pcs /\ p \notin {"drawn", "erase", "relink"}
        /\ (p \in StampedPcs => pc[t] \in StampedPcs)
    BY <1>2 DEF Pcs, StampedPcs, LinkPcs
  <2> QED
    <3>1. UNCHANGED gTimestamp
      BY <1>2, Zenon
    <3>2. Moves(t) /\ pc'[t] = p /\ loc'[t] = m
      BY <2>1, <2>2, <3>1, GotoMoves, Zenon
    <3> QED
      BY <2>1, <3>2, Zenon
<1>5. AtomicsOK'
  BY <1>2 DEF AtomicsOK, IInv, TypeOK, flushState, env
<1>6. pc[t] \in LinkPcs /\ pc[t] \in StampedPcs
  BY <1>2 DEF LinkPcs, StampedPcs
<1>7. pc[t] \notin {"link", "relink"} => pc'[t] \in LinkPcs
  BY <1>3, Zenon DEF LinkPcs, IInv, TypeOK
<1>8. TimestampChange(t)
  BY <1>4, <1>6, <1>7, RelinkEffect DEF TimestampChange
<1> QED
  BY <1>2, <1>4, <1>5, <1>6, <1>8, TimestampShape, Zenon

\* The passing of time preserves the invariant.
LEMMA TickStep ==
  ASSUME IInv, Tick
  PROVE  IInv'
<1>1. UNCHANGED <<store, mutexes, gTimestamp, pc, loc>>
  BY DEF Tick
<1>2. TypeOK'
  BY DEF Tick, IInv, TypeOK, store, mutexes, flushState
<1>3. \A n \in Nat : \A k \in Keys : Claimed(n, k)' <=> Claimed(n, k)
  BY <1>1 DEF Claimed, Key, store
<1>4. StampsOwned'
  BY <1>1, <1>3, ZenonT(30) DEF IInv, StampsOwned
<1>5. OneHolder' /\ EvictorHolds' /\ TimestampsInOwnTable' /\ DrawnIsToken'
  BY <1>1 DEF IInv, OneHolder, EvictorHolds, TimestampsInOwnTable, DrawnIsToken, store, mutexes
<1>6. CandidateStaysValid' /\ EveryEntryEvictable'
  BY <1>1 DEF IInv, CandidateStaysValid, EveryEntryEvictable, Key, store
<1> QED
  BY <1>2, <1>4, <1>5, <1>6 DEF IInv

-----------------------------------------------------------------------------
(* The invariant *)

\* The empty store satisfies the invariant.
LEMMA InitIInv == Init => IInv
<1> SUFFICES ASSUME Init PROVE IInv
  BY Zenon
<1>1. \A t \in Threads : pc[t] = "idle" /\ loc[t] = Blank /\ loc[t] \in Local
  BY BlankType DEF Init
<1>2. DOMAIN gKeyToValueHashMap = {} /\ \A b \in Tables : gTimestampToKeySet[b] = {}
  BY DEF Init
<1>3. TypeOK
  <2>1. pc \in [Threads -> Pcs] /\ loc \in [Threads -> Local]
    BY BlankType, Zenon DEF Init, Pcs
  <2>2. gStoredSize \in 0 .. WordMod - 1 /\ generator \in [seed: SUBSET Nat, next: Nat]
    BY SizesAssumption DEF Init
  <2> QED
    BY <1>2, <2>1, <2>2, ZenonT(30) DEF Init, TypeOK
<1>4. OneHolder /\ TimestampsInOwnTable
  BY Zenon DEF Init, OneHolder, TimestampsInOwnTable
<1>5. EvictorHolds /\ DrawnIsToken /\ CandidateStaysValid /\ EveryEntryEvictable
  BY <1>1, <1>2, Zenon DEF EvictorHolds, DrawnIsToken, CandidateStaysValid, EveryEntryEvictable
<1>6. \A n \in Nat : \A k \in Keys : ~Claimed(n, k)
  BY <1>1, <1>2, TablesAssumption DEF Claimed, StampedPcs, LinkPcs
<1>7. StampsOwned
  BY <1>6 DEF StampsOwned
<1> QED
  BY <1>3, <1>4, <1>5, <1>7 DEF IInv

\* Every step of every call preserves the invariant.
LEMMA NextIInv == IInv /\ [Next]_vars => IInv'
<1> SUFFICES ASSUME IInv, [Next]_vars PROVE IInv'
  OBVIOUS
<1>1. CASE UNCHANGED vars
  <2>1. UNCHANGED <<store, mutexes, gStoredSize, gTimestamp, flushState, generator, env, pc, loc>>
    BY <1>1, Zenon DEF vars
  <2>2. TypeOK'
    BY <2>1, ZenonT(30) DEF IInv, TypeOK, store, mutexes, flushState, env
  <2>3. \A n \in Nat : \A k \in Keys : Claimed(n, k)' <=> Claimed(n, k)
    BY <2>1 DEF Claimed, Key, store
  <2>4. StampsOwned'
    BY <2>1, <2>3, Zenon DEF IInv, StampsOwned
  <2>5. OneHolder' /\ EvictorHolds' /\ TimestampsInOwnTable' /\ DrawnIsToken'
    BY <2>1, Zenon DEF IInv, OneHolder, EvictorHolds, TimestampsInOwnTable, DrawnIsToken, store, mutexes
  <2>6. CandidateStaysValid' /\ EveryEntryEvictable'
    BY <2>1 DEF IInv, CandidateStaysValid, EveryEntryEvictable, Key, store
  <2> QED
    BY <2>2, <2>4, <2>5, <2>6 DEF IInv
<1>2. CASE Tick
  BY <1>2, TickStep, Zenon
<1>3. ASSUME NEW t \in Threads, Step(t)
      PROVE  IInv'
  BY <1>3, StampStep, DrawStep, DrawnStep, RoomStep, LockStep, ScanStep, EmplaceStep, GetStep,
     DeleteStep, SizeStep, TimestampStep, FlushStep, ReturnStep DEF Step, MakeRoom
<1>4. ASSUME NEW t \in Threads, NEW c \in Calls, Begin(t, c)
      PROVE  IInv'
  BY <1>4, BeginStep
<1> QED
  BY <1>1, <1>2, <1>3, <1>4 DEF Next

\* The inductive invariant holds in every reachable state of the storage engine.
THEOREM Invariance == Spec => []IInv
  BY InitIInv, NextIInv, PTL DEF Spec

\* The types of the state are kept by every call: table numbers stay in range
\* through the wrap of lines 357 and 497, gStoredSize stays an unsigned long.
THEOREM TypeCorrect == Spec => []TypeOK
<1>1. IInv => TypeOK
  BY DEF IInv
<1> QED
  BY <1>1, Invariance, PTL

\* Whatever calls run concurrently, no stored element gets out of reach of
\* removeLRUElement for longer than the call that is storing or reading it.
THEOREM Evictability == Spec => []EveryEntryEvictable
<1>1. IInv => EveryEntryEvictable
  BY DEF IInv
<1> QED
  BY <1>1, Invariance, PTL

\* The iterator that removeLRUElement keeps to its first candidate stays valid:
\* the two mutexes it holds shut out every other change to the table.
THEOREM CandidateSafety == Spec => []CandidateStaysValid
<1>1. IInv => CandidateStaysValid
  BY SMTT(30) DEF IInv
<1> QED
  BY <1>1, Invariance, PTL

\* Every recorded pair is a claim of a key on a stamp.
LEMMA ClaimsClaimed ==
  ASSUME TypeOK, TimestampsInOwnTable, NEW p \in Claims
  PROVE  p[1] \in Nat /\ p[2] \in Keys /\ Claimed(p[1], p[2])
<1>1. ASSUME NEW b \in Tables, NEW e \in gTimestampToKeySet[b], p = <<e.timestamp, e.key>>
      PROVE  p[1] \in Nat /\ p[2] \in Keys /\ Claimed(p[1], p[2])
  <2>1. e \in TimestampToKeyStruct /\ TableOf[e.key] = b
    BY Zenon DEF TypeOK, TimestampsInOwnTable
  <2>2. e = [timestamp |-> e.timestamp, key |-> e.key] /\ e.timestamp \in Nat /\ e.key \in Keys
    BY <2>1, Zenon DEF TimestampToKeyStruct
  <2> QED
    BY <1>1, <2>1, <2>2, Zenon DEF Claimed
<1>2. ASSUME NEW k \in DOMAIN gKeyToValueHashMap, p = <<gKeyToValueHashMap[k].timestamp, k>>
      PROVE  p[1] \in Nat /\ p[2] \in Keys /\ Claimed(p[1], p[2])
  BY <1>2, Zenon DEF TypeOK, Entry, Claimed
<1>3. ASSUME NEW t \in Threads, pc[t] \in StampedPcs, p = <<loc[t].timestamp, Key(t)>>
      PROVE  p[1] \in Nat /\ p[2] \in Keys /\ Claimed(p[1], p[2])
  <2>1. loc[t].timestamp \in Nat /\ Key(t) \in Keys
    BY KeyType, SMTT(30) DEF TypeOK, Local
  <2> QED
    BY <1>3, <2>1, ZenonT(30) DEF Claimed
<1>4. ASSUME NEW t \in Threads, pc[t] \in {"erase", "relink"}, p = <<loc[t].old, Key(t)>>
      PROVE  p[1] \in Nat /\ p[2] \in Keys /\ Claimed(p[1], p[2])
  BY <1>4, KeyType, Zenon DEF TypeOK, Local, Claimed
<1> QED
  BY <1>1, <1>2, <1>3, <1>4, Zenon DEF Claims

\* gTimestamp++ and ++gTimestamp never hand the same stamp to two keys, and no
\* stale stamp kept in the map or in a call ever turns up under another key.
THEOREM StampUniqueness == Spec => []StampsBelongToOneKey
<1>1. IInv => StampsBelongToOneKey
  <2> SUFFICES ASSUME IInv, NEW p \in Claims, NEW q \in Claims, p[1] = q[1]
               PROVE  p[2] = q[2]
    BY ZenonT(30) DEF StampsBelongToOneKey
  <2> QED
    BY ClaimsClaimed DEF IInv, StampsOwned
<1> QED
  BY <1>1, Invariance, PTL

\* Only the thread that takes a step moves.
LEMMA OneMoves ==
  ASSUME TypeOK, NEW t \in Threads, NEW u \in Threads,
         Step(u) \/ \E c \in Calls : Begin(u, c), pc'[t] # pc[t]
  PROVE  t = u
<1>1. ASSUME NEW p, pc' = [pc EXCEPT ![u] = p]
      PROVE  t = u
  BY <1>1, SMTT(30) DEF TypeOK
<1>2. CASE \E c \in Calls : Begin(u, c)
  BY <1>1, <1>2, Zenon DEF Begin, GotoWith
<1>3. CASE Stamp(u) \/ Draw(u) \/ Drawn(u) \/ Return(u) \/ Flush(u)
  BY <1>1, <1>3 DEF Stamp, Draw, Drawn, Return, Flush, SetFlush, FlushTime, FlushStamp,
                    FlushStore, FlushClear, Goto, GotoWith
<1>4. CASE CheckMemory(u) \/ ProbeEmpty(u) \/ ProbeNonEmpty(u) \/ LockTimestamps(u) \/ LockValues(u)
  BY <1>1, <1>4, ZenonT(30) DEF CheckMemory, ProbeEmpty, ProbeNonEmpty, LockTimestamps, LockValues, Goto, GotoWith
<1>5. CASE Scan(u)
  BY <1>1, <1>5 DEF Scan, ScanElement, EvictOrphan, EvictExpired, EvictLarger, EvictEntry,
                    EvictReturn, KeepFirst, EvictNothing, GotoWith
<1>6. CASE Emplace(u) \/ BadAlloc(u)
  BY <1>1, <1>6 DEF Emplace, InsertEmplace, AddEmplace, EmplaceNew, Overwrite, BadAlloc,
                    ReturnStatus, Goto, GotoWith
<1>7. CASE Get(u) \/ Delete(u)
  BY <1>1, <1>7 DEF Get, Delete, ReturnStatus, Goto, GotoWith
<1>8. CASE Grow(u) \/ Resize(u) \/ Erase(u) \/ Link(u) \/ Relink(u)
  BY <1>1, <1>8 DEF Grow, Resize, Erase, Link, Relink, ReturnStatus, Goto, GotoWith
<1> QED
  BY <1>2, <1>3, <1>4, <1>5, <1>6, <1>7, <1>8, Zenon DEF Step, MakeRoom

\* A call that replaces a timestamp removes only timestamps of its own key, and
\* ends with its own stamp in the set, in spite of the set comparing stamps only.
THEOREM RelinkSafety == Spec => RelinkTouchesOwnKeyOnly
<1> DEFINE OwnKeyOnly ==
      \A t \in Threads :
        LET b == Table(t)
            mine == [timestamp |-> loc[t].timestamp, key |-> Key(t)]
        IN /\ (pc[t] \in {"erase", "relink"} /\ pc'[t] # pc[t]) =>
                \A e \in gTimestampToKeySet[b] \ gTimestampToKeySet'[b] : e.key = Key(t)
           /\ (pc[t] \in {"link", "relink"} /\ pc'[t] # pc[t]) =>
                mine \in gTimestampToKeySet'[b]
<1>1. IInv /\ [Next]_vars => [OwnKeyOnly]_vars
  <2> SUFFICES ASSUME IInv, Next, NEW t \in Threads,
                      pc[t] \in {"erase", "link", "relink"}, pc'[t] # pc[t]
               PROVE  LET b == Table(t)
                          mine == [timestamp |-> loc[t].timestamp, key |-> Key(t)]
                      IN /\ \A e \in gTimestampToKeySet[b] \ gTimestampToKeySet'[b] : e.key = Key(t)
                         /\ pc[t] \in {"link", "relink"} => mine \in gTimestampToKeySet'[b]
    OBVIOUS
  <2>1. ~Tick
    BY DEF Tick
  <2>2. PICK u \in Threads : Step(u) \/ \E c \in Calls : Begin(u, c)
    BY <2>1 DEF Next
  <2>3. t = u
    BY <2>2, OneMoves, SMTT(30) DEF IInv
  <2>4. Erase(t) \/ Link(t) \/ Relink(t)
    BY <2>2, <2>3, Zenon DEF Step, MakeRoom, Flush, Begin, Stamp, Draw, Drawn, CheckMemory, ProbeEmpty,
       ProbeNonEmpty, LockTimestamps, LockValues, Scan, Emplace, BadAlloc, Get, Delete, Grow,
       Resize, SetFlush, FlushTime, FlushStamp, FlushStore, FlushClear, Return
  <2>5. Table(t) \in Tables
    BY KeyType DEF IInv
  <2> QED
    BY <2>4, <2>5, RelinkEffect, ZenonT(30) DEF IInv, TypeOK
<1>2. Spec => [][OwnKeyOnly]_vars
  BY <1>1, Invariance, PTL DEF Spec
<1> QED
  BY <1>2, Zenon DEF RelinkTouchesOwnKeyOnly
==============================================================================
