-------------------------------- MODULE DbLru --------------------------------
(***************************************************************************)
(* The storage engine of memstashed (src/src/dblru.cpp): the operations    *)
(* dbInsertElement, dbAddElement, dbGetElement, dbDeleteElement,           *)
(* dbSetFlushAll and dbHandleFlushAll, run concurrently by worker threads. *)
(*                                                                         *)
(* Granularity.  A region between lock() and unlock() of one mutex is one  *)
(* step, guarded by the mutex being free; removeLRUElement, which holds    *)
(* two mutexes and re-reads gFlushAllTimestamp in its loop, takes and      *)
(* keeps them in steps of its own.  Every access to an atomic outside a    *)
(* region is a step.  A call of time() is merged with a step next to it.   *)
(***************************************************************************)
EXTENDS Integers, FiniteSets, Functions

CONSTANTS
  Threads,       \* worker threads that call the engine
  Keys,          \* keys clients use
  Values,        \* values clients store
  NumTables,     \* DB_MAX_HASH_TABLES
  TableOf,       \* getHashTblNbrFromKey, as a function on Keys
  KeyLen,        \* key.size(), as a function on Keys
  ValueLen,      \* value.size(), as a function on Values
  WordLen,       \* sizeof(TimestampType) = sizeof(unsigned long)
  CasLen,        \* casUniq.size(), taken to be the same for all entries
  FlagsLen,      \* flags.size(), taken to be the same for all entries
  MemLimit,      \* gServMemLimit
  WordMod,       \* 2^w, w the width of unsigned long
  AllocMayFail,  \* may emplace throw bad_alloc?
  Calls,         \* the calls the command layer may make
  MaxTime,       \* bound on the clock
  MaxTimestamp   \* bound: no call starts once gTimestamp has reached it

Tables == 0 .. NumTables - 1

\* Parameters of a call.  cas: pass the cas token of the caller's last get.
CallRecord == [op: {"insert", "add", "get", "delete", "setFlush", "handleFlush"},
               key: Keys, value: Values, expiry: Nat, cas: BOOLEAN]

ASSUME TablesAssumption == NumTables \in Nat \ {0} /\ TableOf \in [Keys -> Tables]
ASSUME SizesAssumption == /\ KeyLen \in [Keys -> Nat]
                          /\ ValueLen \in [Values -> Nat]
                          /\ {WordLen, CasLen, FlagsLen, MemLimit} \subseteq Nat
                          /\ WordMod \in Nat \ {0}
ASSUME CallsAssumption == Calls \subseteq CallRecord /\ Calls # {}
ASSUME BoundsAssumption == MaxTime \in Nat /\ MaxTimestamp \in Nat /\ AllocMayFail \in BOOLEAN

VARIABLES
  gKeyToValueHashMap,    \* key -> entry; the tables' maps, disjoint by TableOf
  gTimestampToKeySet,    \* per table, the set of [timestamp, key]
  gKeyToValueMutex,      \* per table, the set of (at most one) holders
  gTimestampToKeyMutex,  \* per table, the set of (at most one) holders
  gStoredSize,
  gTimestamp,
  gFlushAllTimestamp,
  gFlushAllTime,
  gIsFlushAllSet,
  generator,             \* dbInsertElement's static mt19937_64: seed, next draw
  now,                   \* what time() returns
  pc,                    \* per thread, the next step of its call
  loc,                   \* per thread, parameters and locals of its call
  seen                   \* per client thread, what its last successful get returned

store == <<gKeyToValueHashMap, gTimestampToKeySet>>
mutexes == <<gKeyToValueMutex, gTimestampToKeyMutex>>
flushState == <<gFlushAllTimestamp, gFlushAllTime, gIsFlushAllSet>>
env == <<now, seen>>
vars == <<store, mutexes, gStoredSize, gTimestamp, flushState, generator, env, pc, loc>>

-----------------------------------------------------------------------------
(* Values and sizes *)

Wrap(n) == n % WordMod          \* unsigned long arithmetic
ULONG_MAX == WordMod - 1
NoCas == <<>>                   \* the empty casUniq string

\* A cas token is draw number n of the generator seeded with s: <<s, n>>.
CasTokens == {NoCas} \cup (Nat \X Nat)

\* (ValueStruct, timestamp), and as history the stamp of the call that wrote it.
Entry == [expiry: 0 .. WordMod - 1, value: Values, cas: CasTokens, timestamp: Nat,
          writtenAt: Nat]

TimestampToKeyStruct == [timestamp: Nat, key: Keys]

\* What storing a new element adds to gStoredSize.
ElementSize(k, v) == 2 * KeyLen[k] + 2 * WordLen + CasLen + FlagsLen + WordLen + ValueLen[v]

\* What removeLRUElement subtracts for an element it removes from both structures.
EvictedSize(k, v) == 2 * KeyLen[k] + 2 * WordLen + CasLen + FlagsLen + ValueLen[v]

\* What removeLRUElement subtracts for a timestamp whose key is no longer in the map.
OrphanSize(k) == KeyLen[k] + WordLen

\* What the two store operations ask for before they go ahead.
InsertNeed(k, v) == 2 * KeyLen[k] + 2 * WordLen + FlagsLen + CasLen + WordLen + ValueLen[v]
AddNeed(k, v) == 2 * KeyLen[k] + 2 * WordLen + WordLen + ValueLen[v]

\* Variant: the flush is not tested.
ExpiredByTimeOnly(e, cur) == e.expiry < cur

\* The test every operation makes on an entry it finds.
Expired(e, cur) == e.expiry < cur \/ e.timestamp < gFlushAllTimestamp

NewExpiry(cur, expiry) == IF expiry # 0 THEN Wrap(cur + expiry) ELSE ULONG_MAX

\* map and set operations (set insertion compares timestamps only)
Put(k, e) == [j \in DOMAIN gKeyToValueHashMap \cup {k} |->
                IF j = k THEN e ELSE gKeyToValueHashMap[j]]
Without(k) == Restrict(gKeyToValueHashMap, DOMAIN gKeyToValueHashMap \ {k})
\* Variant: also erases what is older than the stamp.
EraseUpTo(S, n) == {e \in S : e.timestamp > n}
EraseStamp(S, n) == {e \in S : e.timestamp # n}
InsertStamp(S, n, k) == IF \E e \in S : e.timestamp = n
                        THEN S
                        ELSE S \cup {[timestamp |-> n, key |-> k]}

-----------------------------------------------------------------------------
(* Threads *)

Pcs == {"idle", "stamp", "draw", "drawn", "memory", "probe", "lockTimestamps",
        "lockValues", "scan", "emplace", "get", "delete", "grow", "erase", "resize",
        "link", "relink", "setFlush", "flushTime", "flushStamp", "flushStore",
        "flushClear", "done"}

Statuses == {"none", "SUCCESS", "EXIST", "NOT_EXIST", "MEMORY_FULL"}

Local == [call: Calls, cur: Nat, check: CasTokens, cas: CasTokens, value: Values,
          expiry: Nat, timestamp: Nat, table: Tables, old: Nat, diff: Int,
          evictCur: Nat, one: SUBSET TimestampToKeyStruct, status: Statuses]

Key(t) == loc[t].call.key
Table(t) == TableOf[Key(t)]

Free(mutex, b) == mutex[b] = {}

Goto(t, label) == pc' = [pc EXCEPT ![t] = label] /\ UNCHANGED loc
GotoWith(t, label, l) == pc' = [pc EXCEPT ![t] = label] /\ loc' = [loc EXCEPT ![t] = l]
ReturnStatus(t, s) == GotoWith(t, "done", [loc[t] EXCEPT !.status = s])

\* An arbitrary but fixed content for the locals of a thread with no call.
Blank == CHOOSE l \in [call: Calls, cur: {0}, check: {NoCas}, cas: {NoCas}, value: Values,
                       expiry: {0}, timestamp: {0}, table: {0}, old: {0}, diff: {0},
                       evictCur: {0}, one: {{}}, status: {"none"}] : TRUE

FirstStep == [insert |-> "stamp", add |-> "stamp", get |-> "stamp", delete |-> "delete",
              setFlush |-> "setFlush", handleFlush |-> "flushTime"]

\* A call starts: time(&curSystemTime), and the caller's parameters.
\* dbSetFlushAll raises its flag and dbHandleFlushAll tests it before anything else.
Begin(t, c) ==
  /\ pc[t] = "idle"
  /\ gTimestamp < MaxTimestamp
  /\ c.cas => \E s \in seen[t] : s.key = c.key
  /\ LET token == IF c.cas THEN (CHOOSE s \in seen[t] : TRUE).cas ELSE NoCas
         l == [Blank EXCEPT !.call = c, !.cur = now, !.check = token, !.value = c.value,
                            !.expiry = c.expiry, !.table = TableOf[c.key]]
     IN  IF c.op = "handleFlush" /\ ~gIsFlushAllSet
         THEN GotoWith(t, "done", l)
         ELSE GotoWith(t, FirstStep[c.op], l)
  /\ gIsFlushAllSet' = (gIsFlushAllSet \/ c.op = "setFlush")
  /\ UNCHANGED <<store, mutexes, gStoredSize, gTimestamp, gFlushAllTimestamp,
                 gFlushAllTime, generator, env>>

\* Only clients that send cas requests keep what a get gave them.
ClientsUseCas == \E c \in Calls : c.cas

\* The call returns to the command layer.
Return(t) ==
  /\ pc[t] = "done"
  /\ GotoWith(t, "idle", Blank)
  /\ seen' = IF ClientsUseCas /\ loc[t].call.op = "get" /\ loc[t].status = "SUCCESS"
             THEN [seen EXCEPT ![t] = {[key |-> Key(t), cas |-> loc[t].cas,
                                        value |-> loc[t].value]}]
             ELSE seen
  /\ UNCHANGED <<store, mutexes, gStoredSize, gTimestamp, flushState, generator, now>>

\* Variant: reads gTimestamp without advancing it.
StampNotAdvanced(t) ==
  /\ pc[t] = "stamp"
  /\ GotoWith(t, IF loc[t].call.op = "get" THEN "get" ELSE "memory",
              [loc[t] EXCEPT !.timestamp = gTimestamp])
  /\ UNCHANGED <<store, mutexes, gStoredSize, gTimestamp, flushState, generator, env>>

\* timestamp = gTimestamp++.  dbAddElement also seeds a generator of its own
\* with the current second and draws from it.
Stamp(t) ==
  /\ pc[t] = "stamp"
  /\ gTimestamp' = gTimestamp + 1
  /\ LET l == [loc[t] EXCEPT !.timestamp = gTimestamp]
     IN CASE l.call.op = "insert" -> GotoWith(t, "draw", l)
          [] l.call.op = "add" -> GotoWith(t, "memory", [l EXCEPT !.cas = <<l.cur, 0>>])
          [] OTHER -> GotoWith(t, "get", l)
  /\ UNCHANGED <<store, mutexes, gStoredSize, flushState, generator, env>>

\* generator() on the static generator is not synchronised: reading its position
\* and advancing it are two steps, so racing calls may draw the same token.
Draw(t) ==
  /\ pc[t] = "draw"
  /\ LET seeded == IF generator.seed = {} THEN {loc[t].cur} ELSE generator.seed
     IN /\ generator' = [generator EXCEPT !.seed = seeded]
        /\ \E s \in seeded :
             GotoWith(t, "drawn", [loc[t] EXCEPT !.cas = <<s, generator.next>>])
  /\ UNCHANGED <<store, mutexes, gStoredSize, gTimestamp, flushState, env>>

Drawn(t) ==
  /\ pc[t] = "drawn"
  /\ generator' = [generator EXCEPT !.next = loc[t].cas[2] + 1]
  /\ Goto(t, "memory")
  /\ UNCHANGED <<store, mutexes, gStoredSize, gTimestamp, flushState, env>>

-----------------------------------------------------------------------------
(* Making room: the loop of dbInsertElement and dbAddElement *)

Need(t) == IF loc[t].call.op = "insert" THEN InsertNeed(Key(t), loc[t].value)
                                        ELSE AddNeed(Key(t), loc[t].value)

Fits(t) == Wrap(gStoredSize + Need(t)) < MemLimit

CheckMemory(t) ==
  /\ pc[t] = "memory"
  /\ IF Fits(t) THEN GotoWith(t, "emplace", [loc[t] EXCEPT !.table = Table(t)])
                ELSE Goto(t, "probe")
  /\ UNCHANGED <<store, mutexes, gStoredSize, gTimestamp, flushState, generator, env>>

\* Variants: the wrap to table 0 is missing, or stops at the last table.
NextTableNoWrap(b) == b + 1
NextTableStops(b) == IF b # NumTables - 1 THEN b + 1 ELSE b

NextTable(b) == IF b # NumTables - 1 THEN b + 1 ELSE 0

\* The table has no timestamps: move on, and give up when all have been tried.
\* dbInsertElement re-tests the memory; dbAddElement evicts from the next table.
ProbeEmpty(t) ==
  LET b == loc[t].table
      moved == [loc[t] EXCEPT !.table = NextTable(b)]
  IN /\ pc[t] = "probe"
     /\ Free(gTimestampToKeyMutex, b)
     /\ gTimestampToKeySet[b] = {}
     /\ IF moved.table = Table(t)
        THEN GotoWith(t, "done", [moved EXCEPT !.status = "MEMORY_FULL"])
        ELSE IF loc[t].call.op = "insert"
        THEN GotoWith(t, "memory", moved)
        ELSE GotoWith(t, "lockTimestamps", [moved EXCEPT !.evictCur = now])
     /\ UNCHANGED <<store, mutexes, gStoredSize, gTimestamp, flushState, generator, env>>

\* The table has timestamps: call removeLRUElement, whose first act is time().
ProbeNonEmpty(t) ==
  /\ pc[t] = "probe"
  /\ Free(gTimestampToKeyMutex, loc[t].table)
  /\ gTimestampToKeySet[loc[t].table] # {}
  /\ GotoWith(t, "lockTimestamps", [loc[t] EXCEPT !.evictCur = now])
  /\ UNCHANGED <<store, mutexes, gStoredSize, gTimestamp, flushState, generator, env>>

-----------------------------------------------------------------------------
(* removeLRUElement *)

LockTimestamps(t) ==
  /\ pc[t] = "lockTimestamps"
  /\ Free(gTimestampToKeyMutex, loc[t].table)
  /\ gTimestampToKeyMutex' = [gTimestampToKeyMutex EXCEPT ![loc[t].table] = {t}]
  /\ Goto(t, "lockValues")
  /\ UNCHANGED <<store, gKeyToValueMutex, gStoredSize, gTimestamp, flushState, generator, env>>

\* Variant: the map is scanned without its mutex.
LockValuesSkipped(t) ==
  /\ pc[t] = "lockValues"
  /\ Goto(t, "scan")
  /\ UNCHANGED <<store, mutexes, gStoredSize, gTimestamp, flushState, generator, env>>

LockValues(t) ==
  /\ pc[t] = "lockValues"
  /\ Free(gKeyToValueMutex, loc[t].table)
  /\ gKeyToValueMutex' = [gKeyToValueMutex EXCEPT ![loc[t].table] = {t}]
  /\ GotoWith(t, "scan", [loc[t] EXCEPT !.one = {}])
  /\ UNCHANGED <<store, gTimestampToKeyMutex, gStoredSize, gTimestamp, flushState, generator, env>>

\* The timestamps the loop has not visited yet, and the one it visits next.
Unvisited(t) == {e \in gTimestampToKeySet[loc[t].table] :
                   \A one \in loc[t].one : one.timestamp < e.timestamp}
IsOldest(e, S) == e \in S /\ \A f \in S : e.timestamp <= f.timestamp

\* Both mutexes are released and the caller tests the memory again.
EvictReturn(t) ==
  /\ gKeyToValueMutex' = [gKeyToValueMutex EXCEPT ![loc[t].table] = {}]
  /\ gTimestampToKeyMutex' = [gTimestampToKeyMutex EXCEPT ![loc[t].table] = {}]
  /\ GotoWith(t, "memory", [loc[t] EXCEPT !.one = {}, !.evictCur = 0])

Unlink(t, e) == gTimestampToKeySet' = [gTimestampToKeySet EXCEPT ![loc[t].table] = @ \ {e}]

\* The key has already been deleted from the map: drop its timestamp.
EvictOrphan(t, e) ==
  /\ e.key \notin DOMAIN gKeyToValueHashMap
  /\ gStoredSize' = Wrap(gStoredSize - OrphanSize(e.key))
  /\ Unlink(t, e)
  /\ EvictReturn(t)
  /\ UNCHANGED gKeyToValueHashMap

EvictEntry(t, e) ==
  /\ gStoredSize' = Wrap(gStoredSize - EvictedSize(e.key, gKeyToValueHashMap[e.key].value))
  /\ gKeyToValueHashMap' = Without(e.key)
  /\ Unlink(t, e)
  /\ EvictReturn(t)

EvictExpired(t, e) ==
  /\ e.key \in DOMAIN gKeyToValueHashMap
  /\ Expired(gKeyToValueHashMap[e.key], loc[t].evictCur)
  /\ EvictEntry(t, e)

\* The first live element is remembered, the second one ends the loop.
KeepFirst(t, e) ==
  /\ e.key \in DOMAIN gKeyToValueHashMap
  /\ ~Expired(gKeyToValueHashMap[e.key], loc[t].evictCur)
  /\ loc[t].one = {}
  /\ GotoWith(t, "scan", [loc[t] EXCEPT !.one = {e}])
  /\ UNCHANGED <<store, mutexes, gStoredSize>>

StoredLen(e) == ValueLen[gKeyToValueHashMap[e.key].value]

EvictLarger(t, two) ==
  /\ two.key \in DOMAIN gKeyToValueHashMap
  /\ ~Expired(gKeyToValueHashMap[two.key], loc[t].evictCur)
  /\ \E one \in loc[t].one :
       EvictEntry(t, IF StoredLen(one) < StoredLen(two) THEN two ELSE one)

\* The loop ran out with at most one live element.  valueOne was never assigned,
\* so the test against end() returns at once, with both mutexes still locked.
EvictNothing(t) ==
  /\ Unvisited(t) = {}
  /\ GotoWith(t, "memory", [loc[t] EXCEPT !.one = {}, !.evictCur = 0])
  /\ UNCHANGED <<store, mutexes, gStoredSize>>

ScanElement(t, e) == EvictOrphan(t, e) \/ EvictExpired(t, e) \/ KeepFirst(t, e) \/ EvictLarger(t, e)

Scan(t) ==
  /\ pc[t] = "scan"
  /\ \/ \E e \in Unvisited(t) : IsOldest(e, Unvisited(t)) /\ ScanElement(t, e)
     \/ EvictNothing(t)
  /\ UNCHANGED <<gTimestamp, flushState, generator, env>>

-----------------------------------------------------------------------------
(* The regions under gKeyToValueMutex *)

\* emplace throws bad_alloc: MEMORY_FULL is returned with the mutex still locked.
BadAlloc(t) ==
  /\ AllocMayFail
  /\ pc[t] = "emplace"
  /\ Free(gKeyToValueMutex, Table(t))
  /\ gKeyToValueMutex' = [gKeyToValueMutex EXCEPT ![Table(t)] = {t}]
  /\ ReturnStatus(t, "MEMORY_FULL")
  /\ UNCHANGED <<store, gTimestampToKeyMutex, gStoredSize, gTimestamp, flushState, generator, env>>

\* emplace created the element.
EmplaceNew(t) ==
  LET l == loc[t]
  IN /\ gKeyToValueHashMap' = Put(Key(t), [expiry |-> NewExpiry(l.cur, l.expiry),
                                           value |-> l.value, cas |-> l.cas,
                                           timestamp |-> l.timestamp,
                                           writtenAt |-> l.timestamp])
     /\ Goto(t, "grow")

\* The element exists and is overwritten in place.  Its timestamp stays.
Overwrite(t, label) ==
  LET l == loc[t]
      e == gKeyToValueHashMap[Key(t)]
  IN /\ gKeyToValueHashMap' = Put(Key(t), [e EXCEPT !.expiry = Wrap(l.cur + l.expiry),
                                                   !.cas = l.cas, !.value = l.value,
                                                   !.writtenAt = l.timestamp])
     /\ GotoWith(t, label, [l EXCEPT !.old = e.timestamp,
                                     !.diff = ValueLen[e.value] - ValueLen[l.value]])

\* Variant: the tokens are not compared.
InsertIgnoresCas(t) ==
  /\ loc[t].call.op = "insert"
  /\ IF Key(t) \in DOMAIN gKeyToValueHashMap
     THEN Overwrite(t, "erase")
     ELSE IF loc[t].check = NoCas
          THEN EmplaceNew(t)
          ELSE ReturnStatus(t, "NOT_EXIST") /\ UNCHANGED gKeyToValueHashMap

\* dbInsertElement: a cas call never creates, and overwrites only on a match.
InsertEmplace(t) ==
  /\ loc[t].call.op = "insert"
  /\ IF Key(t) \in DOMAIN gKeyToValueHashMap
     THEN IF loc[t].check \in {NoCas, gKeyToValueHashMap[Key(t)].cas}
          THEN Overwrite(t, "erase")
          ELSE ReturnStatus(t, "EXIST") /\ UNCHANGED gKeyToValueHashMap
     ELSE IF loc[t].check = NoCas
          THEN EmplaceNew(t)
          ELSE ReturnStatus(t, "NOT_EXIST") /\ UNCHANGED gKeyToValueHashMap

\* dbAddElement: an existing element is overwritten only when it has expired.
AddEmplace(t) ==
  /\ loc[t].call.op = "add"
  /\ IF Key(t) \notin DOMAIN gKeyToValueHashMap
     THEN EmplaceNew(t)
     ELSE IF Expired(gKeyToValueHashMap[Key(t)], loc[t].cur)
          THEN Overwrite(t, "relink")
          ELSE ReturnStatus(t, "EXIST") /\ UNCHANGED gKeyToValueHashMap

Emplace(t) ==
  /\ pc[t] = "emplace"
  /\ Free(gKeyToValueMutex, Table(t))
  /\ InsertEmplace(t) \/ AddEmplace(t)
  /\ UNCHANGED <<gTimestampToKeySet, mutexes, gStoredSize, gTimestamp, flushState, generator, env>>

\* Variant: the timestamp is renewed without testing the element.
GetRenewsAlways(t) ==
  /\ pc[t] = "get"
  /\ Free(gKeyToValueMutex, Table(t))
  /\ IF Key(t) \notin DOMAIN gKeyToValueHashMap
     THEN ReturnStatus(t, "NOT_EXIST") /\ UNCHANGED gKeyToValueHashMap
     ELSE LET e == gKeyToValueHashMap[Key(t)]
          IN /\ gKeyToValueHashMap' = Put(Key(t), [e EXCEPT !.timestamp = loc[t].timestamp])
             /\ GotoWith(t, "relink", [loc[t] EXCEPT !.old = e.timestamp])
  /\ UNCHANGED <<gTimestampToKeySet, mutexes, gStoredSize, gTimestamp, flushState, generator, env>>

\* dbGetElement: an expired element leaves the map, a live one is copied and
\* takes the call's timestamp.
Get(t) ==
  /\ pc[t] = "get"
  /\ Free(gKeyToValueMutex, Table(t))
  /\ IF Key(t) \notin DOMAIN gKeyToValueHashMap
     THEN ReturnStatus(t, "NOT_EXIST") /\ UNCHANGED gKeyToValueHashMap
     ELSE LET e == gKeyToValueHashMap[Key(t)]
          IN IF Expired(e, loc[t].cur)
             THEN ReturnStatus(t, "NOT_EXIST") /\ gKeyToValueHashMap' = Without(Key(t))
             ELSE /\ gKeyToValueHashMap' = Put(Key(t), [e EXCEPT !.timestamp = loc[t].timestamp])
                  /\ GotoWith(t, "relink",
                       [loc[t] EXCEPT !.old = e.timestamp, !.value = e.value, !.cas = e.cas,
                                      !.expiry = Wrap(e.expiry - loc[t].cur)])
  /\ UNCHANGED <<gTimestampToKeySet, mutexes, gStoredSize, gTimestamp, flushState, generator, env>>

\* dbDeleteElement: only the map is touched.
Delete(t) ==
  /\ pc[t] = "delete"
  /\ Free(gKeyToValueMutex, Table(t))
  /\ IF Key(t) \notin DOMAIN gKeyToValueHashMap
     THEN ReturnStatus(t, "NOT_EXIST") /\ UNCHANGED gKeyToValueHashMap
     ELSE LET e == gKeyToValueHashMap[Key(t)]
          IN IF Expired(e, loc[t].cur)
             THEN ReturnStatus(t, "NOT_EXIST") /\ UNCHANGED gKeyToValueHashMap
             ELSE /\ ReturnStatus(t, "SUCCESS")
                  /\ gKeyToValueHashMap' =
                       IF loc[t].expiry = 0 THEN Without(Key(t))
                       ELSE Put(Key(t), [e EXCEPT !.expiry = Wrap(loc[t].cur + loc[t].expiry)])
  /\ UNCHANGED <<gTimestampToKeySet, mutexes, gStoredSize, gTimestamp, flushState, generator, env>>

-----------------------------------------------------------------------------
(* The steps after it: gStoredSize, and the regions under gTimestampToKeyMutex *)

Grow(t) ==
  /\ pc[t] = "grow"
  /\ gStoredSize' = Wrap(gStoredSize + ElementSize(Key(t), loc[t].value))
  /\ Goto(t, "link")
  /\ UNCHANGED <<store, mutexes, gTimestamp, flushState, generator, env>>

Resize(t) ==
  /\ pc[t] = "resize"
  /\ gStoredSize' = Wrap(gStoredSize - loc[t].diff)
  /\ Goto(t, "link")
  /\ UNCHANGED <<store, mutexes, gTimestamp, flushState, generator, env>>

SetTimestamps(t, S) ==
  /\ Free(gTimestampToKeyMutex, Table(t))
  /\ gTimestampToKeySet' = [gTimestampToKeySet EXCEPT ![Table(t)] = S]
  /\ UNCHANGED <<gKeyToValueHashMap, mutexes, gStoredSize, gTimestamp, flushState, generator, env>>

\* Variant: the overwriting store returns without a new timestamp.
EraseOnly(t) ==
  /\ pc[t] = "erase"
  /\ SetTimestamps(t, EraseStamp(gTimestampToKeySet[Table(t)], loc[t].old))
  /\ ReturnStatus(t, "SUCCESS")

Erase(t) ==
  /\ pc[t] = "erase"
  /\ SetTimestamps(t, EraseStamp(gTimestampToKeySet[Table(t)], loc[t].old))
  /\ Goto(t, "resize")

Link(t) ==
  /\ pc[t] = "link"
  /\ SetTimestamps(t, InsertStamp(gTimestampToKeySet[Table(t)], loc[t].timestamp, Key(t)))
  /\ ReturnStatus(t, "SUCCESS")

Relink(t) ==
  /\ pc[t] = "relink"
  /\ SetTimestamps(t, InsertStamp(EraseStamp(gTimestampToKeySet[Table(t)], loc[t].old),
                                  loc[t].timestamp, Key(t)))
  /\ ReturnStatus(t, "SUCCESS")

-----------------------------------------------------------------------------
(* dbSetFlushAll and dbHandleFlushAll *)

SetFlush(t) ==
  /\ pc[t] = "setFlush"
  /\ gFlushAllTime' = Wrap(now + loc[t].expiry)
  /\ Goto(t, "done")
  /\ UNCHANGED <<store, mutexes, gStoredSize, gTimestamp, gFlushAllTimestamp,
                 gIsFlushAllSet, generator, env>>

\* Variant: the time of a delayed flush is not tested.
FlushAtOnce(t) ==
  /\ pc[t] = "flushTime"
  /\ Goto(t, "flushStamp")
  /\ UNCHANGED <<store, mutexes, gStoredSize, gTimestamp, flushState, generator, env>>

FlushTime(t) ==
  /\ pc[t] = "flushTime"
  /\ Goto(t, IF gFlushAllTime <= now THEN "flushStamp" ELSE "done")
  /\ UNCHANGED <<store, mutexes, gStoredSize, gTimestamp, flushState, generator, env>>

FlushStamp(t) ==
  /\ pc[t] = "flushStamp"
  /\ gTimestamp' = gTimestamp + 1
  /\ GotoWith(t, "flushStore", [loc[t] EXCEPT !.timestamp = gTimestamp + 1])
  /\ UNCHANGED <<store, mutexes, gStoredSize, flushState, generator, env>>

FlushStore(t) ==
  /\ pc[t] = "flushStore"
  /\ gFlushAllTimestamp' = loc[t].timestamp
  /\ Goto(t, "flushClear")
  /\ UNCHANGED <<store, mutexes, gStoredSize, gTimestamp, gFlushAllTime, gIsFlushAllSet,
                 generator, env>>

FlushClear(t) ==
  /\ pc[t] = "flushClear"
  /\ gIsFlushAllSet' = FALSE
  /\ Goto(t, "done")
  /\ UNCHANGED <<store, mutexes, gStoredSize, gTimestamp, gFlushAllTimestamp,
                 gFlushAllTime, generator, env>>

-----------------------------------------------------------------------------

Tick ==
  /\ now < MaxTime
  /\ now' = now + 1
  /\ UNCHANGED <<store, mutexes, gStoredSize, gTimestamp, flushState, generator, seen, pc, loc>>

Init ==
  /\ gKeyToValueHashMap = [k \in {} |-> 0]
  /\ gTimestampToKeySet = [b \in Tables |-> {}]
  /\ gKeyToValueMutex = [b \in Tables |-> {}]
  /\ gTimestampToKeyMutex = [b \in Tables |-> {}]
  /\ gStoredSize = 0
  /\ gTimestamp = 0
  /\ gFlushAllTimestamp = 0
  /\ gFlushAllTime = 0
  /\ gIsFlushAllSet = FALSE
  /\ generator = [seed |-> {}, next |-> 0]
  /\ now = 1
  /\ pc = [t \in Threads |-> "idle"]
  /\ loc = [t \in Threads |-> Blank]
  /\ seen = [t \in Threads |-> {}]

MakeRoom(t) == \/ CheckMemory(t) \/ ProbeEmpty(t) \/ ProbeNonEmpty(t)
               \/ LockTimestamps(t) \/ LockValues(t) \/ Scan(t)

Flush(t) == SetFlush(t) \/ FlushTime(t) \/ FlushStamp(t) \/ FlushStore(t) \/ FlushClear(t)

\* A step of a call in progress.
Step(t) == \/ Stamp(t) \/ Draw(t) \/ Drawn(t) \/ MakeRoom(t)
           \/ Emplace(t) \/ BadAlloc(t) \/ Get(t) \/ Delete(t)
           \/ Grow(t) \/ Erase(t) \/ Resize(t) \/ Link(t) \/ Relink(t)
           \/ Flush(t) \/ Return(t)

Next == Tick \/ \E t \in Threads : Step(t) \/ \E c \in Calls : Begin(t, c)

Spec == Init /\ [][Next]_vars

\* A thread that can take the next step of its call eventually does.
FairSpec == Spec /\ \A t \in Threads : WF_vars(Step(t))
-----------------------------------------------------------------------------
(* Properties *)

\* The variables keep their types; in particular the table numbers of the loops stay
\* in range (lines 360-367, 495-502) and gStoredSize is an unsigned long.
TypeOK ==
  /\ DOMAIN gKeyToValueHashMap \subseteq Keys
  /\ \A k \in DOMAIN gKeyToValueHashMap : gKeyToValueHashMap[k] \in Entry
  /\ gTimestampToKeySet \in [Tables -> SUBSET TimestampToKeyStruct]
  /\ gKeyToValueMutex \in [Tables -> SUBSET Threads]
  /\ gTimestampToKeyMutex \in [Tables -> SUBSET Threads]
  /\ gStoredSize \in 0 .. WordMod - 1
  /\ {gTimestamp, gFlushAllTimestamp, gFlushAllTime} \subseteq Nat
  /\ gIsFlushAllSet \in BOOLEAN
  /\ generator \in [seed: SUBSET Nat, next: Nat]
  /\ now \in Nat
  /\ pc \in [Threads -> Pcs]
  /\ loc \in [Threads -> Local]
  /\ seen \in [Threads -> SUBSET [key: Keys, cas: CasTokens, value: Values]]

\* Threads that hold, or have changed the map and still owe, a timestamp.
LinkPcs == {"grow", "erase", "resize", "link", "relink"}
StampedPcs == LinkPcs \cup {"draw", "drawn", "memory", "probe", "lockTimestamps",
                            "lockValues", "scan", "emplace", "get"}

\* Eviction can reach everything that is stored: each element of the map has a
\* timestamp in its table's set, or the thread that is storing or reading it is
\* about to put one there.  An element without a timestamp would never be
\* evicted.  At risk: the map and the set are updated in separate critical
\* sections, with evictions, deletes and other stores in between.
EveryEntryEvictable ==
  \A k \in DOMAIN gKeyToValueHashMap :
    \/ \E e \in gTimestampToKeySet[TableOf[k]] : e.key = k
    \/ \E t \in Threads : pc[t] \in LinkPcs /\ Key(t) = k

\* The element removeLRUElement remembers as its first candidate stays in both
\* structures while the scan goes on to the second: the iterator it keeps is not
\* invalidated by a concurrent get, store, delete or eviction.
CandidateStaysValid ==
  \A t \in Threads : pc[t] = "scan" =>
    \A e \in loc[t].one : /\ e \in gTimestampToKeySet[loc[t].table]
                          /\ e.key \in DOMAIN gKeyToValueHashMap

\* The (stamp, key) pairs recorded anywhere: in the sets, in the map, in calls.
Claims == {<<e.timestamp, e.key>> : e \in UNION {gTimestampToKeySet[b] : b \in Tables}}
     \cup {<<gKeyToValueHashMap[k].timestamp, k>> : k \in DOMAIN gKeyToValueHashMap}
     \cup {<<loc[t].timestamp, Key(t)>> : t \in {u \in Threads : pc[u] \in StampedPcs}}
     \cup {<<loc[t].old, Key(t)>> : t \in {u \in Threads : pc[u] \in {"erase", "relink"}}}

\* A stamp belongs to one key for ever: the set compares timestamps only, so a
\* stamp shared by two keys would drop one key's timestamp on insert or remove
\* it on the other's erase.  At risk: gTimestamp++ of the calls, ++gTimestamp of
\* a flush, and stamps kept in the map and in calls long after they were drawn.
StampsBelongToOneKey ==
  \A p, q \in Claims : p[1] = q[1] => p[2] = q[2]

\* Replacing a timestamp never removes another key's timestamp, and never loses
\* the new one: at the end of a successful store or get the call's own stamp is
\* in the set.  (The erase and insert of lines 422-444, 547-549 and 654-656.)
RelinkTouchesOwnKeyOnly ==
  [][\A t \in Threads :
       LET b == Table(t)
           mine == [timestamp |-> loc[t].timestamp, key |-> Key(t)]
       IN /\ (pc[t] \in {"erase", "relink"} /\ pc'[t] # pc[t]) =>
               \A e \in gTimestampToKeySet[b] \ gTimestampToKeySet'[b] : e.key = Key(t)
          /\ (pc[t] \in {"link", "relink"} /\ pc'[t] # pc[t]) =>
               mine \in gTimestampToKeySet'[b]]_vars

\* A cas store replaces only the value its client last read (lines 407-419): a
\* store of anyone else in between gave the element another token.  Left out are
\* the first draws of a generator, which dbAddElement hands out again and again
\* within a second.
CasReplacesWhatWasRead ==
  [][\A t \in Threads :
       (pc[t] = "emplace" /\ pc'[t] = "erase" /\ loc[t].call.cas /\ loc[t].check[2] # 0) =>
         \A s \in seen[t] : gKeyToValueHashMap[Key(t)].value = s.value]_vars

\* A mutex whose holder has left the part of removeLRUElement that releases it.
Leaked(b) ==
  \/ \E t \in gTimestampToKeyMutex[b] : ~(pc[t] \in {"lockValues", "scan"} /\ loc[t].table = b)
  \/ \E t \in gKeyToValueMutex[b] : ~(pc[t] = "scan" /\ loc[t].table = b)

\* Every call returns, unless a mutex has been leaked: the two mutexes are never
\* waited for in a cycle, and the loop that makes room visits each table at most
\* once before it gives up, whatever the other threads insert meanwhile.
CallsReturn ==
  \A t \in Threads : pc[t] # "idle" ~> (pc[t] = "idle" \/ \E b \in Tables : Leaked(b))
-----------------------------------------------------------------------------
(* What the documentation promises *)

\* A flush hides every value stored before it, for good: no element written
\* before the flush stamp carries a timestamp that the flush test accepts.  At
\* risk: dbHandleFlushAll draws the stamp and publishes it in two steps, and
\* dbGetElement renews timestamps.
FlushHidesOlder ==
  \A k \in DOMAIN gKeyToValueHashMap :
    gKeyToValueHashMap[k].writtenAt < gFlushAllTimestamp =>
      gKeyToValueHashMap[k].timestamp < gFlushAllTimestamp

Dead(e, flushStamp, time) == e.expiry < time \/ e.timestamp < flushStamp

Quiescent == \A t \in Threads : pc[t] = "idle"

\* A delayed flush_all whose time has not come is still going to happen: the
\* flag that dbHandleFlushAll tests is up.
PendingFlushArmed == Quiescent /\ gFlushAllTime > now => gIsFlushAllSet

\* A value that has expired or been flushed stays so until the key is stored
\* anew.  At risk: dbGetElement renews timestamps, clocks are read long before
\* they are used, and two handlers may publish their flush stamps out of order.
NoResurrection ==
  [][\A k \in DOMAIN gKeyToValueHashMap \cap DOMAIN gKeyToValueHashMap' :
       LET e == gKeyToValueHashMap[k]
           f == gKeyToValueHashMap'[k]
       IN e.writtenAt = f.writtenAt /\ Dead(e, gFlushAllTimestamp, now)
            => Dead(f, gFlushAllTimestamp', now')]_vars

\* removeLRUElement on a table with one element evicts that element.
OnlyElementEvicted ==
  [][\A t \in Threads :
       LET b == loc[t].table
       IN (pc[t] = "scan" /\ pc'[t] # "scan" /\ Cardinality(gTimestampToKeySet[b]) = 1)
            => gTimestampToKeySet'[b] = {}]_vars

\* What was stored with SUCCESS can be read back when the call returns.
StoredIsVisible ==
  \A t \in Threads :
    loc[t].status = "SUCCESS" /\ loc[t].call.op \in {"insert", "add"} =>
      /\ Key(t) \in DOMAIN gKeyToValueHashMap
      /\ ~Expired(gKeyToValueHashMap[Key(t)], now)
==============================================================================
