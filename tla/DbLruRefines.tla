---------------------------- MODULE DbLruRefines ----------------------------
(***************************************************************************)
(* DbLru implements Cache, for any number of threads, keys and tables.     *)
(* Every step of a thread is a step of its call in Cache or changes        *)
(* nothing there: the effect of a call is the one critical section on the  *)
(* map, and what eviction does before it, and the timestamp sets after it, *)
(* cannot be told from outside.                                            *)
(***************************************************************************)
EXTENDS DbLruProofs, DbLruEngine

RoomPcs == {"memory", "probe", "lockTimestamps", "lockValues", "scan"}
FlushPcs == {"flushTime", "flushStamp", "flushStore", "flushClear"}

\* The labels that the calls of an operation pass.
OpFits(p, op) ==
  /\ p = "stamp" => op \in {"insert", "add", "get"}
  /\ p \in {"draw", "drawn", "erase", "resize"} => op = "insert"
  /\ p \in RoomPcs \cup {"emplace", "grow", "link"} => op \in {"insert", "add"}
  /\ p = "get" => op = "get"
  /\ p = "relink" => op \in {"add", "get"}
  /\ p = "delete" => op = "delete"
  /\ p = "setFlush" => op = "setFlush"
  /\ p \in FlushPcs => op = "handleFlush"

\* Until its effect a call has its parameters, and no result; n is the next stamp.
CallFits(p, l, n) ==
  /\ OpFits(p, l.call.op)
  /\ p \notin {"idle", "done"} => l.status = "none"
  /\ p \notin LinkPcs \cup {"idle", "done"} => l.value = l.call.value /\ l.expiry = l.call.expiry
  /\ p = "flushStore" => l.timestamp <= n

\* No flush has a stamp that is still to be drawn.
EInv == /\ \A t \in Threads : CallFits(pc[t], loc[t], gTimestamp)
        /\ gFlushAllTimestamp <= gTimestamp

-----------------------------------------------------------------------------
(* What a step of thread t to label p with locals l changes of the mapping *)

\* A step that keeps its locals is one that writes them back.
LEMMA GotoKeeps ==
  ASSUME IInv, NEW t \in Threads, NEW p, Goto(t, p)
  PROVE  GotoWith(t, p, loc[t])
BY Types DEF Goto, GotoWith

\* Only t moves.
LEMMA Moved ==
  ASSUME IInv, NEW t \in Threads, NEW p, NEW l, GotoWith(t, p, l)
  PROVE  /\ pc'[t] = p /\ loc'[t] = l
         /\ \A u \in Threads \ {t} : pc'[u] = pc[u] /\ loc'[u] = loc[u]
BY Types DEF GotoWith

\* What the calls of all threads look like after a step of one.
LEMMA CallsMove ==
  ASSUME IInv, NEW t \in Threads, NEW p, NEW l, GotoWith(t, p, l)
  PROVE  calls' = [calls EXCEPT ![t] = CallOf(p, l)] /\ calls[t] = CallOf(pc[t], loc[t])
<1>1. /\ CallOf(pc'[t], loc'[t]) = CallOf(p, l)
      /\ \A u \in Threads \ {t} : CallOf(pc'[u], loc'[u]) = CallOf(pc[u], loc[u])
  BY Moved
<1> QED
  BY <1>1, Zenon DEF calls

\* Which calls a flush has overtaken after a step of one.
LEMMA OvertakenMove ==
  ASSUME IInv, NEW t \in Threads, NEW p, NEW l, GotoWith(t, p, l),
         UNCHANGED gFlushAllTimestamp
  PROVE  overtaken' = IF Overtaken(p, l) THEN overtaken \cup {t} ELSE overtaken \ {t}
<1>1. \A u \in Threads \ {t} : Overtaken(pc[u], loc[u])' <=> Overtaken(pc[u], loc[u])
  BY Moved DEF Overtaken
<1>2. Overtaken(pc[t], loc[t])' <=> Overtaken(p, l)
  BY Moved DEF Overtaken
<1> QED
  BY <1>1, <1>2 DEF overtaken

\* What the flushes in progress spare, when no step of a flush is taken.
LEMMA SparingMove ==
  ASSUME IInv, NEW t \in Threads, NEW p, NEW l, GotoWith(t, p, l),
         pc[t] # "flushStore", p # "flushStore"
  PROVE  /\ sparing[t] = {} /\ sparing'[t] = {}
         /\ \A u \in Threads : \A e : Spares(pc'[u], loc'[u], e) <=> Spares(pc[u], loc[u], e)
<1>1. \A e : ~Spares(pc[t], loc[t], e) /\ ~Spares(pc'[t], loc'[t], e)
  BY Moved DEF Spares
<1> QED
  BY <1>1, Moved DEF sparing

\* A step that leaves the map and the flush stamp alone.
LEMMA SameMap ==
  ASSUME UNCHANGED <<gKeyToValueHashMap, gFlushAllTimestamp>>
  PROVE  elements' = elements /\ flushed' = flushed
BY DEF elements, flushed

\* The elements spared stay the same while the map does.
LEMMA SameSparing ==
  ASSUME IInv, NEW t \in Threads, NEW p, NEW l, GotoWith(t, p, l),
         pc[t] # "flushStore", p # "flushStore", UNCHANGED gKeyToValueHashMap
  PROVE  sparing' = sparing
<1>1. \A u \in Threads : \A e : Spares(pc'[u], loc'[u], e) <=> Spares(pc[u], loc[u], e)
  BY SparingMove
<1> QED
  BY <1>1 DEF sparing

\* A step between the critical sections changes nothing.
LEMMA Quiet ==
  ASSUME IInv, NEW t \in Threads, NEW p, NEW l, GotoWith(t, p, l),
         UNCHANGED <<gKeyToValueHashMap, flushState, now>>,
         pc[t] # "flushStore", p # "flushStore", CallOf(p, l) = CallOf(pc[t], loc[t]),
         Overtaken(p, l) <=> Overtaken(pc[t], loc[t])
  PROVE  UNCHANGED Engine!vars
<1>1. elements' = elements /\ flushed' = flushed
  BY SameMap DEF flushState
<1>2. sparing' = sparing
  BY SameSparing
<1>3. calls' = calls
  <2>1. calls' = [calls EXCEPT ![t] = calls[t]]
    BY CallsMove
  <2> QED
    BY <2>1, Zenon DEF calls
<1>4. overtaken' = overtaken
  BY OvertakenMove DEF overtaken, flushState
<1> QED
  BY <1>1, <1>2, <1>3, <1>4 DEF Engine!vars, Engine!content, Engine!flushState, flushState

\* A call that has taken effect is closed.
LEMMA ClosedPhase == \A p \in ClosedPcs : PhaseOf(p) = "closed"
BY DEF PhaseOf, ClosedPcs, LinkPcs

\* A step keeps EInv if its new label and locals fit.
LEMMA FitsMove ==
  ASSUME IInv, EInv, NEW t \in Threads, NEW p, NEW l, GotoWith(t, p, l),
         gTimestamp' \in Nat, gTimestamp' >= gTimestamp, gFlushAllTimestamp' = gFlushAllTimestamp,
         CallFits(p, l, gTimestamp')
  PROVE  EInv'
<1>1. /\ gTimestamp \in Nat /\ gFlushAllTimestamp \in Nat
      /\ \A u \in Threads : loc[u].timestamp \in Nat
  BY Types DEF IInv, TypeOK, Local
<1>2. \A u \in Threads \ {t} : CallFits(pc[u], loc[u], gTimestamp')
  BY <1>1 DEF EInv, CallFits
<1>3. \A u \in Threads : CallFits(pc'[u], loc'[u], gTimestamp')
  BY <1>2, Moved
<1> QED
  BY <1>1, <1>3 DEF EInv

\* The same for a step that draws no timestamp.
LEMMA FitsStays ==
  ASSUME IInv, EInv, NEW t \in Threads, NEW p, NEW l, GotoWith(t, p, l),
         UNCHANGED gTimestamp, gFlushAllTimestamp' = gFlushAllTimestamp,
         CallFits(p, l, gTimestamp')
  PROVE  EInv'
<1>1. gTimestamp' \in Nat /\ gTimestamp' >= gTimestamp
  BY Types
<1> QED
  BY <1>1, FitsMove

\* What a step of DbLru is to Cache.
Maps == EInv' /\ [Engine!Next]_(Engine!vars)

\* A call under way and its phase.
LEMMA CallFields ==
  ASSUME NEW p, NEW l, p # "idle"
  PROVE  /\ CallOf(p, l).phase = PhaseOf(p)
         /\ CallOf(p, l).c.op = l.call.op /\ CallOf(p, l).c.expiry = l.call.expiry
BY DEF CallOf

\* Calls that differ in nothing that Cache can see.
LEMMA SameCall ==
  ASSUME NEW p, NEW q, NEW l, NEW m, p # "idle", q # "idle", PhaseOf(q) = PhaseOf(p),
         StatusOf(q, m) = StatusOf(p, l), m.call = l.call, m.check = l.check, m.cur = l.cur,
         m.value = l.value, m.cas = l.cas \/ l.call.op # "get", m.expiry = l.expiry
  PROVE  CallOf(q, m) = CallOf(p, l)
BY DEF CallOf

\* On its way to its effect a call draws a stamp and a token, and makes room.
LEMMA Waits ==
  ASSUME IInv, EInv, NEW t \in Threads, pc[t] \in {"stamp"} \cup (StampedPcs \ LinkPcs),
         NEW p \in StampedPcs \ LinkPcs, NEW l, GotoWith(t, p, l),
         UNCHANGED <<gKeyToValueHashMap, flushState, now>>,
         gTimestamp' \in Nat, gTimestamp' >= gTimestamp,
         IF pc[t] = "stamp" THEN l.timestamp = gTimestamp ELSE l.timestamp = loc[t].timestamp,
         l.call = loc[t].call, l.check = loc[t].check, l.cur = loc[t].cur,
         l.value = loc[t].value, l.cas = loc[t].cas \/ l.call.op # "get",
         l.expiry = loc[t].expiry, l.status = loc[t].status, OpFits(p, l.call.op)
  PROVE  Maps
<1>1. CallFits(pc[t], loc[t], gTimestamp) /\ gFlushAllTimestamp <= gTimestamp
  BY DEF EInv
<1>2. /\ p \notin {"idle", "done", "flushStore"} \cup LinkPcs
      /\ pc[t] \notin {"idle", "done", "flushStore"} \cup LinkPcs
  BY DEF StampedPcs, LinkPcs
<1>3. CallFits(p, l, gTimestamp')
  BY <1>1, <1>2 DEF CallFits
<1>4. EInv'
  BY <1>3, FitsMove DEF flushState
<1>5. PhaseOf(p) = "open" /\ PhaseOf(pc[t]) = "open"
  BY DEF PhaseOf, ClosedPcs, StampedPcs, LinkPcs
<1>6. StatusOf(p, l) = StatusOf(pc[t], loc[t])
  BY <1>2 DEF StatusOf
<1>7. CallOf(p, l) = CallOf(pc[t], loc[t])
  BY <1>2, <1>5, <1>6, SameCall
<1>8. Overtaken(p, l) <=> Overtaken(pc[t], loc[t])
  <2>1. CASE pc[t] = "stamp"
    <3>1. gTimestamp \in Nat /\ gFlushAllTimestamp \in Nat
      BY DEF IInv, TypeOK
    <3> QED
      BY <1>1, <2>1, <3>1 DEF Overtaken, StampedPcs, LinkPcs
  <2>2. CASE pc[t] # "stamp"
    BY <2>2 DEF Overtaken
  <2> QED
    BY <2>1, <2>2
<1>9. UNCHANGED Engine!vars
  BY <1>2, <1>7, <1>8, Quiet
<1> QED
  BY <1>4, <1>9 DEF Maps

\* After its effect a call adjusts gStoredSize and the timestamps.
LEMMA Finishes ==
  ASSUME IInv, EInv, NEW t \in Threads, pc[t] \in LinkPcs, NEW p \in ClosedPcs, NEW l,
         GotoWith(t, p, l), UNCHANGED <<gKeyToValueHashMap, gTimestamp, flushState, now>>,
         IF p = "done" THEN l = [loc[t] EXCEPT !.status = "SUCCESS"] ELSE l = loc[t],
         OpFits(p, loc[t].call.op)
  PROVE  Maps
<1>0. loc[t] \in Local
  BY Types
<1>1. /\ CallFits(pc[t], loc[t], gTimestamp) /\ gTimestamp \in Nat
      /\ p \notin {"idle", "flushStore"} /\ pc[t] \notin {"idle", "done", "flushStore"}
  BY DEF EInv, IInv, TypeOK, LinkPcs, ClosedPcs
<1>2. /\ l.call = loc[t].call /\ l.check = loc[t].check /\ l.cur = loc[t].cur
      /\ l.value = loc[t].value /\ l.cas = loc[t].cas /\ l.expiry = loc[t].expiry
      /\ p = "done" => l.status = "SUCCESS"
      /\ p # "done" => l.status = loc[t].status
  BY <1>0 DEF Local
<1>3. CallFits(p, l, gTimestamp')
  BY <1>1, <1>2 DEF CallFits, LinkPcs, ClosedPcs
<1>4. EInv'
  BY <1>1, <1>3, FitsStays, Zenon DEF flushState
<1>5. /\ PhaseOf(p) = "closed" /\ PhaseOf(pc[t]) = "closed"
      /\ StatusOf(p, l) = "SUCCESS" /\ StatusOf(pc[t], loc[t]) = "SUCCESS"
  <2>1. pc[t] \in ClosedPcs
    BY DEF ClosedPcs
  <2>2. PhaseOf(p) = "closed" /\ PhaseOf(pc[t]) = "closed"
    BY <2>1, ClosedPhase
  <2>3. p \in LinkPcs \/ p = "done"
    BY DEF ClosedPcs
  <2> QED
    BY <1>2, <2>2, <2>3 DEF StatusOf, LinkPcs
<1>6. CallOf(p, l) = CallOf(pc[t], loc[t])
  BY <1>1, <1>2, <1>5, SameCall
<1>7. ~Overtaken(p, l) /\ ~Overtaken(pc[t], loc[t])
  BY DEF Overtaken, ClosedPcs, StampedPcs, LinkPcs
<1>8. UNCHANGED Engine!vars
  BY <1>1, <1>6, <1>7, Quiet, Zenon
<1> QED
  BY <1>4, <1>8 DEF Maps

-----------------------------------------------------------------------------
(* The steps before and after the effect *)

\* timestamp = gTimestamp++.
LEMMA StampMaps ==
  ASSUME IInv, EInv, NEW t \in Threads, Stamp(t)
  PROVE  Maps
<1>0. loc[t] \in Local /\ gTimestamp \in Nat /\ CallFits(pc[t], loc[t], gTimestamp)
  BY Types DEF EInv
<1>1. /\ pc[t] = "stamp" /\ gTimestamp' = gTimestamp + 1
      /\ UNCHANGED <<gKeyToValueHashMap, flushState, now>>
  BY Zenon DEF Stamp, store, env
<1>2. PICK p \in {"draw", "memory", "get"}, l \in Local :
        /\ GotoWith(t, p, l) /\ OpFits(p, loc[t].call.op) /\ l.timestamp = gTimestamp
        /\ l.call = loc[t].call /\ l.check = loc[t].check /\ l.cur = loc[t].cur
        /\ l.value = loc[t].value /\ l.expiry = loc[t].expiry /\ l.status = loc[t].status
        /\ l.cas = loc[t].cas \/ l.call.op # "get"
  <2> DEFINE l0 == [loc[t] EXCEPT !.timestamp = gTimestamp]
             l1 == [l0 EXCEPT !.cas = <<l0.cur, 0>>]
  <2>1. loc[t].call.op \in {"insert", "add", "get"}
    BY <1>0, <1>1 DEF CallFits, OpFits
  <2>2. l0 \in Local /\ l1 \in Local
    BY <1>0, Zenon DEF Local, CasTokens
  <2>3. CASE loc[t].call.op = "insert"
    BY <1>0, <2>2, <2>3 DEF Stamp, OpFits, RoomPcs, FlushPcs, Local
  <2>4. CASE loc[t].call.op = "add"
    BY <1>0, <2>2, <2>4, Zenon DEF Stamp, OpFits, RoomPcs, FlushPcs, Local
  <2>5. CASE loc[t].call.op = "get"
    BY <1>0, <2>2, <2>5 DEF Stamp, OpFits, RoomPcs, FlushPcs, Local
  <2> QED
    BY <2>1, <2>3, <2>4, <2>5, ZenonT(30)
<1>3. p \in StampedPcs \ LinkPcs
  BY Zenon DEF StampedPcs, LinkPcs
<1> QED
  BY <1>0, <1>1, <1>2, <1>3, Waits

\* The two steps of the static generator.
LEMMA DrawMaps ==
  ASSUME IInv, EInv, NEW t \in Threads, Draw(t) \/ Drawn(t)
  PROVE  Maps
<1>0. loc[t] \in Local /\ gTimestamp \in Nat /\ CallFits(pc[t], loc[t], gTimestamp)
  BY Types DEF EInv
<1>1. /\ pc[t] \in {"draw", "drawn"}
      /\ UNCHANGED <<gKeyToValueHashMap, gTimestamp, flushState, now>>
  BY Zenon DEF Draw, Drawn, store, env
<1>2. loc[t].call.op = "insert"
  BY <1>0, <1>1 DEF CallFits, OpFits
<1>3. PICK p \in {"drawn", "memory"} : \E c : GotoWith(t, p, [loc[t] EXCEPT !.cas = c])
  <2>1. CASE Draw(t)
    <3>1. PICK s : GotoWith(t, "drawn", [loc[t] EXCEPT !.cas = <<s, generator.next>>])
      BY <2>1, Zenon DEF Draw
    <3> QED
      BY <3>1, Zenon
  <2>2. CASE Drawn(t)
    <3>1. loc[t] = [loc[t] EXCEPT !.cas = loc[t].cas]
      BY <1>0 DEF Local
    <3>2. GotoWith(t, "memory", loc[t])
      BY <2>2, GotoKeeps DEF Drawn
    <3>3. GotoWith(t, "memory", [loc[t] EXCEPT !.cas = loc[t].cas])
      BY <3>1, <3>2
    <3> QED
      BY <3>3, Zenon
  <2> QED
    BY <2>1, <2>2, Zenon
<1>4. PICK c : GotoWith(t, p, [loc[t] EXCEPT !.cas = c])
  BY <1>3, Zenon
<1> DEFINE l == [loc[t] EXCEPT !.cas = c]
<1>5. /\ l.call = loc[t].call /\ l.check = loc[t].check /\ l.cur = loc[t].cur
      /\ l.value = loc[t].value /\ l.expiry = loc[t].expiry /\ l.status = loc[t].status
      /\ l.timestamp = loc[t].timestamp
  BY <1>0 DEF Local
<1>6. GotoWith(t, p, l)
  BY <1>4, Zenon
<1> HIDE DEF l
<1>7. /\ p \in StampedPcs \ LinkPcs /\ pc[t] \in StampedPcs \ LinkPcs /\ pc[t] # "stamp"
      /\ OpFits(p, l.call.op)
  BY <1>1, <1>2, <1>5, ZenonT(30) DEF StampedPcs, LinkPcs, OpFits, RoomPcs, FlushPcs
<1> QED
  BY <1>0, <1>1, <1>2, <1>5, <1>7, <1>6, Waits

\* The locals of a call that makes room differ in the table it works on.
SameRequest(m, l) ==
  /\ m.call = l.call /\ m.check = l.check /\ m.cur = l.cur /\ m.value = l.value
  /\ m.cas = l.cas /\ m.expiry = l.expiry /\ m.status = l.status /\ m.timestamp = l.timestamp

\* The steps that make room for an element and evict none.
LEMMA RoomMaps ==
  ASSUME IInv, EInv, NEW t \in Threads, pc[t] \in RoomPcs,
         NEW p \in RoomPcs \cup {"emplace"}, NEW l, GotoWith(t, p, l), SameRequest(l, loc[t]),
         UNCHANGED <<gKeyToValueHashMap, gTimestamp, flushState, now>>
  PROVE  Maps
<1>1. CallFits(pc[t], loc[t], gTimestamp) /\ gTimestamp \in Nat
  BY Types DEF EInv
<1>2. loc[t].call.op \in {"insert", "add"}
  BY <1>1 DEF CallFits, OpFits
<1>3. /\ pc[t] \in StampedPcs \ LinkPcs /\ p \in StampedPcs \ LinkPcs /\ pc[t] # "stamp"
  BY DEF RoomPcs, StampedPcs, LinkPcs
<1>4. OpFits(p, loc[t].call.op)
  BY <1>2 DEF OpFits, RoomPcs, FlushPcs
<1> QED
  BY <1>1, <1>3, <1>4, Waits DEF SameRequest

\* The fields that change when a call takes effect.
LEMMA ClosedRecord ==
  ASSUME NEW x, DOMAIN x = {"phase", "c", "cur", "status", "got"}, NEW s, NEW g, NEW z,
         z = [x EXCEPT !.phase = "closed", !.status = s, !.got = g]
  PROVE  z = [phase |-> "closed", c |-> x.c, cur |-> x.cur, status |-> s, got |-> g]
BY Zenon

\* The call of t in Cache.
LEMMA CallAt == \A t \in Threads : calls[t] = CallOf(pc[t], loc[t])
BY DEF calls

\* The result of a call that takes effect.
ResultOf(l, s) == IF l.call.op = "get" /\ s = "SUCCESS" THEN <<l.value, l.cas, l.expiry>> ELSE <<>>

\* z is the call x with its result.
ClosedAs(z, x, s, g) == z = [x EXCEPT !.phase = "closed", !.status = s, !.got = g]

\* What changes of the call.
LEMMA ClosedCall ==
  ASSUME NEW p, p # "idle", NEW q \in ClosedPcs, NEW l, NEW m,
         m.call = l.call, m.check = l.check, m.cur = l.cur,
         NEW z, ClosedAs(z, CallOf(p, l), StatusOf(q, m), ResultOf(m, StatusOf(q, m)))
  PROVE  CallOf(q, m) = z /\ CallOf(q, m).phase = "closed"
<1>1. q # "idle" /\ PhaseOf(q) = "closed"
  BY ClosedPhase, Zenon DEF ClosedPcs, LinkPcs
<1> DEFINE c == [op |-> l.call.op, key |-> l.call.key, value |-> l.call.value,
                 expiry |-> l.call.expiry, check |-> l.check]
<1>2. CallOf(q, m) = [phase |-> "closed", c |-> c, cur |-> l.cur, status |-> StatusOf(q, m),
                      got |-> ResultOf(m, StatusOf(q, m))]
  BY <1>1, ZenonT(30) DEF CallOf, ResultOf
<1>3. /\ DOMAIN CallOf(p, l) = {"phase", "c", "cur", "status", "got"}
      /\ CallOf(p, l).c = c /\ CallOf(p, l).cur = l.cur
  BY DEF CallOf
<1> HIDE DEF c
<1>4. z = [phase |-> "closed", c |-> CallOf(p, l).c, cur |-> CallOf(p, l).cur,
           status |-> StatusOf(q, m), got |-> ResultOf(m, StatusOf(q, m))]
  BY <1>3, ClosedRecord, Zenon DEF ClosedAs
<1> QED
  BY <1>2, <1>3, <1>4

\* A call takes effect: its result is known, and no flush can overtake it any more.
LEMMA Closes ==
  ASSUME IInv, NEW t \in Threads, pc[t] # "idle", NEW p \in ClosedPcs, NEW l, GotoWith(t, p, l),
         UNCHANGED <<flushState, now>>,
         l.call = loc[t].call, l.check = loc[t].check, l.cur = loc[t].cur
  PROVE  /\ Engine!Close(t, StatusOf(p, l), ResultOf(l, StatusOf(p, l)))
         /\ calls'[t].phase = "closed"
<1>1. PICK z : ClosedAs(z, calls[t], StatusOf(p, l), ResultOf(l, StatusOf(p, l)))
  BY Zenon DEF ClosedAs
<1>2. CallOf(p, l) = z /\ CallOf(p, l).phase = "closed"
  BY <1>1, CallAt, ClosedCall
<1>3. calls' = [calls EXCEPT ![t] = z]
  BY <1>2, CallsMove
<1>4. calls'[t].phase = "closed"
  BY <1>2, <1>3 DEF calls
<1>5. ~Overtaken(p, l)
  BY DEF Overtaken, ClosedPcs, StampedPcs, LinkPcs
<1>6. overtaken' = overtaken \ {t}
  BY <1>5, OvertakenMove, Zenon DEF flushState
<1> QED
  BY <1>1, <1>3, <1>4, <1>6 DEF Engine!Close, Engine!flushState, flushState, ClosedAs

\* The labels at which the effect of a call is still to come.
OpenPcs == RoomPcs \cup {"stamp", "draw", "drawn", "emplace", "get", "delete", "setFlush", "flushTime"}

\* There it is open in Cache.
LEMMA OpenCall ==
  ASSUME NEW p \in OpenPcs, NEW l
  PROVE  LET x == CallOf(p, l)
         IN /\ x.phase = "open" /\ x.cur = l.cur /\ x.c.op = l.call.op /\ x.c.key = l.call.key
            /\ x.c.value = l.call.value /\ x.c.expiry = l.call.expiry /\ x.c.check = l.check
            /\ p # "idle"
<1>1. PhaseOf(p) = "open" /\ p # "idle"
  BY Zenon DEF PhaseOf, OpenPcs, RoomPcs, ClosedPcs, LinkPcs
<1> QED
  BY <1>1 DEF CallOf

\* The effect of a call is a step of Cache.
LEMMA EffectNext ==
  ASSUME NEW t \in Threads, calls[t].phase = "open", calls'[t].phase = "closed",
         \/ Engine!Store(t, Engine!Drawn(t)) /\ Engine!Drawn(t) \in CasTokens
         \/ Engine!Full(t) \/ Engine!Read(t) \/ Engine!DeleteLater(t)
  PROVE  Engine!Next
BY DEF Engine!Next

\* The steps of MakeRoom that keep what is stored.
LEMMA MakeRoomMaps ==
  ASSUME IInv, EInv, NEW t \in Threads,
         CheckMemory(t) \/ ProbeNonEmpty(t) \/ LockTimestamps(t) \/ LockValues(t)
  PROVE  Maps
<1>0. loc[t] \in Local
  BY Types
<1>1. pc[t] \in RoomPcs /\ UNCHANGED <<gKeyToValueHashMap, gTimestamp, flushState, now>>
  BY DEF CheckMemory, ProbeNonEmpty, LockTimestamps, LockValues, store, env, RoomPcs
<1>2. PICK p \in RoomPcs \cup {"emplace"} : \E l : GotoWith(t, p, l) /\ SameRequest(l, loc[t])
  <2>1. SameRequest(loc[t], loc[t])
    BY DEF SameRequest
  <2>2. CASE CheckMemory(t) /\ Fits(t)
    <3>1. SameRequest([loc[t] EXCEPT !.table = Table(t)], loc[t])
      BY <1>0 DEF SameRequest, Local
    <3> QED
      BY <2>2, <3>1 DEF CheckMemory
  <2>3. CASE CheckMemory(t) /\ ~Fits(t)
    BY <2>1, <2>3, GotoKeeps DEF CheckMemory, RoomPcs
  <2>4. CASE ProbeNonEmpty(t)
    <3>1. SameRequest([loc[t] EXCEPT !.evictCur = now], loc[t])
      BY <1>0, ZenonT(30) DEF SameRequest, Local
    <3> QED
      BY <2>4, <3>1 DEF ProbeNonEmpty, RoomPcs
  <2>5. CASE LockTimestamps(t)
    BY <2>1, <2>5, GotoKeeps, Zenon DEF LockTimestamps, RoomPcs
  <2>6. CASE LockValues(t)
    <3>1. SameRequest([loc[t] EXCEPT !.one = {}], loc[t])
      BY <1>0, Zenon DEF SameRequest, Local
    <3> QED
      BY <2>6, <3>1 DEF LockValues, RoomPcs
  <2> QED
    BY <2>2, <2>3, <2>4, <2>5, <2>6, ZenonT(30)
<1> QED
  BY <1>1, <1>2, RoomMaps

\* There is no room: MEMORY_FULL.
LEMMA FullMaps ==
  ASSUME IInv, EInv, NEW t \in Threads, pc[t] \in RoomPcs \cup {"emplace"}, NEW l,
         GotoWith(t, "done", l), l.status = "MEMORY_FULL",
         l.call = loc[t].call, l.check = loc[t].check, l.cur = loc[t].cur,
         UNCHANGED <<gKeyToValueHashMap, gTimestamp, flushState, now>>
  PROVE  Maps
<1>1. CallFits(pc[t], loc[t], gTimestamp) /\ gTimestamp \in Nat
  BY Types, ZenonT(30) DEF EInv
<1>2. /\ loc[t].call.op \in {"insert", "add"} /\ pc[t] \notin {"idle", "flushStore"}
      /\ pc[t] \in OpenPcs /\ "done" \in ClosedPcs
  BY <1>1, Zenon DEF CallFits, OpFits, RoomPcs, OpenPcs, ClosedPcs
<1>3. CallFits("done", l, gTimestamp')
  BY DEF CallFits, OpFits, RoomPcs, FlushPcs
<1>4. EInv'
  BY <1>1, <1>3, FitsStays, Zenon DEF flushState
<1>5. StatusOf("done", l) = "MEMORY_FULL" /\ ResultOf(l, "MEMORY_FULL") = <<>>
  BY Zenon DEF StatusOf, LinkPcs, ResultOf
<1>7. Engine!Close(t, "MEMORY_FULL", <<>>) /\ calls'[t].phase = "closed"
  BY <1>2, <1>5, Closes, Zenon
<1>8. UNCHANGED Engine!content
  BY <1>2, SameMap, SameSparing, ZenonT(30) DEF Engine!content, flushState
<1>9. calls[t].phase = "open" /\ calls[t].c.op \in {"insert", "add"}
  BY <1>2, OpenCall, CallAt
<1>10. Engine!Full(t)
  BY <1>7, <1>8, <1>9 DEF Engine!Full, Engine!Open
<1> QED
  BY <1>4, <1>7, <1>9, <1>10, EffectNext, ZenonT(30) DEF Maps

\* A table without timestamps: the next one, or MEMORY_FULL.
LEMMA ProbeEmptyMaps ==
  ASSUME IInv, EInv, NEW t \in Threads, ProbeEmpty(t)
  PROVE  Maps
<1> DEFINE moved == [loc[t] EXCEPT !.table = NextTable(loc[t].table)]
           full == [moved EXCEPT !.status = "MEMORY_FULL"]
           evict == [moved EXCEPT !.evictCur = now]
<1>0. loc[t] \in Local
  BY Types
<1>1. pc[t] \in RoomPcs /\ UNCHANGED <<gKeyToValueHashMap, gTimestamp, flushState, now>>
  BY DEF ProbeEmpty, store, env, RoomPcs
<1>2. \/ GotoWith(t, "done", full)
      \/ GotoWith(t, "memory", moved)
      \/ GotoWith(t, "lockTimestamps", evict)
  BY DEF ProbeEmpty
<1>3. SameRequest(moved, loc[t]) /\ SameRequest(evict, loc[t])
  BY <1>0 DEF SameRequest, Local
<1>4. /\ full.status = "MEMORY_FULL" /\ full.call = loc[t].call
      /\ full.check = loc[t].check /\ full.cur = loc[t].cur
  BY <1>0 DEF Local
<1> HIDE DEF moved, full, evict
<1>5. CASE GotoWith(t, "done", full)
  BY <1>1, <1>4, <1>5, FullMaps, Zenon
<1>6. CASE GotoWith(t, "memory", moved) \/ GotoWith(t, "lockTimestamps", evict)
  BY <1>1, <1>3, <1>6, RoomMaps, ZenonT(30) DEF RoomPcs
<1> QED
  BY <1>2, <1>5, <1>6

\* emplace throws bad_alloc.
LEMMA BadAllocMaps ==
  ASSUME IInv, EInv, NEW t \in Threads, BadAlloc(t)
  PROVE  Maps
<1> DEFINE full == [loc[t] EXCEPT !.status = "MEMORY_FULL"]
<1>0. loc[t] \in Local
  BY Types
<1>1. /\ pc[t] = "emplace" /\ UNCHANGED <<gKeyToValueHashMap, gTimestamp, flushState, now>>
      /\ GotoWith(t, "done", full)
  BY DEF BadAlloc, ReturnStatus, store, env
<1>2. /\ full.status = "MEMORY_FULL" /\ full.call = loc[t].call
      /\ full.check = loc[t].check /\ full.cur = loc[t].cur
  BY <1>0 DEF Local
<1> HIDE DEF full
<1> QED
  BY <1>1, <1>2, FullMaps

\* gStoredSize is adjusted; the old timestamp goes, and the new one comes.
LEMMA AfterMaps ==
  ASSUME IInv, EInv, NEW t \in Threads,
         Grow(t) \/ Erase(t) \/ Resize(t) \/ Link(t) \/ Relink(t)
  PROVE  Maps
<1>0. loc[t] \in Local /\ CallFits(pc[t], loc[t], gTimestamp)
  BY Types, ZenonT(30) DEF EInv
<1>1. pc[t] \in LinkPcs /\ UNCHANGED <<gKeyToValueHashMap, gTimestamp, flushState, now>>
  BY DEF Grow, Erase, Resize, Link, Relink, SetTimestamps, store, env, LinkPcs
<1>2. CASE Grow(t) \/ Erase(t) \/ Resize(t)
  <2>1. PICK p \in {"link", "resize"} : Goto(t, p) /\ (p = "resize" => pc[t] = "erase")
                                        /\ pc[t] \in {"grow", "erase", "resize"}
    BY <1>2, Zenon DEF Grow, Erase, Resize
  <2>2. OpFits(p, loc[t].call.op) /\ p \in ClosedPcs /\ p # "done"
    BY <1>0, <2>1, ZenonT(30) DEF CallFits, OpFits, RoomPcs, FlushPcs, ClosedPcs, LinkPcs
  <2>3. GotoWith(t, p, loc[t])
    BY <2>1, GotoKeeps
  <2> QED
    BY <1>1, <2>2, <2>3, Finishes, Zenon
<1>3. CASE Link(t) \/ Relink(t)
  <2>1. GotoWith(t, "done", [loc[t] EXCEPT !.status = "SUCCESS"])
    BY <1>3 DEF Link, Relink, ReturnStatus
  <2>2. OpFits("done", loc[t].call.op) /\ "done" \in ClosedPcs
    BY DEF OpFits, RoomPcs, FlushPcs, ClosedPcs
  <2> QED
    BY <1>1, <2>1, <2>2, Finishes, Zenon
<1> QED
  BY <1>2, <1>3

-----------------------------------------------------------------------------
(* The effect: what changes of the elements *)

\* An element leaves the map.
LEMMA Erases ==
  ASSUME IInv, NEW t \in Threads, NEW p, NEW l, GotoWith(t, p, l),
         pc[t] # "flushStore", p # "flushStore", NEW k,
         gKeyToValueHashMap' = Without(k), UNCHANGED gFlushAllTimestamp
  PROVE  Engine!Erase(k)
<1> DEFINE m == gKeyToValueHashMap
<1>1. DOMAIN m' = DOMAIN m \ {k} /\ \A j \in DOMAIN m' : m'[j] = m[j]
  BY DEF Without, Restrict
<1>2. elements' = Restrict(elements, DOMAIN elements \ {k})
  BY <1>1 DEF elements, Restrict
<1>3. flushed' = flushed \ {k}
  BY <1>1 DEF flushed
<1>4. \A u \in Threads : \A e : Spares(pc'[u], loc'[u], e) <=> Spares(pc[u], loc[u], e)
  BY SparingMove
<1>5. sparing' = [u \in Threads |-> sparing[u] \ {k}]
  <2>1. ASSUME NEW u \in Threads
        PROVE  {j \in DOMAIN m' : Spares(pc'[u], loc'[u], m'[j])} = sparing[u] \ {k}
    <3>1. sparing[u] = {j \in DOMAIN m : Spares(pc[u], loc[u], m[j])}
      BY DEF sparing
    <3> QED
      BY <1>1, <1>4, <3>1, ZenonT(30)
  <2> QED
    BY <2>1, Zenon DEF sparing
<1> QED
  BY <1>2, <1>3, <1>5 DEF Engine!Erase, Engine!Restrict, Restrict

\* removeLRUElement goes on with its scan, removes an element or gives up.
LEMMA ScanMaps ==
  ASSUME IInv, EInv, NEW t \in Threads, Scan(t)
  PROVE  Maps
<1> DEFINE kept == [loc[t] EXCEPT !.one = {}, !.evictCur = 0]
<1>0. loc[t] \in Local /\ gTimestamp \in Nat /\ CallFits(pc[t], loc[t], gTimestamp)
  BY Types DEF EInv
<1>1. /\ pc[t] = "scan" /\ UNCHANGED <<gTimestamp, flushState, now>>
      /\ pc[t] \in RoomPcs /\ "memory" \in RoomPcs
  BY DEF Scan, env, RoomPcs
<1>2. SameRequest(kept, loc[t])
  BY <1>0 DEF SameRequest, Local
<1>3. ASSUME NEW e, e.key \in DOMAIN gKeyToValueHashMap, EvictEntry(t, e)
      PROVE  Maps
  <2>1. gKeyToValueHashMap' = Without(e.key) /\ GotoWith(t, "memory", kept)
    BY <1>3 DEF EvictEntry, EvictReturn
  <2> HIDE DEF kept
  <2>2. Engine!Erase(e.key)
    BY <1>1, <2>1, Erases, Zenon DEF flushState
  <2>3. loc[t].call.op \in {"insert", "add"} /\ e.key \in Keys
    BY <1>0, <1>1, <1>3, Structures, Zenon DEF CallFits, OpFits, RoomPcs
  <2>4. CallFits("memory", kept, gTimestamp')
    BY <1>0, <1>1, <1>2, <2>3, ZenonT(30) DEF SameRequest, CallFits, OpFits, RoomPcs, FlushPcs, LinkPcs
  <2>5. EInv'
    BY <1>0, <1>1, <2>1, <2>4, FitsStays, Zenon DEF flushState
  <2>6. /\ CallOf("memory", kept) = CallOf(pc[t], loc[t])
        /\ Overtaken("memory", kept) <=> Overtaken(pc[t], loc[t])
    <3>1. PhaseOf("memory") = "open" /\ PhaseOf("scan") = "open"
      BY Zenon DEF PhaseOf, ClosedPcs, LinkPcs
    <3>2. StatusOf("memory", kept) = StatusOf(pc[t], loc[t])
      BY <1>1, <1>2, Zenon DEF StatusOf, LinkPcs, SameRequest
    <3>3. CallOf("memory", kept) = CallOf(pc[t], loc[t])
      BY <1>1, <1>2, <3>1, <3>2, SameCall DEF SameRequest
    <3> QED
      BY <1>1, <1>2, <3>3 DEF Overtaken, SameRequest, StampedPcs, LinkPcs
  <2>7. calls' = calls /\ overtaken' = overtaken
    <3>1. calls' = [calls EXCEPT ![t] = calls[t]]
      BY <2>1, <2>6, CallsMove
    <3>2. calls' = calls
      BY <3>1, Zenon DEF calls
    <3> QED
      BY <1>1, <2>1, <2>6, <3>2, OvertakenMove, Zenon DEF overtaken, flushState
  <2>8. Engine!Open(t, {"insert", "add"})
    <3>1. pc[t] \in OpenPcs
      BY <1>1, Zenon DEF OpenPcs
    <3> QED
      BY <2>3, <3>1, OpenCall, CallAt DEF Engine!Open
  <2>9. Engine!Evict(t, e.key)
    BY <1>1, <1>3, <2>2, <2>7, <2>8, Zenon DEF Engine!Evict, Engine!Stored, Engine!flushState, flushState, elements
  <2>10. Engine!Stored(e.key) /\ e.key \notin DOMAIN elements'
    BY <1>3, <2>1, Zenon DEF Engine!Stored, elements, Without, Restrict
  <2>11. Engine!Next
    BY <2>3, <2>9, <2>10, Zenon DEF Engine!Next
  <2> QED
    BY <2>5, <2>11 DEF Maps
<1>4. ASSUME UNCHANGED gKeyToValueHashMap, NEW p \in {"memory", "scan"}, NEW l,
             GotoWith(t, p, l), SameRequest(l, loc[t])
      PROVE  Maps
  <2>1. p \in RoomPcs
    BY DEF RoomPcs
  <2> QED
    BY <1>1, <1>4, <2>1, RoomMaps
<1> HIDE DEF kept
<1>5. CASE EvictNothing(t)
  BY <1>2, <1>4, <1>5 DEF EvictNothing, store, kept
<1>6. ASSUME NEW e \in Unvisited(t), ScanElement(t, e)
      PROVE  Maps
  <2>1. CASE EvictOrphan(t, e)
    BY <1>2, <1>4, <2>1, Zenon DEF EvictOrphan, EvictReturn, kept
  <2>2. CASE EvictExpired(t, e)
    BY <1>3, <2>2 DEF EvictExpired
  <2>3. CASE KeepFirst(t, e)
    <3>1. SameRequest([loc[t] EXCEPT !.one = {e}], loc[t])
      BY <1>0 DEF SameRequest, Local
    <3> QED
      BY <1>4, <2>3, <3>1 DEF KeepFirst, store
  <2>4. CASE EvictLarger(t, e)
    <3>1. PICK one \in loc[t].one :
            EvictEntry(t, IF StoredLen(one) < StoredLen(e) THEN e ELSE one)
      BY <2>4, Zenon DEF EvictLarger
    <3>2. one.key \in DOMAIN gKeyToValueHashMap /\ e.key \in DOMAIN gKeyToValueHashMap
      BY <1>1, <2>4, Zenon DEF IInv, CandidateStaysValid, EvictLarger
    <3>3. PICK x \in {one, e} : EvictEntry(t, x)
      BY <3>1, Zenon
    <3> QED
      BY <1>3, <3>2, <3>3, Zenon
  <2> QED
    BY <1>6, <2>1, <2>2, <2>3, <2>4, ZenonT(30) DEF ScanElement
<1> QED
  BY <1>5, <1>6 DEF Scan

\* An element is stored, renewed or given an expiry time.
LEMMA Puts ==
  ASSUME IInv, NEW t \in Threads, NEW p, NEW l, GotoWith(t, p, l),
         pc[t] # "flushStore", p # "flushStore", NEW k, NEW e,
         gKeyToValueHashMap' = Put(k, e), UNCHANGED gFlushAllTimestamp
  PROVE  /\ elements' = Engine!Put(k, Element(e))
         /\ flushed' = IF e.timestamp < gFlushAllTimestamp THEN flushed \cup {k} ELSE flushed \ {k}
         /\ sparing' = [u \in Threads |-> IF Spares(pc[u], loc[u], e) THEN sparing[u] \cup {k}
                                                                      ELSE sparing[u] \ {k}]
<1> DEFINE m == gKeyToValueHashMap
<1>1. /\ DOMAIN m' = DOMAIN m \cup {k} /\ m'[k] = e
      /\ \A j \in DOMAIN m \ {k} : m'[j] = m[j]
  BY DEF Put
<1>2. elements' = Engine!Put(k, Element(e))
  BY <1>1 DEF elements, Engine!Put
<1>3. flushed' = IF e.timestamp < gFlushAllTimestamp THEN flushed \cup {k} ELSE flushed \ {k}
  BY <1>1, Zenon DEF flushed
<1>4. \A u \in Threads : \A x : Spares(pc'[u], loc'[u], x) <=> Spares(pc[u], loc[u], x)
  BY SparingMove, Zenon
<1>5. ASSUME NEW u \in Threads
      PROVE  {j \in DOMAIN m' : Spares(pc'[u], loc'[u], m'[j])}
               = IF Spares(pc[u], loc[u], e) THEN sparing[u] \cup {k} ELSE sparing[u] \ {k}
  <2>1. sparing[u] = {j \in DOMAIN m : Spares(pc[u], loc[u], m[j])}
    BY DEF sparing
  <2> QED
    BY <1>1, <1>4, <2>1, ZenonT(30)
<1>6. sparing' = [u \in Threads |-> IF Spares(pc[u], loc[u], e) THEN sparing[u] \cup {k}
                                                                ELSE sparing[u] \ {k}]
  BY <1>5, Zenon DEF sparing
<1> QED
  BY <1>2, <1>3, <1>6, Zenon

\* The element takes the stamp of the call.
LEMMA Renews ==
  ASSUME IInv, NEW t \in Threads, pc[t] \in {"emplace", "get"}, NEW p, NEW l, GotoWith(t, p, l),
         p # "flushStore", NEW k, NEW e, e.timestamp = loc[t].timestamp,
         gKeyToValueHashMap' = Put(k, e), UNCHANGED gFlushAllTimestamp
  PROVE  elements' = Engine!Put(k, Element(e)) /\ Engine!Renew(t, k)
<1> DEFINE U == {u \in Threads : Spares(pc[u], loc[u], e)}
<1>1. /\ elements' = Engine!Put(k, Element(e))
      /\ flushed' = IF e.timestamp < gFlushAllTimestamp THEN flushed \cup {k} ELSE flushed \ {k}
      /\ sparing' = [u \in Threads |-> IF Spares(pc[u], loc[u], e) THEN sparing[u] \cup {k}
                                                                   ELSE sparing[u] \ {k}]
  BY Puts, ZenonT(30)
<1>2. flushed' = IF t \in overtaken THEN flushed \cup {k} ELSE flushed \ {k}
  BY <1>1 DEF overtaken, Overtaken, StampedPcs, LinkPcs
<1>3. U \in SUBSET {u \in Threads : calls[u].phase = "due"}
  <2>1. \A l1 : CallOf("flushStore", l1).phase = "due"
    BY DEF CallOf, PhaseOf, ClosedPcs, LinkPcs
  <2> QED
    BY <2>1, CallAt, Zenon DEF Spares
<1>4. sparing' = [u \in Threads |-> IF u \in U THEN sparing[u] \cup {k} ELSE sparing[u] \ {k}]
  BY <1>1, Zenon
<1> HIDE DEF U
<1> QED
  BY <1>1, <1>2, <1>3, <1>4, Zenon DEF Engine!Renew

\* The element keeps its timestamp.
LEMMA Keeps ==
  ASSUME IInv, NEW t \in Threads, pc[t] # "flushStore", NEW p, NEW l, GotoWith(t, p, l),
         p # "flushStore", NEW k \in DOMAIN gKeyToValueHashMap, NEW e,
         e.timestamp = gKeyToValueHashMap[k].timestamp,
         gKeyToValueHashMap' = Put(k, e), UNCHANGED gFlushAllTimestamp
  PROVE  elements' = Engine!Put(k, Element(e)) /\ UNCHANGED <<flushed, sparing>>
<1>1. /\ elements' = Engine!Put(k, Element(e))
      /\ flushed' = IF e.timestamp < gFlushAllTimestamp THEN flushed \cup {k} ELSE flushed \ {k}
      /\ sparing' = [u \in Threads |-> IF Spares(pc[u], loc[u], e) THEN sparing[u] \cup {k}
                                                                   ELSE sparing[u] \ {k}]
  BY Puts, ZenonT(30)
<1>2. flushed' = flushed
  BY <1>1, Zenon DEF flushed
<1>3. \A u \in Threads : (k \in sparing[u]) <=> Spares(pc[u], loc[u], e)
  BY DEF sparing, Spares
<1>4. \A u \in Threads : sparing'[u] = sparing[u]
  BY <1>1, <1>3, Zenon
<1>5. sparing' = sparing
  BY <1>4, Zenon DEF sparing
<1> QED
  BY <1>1, <1>2, <1>5, Zenon

\* What Cache knows of a call about to take effect.
LEMMA AboutTo ==
  ASSUME IInv, EInv, NEW t \in Threads, pc[t] \in {"emplace", "get", "delete", "setFlush"}
  PROVE  LET x == calls[t]
             l == loc[t]
         IN /\ l \in Local /\ x.phase = "open" /\ x.cur = l.cur /\ x.c.op = l.call.op
            /\ x.c.key = Key(t) /\ x.c.value = l.value /\ x.c.expiry = l.expiry
            /\ x.c.check = l.check /\ OpFits(pc[t], l.call.op) /\ l.status = "none"
            /\ l.value = l.call.value /\ l.expiry = l.call.expiry /\ gTimestamp \in Nat
<1>1. CallFits(pc[t], loc[t], gTimestamp) /\ loc[t] \in Local /\ gTimestamp \in Nat
  BY Types DEF EInv
<1>2. pc[t] \in OpenPcs /\ pc[t] \notin LinkPcs \cup {"idle", "done"}
  BY DEF OpenPcs, LinkPcs
<1>3. calls[t] = CallOf(pc[t], loc[t])
  BY CallAt, Zenon
<1>4. LET x == calls[t]
          l == loc[t]
      IN /\ x.phase = "open" /\ x.cur = l.cur /\ x.c.op = l.call.op /\ x.c.key = l.call.key
         /\ x.c.value = l.call.value /\ x.c.expiry = l.call.expiry /\ x.c.check = l.check
  BY <1>2, <1>3, OpenCall
<1> QED
  BY <1>1, <1>2, <1>4, Zenon DEF CallFits, Key

\* A call takes effect and returns.
LEMMA Returns ==
  ASSUME IInv, EInv, NEW t \in Threads, pc[t] \in {"emplace", "get", "delete"}, NEW s,
         ReturnStatus(t, s), s # "SUCCESS" \/ loc[t].call.op # "get",
         UNCHANGED <<gTimestamp, flushState, now>>
  PROVE  /\ EInv' /\ Engine!Close(t, s, <<>>) /\ calls'[t].phase = "closed"
         /\ GotoWith(t, "done", [loc[t] EXCEPT !.status = s])
         /\ UNCHANGED gKeyToValueHashMap => UNCHANGED Engine!content
<1> DEFINE l == [loc[t] EXCEPT !.status = s]
<1>1. loc[t] \in Local /\ gTimestamp \in Nat
  BY Types
<1>2. /\ l.call = loc[t].call /\ l.check = loc[t].check /\ l.cur = loc[t].cur /\ l.status = s
      /\ GotoWith(t, "done", l)
  BY <1>1, Zenon DEF Local, ReturnStatus
<1> HIDE DEF l
<1>3. CallFits("done", l, gTimestamp')
  BY Zenon DEF CallFits, OpFits, RoomPcs, FlushPcs
<1>4. EInv'
  BY <1>1, <1>2, <1>3, FitsStays, Zenon DEF flushState
<1>5. StatusOf("done", l) = s /\ ResultOf(l, s) = <<>> /\ "done" \in ClosedPcs
  BY <1>2, Zenon DEF StatusOf, LinkPcs, ResultOf, ClosedPcs
<1>6. Engine!Close(t, s, <<>>) /\ calls'[t].phase = "closed"
  BY <1>2, <1>5, Closes, Zenon
<1>7. UNCHANGED gKeyToValueHashMap => UNCHANGED Engine!content
  BY <1>2, SameMap, SameSparing, Zenon DEF Engine!content, flushState
<1> QED
  BY <1>2, <1>4, <1>6, <1>7, Zenon DEF l

\* A store or a get takes effect and goes on to the timestamps.
LEMMA Succeeds ==
  ASSUME IInv, EInv, NEW t \in Threads, pc[t] \in {"emplace", "get"},
         NEW p \in LinkPcs, NEW l, GotoWith(t, p, l), OpFits(p, loc[t].call.op),
         l.call = loc[t].call, l.check = loc[t].check, l.cur = loc[t].cur, l.status = loc[t].status,
         UNCHANGED <<gTimestamp, flushState, now>>
  PROVE  EInv' /\ Engine!Close(t, "SUCCESS", ResultOf(l, "SUCCESS")) /\ calls'[t].phase = "closed"
<1>1. loc[t].status = "none" /\ gTimestamp \in Nat
  BY AboutTo, Zenon
<1>2. CallFits(p, l, gTimestamp')
  BY <1>1, Zenon DEF CallFits, LinkPcs
<1>3. EInv'
  BY <1>1, <1>2, FitsStays, Zenon DEF flushState
<1>4. StatusOf(p, l) = "SUCCESS" /\ p \in ClosedPcs
  BY ZenonT(30) DEF StatusOf, ClosedPcs
<1>5. Engine!Close(t, "SUCCESS", ResultOf(l, "SUCCESS")) /\ calls'[t].phase = "closed"
  BY <1>4, Closes
<1> QED
  BY <1>3, <1>5, Zenon

\* unsigned long arithmetic is the same in both.
LEMMA SameWrap ==
  \A cur, x : Wrap(cur + x) = Engine!Wrap(cur + x) /\ Wrap(cur - x) = Engine!Wrap(cur - x)
              /\ ULONG_MAX = Engine!ULONG_MAX
BY ZenonT(30) DEF Wrap, Engine!Wrap, ULONG_MAX, Engine!ULONG_MAX

\* The tests on an element are the same.
LEMMA SameTests ==
  ASSUME NEW k
  PROVE  /\ Engine!Stored(k) <=> k \in DOMAIN gKeyToValueHashMap
         /\ k \in DOMAIN gKeyToValueHashMap =>
              /\ elements[k] = Element(gKeyToValueHashMap[k])
              /\ elements[k].cas = gKeyToValueHashMap[k].cas
              /\ elements[k].value = gKeyToValueHashMap[k].value
              /\ elements[k].expiry = gKeyToValueHashMap[k].expiry
              /\ \A cur : Engine!Expired(k, cur) <=> Expired(gKeyToValueHashMap[k], cur)
<1>1. DOMAIN elements = DOMAIN gKeyToValueHashMap
  BY DEF elements
<1>2. ASSUME k \in DOMAIN gKeyToValueHashMap
      PROVE  /\ elements[k] = Element(gKeyToValueHashMap[k])
             /\ k \in flushed <=> gKeyToValueHashMap[k].timestamp < gFlushAllTimestamp
  BY <1>2 DEF elements, flushed
<1>3. \A e : Element(e).cas = e.cas /\ Element(e).value = e.value /\ Element(e).expiry = e.expiry
  BY Zenon DEF Element
<1> QED
  BY <1>1, <1>2, <1>3 DEF Engine!Stored, Engine!Expired, Expired

\* emplace creates the element.
LEMMA CreateMaps ==
  ASSUME IInv, EInv, NEW t \in Threads, pc[t] = "emplace", EmplaceNew(t),
         UNCHANGED <<gTimestamp, flushState, now>>
  PROVE  /\ EInv' /\ Engine!Create(t, loc[t].cas) /\ Engine!Close(t, "SUCCESS", <<>>)
         /\ Engine!Drawn(t) = loc[t].cas /\ calls'[t].phase = "closed"
<1> DEFINE l == loc[t]
           k == Key(t)
           e == [expiry |-> NewExpiry(l.cur, l.expiry), value |-> l.value, cas |-> l.cas,
                 timestamp |-> l.timestamp, writtenAt |-> l.timestamp]
           x == calls[t]
<1>1. /\ l \in Local /\ x.phase = "open" /\ x.cur = l.cur /\ x.c.op = l.call.op
      /\ x.c.key = k /\ x.c.value = l.value /\ x.c.expiry = l.expiry
      /\ OpFits("emplace", l.call.op)
  BY AboutTo, Zenon
<1>2. l.call.op \in {"insert", "add"}
  BY <1>1, Zenon DEF OpFits
<1>3. GotoWith(t, "grow", l) /\ gKeyToValueHashMap' = Put(k, e) /\ e.timestamp = l.timestamp
  BY GotoKeeps, Zenon DEF EmplaceNew
<1>4. Element(e) = [value |-> x.c.value, cas |-> l.cas,
                    expiry |-> IF x.c.expiry # 0 THEN Engine!Wrap(x.cur + x.c.expiry)
                                                 ELSE Engine!ULONG_MAX]
  BY <1>1, SameWrap, Zenon DEF Element, NewExpiry
<1> HIDE DEF e, x, l
<1>5. elements' = Engine!Put(k, Element(e)) /\ Engine!Renew(t, k)
  BY <1>3, Renews, Zenon DEF flushState, l
<1>6. Engine!Create(t, l.cas)
  BY <1>1, <1>4, <1>5, ZenonT(30) DEF Engine!Create, x
<1>7. OpFits("grow", l.call.op) /\ ResultOf(l, "SUCCESS") = <<>> /\ "grow" \in LinkPcs
  BY <1>2, Zenon DEF OpFits, RoomPcs, FlushPcs, ResultOf, LinkPcs
<1>8. EInv' /\ Engine!Close(t, "SUCCESS", <<>>) /\ calls'[t].phase = "closed"
  BY <1>3, <1>7, Succeeds, ZenonT(30) DEF l
<1>9. Engine!Drawn(t) = l.cas
  <2>1. Engine!Key(t) = k
    BY <1>1 DEF Engine!Key, x
  <2>2. k \in DOMAIN elements' /\ elements'[k] = Element(e)
    BY <1>5, Zenon DEF Engine!Put
  <2>3. Element(e).cas = l.cas
    BY <1>4
  <2> QED
    BY <2>1, <2>2, <2>3, ZenonT(30) DEF Engine!Drawn
<1> QED
  BY <1>6, <1>8, <1>9, Zenon DEF l

\* The element is overwritten in place.
LEMMA OverwriteMaps ==
  ASSUME IInv, EInv, NEW t \in Threads, pc[t] = "emplace", NEW p \in {"erase", "relink"},
         Key(t) \in DOMAIN gKeyToValueHashMap, OpFits(p, loc[t].call.op), Overwrite(t, p),
         UNCHANGED <<gTimestamp, flushState, now>>
  PROVE  /\ EInv' /\ Engine!Overwrite(t, loc[t].cas) /\ Engine!Close(t, "SUCCESS", <<>>)
         /\ Engine!Drawn(t) = loc[t].cas /\ calls'[t].phase = "closed"
<1> DEFINE l == loc[t]
           k == Key(t)
           old == gKeyToValueHashMap[k]
           e == [old EXCEPT !.expiry = Wrap(l.cur + l.expiry), !.cas = l.cas,
                            !.value = l.value, !.writtenAt = l.timestamp]
           m == [l EXCEPT !.old = old.timestamp, !.diff = ValueLen[old.value] - ValueLen[l.value]]
           x == calls[t]
<1>1. /\ l \in Local /\ x.phase = "open" /\ x.cur = l.cur /\ x.c.op = l.call.op
      /\ x.c.key = k /\ x.c.value = l.value /\ x.c.expiry = l.expiry
      /\ OpFits("emplace", l.call.op)
  BY AboutTo, Zenon
<1>2. l.call.op \in {"insert", "add"}
  BY <1>1, Zenon DEF OpFits
<1>3. old \in Entry
  BY DEF IInv, TypeOK
<1>4. GotoWith(t, p, m) /\ gKeyToValueHashMap' = Put(k, e)
  BY DEF Overwrite
<1>5. /\ e.timestamp = old.timestamp /\ e.value = l.value /\ e.cas = l.cas
      /\ e.expiry = Wrap(l.cur + l.expiry)
  BY <1>3 DEF Entry
<1>6. Element(e) = [value |-> x.c.value, cas |-> l.cas,
                    expiry |-> Engine!Wrap(x.cur + x.c.expiry)]
  BY <1>1, <1>5, SameWrap, ZenonT(30) DEF Element
<1>7. m.call = l.call /\ m.check = l.check /\ m.cur = l.cur /\ m.status = l.status
  BY <1>1, Zenon DEF Local
<1> HIDE DEF e, x, l, m
<1>8. elements' = Engine!Put(k, Element(e)) /\ UNCHANGED <<flushed, sparing>>
  BY <1>4, <1>5, Keeps, Zenon DEF flushState
<1>9. Engine!Overwrite(t, l.cas)
  BY <1>1, <1>6, <1>8, Zenon DEF Engine!Overwrite, x
<1>10. ResultOf(m, "SUCCESS") = <<>> /\ p \in LinkPcs
  BY <1>2, <1>7, Zenon DEF ResultOf, LinkPcs
<1>11. EInv' /\ Engine!Close(t, "SUCCESS", <<>>) /\ calls'[t].phase = "closed"
  BY <1>4, <1>7, <1>10, Succeeds, ZenonT(30) DEF l
<1>12. Engine!Drawn(t) = l.cas
  <2>1. Engine!Key(t) = k
    BY <1>1, Zenon DEF Engine!Key, x
  <2>2. k \in DOMAIN elements' /\ elements'[k] = Element(e)
    BY <1>8, ZenonT(30) DEF Engine!Put
  <2>3. Element(e).cas = l.cas
    BY <1>6
  <2> QED
    BY <2>1, <2>2, <2>3, ZenonT(30) DEF Engine!Drawn
<1> QED
  BY <1>9, <1>11, <1>12, Zenon DEF l

\* The region of dbInsertElement and dbAddElement.
LEMMA EmplaceMaps ==
  ASSUME IInv, EInv, NEW t \in Threads, Emplace(t)
  PROVE  Maps
<1> DEFINE l == loc[t]
           k == Key(t)
           stored == k \in DOMAIN gKeyToValueHashMap
           x == calls[t]
<1>1. pc[t] = "emplace" /\ UNCHANGED <<gTimestamp, flushState, now>>
  BY Zenon DEF Emplace, env
<1>2. /\ l \in Local /\ x.phase = "open" /\ x.cur = l.cur /\ x.c.op = l.call.op
      /\ x.c.key = k /\ x.c.check = l.check
  BY <1>1, AboutTo, Zenon
<1>3. /\ Engine!Stored(k) <=> stored
      /\ stored => /\ elements[k].cas = gKeyToValueHashMap[k].cas
                   /\ Engine!Expired(k, l.cur) <=> Expired(gKeyToValueHashMap[k], l.cur)
  BY SameTests, Zenon
<1>4. Engine!Key(t) = k
  BY <1>2, Zenon DEF Engine!Key
<1>5. ASSUME Engine!Store(t, Engine!Drawn(t)), Engine!Drawn(t) \in CasTokens, EInv',
             calls'[t].phase = "closed"
      PROVE  Maps
  BY <1>2, <1>5, EffectNext, Zenon DEF Maps
<1>6. ASSUME UNCHANGED gKeyToValueHashMap
      PROVE  Engine!Drawn(t) \in CasTokens
  <2>1. elements' = elements
    BY <1>6, ZenonT(30) DEF elements
  <2>2. stored => elements[k].cas \in CasTokens
    BY <1>3, Zenon DEF IInv, TypeOK, Entry
  <2>3. NoCas \in CasTokens
    BY Zenon DEF CasTokens
  <2> QED
    BY <1>4, <2>1, <2>2, <2>3, ZenonT(30) DEF Engine!Drawn, elements
<1>7. l.cas \in CasTokens
  BY <1>2, Zenon DEF Local
<1> HIDE DEF x, stored
<1>8. CASE InsertEmplace(t)
  <2>1. l.call.op = "insert" /\ Engine!Open(t, {"insert"})
    BY <1>2, <1>8, Zenon DEF InsertEmplace, Engine!Open, x
  <2>2. CASE stored /\ l.check \in {NoCas, gKeyToValueHashMap[k].cas}
    <3>1. Overwrite(t, "erase") /\ OpFits("erase", l.call.op)
      BY <1>8, <2>1, <2>2, Zenon DEF InsertEmplace, OpFits, RoomPcs, FlushPcs, stored
    <3>2. /\ EInv' /\ Engine!Overwrite(t, l.cas) /\ Engine!Close(t, "SUCCESS", <<>>)
          /\ Engine!Drawn(t) = l.cas /\ calls'[t].phase = "closed"
      BY <1>1, <2>2, <3>1, OverwriteMaps, Zenon DEF stored
    <3>3. Engine!Insert(t, l.cas)
      BY <1>2, <1>3, <1>4, <2>1, <2>2, <3>2, ZenonT(30) DEF Engine!Insert, x
    <3> QED
      BY <1>5, <1>7, <3>2, <3>3, ZenonT(30) DEF Engine!Store
  <2>3. CASE stored /\ l.check \notin {NoCas, gKeyToValueHashMap[k].cas}
    <3>1. ReturnStatus(t, "EXIST") /\ UNCHANGED gKeyToValueHashMap
      BY <1>8, <2>3 DEF InsertEmplace, stored
    <3>2. EInv' /\ Engine!Close(t, "EXIST", <<>>) /\ calls'[t].phase = "closed"
          /\ UNCHANGED Engine!content
      BY <1>1, <3>1, Returns, Zenon
    <3>3. Engine!Insert(t, Engine!Drawn(t))
      BY <1>2, <1>3, <1>4, <2>1, <2>3, <3>2, ZenonT(30) DEF Engine!Insert, x
    <3> QED
      BY <1>5, <1>6, <3>1, <3>2, <3>3, ZenonT(30) DEF Engine!Store
  <2>4. CASE ~stored /\ l.check = NoCas
    <3>1. EmplaceNew(t)
      BY <1>8, <2>4, Zenon DEF InsertEmplace, stored
    <3>2. /\ EInv' /\ Engine!Create(t, l.cas) /\ Engine!Close(t, "SUCCESS", <<>>)
          /\ Engine!Drawn(t) = l.cas /\ calls'[t].phase = "closed"
      BY <1>1, <3>1, CreateMaps, Zenon
    <3>3. Engine!Insert(t, l.cas)
      BY <1>2, <1>3, <1>4, <2>1, <2>4, <3>2, ZenonT(30) DEF Engine!Insert, x
    <3> QED
      BY <1>5, <1>7, <3>2, <3>3 DEF Engine!Store
  <2>5. CASE ~stored /\ l.check # NoCas
    <3>1. ReturnStatus(t, "NOT_EXIST") /\ UNCHANGED gKeyToValueHashMap
      BY <1>8, <2>5 DEF InsertEmplace, stored
    <3>2. EInv' /\ Engine!Close(t, "NOT_EXIST", <<>>) /\ calls'[t].phase = "closed"
          /\ UNCHANGED Engine!content
      BY <1>1, <3>1, Returns, Zenon
    <3>3. Engine!Insert(t, Engine!Drawn(t))
      BY <1>2, <1>3, <1>4, <2>1, <2>5, <3>2, ZenonT(30) DEF Engine!Insert, x
    <3> QED
      BY <1>5, <1>6, <3>1, <3>2, <3>3, ZenonT(30) DEF Engine!Store
  <2> QED
    BY <2>2, <2>3, <2>4, <2>5, ZenonT(30)
<1>9. CASE AddEmplace(t)
  <2>1. l.call.op = "add" /\ Engine!Open(t, {"add"})
    BY <1>2, <1>9, Zenon DEF AddEmplace, Engine!Open, x
  <2>2. CASE stored /\ Expired(gKeyToValueHashMap[k], l.cur)
    <3>1. Overwrite(t, "relink") /\ OpFits("relink", l.call.op)
      BY <1>9, <2>1, <2>2, Zenon DEF AddEmplace, OpFits, RoomPcs, FlushPcs, stored
    <3>2. /\ EInv' /\ Engine!Overwrite(t, l.cas) /\ Engine!Close(t, "SUCCESS", <<>>)
          /\ Engine!Drawn(t) = l.cas /\ calls'[t].phase = "closed"
      BY <1>1, <2>2, <3>1, OverwriteMaps, ZenonT(30) DEF stored
    <3>3. Engine!Add(t, l.cas)
      BY <1>2, <1>3, <1>4, <2>1, <2>2, <3>2, ZenonT(30) DEF Engine!Add, x
    <3> QED
      BY <1>5, <1>7, <3>2, <3>3, Zenon DEF Engine!Store
  <2>3. CASE stored /\ ~Expired(gKeyToValueHashMap[k], l.cur)
    <3>1. ReturnStatus(t, "EXIST") /\ UNCHANGED gKeyToValueHashMap
      BY <1>9, <2>3, ZenonT(30) DEF AddEmplace, stored
    <3>2. EInv' /\ Engine!Close(t, "EXIST", <<>>) /\ calls'[t].phase = "closed"
          /\ UNCHANGED Engine!content
      BY <1>1, <3>1, Returns, Zenon
    <3>3. Engine!Add(t, Engine!Drawn(t))
      BY <1>2, <1>3, <1>4, <2>1, <2>3, <3>2, ZenonT(30) DEF Engine!Add, x
    <3> QED
      BY <1>5, <1>6, <3>1, <3>2, <3>3, ZenonT(30) DEF Engine!Store
  <2>4. CASE ~stored
    <3>1. EmplaceNew(t)
      BY <1>9, <2>4, ZenonT(30) DEF AddEmplace, stored
    <3>2. /\ EInv' /\ Engine!Create(t, l.cas) /\ Engine!Close(t, "SUCCESS", <<>>)
          /\ Engine!Drawn(t) = l.cas /\ calls'[t].phase = "closed"
      BY <1>1, <3>1, CreateMaps
    <3>3. Engine!Add(t, l.cas)
      BY <1>2, <1>3, <1>4, <2>1, <2>4, <3>2, ZenonT(30) DEF Engine!Add, x
    <3> QED
      BY <1>5, <1>7, <3>2, <3>3 DEF Engine!Store
  <2> QED
    BY <2>2, <2>3, <2>4, Zenon
<1> QED
  BY <1>8, <1>9 DEF Emplace

\* The region of dbGetElement.
LEMMA GetMaps ==
  ASSUME IInv, EInv, NEW t \in Threads, Get(t)
  PROVE  Maps
<1> DEFINE l == loc[t]
           k == Key(t)
           stored == k \in DOMAIN gKeyToValueHashMap
           e == gKeyToValueHashMap[k]
           x == calls[t]
<1>1. pc[t] = "get" /\ UNCHANGED <<gTimestamp, flushState, now>>
  BY Zenon DEF Get, env
<1>2. /\ l \in Local /\ x.phase = "open" /\ x.cur = l.cur /\ x.c.op = l.call.op
      /\ x.c.key = k /\ OpFits("get", l.call.op) /\ l.call.op = "get"
  BY <1>1, AboutTo, ZenonT(30) DEF OpFits
<1>3. /\ Engine!Stored(k) <=> stored
      /\ stored => /\ elements[k] = Element(e) /\ elements[k].value = e.value
                   /\ elements[k].cas = e.cas /\ elements[k].expiry = e.expiry
                   /\ Engine!Expired(k, l.cur) <=> Expired(e, l.cur)
  BY SameTests, Zenon
<1>4. Engine!Key(t) = k /\ Engine!Open(t, {"get"})
  BY <1>2, Zenon DEF Engine!Key, Engine!Open
<1>5. ASSUME Engine!Get(t), EInv', calls'[t].phase = "closed"
      PROVE  Maps
  BY <1>2, <1>5, EffectNext, ZenonT(30) DEF Maps, Engine!Read
<1> HIDE DEF x, stored
<1>6. CASE ~stored
  <2>1. ReturnStatus(t, "NOT_EXIST") /\ UNCHANGED gKeyToValueHashMap
    BY <1>6 DEF Get, stored
  <2>2. EInv' /\ Engine!Close(t, "NOT_EXIST", <<>>) /\ calls'[t].phase = "closed"
        /\ UNCHANGED Engine!content
    BY <1>1, <2>1, Returns, Zenon
  <2>3. Engine!Get(t)
    BY <1>2, <1>3, <1>4, <1>6, <2>2, Zenon DEF Engine!Get, x
  <2> QED
    BY <1>5, <2>2, <2>3
<1>7. CASE stored /\ Expired(e, l.cur)
  <2>1. ReturnStatus(t, "NOT_EXIST") /\ gKeyToValueHashMap' = Without(k)
    BY <1>7 DEF Get, stored
  <2>2. EInv' /\ Engine!Close(t, "NOT_EXIST", <<>>) /\ calls'[t].phase = "closed"
        /\ GotoWith(t, "done", [l EXCEPT !.status = "NOT_EXIST"])
    BY <1>1, <2>1, Returns, ZenonT(30)
  <2>3. Engine!Erase(k)
    BY <1>1, <2>1, <2>2, Erases, ZenonT(30) DEF flushState
  <2>4. Engine!Get(t)
    BY <1>2, <1>3, <1>4, <1>7, <2>2, <2>3, Zenon DEF Engine!Get, x
  <2> QED
    BY <1>5, <2>2, <2>4, ZenonT(30)
<1>8. CASE stored /\ ~Expired(e, l.cur)
  <2> DEFINE f == [e EXCEPT !.timestamp = l.timestamp]
             m == [l EXCEPT !.old = e.timestamp, !.value = e.value, !.cas = e.cas,
                            !.expiry = Wrap(e.expiry - l.cur)]
  <2>1. gKeyToValueHashMap' = Put(k, f) /\ GotoWith(t, "relink", m)
    BY <1>8, Zenon DEF Get, stored
  <2>2. e \in Entry
    BY <1>8, Zenon DEF stored, IInv, TypeOK
  <2>3. f.timestamp = l.timestamp /\ Element(f) = Element(e)
    BY <2>2 DEF Entry, Element
  <2>4. /\ m.call = l.call /\ m.check = l.check /\ m.cur = l.cur /\ m.status = l.status
        /\ m.value = e.value /\ m.cas = e.cas /\ m.expiry = Wrap(e.expiry - l.cur)
    BY <1>2, Zenon DEF Local
  <2> HIDE DEF f, m
  <2>5. elements' = Engine!Put(k, Element(f)) /\ Engine!Renew(t, k)
    BY <1>1, <2>1, <2>3, Renews, ZenonT(30) DEF flushState
  <2>6. UNCHANGED elements
    BY <1>3, <1>8, <2>3, <2>5, ZenonT(30) DEF Engine!Put, stored, elements
  <2>7. "relink" \in LinkPcs /\ OpFits("relink", l.call.op)
    BY <1>2, Zenon DEF LinkPcs, OpFits, RoomPcs, FlushPcs
  <2>8. EInv' /\ Engine!Close(t, "SUCCESS", ResultOf(m, "SUCCESS")) /\ calls'[t].phase = "closed"
    BY <1>1, <2>1, <2>4, <2>7, Succeeds, ZenonT(30)
  <2>9. ResultOf(m, "SUCCESS") = <<elements[k].value, elements[k].cas,
                                   Engine!Wrap(elements[k].expiry - l.cur)>>
    BY <1>2, <1>3, <1>8, <2>4, SameWrap, ZenonT(30) DEF ResultOf
  <2>10. Engine!Get(t)
    BY <1>2, <1>3, <1>4, <1>8, <2>5, <2>6, <2>8, <2>9, Zenon DEF Engine!Get, x
  <2> QED
    BY <1>5, <2>8, <2>10, Zenon
<1> QED
  BY <1>6, <1>7, <1>8, Zenon

\* The region of dbDeleteElement.
LEMMA DeleteMaps ==
  ASSUME IInv, EInv, NEW t \in Threads, Delete(t)
  PROVE  Maps
<1> DEFINE l == loc[t]
           k == Key(t)
           stored == k \in DOMAIN gKeyToValueHashMap
           e == gKeyToValueHashMap[k]
           x == calls[t]
<1>1. pc[t] = "delete" /\ UNCHANGED <<gTimestamp, flushState, now>>
  BY Zenon DEF Delete, env
<1>2. /\ l \in Local /\ x.phase = "open" /\ x.cur = l.cur /\ x.c.op = l.call.op
      /\ x.c.key = k /\ x.c.expiry = l.expiry /\ l.call.op = "delete"
  BY <1>1, AboutTo, Zenon DEF OpFits
<1>3. /\ Engine!Stored(k) <=> stored
      /\ stored => /\ elements[k] = Element(e)
                   /\ Engine!Expired(k, l.cur) <=> Expired(e, l.cur)
  BY SameTests, Zenon
<1>4. Engine!Key(t) = k /\ Engine!Open(t, {"delete"})
  BY <1>2, Zenon DEF Engine!Key, Engine!Open
<1>5. ASSUME Engine!Delete(t) \/ Engine!DeleteLater(t), EInv', calls'[t].phase = "closed"
      PROVE  Maps
  BY <1>2, <1>5, EffectNext, Zenon DEF Maps, Engine!Read
<1>6. ASSUME NEW s, ReturnStatus(t, s)
      PROVE  /\ EInv' /\ Engine!Close(t, s, <<>>) /\ calls'[t].phase = "closed"
             /\ GotoWith(t, "done", [l EXCEPT !.status = s])
             /\ UNCHANGED gKeyToValueHashMap => UNCHANGED Engine!content
  BY <1>1, <1>2, <1>6, Returns, Zenon
<1> HIDE DEF x, stored
<1>7. CASE stored => Expired(e, l.cur)
  <2>1. ReturnStatus(t, "NOT_EXIST") /\ UNCHANGED gKeyToValueHashMap
    BY <1>7 DEF Delete, stored
  <2>2. Engine!Delete(t)
    BY <1>2, <1>3, <1>4, <1>6, <1>7, <2>1, Zenon DEF Engine!Delete, x
  <2> QED
    BY <1>5, <1>6, <2>1, <2>2, Zenon
<1>8. CASE ~(stored => Expired(e, l.cur)) /\ l.expiry = 0
  <2>1. ReturnStatus(t, "SUCCESS") /\ gKeyToValueHashMap' = Without(k)
    BY <1>8 DEF Delete, stored
  <2>2. Engine!Erase(k)
    BY <1>1, <1>6, <2>1, Erases, ZenonT(30) DEF flushState
  <2>3. Engine!Delete(t)
    BY <1>2, <1>3, <1>4, <1>6, <1>8, <2>1, <2>2, Zenon DEF Engine!Delete, x
  <2> QED
    BY <1>5, <1>6, <2>1, <2>3, ZenonT(30)
<1>9. CASE ~(stored => Expired(e, l.cur)) /\ l.expiry # 0
  <2> DEFINE f == [e EXCEPT !.expiry = Wrap(l.cur + l.expiry)]
  <2>1. ReturnStatus(t, "SUCCESS") /\ gKeyToValueHashMap' = Put(k, f)
    BY <1>9 DEF Delete, stored
  <2>2. e \in Entry /\ k \in DOMAIN gKeyToValueHashMap
    BY <1>9 DEF stored, IInv, TypeOK
  <2>3. f.timestamp = e.timestamp
        /\ Element(f) = [Element(e) EXCEPT !.expiry = Wrap(l.cur + l.expiry)]
    BY <2>2 DEF Entry, Element
  <2> HIDE DEF f
  <2>4. elements' = Engine!Put(k, Element(f)) /\ UNCHANGED <<flushed, sparing>>
    BY <1>1, <1>6, <2>1, <2>2, <2>3, Keeps, ZenonT(30) DEF flushState
  <2>5. elements' = Engine!Put(k, [elements[k] EXCEPT !.expiry = Engine!Wrap(x.cur + x.c.expiry)])
    BY <1>2, <1>3, <1>9, <2>3, <2>4, SameWrap DEF x
  <2>6. Engine!DeleteLater(t)
    BY <1>2, <1>3, <1>4, <1>6, <1>9, <2>1, <2>4, <2>5, Zenon DEF Engine!DeleteLater, x
  <2> QED
    BY <1>5, <1>6, <2>1, <2>6, ZenonT(30)
<1> QED
  BY <1>7, <1>8, <1>9, ZenonT(30)

-----------------------------------------------------------------------------
(* Flushes *)

\* z is the call x in phase ph.
PhasedAs(z, x, ph) == z = [x EXCEPT !.phase = ph]

\* A call record with another phase.
LEMMA PhasedRecord ==
  ASSUME NEW x, DOMAIN x = {"phase", "c", "cur", "status", "got"}, NEW ph, NEW z,
         z = [x EXCEPT !.phase = ph]
  PROVE  z = [phase |-> ph, c |-> x.c, cur |-> x.cur, status |-> x.status, got |-> x.got]
BY Zenon

\* A call that only moves on to another label is in another phase.
LEMMA PhasedCall ==
  ASSUME NEW p, p # "idle", NEW q, q # "idle", NEW l, StatusOf(q, l) = StatusOf(p, l),
         NEW z, PhasedAs(z, CallOf(p, l), PhaseOf(q))
  PROVE  CallOf(q, l) = z
<1> DEFINE c == [op |-> l.call.op, key |-> l.call.key, value |-> l.call.value,
                 expiry |-> l.call.expiry, check |-> l.check]
           s == StatusOf(p, l)
           g == ResultOf(l, s)
           x == CallOf(p, l)
<1>1. x = [phase |-> PhaseOf(p), c |-> c, cur |-> l.cur, status |-> s, got |-> g]
  BY Zenon DEF CallOf, ResultOf
<1>2. CallOf(q, l) = [phase |-> PhaseOf(q), c |-> c, cur |-> l.cur, status |-> s, got |-> g]
  BY Zenon DEF CallOf, ResultOf
<1> HIDE DEF c, s, g, x
<1>3. /\ DOMAIN x = {"phase", "c", "cur", "status", "got"}
      /\ x.c = c /\ x.cur = l.cur /\ x.status = s /\ x.got = g
  BY <1>1, Zenon
<1>4. z = [phase |-> PhaseOf(q), c |-> x.c, cur |-> x.cur, status |-> x.status, got |-> x.got]
  BY <1>3, PhasedRecord, Zenon DEF PhasedAs, x
<1> QED
  BY <1>2, <1>3, <1>4, Zenon

\* A step of a flush that only moves on.
LEMMA Advances ==
  ASSUME IInv, EInv, NEW t \in Threads, pc[t] \in {"setFlush"} \cup FlushPcs,
         NEW p \in FlushPcs \cup {"done"}, Goto(t, p)
  PROVE  /\ calls' = [calls EXCEPT ![t].phase = PhaseOf(p)]
         /\ calls[t].phase = PhaseOf(pc[t]) /\ calls'[t].phase = PhaseOf(p)
         /\ ~Overtaken(pc[t], loc[t]) /\ ~Overtaken(p, loc[t])
         /\ calls[t].c.op = loc[t].call.op /\ calls[t].c.expiry = loc[t].call.expiry
         /\ GotoWith(t, p, loc[t])
<1>1. GotoWith(t, p, loc[t])
  BY GotoKeeps, Zenon
<1>2. calls' = [calls EXCEPT ![t] = CallOf(p, loc[t])] /\ calls[t] = CallOf(pc[t], loc[t])
  BY <1>1, CallsMove, Zenon
<1>3. p # "idle" /\ pc[t] # "idle" /\ p \notin StampedPcs /\ pc[t] \notin StampedPcs
      /\ p \notin LinkPcs /\ pc[t] \notin LinkPcs
  BY Zenon DEF FlushPcs, StampedPcs, LinkPcs
<1>4. StatusOf(p, loc[t]) = StatusOf(pc[t], loc[t])
  BY <1>3 DEF StatusOf
<1>5. PICK z : PhasedAs(z, calls[t], PhaseOf(p))
  BY Zenon DEF PhasedAs
<1>6. CallOf(p, loc[t]) = z
  BY <1>2, <1>3, <1>4, <1>5, PhasedCall, ZenonT(30)
<1>7. calls' = [calls EXCEPT ![t].phase = PhaseOf(p)]
  BY <1>2, <1>5, <1>6, Zenon DEF PhasedAs
<1>8. calls'[t] = CallOf(p, loc[t])
  BY <1>2, ZenonT(30) DEF calls
<1>9. /\ calls[t].phase = PhaseOf(pc[t]) /\ calls'[t].phase = PhaseOf(p)
      /\ calls[t].c.op = loc[t].call.op /\ calls[t].c.expiry = loc[t].call.expiry
  <2>1. /\ CallOf(p, loc[t]).phase = PhaseOf(p) /\ CallOf(pc[t], loc[t]).phase = PhaseOf(pc[t])
        /\ CallOf(pc[t], loc[t]).c.op = loc[t].call.op
        /\ CallOf(pc[t], loc[t]).c.expiry = loc[t].call.expiry
    BY <1>3, CallFields, Zenon
  <2> QED
    BY <1>2, <1>8, <2>1, Zenon
<1> QED
  BY <1>1, <1>3, <1>7, <1>9, Zenon DEF Overtaken

\* The phases of a flush.
LEMMA FlushPhases ==
  /\ PhaseOf("setFlush") = "open" /\ PhaseOf("flushTime") = "open"
  /\ PhaseOf("flushStamp") = "due" /\ PhaseOf("flushStore") = "due"
  /\ PhaseOf("flushClear") = "clear" /\ PhaseOf("done") = "closed"
BY Zenon DEF PhaseOf, ClosedPcs, LinkPcs

\* A step of a flush is a step of Cache.
LEMMA FlushNext ==
  ASSUME NEW t \in Threads, calls'[t].phase # calls[t].phase, calls'[t].phase # "idle",
         Engine!Flush(t)
  PROVE  Engine!Next
BY Zenon DEF Engine!Next

\* dbSetFlushAll sets the time, dbHandleFlushAll tests it and clears the flag.
LEMMA FlushFlagMaps ==
  ASSUME IInv, EInv, NEW t \in Threads, SetFlush(t) \/ FlushTime(t) \/ FlushClear(t)
  PROVE  Maps
<1> DEFINE l == loc[t]
<1>1. PICK p \in {"flushStamp", "done"} : Goto(t, p) /\
        \/ SetFlush(t) /\ p = "done"
        \/ FlushTime(t) /\ p = IF gFlushAllTime <= now THEN "flushStamp" ELSE "done"
        \/ FlushClear(t) /\ p = "done"
  BY ZenonT(30) DEF SetFlush, FlushTime, FlushClear
<1>2. /\ pc[t] \in {"setFlush", "flushTime", "flushClear"} /\ p \in FlushPcs \cup {"done"}
      /\ p = "flushStamp" => pc[t] = "flushTime"
      /\ pc[t] \in {"setFlush"} \cup FlushPcs
      /\ UNCHANGED <<gKeyToValueHashMap, gTimestamp, gFlushAllTimestamp, now>>
  BY <1>1, Zenon DEF SetFlush, FlushTime, FlushClear, FlushPcs, store, flushState, env
<1>3. /\ calls' = [calls EXCEPT ![t].phase = PhaseOf(p)]
      /\ calls[t].phase = PhaseOf(pc[t]) /\ calls'[t].phase = PhaseOf(p)
      /\ ~Overtaken(pc[t], l) /\ ~Overtaken(p, l)
      /\ calls[t].c.op = l.call.op /\ calls[t].c.expiry = l.call.expiry
      /\ GotoWith(t, p, l)
  BY <1>1, <1>2, Advances, Zenon
<1>4. l \in Local /\ gTimestamp \in Nat /\ CallFits(pc[t], l, gTimestamp)
  BY Types DEF EInv
<1>5. EInv'
  <2>1. CallFits(p, l, gTimestamp)
    BY <1>2, <1>4, Zenon DEF CallFits, OpFits, RoomPcs, FlushPcs, LinkPcs
  <2> QED
    BY <1>2, <1>3, <1>4, <2>1, FitsStays, Zenon
<1>6. UNCHANGED Engine!content
  <2>1. elements' = elements /\ flushed' = flushed
    BY <1>2, SameMap
  <2>2. sparing' = sparing
    BY <1>2, <1>3, SameSparing, Zenon
  <2> QED
    BY <2>1, <2>2, Zenon DEF Engine!content
<1>7. overtaken' = overtaken
  <2>1. t \notin overtaken
    BY <1>3, Zenon DEF overtaken
  <2>2. overtaken' = IF Overtaken(p, l) THEN overtaken \cup {t} ELSE overtaken \ {t}
    BY <1>2, <1>3, OvertakenMove, Zenon
  <2>3. overtaken' = overtaken \ {t}
    BY <1>3, <2>2, Zenon
  <2> QED
    BY <2>1, <2>3
<1>8. /\ pc[t] = "setFlush" => l.call.op = "setFlush" /\ l.expiry = l.call.expiry
      /\ pc[t] = "flushTime" => l.call.op = "handleFlush"
  BY <1>4, Zenon DEF CallFits, OpFits, FlushPcs, LinkPcs
<1>9. Engine!Flush(t)
  <2>1. CASE SetFlush(t) /\ p = "done"
    <3>1. Engine!Open(t, {"setFlush"})
      BY <1>3, <1>8, <2>1, FlushPhases DEF SetFlush, Engine!Open
    <3>2. gFlushAllTime' = Engine!Wrap(now + calls[t].c.expiry) /\ UNCHANGED gIsFlushAllSet
      BY <1>3, <1>8, <2>1, SameWrap, ZenonT(30) DEF SetFlush
    <3> QED
      BY <1>2, <1>3, <1>6, <1>7, <2>1, <3>1, <3>2, FlushPhases, ZenonT(30) DEF Engine!Flush, Engine!SetFlush
  <2>2. CASE FlushTime(t) /\ p = IF gFlushAllTime <= now THEN "flushStamp" ELSE "done"
    <3>1. Engine!Open(t, {"handleFlush"})
      BY <1>3, <1>8, <2>2, FlushPhases, Zenon DEF FlushTime, Engine!Open
    <3>2. PhaseOf(p) = IF gFlushAllTime <= now THEN "due" ELSE "closed"
      BY <2>2, FlushPhases, ZenonT(30)
    <3>3. UNCHANGED Engine!flushState
      BY <2>2 DEF FlushTime, flushState, Engine!flushState
    <3> QED
      BY <1>2, <1>3, <1>6, <1>7, <3>1, <3>2, <3>3, ZenonT(30) DEF Engine!Flush, Engine!FlushTest
  <2>3. CASE FlushClear(t) /\ p = "done"
    <3>1. /\ calls[t].phase = "clear" /\ PhaseOf(p) = "closed"
          /\ gIsFlushAllSet' = FALSE /\ UNCHANGED gFlushAllTime
      BY <1>3, <2>3, FlushPhases, Zenon DEF FlushClear
    <3> QED
      BY <1>2, <1>3, <1>6, <1>7, <3>1, Zenon DEF Engine!Flush, Engine!FlushClear
  <2> QED
    BY <1>1, <2>1, <2>2, <2>3, Zenon
<1>10. calls'[t].phase # calls[t].phase /\ calls'[t].phase # "idle"
  BY <1>2, <1>3, FlushPhases, Zenon
<1> QED
  BY <1>5, <1>9, <1>10, FlushNext, ZenonT(30) DEF Maps

\* The flush draws its stamp.  It is newer than every element, so it spares none yet.
LEMMA FlushStampMaps ==
  ASSUME IInv, EInv, NEW t \in Threads, FlushStamp(t)
  PROVE  Maps
<1> DEFINE l == loc[t]
           m == [l EXCEPT !.timestamp = gTimestamp + 1]
<1>1. /\ pc[t] = "flushStamp" /\ gTimestamp' = gTimestamp + 1 /\ GotoWith(t, "flushStore", m)
      /\ UNCHANGED <<gKeyToValueHashMap, flushState, now>>
  BY DEF FlushStamp, store, env
<1>2. l \in Local /\ gTimestamp \in Nat /\ CallFits(pc[t], l, gTimestamp)
  BY Types DEF EInv
<1>3. /\ m.call = l.call /\ m.check = l.check /\ m.cur = l.cur /\ m.value = l.value
      /\ m.cas = l.cas /\ m.expiry = l.expiry /\ m.status = l.status
      /\ m.timestamp = gTimestamp + 1
  BY <1>2, Zenon DEF Local
<1> HIDE DEF m
<1>4. EInv'
  <2>1. CallFits("flushStore", m, gTimestamp')
    BY <1>1, <1>2, <1>3 DEF CallFits, OpFits, RoomPcs, FlushPcs, LinkPcs
  <2> QED
    <3>1. gTimestamp' \in Nat /\ gTimestamp' >= gTimestamp
      <4>1. gTimestamp \in Nat /\ gTimestamp' = gTimestamp + 1
        BY <1>1, <1>2, Zenon
      <4> QED
        BY <4>1
    <3> QED
      BY <1>1, <2>1, <3>1, FitsMove, Zenon DEF flushState
<1>5. UNCHANGED calls
  <2>1. CallOf("flushStore", m) = CallOf("flushStamp", l)
    <3>1. StatusOf("flushStore", m) = StatusOf("flushStamp", l)
      BY <1>3, Zenon DEF StatusOf, LinkPcs
    <3>2. PhaseOf("flushStore") = PhaseOf("flushStamp")
      BY FlushPhases, Zenon
    <3>3. "flushStore" # "idle" /\ "flushStamp" # "idle"
      OBVIOUS
    <3> QED
      BY <1>3, <3>1, <3>2, <3>3, SameCall
  <2>2. calls' = [calls EXCEPT ![t] = calls[t]]
    BY <1>1, <2>1, CallsMove
  <2> QED
    BY <2>2, ZenonT(30) DEF calls
<1>6. UNCHANGED overtaken
  <2>1. ~Overtaken("flushStore", m) /\ ~Overtaken("flushStamp", l)
    BY Zenon DEF Overtaken, StampedPcs, LinkPcs
  <2>2. t \notin overtaken
    BY <1>1, <2>1, ZenonT(30) DEF overtaken
  <2> QED
    BY <1>1, <2>1, <2>2, OvertakenMove, ZenonT(30) DEF flushState
<1>7. UNCHANGED sparing
  <2>1. ASSUME NEW u \in Threads, NEW k \in DOMAIN gKeyToValueHashMap
        PROVE  Spares(pc'[u], loc'[u], gKeyToValueHashMap[k])
                 <=> Spares(pc[u], loc[u], gKeyToValueHashMap[k])
    <3>1. CASE u # t
      BY <1>1, <3>1, Moved, ZenonT(30)
    <3>2. CASE u = t
      <4>1. pc'[t] = "flushStore" /\ loc'[t] = m
        BY <1>1, Moved, Zenon
      <4>2. k \in Keys /\ gKeyToValueHashMap[k].timestamp \in Nat
        BY Zenon DEF IInv, TypeOK, Entry
      <4>3. gKeyToValueHashMap[k].timestamp < gTimestamp
        BY <4>2, ZenonT(30) DEF IInv, StampsOwned, Claimed
      <4> QED
        <5>1. ~(gKeyToValueHashMap[k].timestamp >= m.timestamp)
          BY <1>2, <1>3, <4>2, <4>3
        <5>2. ~Spares(pc'[t], loc'[t], gKeyToValueHashMap[k])
          BY <4>1, <5>1, Zenon DEF Spares
        <5>3. ~Spares(pc[t], loc[t], gKeyToValueHashMap[k])
          BY <1>1, Zenon DEF Spares
        <5> QED
          BY <3>2, <5>2, <5>3, Zenon
    <3> QED
      BY <3>1, <3>2, Zenon
  <2> QED
    BY <1>1, <2>1, ZenonT(30) DEF sparing
<1>8. elements' = elements /\ flushed' = flushed
  BY <1>1, SameMap DEF flushState
<1>9. UNCHANGED Engine!vars
  BY <1>1, <1>5, <1>6, <1>7, <1>8, ZenonT(30) DEF Engine!vars, Engine!content, Engine!flushState, flushState
<1> QED
  BY <1>4, <1>9 DEF Maps

\* The flush is published: what it does not spare is hidden, and it overtakes the stores
\* and gets that have drawn an older stamp.
LEMMA FlushStoreMaps ==
  ASSUME IInv, EInv, NEW t \in Threads, FlushStore(t)
  PROVE  Maps
<1> DEFINE l == loc[t]
           g == gKeyToValueHashMap
<1>1. /\ pc[t] = "flushStore" /\ gFlushAllTimestamp' = l.timestamp /\ Goto(t, "flushClear")
      /\ UNCHANGED <<gKeyToValueHashMap, gTimestamp, gFlushAllTime, gIsFlushAllSet, now>>
  BY Zenon DEF FlushStore, store, env
<1>2. pc[t] \in {"setFlush"} \cup FlushPcs /\ "flushClear" \in FlushPcs \cup {"done"}
  BY <1>1, Zenon DEF FlushPcs
<1>3. /\ calls' = [calls EXCEPT ![t].phase = "clear"]
      /\ calls[t].phase = "due" /\ calls'[t].phase = "clear"
      /\ GotoWith(t, "flushClear", l)
  BY <1>1, <1>2, Advances, FlushPhases, ZenonT(30)
<1>4. /\ l \in Local /\ gTimestamp \in Nat /\ CallFits(pc[t], l, gTimestamp)
      /\ l.timestamp \in Nat /\ l.timestamp <= gTimestamp
  BY <1>1, Types DEF EInv, CallFits, Local
<1>5. /\ pc'[t] = "flushClear" /\ loc'[t] = l
      /\ \A u \in Threads \ {t} : pc'[u] = pc[u] /\ loc'[u] = loc[u]
  BY <1>3, Moved, ZenonT(30)
<1>6. EInv'
  <2>1. CallFits("flushClear", l, gTimestamp)
    BY <1>1, <1>4, Zenon DEF CallFits, OpFits, RoomPcs, FlushPcs, LinkPcs
  <2> QED
    BY <1>1, <1>4, <1>5, <2>1, ZenonT(30) DEF EInv
<1>7. \A k \in DOMAIN g : g[k].timestamp \in Nat
  BY Zenon DEF IInv, TypeOK, Entry
<1>8. elements' = elements
  BY <1>1, Zenon DEF elements
<1>9. flushed' = DOMAIN elements \ sparing[t]
  <2>1. sparing[t] = {k \in DOMAIN g : g[k].timestamp >= l.timestamp}
    BY <1>1, Zenon DEF sparing, Spares
  <2>2. flushed' = {k \in DOMAIN g : g[k].timestamp < l.timestamp} /\ DOMAIN elements = DOMAIN g
    BY <1>1, Zenon DEF flushed, elements
  <2> QED
    BY <1>4, <1>7, <2>1, <2>2
<1>10. sparing' = [sparing EXCEPT ![t] = {}]
  <2>1. \A e : ~Spares(pc'[t], loc'[t], e)
    BY <1>5, Zenon DEF Spares
  <2>2. \A u \in Threads \ {t} : \A e : Spares(pc'[u], loc'[u], e) <=> Spares(pc[u], loc[u], e)
    BY <1>5, Zenon
  <2> QED
    BY <1>1, <2>1, <2>2, Zenon DEF sparing
<1>11. overtaken' \in SUBSET {u \in Threads : Engine!Open(u, {"insert", "add", "get"})}
  <2> SUFFICES ASSUME NEW u \in Threads, Overtaken(pc[u], loc[u])'
               PROVE  Engine!Open(u, {"insert", "add", "get"})
    BY Zenon DEF overtaken
  <2>1. pc'[u] \in StampedPcs \ LinkPcs
    BY Zenon DEF Overtaken
  <2>2. u # t /\ pc[u] \in StampedPcs \ LinkPcs
    BY <1>5, <2>1, Zenon DEF StampedPcs
  <2>3. pc[u] \in OpenPcs /\ OpFits(pc[u], loc[u].call.op)
    BY <2>2, Zenon DEF OpenPcs, RoomPcs, StampedPcs, LinkPcs, EInv, CallFits
  <2>4. loc[u].call.op \in {"insert", "add", "get"}
    BY <2>2, <2>3 DEF OpFits, RoomPcs, StampedPcs, LinkPcs
  <2>5. calls[u].phase = "open" /\ calls[u].c.op = loc[u].call.op
    BY <2>3, OpenCall, CallAt
  <2> QED
    BY <2>4, <2>5, Zenon DEF Engine!Open
<1>12. Engine!Flush(t)
  <2>1. Engine!FlushStore(t)
    BY <1>1, <1>3, <1>8, <1>9, <1>10, <1>11, ZenonT(30) DEF Engine!FlushStore, Engine!flushState
  <2> QED
    BY <2>1 DEF Engine!Flush
<1> QED
  BY <1>3, <1>6, <1>12, FlushNext, ZenonT(30) DEF Maps

-----------------------------------------------------------------------------
(* The start and the return of a call, the clock, and the initial state *)

\* A thread without a call.
LEMMA IdleCall == \A l : CallOf("idle", l) = Engine!NoCall /\ CallOf("idle", l).phase = "idle"
<1>1. \A l : CallOf("idle", l) = Engine!NoCall
  BY Zenon DEF CallOf, Engine!NoCall
<1>2. Engine!NoCall.phase = "idle"
  BY ZenonT(30) DEF Engine!NoCall
<1> QED
  BY <1>1, <1>2, Zenon

\* A call that is about to return is closed.
LEMMA DoneCall == \A l : CallOf("done", l).phase = "closed"
BY FlushPhases DEF CallOf

\* A call starts with the caller's parameters and no result.
LEMMA BeginMaps ==
  ASSUME IInv, EInv, NEW t \in Threads, NEW c \in Calls, Begin(t, c)
  PROVE  Maps
<1> DEFINE token == IF c.cas THEN (CHOOSE s \in seen[t] : TRUE).cas ELSE NoCas
           l == [Blank EXCEPT !.call = c, !.cur = now, !.check = token, !.value = c.value,
                              !.expiry = c.expiry, !.table = TableOf[c.key]]
           quick == c.op = "handleFlush" /\ ~gIsFlushAllSet
           p == IF quick THEN "done" ELSE FirstStep[c.op]
           d == [op |-> c.op, key |-> c.key, value |-> c.value, expiry |-> c.expiry,
                 check |-> token]
<1>1. c \in CallRecord
  BY CallsAssumption, Zenon
<1>2. token \in CasTokens
  <2>1. CASE c.cas
    BY <2>1 DEF Begin, IInv, TypeOK
  <2>2. CASE ~c.cas
    BY <2>2 DEF CasTokens
  <2> QED BY <2>1, <2>2, Zenon
<1>3. /\ pc[t] = "idle" /\ GotoWith(t, p, l)
      /\ gIsFlushAllSet' = (gIsFlushAllSet \/ c.op = "setFlush")
      /\ UNCHANGED <<gKeyToValueHashMap, gTimestamp, gFlushAllTimestamp, gFlushAllTime, now>>
  BY Zenon DEF Begin, store, env
<1>4. /\ p \in {"stamp", "delete", "setFlush", "flushTime", "done"}
      /\ OpFits(p, c.op)
      /\ PhaseOf(p) = IF quick THEN "closed" ELSE "open"
  <2>1. CASE quick
    BY <2>1, FlushPhases, Zenon DEF OpFits, RoomPcs, FlushPcs
  <2>2. CASE ~quick
    BY <1>1, <2>2 DEF CallRecord, FirstStep, OpFits, RoomPcs, FlushPcs, PhaseOf, ClosedPcs, LinkPcs
  <2> QED
    BY <2>1, <2>2, Zenon
<1> HIDE DEF token
<1>5. /\ l.call = c /\ l.cur = now /\ l.check = token /\ l.value = c.value
      /\ l.expiry = c.expiry /\ l.status = "none"
  BY BlankType, Zenon DEF Local
<1> HIDE DEF l, p
<1>6. EInv'
  <2>1. CallFits(p, l, gTimestamp)
    BY <1>4, <1>5, Zenon DEF CallFits
  <2>2. gTimestamp \in Nat
    BY Types, Zenon
  <2> QED
    BY <1>3, <2>1, <2>2, FitsStays, Zenon
<1>7. CallOf(p, l) = [phase |-> PhaseOf(p), c |-> d, cur |-> now, status |-> "none", got |-> <<>>]
  BY <1>4, <1>5, ZenonT(30) DEF CallOf, StatusOf, LinkPcs
<1>8. d \in Engine!CallParameters
  BY <1>1, <1>2, ZenonT(30) DEF Engine!CallParameters, CallRecord
<1> HIDE DEF d
<1>9. calls' = [calls EXCEPT ![t] = CallOf(p, l)] /\ calls'[t] = CallOf(p, l)
  BY <1>3, CallsMove DEF calls
<1>10. calls[t].phase = "idle"
  BY <1>3, CallAt, IdleCall, ZenonT(30)
<1>11. UNCHANGED Engine!content /\ UNCHANGED overtaken
  <2>1. elements' = elements /\ flushed' = flushed
    BY <1>3, SameMap, Zenon
  <2>2. sparing' = sparing
    BY <1>3, <1>4, SameSparing, Zenon
  <2>3. ~Overtaken(p, l) /\ t \notin overtaken
    BY <1>3, <1>4, Zenon DEF Overtaken, overtaken, StampedPcs, LinkPcs
  <2>4. overtaken' = overtaken
    BY <1>3, <2>3, OvertakenMove, ZenonT(30)
  <2> QED
    BY <2>1, <2>2, <2>4 DEF Engine!content
<1>12. /\ calls'[t].c = d /\ calls'[t] # calls[t] /\ calls'[t].phase # "idle"
       /\ d.op = c.op
  <2>1. calls'[t].phase = PhaseOf(p) /\ calls'[t].c = d
    BY <1>7, <1>9
  <2> QED
    BY <1>4, <1>10, <2>1, ZenonT(30) DEF d
<1>13. CallOf(p, l) = [phase |-> IF d.op = "handleFlush" /\ ~gIsFlushAllSet THEN "closed" ELSE "open",
                       c |-> d, cur |-> now, status |-> "none", got |-> <<>>]
  BY <1>4, <1>7, <1>12, ZenonT(30)
<1>14. Engine!Begin(t, calls'[t].c)
  BY <1>3, <1>9, <1>10, <1>11, <1>12, <1>13, Zenon DEF Engine!Begin
<1>15. Engine!Next
  BY <1>8, <1>12, <1>14, ZenonT(30) DEF Engine!Next
<1> QED
  BY <1>6, <1>15, ZenonT(30) DEF Maps

\* A call returns once it has had its effect.
LEMMA ReturnMaps ==
  ASSUME IInv, EInv, NEW t \in Threads, Return(t)
  PROVE  Maps
<1>1. /\ pc[t] = "done" /\ GotoWith(t, "idle", Blank)
      /\ UNCHANGED <<gKeyToValueHashMap, gTimestamp, flushState, now>>
  BY DEF Return, store
<1>2. EInv'
  <2>1. CallFits("idle", Blank, gTimestamp)
    BY DEF CallFits, OpFits, RoomPcs, FlushPcs
  <2>2. gTimestamp \in Nat
    BY Types
  <2> QED
    BY <1>1, <2>1, <2>2, FitsStays, Zenon DEF flushState
<1>3. calls' = [calls EXCEPT ![t] = Engine!NoCall] /\ calls'[t].phase = "idle"
  <2>1. calls' = [calls EXCEPT ![t] = CallOf("idle", Blank)]
    BY <1>1, CallsMove
  <2>2. calls'[t] = CallOf("idle", Blank)
    BY <2>1, Zenon DEF calls
  <2> QED
    BY <2>1, <2>2, IdleCall, ZenonT(30)
<1>4. calls[t].phase = "closed"
  BY <1>1, CallAt, DoneCall, Zenon
<1>5. UNCHANGED Engine!content /\ UNCHANGED overtaken
  <2>1. elements' = elements /\ flushed' = flushed
    BY <1>1, SameMap, Zenon DEF flushState
  <2>2. sparing' = sparing
    BY <1>1, SameSparing, ZenonT(30)
  <2>3. ~Overtaken("idle", Blank) /\ t \notin overtaken
    BY <1>1 DEF Overtaken, overtaken, StampedPcs, LinkPcs
  <2>4. overtaken' = overtaken
    BY <1>1, <2>3, OvertakenMove, ZenonT(30) DEF flushState
  <2> QED
    BY <2>1, <2>2, <2>4, Zenon DEF Engine!content
<1>6. Engine!Return(t)
  BY <1>1, <1>3, <1>4, <1>5, ZenonT(30) DEF Engine!Return, Engine!flushState, flushState
<1>7. Engine!Next
  BY <1>3, <1>4, <1>6, ZenonT(30) DEF Engine!Next
<1> QED
  BY <1>2, <1>7 DEF Maps

\* The clock moves on.
LEMMA TickMaps ==
  ASSUME EInv, Tick
  PROVE  Maps
<1>1. EInv'
  BY Zenon DEF Tick, EInv, flushState
<1>2. UNCHANGED <<elements, flushed, overtaken, sparing, calls>>
  BY Zenon DEF Tick, elements, flushed, overtaken, sparing, calls, Overtaken, store, flushState
<1>3. Engine!Tick
  BY <1>2, ZenonT(30) DEF Tick, Engine!Tick, Engine!content, Engine!flushState, flushState
<1> QED
  BY <1>1, <1>3, Zenon DEF Maps, Engine!Next

\* Nothing happens.
LEMMA StutterMaps ==
  ASSUME EInv, UNCHANGED vars
  PROVE  Maps
<1>1. UNCHANGED <<gKeyToValueHashMap, gTimestamp, flushState, now, pc, loc>>
  BY Zenon DEF vars, store, env
<1>2. EInv'
  BY <1>1, ZenonT(30) DEF EInv, flushState
<1>3. UNCHANGED <<elements, flushed, overtaken, sparing, calls>>
  BY <1>1, Zenon DEF elements, flushed, overtaken, sparing, calls, Overtaken, flushState
<1> QED
  BY <1>1, <1>2, <1>3, ZenonT(30) DEF Maps, Engine!vars, Engine!content, Engine!flushState, flushState

\* Every step of the engine is a step of Cache, or changes nothing there.
LEMMA NextMaps == IInv /\ EInv /\ [Next]_vars => Maps
<1> SUFFICES ASSUME IInv, EInv, [Next]_vars PROVE Maps
  OBVIOUS
<1>1. CASE UNCHANGED vars
  BY <1>1, StutterMaps, ZenonT(30)
<1>2. CASE Tick
  BY <1>2, TickMaps, ZenonT(30)
<1>3. ASSUME NEW t \in Threads, Step(t)
      PROVE  Maps
  <2>1. CASE Stamp(t) \/ Draw(t) \/ Drawn(t)
    BY <2>1, StampMaps, DrawMaps, ZenonT(30)
  <2>2. CASE MakeRoom(t)
    BY <2>2, MakeRoomMaps, ProbeEmptyMaps, ScanMaps, ZenonT(30) DEF MakeRoom
  <2>3. CASE Emplace(t) \/ BadAlloc(t) \/ Get(t) \/ Delete(t)
    BY <2>3, EmplaceMaps, BadAllocMaps, GetMaps, DeleteMaps, ZenonT(30)
  <2>4. CASE Grow(t) \/ Erase(t) \/ Resize(t) \/ Link(t) \/ Relink(t)
    BY <2>4, AfterMaps, Zenon
  <2>5. CASE Flush(t)
    BY <2>5, FlushFlagMaps, FlushStampMaps, FlushStoreMaps, ZenonT(30) DEF Flush
  <2>6. CASE Return(t)
    BY <2>6, ReturnMaps, Zenon
  <2> QED
    BY <1>3, <2>1, <2>2, <2>3, <2>4, <2>5, <2>6, ZenonT(30) DEF Step
<1>4. ASSUME NEW t \in Threads, NEW c \in Calls, Begin(t, c)
      PROVE  Maps
  BY <1>4, BeginMaps, Zenon
<1> QED
  BY <1>1, <1>2, <1>3, <1>4, ZenonT(30) DEF Next

\* The empty engine is the empty cache.
LEMMA InitMaps == Init => EInv /\ Engine!Init
<1> SUFFICES ASSUME Init PROVE EInv /\ Engine!Init
  BY Zenon
<1>1. \A t \in Threads : pc[t] = "idle" /\ loc[t] = Blank
  BY ZenonT(30) DEF Init
<1>2. EInv
  BY <1>1 DEF Init, EInv, CallFits, OpFits, RoomPcs, FlushPcs
<1>3. elements = [k \in {} |-> 0] /\ flushed = {}
  BY DEF Init, elements, flushed
<1>4. overtaken = {}
  BY <1>1, Zenon DEF overtaken, Overtaken, StampedPcs, LinkPcs
<1>5. sparing = [t \in Threads |-> {}]
  BY <1>1, ZenonT(30) DEF sparing, Spares
<1>6. calls = [t \in Threads |-> Engine!NoCall]
  BY <1>1, Zenon DEF calls, CallOf, Engine!NoCall
<1> QED
  BY <1>2, <1>3, <1>4, <1>5, <1>6, ZenonT(30) DEF Init, Engine!Init, Engine!InitAt

\* The storage engine implements Cache for any number of threads, keys, tables and any
\* memory limit: every dbInsertElement, dbAddElement, dbGetElement and dbDeleteElement
\* takes effect at one moment, in its region under gKeyToValueMutex, and returns what
\* that moment gave; evictions only remove elements, and only dbHandleFlushAll hides them.
THEOREM EngineRefinement == Spec => EngineSpec
<1>1. Init => EInv /\ Engine!Init
  BY InitMaps
<1>2. IInv /\ EInv /\ [Next]_vars => EInv' /\ [Engine!Next]_(Engine!vars)
  BY NextMaps DEF Maps
<1> QED
  BY <1>1, <1>2, Invariance, PTL DEF Spec, EngineSpec, Engine!Spec
==============================================================================
