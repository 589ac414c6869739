----------------------------- MODULE DbLruEngine -----------------------------
(***************************************************************************)
(* The storage engine keeps the promises of Cache: a refinement mapping    *)
(* from the tables, timestamps and calls of DbLru.                         *)
(***************************************************************************)
EXTENDS DbLru

\* Where a call at label p is: its effect on the map is still to come, or is done.
ClosedPcs == LinkPcs \cup {"done"}
PhaseOf(p) == CASE p \in ClosedPcs -> "closed"
                [] p \in {"flushStamp", "flushStore"} -> "due"
                [] p = "flushClear" -> "clear"
                [] OTHER -> "open"

StatusOf(p, l) == IF p \in LinkPcs THEN "SUCCESS" ELSE l.status

\* The call of a thread at label p with locals l.
CallOf(p, l) ==
  IF p = "idle" THEN [phase |-> "idle"]
  ELSE [phase |-> PhaseOf(p),
        c |-> [op |-> l.call.op, key |-> l.call.key, value |-> l.call.value,
               expiry |-> l.call.expiry, check |-> l.check],
        cur |-> l.cur,
        status |-> StatusOf(p, l),
        got |-> IF l.call.op = "get" /\ StatusOf(p, l) = "SUCCESS"
                THEN <<l.value, l.cas, l.expiry>> ELSE <<>>]

\* An entry without its timestamps.
Element(e) == [value |-> e.value, expiry |-> e.expiry, cas |-> e.cas]

\* A call at label p has a stamp to give, older than the published flush.
Overtaken(p, l) == p \in StampedPcs \ LinkPcs /\ l.timestamp < gFlushAllTimestamp

\* A flush that has drawn its stamp, and not published it, is not going to hide e.
Spares(p, l, e) == p = "flushStore" /\ e.timestamp >= l.timestamp

elements == [k \in DOMAIN gKeyToValueHashMap |-> Element(gKeyToValueHashMap[k])]
flushed == {k \in DOMAIN gKeyToValueHashMap : gKeyToValueHashMap[k].timestamp < gFlushAllTimestamp}
overtaken == {t \in Threads : Overtaken(pc[t], loc[t])}
sparing == [t \in Threads |-> {k \in DOMAIN gKeyToValueHashMap :
                                 Spares(pc[t], loc[t], gKeyToValueHashMap[k])}]
calls == [t \in Threads |-> CallOf(pc[t], loc[t])]

Engine == INSTANCE Cache WITH
  map <- elements, hidden <- flushed, late <- overtaken, spared <- sparing, call <- calls

\* The tables, timestamps and mutexes implement the cache that Cache describes:
\* each call takes effect at one moment, whatever the others do between its
\* critical sections, and only flushes hide elements.
EngineSpec == Engine!Spec
==============================================================================
