------------------------------- MODULE MCDbLru -------------------------------
(* Instances of DbLru for TLC. *)
EXTENDS DbLruEngine, Sequences, TLC

MCKeyLen == [k \in Keys |-> 1]
MCValueLen == [v \in Values |-> CASE v = "small" -> 1 [] v = "big" -> 2 [] v = "huge" -> 20]

\* The table of a key, from its last five characters (signed char), summed up in an
\* unsigned int (of 16 bits).
getHashTblNbrFromKey(key) ==
  LET first == IF Len(key) < 5 THEN 1 ELSE Len(key) - 4
      tableNbr[i \in 0 .. Len(key)] ==
        IF i < first THEN 0 ELSE (tableNbr[i - 1] + key[i]) % 2^16
  IN tableNbr[Len(key)] % NumTables

\* Two spellings of the keys: all of one table, and k1 apart from the others.
Alike == [k \in Keys |-> IF k = "k1" THEN <<98>> ELSE <<97, -61, 97, 97, 97, 98>>]
Apart == [k \in Keys |-> CASE k = "k1" -> <<-96>> [] k = "k2" -> <<99>> [] k = "k3" -> <<-61>>]
OneTable == [k \in Keys |-> getHashTblNbrFromKey(Alike[k])]
TwoTables == [k \in Keys |-> getHashTblNbrFromKey(Apart[k])]

On(op, values, expiries, cas) ==
  [op: {op}, key: Keys, value: values, expiry: expiries, cas: cas]

\* get, delete and the flush calls have no value (a fixed one stands for none)
Small == {"small"}

\* the calls without a key (a fixed one stands for none)
FlushOnly(delays) ==
  LET k == CHOOSE k \in Keys : TRUE
  IN [op: {"setFlush"}, key: {k}, value: Small, expiry: delays, cas: {FALSE}]
     \cup [op: {"handleFlush"}, key: {k}, value: Small, expiry: {0}, cas: {FALSE}]

\* big elements are stored under k1 only
StoreCalls == {c \in On("insert", Values, {0}, {FALSE}) : c.value = "big" => c.key = "k1"}
              \cup On("get", Small, {0}, {FALSE})
              \cup On("delete", Small, {0}, {FALSE}) \cup On("add", Small, {0}, {FALSE})

\* A huge element of k1 never fits: it empties table 1 and its own.
RoomCalls == [op: {"insert"}, key: {"k2"}, value: Small, expiry: {0}, cas: {FALSE}]
             \cup [op: {"add"}, key: {"k3"}, value: Small, expiry: {0}, cas: {FALSE}]
             \cup [op: {"insert"}, key: {"k1"}, value: {"huge"}, expiry: {0}, cas: {FALSE}]

FlushCalls == On("insert", Small, {0, 1}, {FALSE}) \cup On("add", Small, {0}, {FALSE})
              \cup On("get", Small, {0}, {FALSE}) \cup On("delete", Small, {0}, {FALSE})
              \cup FlushOnly({0, 1})

SequentialCalls == FlushCalls \cup On("insert", {"big"}, {0}, BOOLEAN)

ThreadSymmetry == Permutations(Threads)
==============================================================================
