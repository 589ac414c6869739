---------------------------- MODULE CommandsShapes ----------------------------
(***************************************************************************)
(* Invariants of the command layer, and what they rest on.                 *)
(***************************************************************************)
EXTENDS Commands, TLAPS

-----------------------------------------------------------------------------
(* Types *)

Element == [value: Value, cas: Nat, expiry: 0 .. ULONG_MAX]

\* What a call can meet or leave: nothing, or an element and whether a flush hides it.
Views == {<<>>} \cup (Element \X BOOLEAN)
Entries == [before: Views, after: Views, cur: 1 .. MaxTime]
Answers == [key: Keys, value: Value, cas: Nat]
Got == {<<>>} \cup (Value \X Nat \X Nat)

Jobs == [stage: {"parsed", "read", "stored", "deleted", "set"}, r: Request, n: Nat \ {0},
         out: Seq(Answers), at: 0 .. MaxTime, whole: BOOLEAN, trace: Seq(Entries)]
CallStates == [phase: {"open", "due", "clear", "closed"}, c: EngineCalls, cur: 1 .. MaxTime,
               status: {"none", "SUCCESS", "EXIST", "NOT_EXIST", "MEMORY_FULL"}, got: Got]

-----------------------------------------------------------------------------
(* What an engine call q that has taken effect says of the entry e it left *)

GetOutcome(q, e) ==
  \/ /\ q.status = "SUCCESS" /\ Visible(e.before, e.cur)
     /\ q.got = <<e.before[1].value, e.before[1].cas, Wrap(e.before[1].expiry - e.cur)>>
     /\ e.after # <<>> /\ e.after[1] = e.before[1]
  \/ q.status = "NOT_EXIST" /\ ~Visible(e.before, e.cur) /\ e.after = <<>>

DeleteOutcome(q, e) ==
  \/ q.status = "SUCCESS" /\ Visible(e.before, e.cur) /\ e.after = <<>>
  \/ q.status = "NOT_EXIST" /\ ~Visible(e.before, e.cur) /\ e.after = e.before

StoreOutcome(q, e) ==
  \/ /\ q.status = "SUCCESS" /\ e.after # <<>>
     /\ e.after[1].value = q.c.value
     /\ e.after[1].expiry = IF e.before = <<>> /\ q.c.expiry = 0 THEN ULONG_MAX
                            ELSE Wrap(e.cur + q.c.expiry)
     /\ q.c.op = "add" => ~Visible(e.before, e.cur)
     /\ q.c.op = "insert" /\ q.c.check # NoCas => e.before # <<>> /\ e.before[1].cas = q.c.check
  \/ /\ q.status = "EXIST" /\ e.after = e.before
     /\ IF q.c.op = "add" THEN Visible(e.before, e.cur) ELSE q.c.check # NoCas
  \/ q.status = "NOT_EXIST" /\ e.after = e.before /\ q.c.op = "insert" /\ q.c.check # NoCas
  \/ q.status = "MEMORY_FULL" /\ e.after = e.before

Outcome(q, e) == /\ q.c.op = "get" => GetOutcome(q, e)
                 /\ q.c.op = "delete" => DeleteOutcome(q, e)
                 /\ q.c.op \in {"insert", "add"} => StoreOutcome(q, e)

\* The call is the i-th one, or it has left the i-th entry and its result agrees.
Recorded(q, trace, i) ==
  \/ q.phase = "open" /\ Len(trace) = i - 1
  \/ q.phase = "closed" /\ Len(trace) = i /\ Outcome(q, trace[i])

-----------------------------------------------------------------------------
(* Where a command can be: its job j, its engine call q, and what its client was *)
(* shown last                                                                    *)

Accepted(r) == ~Unknown(r) /\ ~Malformed(r) /\ ~OutOfRange(r) /\ ~Junk(r)

Parsing(j, q, last) ==
  /\ j.stage = "parsed" /\ q.c.op = "handleFlush"
  /\ j.n = 1 /\ j.out = <<>> /\ j.at = 0 /\ j.trace = <<>>
  /\ j.r.cmd = "cas" => last # <<>>

Reading(j, q) ==
  /\ j.stage = "read" /\ q.c.op = "get" /\ Accepted(j.r) /\ j.at > 0
  /\ j.r.cmd \in {"get", "gets", "replace", "append", "prepend", "incr", "decr", "touch"}
  /\ j.r.cmd \notin {"get", "gets"} => j.n = 1
  /\ j.n <= Len(j.r.keys) /\ q.c.key = j.r.keys[j.n]
  /\ Recorded(q, j.trace, j.n)
  /\ j.r.cmd \in {"get", "gets"} => Listed(j.out, j.r, SubSeq(j.trace, 1, j.n - 1))

\* The commands that store without reading first.
Direct == {"set", "add", "cas"}

\* What a command is going to store, given the entry of its read.
NewValue(r, read) ==
  LET old == read.before[1].value
  IN CASE r.cmd \in {"set", "add", "cas", "replace"} -> [data |-> r.data, flags |-> r.flags]
       [] r.cmd = "append" -> [data |-> old.data \o r.data, flags |-> old.flags]
       [] r.cmd = "prepend" -> [data |-> r.data \o old.data, flags |-> old.flags]
       [] r.cmd = "incr" -> [data |-> to_string(Wrap(stoul(r.data) + stoul(old.data))),
                             flags |-> old.flags]
       [] r.cmd = "decr" -> [data |-> to_string(IF stoul(old.data) <= stoul(r.data) THEN 0
                                                ELSE stoul(old.data) - stoul(r.data)),
                             flags |-> old.flags]
       [] r.cmd = "touch" -> old
NewExpiry(r, read, at) ==
  CASE r.cmd \in {"set", "add", "cas", "replace"} -> expTime(r, at)
    [] r.cmd \in {"append", "prepend", "incr", "decr"} ->
         Wrap(read.before[1].expiry - read.cur)
    [] r.cmd = "touch" -> r.exptime % UIntMod
Check(r, read, last) ==
  CASE r.cmd = "cas" -> last[1].cas
    [] r.cmd = "touch" -> read.before[1].cas
    [] OTHER -> NoCas

Storing(j, q, last) ==
  LET read == j.trace[1]
  IN /\ j.stage = "stored" /\ Accepted(j.r) /\ j.at > 0 /\ j.n = 1
     /\ j.r.cmd \in StorageCommands \cup {"incr", "decr", "touch"}
     /\ q.c.op = IF j.r.cmd = "add" THEN "add" ELSE "insert"
     /\ j.r.cmd = "cas" => last # <<>>
     /\ j.r.cmd \notin Direct =>
          j.trace # <<>> /\ Visible(read.before, read.cur)
          /\ read.after # <<>> /\ read.after[1] = read.before[1]
     /\ j.r.cmd \in {"incr", "decr"} =>
          Throws \notin {stoul(j.r.data), stoul(read.before[1].value.data)}
     /\ q.c.value = NewValue(j.r, read)
     /\ q.c.expiry = NewExpiry(j.r, read, j.at)
     /\ q.c.check = Check(j.r, read, last)
     /\ Recorded(q, j.trace, IF j.r.cmd \in Direct THEN 1 ELSE 2)

Deleting(j, q) ==
  /\ j.stage = "deleted" /\ j.r.cmd = "delete" /\ q.c.op = "delete" /\ j.n = 1
  /\ Recorded(q, j.trace, 1)

Flushing(j, q) ==
  j.stage = "set" /\ j.r.cmd = "flush_all" /\ q.c.op = "setFlush" /\ j.n = 1 /\ j.trace = <<>>

Worker(j, q, last) ==
  \/ j = NoJob /\ q = NoCall
  \/ /\ j \in Jobs /\ q \in CallStates
     /\ q.phase \in {"due", "clear"} => q.c.op = "handleFlush"
     /\ \/ Parsing(j, q, last) \/ Reading(j, q) \/ Storing(j, q, last)
        \/ Deleting(j, q) \/ Flushing(j, q)

-----------------------------------------------------------------------------
(* Cas tokens *)

\* Somebody knows of an element with the value v and the token tok: it is in the map, a
\* client was shown it, or a command met it.
Knows(tok, v) ==
  \/ \E k \in DOMAIN map : map[k].cas = tok /\ map[k].value = v
  \/ \E w \in Threads : \E i \in DOMAIN shown[w] : shown[w][i].cas = tok /\ shown[w][i].value = v
  \/ \E w \in Threads :
       /\ job[w] # NoJob
       /\ \E i \in DOMAIN job[w].trace :
            LET view == job[w].trace[i].before
            IN view # <<>> /\ view[1].cas = tok /\ view[1].value = v

\* A token belongs to one value, and was drawn.
Tokens1 == \A tok \in Nat, v \in Value : Knows(tok, v) => tok \in 1 .. draws
Tokens2 == \A tok \in Nat, v1, v2 \in Value : Knows(tok, v1) /\ Knows(tok, v2) => v1 = v2

-----------------------------------------------------------------------------

MapType(m) == DOMAIN m \subseteq Keys /\ m \in [DOMAIN m -> Element]

Types ==
  /\ call \in [Threads -> CallStates \cup {NoCall}]
  /\ job \in [Threads -> Jobs \cup {NoJob}]
  /\ shown \in [Threads -> Seq(Answers)]
  /\ script \in Seq(SUBSET Request)
  /\ draws \in Nat /\ running \in BOOLEAN
  /\ now \in 1 .. MaxTime
  /\ MapType(map)

Workers == \A w \in Threads : Worker(job[w], call[w], shown[w])

Answered == /\ UninterruptedIsAtomic /\ TouchKeepsValue /\ CasReplacesWhatWasShown
            /\ AnswersAreTrue /\ ExpiryAsAsked

CInv == Types /\ Workers /\ Tokens1 /\ Tokens2 /\ Answered

-----------------------------------------------------------------------------
(* Lemmas *)

\* What stoul reads and to_string writes.
Conversions ==
  /\ \A s \in Seq(0 .. Letter) : stoul(s) = Throws \/ stoul(s) \in 0 .. ULONG_MAX
  /\ \A n \in 0 .. ULONG_MAX : stoul(to_string(n)) = n /\ to_string(n) \in Seq(0 .. Letter)

\* What the clock and the word size are.
LEMMA Numbers ==
  /\ WordMod \in Nat /\ WordMod > 0 /\ MaxTime \in Nat /\ MaxTime < WordMod
  /\ ULONG_MAX \in Nat /\ ULONG_MAX = WordMod - 1
BY CommandsAssumption DEF ULONG_MAX

\* The values that stand for no value, no token and any key.
LEMMA Defaults ==
  NoValue \in Value /\ NoCas \in Nat /\ AnyKey \in Keys
BY CommandsAssumption DEF NoValue, Value, Flags, AnyKey

\* A short time is not 0, and not taken for an absolute one.
LEMMA ShortWindow ==
  ASSUME NEW a \in 1 .. Threshold
  PROVE  a \in 0 .. Threshold /\ ~(a > Threshold) /\ a # 0
BY CommandsAssumption

\* It also fits an unsigned int.
LEMMA ShortUInt ==
  ASSUME NEW a \in Nat, a <= Threshold
  PROVE  a % UIntMod = a /\ a \in 0 .. Threshold
BY CommandsAssumption

\* A job is not the absence of one.
LEMMA JobIsSome ==
  ASSUME NEW j \in Jobs
  PROVE  j # NoJob
BY DEF Jobs, NoJob

\* unsigned long arithmetic stays in range.
LEMMA WrapType ==
  ASSUME NEW n \in Int
  PROVE  Wrap(n) \in 0 .. ULONG_MAX /\ Wrap(n) \in Nat
BY Numbers DEF Wrap

\* The seconds that an element has left.
LEMMA SecondsLeft ==
  ASSUME NEW e \in Element, NEW cur \in 1 .. MaxTime
  PROVE  Wrap(e.expiry - cur) \in Nat
<1>1. e.expiry - cur \in Int
  BY Numbers DEF Element
<1> QED
  BY <1>1, WrapType

\* The three results of dbGetElement.
LEMMA Triple ==
  ASSUME NEW a, NEW b, NEW c, NEW g, g = <<a, b, c>>
  PROVE  g[1] = a /\ g[2] = b /\ g[3] = c
OBVIOUS

\* What time() returns fits an unsigned long and is not 0.
LEMMA Times ==
  ASSUME NEW n \in 1 .. MaxTime
  PROVE  n \in Nat /\ n > 0 /\ n < WordMod
BY Numbers

\* The view of a key as a function of the map and of what is hidden.
ViewIn(m, h, k) == IF k \in DOMAIN m THEN <<m[k], k \in h>> ELSE <<>>

\* A view is empty if the key is not stored, and else holds its element.
LEMMA ViewType ==
  ASSUME NEW m, NEW h, NEW k, MapType(m)
  PROVE  /\ ViewIn(m, h, k) \in Views
         /\ ViewIn(m, h, k) # <<>> <=> k \in DOMAIN m
         /\ k \in DOMAIN m => ViewIn(m, h, k)[1] = m[k] /\ m[k] \in Element
<1>1. CASE k \notin DOMAIN m
  BY <1>1 DEF ViewIn, Views
<1>2. CASE k \in DOMAIN m
  <2>1. m[k] \in Element
    BY <1>2 DEF MapType
  <2>2. (k \in h) \in BOOLEAN
    OBVIOUS
  <2> QED
    BY <1>2, <2>1, <2>2, Zenon DEF ViewIn, Views
<1> QED
  BY <1>1, <1>2

\* The engine's own test for an element that is there and not expired.
LEMMA ViewVisible ==
  ASSUME NEW m, NEW h, NEW k, MapType(m), NEW cur \in Nat
  PROVE  Visible(ViewIn(m, h, k), cur) <=> k \in DOMAIN m /\ ~(m[k].expiry < cur \/ k \in h)
<1> DEFINE v == ViewIn(m, h, k)
<1>1. CASE k \notin DOMAIN m
  BY <1>1 DEF Visible, ViewIn
<1>2. CASE k \in DOMAIN m
  <2>1. m[k].expiry \in Int
    BY <1>2, Numbers DEF MapType, Element
  <2>2. v = <<m[k], k \in h>>
    BY <1>2 DEF ViewIn
  <2> HIDE DEF v
  <2>3. v # <<>> /\ v[1] = m[k]
    BY <2>2
  <2>4. v[2] = (k \in h)
    BY <2>2
  <2>5. v[2] <=> k \in h
    BY <2>4, Zenon
  <2>6. Visible(v, cur) <=> k \in DOMAIN m /\ ~(m[k].expiry < cur \/ k \in h)
    BY <1>2, <2>1, <2>3, <2>5 DEF Visible
  <2> QED
    BY <2>6 DEF v
<1> QED
  BY <1>1, <1>2

\* What storing an element does to a map.
LEMMA PutMap ==
  ASSUME MapType(map), NEW k \in Keys, NEW e \in Element, NEW h
  PROVE  /\ MapType(Put(k, e))
         /\ ViewIn(Put(k, e), h, k) # <<>> /\ ViewIn(Put(k, e), h, k)[1] = e
<1>1. MapType(Put(k, e)) /\ k \in DOMAIN Put(k, e) /\ Put(k, e)[k] = e
  BY DEF MapType, Put
<1> QED
  BY <1>1, ViewType

\* What taking one away does.
LEMMA EraseMap ==
  ASSUME MapType(map), NEW k, NEW h
  PROVE  /\ MapType(Restrict(map, DOMAIN map \ {k}))
         /\ ViewIn(Restrict(map, DOMAIN map \ {k}), h, k) = <<>>
BY DEF MapType, Restrict, ViewIn

\* What the return of an engine call's result does to the call.
LEMMA Closing ==
  ASSUME Types, NEW w \in Threads, call[w] \in CallStates, NEW g \in Got,
         NEW st \in {"SUCCESS", "EXIST", "NOT_EXIST", "MEMORY_FULL"}, Close(w, st, g)
  PROVE  /\ call'[w] = [call[w] EXCEPT !.phase = "closed", !.status = st, !.got = g]
         /\ call'[w] \in CallStates
         /\ call'[w].phase = "closed" /\ call'[w].status = st /\ call'[w].got = g
         /\ call'[w].c = call[w].c /\ call'[w].cur = call[w].cur
         /\ call' \in [Threads -> CallStates \cup {NoCall}]
         /\ \A u \in Threads \ {w} : call'[u] = call[u]
         /\ now' = now
<1>1. call \in [Threads -> CallStates \cup {NoCall}]
  BY DEF Types
<1>2. call' = [call EXCEPT ![w] = [call[w] EXCEPT !.phase = "closed", !.status = st, !.got = g]]
  BY <1>1 DEF Close
<1>3. call'[w] = [call[w] EXCEPT !.phase = "closed", !.status = st, !.got = g]
  BY <1>1, <1>2
<1>4. call'[w] \in CallStates
  BY <1>3, Zenon DEF CallStates
<1>5. /\ call'[w].phase = "closed" /\ call'[w].status = st /\ call'[w].got = g
      /\ call'[w].c = call[w].c /\ call'[w].cur = call[w].cur
  BY <1>3 DEF CallStates
<1>6. /\ call' \in [Threads -> CallStates \cup {NoCall}]
      /\ \A u \in Threads \ {w} : call'[u] = call[u]
  BY <1>1, <1>2, <1>4
<1>7. now' = now
  BY DEF Close
<1> QED
  BY <1>3, <1>4, <1>5, <1>6, <1>7

\* The step in which the call of w takes effect, and leaves e behind.
TakesEffect(w, e) ==
  /\ call[w].phase = "open" /\ call[w].c.op \in {"insert", "add", "get", "delete"}
  /\ call'[w] \in CallStates /\ call'[w].phase = "closed" /\ call'[w].c = call[w].c
  /\ call' \in [Threads -> CallStates \cup {NoCall}]
  /\ \A u \in Threads \ {w} : call'[u] = call[u]
  /\ now' = now
  /\ e \in Entries /\ e.before = ViewIn(map, hidden, Key(w))
  /\ Outcome(call'[w], e)
  /\ MapType(map')
  /\ draws' \in {draws, draws + 1}
  /\ \A k \in DOMAIN map' :
       \/ k \in DOMAIN map /\ map'[k] = map[k]
       \/ draws' = draws + 1 /\ map'[k].cas = draws' /\ map'[k].value = call[w].c.value

\* The entry that an engine call of w leaves behind in a step.
EntryOf(w) == [before |-> ViewIn(map, hidden, Key(w)), after |-> ViewIn(map', hidden', Key(w)),
               cur |-> call[w].cur]

\* A store that fails.
LEMMA StoreRefused ==
  ASSUME Types, NEW w \in Threads, call[w] \in CallStates,
         Open(w, {"insert", "add"}), NEW st \in {"EXIST", "NOT_EXIST", "MEMORY_FULL"},
         UNCHANGED content, Close(w, st, <<>>), draws' \in {draws, draws + 1},
         LET v == ViewIn(map, hidden, Key(w))
         IN \/ st = "MEMORY_FULL"
            \/ st = "EXIST" /\ IF call[w].c.op = "add" THEN Visible(v, call[w].cur)
                               ELSE call[w].c.check # NoCas
            \/ st = "NOT_EXIST" /\ call[w].c.op = "insert" /\ call[w].c.check # NoCas
  PROVE  TakesEffect(w, EntryOf(w))
<1> DEFINE k == Key(w)
           v == ViewIn(map, hidden, k)
           e == EntryOf(w)
<1>1. MapType(map) /\ map' = map /\ hidden' = hidden
  BY DEF Types, content
<1>2. v \in Views
  BY <1>1, ViewType
<1>3. e = [before |-> v, after |-> v, cur |-> call[w].cur]
  BY <1>1 DEF EntryOf
<1>4. e \in Entries /\ e.before = v /\ e.after = v /\ e.cur = call[w].cur
  BY <1>2, <1>3 DEF Entries, CallStates
<1>5. <<>> \in Got
  BY DEF Got
<1>6. /\ call'[w] \in CallStates
      /\ call'[w].phase = "closed" /\ call'[w].status = st /\ call'[w].c = call[w].c
      /\ call' \in [Threads -> CallStates \cup {NoCall}]
      /\ \A u \in Threads \ {w} : call'[u] = call[u]
      /\ now' = now
  BY <1>5, Closing, ZenonT(30)
<1>7. Outcome(call'[w], e)
  BY <1>4, <1>6 DEF Outcome, StoreOutcome, Open
<1> QED
  BY <1>1, <1>4, <1>6, <1>7 DEF TakesEffect, Open

\* A store that succeeds, as a new element or over an old one.
LEMMA StoreDone ==
  ASSUME Types, NEW w \in Threads, call[w] \in CallStates,
         Open(w, {"insert", "add"}), Close(w, "SUCCESS", <<>>), draws' = draws + 1,
         LET v == ViewIn(map, hidden, Key(w))
         IN /\ \/ ~Stored(Key(w)) /\ Create(w, draws + 1)
               \/ Stored(Key(w)) /\ Overwrite(w, draws + 1)
            /\ call[w].c.op = "add" => ~Visible(v, call[w].cur)
            /\ call[w].c.op = "insert" /\ call[w].c.check # NoCas
                 => v # <<>> /\ v[1].cas = call[w].c.check
  PROVE  TakesEffect(w, EntryOf(w))
<1> DEFINE k == Key(w)
           c == call[w].c
           v == ViewIn(map, hidden, k)
           e == EntryOf(w)
           x == IF ~Stored(k) /\ c.expiry = 0 THEN ULONG_MAX ELSE Wrap(call[w].cur + c.expiry)
           el == [value |-> c.value, cas |-> draws + 1, expiry |-> x]
<1>1. c \in EngineCalls /\ call[w].cur \in 1 .. MaxTime /\ k = c.key
  BY DEF CallStates, Key
<1>2. c.value \in Value /\ c.expiry \in Nat /\ k \in Keys /\ call[w].cur \in Nat
  <2>1. c.value \in Value /\ c.expiry \in Nat /\ c.key \in Keys
    BY <1>1 DEF EngineCalls
  <2>2. call[w].cur \in Nat
    BY <1>1, Times
  <2> QED
    BY <1>1, <2>1, <2>2
<1>3. x \in 0 .. ULONG_MAX
  <2>1. call[w].cur + c.expiry \in Int
    BY <1>2
  <2>2. Wrap(call[w].cur + c.expiry) \in 0 .. ULONG_MAX
    BY <2>1, WrapType, Zenon
  <2>3. ULONG_MAX \in 0 .. ULONG_MAX
    BY Numbers
  <2> QED
    BY <2>2, <2>3
<1>4. el \in Element
  BY <1>2, <1>3 DEF Element, Types
<1>5. map' = Put(k, el)
  BY <1>1 DEF Create, Overwrite
<1>6. MapType(map)
  BY DEF Types
<1>7. v \in Views /\ (v # <<>> <=> Stored(k))
  BY <1>6, ViewType, Zenon DEF Stored
<1>8. /\ MapType(map') /\ ViewIn(map', hidden', k) # <<>>
      /\ ViewIn(map', hidden', k)[1] = el /\ ViewIn(map', hidden', k) \in Views
  BY <1>2, <1>4, <1>5, <1>6, PutMap, ViewType
<1>9. /\ e \in Entries /\ e.before = v /\ e.after = ViewIn(map', hidden', k)
      /\ e.cur = call[w].cur
  BY <1>1, <1>7, <1>8 DEF Entries, EntryOf
<1>10. <<>> \in Got
  BY DEF Got
<1>11. /\ call'[w] \in CallStates
       /\ call'[w].phase = "closed" /\ call'[w].status = "SUCCESS" /\ call'[w].c = call[w].c
       /\ call' \in [Threads -> CallStates \cup {NoCall}]
       /\ \A u \in Threads \ {w} : call'[u] = call[u]
       /\ now' = now
  BY <1>10, Closing, Zenon
<1>12. el.value = c.value /\ el.cas = draws + 1 /\ el.expiry = x
  OBVIOUS
<1> HIDE DEF e, el, v
<1>13. StoreOutcome(call'[w], e)
  <2>1. e.after # <<>> /\ e.after[1].value = c.value /\ e.after[1].expiry = x
    BY <1>8, <1>9, <1>12
  <2>2. e.after[1].expiry = IF e.before = <<>> /\ c.expiry = 0 THEN ULONG_MAX
                            ELSE Wrap(e.cur + c.expiry)
    BY <2>1, <1>7, <1>9, Zenon
  <2> QED
    BY <2>1, <2>2, <1>9, <1>11, Zenon DEF StoreOutcome, v
<1>14. Outcome(call'[w], e)
  BY <1>11, <1>13, Zenon DEF Outcome, Open
<1>15. \A j \in DOMAIN map' :
         \/ j \in DOMAIN map /\ map'[j] = map[j]
         \/ draws' = draws + 1 /\ map'[j].cas = draws' /\ map'[j].value = call[w].c.value
  BY <1>5, <1>12 DEF Put
<1>16. TakesEffect(w, e)
  BY <1>8, <1>9, <1>11, <1>14, <1>15, Zenon DEF TakesEffect, Open, v
<1> QED
  BY <1>16, Zenon DEF e

\* A call that reads or deletes an element.
LEMMA ReadDone ==
  ASSUME Types, NEW w \in Threads, call[w] \in CallStates, Read(w), UNCHANGED draws
  PROVE  TakesEffect(w, EntryOf(w))
<1> DEFINE k == Key(w)
           cur == call[w].cur
           v == ViewIn(map, hidden, k)
           x == ViewIn(map', hidden', k)
           e == EntryOf(w)
           Agrees(st, g) == /\ call'[w].status = st /\ call'[w].got = g /\ call'[w].c = call[w].c
                            /\ e.before = v /\ e.after = x /\ e.cur = cur
<1>1. MapType(map) /\ cur \in 1 .. MaxTime /\ cur \in Nat
  BY Times DEF Types, CallStates
<1>2. v \in Views /\ (v # <<>> <=> Stored(k))
  BY <1>1, ViewType DEF Stored
<1>3. Visible(v, cur) <=> Stored(k) /\ ~Expired(k, cur)
  BY <1>1, ViewVisible, Zenon DEF Stored, Expired
<1>4. ASSUME NEW st \in {"SUCCESS", "NOT_EXIST"}, NEW g \in Got, Close(w, st, g),
             Open(w, {"get", "delete"}), MapType(map'),
             \A j \in DOMAIN map' : j \in DOMAIN map /\ map'[j] = map[j],
             Agrees(st, g) => Outcome(call'[w], e)
      PROVE  TakesEffect(w, e)
  <2>1. x \in Views
    BY <1>4, ViewType, Zenon
  <2>2. e \in Entries /\ e.before = v /\ e.after = x /\ e.cur = cur
    BY <1>1, <1>2, <2>1 DEF Entries, EntryOf
  <2>3. /\ call'[w] \in CallStates /\ call'[w].got = g
        /\ call'[w].phase = "closed" /\ call'[w].status = st /\ call'[w].c = call[w].c
        /\ call' \in [Threads -> CallStates \cup {NoCall}]
        /\ \A u \in Threads \ {w} : call'[u] = call[u]
        /\ now' = now
    BY <1>4, Closing, ZenonT(30)
  <2>4. Outcome(call'[w], e)
    BY <1>4, <2>2, <2>3
  <2> QED
    BY <1>4, <2>2, <2>3, <2>4 DEF TakesEffect, Open
<1>5. Erase(k) => MapType(map') /\ x = <<>> /\ \A j \in DOMAIN map' : j \in DOMAIN map /\ map'[j] = map[j]
  BY <1>1, EraseMap, Zenon DEF Erase, Restrict
<1>6. map' = map => MapType(map') /\ \A j \in DOMAIN map' : j \in DOMAIN map /\ map'[j] = map[j]
  BY <1>1
<1>7. UNCHANGED content => map' = map /\ x = v
  BY DEF content
<1>8. <<>> \in Got
  BY DEF Got
<1> HIDE DEF k, cur, v, x, e
<1>9. CASE Get(w)
  <2>1. CASE ~Stored(k) /\ UNCHANGED content /\ Close(w, "NOT_EXIST", <<>>)
    <3>1. v = <<>> /\ x = <<>>
      BY <1>2, <1>7, <2>1, Zenon
    <3>2. Agrees("NOT_EXIST", <<>>) => Outcome(call'[w], e)
      BY <3>1, <1>3, <1>9, <2>1, Zenon DEF Get, Open, Outcome, GetOutcome
    <3> QED
      BY <3>2, <1>4, <1>6, <1>7, <1>8, <1>9, <2>1, Zenon DEF Get, Open, e
  <2>2. CASE Stored(k) /\ Expired(k, cur) /\ Erase(k) /\ Close(w, "NOT_EXIST", <<>>)
    <3>1. Agrees("NOT_EXIST", <<>>) => Outcome(call'[w], e)
      BY <1>3, <1>5, <1>9, <2>2, Zenon DEF Get, Open, Outcome, GetOutcome
    <3> QED
      BY <3>1, <1>4, <1>5, <1>8, <1>9, <2>2, Zenon DEF Get, Open, e
  <2>3. CASE /\ Stored(k) /\ ~Expired(k, cur) /\ UNCHANGED map
             /\ Close(w, "SUCCESS", <<map[k].value, map[k].cas, Wrap(map[k].expiry - cur)>>)
    <3> DEFINE g == <<map[k].value, map[k].cas, Wrap(map[k].expiry - cur)>>
    <3>1. map[k] \in Element /\ v[1] = map[k]
      BY <1>1, <2>3, ViewType DEF Stored, v
    <3>2. x # <<>> /\ x[1] = map[k]
      BY <1>1, <2>3, ViewType DEF Stored, x
    <3>3. map[k].value \in Value /\ map[k].cas \in Nat /\ map[k].expiry \in Int
      BY <3>1, Numbers DEF Element
    <3>4. Wrap(map[k].expiry - cur) \in Nat
      BY <1>1, <3>3, WrapType
    <3>5. g \in Got
      BY <3>3, <3>4 DEF Got
    <3>6. g = <<v[1].value, v[1].cas, Wrap(v[1].expiry - cur)>>
      BY <3>1, Zenon
    <3> HIDE DEF g
    <3>7. Agrees("SUCCESS", g) => Outcome(call'[w], e)
      BY <3>1, <3>2, <3>6, <1>3, <1>9, <2>3, Zenon DEF Get, Open, Outcome, GetOutcome
    <3>8. Close(w, "SUCCESS", g)
      BY <2>3, Zenon DEF g
    <3> QED
      BY <3>5, <3>7, <3>8, <1>4, <1>6, <1>9, <2>3, Zenon DEF Get, Open, e
  <2> QED
    BY <1>9, <2>1, <2>2, <2>3, Zenon DEF Get, k, cur
<1>10. CASE Delete(w)
  <2>1. CASE (Stored(k) => Expired(k, cur)) /\ UNCHANGED content /\ Close(w, "NOT_EXIST", <<>>)
    <3>1. Agrees("NOT_EXIST", <<>>) => Outcome(call'[w], e)
      BY <1>3, <1>7, <1>10, <2>1, Zenon DEF Delete, Open, Outcome, DeleteOutcome
    <3> QED
      BY <3>1, <1>4, <1>6, <1>7, <1>8, <1>10, <2>1, Zenon DEF Delete, Open, e
  <2>2. CASE Stored(k) /\ ~Expired(k, cur) /\ Erase(k) /\ Close(w, "SUCCESS", <<>>)
    <3>1. Agrees("SUCCESS", <<>>) => Outcome(call'[w], e)
      BY <1>3, <1>5, <1>10, <2>2 DEF Delete, Open, Outcome, DeleteOutcome
    <3> QED
      BY <3>1, <1>4, <1>5, <1>8, <1>10, <2>2, Zenon DEF Delete, Open, e
  <2> QED
    BY <1>10, <2>1, <2>2, Zenon DEF Delete, k, cur
<1> QED
  BY <1>9, <1>10 DEF Read, e

\* Every call of the engine takes effect as its outcome says.
LEMMA Effects ==
  ASSUME Types, NEW w \in Threads, call[w] \in CallStates, Effect(w)
  PROVE  /\ TakesEffect(w, EntryOf(w))
         /\ job' = [job EXCEPT ![w].trace = Append(@, EntryOf(w))]
<1> DEFINE k == Key(w)
           cur == call[w].cur
           c == call[w].c
           v == ViewIn(map, hidden, k)
<1>1. MapType(map) /\ cur \in Nat
  BY Times DEF Types, CallStates
<1>2. v # <<>> <=> Stored(k)
  BY <1>1, ViewType DEF Stored
<1>3. Visible(v, cur) <=> Stored(k) /\ ~Expired(k, cur)
  BY <1>1, ViewVisible DEF Stored, Expired
<1>4. Stored(k) => v[1] = map[k]
  BY <1>1, ViewType DEF Stored
<1> HIDE DEF k, cur, c, v
<1>5. ASSUME Insert(w, draws + 1), draws' = draws + 1
      PROVE  TakesEffect(w, EntryOf(w))
  <2>1. Open(w, {"insert"}) /\ Open(w, {"insert", "add"}) /\ c.op = "insert"
    BY <1>5, Zenon DEF Insert, Open, c
  <2>2. CASE ~Stored(k) /\ c.check = NoCas /\ Create(w, draws + 1) /\ Close(w, "SUCCESS", <<>>)
    BY <1>5, <2>1, <2>2, StoreDone, Zenon DEF k, c, v
  <2>3. CASE ~Stored(k) /\ c.check # NoCas /\ UNCHANGED content /\ Close(w, "NOT_EXIST", <<>>)
    BY <1>5, <2>1, <2>3, StoreRefused, Zenon DEF k, c, v
  <2>4. CASE /\ Stored(k) /\ c.check \in {NoCas, map[k].cas}
             /\ Overwrite(w, draws + 1) /\ Close(w, "SUCCESS", <<>>)
    BY <1>2, <1>4, <1>5, <2>1, <2>4, StoreDone, Zenon DEF k, c, v
  <2>5. CASE /\ Stored(k) /\ c.check \notin {NoCas, map[k].cas}
             /\ UNCHANGED content /\ Close(w, "EXIST", <<>>)
    BY <1>5, <2>1, <2>5, StoreRefused DEF k, c, v
  <2> QED
    BY <1>5, <2>2, <2>3, <2>4, <2>5, Zenon DEF Insert, k, c
<1>6. ASSUME Add(w, draws + 1), draws' = draws + 1
      PROVE  TakesEffect(w, EntryOf(w))
  <2>1. Open(w, {"insert", "add"}) /\ c.op = "add"
    BY <1>6, Zenon DEF Add, Open, c
  <2>2. CASE ~Stored(k) /\ Create(w, draws + 1) /\ Close(w, "SUCCESS", <<>>)
    BY <1>3, <1>6, <2>1, <2>2, StoreDone, Zenon DEF k, c, v, cur
  <2>3. CASE /\ Stored(k) /\ Expired(k, cur)
             /\ Overwrite(w, draws + 1) /\ Close(w, "SUCCESS", <<>>)
    BY <1>3, <1>6, <2>1, <2>3, StoreDone, Zenon DEF k, c, v, cur
  <2>4. CASE /\ Stored(k) /\ ~Expired(k, cur)
             /\ UNCHANGED content /\ Close(w, "EXIST", <<>>)
    BY <1>3, <1>6, <2>1, <2>4, StoreRefused, Zenon DEF k, c, v, cur
  <2> QED
    BY <1>6, <2>2, <2>3, <2>4 DEF Add, k, cur
<1>7. ASSUME Full(w), draws' = draws
      PROVE  TakesEffect(w, EntryOf(w))
  BY <1>7, StoreRefused DEF Full
<1>8. TakesEffect(w, EntryOf(w))
  BY <1>5, <1>6, <1>7, ReadDone, Zenon DEF Effect, Store
<1>9. call'[w].c = call[w].c
  BY <1>8 DEF TakesEffect
<1>10. /\ View(Key(w)) = ViewIn(map, hidden, Key(w))
       /\ View(Key(w))' = ViewIn(map', hidden', Key(w))
  BY <1>9 DEF View, ViewIn, Stored, Key
<1>11. job' = [job EXCEPT ![w].trace = Append(@, EntryOf(w))]
  BY <1>10 DEF Effect, EntryOf
<1> QED
  BY <1>8, <1>11

-----------------------------------------------------------------------------
(* Steps of one worker: its job j, its call q and what its client was shown last *)

\* What a command's plan depends on.
LEMMA SamePlan ==
  ASSUME NEW r, NEW a, NEW b, NEW at, NEW last, r.cmd \in Direct \/ a = b
  PROVE  /\ NewValue(r, a) = NewValue(r, b)
         /\ NewExpiry(r, a, at) = NewExpiry(r, b, at)
         /\ Check(r, a, last) = Check(r, b, last)
<1>1. CASE a = b
  BY <1>1
<1>2. CASE r.cmd \in Direct
  BY <1>2 DEF Direct, NewValue, NewExpiry, Check
<1> QED
  BY <1>1, <1>2

\* What appending an effect to a trace keeps.
LEMMA Prefix ==
  ASSUME NEW S, NEW s \in Seq(S), NEW e \in S
  PROVE  /\ Append(s, e) \in Seq(S) /\ Len(Append(s, e)) = Len(s) + 1
         /\ Append(s, e)[Len(s) + 1] = e
         /\ \A i \in 1 .. Len(s) : Append(s, e)[i] = s[i]
         /\ SubSeq(s, 1, Len(s)) = s
         /\ SubSeq(Append(s, e), 1, Len(s)) = s
OBVIOUS

\* Where an appended trace holds the effect, and where what was there before.
LEMMA AppendPlaces ==
  ASSUME NEW S, NEW s \in Seq(S), NEW e \in S, NEW m
  PROVE  /\ m \in 1 .. Len(s) => m \in DOMAIN s /\ Append(s, e)[m] = s[m]
         /\ m \in DOMAIN Append(s, e) /\ m \notin 1 .. Len(s) => Append(s, e)[m] = e
BY Prefix

\* The call takes effect.
LEMMA WorkerEffect ==
  ASSUME NEW j, NEW q, NEW last, Worker(j, q, last), NEW e \in Entries,
         q.phase = "open", q.c.op \in {"insert", "add", "get", "delete"},
         NEW p \in CallStates, p.phase = "closed", p.c = q.c, Outcome(p, e)
  PROVE  /\ j \in Jobs
         /\ Worker([j EXCEPT !.trace = Append(@, e)], p, last)
<1> DEFINE i == [j EXCEPT !.trace = Append(@, e)]
           s == j.trace
           s1 == Append(s, e)
<1>1. j \in Jobs /\ (Reading(j, q) \/ Storing(j, q, last) \/ Deleting(j, q))
  BY DEF Worker, NoCall, Parsing, Flushing
<1>2. i \in Jobs /\ i.stage = j.stage /\ i.r = j.r /\ i.n = j.n /\ i.out = j.out /\ i.at = j.at
      /\ i.trace = s1 /\ s \in Seq(Entries)
  BY <1>1, Prefix, Zenon DEF Jobs
<1>3. /\ s1 \in Seq(Entries) /\ Len(s1) = Len(s) + 1 /\ s1[Len(s) + 1] = e
      /\ \A m \in 1 .. Len(s) : s1[m] = s[m]
      /\ SubSeq(s, 1, Len(s)) = s /\ SubSeq(s1, 1, Len(s)) = s
  BY <1>2, Prefix
<1>4. \A m \in Nat \ {0} : Recorded(q, s, m) => Len(s) = m - 1 /\ Recorded(p, s1, m)
  BY <1>2, <1>3 DEF Recorded
<1> HIDE DEF i, s1
<1>5. CASE Reading(j, q)
  <2>1. j.n \in Nat \ {0}
    BY <1>1 DEF Jobs
  <2>2. Recorded(q, s, j.n)
    BY <1>5 DEF Reading
  <2>3. Len(s) = j.n - 1 /\ Recorded(p, s1, j.n)
    BY <1>4, <2>1, <2>2
  <2>4. SubSeq(s1, 1, j.n - 1) = SubSeq(s, 1, j.n - 1)
    BY <1>3, <2>3, Zenon
  <2>5. Reading(i, p)
    BY <1>2, <1>5, <2>3, <2>4, Zenon DEF Reading
  <2> QED
    BY <1>1, <1>2, <2>5 DEF Worker, i
<1>6. CASE Storing(j, q, last)
  <2> DEFINE m == IF j.r.cmd \in Direct THEN 1 ELSE 2
  <2>1. Recorded(q, s, m) /\ m \in Nat \ {0}
    BY <1>6 DEF Storing
  <2>2. Len(s) = m - 1 /\ Recorded(p, s1, m)
    BY <1>4, <2>1
  <2>3. j.r.cmd \in Direct \/ s1[1] = s[1]
    BY <1>3, <2>2
  <2>4. /\ NewValue(j.r, s1[1]) = NewValue(j.r, s[1])
        /\ NewExpiry(j.r, s1[1], j.at) = NewExpiry(j.r, s[1], j.at)
        /\ Check(j.r, s1[1], last) = Check(j.r, s[1], last)
    BY <2>3, SamePlan, ZenonT(30)
  <2>5. s1 # <<>>
    BY <1>2, <1>3
  <2>6. j.r.cmd \in {"incr", "decr"} => s1[1] = s[1]
    BY <2>3, Zenon DEF Direct
  <2>7. Storing(i, p, last)
    BY <1>2, <1>6, <2>2, <2>3, <2>4, <2>5, <2>6, ZenonT(30) DEF Storing
  <2> QED
    BY <1>1, <1>2, <2>7 DEF Worker, i
<1>7. CASE Deleting(j, q)
  <2>1. Recorded(q, s, 1)
    BY <1>7 DEF Deleting
  <2>2. Recorded(p, s1, 1)
    BY <1>4, <2>1
  <2>3. Deleting(i, p)
    BY <1>2, <1>7, <2>2 DEF Deleting
  <2> QED
    BY <1>1, <1>2, <2>3 DEF Worker, i
<1> QED
  BY <1>1, <1>5, <1>6, <1>7
=============================================================================
