---------------------------- MODULE CommandsProofs ----------------------------
(***************************************************************************)
(* The steps of the commands keep the invariants of CommandsShapes: the    *)
(* answers, the arithmetic of deadlines, the engine and the scheduler, and *)
(* one lemma per handler.                                                  *)
(***************************************************************************)
EXTENDS CommandsShapes

-----------------------------------------------------------------------------
(* Answers *)

\* An answer given before any engine call but dbHandleFlushAll and dbSetFlushAll.
LEMMA AnswerFirst ==
  ASSUME NEW s, sent' = s, s.trace = <<>>,
         s.reply \in {"none", "ERROR", "CLIENT_ERROR", "OK", "VERSION", "END"},
         s.r.cmd \in {"get", "gets"} => s.reply # "END"
  PROVE  Answered'
<1>1. ~Wrote' /\ ~Changed'
  BY DEF Wrote, Changed, Calls
<1>2. UninterruptedIsAtomic' /\ TouchKeepsValue' /\ CasReplacesWhatWasShown' /\ ExpiryAsAsked'
  BY <1>1, Zenon DEF UninterruptedIsAtomic, TouchKeepsValue, CasReplacesWhatWasShown, ExpiryAsAsked
<1>3. AnswersAreTrue'
  BY <1>1 DEF AnswersAreTrue, Cmd
<1> QED
  BY <1>2, <1>3 DEF Answered

\* No answer at all.
LEMMA NoAnswer ==
  ASSUME sent' = Nothing
  PROVE  Answered'
BY AnswerFirst DEF Nothing

\* An answer after the read: nothing was there, or nothing is to be stored.
LEMMA AnswerRead ==
  ASSUME NEW s, sent' = s, NEW q, q.c.op = "get", Len(s.trace) = 1, Outcome(q, s.trace[1]),
         s.r.cmd \in {"replace", "append", "prepend", "incr", "decr", "touch"},
         s.reply \in {"none", "NOT_FOUND", "NOT_STORED", "CLIENT_ERROR"},
         s.reply \in {"NOT_FOUND", "NOT_STORED"} => q.status # "SUCCESS"
  PROVE  Answered'
<1>1. GetOutcome(q, s.trace[1])
  BY DEF Outcome
<1>2. ~Wrote'
  <2>1. \A e : GetOutcome(q, e) => e.after = <<>> \/ (e.before # <<>> /\ e.after[1] = e.before[1])
    BY DEF GetOutcome, Visible
  <2>2. Calls' = 1 /\ Met(1)' = s.trace[1].before /\ Left(1)' = s.trace[1].after
    BY DEF Calls, Met, Left
  <2> QED
    BY <1>1, <2>1, <2>2, Zenon DEF Wrote
<1>3. UninterruptedIsAtomic' /\ TouchKeepsValue' /\ CasReplacesWhatWasShown' /\ ExpiryAsAsked'
  BY <1>2, Zenon DEF UninterruptedIsAtomic, TouchKeepsValue, CasReplacesWhatWasShown, ExpiryAsAsked
<1>4. AnswersAreTrue'
  BY <1>1 DEF AnswersAreTrue, Cmd, Calls, Met, CurOf, GetOutcome
<1> QED
  BY <1>3, <1>4 DEF Answered

\* The answer of delete.
LEMMA AnswerDelete ==
  ASSUME NEW s, sent' = s, NEW q, q.c.op = "delete", Len(s.trace) = 1, Outcome(q, s.trace[1]),
         s.r.cmd = "delete",
         s.reply \in {"none", IF q.status = "NOT_EXIST" THEN "NOT_FOUND" ELSE "DELETED"}
  PROVE  Answered'
<1>1. DeleteOutcome(q, s.trace[1])
  BY DEF Outcome
<1>2. ~Wrote'
  <2>1. \A e : DeleteOutcome(q, e) => e.after = <<>> \/ e.after = e.before
    BY DEF DeleteOutcome
  <2>2. Calls' = 1 /\ Met(1)' = s.trace[1].before /\ Left(1)' = s.trace[1].after
    BY DEF Calls, Met, Left
  <2> QED
    BY <1>1, <2>1, <2>2, Zenon DEF Wrote
<1>3. UninterruptedIsAtomic' /\ TouchKeepsValue' /\ CasReplacesWhatWasShown' /\ ExpiryAsAsked'
  BY <1>2, Zenon DEF UninterruptedIsAtomic, TouchKeepsValue, CasReplacesWhatWasShown, ExpiryAsAsked
<1>4. AnswersAreTrue'
  BY <1>1 DEF AnswersAreTrue, Cmd, Calls, Met, Left, CurOf, DeleteOutcome
<1> QED
  BY <1>3, <1>4 DEF Answered

\* The answer of get and gets.
LEMMA AnswerGet ==
  ASSUME NEW s, sent' = s, s.r.cmd \in {"get", "gets"}, s.reply = "END",
         Len(s.trace) = Len(s.r.keys), Listed(s.found, s.r, s.trace)
  PROVE  Answered'
<1>1. UninterruptedIsAtomic' /\ TouchKeepsValue' /\ CasReplacesWhatWasShown' /\ ExpiryAsAsked'
  BY Zenon DEF UninterruptedIsAtomic, TouchKeepsValue, CasReplacesWhatWasShown, ExpiryAsAsked, Cmd
<1>2. AnswersAreTrue'
  BY DEF AnswersAreTrue, Cmd, Calls
<1> QED
  BY <1>1, <1>2 DEF Answered

\* Deadlines: a time x relative to a, counted from b.
LEMMA Deadline ==
  ASSUME NEW x \in 0 .. ULONG_MAX, NEW a \in 1 .. MaxTime, NEW b \in 1 .. MaxTime
  PROVE  /\ Wrap(b + Wrap(x - a)) = (x + b - a) % WordMod
         /\ x # a => Wrap(x - a) # 0
<1>1. /\ x \in Nat /\ a \in Nat /\ b \in Nat /\ WordMod \in Nat
      /\ x < WordMod /\ 0 < a /\ a < WordMod /\ 0 < WordMod
  BY Numbers, Times
<1>2. (((x - a) % WordMod) + b) % WordMod = ((x - a) + b) % WordMod
  BY <1>1
<1>3. (x - a) + b = x + b - a /\ b + Wrap(x - a) = ((x - a) % WordMod) + b
  BY <1>1 DEF Wrap
<1>4. ASSUME x # a PROVE (x - a) % WordMod # 0
  <2>1. CASE x > a
    <3>1. (x - a) % WordMod = x - a
      BY <1>1, <2>1
    <3> QED
      BY <1>1, <2>1, <3>1
  <2>2. CASE x < a
    <3>1. (x - a) % WordMod = x - a + WordMod
      BY <1>1, <2>2
    <3> QED
      BY <1>1, <2>2, <3>1
  <2> QED
    BY <1>1, <1>4, <2>1, <2>2
<1> QED
  BY <1>2, <1>3, <1>4 DEF Wrap

\* An expiry time within the 30 days is added to the clock without wrapping.
LEMMA ShortTime ==
  ASSUME NEW a \in 0 .. Threshold, NEW b \in 1 .. MaxTime
  PROVE  Wrap(b + a) = b + a
<1>1. b + a \in Nat /\ b + a < WordMod /\ WordMod \in Nat
  BY CommandsAssumption
<1> QED
  BY <1>1 DEF Wrap

\* What the tokens say of a command j whose client was shown last.
Tokened(j, last) ==
  LET first == j.trace[1].before
      second == j.trace[2].before
  IN /\ j.r.cmd = "cas" =>
          /\ last[1].cas # NoCas
          /\ Len(j.trace) = 1 /\ first # <<>> /\ first[1].cas = last[1].cas
               => first[1].value = last[1].value
     /\ j.r.cmd = "touch" =>
          /\ first[1].cas # NoCas
          /\ Len(j.trace) = 2 /\ second # <<>> /\ second[1].cas = first[1].cas
               => second[1].value = first[1].value

\* What a command can answer after its store.
StoreReply(cmd, status) ==
  {"none", IF status = "MEMORY_FULL" THEN "SERVER_ERROR"
       ELSE IF cmd \in {"incr", "decr"} THEN "NUMBER"
       ELSE IF cmd = "touch" THEN "TOUCHED"
       ELSE IF cmd = "add" /\ status = "EXIST" THEN "NOT_STORED"
       ELSE IF cmd = "cas" /\ status = "EXIST" THEN "EXISTS"
       ELSE IF cmd = "cas" /\ status = "NOT_EXIST" THEN "NOT_FOUND"
       ELSE "STORED"}

\* The update that a command r makes.
Updates(r, old, new) ==
  /\ new.flags = old.flags
  /\ r.cmd = "append" => new.data = old.data \o r.data
  /\ r.cmd = "prepend" => new.data = r.data \o old.data
  /\ r.cmd = "incr" => stoul(new.data) = (stoul(old.data) + stoul(r.data)) % WordMod
  /\ r.cmd = "decr" => \/ stoul(new.data) + stoul(r.data) = stoul(old.data)
                       \/ stoul(new.data) = 0 /\ stoul(old.data) < stoul(r.data)

\* The answer to a store that has taken effect is true: its trace is the one store,
\* or the read before it and the store that this led to.
LEMMA AnswerStore ==
  ASSUME Conversions, NEW j \in Jobs, NEW q \in CallStates, NEW last,
         Storing(j, q, last), q.phase = "closed", Tokened(j, last),
         NEW s, sent' = s, s.r = j.r, s.trace = j.trace, s.at = j.at, s.seen = last,
         s.reply \in StoreReply(j.r.cmd, q.status),
         s.reply = "NUMBER" => s.found = <<q.c.value.data>>
  PROVE  Answered'
<1> DEFINE r == j.r
           c == q.c
           n == IF r.cmd \in Direct THEN 1 ELSE 2
           read == j.trace[1]
           e == j.trace[n]
<1>1. /\ j.trace \in Seq(Entries) /\ Len(j.trace) = n /\ StoreOutcome(q, e) /\ r \in Request
      /\ e \in Entries /\ read \in Entries /\ j.at \in 1 .. MaxTime
  <2>1. Recorded(q, j.trace, n)
    BY DEF Storing
  <2>2. c.op \in {"insert", "add"} /\ j.at > 0
    BY DEF Storing
  <2>3. Len(j.trace) = n /\ StoreOutcome(q, e)
    BY <2>1, <2>2 DEF Recorded, Outcome
  <2>4. j.trace \in Seq(Entries) /\ r \in Request /\ j.at \in 0 .. MaxTime
    BY DEF Jobs
  <2> QED
    BY <2>2, <2>3, <2>4, Numbers
<1>2. /\ Calls' = n /\ Cmd' = r.cmd /\ Met(n)' = e.before /\ Left(n)' = e.after
      /\ CurOf(n)' = e.cur /\ Met(1)' = read.before /\ Left(1)' = read.after
      /\ CurOf(1)' = read.cur
  BY <1>1, Zenon DEF Calls, Cmd, Met, Left, CurOf
<1> HIDE DEF e, read
<1>3. Wrote' => q.status = "SUCCESS" /\ e.after # <<>> /\ e.after[1].value = c.value
  BY <1>1, <1>2, Zenon DEF Wrote, StoreOutcome, Calls, Met, Left
<1>4. r.cmd \notin Direct => /\ Visible(read.before, read.cur) /\ read.before # <<>>
                             /\ read.after # <<>> /\ read.after[1] = read.before[1]
  BY DEF Storing, read, Visible
<1>5. ASSUME r.cmd \in {"append", "prepend", "incr", "decr"}, Wrote', e.before # <<>>,
             e.before[1] = read.after[1]
      PROVE  Updates(r, e.before[1].value, e.after[1].value)
  <2> DEFINE old == e.before[1].value
             a == stoul(r.data)
             b == stoul(old.data)
  <2>1. old = read.before[1].value /\ e.after[1].value = NewValue(r, read)
    BY <1>3, <1>4, <1>5 DEF Direct, Storing, read
  <2>2. CASE r.cmd \in {"append", "prepend"}
    <3> DEFINE d == IF r.cmd = "append" THEN old.data \o r.data ELSE r.data \o old.data
    <3>1. e.after[1].value = [data |-> d, flags |-> old.flags]
      BY <2>1, <2>2, Zenon DEF NewValue
    <3>2. /\ r.cmd = "append" => d = old.data \o r.data
          /\ r.cmd = "prepend" => d = r.data \o old.data
      BY Zenon
    <3> HIDE DEF d
    <3>3. e.after[1].value.data = d /\ e.after[1].value.flags = old.flags
      BY <3>1
    <3>4. r.cmd \notin {"incr", "decr"}
      BY <2>2
    <3> QED
      BY <3>2, <3>3, <3>4, Zenon DEF Updates
  <2>3. CASE r.cmd \in {"incr", "decr"}
    <3>1. old.data \in Seq(0 .. Letter) /\ r.data \in Seq(0 .. Letter)
      BY <1>1, <1>4, <1>5, <2>1, Zenon DEF Entries, Views, Element, Value, Request, RequestFields, Direct
    <3>2. a # Throws /\ b # Throws
      BY <2>1, <2>3 DEF Storing, read
    <3>3. a \in 0 .. ULONG_MAX /\ b \in 0 .. ULONG_MAX
      BY <3>1, <3>2 DEF Conversions
    <3> HIDE DEF a, b, old
    <3>4. CASE r.cmd = "incr"
      <4>1. e.after[1].value = [data |-> to_string(Wrap(a + b)), flags |-> old.flags]
        BY <2>1, <3>4 DEF NewValue, a, b, old
      <4>2. Wrap(a + b) \in 0 .. ULONG_MAX
        BY <3>3, WrapType, Numbers
      <4>3. stoul(to_string(Wrap(a + b))) = Wrap(a + b)
        BY <4>2 DEF Conversions
      <4>4. Wrap(a + b) = (b + a) % WordMod
        BY <3>3, Numbers DEF Wrap
      <4> QED
        BY <3>4, <4>1, <4>3, <4>4 DEF a, b, old, Updates
    <3>5. CASE r.cmd = "decr"
      <4> DEFINE d == IF b <= a THEN 0 ELSE b - a
      <4>1. e.after[1].value = [data |-> to_string(d), flags |-> old.flags]
        BY <2>1, <3>5 DEF NewValue, a, b, old
      <4>2. d \in 0 .. ULONG_MAX
        BY <3>3, Numbers
      <4>3. stoul(to_string(d)) = d
        BY <4>2 DEF Conversions
      <4>4. d + a = b \/ (d = 0 /\ b < a)
        BY <3>3, Numbers
      <4> HIDE DEF d
      <4> QED
        BY <3>5, <4>1, <4>3, <4>4 DEF a, b, old, Updates
    <3> QED
      BY <2>3, <3>4, <3>5
  <2> QED
    BY <1>5, <2>2, <2>3, Zenon
<1>6. UninterruptedIsAtomic'
  <2> SUFFICES ASSUME r.cmd \in {"append", "prepend", "incr", "decr"}, Wrote', e.before # <<>>,
                      e.before[1] = read.after[1]
               PROVE  /\ s.reply = "NUMBER" => s.found = <<e.after[1].value.data>>
                      /\ Updates(r, e.before[1].value, e.after[1].value)
    BY <1>2, Zenon DEF UninterruptedIsAtomic, Direct, Updates
  <2> QED
    BY <1>3, <1>5, Zenon
<1>7. q.status = "SUCCESS" /\ c.op = "insert" /\ c.check # NoCas
        => e.before # <<>> /\ e.before[1].cas = c.check
  BY <1>1, ZenonT(30) DEF StoreOutcome
<1>8. TouchKeepsValue'
  <2> SUFFICES ASSUME r.cmd = "touch", Wrote'
               PROVE  e.before # <<>> /\ e.after[1].value = e.before[1].value
    BY <1>2, Zenon DEF TouchKeepsValue, Direct
  <2>1. /\ c.op = "insert" /\ c.check = read.before[1].cas /\ c.value = read.before[1].value
        /\ n = 2
    BY ZenonT(30) DEF Storing, Check, NewValue, Direct, read
  <2> QED
    BY <1>1, <1>3, <1>7, <2>1, Zenon DEF Tokened, read, e
<1>9. CasReplacesWhatWasShown'
  <2> SUFFICES ASSUME r.cmd = "cas", Wrote'
               PROVE  /\ e.before # <<>> /\ e.before[1].value = last[1].value
                      /\ e.before[1].cas = last[1].cas
    BY <1>2, Zenon DEF CasReplacesWhatWasShown, Direct
  <2>1. c.op = "insert" /\ c.check = last[1].cas /\ n = 1
    BY Zenon DEF Storing, Check, Direct
  <2> QED
    BY <1>1, <1>3, <1>7, <2>1 DEF Tokened, e
<1>10. AnswersAreTrue'
  <2>1. r.cmd \in StorageCommands \cup {"incr", "decr", "touch"}
    BY DEF Storing
  <2>2. /\ r.cmd \in {"set", "add", "replace"} => c.check = NoCas
        /\ c.op = IF r.cmd = "add" THEN "add" ELSE "insert"
    BY DEF Storing, Check
  <2>3. r.cmd \in {"set", "add", "cas", "replace"}
          => c.value = [data |-> r.data, flags |-> r.flags]
    BY Zenon DEF Storing, NewValue
  <2>4. s.reply = "STORED" /\ r.cmd \in {"set", "add", "cas", "replace"}
          => e.after[1].value = [data |-> r.data, flags |-> r.flags]
    BY <1>1, <2>2, <2>3 DEF StoreOutcome, StoreReply
  <2>5. s.reply = "STORED" /\ r.cmd = "add" => ~Visible(e.before, e.cur)
    BY <1>1, <2>2 DEF StoreOutcome, StoreReply
  <2>6. s.reply = "NOT_STORED"
          => r.cmd = "add" /\ Visible(e.before, e.cur) /\ e.after = e.before
    BY <1>1, <2>2 DEF StoreOutcome, StoreReply
  <2>7. s.reply \in {"EXISTS", "SERVER_ERROR"} => e.after = e.before
    BY <1>1, <2>2, Zenon DEF StoreOutcome, StoreReply
  <2>8. /\ s.reply \notin {"DELETED", "END"} /\ (s.reply = "NOT_FOUND" => r.cmd = "cas")
        /\ (r.cmd = "add" => n = 1)
    BY Zenon DEF StoreReply, Direct
  <2>9. Changed' => e.after # e.before
    BY <1>2, ZenonT(30) DEF Changed, Calls, Met, Left
  <2> QED
    BY <1>2, <2>4, <2>5, <2>6, <2>7, <2>8, <2>9, Zenon DEF AnswersAreTrue
<1>11. ExpiryAsAsked'
  <2> DEFINE x == e.after[1].expiry
             asked == r.exptime
  <2> SUFFICES ASSUME Wrote'
               PROVE  /\ r.cmd \in {"set", "add", "cas", "replace"} =>
                           /\ asked \in 1 .. Threshold => x = e.cur + asked
                           /\ asked > Threshold /\ asked # j.at
                                => x = (asked + e.cur - j.at) % WordMod
                           /\ asked = 0 /\ e.before = <<>> => x = ULONG_MAX
                      /\ r.cmd = "touch" /\ asked <= Threshold => x = e.cur + asked
                      /\ r.cmd \in {"append", "prepend", "incr", "decr"}
                         /\ (e.before = <<>> => read.before[1].expiry # read.cur)
                         => x = (read.before[1].expiry + e.cur - read.cur) % WordMod
    BY <1>2, Zenon DEF ExpiryAsAsked
  <2>1. /\ x = IF e.before = <<>> /\ c.expiry = 0 THEN ULONG_MAX ELSE Wrap(e.cur + c.expiry)
        /\ e.cur \in 1 .. MaxTime /\ read.cur \in 1 .. MaxTime
    BY <1>1, <1>3, Zenon DEF StoreOutcome, Entries
  <2>2. r.cmd \in TimedCommands => asked \in Nat /\ asked \in 0 .. ULONG_MAX
    <3>1. asked \in Nat \cup {Invalid}
      BY <1>1, ZenonT(30) DEF Request, RequestFields
    <3>2. r.cmd \in TimedCommands => asked # Invalid /\ ~(asked >= WordMod)
      BY DEF Storing, Accepted, Malformed, OutOfRange
    <3> QED
      BY <3>1, <3>2, Numbers DEF Invalid
  <2> HIDE DEF x
  <2>3. CASE r.cmd \in {"set", "add", "cas", "replace"}
    <3>1. c.expiry = IF asked > Threshold THEN Wrap(asked - j.at) ELSE asked
      BY <2>3 DEF Storing, NewExpiry, expTime
    <3>2. asked \in Nat /\ asked \in 0 .. ULONG_MAX
      BY <2>2, <2>3 DEF TimedCommands, StorageCommands
    <3>3. asked \in 1 .. Threshold => x = e.cur + asked
      BY <2>1, <3>1, ShortWindow, ShortTime, Zenon
    <3>4. asked > Threshold /\ asked # j.at => x = (asked + e.cur - j.at) % WordMod
      BY <1>1, <2>1, <3>1, <3>2, Deadline, ZenonT(30)
    <3>5. asked = 0 /\ e.before = <<>> => x = ULONG_MAX
      BY <2>1, <3>1, CommandsAssumption
    <3> QED
      BY <2>3, <3>3, <3>4, <3>5, Zenon
  <2>4. CASE r.cmd = "touch"
    <3>1. c.expiry = asked % UIntMod
      BY <2>4 DEF Storing, NewExpiry
    <3>2. asked \in Nat
      BY <2>2, <2>4 DEF TimedCommands
    <3>3. e.before # <<>>
      <4>1. c.op = "insert" /\ c.check = read.before[1].cas
        BY <2>4, Zenon DEF Storing, Check, read
      <4>2. c.check # NoCas
        BY <2>4, <4>1 DEF Tokened, read
      <4> QED
        BY <1>3, <1>7, <4>1, <4>2
    <3>4. ASSUME asked <= Threshold PROVE asked % UIntMod = asked /\ asked \in 0 .. Threshold
      BY <3>2, <3>4, ShortUInt, Zenon
    <3>5. asked <= Threshold => x = e.cur + asked
      BY <2>1, <3>1, <3>3, <3>4, ShortTime
    <3> QED
      BY <2>4, <3>5
  <2>5. CASE r.cmd \in {"append", "prepend", "incr", "decr"}
    <3>1. c.expiry = Wrap(read.before[1].expiry - read.cur)
      BY <2>5, Zenon DEF Storing, NewExpiry, read
    <3>2. read.before[1].expiry \in 0 .. ULONG_MAX
      BY <1>1, <1>4, <2>5, Zenon DEF Direct, Entries, Views, Element
    <3>3. (e.before = <<>> => read.before[1].expiry # read.cur)
            => x = (read.before[1].expiry + e.cur - read.cur) % WordMod
      BY <2>1, <3>1, <3>2, Deadline, Zenon
    <3> QED
      BY <2>5, <3>3
  <2> QED
    BY <2>3, <2>4, <2>5
<1> QED
  BY <1>6, <1>8, <1>9, <1>10, <1>11 DEF Answered

-----------------------------------------------------------------------------
(* Steps: what all of them have in common *)

\* Tokens stay unique if a step makes known only what was known, or the element x that
\* it stores with the token it draws.
LEMMA TokensStep ==
  ASSUME Tokens1, Tokens2, draws \in Nat, draws' \in {draws, draws + 1}, NEW x,
         \A tok \in Nat, v \in Value :
           Knows(tok, v)' => Knows(tok, v) \/ (draws' = draws + 1 /\ tok = draws + 1 /\ v = x)
  PROVE  Tokens1' /\ Tokens2'
<1>1. \A tok \in Nat, v \in Value : Knows(tok, v) => tok \in 1 .. draws
  BY DEF Tokens1
<1>2. \A tok \in Nat, v1, v2 \in Value : Knows(tok, v1) /\ Knows(tok, v2) => v1 = v2
  BY DEF Tokens2
<1>3. Tokens1'
  BY <1>1 DEF Tokens1
<1>4. Tokens2'
  BY <1>1, <1>2 DEF Tokens2
<1> QED
  BY <1>3, <1>4

\* The other workers do not take part in a step of w.
LEMMA WorkersStep ==
  ASSUME Workers, NEW w \in Threads, Worker(job'[w], call'[w], shown'[w]),
         \A u \in Threads \ {w} :
           job'[u] = job[u] /\ call'[u] = call[u] /\ shown'[u] = shown[u]
  PROVE  Workers'
BY DEF Workers

\* A worker begins an engine call.
LEMMA CallStep ==
  ASSUME CInv, NEW w \in Threads, NEW i \in Jobs, job' = [job EXCEPT ![w] = i],
         i.trace = <<>> \/ (job[w] # NoJob /\ i.trace = job[w].trace),
         NEW c \in EngineCalls, Begin(w, c), sent' = Nothing,
         UNCHANGED <<shown, draws, running>>, script' \in Seq(SUBSET Request),
         \A p \in CallStates :
           /\ p.c = c /\ p.phase \in {"open", "closed"} /\ p.cur = now
           /\ c.op # "handleFlush" => p.phase = "open"
           => Worker(i, p, shown[w])
  PROVE  CInv'
<1>1. Types /\ Workers /\ Tokens1 /\ Tokens2
  BY DEF CInv
<1> DEFINE p == [phase |-> IF c.op = "handleFlush" /\ ~gIsFlushAllSet THEN "closed" ELSE "open",
                 c |-> c, cur |-> now, status |-> "none", got |-> <<>>]
<1>2. /\ call \in [Threads -> CallStates \cup {NoCall}] /\ job \in [Threads -> Jobs \cup {NoJob}]
      /\ now \in 1 .. MaxTime
  BY <1>1 DEF Types
<1>3. p \in CallStates /\ p.c = c /\ p.phase \in {"open", "closed"} /\ p.cur = now
      /\ (c.op # "handleFlush" => p.phase = "open")
  BY <1>2, Zenon DEF CallStates, Got
<1>4. call' = [call EXCEPT ![w] = p] /\ map' = map /\ now' = now
  BY DEF Begin, content
<1> HIDE DEF p
<1>5. Types'
  BY <1>1, <1>2, <1>3, <1>4, Zenon DEF Types
<1>6. Worker(job'[w], call'[w], shown'[w])
  BY <1>2, <1>3, <1>4
<1>7. Workers'
  BY <1>1, <1>2, <1>4, <1>6, WorkersStep
<1>8. \A tok \in Nat, v \in Value : Knows(tok, v)' => Knows(tok, v)
  <2> SUFFICES ASSUME NEW tok \in Nat, NEW v \in Value, Knows(tok, v)'
               PROVE  Knows(tok, v)
    OBVIOUS
  <2>1. ASSUME NEW u \in Threads, job'[u] # NoJob, NEW m \in DOMAIN job'[u].trace
        PROVE  job[u] # NoJob /\ job'[u].trace = job[u].trace
    BY <1>2, <2>1
  <2> QED
    BY <1>4, <2>1, ZenonT(30) DEF Knows
<1>9. Tokens1' /\ Tokens2'
  BY <1>1, <1>8, TokensStep, Zenon DEF Types
<1> QED
  BY <1>5, <1>7, <1>9, NoAnswer, Zenon DEF CInv

\* A worker answers its client.
LEMMA SendStep ==
  ASSUME CInv, NEW w \in Threads, job[w] \in Jobs, NEW text, NEW found, Send(w, text, found),
         job[w].r.cmd = "gets" =>
           found \in Seq(Answers) /\ \A m \in DOMAIN found : Knows(found[m].cas, found[m].value),
         Answered'
  PROVE  CInv'
<1>1. Types /\ Workers /\ Tokens1 /\ Tokens2
  BY DEF CInv
<1>2. /\ call \in [Threads -> CallStates \cup {NoCall}] /\ job \in [Threads -> Jobs \cup {NoJob}]
      /\ shown \in [Threads -> Seq(Answers)]
  BY <1>1 DEF Types
<1>3. /\ call' = [call EXCEPT ![w] = NoCall] /\ map' = map /\ now' = now
      /\ job' = [job EXCEPT ![w] = NoJob] /\ UNCHANGED <<script, draws, running>>
      /\ shown' = IF job[w].r.cmd = "gets" THEN [shown EXCEPT ![w] = found] ELSE shown
  BY Zenon DEF Send, Return, content, Req
<1>4. Types'
  BY <1>1, <1>2, <1>3, Zenon DEF Types
<1>5. Worker(job'[w], call'[w], shown'[w])
  BY <1>2, <1>3, ZenonT(30) DEF Worker
<1>6. Workers'
  BY <1>1, <1>2, <1>3, <1>5, WorkersStep
<1>7. \A tok \in Nat, v \in Value : Knows(tok, v)' => Knows(tok, v)
  <2> SUFFICES ASSUME NEW tok \in Nat, NEW v \in Value, Knows(tok, v)'
               PROVE  Knows(tok, v)
    OBVIOUS
  <2>1. ASSUME NEW u \in Threads, job'[u] # NoJob
        PROVE  job'[u] = job[u]
    BY <1>2, <1>3, <2>1, ZenonT(30)
  <2>2. ASSUME NEW u \in Threads, NEW m \in DOMAIN shown'[u]
        PROVE  \/ shown'[u] = shown[u]
               \/ shown'[u] = found /\ Knows(found[m].cas, found[m].value)
    BY <1>2, <1>3, <2>2
  <2>3. ASSUME NEW u \in Threads, NEW m \in DOMAIN shown'[u],
               shown'[u][m].cas = tok, shown'[u][m].value = v
        PROVE  Knows(tok, v)
    <3>1. CASE shown'[u] = shown[u]
      BY <2>3, <3>1, Zenon DEF Knows
    <3>2. CASE shown'[u] = found /\ Knows(found[m].cas, found[m].value)
      BY <2>3, <3>2
    <3> QED
      BY <2>2, <3>1, <3>2
  <2>4. CASE \E u \in Threads : \E m \in DOMAIN shown'[u] :
               shown'[u][m].cas = tok /\ shown'[u][m].value = v
    BY <2>3, <2>4
  <2>5. CASE \E k \in DOMAIN map' : map'[k].cas = tok /\ map'[k].value = v
    BY <1>3, <2>5, Zenon DEF Knows
  <2>6. CASE \E u \in Threads :
               /\ job'[u] # NoJob
               /\ \E m \in DOMAIN job'[u].trace :
                    LET view == job'[u].trace[m].before
                    IN view # <<>> /\ view[1].cas = tok /\ view[1].value = v
    <3>1. PICK u \in Threads :
            /\ job'[u] # NoJob
            /\ \E m \in DOMAIN job'[u].trace :
                 LET view == job'[u].trace[m].before
                 IN view # <<>> /\ view[1].cas = tok /\ view[1].value = v
      BY <2>6, Zenon
    <3>2. /\ job[u] # NoJob
          /\ \E m \in DOMAIN job[u].trace :
               LET view == job[u].trace[m].before
               IN view # <<>> /\ view[1].cas = tok /\ view[1].value = v
      BY <2>1, <3>1, Zenon
    <3> QED
      BY <3>2, ZenonT(30) DEF Knows
  <2> QED
    BY <2>4, <2>5, <2>6, Zenon DEF Knows
<1>8. Tokens1' /\ Tokens2'
  BY <1>1, <1>3, <1>7, TokensStep, Zenon DEF Types
<1> QED
  BY <1>4, <1>6, <1>8 DEF CInv

\* An engine call takes effect.
LEMMA EffectStep ==
  ASSUME CInv, NEW w \in Threads, Effect(w), sent' = Nothing, UNCHANGED <<shown, script, running>>
  PROVE  CInv'
<1> DEFINE e == EntryOf(w)
           j == job[w]
           i == [j EXCEPT !.trace = Append(@, e)]
<1>1. Types /\ Workers /\ Tokens1 /\ Tokens2
  BY DEF CInv
<1>2. /\ call \in [Threads -> CallStates \cup {NoCall}] /\ job \in [Threads -> Jobs \cup {NoJob}]
      /\ MapType(map) /\ draws \in Nat
  BY <1>1 DEF Types
<1>3. call[w] \in CallStates
  <2>1. call[w].phase = "open"
    BY DEF Effect, Store, Insert, Add, Full, Read, Get, Delete, Open
  <2> QED
    BY <1>2, <2>1 DEF NoCall
<1>4. TakesEffect(w, e) /\ job' = [job EXCEPT ![w].trace = Append(@, e)]
  BY <1>1, <1>3, Effects
<1> HIDE DEF e
<1>5. j \in Jobs /\ Worker(i, call'[w], shown[w])
  BY <1>1, <1>4, WorkerEffect DEF Workers, TakesEffect
<1>6. i \in Jobs /\ i.trace = Append(j.trace, e) /\ j.trace \in Seq(Entries) /\ e \in Entries
  BY <1>4, <1>5, Prefix, Zenon DEF Jobs, TakesEffect
<1>7. job' = [job EXCEPT ![w] = i]
  BY <1>2, <1>4
<1> HIDE DEF i
<1>8. Types'
  <2>1. call' \in [Threads -> CallStates \cup {NoCall}] /\ now' = now /\ MapType(map')
    BY <1>4 DEF TakesEffect
  <2>2. draws' \in Nat
    BY <1>2, <1>4 DEF TakesEffect
  <2>3. job' \in [Threads -> Jobs \cup {NoJob}]
    BY <1>2, <1>6, <1>7
  <2> QED
    BY <1>1, <2>1, <2>2, <2>3 DEF Types
<1>9. Workers'
  <2>1. job'[w] = i /\ \A u \in Threads \ {w} : job'[u] = job[u]
    BY <1>2, <1>7
  <2>2. \A u \in Threads \ {w} : call'[u] = call[u]
    BY <1>4 DEF TakesEffect
  <2>3. Worker(job'[w], call'[w], shown'[w])
    BY <1>5, <2>1
  <2> QED
    BY <1>1, <2>1, <2>2, <2>3, WorkersStep
<1>10. ASSUME NEW tok \in Nat, NEW v \in Value, Knows(tok, v)'
       PROVE  Knows(tok, v) \/ (draws' = draws + 1 /\ tok = draws + 1 /\ v = call[w].c.value)
  <2>1. CASE \E k \in DOMAIN map' : map'[k].cas = tok /\ map'[k].value = v
    <3>1. PICK k \in DOMAIN map' : map'[k].cas = tok /\ map'[k].value = v
      BY <2>1
    <3>2. \/ k \in DOMAIN map /\ map'[k] = map[k]
          \/ draws' = draws + 1 /\ map'[k].cas = draws' /\ map'[k].value = call[w].c.value
      BY <1>4 DEF TakesEffect
    <3> QED
      BY <3>1, <3>2 DEF Knows
  <2>2. CASE \E u \in Threads : \E m \in DOMAIN shown'[u] :
               shown'[u][m].cas = tok /\ shown'[u][m].value = v
    BY <2>2, Zenon DEF Knows
  <2>3. CASE \E u \in Threads :
               /\ job'[u] # NoJob
               /\ \E m \in DOMAIN job'[u].trace :
                    LET view == job'[u].trace[m].before
                    IN view # <<>> /\ view[1].cas = tok /\ view[1].value = v
    <3>1. PICK u \in Threads :
            /\ job'[u] # NoJob
            /\ \E m \in DOMAIN job'[u].trace :
                 LET view == job'[u].trace[m].before
                 IN view # <<>> /\ view[1].cas = tok /\ view[1].value = v
      BY <2>3
    <3>2. CASE u # w
      <4>1. job'[u] = job[u]
        BY <1>2, <1>7, <3>2, ZenonT(30)
      <4>2. /\ job[u] # NoJob
            /\ \E m \in DOMAIN job[u].trace :
                 LET view == job[u].trace[m].before
                 IN view # <<>> /\ view[1].cas = tok /\ view[1].value = v
        BY <3>1, <4>1
      <4> QED
        BY <4>2, Zenon DEF Knows
    <3>3. CASE u = w
      <4>1. job'[w] = i
        BY <1>2, <1>7, ZenonT(30)
      <4>2. PICK m \in DOMAIN i.trace :
              LET view == i.trace[m].before
              IN view # <<>> /\ view[1].cas = tok /\ view[1].value = v
        BY <3>1, <3>3, <4>1
      <4>0. /\ m \in 1 .. Len(j.trace) => m \in DOMAIN j.trace /\ i.trace[m] = j.trace[m]
            /\ m \in DOMAIN i.trace /\ m \notin 1 .. Len(j.trace) => i.trace[m] = e
        BY <1>6, AppendPlaces
      <4>3. CASE m \in 1 .. Len(j.trace)
        <5>1. m \in DOMAIN j.trace /\ i.trace[m] = j.trace[m] /\ j # NoJob
          BY <1>5, <4>0, <4>3, JobIsSome, Zenon
        <5> QED
          BY <4>2, <5>1, ZenonT(30) DEF Knows
      <4>4. CASE m \notin 1 .. Len(j.trace)
        <5>1. i.trace[m] = e
          BY <4>0, <4>2, <4>4, Zenon
        <5>2. e.before = ViewIn(map, hidden, Key(w))
          BY <1>4 DEF TakesEffect
        <5>3. Key(w) \in DOMAIN map /\ map[Key(w)].cas = tok /\ map[Key(w)].value = v
          BY <1>2, <4>2, <5>1, <5>2, ViewType
        <5> QED
          BY <5>3, Zenon DEF Knows
      <4> QED
        BY <4>3, <4>4
    <3> QED
      BY <3>2, <3>3, ZenonT(30)
  <2> QED
    BY <1>10, <2>1, <2>2, <2>3, ZenonT(30) DEF Knows
<1>11. Tokens1' /\ Tokens2'
  <2> DEFINE x == call[w].c.value
  <2>1. \A tok \in Nat, v \in Value :
          Knows(tok, v)' => Knows(tok, v) \/ (draws' = draws + 1 /\ tok = draws + 1 /\ v = x)
    BY <1>10
  <2>2. draws' \in {draws, draws + 1}
    BY <1>4 DEF TakesEffect
  <2> HIDE DEF x
  <2> QED
    BY <1>1, <1>2, <2>1, <2>2, TokensStep
<1> QED
  BY <1>8, <1>9, <1>11, NoAnswer DEF CInv

\* A step that at most takes elements away and changes one call of a flush.
LEMMA QuietStep ==
  ASSUME CInv, sent' = Nothing, UNCHANGED <<job, shown, script, draws>>,
         running' \in BOOLEAN, now' \in 1 .. MaxTime,
         MapType(map'), \A k \in DOMAIN map' : k \in DOMAIN map /\ map'[k] = map[k],
         call' \in [Threads -> CallStates \cup {NoCall}],
         \A u \in Threads : Worker(job[u], call'[u], shown[u])
  PROVE  CInv'
<1>1. Types /\ Workers /\ Tokens1 /\ Tokens2
  BY DEF CInv
<1>2. Types' /\ Workers'
  BY <1>1 DEF Types, Workers
<1>3. \A tok \in Nat, v \in Value : Knows(tok, v)' => Knows(tok, v)
  BY ZenonT(30) DEF Knows
<1>4. Tokens1' /\ Tokens2'
  <2>1. draws \in Nat /\ draws' = draws
    BY <1>1 DEF Types
  <2>2. \A tok \in Nat, v \in Value :
          Knows(tok, v)' => Knows(tok, v) \/ (draws' = draws + 1 /\ tok = draws + 1 /\ v = NoValue)
    BY <1>3
  <2> QED
    BY <1>1, <2>1, <2>2, TokensStep
<1> QED
  BY <1>2, <1>4, NoAnswer, ZenonT(30) DEF CInv

\* Nothing happens at all.
LEMMA StutterStep ==
  ASSUME CInv, UNCHANGED cvars
  PROVE  CInv'
<1>1. /\ UNCHANGED <<job, shown, sent, script, draws, running, map, now, call>>
  BY Zenon DEF cvars, vars, content
<1>2. UninterruptedIsAtomic => UninterruptedIsAtomic'
  BY <1>1, ZenonT(30) DEF UninterruptedIsAtomic, Wrote, Calls, Cmd, Met, Left
<1>3. /\ TouchKeepsValue => TouchKeepsValue'
      /\ CasReplacesWhatWasShown => CasReplacesWhatWasShown'
  BY <1>1 DEF TouchKeepsValue, CasReplacesWhatWasShown, Wrote, Calls, Cmd, Met, Left
<1>4. AnswersAreTrue => AnswersAreTrue'
  BY <1>1, ZenonT(30) DEF AnswersAreTrue, Changed, Calls, Cmd, Met, Left, CurOf
<1>5. ExpiryAsAsked => ExpiryAsAsked'
  BY <1>1, Zenon DEF ExpiryAsAsked, Wrote, Calls, Cmd, Met, Left, CurOf
<1>6. \A tok, v : Knows(tok, v)' => Knows(tok, v)
  BY <1>1, Zenon DEF Knows
<1>7. Tokens1 /\ Tokens2 => Tokens1' /\ Tokens2'
  BY <1>1, <1>6 DEF Tokens1, Tokens2
<1>8. Types /\ Workers => Types' /\ Workers'
  BY <1>1 DEF Types, Workers
<1> QED
  BY <1>2, <1>3, <1>4, <1>5, <1>7, <1>8 DEF CInv, Answered

-----------------------------------------------------------------------------
(* Steps of the engine and of the clock *)

\* A step of the engine.
LEMMA EngineStep ==
  ASSUME CInv, NEW w \in Threads, Engine(w)
  PROVE  CInv'
<1>1. Types /\ Workers
  BY DEF CInv
<1>2. /\ call \in [Threads -> CallStates \cup {NoCall}] /\ MapType(map) /\ now \in 1 .. MaxTime
      /\ running \in BOOLEAN
  BY <1>1 DEF Types
<1>3. sent' = Nothing /\ UNCHANGED <<shown, script, running>>
  BY DEF Engine
<1>4. CASE Effect(w)
  BY <1>3, <1>4, EffectStep, Zenon
<1>5. CASE (\E k \in Keys : Evict(w, k)) /\ UNCHANGED <<job, draws>>
  <2>1. PICK k \in Keys : Evict(w, k)
    BY <1>5
  <2>2. map' = Restrict(map, DOMAIN map \ {k}) /\ call' = call /\ now' = now
    BY <2>1 DEF Evict, Erase
  <2>3. MapType(map') /\ \A m \in DOMAIN map' : m \in DOMAIN map /\ map'[m] = map[m]
    BY <1>2, <2>2, EraseMap, ZenonT(30) DEF Restrict
  <2>4. \A u \in Threads : Worker(job[u], call'[u], shown[u])
    BY <1>1, <2>2 DEF Workers
  <2> QED
    BY <1>2, <1>3, <1>5, <2>2, <2>3, <2>4, QuietStep, Zenon
<1>6. CASE Flush(w) /\ UNCHANGED <<job, draws>>
  <2>1. PICK ph \in {"due", "clear", "closed"} :
          /\ call' = [call EXCEPT ![w].phase = ph]
          /\ call[w].phase \in {"due", "clear"} \/ Open(w, {"setFlush", "handleFlush"})
          /\ ph \in {"due", "clear"} => call[w].phase = "due" \/ Open(w, {"handleFlush"})
    BY <1>6 DEF Flush, SetFlush, FlushTest, FlushStore, FlushClear, Open
  <2>2. map' = map /\ now' = now
    BY <1>6 DEF Flush, SetFlush, FlushTest, FlushStore, FlushClear, content
  <2>3. call[w] \in CallStates
    BY <1>2, <2>1 DEF NoCall, Open
  <2> DEFINE q == [call[w] EXCEPT !.phase = ph]
  <2>4. q \in CallStates /\ q.c = call[w].c /\ q.phase = ph
    BY <2>3 DEF CallStates
  <2>5. call' = [call EXCEPT ![w] = q]
    BY <1>2, <2>1
  <2> HIDE DEF q
  <2>6. call' \in [Threads -> CallStates \cup {NoCall}]
    BY <1>2, <2>4, <2>5
  <2>7. Worker(job[w], call[w], shown[w])
    BY <1>1 DEF Workers
  <2>8. call[w].c.op \in {"setFlush", "handleFlush"} /\ job[w] \in Jobs
        /\ (ph \in {"due", "clear"} => call[w].c.op = "handleFlush")
    BY <2>1, <2>3, <2>7 DEF Worker, Open, CallStates, NoCall
  <2>9. Parsing(job[w], call[w], shown[w]) \/ Flushing(job[w], call[w])
    <3>1. ~Reading(job[w], call[w]) /\ ~Deleting(job[w], call[w])
      BY <2>8 DEF Reading, Deleting
    <3>2. ~Storing(job[w], call[w], shown[w])
      BY <2>8, Zenon DEF Storing
    <3>3. call[w] # NoCall
      BY <2>3 DEF CallStates, NoCall
    <3> QED
      BY <2>7, <3>1, <3>2, <3>3, Zenon DEF Worker
  <2>10. Parsing(job[w], q, shown[w]) \/ Flushing(job[w], q)
    BY <2>4, <2>9, Zenon DEF Parsing, Flushing
  <2>11. Worker(job[w], q, shown[w])
    BY <2>4, <2>8, <2>10, Zenon DEF Worker
  <2>12. \A u \in Threads : Worker(job[u], call'[u], shown[u])
    BY <1>1, <1>2, <2>5, <2>11, Zenon DEF Workers
  <2> QED
    BY <1>2, <1>3, <1>6, <2>2, <2>6, <2>12, QuietStep, ZenonT(30)
<1> QED
  BY <1>4, <1>5, <1>6 DEF Engine

\* A second passes.
LEMMA ClockStep ==
  ASSUME CInv, Clock
  PROVE  CInv'
<1>1. Types /\ Workers
  BY DEF CInv
<1>2. /\ call \in [Threads -> CallStates \cup {NoCall}] /\ MapType(map) /\ now \in 1 .. MaxTime
      /\ running \in BOOLEAN
  BY <1>1 DEF Types
<1>3. now' \in 1 .. MaxTime
  BY <1>2, Numbers DEF Clock, Tick
<1>4. sent' = Nothing /\ UNCHANGED <<map, call, job, shown, script, draws, running>>
  BY Zenon DEF Clock, Tick, content
<1>5. \A u \in Threads : Worker(job[u], call'[u], shown[u])
  BY <1>1, <1>4, ZenonT(30) DEF Workers
<1> QED
  BY <1>2, <1>3, <1>4, <1>5, QuietStep, Zenon

\* An exception ends the process.
LEMMA TerminateStep ==
  ASSUME CInv, Terminate
  PROVE  CInv'
<1>1. Types /\ Workers
  BY DEF CInv
<1>2. /\ call \in [Threads -> CallStates \cup {NoCall}] /\ MapType(map) /\ now \in 1 .. MaxTime
  BY <1>1 DEF Types
<1>3. sent' = Nothing /\ running' \in BOOLEAN
      /\ UNCHANGED <<map, call, now, job, shown, script, draws>>
  BY Zenon DEF Terminate, vars, content
<1>4. \A u \in Threads : Worker(job[u], call'[u], shown[u])
  BY <1>1, <1>3, Zenon DEF Workers
<1> QED
  BY <1>2, <1>3, <1>4, QuietStep

-----------------------------------------------------------------------------
(* Where a worker is when a call of it has returned *)

\* Its stage says which.
LEMMA Stages ==
  ASSUME CInv, NEW w \in Threads, call[w].phase = "closed"
  PROVE  /\ job[w] \in Jobs /\ call[w] \in CallStates
         /\ job[w].stage = "parsed" => Parsing(job[w], call[w], shown[w])
         /\ job[w].stage = "read" => Reading(job[w], call[w])
         /\ job[w].stage = "stored" => Storing(job[w], call[w], shown[w])
         /\ job[w].stage = "deleted" => Deleting(job[w], call[w])
         /\ job[w].stage = "set" => Flushing(job[w], call[w])
<1>1. Worker(job[w], call[w], shown[w])
  BY DEF CInv, Workers
<1>2. call[w] # NoCall
  BY DEF NoCall
<1>3. /\ job[w] \in Jobs /\ call[w] \in CallStates
      /\ \/ Parsing(job[w], call[w], shown[w]) \/ Reading(job[w], call[w])
         \/ Storing(job[w], call[w], shown[w]) \/ Deleting(job[w], call[w])
         \/ Flushing(job[w], call[w])
  BY <1>1, <1>2 DEF Worker
<1>4. /\ Parsing(job[w], call[w], shown[w]) => job[w].stage = "parsed"
      /\ Reading(job[w], call[w]) => job[w].stage = "read"
      /\ Storing(job[w], call[w], shown[w]) => job[w].stage = "stored"
      /\ Deleting(job[w], call[w]) => job[w].stage = "deleted"
      /\ Flushing(job[w], call[w]) => job[w].stage = "set"
  BY Zenon DEF Parsing, Reading, Storing, Deleting, Flushing
<1> QED
  BY <1>3, <1>4, Zenon

\* What a handler leaves of its job when it makes its next call.
SameCommand(i, j, stage) ==
  /\ i.stage = stage /\ i.r = j.r /\ i.n = j.n /\ i.out = j.out /\ i.trace = j.trace
  /\ i.at = IF j.at = 0 THEN now ELSE j.at
  /\ i.at > 0

\* The engine call c carries the command of job j on: whatever job the handler
\* leaves for it and however the call stands when it opens, the two agree.
CarriesOn(j, stage, c, last) ==
  \A i \in Jobs, p \in CallStates :
    SameCommand(i, j, stage) /\ p.c = c /\ p.phase = "open"
      => \/ Reading(i, p) \/ Storing(i, p, last) \/ Deleting(i, p) \/ Flushing(i, p)

\* The call's key is the first one of the request.
LEMMA FirstKey ==
  ASSUME NEW keys \in Seq(Keys), 1 <= Len(keys)
  PROVE  keys[1] \in Keys
OBVIOUS

\* The time a command first read is kept for its second call.
LEMMA PositiveAt ==
  ASSUME NEW n, n > 0
  PROVE  n # 0
OBVIOUS

\* The command's first call on the engine opens with nothing recorded.
LEMMA FirstCall ==
  ASSUME NEW q, q.phase = "open"
  PROVE  Recorded(q, <<>>, 1)
<1>1. Len(<<>>) = 1 - 1
  OBVIOUS
<1> QED
  BY <1>1 DEF Recorded

\* Its second one opens with what the first one read.
LEMMA SecondCall ==
  ASSUME NEW q, q.phase = "open", NEW trace \in Seq(Entries), Len(trace) = 1
  PROVE  Recorded(q, trace, 2) /\ trace # <<>>
<1>1. Len(trace) = 2 - 1 /\ trace # <<>>
  OBVIOUS
<1> QED
  BY <1>1 DEF Recorded

\* A handler makes a call.
LEMMA CallNext ==
  ASSUME CInv, NEW w \in Threads, job[w] \in Jobs,
         NEW stage \in {"read", "stored", "deleted", "set"},
         NEW c \in EngineCalls, c.op # "handleFlush", Call(w, stage, c),
         CarriesOn(job[w], stage, c, shown[w])
  PROVE  CInv'
<1> DEFINE j == job[w]
           at == IF j.at = 0 THEN now ELSE j.at
           i == [j EXCEPT !.stage = stage, !.whole = TRUE, !.at = at]
<1>1. job \in [Threads -> Jobs \cup {NoJob}] /\ now \in 1 .. MaxTime /\ script \in Seq(SUBSET Request)
  BY DEF CInv, Types
<1>2. j.at \in 0 .. MaxTime /\ MaxTime \in Nat
  BY Numbers DEF Jobs
<1>3. job' = [job EXCEPT ![w] = i]
  BY <1>1, Zenon DEF Call
<1>4. at \in 0 .. MaxTime /\ at > 0 /\ at = IF j.at = 0 THEN now ELSE j.at
  BY <1>1, <1>2
<1> HIDE DEF at
<1>5. i \in Jobs
  BY <1>4, Zenon DEF Jobs
<1>6. SameCommand(i, j, stage)
  BY <1>4 DEF SameCommand, Jobs
<1>7. i.trace = job[w].trace /\ job[w] # NoJob
  BY <1>6 DEF SameCommand, Jobs, NoJob
<1> HIDE DEF i
<1>8. \A p \in CallStates : p.c = c /\ p.phase = "open" => Worker(i, p, shown[w])
  BY <1>5, <1>6 DEF CarriesOn, Worker
<1>9. \A p \in CallStates :
        /\ p.c = c /\ p.phase \in {"open", "closed"} /\ p.cur = now
        /\ c.op # "handleFlush" => p.phase = "open"
        => Worker(i, p, shown[w])
  BY <1>8
<1>10. /\ Begin(w, c) /\ sent' = Nothing
       /\ UNCHANGED <<shown, draws, running>> /\ script' \in Seq(SUBSET Request)
  BY <1>1 DEF Call
<1> HIDE DEF j
<1> QED
  BY <1>3, <1>5, <1>7, <1>9, <1>10, CallStep, ZenonT(30)

-----------------------------------------------------------------------------
(* The first call of a command *)

\* What has been parsed.
LEMMA ParsedCommand ==
  ASSUME CInv, NEW w \in Threads, NEW cmds, Parsed(w, cmds)
  PROVE  /\ job[w] \in Jobs /\ call[w] \in CallStates /\ job[w].r.cmd \in cmds
         /\ Parsing(job[w], call[w], shown[w]) /\ Accepted(job[w].r) /\ ~job[w].r.missing
         /\ job[w].r \in Request /\ shown[w] \in Seq(Answers) /\ now \in 1 .. MaxTime
         /\ job[w].r.cmd \in KeyedCommands =>
              KeyOf(w) = job[w].r.keys[1] /\ KeyOf(w) \in Keys /\ 1 <= Len(job[w].r.keys)
         /\ job[w].r.cmd \in TimedCommands => job[w].r.exptime \in Nat
<1>1. /\ job[w] \in Jobs /\ call[w] \in CallStates /\ job[w].r.cmd \in cmds
      /\ Parsing(job[w], call[w], shown[w])
  BY Stages, ZenonT(30) DEF Parsed, At
<1>2. Accepted(job[w].r) /\ ~job[w].r.missing
  BY DEF Parsed, Accepted, Req, Malformed
<1>3. shown[w] \in Seq(Answers) /\ now \in 1 .. MaxTime
  BY DEF CInv, Types
<1>4. job[w].r \in Request /\ job[w].n = 1
  BY <1>1, Zenon DEF Jobs, Parsing
<1>5. /\ job[w].r.keys \in Seq(Keys) /\ job[w].r.exptime \in Nat \cup {Invalid}
      /\ job[w].r.cmd \in KeyedCommands => job[w].r.keys # <<>>
  BY <1>2, <1>4 DEF Request, RequestFields
<1>6. job[w].r.cmd \in TimedCommands => job[w].r.exptime # Invalid
  BY <1>2 DEF Accepted, Malformed
<1>7. job[w].r.cmd \in KeyedCommands =>
        KeyOf(w) = job[w].r.keys[1] /\ KeyOf(w) \in Keys /\ 1 <= Len(job[w].r.keys)
  BY <1>4, <1>5 DEF KeyOf
<1> QED
  BY <1>1, <1>2, <1>3, <1>4, <1>5, <1>6, <1>7, ZenonT(30)

\* Nothing has been looked up yet.
LEMMA ListedNone ==
  ASSUME NEW r
  PROVE  Listed(<<>>, r, SubSeq(<<>>, 1, 0))
<1>1. SubSeq(<<>>, 1, 0) = <<>>
  OBVIOUS
<1> DEFINE none == <<>>
<1>2. none \in [DOMAIN none -> DOMAIN none] /\ DOMAIN none = {}
  OBVIOUS
<1> HIDE DEF none
<1>3. Listed(none, r, none)
  BY <1>2, Zenon DEF Listed
<1> QED
  BY <1>1, <1>3, Zenon DEF none

\* The command reads first.
LEMMA ReadBegins ==
  ASSUME CInv, NEW w \in Threads, NEW cmds, Parsed(w, cmds),
         cmds \subseteq {"get", "gets", "replace", "append", "prepend", "incr", "decr", "touch"},
         Call(w, "read", GetCall(w))
  PROVE  CInv'
<1> DEFINE j == job[w]
           c == GetCall(w)
<1>1. /\ j \in Jobs /\ j.r.cmd \in cmds /\ Parsing(j, call[w], shown[w]) /\ Accepted(j.r)
      /\ (j.r.cmd \in KeyedCommands =>
            KeyOf(w) = j.r.keys[1] /\ KeyOf(w) \in Keys /\ 1 <= Len(j.r.keys))
  BY ParsedCommand, ZenonT(30)
<1>2. j.r.cmd \in KeyedCommands
  BY <1>1, Zenon DEF KeyedCommands, StorageCommands
<1>3. NoValue \in Value /\ NoCas \in Nat
  BY Defaults, Zenon
<1>4. c \in EngineCalls /\ c.op = "get" /\ c.key = j.r.keys[1]
  BY <1>1, <1>2, <1>3, Zenon DEF GetCall, EngineCall, EngineCalls
<1>5. j.n = 1 /\ j.out = <<>> /\ j.trace = <<>>
  BY <1>1, Zenon DEF Parsing
<1> HIDE DEF c
<1>6. ASSUME NEW i \in Jobs, NEW p \in CallStates, SameCommand(i, j, "read"), p.c = c, p.phase = "open"
      PROVE  Reading(i, p)
  <2>1. i.stage = "read" /\ i.r = j.r /\ i.n = 1 /\ i.out = <<>> /\ i.trace = <<>> /\ i.at > 0
    BY <1>5, <1>6 DEF SameCommand
  <2>2. Recorded(p, i.trace, i.n)
    BY <1>6, <2>1, FirstCall, Zenon
  <2>3. Listed(i.out, i.r, SubSeq(i.trace, 1, i.n - 1))
    BY <2>1, ListedNone
  <2>4. i.n <= Len(i.r.keys) /\ p.c.op = "get" /\ p.c.key = i.r.keys[i.n] /\ Accepted(i.r)
    BY <1>1, <1>2, <1>4, <1>6, <2>1, Zenon
  <2>5. i.r.cmd \in {"get", "gets", "replace", "append", "prepend", "incr", "decr", "touch"}
    BY <1>1, <2>1, Zenon
  <2> QED
    BY <2>1, <2>2, <2>3, <2>4, <2>5, Zenon DEF Reading
<1>7. CarriesOn(j, "read", c, shown[w])
  BY <1>6, Zenon DEF CarriesOn
<1>8. c.op # "handleFlush"
  BY <1>4
<1> QED
  BY <1>1, <1>4, <1>7, <1>8, CallNext, Zenon DEF c

\* Times as they are handed to the engine.
LEMMA ExpTimeType ==
  ASSUME NEW r \in Request, r.exptime \in Nat, NEW at \in 1 .. MaxTime
  PROVE  expTime(r, at) \in Nat /\ r.exptime % UIntMod \in Nat
<1>1. r.exptime - at \in Int
  BY Numbers
<1>2. Wrap(r.exptime - at) \in Nat
  BY <1>1, WrapType
<1>3. UIntMod \in Nat /\ UIntMod > 0
  BY CommandsAssumption
<1> QED
  BY <1>2, <1>3 DEF expTime

\* set, add and cas store at once.
LEMMA StoreBegins ==
  ASSUME CInv, NEW w \in Threads, NEW cmd \in Direct, Parsed(w, {cmd}),
         NEW op, op = IF cmd = "add" THEN "add" ELSE "insert",
         NEW check, check = IF cmd = "cas" THEN shown[w][1].cas ELSE NoCas,
         Call(w, "stored", StoreCall(w, op, now, check))
  PROVE  CInv'
<1> DEFINE j == job[w]
           r == j.r
           last == shown[w]
           c == StoreCall(w, op, now, check)
<1>1. /\ j \in Jobs /\ r.cmd = cmd /\ Parsing(j, call[w], last) /\ Accepted(r) /\ r \in Request
      /\ last \in Seq(Answers) /\ now \in 1 .. MaxTime
      /\ (r.cmd \in KeyedCommands => KeyOf(w) \in Keys)
      /\ (r.cmd \in TimedCommands => r.exptime \in Nat)
  <2> DEFINE cmds == {cmd}
  <2>1. Parsed(w, cmds) /\ \A x \in cmds : x = cmd
    BY Zenon
  <2> HIDE DEF cmds
  <2> QED
    BY <2>1, ParsedCommand, ZenonT(30)
<1>2. r.cmd \in KeyedCommands /\ r.cmd \in TimedCommands /\ r.cmd \in StorageCommands
      /\ r.cmd \in {"set", "add", "cas", "replace"}
  BY <1>1, ZenonT(30) DEF KeyedCommands, TimedCommands, StorageCommands, Direct
<1>3. j.n = 1 /\ j.at = 0 /\ j.trace = <<>> /\ (r.cmd = "cas" => last # <<>>)
  BY <1>1 DEF Parsing
<1>4. check \in Nat
  <2>1. CASE cmd = "cas"
    <3>1. last[1] \in Answers
      <4>1. last \in Seq(Answers) /\ last # <<>>
        BY <1>1, <1>3, <2>1, Zenon
      <4> QED
        BY <4>1
    <3> QED
      BY <2>1, <3>1, Zenon DEF Answers
  <2>2. CASE cmd # "cas"
    BY <2>2, Defaults, Zenon
  <2> QED
    BY <2>1, <2>2
<1>5. Fields(w) \in Value /\ Fields(w) = [data |-> r.data, flags |-> r.flags]
  BY <1>1, ZenonT(30) DEF Fields, Req, Value, Request, RequestFields
<1>6. expTime(r, now) \in Nat
  BY <1>1, <1>2, ExpTimeType, Zenon
<1>7. /\ c \in EngineCalls /\ c.op = op /\ c.check = check /\ c.op # "handleFlush"
      /\ c.value = [data |-> r.data, flags |-> r.flags] /\ c.expiry = expTime(r, now)
  BY <1>1, <1>2, <1>4, <1>5, <1>6, Zenon DEF StoreCall, EngineCall, EngineCalls, Req
<1> HIDE DEF c
<1>8. ASSUME NEW i \in Jobs, NEW p \in CallStates, SameCommand(i, j, "stored"), p.c = c,
             p.phase = "open"
      PROVE  Storing(i, p, last)
  <2>1. i.stage = "stored" /\ i.r = r /\ i.n = 1 /\ i.trace = <<>> /\ i.at = now /\ i.at > 0
    BY <1>3, <1>8, Zenon DEF SameCommand
  <2>2. Recorded(p, i.trace, IF i.r.cmd \in Direct THEN 1 ELSE 2)
    BY <1>1, <1>8, <2>1, FirstCall, Zenon
  <2>3. ASSUME NEW read
        PROVE  /\ NewValue(r, read) = [data |-> r.data, flags |-> r.flags]
               /\ NewExpiry(r, read, now) = expTime(r, now)
               /\ Check(r, read, last) = check
    <3>1. cmd # "touch"
      BY DEF Direct
    <3>2. Check(r, read, last) = check
      BY <1>1, <3>1 DEF Check
    <3> QED
      BY <1>2, <3>2, Zenon DEF NewValue, NewExpiry
  <2>4. r.cmd \notin {"incr", "decr"} /\ r.cmd \in Direct
    BY <1>1, Zenon DEF Direct
  <2>5. p.c.op = IF r.cmd = "add" THEN "add" ELSE "insert"
    BY <1>1, <1>7, <1>8, ZenonT(30)
  <2> QED
    BY <1>1, <1>2, <1>3, <1>7, <1>8, <2>1, <2>2, <2>3, <2>4, <2>5, ZenonT(30) DEF Storing
<1>9. CarriesOn(j, "stored", c, last)
  BY <1>8, Zenon DEF CarriesOn
<1> QED
  BY <1>1, <1>7, <1>9, CallNext, Zenon DEF c

\* delete and flush_all make their only call.
LEMMA OtherBegins ==
  ASSUME CInv, NEW w \in Threads,
         \/ /\ Parsed(w, {"delete"})
            /\ Call(w, "deleted", EngineCall("delete", KeyOf(w), NoValue, 0, NoCas))
         \/ /\ Parsed(w, {"flush_all"})
            /\ Call(w, "set", EngineCall("setFlush", AnyKey, NoValue, Req(w).exptime % UIntMod, NoCas))
  PROVE  CInv'
<1> DEFINE j == job[w]
<1>1. NoValue \in Value /\ NoCas \in Nat /\ AnyKey \in Keys
  BY Defaults, Zenon
<1>2. CASE /\ Parsed(w, {"delete"})
           /\ Call(w, "deleted", EngineCall("delete", KeyOf(w), NoValue, 0, NoCas))
  <2> DEFINE c == EngineCall("delete", KeyOf(w), NoValue, 0, NoCas)
  <2>1. /\ j \in Jobs /\ j.r.cmd = "delete" /\ Parsing(j, call[w], shown[w])
        /\ (j.r.cmd \in KeyedCommands => KeyOf(w) \in Keys)
    <3> DEFINE cmds == {"delete"}
    <3>1. Parsed(w, cmds) /\ \A x \in cmds : x = "delete"
      BY <1>2, Zenon
    <3> HIDE DEF cmds
    <3> QED
      BY <3>1, ParsedCommand, ZenonT(30)
  <2>2. c \in EngineCalls /\ c.op = "delete"
    BY <1>1, <2>1, Zenon DEF EngineCall, EngineCalls, KeyedCommands
  <2> HIDE DEF c
  <2>3. ASSUME NEW i \in Jobs, NEW p \in CallStates, SameCommand(i, j, "deleted"), p.c = c,
               p.phase = "open"
        PROVE  Deleting(i, p)
    <3>1. i.n = 1 /\ i.trace = <<>>
      BY <2>1, <2>3, Zenon DEF SameCommand, Parsing
    <3> QED
      BY <2>1, <2>2, <2>3, <3>1, FirstCall, Zenon DEF Deleting, SameCommand
  <2>4. CarriesOn(j, "deleted", c, shown[w])
    BY <2>3, Zenon DEF CarriesOn
  <2>5. c.op # "handleFlush"
    BY <2>2
  <2> QED
    BY <1>2, <2>1, <2>2, <2>4, <2>5, CallNext, Zenon DEF c
<1>3. CASE /\ Parsed(w, {"flush_all"})
           /\ Call(w, "set", EngineCall("setFlush", AnyKey, NoValue, Req(w).exptime % UIntMod, NoCas))
  <2> DEFINE c == EngineCall("setFlush", AnyKey, NoValue, Req(w).exptime % UIntMod, NoCas)
  <2>1. /\ j \in Jobs /\ j.r.cmd = "flush_all" /\ Parsing(j, call[w], shown[w])
        /\ j.r \in Request /\ now \in 1 .. MaxTime
        /\ (j.r.cmd \in TimedCommands => j.r.exptime \in Nat)
    <3> DEFINE cmds == {"flush_all"}
    <3>1. Parsed(w, cmds) /\ \A x \in cmds : x = "flush_all"
      BY <1>3, Zenon
    <3> HIDE DEF cmds
    <3> QED
      BY <3>1, ParsedCommand, ZenonT(30)
  <2>2. j.r.exptime % UIntMod \in Nat
    BY <2>1, ExpTimeType, Zenon DEF TimedCommands
  <2>3. c \in EngineCalls /\ c.op = "setFlush"
    BY <1>1, <2>2, Zenon DEF EngineCall, EngineCalls, Req
  <2> HIDE DEF c
  <2>4. ASSUME NEW i \in Jobs, NEW p \in CallStates, SameCommand(i, j, "set"), p.c = c,
               p.phase = "open"
        PROVE  Flushing(i, p)
    BY <2>1, <2>3, <2>4, ZenonT(30) DEF Flushing, SameCommand, Parsing
  <2>5. CarriesOn(j, "set", c, shown[w])
    BY <2>4, Zenon DEF CarriesOn
  <2>6. c.op # "handleFlush"
    BY <2>3
  <2> QED
    BY <1>3, <2>1, <2>3, <2>5, <2>6, CallNext, Zenon DEF c
<1> QED
  BY <1>2, <1>3

\* dbHandleFlushAll as an engine call.
LEMMA HandleFlushType ==
  HandleFlush \in EngineCalls /\ HandleFlush.op = "handleFlush"
<1>1. NoValue \in Value /\ NoCas \in Nat /\ AnyKey \in Keys
  BY Defaults, Zenon
<1> QED
  BY <1>1 DEF HandleFlush, EngineCall, EngineCalls

\* A request arrives.
LEMMA StartStep ==
  ASSUME CInv, NEW w \in Threads, script # <<>>, NEW r \in Head(script), Start(w, r)
  PROVE  CInv'
<1> DEFINE i == [stage |-> "parsed", r |-> r, n |-> 1, out |-> <<>>, at |-> 0,
                 whole |-> FALSE, trace |-> <<>>]
<1>1. script \in Seq(SUBSET Request)
  BY DEF CInv, Types
<1>2. Tail(script) \in Seq(SUBSET Request) /\ r \in Request
  BY <1>1
<1>3. 0 \in 0 .. MaxTime
  BY Numbers
<1>4. i \in Jobs /\ i.stage = "parsed" /\ i.r = r /\ i.n = 1 /\ i.out = <<>> /\ i.at = 0
      /\ i.trace = <<>>
  BY <1>2, <1>3 DEF Jobs
<1>5. /\ job' = [job EXCEPT ![w] = i] /\ Begin(w, HandleFlush) /\ sent' = Nothing
      /\ UNCHANGED <<shown, draws, running>> /\ script' = Tail(script)
      /\ (r.cmd = "cas" => shown[w] # <<>>)
  BY Zenon DEF Start
<1> HIDE DEF i
<1>6. \A p \in CallStates :
        /\ p.c = HandleFlush /\ p.phase \in {"open", "closed"} /\ p.cur = now
        /\ HandleFlush.op # "handleFlush" => p.phase = "open"
        => Worker(i, p, shown[w])
  BY <1>4, <1>5, HandleFlushType, Zenon DEF Worker, Parsing
<1> QED
  BY <1>2, <1>4, <1>5, <1>6, HandleFlushType, CallStep, Zenon

\* Data is missing.
LEMMA NeedMoreStep ==
  ASSUME CInv, NEW w \in Threads, NeedMore(w)
  PROVE  CInv'
<1> DEFINE j == job[w]
           i == [j EXCEPT !.whole = TRUE]
<1>1. job \in [Threads -> Jobs \cup {NoJob}] /\ script \in Seq(SUBSET Request)
  BY DEF CInv, Types
<1>2. j \in Jobs /\ Parsing(j, call[w], shown[w])
  BY ParsedCommand DEF NeedMore
<1>3. i \in Jobs /\ i.stage = j.stage /\ i.r = j.r /\ i.n = j.n /\ i.out = j.out /\ i.at = j.at
      /\ i.trace = j.trace
  BY <1>2, ZenonT(30) DEF Jobs
<1>4. j # NoJob
  BY <1>2, JobIsSome, Zenon
<1>5. /\ job' = [job EXCEPT ![w] = i] /\ Begin(w, HandleFlush) /\ sent' = Nothing
      /\ UNCHANGED <<shown, draws, running>> /\ script' \in Seq(SUBSET Request)
  BY <1>1, ZenonT(30) DEF NeedMore
<1> HIDE DEF i
<1>6. \A p \in CallStates :
        /\ p.c = HandleFlush /\ p.phase \in {"open", "closed"} /\ p.cur = now
        /\ HandleFlush.op # "handleFlush" => p.phase = "open"
        => Worker(i, p, shown[w])
  BY <1>2, <1>3, HandleFlushType, ZenonT(30) DEF Worker, Parsing
<1> QED
  BY <1>3, <1>4, <1>5, <1>6, HandleFlushType, CallStep, ZenonT(30)

-----------------------------------------------------------------------------
(* The answer, once its calls have returned *)

\* An answer without elements.
LEMMA EmptyAnswer ==
  <<>> \in Seq(Answers) /\ DOMAIN <<>> = {}
OBVIOUS

\* An answer before any call but a flush.
LEMMA FirstAnswer ==
  ASSUME CInv, NEW w \in Threads, call[w].phase = "closed", job[w].stage \in {"parsed", "set"},
         NEW text \in {"none", "ERROR", "CLIENT_ERROR", "OK", "VERSION", "END"},
         job[w].r.cmd \in {"get", "gets"} => text # "END", Send(w, text, <<>>)
  PROVE  CInv'
<1>1. job[w] \in Jobs /\ job[w].trace = <<>>
  BY Stages, ZenonT(30) DEF Parsing, Flushing
<1> DEFINE s == [r |-> Req(w), reply |-> text, found |-> <<>>, seen |-> shown[w],
                 at |-> job[w].at, trace |-> job[w].trace]
<1>2. sent' = s /\ s.trace = <<>> /\ s.reply = text /\ s.r = job[w].r
  BY <1>1, ZenonT(30) DEF Send, Req
<1> HIDE DEF s
<1>3. Answered'
  BY <1>2, AnswerFirst, ZenonT(30)
<1> QED
  BY <1>1, <1>3, EmptyAnswer, SendStep, ZenonT(30)

\* The request is not understood.
LEMMA RefuseStep ==
  ASSUME CInv, NEW w \in Threads, Refuse(w)
  PROVE  CInv'
<1>1. CASE Terminate
  BY <1>1, TerminateStep
<1>2. CASE Send(w, "ERROR", <<>>) \/ Send(w, "CLIENT_ERROR", <<>>)
  BY <1>2, FirstAnswer, Zenon DEF Refuse
<1> QED
  BY <1>1, <1>2 DEF Refuse

\* flush_all, verbosity, version, stats and quit answer.
LEMMA ShortAnswers ==
  ASSUME CInv, NEW w \in Threads,
         \/ At(w, {"flush_all"}, "set") /\ Answer(w, "OK")
         \/ cmdProcessVerbosity(w) \/ cmdProcessVersion(w) \/ cmdProcessStats(w)
         \/ cmdProcessQuit(w)
  PROVE  CInv'
<1>1. PICK text \in {"none", "OK", "VERSION", "END"} :
        /\ call[w].phase = "closed" /\ job[w].stage \in {"parsed", "set"}
        /\ job[w].r.cmd \notin {"get", "gets"} /\ Send(w, text, <<>>)
  BY Zenon DEF At, Answer, cmdProcessVerbosity, cmdProcessVersion, cmdProcessStats, cmdProcessQuit, Parsed
<1> QED
  BY <1>1, FirstAnswer, Zenon

\* The read of a command has returned.
LEMMA ReadReturned ==
  ASSUME CInv, NEW w \in Threads, call[w].phase = "closed", job[w].stage = "read"
  PROVE  /\ job[w] \in Jobs /\ call[w] \in CallStates /\ Reading(job[w], call[w])
         /\ Len(job[w].trace) = job[w].n /\ call[w].c.op = "get"
         /\ job[w].trace \in Seq(Entries) /\ job[w].trace[job[w].n] \in Entries
         /\ Outcome(call[w], job[w].trace[job[w].n])
         /\ GetOutcome(call[w], job[w].trace[job[w].n])
<1>1. job[w] \in Jobs /\ call[w] \in CallStates /\ Reading(job[w], call[w])
  BY Stages, Zenon
<1>2. Recorded(call[w], job[w].trace, job[w].n) /\ call[w].c.op = "get"
  BY <1>1, Zenon DEF Reading
<1>3. Len(job[w].trace) = job[w].n /\ Outcome(call[w], job[w].trace[job[w].n])
  BY <1>2, Zenon DEF Recorded
<1>4. job[w].trace \in Seq(Entries) /\ job[w].n \in Nat \ {0}
  BY <1>1 DEF Jobs
<1>5. job[w].trace[job[w].n] \in Entries
  BY <1>3, <1>4
<1>6. GetOutcome(call[w], job[w].trace[job[w].n])
  BY <1>2, <1>3, Zenon DEF Outcome
<1> QED
  BY <1>1, <1>2, <1>3, <1>4, <1>5, <1>6, ZenonT(30)

\* The commands that go on to a store.
Updating == {"replace", "append", "prepend", "incr", "decr", "touch"}

\* The element is not there, or incr by 0.
LEMMA ReadRefused ==
  ASSUME CInv, NEW w \in Threads, call[w].phase = "closed", job[w].stage = "read",
         job[w].r.cmd \in Updating,
         NEW text \in {"none", "NOT_FOUND", "NOT_STORED", "CLIENT_ERROR"},
         text \in {"NOT_FOUND", "NOT_STORED"} => Failed(w), Send(w, text, <<>>)
  PROVE  CInv'
<1> DEFINE s == [r |-> Req(w), reply |-> text, found |-> <<>>, seen |-> shown[w],
                 at |-> job[w].at, trace |-> job[w].trace]
           q == call[w]
<1>1. /\ job[w] \in Jobs /\ Reading(job[w], call[w]) /\ q.c.op = "get"
      /\ Len(job[w].trace) = job[w].n /\ Outcome(q, job[w].trace[job[w].n])
  BY ReadReturned
<1>2. job[w].n = 1
  BY <1>1, Zenon DEF Reading, Updating
<1>3. sent' = s /\ s.trace = job[w].trace /\ s.reply = text /\ s.r = job[w].r
  BY <1>1, Zenon DEF Send, Req
<1>4. text \in {"NOT_FOUND", "NOT_STORED"} => q.status # "SUCCESS"
  BY Zenon DEF Failed
<1> HIDE DEF s, q
<1>5. Answered'
  BY <1>1, <1>2, <1>3, <1>4, AnswerRead, Zenon DEF Updating
<1> QED
  BY <1>1, <1>5, EmptyAnswer, SendStep, ZenonT(30)

\* What it is going to store, given what it has read.
Planned(j, last, v, exp, check) ==
  /\ v \in Value /\ exp \in Nat /\ check \in Nat
  /\ v = NewValue(j.r, j.trace[1])
  /\ exp = NewExpiry(j.r, j.trace[1], j.at)
  /\ check = Check(j.r, j.trace[1], last)
  /\ j.r.cmd \in {"incr", "decr"} =>
       Throws \notin {stoul(j.r.data), stoul(j.trace[1].before[1].value.data)}

\* The element is there, and the command stores what it makes of it.
LEMMA ReadThenStore ==
  ASSUME CInv, NEW w \in Threads, NEW cmd \in Updating, HasRead(w, {cmd}),
         NEW v, NEW exp, NEW check, Planned(job[w], shown[w], v, exp, check),
         Call(w, "stored", EngineCall("insert", KeyOf(w), v, exp, check))
  PROVE  CInv'
<1> DEFINE j == job[w]
           read == j.trace[1]
           c == EngineCall("insert", KeyOf(w), v, exp, check)
<1>1. /\ j \in Jobs /\ Reading(j, call[w]) /\ Len(j.trace) = j.n /\ j.trace \in Seq(Entries)
      /\ GetOutcome(call[w], j.trace[j.n])
  BY ReadReturned, Zenon DEF HasRead, At
<1>2. j.r.cmd \in Updating /\ call[w].status = "SUCCESS"
  BY Zenon DEF HasRead, At, Failed
<1>3. j.n = 1 /\ Accepted(j.r) /\ j.at > 0 /\ 1 <= Len(j.r.keys)
  BY <1>1, <1>2, Zenon DEF Reading, Updating
<1>4. /\ Visible(read.before, read.cur) /\ read.after # <<>> /\ read.after[1] = read.before[1]
  BY <1>1, <1>2, <1>3, Zenon DEF GetOutcome
<1>5. KeyOf(w) \in Keys
  <2>1. j.r.keys \in Seq(Keys)
    BY <1>1, Zenon DEF Jobs, Request, RequestFields
  <2>2. j.r.keys[1] \in Keys
    BY <1>3, <2>1, FirstKey, Zenon
  <2> QED
    BY <1>3, <2>2, Zenon DEF KeyOf
<1>6. c \in EngineCalls /\ c.op = "insert" /\ c.value = v /\ c.expiry = exp /\ c.check = check
  BY <1>5, Zenon DEF EngineCall, EngineCalls, Planned
<1> HIDE DEF c, j
<1>7. ASSUME NEW i \in Jobs, NEW p \in CallStates, SameCommand(i, j, "stored"), p.c = c,
             p.phase = "open"
      PROVE  Storing(i, p, shown[w])
  <2>1. i.stage = "stored" /\ i.r = j.r /\ i.n = 1 /\ i.trace = j.trace /\ i.at = j.at /\ i.at > 0
    BY <1>3, <1>7, PositiveAt, Zenon DEF SameCommand
  <2>2. i.r.cmd \notin Direct /\ i.r.cmd \notin {"add", "cas"}
        /\ i.r.cmd \in StorageCommands \cup {"incr", "decr", "touch"}
    BY <1>2, <2>1, Zenon DEF Direct, Updating, StorageCommands
  <2>3. Recorded(p, i.trace, 2) /\ i.trace # <<>>
    BY <1>1, <1>3, <1>7, <2>1, SecondCall, Zenon
  <2>4. /\ p.c.value = NewValue(i.r, i.trace[1]) /\ p.c.expiry = NewExpiry(i.r, i.trace[1], i.at)
        /\ p.c.check = Check(i.r, i.trace[1], shown[w])
        /\ i.r.cmd \in {"incr", "decr"} =>
             Throws \notin {stoul(i.r.data), stoul(i.trace[1].before[1].value.data)}
    BY <1>6, <1>7, <2>1, ZenonT(30) DEF Planned, j
  <2>5. p.c.op = "insert" /\ p.phase = "open" /\ Accepted(i.r) /\ Visible(i.trace[1].before, i.trace[1].cur)
        /\ i.trace[1].after # <<>> /\ i.trace[1].after[1] = i.trace[1].before[1]
    BY <1>3, <1>4, <1>6, <1>7, <2>1, Zenon
  <2> QED
    BY <2>1, <2>2, <2>3, <2>4, <2>5, ZenonT(30) DEF Storing
<1>8. CarriesOn(j, "stored", c, shown[w])
  BY <1>7, Zenon DEF CarriesOn
<1>9. c.op # "handleFlush"
  BY <1>6
<1> QED
  BY <1>1, <1>6, <1>8, <1>9, CallNext, Zenon DEF c, j

\* What a command that goes on to a store knows of the element.
LEMMA WhatWasRead ==
  ASSUME CInv, NEW w \in Threads, NEW cmd \in Updating, HasRead(w, {cmd})
  PROVE  LET read == job[w].trace[1]
             old == read.before[1]
         IN /\ job[w].r \in Request /\ job[w].r.cmd = cmd /\ Accepted(job[w].r)
            /\ job[w].at \in 1 .. MaxTime
            /\ value(w) = old.value /\ cas(w) = old.cas
            /\ expiry(w) = Wrap(old.expiry - read.cur)
            /\ value(w) \in Value /\ cas(w) \in Nat /\ expiry(w) \in Nat
<1> DEFINE j == job[w]
           read == j.trace[1]
           old == read.before[1]
           left == Wrap(old.expiry - read.cur)
           got == <<old.value, old.cas, left>>
<1>1. /\ j \in Jobs /\ Reading(j, call[w])
      /\ j.trace[j.n] \in Entries /\ GetOutcome(call[w], j.trace[j.n])
  BY ReadReturned, Zenon DEF HasRead, At
<1>2. j.r.cmd = cmd /\ call[w].status = "SUCCESS"
  BY Zenon DEF HasRead, At, Failed
<1>3. j.n = 1 /\ Accepted(j.r) /\ j.at > 0
  BY <1>1, <1>2, Zenon DEF Reading, Updating
<1>4. read \in Entries /\ Visible(read.before, read.cur) /\ call[w].got = got
  BY <1>1, <1>2, <1>3, Zenon DEF GetOutcome
<1>5. j.r \in Request /\ j.at \in 0 .. MaxTime
  BY <1>1, ZenonT(30) DEF Jobs
<1>6. read.before \in Element \X BOOLEAN /\ read.cur \in 1 .. MaxTime
  BY <1>4, ZenonT(30) DEF Entries, Views, Visible
<1>7. old \in Element
  BY <1>6, Zenon
<1>9. left \in Nat
  BY <1>6, <1>7, SecondsLeft, Zenon
<1>10. old.value \in Value /\ old.cas \in Nat
  BY <1>7, Zenon DEF Element
<1> HIDE DEF left
<1>11. value(w) = old.value /\ cas(w) = old.cas /\ expiry(w) = left
  <2>1. call[w].got[1] = old.value /\ call[w].got[2] = old.cas /\ call[w].got[3] = left
    <3>1. call[w].got = <<old.value, old.cas, left>>
      BY <1>4, Zenon
    <3> HIDE DEF old
    <3> QED
      BY <3>1, Triple
  <2> QED
    BY <2>1, Zenon DEF value, cas, expiry
<1>12. j.at \in 1 .. MaxTime
  BY <1>3, <1>5, Numbers
<1> QED
  BY <1>2, <1>3, <1>5, <1>9, <1>10, <1>11, <1>12, Zenon DEF left

\* A value with new data.
LEMMA NewData ==
  ASSUME NEW v \in Value, NEW d \in Seq(0 .. Letter)
  PROVE  /\ [v EXCEPT !.data = d] = [data |-> d, flags |-> v.flags]
         /\ [v EXCEPT !.data = d] \in Value
BY DEF Value

\* The plan of replace.
LEMMA PlanReplace ==
  ASSUME CInv, NEW w \in Threads, HasRead(w, {"replace"})
  PROVE  Planned(job[w], shown[w], Fields(w), expTime(Req(w), job[w].at), NoCas)
<1> DEFINE j == job[w]
           r == j.r
           read == j.trace[1]
           last == shown[w]
           old == read.before[1]
<1>1. r \in Request /\ r.cmd = "replace" /\ Accepted(r) /\ j.at \in 1 .. MaxTime
  BY WhatWasRead, Zenon DEF Updating
<1>2. r.exptime \in Nat /\ r.data \in Seq(0 .. Letter) /\ r.flags \in Flags
  BY <1>1, Zenon DEF Accepted, Malformed, TimedCommands, StorageCommands, Request, RequestFields
<1>3. expTime(r, j.at) \in Nat
  BY <1>1, <1>2, ExpTimeType
<1>4. NewValue(r, read) = Fields(w) /\ Fields(w) \in Value
  BY <1>1, <1>2 DEF NewValue, Fields, Req, Value
<1>5. NewExpiry(r, read, j.at) = expTime(r, j.at) /\ Check(r, read, last) = NoCas
  BY <1>1 DEF NewExpiry, Check
<1>6. NoCas \in Nat
  BY Defaults, Zenon
<1> QED
  BY <1>1, <1>3, <1>4, <1>5, <1>6, Zenon DEF Planned, Req

\* The plan of append.
LEMMA PlanAppend ==
  ASSUME CInv, NEW w \in Threads, HasRead(w, {"append"})
  PROVE  Planned(job[w], shown[w], [value(w) EXCEPT !.data = Joined(w)], expiry(w), NoCas)
<1> DEFINE j == job[w]
           r == j.r
           read == j.trace[1]
           last == shown[w]
           old == read.before[1]
           v == [value(w) EXCEPT !.data = Joined(w)]
           d == old.value.data \o r.data
<1>1. /\ r \in Request /\ r.cmd = "append" /\ value(w) = old.value /\ value(w) \in Value
      /\ expiry(w) = Wrap(old.expiry - read.cur) /\ expiry(w) \in Nat
  BY WhatWasRead, Zenon DEF Updating
<1>2. r.data \in Seq(0 .. Letter) /\ old.value.data \in Seq(0 .. Letter)
  BY <1>1, ZenonT(30) DEF Request, RequestFields, Value
<1>3. v = [value(w) EXCEPT !.data = d]
  BY <1>1, ZenonT(30) DEF Joined, Req
<1>4. d \in Seq(0 .. Letter)
  BY <1>2
<1> HIDE DEF d
<1>5. v = [data |-> d, flags |-> old.value.flags] /\ v \in Value
  BY <1>1, <1>3, <1>4, NewData, Zenon
<1> HIDE DEF v
<1>6. NewValue(r, read) = v
  BY <1>1, <1>5, ZenonT(30) DEF NewValue, d
<1>7. NewExpiry(r, read, j.at) = expiry(w) /\ Check(r, read, last) = NoCas
  BY <1>1 DEF NewExpiry, Check
<1>8. NoCas \in Nat
  BY Defaults, Zenon
<1>9. Planned(j, last, v, expiry(w), NoCas)
  BY <1>1, <1>5, <1>6, <1>7, <1>8, Zenon DEF Planned
<1> QED
  BY <1>9 DEF v

\* The plan of prepend.
LEMMA PlanPrepend ==
  ASSUME CInv, NEW w \in Threads, HasRead(w, {"prepend"})
  PROVE  Planned(job[w], shown[w], [value(w) EXCEPT !.data = Req(w).data \o @], expiry(w), NoCas)
<1> DEFINE j == job[w]
           r == j.r
           read == j.trace[1]
           last == shown[w]
           old == read.before[1]
           v == [value(w) EXCEPT !.data = Req(w).data \o @]
           d == r.data \o old.value.data
<1>1. /\ r \in Request /\ r.cmd = "prepend" /\ value(w) = old.value /\ value(w) \in Value
      /\ expiry(w) = Wrap(old.expiry - read.cur) /\ expiry(w) \in Nat
  BY WhatWasRead, Zenon DEF Updating
<1>2. r.data \in Seq(0 .. Letter) /\ old.value.data \in Seq(0 .. Letter)
  BY <1>1, ZenonT(30) DEF Request, RequestFields, Value
<1>3. v = [value(w) EXCEPT !.data = d]
  BY <1>1, ZenonT(30) DEF Req
<1>4. d \in Seq(0 .. Letter)
  BY <1>2
<1> HIDE DEF d
<1>5. v = [data |-> d, flags |-> old.value.flags] /\ v \in Value
  BY <1>1, <1>3, <1>4, NewData, Zenon
<1> HIDE DEF v
<1>6. NewValue(r, read) = v
  BY <1>1, <1>5, ZenonT(30) DEF NewValue, d
<1>7. NewExpiry(r, read, j.at) = expiry(w) /\ Check(r, read, last) = NoCas
  BY <1>1 DEF NewExpiry, Check
<1>8. NoCas \in Nat
  BY Defaults, Zenon
<1>9. Planned(j, last, v, expiry(w), NoCas)
  BY <1>1, <1>5, <1>6, <1>7, <1>8, ZenonT(30) DEF Planned
<1> QED
  BY <1>9 DEF v

\* The plan of touch.
LEMMA PlanTouch ==
  ASSUME CInv, NEW w \in Threads, HasRead(w, {"touch"})
  PROVE  Planned(job[w], shown[w], value(w), Req(w).exptime % UIntMod, touchCas(w))
<1> DEFINE j == job[w]
           r == j.r
           read == j.trace[1]
           last == shown[w]
           old == read.before[1]
<1>1. /\ r \in Request /\ r.cmd = "touch" /\ Accepted(r) /\ j.at \in 1 .. MaxTime
      /\ value(w) = old.value /\ value(w) \in Value /\ cas(w) = old.cas /\ cas(w) \in Nat
  BY WhatWasRead, Zenon DEF Updating
<1>2. r.exptime \in Nat
  BY <1>1, ZenonT(30) DEF Accepted, Malformed, TimedCommands, StorageCommands, Request, RequestFields
<1>3. r.exptime % UIntMod \in Nat
  BY <1>1, <1>2, ExpTimeType, ZenonT(30)
<1>4. /\ NewValue(r, read) = value(w) /\ NewExpiry(r, read, j.at) = r.exptime % UIntMod
      /\ Check(r, read, last) = cas(w)
  BY <1>1 DEF NewValue, NewExpiry, Check
<1> QED
  BY <1>1, <1>3, <1>4, Zenon DEF Planned, Req, touchCas
=============================================================================
