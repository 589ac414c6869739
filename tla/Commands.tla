------------------------------- MODULE Commands -------------------------------
(***************************************************************************)
(* The command layer (src/src/scmd.cpp) on top of what the storage engine  *)
(* promises (Cache): each handler is a sequence of engine calls, and those *)
(* of different workers interleave.                                        *)
(*                                                                         *)
(* A request is a record of its fields; that a field is missing or is not  *)
(* what it should be is part of it.  A string of data is a sequence of     *)
(* digits to the base Base and of Letter, which stands for anything else.  *)
(***************************************************************************)
EXTENDS Cache, Sequences

CONSTANTS
  Base,        \* base of the decimal system
  Threshold,   \* EXPIRY_THRESHOLD
  UIntMod,     \* 2^w, w the width of unsigned int
  StartTime,   \* what time() returns first
  Scripts,     \* what clients may send: sequences of sets, one request from each
  MayEvict     \* may stores evict, or run out of memory?

Letter == Base
Invalid == -1   \* a number field that is not a number
Flags == {0, 1}

\* cmd: command word; keys: its keys; data, flags, exptime: its fields (data also
\* the amount of incr and decr, exptime also the delay of flush_all and the level
\* of verbosity); tail: what follows them (of a storage command also the number of
\* bytes); missing: do they end before the time, the amount or the key?; bare: is
\* the command word all there is?
StorageCommands == {"set", "add", "replace", "append", "prepend", "cas"}
TimedCommands == StorageCommands \cup {"touch", "flush_all", "verbosity"}
KeyedCommands == StorageCommands \cup {"touch", "get", "gets", "delete", "incr", "decr"}
RequestFields ==
  [cmd: KeyedCommands \cup {"flush_all", "verbosity", "version", "stats", "quit", "unknown"},
   keys: Seq(Keys), data: Seq(0 .. Letter), flags: Flags, exptime: Nat \cup {Invalid},
   tail: {"none", "noreply", "junk"}, missing: BOOLEAN, bare: BOOLEAN]
Request == {r \in RequestFields : r.cmd \in KeyedCommands /\ r.keys = <<>> => r.missing}

\* What is stored: a string and its flags.
Value == [data: Seq(0 .. Letter), flags: Flags]

\* Times fit in a word, and none is 0.
ASSUME CommandsAssumption ==
  /\ Base \in Nat \ {0, 1}
  /\ {WordMod, UIntMod, Threshold, MaxTime} \subseteq Nat
  /\ StartTime \in 1 .. MaxTime
  /\ Threshold < UIntMod /\ MaxTime + Threshold < WordMod
  /\ Scripts \subseteq Seq(SUBSET Request)
  /\ Keys # {} /\ NoCas = 0 /\ MayEvict \in BOOLEAN

VARIABLES
  job,       \* per worker, the request it works on and how far it has come
  shown,     \* per worker, what its client's last gets was answered with
  sent,      \* the answer given by the last step, if it gave one (history)
  script,    \* what clients are still going to send
  draws,     \* number of cas tokens drawn so far
  running    \* has no exception ended the process?

cvars == <<vars, job, shown, sent, script, draws, running>>

-----------------------------------------------------------------------------
(* Numbers and strings *)

\* stoul: the number that a string begins with, or an exception.
Throws == -1
stoul(s) ==
  LET n == CHOOSE n \in 0 .. Len(s) : /\ \A i \in 1 .. n : s[i] # Letter
                                      /\ n < Len(s) => s[n + 1] = Letter
      value[i \in 0 .. n] == IF i = 0 THEN 0 ELSE value[i - 1] * Base + s[i]
  IN IF n = 0 \/ value[n] >= WordMod THEN Throws ELSE value[n]

to_string(n) ==
  LET digits[m \in 0 .. n] == IF m < Base THEN <<m>> ELSE Append(digits[m \div Base], m % Base)
  IN digits[n]

-----------------------------------------------------------------------------
(* Requests *)

noreply(r) == r.tail = "noreply"

\* What is answered with CLIENT_ERROR before anything else is done.  version, stats
\* and quit take nothing, not even a space.  append and prepend are parsed without
\* flags and time first, and again with them when that fails.
Malformed(r) ==
  \/ r.missing
  \/ r.cmd \in TimedCommands /\ r.exptime = Invalid
  \/ r.cmd \in {"version", "stats", "quit"} /\ ~r.bare

\* Found after the time was converted.  What follows the fields of incr, decr, touch
\* and verbosity may be anything, and of get and gets all is keys.
Junk(r) == r.cmd \in StorageCommands \cup {"delete", "flush_all"} /\ r.tail = "junk"

\* stoul(expTimeStr): out_of_range is not caught.
OutOfRange(r) == r.cmd \in TimedCommands /\ r.exptime >= WordMod

\* Without a space, find gives npos, and the command word is recognised only if
\* unsigned int can hold that.
Unknown(r) == r.cmd = "unknown" \/ (r.bare /\ UIntMod # WordMod)

\* Variant: the difference is signed.
expTimeSigned(r, cur) == IF r.exptime > Threshold THEN r.exptime - cur ELSE r.exptime

\* Variant: absolute times are taken for relative ones.
expTimeRelative(r, cur) == r.exptime

\* Expiry times above the threshold are absolute.
expTime(r, cur) == IF r.exptime > Threshold THEN Wrap(r.exptime - cur) ELSE r.exptime

AnyKey == CHOOSE k \in Keys : TRUE
NoValue == [data |-> <<>>, flags |-> 0]

EngineCall(op, k, v, expiry, check) ==
  [op |-> op, key |-> k, value |-> v, expiry |-> expiry, check |-> check]
EngineCalls == [op: {"insert", "add", "get", "delete", "setFlush", "handleFlush"},
                key: Keys, value: Value, expiry: Nat, check: Nat]

-----------------------------------------------------------------------------
(* Handlers: a call has returned, and its result decides what is next *)

NoJob == [stage |-> "none"]
Nothing == [r |-> [cmd |-> "none"], reply |-> "none", found |-> <<>>, seen |-> <<>>, at |-> 0,
            trace |-> <<>>]

At(w, cmds, stage) ==
  /\ running
  /\ job[w].stage = stage
  /\ job[w].r.cmd \in cmds
  /\ call[w].phase = "closed"

Req(w) == job[w].r
Parsed(w, cmds) == /\ At(w, cmds, "parsed")
                   /\ ~Unknown(Req(w)) /\ ~Malformed(Req(w))
                   /\ ~OutOfRange(Req(w)) /\ ~Junk(Req(w))

KeyOf(w) == job[w].r.keys[job[w].n]
Failed(w) == call[w].status # "SUCCESS"
Full_or(w, text) == IF call[w].status = "MEMORY_FULL" THEN "SERVER_ERROR" ELSE text

\* What dbGetElement returned.
value(w) == call[w].got[1]
cas(w) == call[w].got[2]
expiry(w) == call[w].got[3]

Call(w, stage, c) ==
  /\ Begin(w, c)
  /\ job' = [job EXCEPT ![w].stage = stage, ![w].whole = TRUE,
                        ![w].at = IF @ = 0 THEN now ELSE @]
  /\ sent' = Nothing
  /\ UNCHANGED <<shown, script, draws, running>>

Send(w, text, found) ==
  /\ Return(w)
  /\ sent' = [r |-> Req(w), reply |-> text, found |-> found, seen |-> shown[w],
              at |-> job[w].at, trace |-> job[w].trace]
  /\ shown' = IF Req(w).cmd = "gets" THEN [shown EXCEPT ![w] = found] ELSE shown
  /\ job' = [job EXCEPT ![w] = NoJob]
  /\ UNCHANGED <<script, draws, running>>

\* An answer that noreply suppresses ("none": nothing is sent).
Answer(w, text) == Send(w, IF noreply(Req(w)) THEN "none" ELSE text, <<>>)

\* An exception that nothing catches ends the process.
Terminate ==
  /\ running' = FALSE
  /\ sent' = Nothing
  /\ UNCHANGED <<vars, job, shown, script, draws>>

GetCall(w) == EngineCall("get", KeyOf(w), NoValue, 0, NoCas)

\* The fields of a storage command; its time was converted when it was parsed.
Fields(w) == [data |-> Req(w).data, flags |-> Req(w).flags]
StoreCall(w, op, parsedAt, check) ==
  EngineCall(op, KeyOf(w), Fields(w), expTime(Req(w), parsedAt), check)

cmdProcessSet(w) ==
  \/ Parsed(w, {"set"}) /\ Call(w, "stored", StoreCall(w, "insert", now, NoCas))
  \/ At(w, {"set"}, "stored") /\ Answer(w, Full_or(w, "STORED"))

cmdProcessAdd(w) ==
  \/ Parsed(w, {"add"}) /\ Call(w, "stored", StoreCall(w, "add", now, NoCas))
  \/ /\ At(w, {"add"}, "stored")
     /\ Answer(w, Full_or(w, IF call[w].status = "EXIST" THEN "NOT_STORED" ELSE "STORED"))

\* Variant: the token is left out.
ClientTokenDropped(w) == NoCas

\* The client sends the token it got from its last gets.
ClientToken(w) == shown[w][1].cas

cmdProcessCas(w) ==
  \/ Parsed(w, {"cas"}) /\ Call(w, "stored", StoreCall(w, "insert", now, ClientToken(w)))
  \/ /\ At(w, {"cas"}, "stored")
     /\ Answer(w, Full_or(w, CASE call[w].status = "EXIST" -> "EXISTS"
                               [] call[w].status = "NOT_EXIST" -> "NOT_FOUND"
                               [] OTHER -> "STORED"))

\* Commands that read the element first, and their second call.
ReadFirst(w, cmds, refusal) ==
  \/ Parsed(w, cmds) /\ Call(w, "read", GetCall(w))
  \/ At(w, cmds, "read") /\ Failed(w) /\ Answer(w, refusal)

HasRead(w, cmds) == At(w, cmds, "read") /\ ~Failed(w)

ThenStore(w, cmds, v, exp, check) ==
  /\ HasRead(w, cmds)
  /\ Call(w, "stored", EngineCall("insert", KeyOf(w), v, exp, check))

cmdProcessReplace(w) ==
  \/ ReadFirst(w, {"replace"}, "NOT_STORED")
  \/ ThenStore(w, {"replace"}, Fields(w), expTime(Req(w), job[w].at), NoCas)
  \/ At(w, {"replace"}, "stored") /\ Answer(w, Full_or(w, "STORED"))

\* Variant: the new data comes first.
JoinedBackwards(w) == Req(w).data \o value(w).data

\* value.append(store.data)
Joined(w) == value(w).data \o Req(w).data

cmdProcessAppend(w) ==
  \/ ReadFirst(w, {"append"}, "NOT_STORED")
  \/ ThenStore(w, {"append"}, [value(w) EXCEPT !.data = Joined(w)], expiry(w), NoCas)
  \/ At(w, {"append"}, "stored") /\ Answer(w, Full_or(w, "STORED"))

cmdProcessPrepend(w) ==
  \/ ReadFirst(w, {"prepend"}, "NOT_STORED")
  \/ ThenStore(w, {"prepend"}, [value(w) EXCEPT !.data = Req(w).data \o @], expiry(w), NoCas)
  \/ At(w, {"prepend"}, "stored") /\ Answer(w, Full_or(w, "STORED"))

\* incr and decr: the result is written back in digits, and is the answer.
Amount(w) == stoul(Req(w).data)
Old(w) == stoul(value(w).data)

Counter(w, cmds, new) ==
  \/ ReadFirst(w, cmds, "NOT_FOUND")
  \/ HasRead(w, cmds) /\ Throws \in {Amount(w), Old(w)} /\ Terminate
  \/ /\ HasRead(w, cmds) /\ Throws \notin {Amount(w), Old(w)}
     /\ IF Amount(w) = 0 /\ ~noreply(Req(w))
        THEN Send(w, "CLIENT_ERROR", <<>>)
        ELSE ThenStore(w, cmds, [value(w) EXCEPT !.data = to_string(new)], expiry(w), NoCas)
  \/ /\ At(w, cmds, "stored")
     /\ IF call[w].status # "MEMORY_FULL" /\ ~noreply(Req(w))
        THEN Send(w, "NUMBER", <<call[w].c.value.data>>)
        ELSE Answer(w, "SERVER_ERROR")

cmdProcessIncr(w) == Counter(w, {"incr"}, Wrap(Amount(w) + Old(w)))

\* Variant: what is below zero wraps round.
DifferenceWraps(w) == Wrap(Old(w) - Amount(w))

Difference(w) == IF Old(w) <= Amount(w) THEN 0 ELSE Old(w) - Amount(w)

cmdProcessDecr(w) == Counter(w, {"decr"}, Difference(w))

\* Variant: touch stores whatever the element is by now.
touchCasUnchecked(w) == NoCas

\* "Cas is not updated, but just checked against the prev value"
touchCas(w) == cas(w)

cmdProcessTouch(w) ==
  \/ ReadFirst(w, {"touch"}, "NOT_FOUND")
  \/ ThenStore(w, {"touch"}, value(w), Req(w).exptime % UIntMod, touchCas(w))
  \/ At(w, {"touch"}, "stored") /\ Answer(w, Full_or(w, "TOUCHED"))

\* One call for each key; what is not there is left out of the answer.
Found(w, withCas) ==
  IF Failed(w) THEN job[w].out
  ELSE Append(job[w].out, [key |-> KeyOf(w), value |-> value(w),
                           cas |-> IF withCas THEN cas(w) ELSE NoCas])

Retrieve(w, cmds, withCas) ==
  \/ Parsed(w, cmds) /\ Call(w, "read", GetCall(w))
  \/ /\ At(w, cmds, "read")
     /\ job[w].n < Len(Req(w).keys)
     /\ Begin(w, EngineCall("get", Req(w).keys[job[w].n + 1], NoValue, 0, NoCas))
     /\ job' = [job EXCEPT ![w].n = @ + 1, ![w].out = Found(w, withCas)]
     /\ sent' = Nothing
     /\ UNCHANGED <<shown, script, draws, running>>
  \/ /\ At(w, cmds, "read")
     /\ job[w].n = Len(Req(w).keys)
     /\ Send(w, "END", Found(w, withCas))

cmdProcessGet(w) == Retrieve(w, {"get"}, FALSE)
cmdProcessGets(w) == Retrieve(w, {"gets"}, TRUE)

cmdProcessDelete(w) ==
  \/ /\ Parsed(w, {"delete"})
     /\ Call(w, "deleted", EngineCall("delete", KeyOf(w), NoValue, 0, NoCas))
  \/ /\ At(w, {"delete"}, "deleted")
     /\ Answer(w, IF call[w].status = "NOT_EXIST" THEN "NOT_FOUND" ELSE "DELETED")

cmdProcessFlushAll(w) ==
  \/ /\ Parsed(w, {"flush_all"})
     /\ Call(w, "set", EngineCall("setFlush", AnyKey, NoValue, Req(w).exptime % UIntMod, NoCas))
  \/ At(w, {"flush_all"}, "set") /\ Answer(w, "OK")

\* The verbosity is not used.  All lines of stats but the last are overwritten.
cmdProcessVerbosity(w) == Parsed(w, {"verbosity"}) /\ Answer(w, "OK")
cmdProcessVersion(w) == Parsed(w, {"version"}) /\ Send(w, "VERSION", <<>>)
cmdProcessStats(w) == Parsed(w, {"stats"}) /\ Send(w, "END", <<>>)
cmdProcessQuit(w) == Parsed(w, {"quit"}) /\ Send(w, "none", <<>>)

-----------------------------------------------------------------------------
(* cmdProcessCommand *)

HandleFlush == EngineCall("handleFlush", AnyKey, NoValue, 0, NoCas)

\* A request arrives; dbHandleFlushAll comes first.
Start(w, r) ==
  /\ running
  /\ job[w] = NoJob
  /\ r.cmd = "cas" => shown[w] # <<>>
  /\ Begin(w, HandleFlush)
  /\ job' = [job EXCEPT ![w] = [stage |-> "parsed", r |-> r, n |-> 1, out |-> <<>>, at |-> 0,
                                whole |-> FALSE, trace |-> <<>>]]
  /\ script' = Tail(script)
  /\ sent' = Nothing
  /\ UNCHANGED <<shown, draws, running>>

\* cmdProcessCommon finds that data is missing.  When it has come, the command is
\* processed from the start.
NeedMore(w) ==
  /\ Parsed(w, StorageCommands)
  /\ ~job[w].whole /\ Req(w).data # <<>>
  /\ Begin(w, HandleFlush)
  /\ job' = [job EXCEPT ![w].whole = TRUE]
  /\ sent' = Nothing
  /\ UNCHANGED <<shown, script, draws, running>>

Refuse(w) ==
  /\ running /\ job[w].stage = "parsed" /\ call[w].phase = "closed"
  /\ IF Unknown(Req(w)) THEN Send(w, "ERROR", <<>>)
     ELSE IF Malformed(Req(w)) THEN Send(w, "CLIENT_ERROR", <<>>)
     ELSE IF OutOfRange(Req(w)) THEN Terminate
     ELSE Junk(Req(w)) /\ Send(w, "CLIENT_ERROR", <<>>)

cmdProcessCommand(w) ==
  \/ NeedMore(w) \/ Refuse(w)
  \/ cmdProcessSet(w) \/ cmdProcessAdd(w) \/ cmdProcessReplace(w) \/ cmdProcessAppend(w)
  \/ cmdProcessPrepend(w) \/ cmdProcessCas(w) \/ cmdProcessGet(w) \/ cmdProcessGets(w)
  \/ cmdProcessDelete(w) \/ cmdProcessIncr(w) \/ cmdProcessDecr(w) \/ cmdProcessTouch(w)
  \/ cmdProcessStats(w) \/ cmdProcessFlushAll(w) \/ cmdProcessVersion(w)
  \/ cmdProcessVerbosity(w) \/ cmdProcessQuit(w)

-----------------------------------------------------------------------------
(* The engine, with a history of what each call of a command met and left *)

View(k) == IF Stored(k) THEN <<map[k], k \in hidden>> ELSE <<>>

\* Cas tokens are taken to be distinct.
Effect(w) ==
  /\ \/ Store(w, draws + 1) /\ draws' = draws + 1
     \/ ((MayEvict /\ Full(w)) \/ Read(w)) /\ UNCHANGED draws
  /\ job' = [job EXCEPT ![w].trace = Append(@, [before |-> View(Key(w)), after |-> View(Key(w))',
                                                cur |-> call[w].cur])]

Engine(w) ==
  /\ running
  /\ \/ Effect(w)
     \/ (MayEvict /\ \E k \in Keys : Evict(w, k)) /\ UNCHANGED <<job, draws>>
     \/ Flush(w) /\ UNCHANGED <<job, draws>>
  /\ sent' = Nothing
  /\ UNCHANGED <<shown, script, running>>

Clock == running /\ Tick /\ sent' = Nothing /\ UNCHANGED <<job, shown, script, draws, running>>

CInit ==
  /\ InitAt(StartTime)
  /\ job = [w \in Threads |-> NoJob]
  /\ shown = [w \in Threads |-> <<>>]
  /\ sent = Nothing
  /\ script \in Scripts
  /\ draws = 0
  /\ running = TRUE

CNext ==
  \/ Clock
  \/ \E w \in Threads :
       \/ script # <<>> /\ \E r \in Head(script) : Start(w, r)
       \/ cmdProcessCommand(w)
       \/ Engine(w)

CSpec == CInit /\ [][CNext]_cvars

-----------------------------------------------------------------------------
(* Properties *)

\* Every engine call the handlers make is a legal one, with an unsigned expiry time
\* and a string made of characters, and a worker is in a call only for a request.
TypeOK ==
  /\ \A w \in Threads : /\ (job[w] = NoJob) = (call[w] = NoCall)
                         /\ job[w] # NoJob => /\ job[w].r \in Request
                                              /\ call[w].c \in EngineCalls
                                              /\ job[w].n \in 1 .. Len(job[w].r.keys) + 1
  /\ \A k \in DOMAIN map : /\ map[k].value \in Value
                            /\ map[k].expiry \in 0 .. ULONG_MAX
                            /\ map[k].cas \in 1 .. draws
  /\ running \in BOOLEAN

\* What a command met and left, at its i-th engine call.
Met(i) == sent.trace[i].before
Left(i) == sent.trace[i].after
CurOf(i) == sent.trace[i].cur
Visible(view, cur) == view # <<>> /\ ~view[2] /\ view[1].expiry >= cur

Cmd == sent.r.cmd
Calls == Len(sent.trace)
Changed == Calls > 0 /\ Left(Calls) # Met(Calls)

\* Did it store an element?
Wrote == /\ Calls > 0 /\ Left(Calls) # <<>>
         /\ Met(Calls) # <<>> => Met(Calls)[1] # Left(Calls)[1]

\* incr, decr, append and prepend read in one engine call and write in another.  If
\* nobody stored or deleted the element in between, the command does exactly its
\* update, keeps the flags, and answers the number it stored.  (If somebody did,
\* what they stored is lost: the second call does not check the token.)
UninterruptedIsAtomic ==
  /\ Cmd \in {"append", "prepend", "incr", "decr"}
  /\ Wrote /\ Met(2) # <<>> /\ Met(2)[1] = Left(1)[1]
  => LET old == Met(2)[1].value
         new == Left(2)[1].value
         arg == sent.r.data
     IN /\ new.flags = old.flags
        /\ Cmd = "append" => new.data = old.data \o arg
        /\ Cmd = "prepend" => new.data = arg \o old.data
        /\ Cmd = "incr" => stoul(new.data) = (stoul(old.data) + stoul(arg)) % WordMod
        /\ Cmd = "decr" => \/ stoul(new.data) + stoul(arg) = stoul(old.data)
                           \/ stoul(new.data) = 0 /\ stoul(old.data) < stoul(arg)
        /\ sent.reply = "NUMBER" => sent.found = <<new.data>>

\* touch also reads in one engine call and writes in another.  Whatever others do in
\* between, it changes no value and brings nothing back: it passes the token it read.
TouchKeepsValue ==
  Cmd = "touch" /\ Wrote
    => Met(2) # <<>> /\ Left(2)[1].value = Met(2)[1].value

\* A cas that a worker carries out after its client's gets replaces the very element
\* the client was shown, however many commands of others lie between the two.
CasReplacesWhatWasShown ==
  Cmd = "cas" /\ Wrote /\ sent.seen[1].key = sent.r.keys[1]
    => /\ Met(1) # <<>>
       /\ Met(1)[1].value = sent.seen[1].value
       /\ Met(1)[1].cas = sent.seen[1].cas

\* Does found list the elements that a get of r could see at the calls of trace, each
\* once and in their order?
Listed(found, r, trace) ==
  \E f \in [DOMAIN found -> DOMAIN trace] :
    /\ \A i, j \in DOMAIN found : i < j => f[i] < f[j]
    /\ \A i \in DOMAIN trace :
         Visible(trace[i].before, trace[i].cur) <=> \E j \in DOMAIN found : f[j] = i
    /\ \A j \in DOMAIN found :
         LET e == trace[f[j]].before[1]
         IN found[j] = [key |-> r.keys[f[j]], value |-> e.value,
                        cas |-> IF r.cmd = "gets" THEN e.cas ELSE NoCas]

\* The answer says what happened at the moment the engine call took effect: add stores
\* only what is not visible, delete removes only what is, a refused command changes
\* nothing visible, and get answers with the visible elements in the order asked for.
AnswersAreTrue ==
  LET reply == sent.reply
      first == Visible(Met(1), CurOf(1))
  IN /\ reply = "STORED" /\ Cmd \in {"set", "add", "cas", "replace"}
        => Left(Calls)[1].value = [data |-> sent.r.data, flags |-> sent.r.flags]
     /\ Cmd = "add" /\ reply = "STORED" => ~first
     /\ Cmd = "add" /\ reply = "NOT_STORED" => first /\ ~Changed
     /\ reply = "DELETED" => first /\ Left(1) = <<>>
     /\ reply \in {"EXISTS", "SERVER_ERROR"} => ~Changed
     /\ Cmd # "cas" /\ reply = "NOT_FOUND" => Calls = 1 /\ ~first
     /\ Cmd # "add" /\ reply = "NOT_STORED" => Calls = 1 /\ ~first
     /\ Cmd \in {"get", "gets"} /\ reply = "END"
        => Calls = Len(sent.r.keys) /\ Listed(sent.found, sent.r, sent.trace)

\* When an element expires.  A relative time counts from the second the engine call
\* starts.  An absolute one is met, later only by the seconds between parsing and
\* that call.  append, prepend, incr and decr keep the deadline, later by the seconds
\* between their read and their write, mod 2^w: this takes an element that never
\* expires past the end, and it is gone.  (Left out, because 0 seconds mean no time at
\* all to a store that creates the element and some time to one that overwrites it:
\* an absolute time equal to the current second, no time for a key that is there, and
\* an element read in its last second and deleted before it is written.)
ExpiryAsAsked ==
  Wrote =>
    LET n == Calls
        asked == sent.r.exptime
        is == Left(n)[1].expiry
    IN /\ Cmd \in {"set", "add", "cas", "replace"} =>
            /\ asked \in 1 .. Threshold => is = CurOf(n) + asked
            /\ asked > Threshold /\ asked # sent.at
               => is = (asked + CurOf(n) - sent.at) % WordMod
            /\ asked = 0 /\ Met(n) = <<>> => is = ULONG_MAX
       /\ Cmd = "touch" /\ asked <= Threshold => is = CurOf(n) + asked
       /\ Cmd \in {"append", "prepend", "incr", "decr"}
          /\ (Met(n) = <<>> => Met(1)[1].expiry # CurOf(1))
          => is = (Met(1)[1].expiry + CurOf(n) - CurOf(1)) % WordMod
=============================================================================
