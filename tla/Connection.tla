------------------------------ MODULE Connection ------------------------------
(***************************************************************************)
(* How a worker cuts the byte stream of one connection into requests:      *)
(* sockHandleIncomingConn (src/src/ssock.cpp) with the return value of     *)
(* cmdProcessCommand (src/src/scmd.cpp), which says whether a request is   *)
(* complete.                                                               *)
(*                                                                         *)
(* A request line is a command byte, a byte for its arguments, CR and LF;  *)
(* the command byte of a storage command also stands for the length it     *)
(* announces.  recv may return any part of what the client has sent.       *)
(* unsigned int and size_t have their widths: find returns npos of the     *)
(* wider type, and pos is of the narrower.                                 *)
(***************************************************************************)
EXTENDS Integers, Sequences, Functions

CONSTANTS
  Bytes,      \* the number of data bytes each storage command announces
  Queries,    \* commands with arguments and no data (get, delete, incr, ...)
  Streams,    \* the sequences of requests clients send
  BufferLen,  \* sizeof(buffer)
  UIntMod,    \* 2^w, w the width of unsigned int
  SizeMod     \* 2^w, w the width of size_t

CR == "CR"
LF == "LF"
CRLF == <<CR, LF>>
QUIT == "quit"     \* a command without arguments, hence without a space

StorageCommands == DOMAIN Bytes
Commands == StorageCommands \cup Queries \cup {QUIT}
ERROR == [command |-> "ERROR", data |-> <<>>]

\* What clients send: the commands above, storage commands with as many bytes of
\* data as they announce.
IsRequest(r) ==
  /\ r \in [command: Commands, data: Seq(Range(r.data))]
  /\ Len(r.data) = IF r.command \in StorageCommands THEN Bytes[r.command] ELSE 0

ASSUME CommandsAssumption ==
  /\ \A c \in StorageCommands : Bytes[c] \in 0 .. UIntMod - 1
  /\ Commands \cap {CR, LF} = {}
  /\ \A s \in Streams : s \in Seq(Range(s)) /\ \A r \in Range(s) : IsRequest(r)
ASSUME WidthsAssumption ==
  {BufferLen, UIntMod, SizeMod} \subseteq Nat \ {0} /\ SizeMod % UIntMod = 0

VARIABLES
  sent,            \* the requests of the client
  wire,            \* bytes of theirs that recv has not returned
  gone,            \* has the client closed its end?
  data,            \* the request being put together
  persistentData,  \* bytes received beyond it
  pos,             \* where its last end of line begins
  readMore,        \* bytes that are missing, as far as is known
  persistFlag,     \* does data hold bytes of persistentData not yet counted?
  pc,              \* "fill", "scan" or "closed"
  handled          \* the requests processed, as cmdProcessCommand saw them

client == <<sent, wire, gone>>
locals == <<data, persistentData, pos, readMore, persistFlag>>
vars == <<client, locals, pc, handled>>

-----------------------------------------------------------------------------
(* Streams *)

Encode(r) == <<r.command, ".">> \o CRLF
             \o (IF r.command \in StorageCommands THEN r.data \o CRLF ELSE <<>>)
\* The sequences of q one after the other.
Joined(q) ==
  LET upto[n \in 1 .. Len(q)] == IF n = 1 THEN q[n] ELSE upto[n - 1] \o q[n]
  IN IF q = <<>> THEN <<>> ELSE upto[Len(q)]
EncodeAll(rs) == Joined([i \in DOMAIN rs |-> Encode(rs[i])])
Alphabet == UNION {Range(EncodeAll(rs)) : rs \in Streams}

-----------------------------------------------------------------------------
(* Strings and integers *)

UInt(n) == n % UIntMod
Int32(n) == ((n + UIntMod \div 2) % UIntMod) - UIntMod \div 2
npos == SizeMod - 1

IsEndl(s, i) == s[i] = CR /\ s[i + 1] = LF

\* s.find("\r\n", from), with positions counted from 0.
Find(s, from) ==
  LET I == {i \in from .. Len(s) - 2 : IsEndl(s, i + 1)}
  IN IF I = {} THEN npos ELSE CHOOSE i \in I : \A j \in I : i <= j

EndsWithEndl(s) == Len(s) >= 2 /\ IsEndl(s, Len(s) - 1)

-----------------------------------------------------------------------------
(* cmdProcessCommand *)

\* The command word ends at the first space.  Without one, find gives npos, the
\* word should end at the end of the line, and does if unsigned int can hold npos.
Known(line) == /\ line[1] \in Commands
               /\ line[1] = QUIT => UInt(npos) = npos

\* Variant: one byte of the end of line is taken for data.
BodyEarly(line) == SubSeq(line, Find(line, 0) + 2, Len(line))

\* What follows the command line in the input.
Body(line) == SubSeq(line, Find(line, 0) + 3, Len(line))

Smaller(m, n) == IF m < n THEN m ELSE n
Larger(m, n) == IF m < n THEN n ELSE m

\* Variants: the bytes already there are not taken off; one byte too few will do.
MissingAll(line) ==
  LET n == Bytes[line[1]]
  IN IF Len(Body(line)) < n THEN n + 2 ELSE 0
MissingShort(line) ==
  LET n == Bytes[line[1]]
      size == Smaller(n, Len(Body(line)))
  IN IF size + 1 < n THEN n + 2 - size ELSE 0

\* cmdProcessCommon: how many bytes to read before the command can be carried out.
cmdProcessCommon(line) ==
  LET n == Bytes[line[1]]
      size == Smaller(n, Len(Body(line)))
  IN IF size < n THEN Int32(n + 2 - size) ELSE 0

\* (A number of bytes that an int cannot hold would be taken for one that is there.)
cmdProcessCommand(line) ==
  IF ~Known(line) THEN 0
  ELSE IF line[1] \in StorageCommands THEN Larger(0, cmdProcessCommon(line))
  ELSE IF line[1] = QUIT THEN -1
  ELSE 0

\* The request a complete line is taken for.
Request(line) ==
  IF ~Known(line) THEN ERROR
  ELSE [command |-> line[1],
        data |-> IF line[1] \in StorageCommands THEN
                   SubSeq(Body(line), 1, Smaller(Bytes[line[1]], Len(Body(line))))
                 ELSE <<>>]

-----------------------------------------------------------------------------
(* The loop: get bytes, then look for the end of the request *)

\* Variant: what is left over is only used for a new request.
ReuseForNew ==
  /\ pc = "fill"
  /\ persistentData # <<>>
  /\ data = <<>>
  /\ data' = persistentData
  /\ persistentData' = <<>>
  /\ persistFlag' = TRUE
  /\ pc' = "scan"
  /\ UNCHANGED <<client, pos, readMore, handled>>

\* Bytes left over from the last recv come before new ones.
Reuse ==
  /\ pc = "fill"
  /\ persistentData # <<>>
  /\ data' = data \o persistentData
  /\ persistentData' = <<>>
  /\ persistFlag' = TRUE
  /\ pc' = "scan"
  /\ UNCHANGED <<client, pos, readMore, handled>>

Receive(rc) ==
  /\ pc = "fill"
  /\ persistentData = <<>>
  /\ rc <= Len(wire)
  /\ data' = data \o SubSeq(wire, 1, rc)
  /\ wire' = SubSeq(wire, rc + 1, Len(wire))
  /\ readMore' = Int32(readMore - rc)
  /\ pc' = "scan"
  /\ UNCHANGED <<sent, gone, persistentData, pos, persistFlag, handled>>

\* recv returns 0 at the end of the stream, or fails: the connection is closed.
Lost ==
  /\ pc = "fill"
  /\ persistentData = <<>>
  /\ gone
  /\ pc' = "closed"
  /\ UNCHANGED <<client, locals, handled>>

\* Expressions of the loop body.
oldPos == UInt(pos + 2)
found == UInt(Find(data, oldPos))
cut == UInt(found + 2)
line == SubSeq(data, 1, cut)
rest == SubSeq(data, cut + 1, Len(data))

missing == IF persistFlag THEN Int32(readMore - UInt(found - oldPos + 2)) ELSE readMore

\* "Cannot find an endline, have to read more from the input stream"
NoEndl ==
  /\ pc = "scan"
  /\ found = npos
  /\ pos' = UInt(oldPos - 2)
  /\ pc' = "fill"
  /\ UNCHANGED <<client, data, persistentData, readMore, persistFlag, handled>>

\* Variant: what follows the line is dropped.
CutDrops ==
  /\ pc = "scan"
  /\ found # npos
  /\ persistentData' = <<>>
  /\ persistFlag' = FALSE

\* The line is cut off; the bytes behind it are kept for later.
Cut ==
  /\ pc = "scan"
  /\ found # npos
  /\ persistentData' = rest
  /\ persistFlag' = FALSE

\* Is cmdProcessCommand called?
Tried == missing <= 0 /\ EndsWithEndl(line)

\* The request needs more bytes: as known before, because no end of line was
\* reached, or because cmdProcessCommand says so now.
GoOn ==
  /\ Cut
  /\ Tried => cmdProcessCommand(line) > 0
  /\ readMore' = IF Tried THEN cmdProcessCommand(line) ELSE missing
  /\ data' = line
  /\ pos' = found
  /\ pc' = "fill"
  /\ UNCHANGED <<client, handled>>

\* The request is processed and answered.
Process ==
  /\ Cut
  /\ Tried
  /\ cmdProcessCommand(line) = 0
  /\ handled' = Append(handled, Request(line))
  /\ data' = <<>>
  /\ pos' = 0
  /\ readMore' = 0
  /\ pc' = "fill"
  /\ UNCHANGED client

Quit ==
  /\ Cut
  /\ Tried
  /\ cmdProcessCommand(line) < 0
  /\ readMore' = -1
  /\ data' = line
  /\ pos' = found
  /\ pc' = "closed"
  /\ UNCHANGED <<client, handled>>

\* The client goes away.  Lost may come before all of wire has been received: the
\* rest was never sent, or was dropped when the connection was reset.
Hangup ==
  /\ ~gone
  /\ gone' = TRUE
  /\ UNCHANGED <<sent, wire, locals, pc, handled>>

Init ==
  /\ sent \in Streams
  /\ wire = EncodeAll(sent)
  /\ gone = FALSE
  /\ data = <<>>
  /\ persistentData = <<>>
  /\ pos = 0
  /\ readMore = 0
  /\ persistFlag = FALSE
  /\ pc = "fill"
  /\ handled = <<>>

sockHandleIncomingConn ==
  \/ Reuse \/ (\E rc \in 1 .. BufferLen : Receive(rc)) \/ Lost
  \/ NoEndl \/ GoOn \/ Process \/ Quit

Next == sockHandleIncomingConn \/ Hangup

Spec == Init /\ [][Next]_vars

\* The worker that serves the connection keeps running.
FairSpec == Spec /\ WF_vars(sockHandleIncomingConn)
-----------------------------------------------------------------------------
(* Properties *)

\* The variables keep their types.  readMore stays far from the ends of an int, and
\* a storage command is carried out only with all of the data it announces
\* (src/src/scmd.cpp, lines 163-169).
TypeOK ==
  /\ sent \in Streams
  /\ gone \in BOOLEAN
  /\ persistFlag \in BOOLEAN
  /\ pos \in 0 .. UIntMod - 1
  /\ readMore \in -(UIntMod \div 4) .. UIntMod \div 4
  /\ pc \in {"fill", "scan", "closed"}
  /\ {wire, data, persistentData} \subseteq Seq(Alphabet)
  /\ \A i \in DOMAIN handled :
       \/ handled[i] = ERROR
       \/ /\ handled[i].command \in StorageCommands
          /\ Len(handled[i].data) = Bytes[handled[i].command]
       \/ handled[i] \in [command: Queries, data: {<<>>}]

\* A storage request whose data is empty, or ends with an end of line: its last end
\* of line can be left behind and be taken for the start of the next request.
Detached(r) == r.command \in StorageCommands /\ (r.data = <<>> \/ EndsWithEndl(r.data))

\* How many requests are sent up to and including the first detached one.
Clear == IF \E i \in DOMAIN sent : Detached(sent[i])
         THEN CHOOSE i \in DOMAIN sent : /\ Detached(sent[i])
                                          /\ \A j \in 1 .. i - 1 : ~Detached(sent[j])
         ELSE Len(sent)

\* The requests processed are the requests sent, in their order and with their
\* data, whatever part of them each recv returns (lines 54-142): up to the first
\* one with empty data or data that ends with an end of line.
HandledAsSent ==
  \A i \in 1 .. Smaller(Len(handled), Clear) : handled[i] = sent[i]

Begins(s, t) == Len(s) <= Len(t) /\ SubSeq(t, 1, Len(s)) = s

\* No byte is dropped, doubled or moved between data and persistentData (lines
\* 54-104): what was processed, what is held and what has not arrived make up
\* what the client sent.
NothingLost ==
  Clear = Len(sent) /\ ~(\E i \in DOMAIN sent : Detached(sent[i])) =>
    Begins(EncodeAll(handled) \o data \o persistentData \o wire, EncodeAll(sent))

\* While it waits in recv for the rest of a request, the worker does not count on
\* more bytes than the client has left to send (readMore, lines 88, 106 and 123):
\* it would wait for ever.
NeverAsksTooMuch ==
  (pc = "fill" /\ persistentData = <<>> /\ Clear = Len(sent)) =>
    readMore - (IF persistFlag THEN Len(data) - (pos + 2) ELSE 0) <= Len(wire)

\* Every request that is sent in full is processed in the end, however recv cuts
\* the stream, unless the client goes away or the framing was lost.
EveryRequestHandled ==
  <>(gone \/ pc = "closed" \/ handled = sent \/ \E i \in DOMAIN sent : Detached(sent[i]))
===============================================================================
