-------------------------------- MODULE Cache --------------------------------
(***************************************************************************)
(* What the storage engine (src/src/dblru.cpp) promises the command layer: *)
(* each call takes effect at one moment between its start and its return,  *)
(* and its result is the outcome of that moment.  Stores may evict any     *)
(* element before they take effect, or give up.                            *)
(*                                                                         *)
(* A flush is not one moment.  It hides what is stored when its stamp is   *)
(* published, but for the elements that calls which overlap it store or    *)
(* read (spared), and it also catches calls in progress (late).  Stamps,   *)
(* eviction order, mutexes and sizes are left out.                         *)
(***************************************************************************)
EXTENDS Integers, Functions

CONSTANTS
  Threads,    \* worker threads that call the engine
  Keys,
  Values,
  CasTokens,
  NoCas,      \* the empty casUniq string
  WordMod,    \* 2^w, w the width of unsigned long
  MaxTime     \* bound on the clock

\* Parameters of a call; check is casUniq.
CallParameters == [op: {"insert", "add", "get", "delete", "setFlush", "handleFlush"},
                   key: Keys, value: Values, expiry: Nat, check: CasTokens]

VARIABLES
  map,              \* key -> [value, expiry, cas]
  hidden,           \* keys of map whose element has been flushed
  late,             \* calls whose element or read a flush has overtaken
  spared,           \* per flush in progress, the keys it will not hide
  gIsFlushAllSet,
  gFlushAllTime,
  now,              \* what time() returns
  call              \* per thread, its call and how far it has come

content == <<map, hidden, spared>>
flushState == <<gIsFlushAllSet, gFlushAllTime>>
vars == <<content, late, flushState, now, call>>

NoCall == [phase |-> "idle"]

\* unsigned long arithmetic
Wrap(n) == n % WordMod
ULONG_MAX == WordMod - 1

Key(t) == call[t].c.key
Open(t, ops) == call[t].phase = "open" /\ call[t].c.op \in ops
Close(t, status, got) ==
  /\ call' = [call EXCEPT ![t] = [@ EXCEPT !.phase = "closed", !.status = status, !.got = got]]
  /\ late' = late \ {t}
  /\ UNCHANGED <<flushState, now>>

Stored(k) == k \in DOMAIN map

\* Variant: flushes are forgotten.
ExpiredByTimeOnly(k, cur) == map[k].expiry < cur

Expired(k, cur) == map[k].expiry < cur \/ k \in hidden

Put(k, e) == [j \in DOMAIN map \cup {k} |-> IF j = k THEN e ELSE map[j]]
Erase(k) ==
  /\ map' = Restrict(map, DOMAIN map \ {k})
  /\ hidden' = hidden \ {k}
  /\ spared' = [u \in Threads |-> spared[u] \ {k}]

\* The element of k takes t's timestamp: a flush that overtook t hides it, and any
\* flush in progress may be going to spare it.
Renew(t, k) ==
  /\ hidden' = IF t \in late THEN hidden \cup {k} ELSE hidden \ {k}
  /\ \E U \in SUBSET {u \in Threads : call[u].phase = "due"} :
       spared' = [u \in Threads |-> IF u \in U THEN spared[u] \cup {k} ELSE spared[u] \ {k}]

-----------------------------------------------------------------------------
(* Start and return.  dbSetFlushAll raises the flag and dbHandleFlushAll tests  *)
(* it before anything else.                                                     *)

Begin(t, c) ==
  /\ call[t].phase \in {"idle", "closed"}
  /\ call' = [call EXCEPT ![t] =
                [phase |-> IF c.op = "handleFlush" /\ ~gIsFlushAllSet THEN "closed" ELSE "open",
                 c |-> c, cur |-> now, status |-> "none", got |-> <<>>]]
  /\ gIsFlushAllSet' = (gIsFlushAllSet \/ c.op = "setFlush")
  /\ UNCHANGED <<content, late, gFlushAllTime, now>>

Return(t) ==
  /\ call[t].phase = "closed"
  /\ call' = [call EXCEPT ![t] = NoCall]
  /\ UNCHANGED <<content, late, flushState, now>>

-----------------------------------------------------------------------------
(* dbInsertElement and dbAddElement; tok is the cas token they draw *)

\* A new element without an expiry time never expires.
Create(t, tok) ==
  LET c == call[t].c
  IN /\ map' = Put(c.key, [value |-> c.value, cas |-> tok,
                           expiry |-> IF c.expiry # 0 THEN Wrap(call[t].cur + c.expiry)
                                                      ELSE ULONG_MAX])
     /\ Renew(t, c.key)

\* The expiry is set even if there is none, and the timestamp stays.
Overwrite(t, tok) ==
  LET c == call[t].c
  IN /\ map' = Put(c.key, [value |-> c.value, cas |-> tok,
                           expiry |-> Wrap(call[t].cur + c.expiry)])
     /\ UNCHANGED <<hidden, spared>>

Insert(t, tok) ==
  /\ Open(t, {"insert"})
  /\ LET k == Key(t)
         check == call[t].c.check
     IN \/ ~Stored(k) /\ check = NoCas /\ Create(t, tok) /\ Close(t, "SUCCESS", <<>>)
        \/ ~Stored(k) /\ check # NoCas /\ UNCHANGED content /\ Close(t, "NOT_EXIST", <<>>)
        \/ /\ Stored(k) /\ check \in {NoCas, map[k].cas}
           /\ Overwrite(t, tok) /\ Close(t, "SUCCESS", <<>>)
        \/ /\ Stored(k) /\ check \notin {NoCas, map[k].cas}
           /\ UNCHANGED content /\ Close(t, "EXIST", <<>>)

Add(t, tok) ==
  /\ Open(t, {"add"})
  /\ LET k == Key(t)
     IN \/ ~Stored(k) /\ Create(t, tok) /\ Close(t, "SUCCESS", <<>>)
        \/ /\ Stored(k) /\ Expired(k, call[t].cur)
           /\ Overwrite(t, tok) /\ Close(t, "SUCCESS", <<>>)
        \/ /\ Stored(k) /\ ~Expired(k, call[t].cur)
           /\ UNCHANGED content /\ Close(t, "EXIST", <<>>)

\* A store makes room, or fails to.
Evict(t, k) ==
  /\ Open(t, {"insert", "add"})
  /\ Stored(k)
  /\ Erase(k)
  /\ UNCHANGED <<late, flushState, now, call>>

Full(t) ==
  /\ Open(t, {"insert", "add"})
  /\ UNCHANGED content
  /\ Close(t, "MEMORY_FULL", <<>>)

-----------------------------------------------------------------------------
(* dbGetElement and dbDeleteElement *)

Get(t) ==
  /\ Open(t, {"get"})
  /\ LET k == Key(t)
         cur == call[t].cur
     IN \/ ~Stored(k) /\ UNCHANGED content /\ Close(t, "NOT_EXIST", <<>>)
        \/ Stored(k) /\ Expired(k, cur) /\ Erase(k) /\ Close(t, "NOT_EXIST", <<>>)
        \/ /\ Stored(k) /\ ~Expired(k, cur)
           /\ UNCHANGED map
           /\ Renew(t, k)
           /\ Close(t, "SUCCESS", <<map[k].value, map[k].cas, Wrap(map[k].expiry - cur)>>)

Delete(t) ==
  /\ Open(t, {"delete"})
  /\ LET k == Key(t)
         gone == Stored(k) => Expired(k, call[t].cur)
     IN \/ gone /\ UNCHANGED content /\ Close(t, "NOT_EXIST", <<>>)
        \/ ~gone /\ call[t].c.expiry = 0 /\ Erase(k) /\ Close(t, "SUCCESS", <<>>)

\* No command asks for it.
DeleteLater(t) ==
  /\ Open(t, {"delete"})
  /\ LET k == Key(t)
         expiry == Wrap(call[t].cur + call[t].c.expiry)
     IN /\ Stored(k) /\ ~Expired(k, call[t].cur) /\ call[t].c.expiry # 0
        /\ map' = Put(k, [map[k] EXCEPT !.expiry = expiry])
        /\ UNCHANGED <<hidden, spared>>
        /\ Close(t, "SUCCESS", <<>>)

-----------------------------------------------------------------------------
(* dbSetFlushAll and dbHandleFlushAll *)

SetFlush(t) ==
  /\ Open(t, {"setFlush"})
  /\ gFlushAllTime' = Wrap(now + call[t].c.expiry)
  /\ call' = [call EXCEPT ![t].phase = "closed"]
  /\ UNCHANGED <<content, late, gIsFlushAllSet, now>>

FlushTest(t) ==
  /\ Open(t, {"handleFlush"})
  /\ call' = [call EXCEPT ![t].phase = IF gFlushAllTime <= now THEN "due" ELSE "closed"]
  /\ UNCHANGED <<content, late, flushState, now>>

\* The flush is published.  It may reveal what a later flush had hidden.
FlushStore(t) ==
  /\ call[t].phase = "due"
  /\ hidden' = DOMAIN map \ spared[t]
  /\ spared' = [spared EXCEPT ![t] = {}]
  /\ \E L \in SUBSET {u \in Threads : Open(u, {"insert", "add", "get"})} : late' = L
  /\ call' = [call EXCEPT ![t].phase = "clear"]
  /\ UNCHANGED <<map, flushState, now>>

FlushClear(t) ==
  /\ call[t].phase = "clear"
  /\ gIsFlushAllSet' = FALSE
  /\ call' = [call EXCEPT ![t].phase = "closed"]
  /\ UNCHANGED <<content, late, gFlushAllTime, now>>

-----------------------------------------------------------------------------

Tick ==
  /\ now < MaxTime
  /\ now' = now + 1
  /\ UNCHANGED <<content, late, flushState, call>>

InitAt(time) ==
  /\ map = [k \in {} |-> 0]
  /\ hidden = {}
  /\ late = {}
  /\ spared = [t \in Threads |-> {}]
  /\ gIsFlushAllSet = FALSE
  /\ gFlushAllTime = 0
  /\ now = time
  /\ call = [t \in Threads |-> NoCall]

Init == now \in Nat /\ InitAt(now)

Store(t, tok) == Insert(t, tok) \/ Add(t, tok)
Read(t) == Get(t) \/ Delete(t)
Flush(t) == SetFlush(t) \/ FlushTest(t) \/ FlushStore(t) \/ FlushClear(t)

\* The token that a store of t has drawn.
Drawn(t) == IF Key(t) \in DOMAIN map' THEN map'[Key(t)].cas ELSE NoCas

\* Any call may begin, and a store may draw any token: \E c \in CallParameters and
\* \E tok \in CasTokens, with the witness named so that the formula can be evaluated.
\* (What a step changes is said first: TLC then tells a stutter quickly.)
Next ==
  \/ Tick
  \/ \E t \in Threads, k \in Keys : Stored(k) /\ k \notin DOMAIN map' /\ Evict(t, k)
  \/ \E t \in Threads :
       /\ call'[t] # call[t]
       /\ IF call'[t].phase = "idle" THEN Return(t)
          ELSE \/ call'[t].c \in CallParameters /\ Begin(t, call'[t].c)
               \/ Store(t, Drawn(t)) /\ Drawn(t) \in CasTokens
               \/ Full(t) \/ Read(t) \/ DeleteLater(t) \/ Flush(t)

Spec == Init /\ [][Next]_vars
===============================================================================
