---------------------------- MODULE ConnLifecycle ----------------------------
(***************************************************************************)
(* What the connection handling promises to a client: its connection is    *)
(* refused or admitted; an admitted one is handed, when it first becomes   *)
(* readable, to exactly one worker, which serves no other connection until *)
(* this one ends.  Connections are handed out in the order they became     *)
(* readable.                                                               *)
(***************************************************************************)
EXTENDS Naturals, Sequences

CONSTANTS Workers, Conns

VARIABLES
  up,      \* is the server running?
  phase,   \* where each connection is in its life
  ready,   \* connections that wait for a worker, oldest first
  server   \* per worker, the set of (at most one) connections it serves

vars == <<up, phase, ready, server>>

Init ==
  /\ up = TRUE
  /\ phase = [c \in Conns |-> "away"]
  /\ ready = <<>>
  /\ server = [w \in Workers |-> {}]

Move(c, from, to) == up /\ UNCHANGED up /\ phase[c] = from /\ phase' = [phase EXCEPT ![c] = to]

Arrive(c) == Move(c, "away", "pending") /\ UNCHANGED <<ready, server>>

Refuse(c) == Move(c, "pending", "away") /\ UNCHANGED <<ready, server>>

Admit(c) == Move(c, "pending", "open") /\ UNCHANGED <<ready, server>>

BecomeReady(c) ==
  /\ Move(c, "open", "ready")
  /\ ready' = Append(ready, c)
  /\ UNCHANGED server

Assign(c, w) ==
  /\ ready # <<>> /\ c = Head(ready)
  /\ server[w] = {}
  /\ Move(c, "ready", "served")
  /\ ready' = Tail(ready)
  /\ server' = [server EXCEPT ![w] = {c}]

End(c, w) ==
  /\ server[w] = {c}
  /\ Move(c, "served", "away")
  /\ server' = [server EXCEPT ![w] = {}]
  /\ UNCHANGED ready

\* The process ends.
Shutdown ==
  /\ up /\ up' = FALSE
  /\ phase' = [c \in Conns |-> "away"]
  /\ ready' = <<>>
  /\ server' = [w \in Workers |-> {}]

\* (Every step but Shutdown moves one connection; saying so first lets TLC
\* tell a stutter quickly.)
Next ==
  \/ \E c \in Conns : /\ phase'[c] # phase[c]
                      /\ \/ Arrive(c) \/ Refuse(c) \/ Admit(c) \/ BecomeReady(c)
                         \/ \E w \in Workers : Assign(c, w) \/ End(c, w)
  \/ Shutdown

Spec == Init /\ [][Next]_vars
==============================================================================
