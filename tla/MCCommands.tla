------------------------------ MODULE MCCommands ------------------------------
(***************************************************************************)
(* Commands for TLC.  Strings are binary, words have four bits, and both   *)
(* unsigned types have one width, as on x86.                               *)
(***************************************************************************)
EXTENDS Commands, TLC

CONSTANTS w1, w2, k1, k2

Tokens == Nat

Plain(cmd) == [cmd |-> cmd, keys |-> <<k1>>, data |-> <<1>>, flags |-> 0, exptime |-> 0,
               tail |-> "none", missing |-> FALSE, bare |-> FALSE]

\* First requests: values that are numbers, the largest one among them, or not, and
\* that never expire, at a time, or soon.
Stores == {[Plain("set") EXCEPT !.flags = 1],
           [Plain("set") EXCEPT !.data = <<1, 1, 1, 1>>, !.exptime = 6],
           [Plain("set") EXCEPT !.data = <<Letter>>, !.exptime = 1]}

Rivals ==
  {[Plain("set") EXCEPT !.exptime = 4], [Plain("add") EXCEPT !.exptime = 2, !.tail = "noreply"],
   Plain("append"), Plain("incr"), Plain("gets"), Plain("delete"),
   [Plain("touch") EXCEPT !.exptime = 1]}

Flushes == {Plain("flush_all"), [Plain("flush_all") EXCEPT !.exptime = 1, !.tail = "noreply"]}

Others ==
  {[Plain("set") EXCEPT !.data = <<>>], Plain("add"),
   [Plain("replace") EXCEPT !.exptime = 6], [Plain("prepend") EXCEPT !.data = <<0>>],
   [Plain("cas") EXCEPT !.data = <<0>>], [Plain("get") EXCEPT !.keys = <<k1, k2>>],
   [Plain("incr") EXCEPT !.data = <<0>>], [Plain("decr") EXCEPT !.data = <<0>>],
   [Plain("decr") EXCEPT !.data = <<1, 0>>]}

\* What does not reach the engine, or ends the process.
Errors ==
  {Plain("unknown"), Plain("verbosity"), [Plain("version") EXCEPT !.bare = TRUE],
   [Plain("stats") EXCEPT !.bare = TRUE], [Plain("quit") EXCEPT !.bare = TRUE],
   [Plain("quit") EXCEPT !.tail = "junk"], [Plain("get") EXCEPT !.missing = TRUE],
   [Plain("set") EXCEPT !.exptime = Invalid], [Plain("set") EXCEPT !.exptime = 16],
   [Plain("delete") EXCEPT !.tail = "junk"], [Plain("incr") EXCEPT !.data = <<Letter>>]}

\* A client reads, others change the element, and the client writes it.
Guarded == <<{Plain("set")}, {Plain("gets")}, Rivals, {[Plain("cas") EXCEPT !.data = <<0>>]}>>

Requests == {<<Stores, Rivals \cup Flushes, Rivals \cup Others \cup Errors>>, Guarded}

Symmetric == Permutations({w1, w2})
===============================================================================
