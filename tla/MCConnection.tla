----------------------------- MODULE MCConnection -----------------------------
(* Instances of Connection for TLC. *)
EXTENDS Connection

Lengths == [set0 |-> 0, set1 |-> 1, set2 |-> 2, set3 |-> 3, set4 |-> 4]

Store(c, s) == [command |-> c, data |-> s]
Plain(c) == [command |-> c, data |-> <<>>]

\* Data without, with, and only of ends of lines, and with halves of one.
Datas == {Plain("set0"), Store("set1", <<"a">>), Store("set1", <<CR>>),
          Store("set2", <<"a", "b">>), Store("set2", CRLF), Store("set2", <<LF, CR>>),
          Store("set3", <<CR, LF, "a">>), Store("set3", <<"a", CR, LF>>),
          Store("set4", <<"a", CR, LF, CR>>)}

AllStreams ==
  {<<r, q>> : r \in Datas \cup {Plain("get")}, q \in Datas \cup {Plain("get")}}
  \cup {<<r, Plain("quit")>> : r \in Datas}
  \cup {<<Plain("get"), r, Plain("get")>> : r \in {Store("set1", <<"a">>), Store("set3", <<CR, LF, "a">>)}}

PlainStreams == {<<Plain("get")>>, <<Store("set2", <<"a", "b">>), Plain("get")>>}
===============================================================================
