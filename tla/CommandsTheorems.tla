--------------------------- MODULE CommandsTheorems ---------------------------
(***************************************************************************)
(* What the commands answer and store, for any number of workers, keys and *)
(* requests.  First what stoul and to_string compute: incr and decr read a *)
(* number and write another one in its place.  Facts about all numbers are *)
(* proved by taking a least counterexample.                                *)
(***************************************************************************)
EXTENDS CommandsProofs, WellFoundedInduction

-----------------------------------------------------------------------------
(* Numbers *)

\* What a sequence is made of.
LEMMA SeqElement ==
  ASSUME NEW S, NEW s \in Seq(S), NEW i \in 1 .. Len(s)
  PROVE  s[i] \in S
OBVIOUS

\* A set of numbers that is not empty has a least one.
LEMMA Least ==
  ASSUME NEW T, T \subseteq Nat, T # {}
  PROVE  \E n \in T : \A m \in T : n <= m
<1> DEFINE R == {p \in Nat \X Nat : p[1] < p[2]}
<1>1. IsWellFoundedOn(R, Nat)
  BY NatLessThanWellFounded DEF OpToRel
<1>2. \A m, n \in Nat : <<m, n>> \notin R => n <= m
  OBVIOUS
<1> HIDE DEF R
<1>3. PICK n \in T : \A m \in T : <<m, n>> \notin R
  BY <1>1, WFMin, Zenon
<1> QED
  BY <1>2, <1>3, Zenon

\* A sequence over a set is one over any larger set.
LEMMA SeqMono ==
  ASSUME NEW S, NEW T, S \subseteq T, NEW s \in Seq(S)
  PROVE  s \in Seq(T)
<1>1. Len(s) \in Nat /\ s \in [1 .. Len(s) -> S]
  OBVIOUS
<1>2. s \in [1 .. Len(s) -> T]
  BY <1>1
<1> QED
  BY <1>1, <1>2

\* The last digit of a number, and the others.
LEMMA DivMod ==
  ASSUME NEW m \in Nat, NEW b \in Nat \ {0, 1}
  PROVE  /\ m \div b \in Nat /\ m % b \in 0 .. b - 1
         /\ (m \div b) * b + (m % b) = m
         /\ m >= b => m \div b < m
<1>1. m \div b \in Nat /\ m % b \in 0 .. b - 1
  OBVIOUS
<1>2. m = b * (m \div b) + (m % b)
  OBVIOUS
<1>3. ASSUME m >= b PROVE m \div b < m
  <2> DEFINE d == m \div b
             e == m % b
  <2>1. d \in Nat /\ e \in Nat /\ m = b * d + e
    BY <1>1, <1>2
  <2> HIDE DEF d, e
  <2>2. d >= m => b * d >= 2 * m
    BY <2>1
  <2>3. d < m
    BY <1>3, <2>1, <2>2
  <2> QED
    BY <2>3 DEF d
<1> QED
  BY <1>1, <1>2, <1>3

\* The recursive function of stoul.
LEMMA ValueExists ==
  ASSUME NEW s, NEW n \in Nat
  PROVE  \E g : g = [i \in 0 .. n |-> IF i = 0 THEN 0 ELSE g[i - 1] * Base + s[i]]
<1> DEFINE F(g, k) == [i \in 0 .. k |-> IF i = 0 THEN 0 ELSE g[i - 1] * Base + s[i]]
           T == {k \in Nat : ~ \E g : g = F(g, k)}
<1> SUFFICES ASSUME T # {} PROVE FALSE
  BY Zenon
<1>1. PICK k \in T : \A m \in T : k <= m
  BY Least, Zenon
<1>2. k # 0
  <2> DEFINE g == [i \in 0 .. 0 |-> 0]
  <2>1. g = F(g, 0)
    OBVIOUS
  <2> QED
    BY <2>1, Zenon
<1>3. PICK g : g = F(g, k - 1)
  BY <1>1, <1>2
<1> DEFINE h == [i \in 0 .. k |-> IF i = k THEN g[k - 1] * Base + s[k] ELSE g[i]]
<1>4. h = F(h, k)
  <2>1. ASSUME NEW i \in 0 .. k PROVE h[i] = F(h, k)[i]
    <3>1. CASE i = k
      BY <1>2, <3>1
    <3>2. CASE i # k
      <4>1. i \in 0 .. k - 1 /\ h[i] = g[i]
        BY <3>2
      <4>2. g[i] = IF i = 0 THEN 0 ELSE g[i - 1] * Base + s[i]
        BY <1>3, <4>1
      <4>3. i # 0 => h[i - 1] = g[i - 1]
        BY <4>1
      <4> QED
        BY <4>1, <4>2, <4>3
    <3> QED
      BY <3>1, <3>2
  <2> QED
    BY <2>1
<1> QED
  BY <1>1, <1>4, Zenon

\* The recursive function of to_string.
LEMMA DigitsExist ==
  ASSUME NEW n \in Nat
  PROVE  \E g : g = [m \in 0 .. n |-> IF m < Base THEN <<m>> ELSE Append(g[m \div Base], m % Base)]
<1> DEFINE F(g, k) == [m \in 0 .. k |-> IF m < Base THEN <<m>> ELSE Append(g[m \div Base], m % Base)]
           T == {k \in Nat : ~ \E g : g = F(g, k)}
<1> SUFFICES ASSUME T # {} PROVE FALSE
  BY Zenon
<1>1. PICK k \in T : \A m \in T : k <= m
  BY Least, Zenon
<1>2. k # 0
  <2> DEFINE g == [i \in 0 .. 0 |-> <<i>>]
  <2>1. g = F(g, 0)
    BY CommandsAssumption
  <2> QED
    BY <2>1, Zenon
<1>3. PICK g : g = F(g, k - 1)
  <2>1. k - 1 \in Nat /\ k - 1 \notin T
    BY <1>1, <1>2
  <2> QED
    BY <2>1, Zenon
<1> DEFINE h == [m \in 0 .. k |-> IF m = k THEN IF k < Base THEN <<k>> ELSE Append(g[k \div Base], k % Base)
                                 ELSE g[m]]
<1>4. h = F(h, k)
  <2>1. ASSUME NEW m \in 0 .. k PROVE h[m] = F(h, k)[m]
    <3> DEFINE p == m \div Base
               e == m % Base
    <3>0. m \in Nat /\ Base \in Nat \ {0, 1}
      BY CommandsAssumption
    <3>1. p \in Nat /\ (m >= Base => p < m)
      BY <3>0, DivMod, Zenon
    <3> HIDE DEF p, e
    <3>2. m >= Base => h[p] = g[p]
      <4> SUFFICES ASSUME m >= Base PROVE h[p] = g[p]
        OBVIOUS
      <4>1. p \in 0 .. k /\ p # k
        BY <3>0, <3>1
      <4> QED
        BY <4>1, Zenon
    <3>5. F(h, k)[m] = IF m < Base THEN <<m>> ELSE Append(h[p], e)
      BY DEF p, e
    <3>3. CASE m = k
      <4>1. h[m] = IF m < Base THEN <<m>> ELSE Append(g[p], e)
        BY <3>3 DEF p, e
      <4> QED
        BY <4>1, <3>0, <3>2, <3>5
    <3>4. CASE m # k
      <4>1. m \in 0 .. k - 1 /\ h[m] = g[m]
        BY <3>4
      <4>2. g[m] = IF m < Base THEN <<m>> ELSE Append(g[p], e)
        BY <1>3, <4>1, Zenon DEF p, e
      <4> QED
        BY <4>1, <4>2, <3>0, <3>2, <3>5
    <3> QED
      BY <3>3, <3>4
  <2> QED
    BY <2>1, Zenon
<1> QED
  BY <1>1, <1>4, Zenon

\* v gives the numbers that the beginnings of s denote.
Denotes(v, s) == v[0] = 0 /\ \A i \in 1 .. Len(s) : v[i] = v[i - 1] * Base + s[i]

\* to_string writes digits, and they denote the number.
LEMMA ToString ==
  ASSUME NEW n \in Nat
  PROVE  /\ to_string(n) \in Seq(0 .. Base - 1) /\ to_string(n) # <<>>
         /\ \A v : Denotes(v, to_string(n)) => v[Len(to_string(n))] = n
<1> DEFINE F(g) == [m \in 0 .. n |-> IF m < Base THEN <<m>> ELSE Append(g[m \div Base], m % Base)]
           d == CHOOSE g : g = F(g)
           Good(s, m) == /\ s \in Seq(0 .. Base - 1) /\ s # <<>>
                         /\ \A v : Denotes(v, s) => v[Len(s)] = m
           T == {m \in 0 .. n : ~Good(d[m], m)}
<1>1. d = F(d)
  BY DigitsExist, Zenon
<1>2. to_string(n) = d[n]
  BY DEF to_string
<1> HIDE DEF d
<1> SUFFICES ASSUME T # {} PROVE FALSE
  <2>1. n \in 0 .. n
    OBVIOUS
  <2> QED
    BY <1>2, <2>1, Zenon
<1>3. PICK m \in T : \A k \in T : m <= k
  <2>1. T \subseteq Nat
    OBVIOUS
  <2> QED
    BY <2>1, Least, Zenon
<1>4. m \in Nat /\ m \in 0 .. n /\ Base \in Nat \ {0, 1} /\ ~Good(d[m], m)
  BY <1>3, CommandsAssumption
<1>5. CASE m < Base
  <2> DEFINE s == <<m>>
  <2>1. d[m] = s
    BY <1>1, <1>4, <1>5
  <2>2. s \in Seq(0 .. Base - 1) /\ s # <<>> /\ Len(s) = 1 /\ s[1] = m
    BY <1>4, <1>5
  <2>3. ASSUME NEW v, Denotes(v, s) PROVE v[Len(s)] = m
    BY <1>4, <2>2, <2>3 DEF Denotes
  <2>4. Good(s, m)
    BY <2>2, <2>3, Zenon
  <2> QED
    BY <1>4, <2>1, <2>4, ZenonT(30)
<1>6. CASE m >= Base
  <2> DEFINE k == m \div Base
             e == m % Base
             s == d[k]
             s1 == Append(s, e)
  <2>1. k \in Nat /\ k < m /\ e \in 0 .. Base - 1 /\ k * Base + e = m
    BY <1>4, <1>6, DivMod, ZenonT(30)
  <2>2. d[m] = s1
    <3>1. d[m] = IF m < Base THEN <<m>> ELSE s1
      BY <1>1, <1>4, Zenon
    <3> QED
      BY <1>4, <1>6, <3>1
  <2> HIDE DEF k, e, s1, s
  <2>3. k \in 0 .. n /\ k \notin T
    BY <1>3, <1>4, <2>1
  <2>4. Good(s, k)
    BY <2>3, Zenon DEF s
  <2>5. /\ s1 \in Seq(0 .. Base - 1) /\ s1 # <<>> /\ Len(s1) = Len(s) + 1 /\ s1[Len(s) + 1] = e
        /\ \A i \in 1 .. Len(s) : s1[i] = s[i]
        /\ Len(s) \in Nat
    BY <2>1, <2>4 DEF s1
  <2>6. ASSUME NEW v, Denotes(v, s1) PROVE v[Len(s1)] = m
    <3>1. Denotes(v, s)
      BY <2>5, <2>6 DEF Denotes
    <3>2. v[Len(s)] = k
      BY <2>4, <3>1
    <3>3. v[Len(s) + 1] = v[Len(s)] * Base + s1[Len(s) + 1]
      BY <2>5, <2>6 DEF Denotes
    <3> QED
      BY <2>1, <2>5, <3>2, <3>3, ZenonT(30)
  <2>7. Good(s1, m)
    BY <2>5, <2>6, Zenon
  <2> QED
    BY <1>4, <2>2, <2>7, Zenon
<1> QED
  BY <1>4, <1>5, <1>6

\* stoul gives a number that fits in a word, or throws.
LEMMA StoulType ==
  ASSUME NEW s \in Seq(0 .. Letter)
  PROVE  stoul(s) = Throws \/ stoul(s) \in 0 .. ULONG_MAX
<1> DEFINE P(n) == (\A i \in 1 .. n : s[i] # Letter) /\ (n < Len(s) => s[n + 1] = Letter)
           n == CHOOSE k \in 0 .. Len(s) : P(k)
           F(g, k) == [i \in 0 .. k |-> IF i = 0 THEN 0 ELSE g[i - 1] * Base + s[i]]
           v == CHOOSE g : g = F(g, n)
<1>1. n \in 0 .. Len(s)
  <2> DEFINE T == {k \in 0 .. Len(s) : k = Len(s) \/ s[k + 1] = Letter}
  <2>1. T \subseteq Nat /\ Len(s) \in T
    OBVIOUS
  <2>2. PICK k \in T : \A m \in T : k <= m
    BY <2>1, Least, Zenon
  <2>3. ASSUME NEW i \in 1 .. k PROVE s[i] # Letter
    <3>0. k \in 0 .. Len(s) /\ Len(s) \in Nat /\ (i - 1 \in T => k <= i - 1)
      <4>1. k \in 0 .. Len(s) /\ Len(s) \in Nat
        BY <2>2
      <4>2. i - 1 \in T => k <= i - 1
        BY <2>2, Zenon
      <4> QED
        BY <4>1, <4>2
    <3>1. i - 1 \in 0 .. Len(s) /\ i - 1 \notin T
      <4> HIDE DEF T
      <4> QED
        BY <3>0
    <3>2. s[(i - 1) + 1] # Letter /\ (i - 1) + 1 = i
      BY <3>1
    <3> QED
      BY <3>2
  <2>4. k \in 0 .. Len(s) /\ P(k)
    BY <2>2, <2>3
  <2> QED
    BY <2>4, Zenon
<1>2. stoul(s) = IF n = 0 \/ v[n] >= WordMod THEN Throws ELSE v[n]
  BY DEF stoul
<1> HIDE DEF n
<1>3. v = F(v, n)
  <2>1. n \in Nat
    BY <1>1
  <2>2. \E g : g = F(g, n)
    BY <2>1, ValueExists, Zenon
  <2> QED
    BY <2>2, Zenon
<1> HIDE DEF v
<1>4. v[n] \in Nat
  <2> DEFINE T == {i \in 0 .. n : v[i] \notin Nat}
  <2> SUFFICES ASSUME T # {} PROVE FALSE
    BY <1>1
  <2>1. T \subseteq Nat
    OBVIOUS
  <2>2. PICK i \in T : \A m \in T : i <= m
    BY <2>1, Least, Zenon
  <2>3. v[i] = IF i = 0 THEN 0 ELSE v[i - 1] * Base + s[i]
    BY <1>3, Zenon
  <2>4. i # 0
    BY <2>3
  <2>5. i \in 1 .. Len(s) /\ i - 1 \in 0 .. n /\ i - 1 \notin T
    BY <1>1, <2>2, <2>4
  <2>6. v[i - 1] \in Nat /\ s[i] \in Nat /\ Base \in Nat
    <3>1. v[i - 1] \in Nat
      BY <2>5, Zenon
    <3>2. Base \in Nat
      BY CommandsAssumption
    <3> HIDE DEF T
    <3>3. s[i] \in 0 .. Letter
      BY <2>5, SeqElement, Zenon
    <3>4. \A d \in 0 .. Letter : d \in Nat
      BY <3>2 DEF Letter
    <3> QED
      BY <3>1, <3>2, <3>3, <3>4
  <2>7. v[i] \in Nat
    BY <2>3, <2>4, <2>6
  <2> QED
    BY <2>7
<1> QED
  BY <1>2, <1>4, CommandsAssumption DEF ULONG_MAX

\* What to_string writes, stoul reads.
LEMMA StoulToString ==
  ASSUME NEW x \in 0 .. ULONG_MAX
  PROVE  stoul(to_string(x)) = x /\ to_string(x) \in Seq(0 .. Letter)
<1> DEFINE s == to_string(x)
           n == CHOOSE k \in 0 .. Len(s) : /\ \A i \in 1 .. k : s[i] # Letter
                                           /\ k < Len(s) => s[k + 1] = Letter
           F(g, k) == [i \in 0 .. k |-> IF i = 0 THEN 0 ELSE g[i - 1] * Base + s[i]]
           v == CHOOSE g : g = F(g, n)
<1>1. x \in Nat /\ WordMod \in Nat /\ x < WordMod /\ Base \in Nat
  BY CommandsAssumption DEF ULONG_MAX
<1>2. s \in Seq(0 .. Base - 1) /\ s # <<>> /\ \A u : Denotes(u, s) => u[Len(s)] = x
  BY <1>1, ToString
<1>3. stoul(s) = IF n = 0 \/ v[n] >= WordMod THEN Throws ELSE v[n]
  BY DEF stoul
<1> HIDE DEF s
<1>4. \A i \in 1 .. Len(s) : s[i] # Letter
  BY <1>1, <1>2 DEF Letter
<1>5. n = Len(s)
  BY <1>2, <1>4
<1> HIDE DEF n
<1>6. v = F(v, n)
  <2>1. n \in Nat
    BY <1>2, <1>5
  <2>2. \E g : g = F(g, n)
    BY <2>1, ValueExists, Zenon
  <2> QED
    BY <2>2, Zenon
<1> HIDE DEF v
<1>7. Denotes(v, s)
  BY <1>2, <1>5, <1>6 DEF Denotes
<1>8. v[n] = x /\ n # 0
  BY <1>2, <1>5, <1>7
<1>9. s \in Seq(0 .. Letter)
  <2>1. 0 .. Base - 1 \subseteq 0 .. Letter
    BY <1>1 DEF Letter
  <2> QED
    BY <1>2, <2>1, SeqMono, Zenon
<1>10. stoul(s) = x
  BY <1>1, <1>3, <1>8
<1> QED
  BY <1>9, <1>10 DEF s

\* Both together.
LEMMA ConversionsHold ==
  Conversions
BY StoulType, StoulToString DEF Conversions

-----------------------------------------------------------------------------
(* incr and decr *)

\* The plan of incr and decr.
LEMMA PlanCount ==
  ASSUME CInv, NEW w \in Threads, NEW cmd \in {"incr", "decr"}, HasRead(w, {cmd}),
         Throws \notin {Amount(w), Old(w)}, NEW new,
         new = IF cmd = "incr" THEN Wrap(Amount(w) + Old(w)) ELSE Difference(w)
  PROVE  Planned(job[w], shown[w], [value(w) EXCEPT !.data = to_string(new)], expiry(w), NoCas)
<1> DEFINE j == job[w]
           r == j.r
           read == j.trace[1]
           last == shown[w]
           old == read.before[1]
           v == [value(w) EXCEPT !.data = to_string(new)]
           d == to_string(new)
<1>1. /\ r \in Request /\ r.cmd = cmd /\ value(w) = old.value /\ value(w) \in Value
      /\ expiry(w) = Wrap(old.expiry - read.cur) /\ expiry(w) \in Nat
  BY WhatWasRead, Zenon DEF Updating
<1>2. r.data \in Seq(0 .. Letter) /\ old.value.data \in Seq(0 .. Letter)
  BY <1>1, Zenon DEF Request, RequestFields, Value
<1>3. Amount(w) = stoul(r.data) /\ Old(w) = stoul(old.value.data)
  BY <1>1, Zenon DEF Amount, Old, Req
<1>4. Amount(w) \in 0 .. ULONG_MAX /\ Old(w) \in 0 .. ULONG_MAX
  BY <1>2, <1>3, ConversionsHold, Zenon DEF Conversions
<1>5. new \in 0 .. ULONG_MAX
  BY <1>4, WrapType, Numbers DEF Difference
<1>6. d \in Seq(0 .. Letter)
  BY <1>5, ConversionsHold DEF Conversions
<1>7. v = [data |-> d, flags |-> old.value.flags] /\ v \in Value
  BY <1>1, <1>6, NewData, Zenon
<1> HIDE DEF v
<1>8. NewValue(r, read) = v
  BY <1>1, <1>3, <1>7, Zenon DEF NewValue, Difference
<1>9. NewExpiry(r, read, j.at) = expiry(w) /\ Check(r, read, last) = NoCas
  BY <1>1, Zenon DEF NewExpiry, Check
<1>10. NoCas \in Nat
  BY CommandsAssumption
<1>11. Planned(j, last, v, expiry(w), NoCas)
  BY <1>1, <1>3, <1>7, <1>8, <1>9, <1>10, ZenonT(30) DEF Planned
<1> QED
  BY <1>11 DEF v

-----------------------------------------------------------------------------
(* The answer after a store *)

\* What the tokens say of what a command met.
LEMMA MetKnown ==
  ASSUME CInv, NEW w \in Threads, job[w] \in Jobs, NEW m \in DOMAIN job[w].trace,
         job[w].trace[m].before # <<>>
  PROVE  LET e == job[w].trace[m].before[1]
         IN e \in Element /\ e.cas \in Nat /\ e.value \in Value /\ Knows(e.cas, e.value)
<1> DEFINE view == job[w].trace[m].before
           e == view[1]
<1>1. job[w].trace \in Seq(Entries) /\ job[w] # NoJob
  BY DEF Jobs, NoJob
<1>2. job[w].trace[m] \in Entries
  BY <1>1
<1>3. view \in Element \X BOOLEAN
  BY <1>2, Zenon DEF Entries, Views
<1>4. e \in Element
  BY <1>3, ZenonT(30)
<1>5. e.cas \in Nat /\ e.value \in Value
  BY <1>4 DEF Element
<1>6. Knows(e.cas, e.value)
  BY <1>1, Zenon DEF Knows
<1> QED
  BY <1>4, <1>5, <1>6, Zenon

\* What the tokens say of a command that stores.
LEMMA StoringTokened ==
  ASSUME CInv, NEW w \in Threads, job[w] \in Jobs, Storing(job[w], call[w], shown[w])
  PROVE  Tokened(job[w], shown[w])
<1> DEFINE j == job[w]
           last == shown[w]
<1>1. /\ \A tok \in Nat, v \in Value : Knows(tok, v) => tok \in 1 .. draws
      /\ \A tok \in Nat, v1, v2 \in Value : Knows(tok, v1) /\ Knows(tok, v2) => v1 = v2
      /\ draws \in Nat /\ last \in Seq(Answers)
  BY DEF CInv, Tokens1, Tokens2, Types
<1>2. NoCas = 0 /\ j.trace \in Seq(Entries)
  BY CommandsAssumption, Zenon DEF Jobs
<1>3. ASSUME NEW m \in 1 .. Len(j.trace), j.trace[m].before # <<>>
      PROVE  LET e == j.trace[m].before[1]
             IN e.cas \in Nat /\ e.value \in Value /\ Knows(e.cas, e.value)
  <2>1. m \in DOMAIN j.trace
    BY <1>2
  <2> QED
    BY <1>3, <2>1, MetKnown, ZenonT(30)
<1>4. CASE j.r.cmd = "cas"
  <2> DEFINE a == last[1]
             e == j.trace[1].before[1]
  <2>1. last # <<>>
    BY <1>4 DEF Storing
  <2>2. 1 \in DOMAIN last /\ a \in Answers
    BY <1>1, <2>1
  <2>3. a.cas \in Nat /\ a.value \in Value /\ Knows(a.cas, a.value)
    <3>1. Knows(a.cas, a.value)
      BY <2>2, Zenon DEF Knows
    <3> QED
      BY <2>2, <3>1 DEF Answers
  <2>4. a.cas # NoCas
    <3> HIDE DEF a
    <3> QED
      BY <1>1, <1>2, <2>3
  <2>5. ASSUME Len(j.trace) = 1, j.trace[1].before # <<>>, e.cas = a.cas
        PROVE  e.value = a.value
    <3>0. 1 \in 1 .. Len(j.trace)
      BY <2>5
    <3>1. e.cas \in Nat /\ e.value \in Value /\ Knows(e.cas, e.value)
      BY <1>3, <2>5, <3>0, Zenon
    <3> HIDE DEF a, e
    <3> QED
      BY <1>1, <2>3, <2>5, <3>1, ZenonT(30)
  <2> QED
    BY <1>4, <2>4, <2>5, ZenonT(30) DEF Tokened
<1>5. CASE j.r.cmd = "touch"
  <2> DEFINE a == j.trace[1].before[1]
             e == j.trace[2].before[1]
  <2>1. j.trace # <<>> /\ j.trace[1].before # <<>>
    BY <1>5, Zenon DEF Storing, Direct, Visible
  <2>2. 1 \in 1 .. Len(j.trace)
    BY <1>2, <2>1
  <2>3. a.cas \in Nat /\ a.value \in Value /\ Knows(a.cas, a.value)
    BY <1>3, <2>1, <2>2, Zenon
  <2>4. a.cas # NoCas
    <3> HIDE DEF a
    <3> QED
      BY <1>1, <1>2, <2>3
  <2>5. ASSUME Len(j.trace) = 2, j.trace[2].before # <<>>, e.cas = a.cas
        PROVE  e.value = a.value
    <3>0. 2 \in 1 .. Len(j.trace)
      BY <2>5
    <3>1. e.cas \in Nat /\ e.value \in Value /\ Knows(e.cas, e.value)
      BY <1>3, <2>5, <3>0, Zenon
    <3> HIDE DEF a, e
    <3> QED
      BY <1>1, <2>3, <2>5, <3>1, ZenonT(30)
  <2> QED
    BY <1>5, <2>4, <2>5, ZenonT(30) DEF Tokened
<1>6. CASE j.r.cmd \notin {"cas", "touch"}
  BY <1>6, Zenon DEF Tokened
<1> QED
  BY <1>4, <1>5, <1>6

\* A command answers after its store.
LEMMA StoredAnswer ==
  ASSUME CInv, NEW w \in Threads, call[w].phase = "closed", job[w].stage = "stored",
         NEW text \in StoreReply(job[w].r.cmd, call[w].status), NEW found,
         text = "NUMBER" => found = <<call[w].c.value.data>>, Send(w, text, found)
  PROVE  CInv'
<1> DEFINE j == job[w]
           s == [r |-> Req(w), reply |-> text, found |-> found, seen |-> shown[w],
                 at |-> j.at, trace |-> j.trace]
<1>1. j \in Jobs /\ call[w] \in CallStates /\ Storing(j, call[w], shown[w])
  BY Stages
<1>2. Tokened(j, shown[w])
  BY <1>1, StoringTokened, ZenonT(30)
<1>3. /\ sent' = s /\ s.r = j.r /\ s.trace = j.trace /\ s.at = j.at /\ s.seen = shown[w]
      /\ s.reply = text /\ s.found = found
  BY DEF Send, Req
<1> HIDE DEF s
<1>4. Answered'
  BY <1>1, <1>2, <1>3, ConversionsHold, AnswerStore, Zenon
<1>5. j.r.cmd # "gets"
  BY <1>1, Zenon DEF Storing, StorageCommands
<1> QED
  BY <1>1, <1>4, <1>5, SendStep, ZenonT(30)

\* The steps of set, add and cas.
LEMMA DirectStep ==
  ASSUME CInv, NEW w \in Threads, cmdProcessSet(w) \/ cmdProcessAdd(w) \/ cmdProcessCas(w)
  PROVE  CInv'
<1>1. CASE \/ Parsed(w, {"set"}) /\ Call(w, "stored", StoreCall(w, "insert", now, NoCas))
           \/ Parsed(w, {"add"}) /\ Call(w, "stored", StoreCall(w, "add", now, NoCas))
           \/ Parsed(w, {"cas"}) /\ Call(w, "stored", StoreCall(w, "insert", now, shown[w][1].cas))
  <2>1. CASE Parsed(w, {"set"}) /\ Call(w, "stored", StoreCall(w, "insert", now, NoCas))
    BY <2>1, StoreBegins DEF Direct
  <2>2. CASE Parsed(w, {"add"}) /\ Call(w, "stored", StoreCall(w, "add", now, NoCas))
    BY <2>2, StoreBegins DEF Direct
  <2>3. CASE /\ Parsed(w, {"cas"})
             /\ Call(w, "stored", StoreCall(w, "insert", now, shown[w][1].cas))
    BY <2>3, StoreBegins DEF Direct
  <2> QED
    BY <1>1, <2>1, <2>2, <2>3, ZenonT(30)
<1>2. CASE \E text \in StoreReply(job[w].r.cmd, call[w].status) :
             /\ call[w].phase = "closed" /\ job[w].stage = "stored" /\ text # "NUMBER"
             /\ Send(w, text, <<>>)
  BY <1>2, StoredAnswer
<1>3. CASE At(w, {"set"}, "stored") /\ Answer(w, Full_or(w, "STORED"))
  BY <1>2, <1>3, Zenon DEF At, Answer, Full_or, StoreReply
<1>4. CASE /\ At(w, {"add"}, "stored")
           /\ Answer(w, Full_or(w, IF call[w].status = "EXIST" THEN "NOT_STORED" ELSE "STORED"))
  BY <1>2, <1>4, Zenon DEF At, Answer, Full_or, StoreReply
<1>5. CASE /\ At(w, {"cas"}, "stored")
           /\ Answer(w, Full_or(w, CASE call[w].status = "EXIST" -> "EXISTS"
                                      [] call[w].status = "NOT_EXIST" -> "NOT_FOUND"
                                      [] OTHER -> "STORED"))
  BY <1>2, <1>5, Zenon DEF At, Answer, Full_or, StoreReply
<1> QED
  BY <1>1, <1>3, <1>4, <1>5, ZenonT(30) DEF cmdProcessSet, cmdProcessAdd, cmdProcessCas, ClientToken

\* The first steps of the commands that read.
LEMMA ReadFirstStep ==
  ASSUME CInv, NEW w \in Threads, NEW cmd \in Updating, NEW refusal \in {"NOT_FOUND", "NOT_STORED"},
         ReadFirst(w, {cmd}, refusal)
  PROVE  CInv'
<1>1. CASE Parsed(w, {cmd}) /\ Call(w, "read", GetCall(w))
  BY <1>1, ReadBegins DEF Updating
<1>2. CASE At(w, {cmd}, "read") /\ Failed(w) /\ Answer(w, refusal)
  BY <1>2, ReadRefused, Zenon DEF At, Answer
<1> QED
  BY <1>1, <1>2 DEF ReadFirst

\* The steps of replace, append, prepend and touch.
LEMMA UpdateStep ==
  ASSUME CInv, NEW w \in Threads,
         \/ cmdProcessReplace(w) \/ cmdProcessAppend(w) \/ cmdProcessPrepend(w)
         \/ cmdProcessTouch(w)
  PROVE  CInv'
<1>1. CASE \/ ReadFirst(w, {"replace"}, "NOT_STORED") \/ ReadFirst(w, {"append"}, "NOT_STORED")
           \/ ReadFirst(w, {"prepend"}, "NOT_STORED") \/ ReadFirst(w, {"touch"}, "NOT_FOUND")
  BY <1>1, ReadFirstStep, Zenon DEF Updating
<1>2. CASE \E text \in StoreReply(job[w].r.cmd, call[w].status) :
             /\ call[w].phase = "closed" /\ job[w].stage = "stored" /\ text # "NUMBER"
             /\ Send(w, text, <<>>)
  BY <1>2, StoredAnswer
<1>3. CASE At(w, {"replace", "append", "prepend"}, "stored") /\ Answer(w, Full_or(w, "STORED"))
  BY <1>2, <1>3, Zenon DEF At, Answer, Full_or, StoreReply
<1>4. CASE At(w, {"touch"}, "stored") /\ Answer(w, Full_or(w, "TOUCHED"))
  BY <1>2, <1>4, Zenon DEF At, Answer, Full_or, StoreReply
<1>5. CASE ThenStore(w, {"replace"}, Fields(w), expTime(Req(w), job[w].at), NoCas)
  BY <1>5, PlanReplace, ReadThenStore DEF ThenStore, Updating
<1>6. CASE ThenStore(w, {"append"}, [value(w) EXCEPT !.data = Joined(w)], expiry(w), NoCas)
  BY <1>6, PlanAppend, ReadThenStore DEF ThenStore, Updating
<1>7. CASE ThenStore(w, {"prepend"}, [value(w) EXCEPT !.data = Req(w).data \o @], expiry(w), NoCas)
  BY <1>7, PlanPrepend, ReadThenStore, ZenonT(30) DEF ThenStore, Updating
<1>8. CASE ThenStore(w, {"touch"}, value(w), Req(w).exptime % UIntMod, touchCas(w))
  BY <1>8, PlanTouch, ReadThenStore, Zenon DEF ThenStore, Updating
<1>9. CASE cmdProcessReplace(w) \/ cmdProcessAppend(w)
  BY <1>1, <1>3, <1>5, <1>6, <1>9, ZenonT(30) DEF cmdProcessReplace, cmdProcessAppend, At
<1>10. CASE cmdProcessPrepend(w) \/ cmdProcessTouch(w)
  BY <1>1, <1>3, <1>4, <1>7, <1>8, <1>10, ZenonT(30) DEF cmdProcessPrepend, cmdProcessTouch, At
<1> QED
  BY <1>9, <1>10

\* The steps of incr and decr.
LEMMA CounterStep ==
  ASSUME CInv, NEW w \in Threads, cmdProcessIncr(w) \/ cmdProcessDecr(w)
  PROVE  CInv'
<1>1. ASSUME NEW cmd \in {"incr", "decr"}, NEW new, Counter(w, {cmd}, new),
             new = IF cmd = "incr" THEN Wrap(Amount(w) + Old(w)) ELSE Difference(w)
      PROVE  CInv'
  <2>1. cmd \in Updating
    BY DEF Updating
  <2>2. CASE ReadFirst(w, {cmd}, "NOT_FOUND")
    BY <2>1, <2>2, ReadFirstStep
  <2>3. CASE Terminate
    BY <2>3, TerminateStep, Zenon
  <2>4. CASE HasRead(w, {cmd}) /\ Send(w, "CLIENT_ERROR", <<>>)
    BY <2>1, <2>4, ReadRefused DEF HasRead, At
  <2>5. CASE /\ Throws \notin {Amount(w), Old(w)}
             /\ ThenStore(w, {cmd}, [value(w) EXCEPT !.data = to_string(new)], expiry(w), NoCas)
    <3>1. Planned(job[w], shown[w], [value(w) EXCEPT !.data = to_string(new)], expiry(w), NoCas)
      BY <1>1, <2>5, PlanCount, Zenon DEF ThenStore
    <3> QED
      BY <2>1, <2>5, <3>1, ReadThenStore, ZenonT(30) DEF ThenStore
  <2>6. CASE /\ At(w, {cmd}, "stored")
             /\ call[w].status # "MEMORY_FULL" /\ Send(w, "NUMBER", <<call[w].c.value.data>>)
    BY <2>6, StoredAnswer, ZenonT(30) DEF At, StoreReply
  <2>7. CASE /\ At(w, {cmd}, "stored") /\ Answer(w, "SERVER_ERROR")
             /\ call[w].status = "MEMORY_FULL" \/ noreply(Req(w))
    <3>1. PICK text \in StoreReply(job[w].r.cmd, call[w].status) :
            text # "NUMBER" /\ Send(w, text, <<>>)
      BY <2>7, Zenon DEF Answer, StoreReply
    <3> QED
      BY <2>7, <3>1, StoredAnswer DEF At
  <2> QED
    BY <1>1, <2>2, <2>3, <2>4, <2>5, <2>6, <2>7, ZenonT(30) DEF Counter
<1> QED
  BY <1>1 DEF cmdProcessIncr, cmdProcessDecr

\* delete answers.
LEMMA DeleteStep ==
  ASSUME CInv, NEW w \in Threads, cmdProcessDelete(w)
  PROVE  CInv'
<1>1. CASE /\ At(w, {"delete"}, "deleted")
           /\ Answer(w, IF call[w].status = "NOT_EXIST" THEN "NOT_FOUND" ELSE "DELETED")
  <2> DEFINE j == job[w]
             q == call[w]
             text == IF noreply(Req(w)) THEN "none" ELSE
                     IF q.status = "NOT_EXIST" THEN "NOT_FOUND" ELSE "DELETED"
             s == [r |-> Req(w), reply |-> text, found |-> <<>>, seen |-> shown[w],
                   at |-> j.at, trace |-> j.trace]
  <2>1. j \in Jobs /\ Deleting(j, q) /\ q.phase = "closed" /\ j.r.cmd = "delete"
    BY <1>1, Stages, Zenon DEF At
  <2>2. q.c.op = "delete" /\ Len(j.trace) = 1 /\ Outcome(q, j.trace[1])
    BY <2>1 DEF Deleting, Recorded
  <2>3. Send(w, text, <<>>)
    BY <1>1, Zenon DEF Answer
  <2>4. sent' = s /\ s.r = j.r /\ s.trace = j.trace /\ s.reply = text
    BY <2>3, Zenon DEF Send, Req
  <2>5. text \in {"none", IF q.status = "NOT_EXIST" THEN "NOT_FOUND" ELSE "DELETED"}
    BY Zenon
  <2> HIDE DEF s, text
  <2>6. Answered'
    BY <2>1, <2>2, <2>4, <2>5, AnswerDelete, ZenonT(30)
  <2> QED
    BY <2>1, <2>3, <2>6, SendStep
<1>2. CASE /\ Parsed(w, {"delete"})
           /\ Call(w, "deleted", EngineCall("delete", KeyOf(w), NoValue, 0, NoCas))
  BY <1>2, OtherBegins
<1> QED
  BY <1>1, <1>2, ZenonT(30) DEF cmdProcessDelete

-----------------------------------------------------------------------------
(* get and gets *)

\* One more key has been looked up, and its element is left out or put at the end.
LEMMA ListedNext ==
  ASSUME NEW n \in Nat \ {0}, NEW trace \in Seq(Entries), Len(trace) = n, NEW r,
         NEW out \in Seq(Answers), Listed(out, r, SubSeq(trace, 1, n - 1)), NEW a \in Answers
  PROVE  /\ ~Visible(trace[n].before, trace[n].cur) => Listed(out, r, trace)
         /\ /\ Visible(trace[n].before, trace[n].cur)
            /\ a = [key |-> r.keys[n], value |-> trace[n].before[1].value,
                    cas |-> IF r.cmd = "gets" THEN trace[n].before[1].cas ELSE NoCas]
            => Listed(Append(out, a), r, trace)
<1> DEFINE before == SubSeq(trace, 1, n - 1)
           m == Len(out)
           more == Append(out, a)
           Shown(i) == Visible(trace[i].before, trace[i].cur)
           Line(i) == [key |-> r.keys[i], value |-> trace[i].before[1].value,
                       cas |-> IF r.cmd = "gets" THEN trace[i].before[1].cas ELSE NoCas]
<1>1. DOMAIN trace = 1 .. n /\ m \in Nat /\ DOMAIN out = 1 .. m
  OBVIOUS
<1>2. DOMAIN before = 1 .. n - 1 /\ \A i \in 1 .. n - 1 : trace[i] = before[i]
  OBVIOUS
<1>3. DOMAIN more = 1 .. m + 1 /\ more[m + 1] = a /\ \A i \in 1 .. m : more[i] = out[i]
  OBVIOUS
<1> HIDE DEF before, m, more
<1>4. PICK f \in [DOMAIN out -> DOMAIN before] :
        /\ \A i, j \in DOMAIN out : i < j => f[i] < f[j]
        /\ \A i \in DOMAIN before :
             Visible(before[i].before, before[i].cur) <=> \E j \in DOMAIN out : f[j] = i
        /\ \A j \in DOMAIN out :
             out[j] = [key |-> r.keys[f[j]], value |-> before[f[j]].before[1].value,
                       cas |-> IF r.cmd = "gets" THEN before[f[j]].before[1].cas ELSE NoCas]
  BY Zenon DEF Listed, before
<1>5. \A j \in 1 .. m : f[j] \in 1 .. n - 1
  BY <1>1, <1>2, <1>4, Zenon
<1>6. \A i, j \in 1 .. m : i < j => f[i] < f[j]
  BY <1>1, <1>4, Zenon
<1>7. \A i \in 1 .. n - 1 : Shown(i) <=> \E j \in 1 .. m : f[j] = i
  BY <1>1, <1>2, <1>4, Zenon
<1>8. \A j \in 1 .. m : out[j] = Line(f[j])
  BY <1>1, <1>2, <1>4, <1>5, ZenonT(30)
<1> HIDE DEF Shown, Line
<1>9. ASSUME ~Shown(n) PROVE Listed(out, r, trace)
  <2>1. f \in [DOMAIN out -> DOMAIN trace]
    BY <1>1, <1>2, <1>4
  <2>2. \A i \in DOMAIN trace : Shown(i) <=> \E j \in DOMAIN out : f[j] = i
    <3>1. \A i \in 1 .. n : i = n \/ i \in 1 .. n - 1
      OBVIOUS
    <3>2. ~\E j \in 1 .. m : f[j] = n
      BY <1>5
    <3> QED
      BY <1>1, <1>7, <1>9, <3>1, <3>2, ZenonT(30)
  <2>3. \A i, j \in DOMAIN out : i < j => f[i] < f[j]
    BY <1>1, <1>6, Zenon
  <2>4. \A j \in DOMAIN out : out[j] = Line(f[j])
    BY <1>1, <1>8, Zenon
  <2> QED
    BY <2>1, <2>2, <2>3, <2>4, ZenonT(30) DEF Listed, Shown, Line
<1>10. ASSUME Shown(n), a = Line(n)
       PROVE  Listed(more, r, trace)
  <2> DEFINE g == [j \in DOMAIN more |-> IF j = m + 1 THEN n ELSE f[j]]
  <2>1. g[m + 1] = n /\ \A j \in 1 .. m : g[j] = f[j]
    BY <1>1, <1>3
  <2>2. g \in [DOMAIN more -> DOMAIN trace]
    BY <1>1, <1>3, <1>5
  <2> HIDE DEF g
  <2>3. \A j \in DOMAIN more : j = m + 1 \/ j \in 1 .. m
    BY <1>1, <1>3
  <2>4. \A i, j \in DOMAIN more : i < j => g[i] < g[j]
    <3> SUFFICES ASSUME NEW i \in DOMAIN more, NEW j \in DOMAIN more, i < j
                 PROVE  g[i] < g[j]
      OBVIOUS
    <3>1. i \in 1 .. m
      BY <1>1, <1>3
    <3>2. CASE j = m + 1
      BY <1>5, <2>1, <3>1, <3>2
    <3>3. CASE j \in 1 .. m
      BY <1>6, <2>1, <3>1, <3>3, Zenon
    <3> QED
      BY <2>3, <3>2, <3>3, Zenon
  <2>5. \A i \in DOMAIN trace : Shown(i) <=> \E j \in DOMAIN more : g[j] = i
    <3>1. \A i \in 1 .. n : i = n \/ (i \in 1 .. n - 1 /\ i # n)
      OBVIOUS
    <3>2. m + 1 \in DOMAIN more /\ \A j \in 1 .. m : j \in DOMAIN more
      BY <1>1, <1>3
    <3> QED
      BY <1>1, <1>7, <1>10, <2>1, <2>3, <3>1, <3>2, Zenon
  <2>6. \A j \in DOMAIN more : more[j] = Line(g[j])
    BY <1>3, <1>8, <1>10, <2>1, <2>3, Zenon
  <2> QED
    BY <2>2, <2>4, <2>5, <2>6, ZenonT(30) DEF Listed, Shown, Line
<1> QED
  BY <1>9, <1>10, Zenon DEF Shown, Line, more

\* What the answer is when the call for the n-th key has returned.
LEMMA FoundSoFar ==
  ASSUME CInv, NEW w \in Threads, NEW cmd \in {"get", "gets"}, NEW withCas \in BOOLEAN,
         withCas <=> cmd = "gets", At(w, {cmd}, "read")
  PROVE  /\ Found(w, withCas) \in Seq(Answers)
         /\ Listed(Found(w, withCas), job[w].r, job[w].trace)
<1> DEFINE j == job[w]
           n == j.n
           e == j.trace[n]
           old == e.before[1]
           left == Wrap(old.expiry - e.cur)
           a == [key |-> KeyOf(w), value |-> value(w), cas |-> IF withCas THEN cas(w) ELSE NoCas]
<1>1. /\ j \in Jobs /\ Reading(j, call[w]) /\ Len(j.trace) = n /\ j.trace \in Seq(Entries)
      /\ e \in Entries /\ GetOutcome(call[w], e)
  BY ReadReturned DEF At
<1>2. j.r.cmd = cmd
  BY DEF At
<1>3. Listed(j.out, j.r, SubSeq(j.trace, 1, n - 1)) /\ n <= Len(j.r.keys)
  BY <1>1, <1>2, ZenonT(30) DEF Reading
<1>4. n \in Nat \ {0} /\ j.out \in Seq(Answers) /\ j.r \in Request
  BY <1>1, Zenon DEF Jobs
<1>5. j.r.keys \in Seq(Keys)
  BY <1>4, Zenon DEF Request, RequestFields
<1>6. KeyOf(w) \in Keys /\ KeyOf(w) = j.r.keys[n]
  BY <1>3, <1>4, <1>5 DEF KeyOf
<1>7. CASE Failed(w)
  <2>1. ~Visible(e.before, e.cur)
    BY <1>1, <1>7, Zenon DEF GetOutcome, Failed
  <2>2. Found(w, withCas) = j.out
    BY <1>7, Zenon DEF Found
  <2>3. PICK x : x \in Answers
    <3>1. [key |-> KeyOf(w), value |-> NoValue, cas |-> 0] \in Answers
      BY <1>6 DEF Answers, NoValue, Value, Flags
    <3> QED
      BY <3>1, ZenonT(30)
  <2>4. Listed(j.out, j.r, j.trace)
    BY <1>1, <1>3, <1>4, <2>1, <2>3, ListedNext, ZenonT(30)
  <2> QED
    BY <1>4, <2>2, <2>4, Zenon
<1>8. CASE ~Failed(w)
  <2>1. Visible(e.before, e.cur) /\ call[w].got = <<old.value, old.cas, left>>
    BY <1>1, <1>8, ZenonT(30) DEF GetOutcome, Failed
  <2>2. value(w) = old.value /\ cas(w) = old.cas
    <3> HIDE DEF left, old
    <3> QED
      BY <2>1 DEF value, cas
  <2>3. e.before \in Element \X BOOLEAN
    BY <1>1, <2>1, ZenonT(30) DEF Entries, Views, Visible
  <2>4. old \in Element
    BY <2>3
  <2>5. old.value \in Value /\ old.cas \in Nat
    BY <2>4, ZenonT(30) DEF Element
  <2> HIDE DEF old
  <2>6. a \in Answers
    BY <1>6, <2>2, <2>5, CommandsAssumption, ZenonT(30) DEF Answers
  <2>7. a = [key |-> j.r.keys[n], value |-> old.value,
             cas |-> IF j.r.cmd = "gets" THEN old.cas ELSE NoCas]
    BY <1>2, <1>6, <2>2
  <2>8. Found(w, withCas) = Append(j.out, a)
    BY <1>8, Zenon DEF Found
  <2> HIDE DEF a
  <2>9. Append(j.out, a) \in Seq(Answers)
    BY <1>4, <2>6
  <2>10. Listed(Append(j.out, a), j.r, j.trace)
    BY <1>1, <1>3, <1>4, <2>1, <2>6, <2>7, ListedNext, ZenonT(30) DEF old
  <2> QED
    BY <2>8, <2>9, <2>10, Zenon
<1> QED
  BY <1>7, <1>8, ZenonT(30)

\* The steps of get and gets.
LEMMA RetrieveStep ==
  ASSUME CInv, NEW w \in Threads, NEW cmd \in {"get", "gets"}, NEW withCas \in BOOLEAN,
         withCas <=> cmd = "gets", Retrieve(w, {cmd}, withCas)
  PROVE  CInv'
<1> DEFINE j == job[w]
           found == Found(w, withCas)
<1>1. CASE Parsed(w, {cmd}) /\ Call(w, "read", GetCall(w))
  BY <1>1, ReadBegins, Zenon
<1>2. ASSUME At(w, {cmd}, "read")
      PROVE  /\ found \in Seq(Answers) /\ Listed(found, j.r, j.trace)
             /\ j \in Jobs /\ Reading(j, call[w]) /\ Len(j.trace) = j.n
             /\ j.trace \in Seq(Entries) /\ j.r.cmd = cmd
  <2>1. found \in Seq(Answers) /\ Listed(found, j.r, j.trace)
    BY <1>2, FoundSoFar, Zenon
  <2> QED
    BY <1>2, <2>1, ReadReturned, Zenon DEF At
<1> HIDE DEF found
<1>3. CASE /\ At(w, {cmd}, "read")
           /\ j.n < Len(j.r.keys)
           /\ Begin(w, EngineCall("get", j.r.keys[j.n + 1], NoValue, 0, NoCas))
           /\ job' = [job EXCEPT ![w].n = @ + 1, ![w].out = found]
           /\ sent' = Nothing
           /\ UNCHANGED <<shown, script, draws, running>>
  <2> DEFINE i == [j EXCEPT !.n = j.n + 1, !.out = found]
             c == EngineCall("get", j.r.keys[j.n + 1], NoValue, 0, NoCas)
  <2>1. job \in [Threads -> Jobs \cup {NoJob}] /\ script \in Seq(SUBSET Request)
    BY DEF CInv, Types
  <2>2. job' = [job EXCEPT ![w] = i]
    BY <1>3, <2>1, ZenonT(30)
  <2>3. j.n \in Nat \ {0} /\ j.r \in Request /\ j # NoJob
    BY <1>2, <1>3 DEF Jobs, NoJob
  <2>4. j.n + 1 \in 1 .. Len(j.r.keys) /\ j.r.keys[j.n + 1] \in Keys
    <3>1. j.r.keys \in Seq(Keys)
      BY <2>3 DEF Request, RequestFields
    <3>2. j.n \in Nat \ {0} /\ j.n < Len(j.r.keys)
      BY <1>3, <2>3, Zenon
    <3> QED
      BY <3>1, <3>2
  <2>5. NoValue \in Value /\ NoCas \in Nat
    BY Defaults, Zenon
  <2>6. c \in EngineCalls /\ c.op = "get" /\ c.key = j.r.keys[j.n + 1]
    BY <2>4, <2>5 DEF EngineCall, EngineCalls
  <2>7. i \in Jobs /\ i.stage = j.stage /\ i.r = j.r /\ i.n = j.n + 1 /\ i.out = found
        /\ i.at = j.at /\ i.trace = j.trace
    <3>0. j.n + 1 \in Nat \ {0}
      BY <2>3
    <3>1. j \in Jobs /\ found \in Seq(Answers) /\ j.n + 1 \in Nat \ {0}
      BY <1>2, <1>3, <3>0, Zenon
    <3> QED
      BY <3>1, Zenon DEF Jobs
  <2> HIDE DEF i, c
  <2>8. SubSeq(i.trace, 1, i.n - 1) = j.trace
    BY <1>2, <1>3, <2>3, <2>7
  <2>9. ASSUME NEW p \in CallStates, p.c = c, p.phase = "open"
        PROVE  Reading(i, p)
    <3>1. Recorded(p, i.trace, i.n)
      BY <1>2, <1>3, <2>3, <2>7, <2>9 DEF Recorded
    <3>2. /\ i.stage = "read" /\ Accepted(i.r) /\ i.at > 0 /\ i.r.cmd \in {"get", "gets"}
      BY <1>2, <1>3, <2>7, Zenon DEF Reading
    <3>3. i.n <= Len(i.r.keys) /\ p.c.op = "get" /\ p.c.key = i.r.keys[i.n]
      BY <2>4, <2>6, <2>7, <2>9
    <3>4. Listed(i.out, i.r, SubSeq(i.trace, 1, i.n - 1))
      BY <1>2, <1>3, <2>7, <2>8, ZenonT(30)
    <3> QED
      BY <3>1, <3>2, <3>3, <3>4, ZenonT(30) DEF Reading
  <2>10. \A p \in CallStates :
           /\ p.c = c /\ p.phase \in {"open", "closed"} /\ p.cur = now
           /\ c.op # "handleFlush" => p.phase = "open"
           => Worker(i, p, shown[w])
    BY <2>6, <2>7, <2>9, Zenon DEF Worker
  <2>11. Begin(w, c) /\ sent' = Nothing /\ UNCHANGED <<shown, draws, running>>
         /\ script' \in Seq(SUBSET Request)
    BY <1>3, <2>1, Zenon DEF c
  <2> QED
    BY <2>2, <2>3, <2>6, <2>7, <2>10, <2>11, CallStep, ZenonT(30)
<1>4. CASE At(w, {cmd}, "read") /\ j.n = Len(j.r.keys) /\ Send(w, "END", found)
  <2> DEFINE s == [r |-> Req(w), reply |-> "END", found |-> found, seen |-> shown[w],
                   at |-> j.at, trace |-> j.trace]
  <2>1. sent' = s /\ s.r = j.r /\ s.trace = j.trace /\ s.reply = "END" /\ s.found = found
    BY <1>4, ZenonT(30) DEF Send, Req
  <2> HIDE DEF s
  <2>2. Answered'
    BY <1>2, <1>4, <2>1, AnswerGet, ZenonT(30)
  <2>3. ASSUME j.r.cmd = "gets", NEW m \in DOMAIN found
        PROVE  Knows(found[m].cas, found[m].value)
    <3>1. PICK f \in [DOMAIN found -> DOMAIN j.trace] :
            /\ \A i \in DOMAIN j.trace :
                 Visible(j.trace[i].before, j.trace[i].cur) <=> \E k \in DOMAIN found : f[k] = i
            /\ \A k \in DOMAIN found :
                 LET e == j.trace[f[k]].before[1]
                 IN found[k] = [key |-> j.r.keys[f[k]], value |-> e.value,
                                cas |-> IF j.r.cmd = "gets" THEN e.cas ELSE NoCas]
      BY <1>2, <1>4, Zenon DEF Listed
    <3>2. f[m] \in DOMAIN j.trace /\ Visible(j.trace[f[m]].before, j.trace[f[m]].cur)
      BY <2>3, <3>1, ZenonT(30)
    <3>3. j.trace[f[m]].before # <<>>
      BY <3>2 DEF Visible
    <3> DEFINE e == j.trace[f[m]].before[1]
    <3>4. Knows(e.cas, e.value)
      BY <1>2, <1>4, <3>2, <3>3, MetKnown, Zenon
    <3>5. found[m] = [key |-> j.r.keys[f[m]], value |-> e.value, cas |-> e.cas]
      BY <2>3, <3>1, Zenon
    <3> HIDE DEF e
    <3>6. found[m].cas = e.cas /\ found[m].value = e.value
      BY <3>5
    <3> QED
      BY <3>4, <3>6
  <2> QED
    BY <1>2, <1>4, <2>2, <2>3, SendStep, ZenonT(30)
<1> QED
  BY <1>1, <1>3, <1>4, ZenonT(30) DEF Retrieve, Req, found

-----------------------------------------------------------------------------
(* Theorems *)

\* A worker starts.
LEMMA CommandsStart ==
  ASSUME CInit
  PROVE  CInv
<1>1. /\ map = [k \in {} |-> 0] /\ now = StartTime /\ call = [t \in Threads |-> NoCall]
      /\ job = [w \in Threads |-> NoJob] /\ shown = [w \in Threads |-> <<>>]
      /\ sent = Nothing /\ script \in Scripts /\ draws = 0 /\ running = TRUE
  BY DEF CInit, InitAt
<1>2. Types
  <2>1. MapType(map)
    BY <1>1 DEF MapType
  <2>2. script \in Seq(SUBSET Request) /\ now \in 1 .. MaxTime
    BY <1>1, CommandsAssumption, ZenonT(30)
  <2> QED
    BY <1>1, <2>1, <2>2 DEF Types
<1>3. Workers
  BY <1>1 DEF Workers, Worker
<1>4. \A tok, v : ~Knows(tok, v)
  BY <1>1 DEF Knows
<1>5. Tokens1 /\ Tokens2
  BY <1>4 DEF Tokens1, Tokens2
<1>6. ~Wrote /\ ~Changed
  <2>1. sent.trace = <<>>
    BY <1>1, Zenon DEF Nothing
  <2> QED
    BY <2>1 DEF Wrote, Changed, Calls
<1>7. UninterruptedIsAtomic /\ TouchKeepsValue /\ CasReplacesWhatWasShown /\ ExpiryAsAsked
  BY <1>6, Zenon DEF UninterruptedIsAtomic, TouchKeepsValue, CasReplacesWhatWasShown, ExpiryAsAsked
<1>8. AnswersAreTrue
  BY <1>1, Zenon DEF AnswersAreTrue, Cmd, Nothing
<1> QED
  BY <1>2, <1>3, <1>5, <1>7, <1>8, ZenonT(30) DEF CInv, Answered

\* Every step of a handler, of the engine and of the clock keeps the invariants.
LEMMA CommandsStep ==
  ASSUME CInv, [CNext]_cvars
  PROVE  CInv'
<1>1. CASE UNCHANGED cvars
  BY <1>1, StutterStep
<1>2. CASE Clock
  BY <1>2, ClockStep
<1>3. ASSUME NEW w \in Threads, script # <<>>, \E r \in Head(script) : Start(w, r)
      PROVE  CInv'
  BY <1>3, StartStep
<1>4. ASSUME NEW w \in Threads, Engine(w)
      PROVE  CInv'
  BY <1>4, EngineStep
<1>5. ASSUME NEW w \in Threads, cmdProcessCommand(w)
      PROVE  CInv'
  <2>1. CASE NeedMore(w) \/ Refuse(w)
    BY <2>1, NeedMoreStep, RefuseStep
  <2>2. CASE cmdProcessSet(w) \/ cmdProcessAdd(w) \/ cmdProcessCas(w)
    BY <2>2, DirectStep
  <2>3. CASE \/ cmdProcessReplace(w) \/ cmdProcessAppend(w) \/ cmdProcessPrepend(w)
             \/ cmdProcessTouch(w)
    BY <2>3, UpdateStep
  <2>4. CASE cmdProcessIncr(w) \/ cmdProcessDecr(w)
    BY <2>4, CounterStep
  <2>5. CASE cmdProcessGet(w) \/ cmdProcessGets(w)
    BY <2>5, RetrieveStep, ZenonT(30) DEF cmdProcessGet, cmdProcessGets
  <2>6. CASE cmdProcessDelete(w)
    BY <2>6, DeleteStep
  <2>7. CASE cmdProcessFlushAll(w)
    BY <2>7, OtherBegins, ShortAnswers, Zenon DEF cmdProcessFlushAll
  <2>8. CASE \/ cmdProcessStats(w) \/ cmdProcessVersion(w) \/ cmdProcessVerbosity(w)
             \/ cmdProcessQuit(w)
    BY <2>8, ShortAnswers
  <2> QED
    BY <1>5, <2>1, <2>2, <2>3, <2>4, <2>5, <2>6, <2>7, <2>8, ZenonT(30) DEF cmdProcessCommand
<1> QED
  BY <1>1, <1>2, <1>3, <1>4, <1>5, ZenonT(30) DEF CNext

\* Every engine call the handlers make is a legal one.
LEMMA CommandsTypes ==
  ASSUME CInv
  PROVE  TypeOK
<1>1. Types /\ Workers /\ Tokens1
  BY Zenon DEF CInv
<1>2. ASSUME NEW w \in Threads
      PROVE  /\ (job[w] = NoJob) = (call[w] = NoCall)
             /\ job[w] # NoJob => /\ job[w].r \in Request
                                  /\ call[w].c \in EngineCalls
                                  /\ job[w].n \in 1 .. Len(job[w].r.keys) + 1
  <2> DEFINE j == job[w]
             q == call[w]
  <2>1. Worker(j, q, shown[w])
    BY <1>1 DEF Workers
  <2>2. CASE j = NoJob /\ q = NoCall
    BY <2>2
  <2>3. CASE ~(j = NoJob /\ q = NoCall)
    <3>1. /\ j \in Jobs /\ q \in CallStates
          /\ \/ Parsing(j, q, shown[w]) \/ Reading(j, q) \/ Storing(j, q, shown[w])
             \/ Deleting(j, q) \/ Flushing(j, q)
      BY <2>1, <2>3, Zenon DEF Worker
    <3>2. j # NoJob /\ q # NoCall
      BY <3>1 DEF Jobs, CallStates, NoJob, NoCall
    <3>3. j.r \in Request /\ j.n \in Nat \ {0} /\ q.c \in EngineCalls
      BY <3>1 DEF Jobs, CallStates
    <3>4. j.n = 1 \/ j.n <= Len(j.r.keys)
      BY <3>1, Zenon DEF Parsing, Reading, Storing, Deleting, Flushing
    <3>5. j.r.keys \in Seq(Keys)
      BY <3>3, Zenon DEF Request, RequestFields
    <3>6. j.n \in 1 .. Len(j.r.keys) + 1
      BY <3>3, <3>4, <3>5
    <3> QED
      BY <3>2, <3>3, <3>6, Zenon
  <2> QED
    BY <2>2, <2>3, Zenon
<1>3. ASSUME NEW k \in DOMAIN map
      PROVE  map[k].value \in Value /\ map[k].expiry \in 0 .. ULONG_MAX /\ map[k].cas \in 1 .. draws
  <2>1. map[k] \in Element
    BY <1>1 DEF Types, MapType
  <2>2. map[k].value \in Value /\ map[k].expiry \in 0 .. ULONG_MAX /\ map[k].cas \in Nat
    BY <2>1 DEF Element
  <2>3. Knows(map[k].cas, map[k].value)
    BY Zenon DEF Knows
  <2> QED
    BY <1>1, <2>2, <2>3, Zenon DEF Tokens1
<1>4. running \in BOOLEAN
  BY <1>1 DEF Types
<1> QED
  BY <1>2, <1>3, <1>4, Zenon DEF TypeOK

\* The invariants of CommandsShapes hold in every state the command layer reaches.
THEOREM CommandsInvariant == CSpec => []CInv
<1>1. CInit => CInv
  BY CommandsStart
<1>2. CInv /\ [CNext]_cvars => CInv'
  BY CommandsStep
<1> QED
  BY <1>1, <1>2, PTL DEF CSpec

\* Whatever the requests and however the workers interleave, the handlers hand legal
\* calls to the engine, and every element in it has a token that was drawn.
THEOREM CommandsTypeOK == CSpec => []TypeOK
<1>1. CInv => TypeOK
  BY CommandsTypes, Zenon
<1> QED
  BY <1>1, CommandsInvariant, PTL

\* append, prepend, incr and decr make exactly their update when nobody stores to or
\* deletes the element between their dbGetElement and their dbInsertElement.
THEOREM CommandsAtomic == CSpec => []UninterruptedIsAtomic
<1>1. CInv => UninterruptedIsAtomic
  BY DEF CInv, Answered
<1> QED
  BY <1>1, CommandsInvariant, PTL

\* cmdProcessTouch changes no value and brings nothing back, whatever others do
\* between its two engine calls.
THEOREM CommandsTouch == CSpec => []TouchKeepsValue
<1>1. CInv => TouchKeepsValue
  BY DEF CInv, Answered
<1> QED
  BY <1>1, CommandsInvariant, PTL

\* cmdProcessCas replaces the very element its client was shown by gets.
THEOREM CommandsCas == CSpec => []CasReplacesWhatWasShown
<1>1. CInv => CasReplacesWhatWasShown
  BY DEF CInv, Answered
<1> QED
  BY <1>1, CommandsInvariant, PTL

\* What a handler answers is what happened when its engine calls took effect; get and
\* gets list the visible elements in the order asked for.
THEOREM CommandsAnswers == CSpec => []AnswersAreTrue
<1>1. CInv => AnswersAreTrue
  BY DEF CInv, Answered
<1> QED
  BY <1>1, CommandsInvariant, PTL

\* An element that a command stored expires when its client asked for, for every
\* width of unsigned long and of unsigned int that the assumptions admit.
THEOREM CommandsExpiry == CSpec => []ExpiryAsAsked
<1>1. CInv => ExpiryAsAsked
  BY DEF CInv, Answered
<1> QED
  BY <1>1, CommandsInvariant, PTL
=============================================================================
