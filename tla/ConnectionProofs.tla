--------------------------- MODULE ConnectionProofs ---------------------------
(***************************************************************************)
(* Proofs about Connection, for any commands, lengths, streams, buffer and *)
(* cuts of the stream by recv, on a build whose size_t is no wider than    *)
(* unsigned int (Narrow).  Line numbers are those of src/src/ssock.cpp.    *)
(*                                                                         *)
(* GInv says what holds of any bytes: data, persistentData and wire are    *)
(* the end of the stream, cut in three, and the counters stay small and    *)
(* true to them.  HInv adds where in the stream data begins: at the next   *)
(* request, unless the last end of line of a request was left behind.      *)
(* Both rest on the layout of the stream: lemmas about Joined and          *)
(* Encode, each by a least counterexample.                                 *)
(***************************************************************************)
EXTENDS Connection, SequenceTheorems, WellFoundedInduction, TLAPS
-----------------------------------------------------------------------------
(* What the results assume *)

\* n bounds the announced lengths, and a request of that length is far shorter than
\* what an unsigned int can count.
Short(n) == /\ \A c \in StorageCommands : Bytes[c] <= n
            /\ 4 * (n + BufferLen + 8) <= UIntMod

\* size_t is no wider than unsigned int, and requests are short.
Narrow == SizeMod = UIntMod /\ \E n \in Nat : Short(n)

Longest == CHOOSE n \in Nat : Short(n)

\* No more bytes than this come between an end of line and the end of the next.
Run == Longest + 5

-----------------------------------------------------------------------------
(* The general invariant *)

whole == EncodeAll(sent)
held == Len(data) + Len(persistentData) + Len(wire)

\* s is the part of w behind its first a bytes.
IsPart(s, w, a) ==
  /\ s \in Seq(Alphabet)
  /\ a \in Nat /\ a + Len(s) <= Len(w)
  /\ \A i \in 1 .. Len(s) : s[i] = w[a + i]

\* data, persistentData and wire are the end of the stream, cut in three.
Pieces ==
  /\ IsPart(data, whole, Len(whole) - held)
  /\ IsPart(persistentData, whole, Len(whole) - held + Len(data))
  /\ IsPart(wire, whole, Len(whole) - Len(wire))

\* The number of bytes of data that are known to be of the request.
Kept == IF pos = 0 THEN 0 ELSE pos + 2

\* From oldPos on there is no end of line in all but the last k bytes of data.
Scanned(k) == \A i \in pos + 2 .. Len(data) - k - 2 : ~IsEndl(data, i + 1)

\* The first end of line in data is at e.
HeaderAt(e) ==
  /\ e \in 0 .. pos /\ e <= Run + 2 /\ IsEndl(data, e + 1)
  /\ \A i \in 0 .. e - 1 : ~IsEndl(data, i + 1)

\* Data of a storage request are missing: the request ends behind the bytes its
\* command line announces, and no more are counted on.
InRequest ==
  /\ data[1] \in StorageCommands /\ IsEndl(data, pos + 1)
  /\ \E e \in 0 .. pos :
       /\ HeaderAt(e)
       /\ pos + 2 < e + Bytes[data[1]] + 4
       /\ readMore + (IF persistFlag THEN pos + 2 ELSE Len(data)) <= e + Bytes[data[1]] + 4

Reading ==
  /\ Kept <= Len(data) /\ (persistFlag => Kept < Len(data))
  /\ IF pos = 0 THEN readMore <= 0 ELSE InRequest
  /\ readMore <= Longest + 2 /\ Kept <= readMore + Len(data)
  /\ Scanned(IF pc = "scan" THEN BufferLen ELSE 0)
  /\ pc = "scan" => persistentData = <<>>
  /\ pc = "fill" =>
       /\ Len(persistentData) <= BufferLen
       /\ persistentData # <<>> => Len(data) = Kept /\ ~persistFlag

\* What cmdProcessCommand makes of a request.
IsHandled(r) ==
  \/ r = ERROR
  \/ r.command \in StorageCommands /\ Len(r.data) = Bytes[r.command]
  \/ r \in [command: Queries, data: {<<>>}]

GInv ==
  /\ sent \in Streams /\ gone \in BOOLEAN /\ persistFlag \in BOOLEAN
  /\ pc \in {"fill", "scan", "closed"}
  /\ pos \in 0 .. 2 * Run + Longest /\ readMore \in -(Run + BufferLen + 2) .. Longest + 2
  /\ handled \in Seq(Range(handled)) /\ \A i \in DOMAIN handled : IsHandled(handled[i])
  /\ Pieces
  /\ pc # "closed" => Reading

-----------------------------------------------------------------------------
(* Requests as they were sent *)

\* What is handled is what was sent, and data begins with the next request.
InStep ==
  /\ Len(handled) <= Len(sent)
  /\ \A i \in 1 .. Len(handled) : handled[i] = sent[i]
  /\ held = Len(whole) - Len(EncodeAll(handled))

\* The last end of line of the last request was left behind.
LeftBehind ==
  /\ Len(handled) = Len(sent)
  /\ \A i \in 1 .. Len(handled) : handled[i] = sent[i]
  /\ Len(sent) > 0 /\ Detached(sent[Len(sent)])
  /\ held = 2

\* A detached request has been handled and others follow.
OutOfStep ==
  /\ Clear < Len(sent) /\ Clear <= Len(handled)
  /\ \A i \in 1 .. Clear : handled[i] = sent[i]

HInv == GInv /\ (InStep \/ LeftBehind \/ OutOfStep)
-----------------------------------------------------------------------------
(* Numbers *)

\* The lengths that Narrow speaks of.
LEMMA Widths ==
  ASSUME Narrow
  PROVE  /\ Longest \in Nat /\ BufferLen \in Nat /\ UIntMod \in Nat /\ SizeMod = UIntMod
         /\ 0 < BufferLen /\ 0 < UIntMod
         /\ 4 * (Longest + BufferLen + 8) <= UIntMod
         /\ \A c \in StorageCommands : Bytes[c] \in Nat /\ Bytes[c] <= Longest
<1>1. Longest \in Nat /\ Short(Longest)
  BY Zenon DEF Narrow, Longest
<1>2. \A c \in StorageCommands : Bytes[c] \in Nat
  BY CommandsAssumption
<1> QED
  BY <1>1, <1>2, WidthsAssumption DEF Narrow, Short

\* An unsigned int holds what is smaller than its modulus.
LEMMA UIntSmall ==
  ASSUME NEW n \in Nat, n < UIntMod
  PROVE  UInt(n) = n
BY WidthsAssumption DEF UInt

\* An int holds what is half as large.
LEMMA Int32Small ==
  ASSUME NEW n \in Int, -UIntMod < 2 * n, 2 * n < UIntMod - 1
  PROVE  Int32(n) = n
<1> DEFINE h == UIntMod \div 2
<1>1. UIntMod \in Nat /\ 0 < UIntMod
  BY WidthsAssumption
<1>2. h \in Nat /\ 2 * h <= UIntMod /\ UIntMod <= 2 * h + 1
  BY <1>1
<1> HIDE DEF h
<1>3. n + h \in 0 .. UIntMod - 1
  BY <1>1, <1>2
<1>4. (n + h) % UIntMod = n + h
  BY <1>1, <1>3
<1>5. Int32(n) = ((n + h) % UIntMod) - h
  BY Zenon DEF Int32, h
<1> QED
  BY <1>2, <1>4, <1>5

\* A set of numbers that is not empty has a least one.
LEMMA Least ==
  ASSUME NEW T, T \subseteq Nat, T # {}
  PROVE  \E n \in T : \A m \in T : n <= m
<1> DEFINE R == {p \in Nat \X Nat : p[1] < p[2]}
<1>1. IsWellFoundedOn(R, Nat)
  BY NatLessThanWellFounded DEF OpToRel
<1>2. \A m, n \in Nat : <<m, n>> \notin R => n <= m
  OBVIOUS
<1> HIDE DEF R
<1>3. PICK n \in T : \A m \in T : <<m, n>> \notin R
  BY <1>1, WFMin, Zenon
<1> QED
  BY <1>2, <1>3, Zenon

\* The same for numbers up to a bound.
LEMMA LeastUpto ==
  ASSUME NEW n \in Nat, NEW T, T \subseteq 0 .. n, T # {}
  PROVE  \E i \in T : \A j \in T : i <= j
<1>1. T \subseteq Nat
  OBVIOUS
<1> QED
  BY <1>1, Least, Zenon

-----------------------------------------------------------------------------
(* Parts of a sequence *)

\* Two parts that follow one another are one part (data.append).
LEMMA PartConcat ==
  ASSUME NEW w, Len(w) \in Nat, NEW a, NEW s, IsPart(s, w, a), NEW t, IsPart(t, w, a + Len(s))
  PROVE  IsPart(s \o t, w, a) /\ Len(s \o t) = Len(s) + Len(t)
<1>1. /\ s \in Seq(Alphabet) /\ t \in Seq(Alphabet) /\ a \in Nat /\ Len(s) \in Nat /\ Len(t) \in Nat
      /\ a + Len(s) + Len(t) <= Len(w)
      /\ \A i \in 1 .. Len(s) : s[i] = w[a + i]
      /\ \A i \in 1 .. Len(t) : t[i] = w[a + Len(s) + i]
  BY DEF IsPart
<1>2. /\ s \o t \in Seq(Alphabet) /\ Len(s \o t) = Len(s) + Len(t)
      /\ \A i \in 1 .. Len(s) + Len(t) : (s \o t)[i] = IF i <= Len(s) THEN s[i] ELSE t[i - Len(s)]
  BY <1>1, ConcatProperties
<1>3. ASSUME NEW i \in 1 .. Len(s) + Len(t)
      PROVE  (s \o t)[i] = w[a + i]
  <2>1. CASE i <= Len(s)
    BY <1>1, <1>2, <2>1
  <2>2. CASE i > Len(s)
    <3>1. i - Len(s) \in 1 .. Len(t) /\ a + Len(s) + (i - Len(s)) = a + i
      BY <1>1, <2>2
    <3>2. (s \o t)[i] = t[i - Len(s)]
      BY <1>1, <1>2, <2>2
    <3> QED
      BY <1>1, <3>1, <3>2
  <2> QED
    BY <1>1, <2>1, <2>2
<1> QED
  BY <1>1, <1>2, <1>3 DEF IsPart

\* Cutting a part gives two (data.substr).
LEMMA PartCut ==
  ASSUME NEW w, Len(w) \in Nat, NEW a, NEW s, IsPart(s, w, a), NEW k \in 0 .. Len(s)
  PROVE  /\ IsPart(SubSeq(s, 1, k), w, a) /\ Len(SubSeq(s, 1, k)) = k
         /\ IsPart(SubSeq(s, k + 1, Len(s)), w, a + k) /\ Len(SubSeq(s, k + 1, Len(s))) = Len(s) - k
<1>1. /\ s \in Seq(Alphabet) /\ a \in Nat /\ Len(s) \in Nat /\ k \in Nat /\ k <= Len(s)
      /\ a + Len(s) <= Len(w) /\ \A i \in 1 .. Len(s) : s[i] \in Alphabet /\ s[i] = w[a + i]
  BY DEF IsPart
<1>2. /\ SubSeq(s, 1, k) \in Seq(Alphabet) /\ Len(SubSeq(s, 1, k)) = k
      /\ \A i \in 1 .. k : SubSeq(s, 1, k)[i] = s[i]
  <2>1. \A i \in 1 .. k : s[i] \in Alphabet
    BY <1>1
  <2> QED
    BY <1>1, <2>1, SubSeqProperties
<1>3. /\ SubSeq(s, k + 1, Len(s)) \in Seq(Alphabet) /\ Len(SubSeq(s, k + 1, Len(s))) = Len(s) - k
      /\ \A i \in 1 .. Len(s) - k : SubSeq(s, k + 1, Len(s))[i] = s[k + i]
  <2>1. \A i \in k + 1 .. Len(s) : s[i] \in Alphabet
    BY <1>1
  <2> QED
    BY <1>1, <2>1, SubSeqProperties
<1>4. IsPart(SubSeq(s, 1, k), w, a)
  BY <1>1, <1>2 DEF IsPart
<1>5. IsPart(SubSeq(s, k + 1, Len(s)), w, a + k)
  <2>1. \A i \in 1 .. Len(s) - k : k + i \in 1 .. Len(s) /\ a + (k + i) = a + k + i
    BY <1>1
  <2>2. \A i \in 1 .. Len(s) - k : SubSeq(s, k + 1, Len(s))[i] = w[a + k + i]
    BY <1>1, <1>3, <2>1
  <2>3. a + k \in Nat /\ a + k + (Len(s) - k) <= Len(w)
    BY <1>1
  <2> QED
    BY <1>3, <2>2, <2>3, Zenon DEF IsPart
<1> QED
  BY <1>2, <1>3, <1>4, <1>5

\* Nothing is a part.
LEMMA PartEmpty ==
  ASSUME NEW w, Len(w) \in Nat, NEW a \in Nat, a <= Len(w)
  PROVE  IsPart(<<>>, w, a)
<1>1. <<>> \in Seq(Alphabet) /\ Len(<<>>) = 0
  OBVIOUS
<1>2. 1 .. Len(<<>>) = {}
  BY <1>1
<1> QED
  BY <1>1, <1>2 DEF IsPart

-----------------------------------------------------------------------------
(* Joined *)

\* g holds the concatenations of the first sequences of q.
Sums(g, q) == g = [i \in 1 .. Len(q) |-> IF i = 1 THEN q[i] ELSE g[i - 1] \o q[i]]

\* There is such a function.
LEMMA SumsExist ==
  ASSUME NEW q, Len(q) \in Nat
  PROVE  \E g : Sums(g, q)
<1> DEFINE Upto(g, n) == g = [i \in 1 .. n |-> IF i = 1 THEN q[i] ELSE g[i - 1] \o q[i]]
           T == {n \in 0 .. Len(q) : ~ \E g : Upto(g, n)}
<1>1. SUFFICES ASSUME T # {} PROVE FALSE
  <2>1. Len(q) \in 0 .. Len(q)
    OBVIOUS
  <2> QED
    BY <1>1, <2>1, Zenon DEF Sums
<1>2. T \subseteq 0 .. Len(q)
  BY Zenon
<1>3. PICK n \in T : \A m \in T : n <= m
  BY <1>1, <1>2, LeastUpto, Zenon
<1>4. n # 0
  <2> DEFINE none == [i \in 1 .. 0 |-> q[i]]
  <2>1. none = [i \in 1 .. 0 |-> IF i = 1 THEN q[i] ELSE none[i - 1] \o q[i]]
    <3>1. 1 .. 0 = {}
      OBVIOUS
    <3> QED
      BY <3>1, Zenon
  <2> QED
    BY <1>3, <2>1, Zenon
<1>5. n - 1 \in 0 .. Len(q) /\ ~(n <= n - 1)
  BY <1>3, <1>4
<1>6. PICK h : Upto(h, n - 1)
  BY <1>3, <1>5, Zenon
<1> DEFINE g == [i \in 1 .. n |-> IF i = 1 THEN q[i] ELSE IF i = n THEN h[n - 1] \o q[n] ELSE h[i]]
<1>7. ASSUME NEW i \in 1 .. n
      PROVE  g[i] = IF i = 1 THEN q[i] ELSE g[i - 1] \o q[i]
  <2>0. n \in Nat
    BY <1>3
  <2>1. CASE i = 1
    BY <2>1
  <2>2. CASE i # 1 /\ i # n
    <3>1. i \in 1 .. n - 1 /\ i - 1 \in 1 .. n - 1 /\ i - 1 # n /\ i - 1 \in 1 .. n
      BY <2>0, <2>2
    <3>2. h[i] = h[i - 1] \o q[i] /\ (i - 1 = 1 => h[i - 1] = q[i - 1])
      BY <1>6, <2>2, <3>1, Zenon
    <3> QED
      BY <2>2, <3>1, <3>2, Zenon
  <2>3. CASE i # 1 /\ i = n
    <3>1. n - 1 \in 1 .. n - 1 /\ n - 1 \in 1 .. n /\ n - 1 # n
      BY <2>0, <2>3
    <3>2. n - 1 = 1 => h[n - 1] = q[n - 1]
      BY <1>6, <3>1, Zenon
    <3> QED
      BY <2>3, <3>1, <3>2, Zenon
  <2> QED
    BY <2>1, <2>2, <2>3
<1>8. g = [i \in 1 .. n |-> g[i]]
  OBVIOUS
<1>9. Upto(g, n)
  <2> HIDE DEF g
  <2> QED
    BY <1>7, <1>8, Zenon
<1> QED
  BY <1>3, <1>9, Zenon

\* What Joined computes.
LEMMA JoinedSums ==
  ASSUME NEW q, Len(q) \in Nat, Len(q) # 0
  PROVE  \E g : Sums(g, q) /\ Joined(q) = g[Len(q)]
<1> DEFINE f == CHOOSE g : Sums(g, q)
<1>1. Sums(f, q)
  BY SumsExist, Zenon
<1>2. Joined(q) = f[Len(q)]
  <2>1. q # <<>>
    OBVIOUS
  <2> QED
    BY <2>1, Zenon DEF Joined, Sums
<1> HIDE DEF f
<1> QED
  BY <1>1, <1>2

\* The sums of a longer sequence begin with those of a shorter.
LEMMA SumsAgree ==
  ASSUME NEW q, NEW p, NEW g, NEW h, Sums(g, q), Sums(h, p), Len(q) \in Nat, Len(p) \in Nat,
         Len(q) <= Len(p), \A i \in 1 .. Len(q) : q[i] = p[i]
  PROVE  \A i \in 1 .. Len(q) : g[i] = h[i]
<1> DEFINE T == {i \in 1 .. Len(q) : g[i] # h[i]}
<1>1. SUFFICES ASSUME T # {} PROVE FALSE
  BY <1>1, Zenon
<1>2. T \subseteq Nat
  OBVIOUS
<1>3. PICK n \in T : \A m \in T : n <= m
  BY <1>1, <1>2, Least, Zenon
<1>4. n \in 1 .. Len(q) /\ n \in 1 .. Len(p) /\ g[n] # h[n] /\ n \in Nat
  BY <1>3
<1>5. /\ g[n] = IF n = 1 THEN q[n] ELSE g[n - 1] \o q[n]
      /\ h[n] = IF n = 1 THEN p[n] ELSE h[n - 1] \o p[n]
  BY <1>4, Zenon DEF Sums
<1>6. n # 1
  BY <1>4, <1>5
<1>7. n - 1 \in 1 .. Len(q) /\ ~(n <= n - 1)
  BY <1>4, <1>6
<1>8. g[n - 1] = h[n - 1]
  BY <1>3, <1>7, Zenon
<1> QED
  BY <1>4, <1>5, <1>6, <1>8, Zenon

\* Joining a sequence of sequences gives a sequence.
LEMMA JoinedType ==
  ASSUME NEW S, NEW q \in Seq(Seq(S))
  PROVE  Joined(q) \in Seq(S)
<1>0. Len(q) \in Nat /\ \A i \in 1 .. Len(q) : q[i] \in Seq(S)
  OBVIOUS
<1>1. CASE Len(q) = 0
  <2>1. q = <<>>
    BY <1>1
  <2>2. Joined(q) = q
    BY <2>1, Zenon DEF Joined
  <2> QED
    BY <2>1, <2>2, EmptySeq, Zenon
<1>2. CASE Len(q) # 0
  <2>1. PICK g : Sums(g, q) /\ Joined(q) = g[Len(q)]
    BY <1>0, <1>2, JoinedSums, Zenon
  <2> DEFINE T == {i \in 1 .. Len(q) : g[i] \notin Seq(S)}
  <2>2. SUFFICES ASSUME T # {} PROVE FALSE
    <3>1. Len(q) \in 1 .. Len(q)
      BY <1>0, <1>2
    <3> QED
      BY <2>1, <2>2, <3>1, Zenon
  <2>3. T \subseteq Nat
    OBVIOUS
  <2>4. PICK n \in T : \A m \in T : n <= m
    BY <2>2, <2>3, Least, Zenon
  <2>5. n \in 1 .. Len(q) /\ g[n] \notin Seq(S) /\ n \in Nat
    BY <2>4
  <2>6. g[n] = IF n = 1 THEN q[n] ELSE g[n - 1] \o q[n]
    BY <2>1, <2>5, Zenon DEF Sums
  <2>7. n # 1
    BY <1>0, <2>5, <2>6
  <2>8. n - 1 \in 1 .. Len(q) /\ ~(n <= n - 1)
    BY <1>0, <2>5, <2>7
  <2>9. g[n - 1] \in Seq(S)
    BY <2>4, <2>8, Zenon
  <2> QED
    BY <1>0, <2>5, <2>6, <2>7, <2>9, ConcatProperties
<1> QED
  BY <1>1, <1>2

\* One more sequence is appended to the joined one.
LEMMA JoinedAppend ==
  ASSUME NEW S, NEW q \in Seq(Seq(S)), NEW s \in Seq(S)
  PROVE  Joined(Append(q, s)) = Joined(q) \o s
<1> DEFINE p == Append(q, s)
<1>0. /\ Len(q) \in Nat /\ Len(p) = Len(q) + 1 /\ Len(p) \in Nat /\ Len(p) # 0
      /\ Len(q) <= Len(p) /\ p[Len(q) + 1] = s
      /\ \A i \in 1 .. Len(q) : q[i] = p[i]
  OBVIOUS
<1> HIDE DEF p
<1>1. PICK h : Sums(h, p) /\ Joined(p) = h[Len(p)]
  BY <1>0, JoinedSums, Zenon
<1>2. h[Len(p)] = IF Len(p) = 1 THEN p[Len(p)] ELSE h[Len(p) - 1] \o p[Len(p)]
  <2>1. Len(p) \in 1 .. Len(p)
    BY <1>0
  <2> QED
    BY <1>1, <2>1, Zenon DEF Sums
<1>3. CASE Len(q) = 0
  <2>1. q = <<>>
    BY <1>3
  <2>2. Joined(q) = q
    BY <2>1, Zenon DEF Joined
  <2>3. <<>> \o s = s
    OBVIOUS
  <2>4. h[Len(p)] = s
    BY <1>0, <1>2, <1>3
  <2> QED
    BY <1>1, <2>1, <2>2, <2>3, <2>4 DEF p
<1>4. CASE Len(q) # 0
  <2>1. PICK g : Sums(g, q) /\ Joined(q) = g[Len(q)]
    BY <1>0, <1>4, JoinedSums, Zenon
  <2>2. g[Len(q)] = h[Len(q)]
    <3>1. Len(q) \in 1 .. Len(q)
      BY <1>0, <1>4
    <3> QED
      BY <1>0, <1>1, <2>1, <3>1, SumsAgree
  <2>3. h[Len(p)] = h[Len(q)] \o s
    <3>1. Len(p) # 1 /\ Len(p) - 1 = Len(q)
      BY <1>0, <1>4
    <3> QED
      BY <1>0, <1>2, <3>1, Zenon
  <2> QED
    BY <1>1, <2>1, <2>2, <2>3 DEF p
<1> QED
  BY <1>3, <1>4

-----------------------------------------------------------------------------
(* Streams *)

\* A sequence is one of its own elements.
LEMMA OwnElements ==
  ASSUME NEW S, NEW s \in Seq(S)
  PROVE  s \in Seq(Range(s))
<1>1. Len(s) \in Nat /\ s \in [1 .. Len(s) -> S] /\ DOMAIN s = 1 .. Len(s)
  BY LenProperties, Zenon
<1>2. \A i \in 1 .. Len(s) : s[i] \in Range(s)
  BY <1>1, Zenon DEF Range
<1>3. s \in [1 .. Len(s) -> Range(s)]
  BY <1>1, <1>2, Zenon
<1> QED
  BY <1>1, <1>3

\* The elements of a concatenation.
LEMMA ConcatFacts ==
  \A S : \A s, t \in Seq(S) :
    /\ s \o t \in Seq(S) /\ Len(s \o t) = Len(s) + Len(t) /\ Len(s) \in Nat /\ Len(t) \in Nat
    /\ \A i \in 1 .. Len(s) + Len(t) : (s \o t)[i] = IF i <= Len(s) THEN s[i] ELSE t[i - Len(s)]
BY ConcatProperties

\* Two bytes and an end of line.
LEMMA LineFacts ==
  \A S, a, b, x, y : a \in S /\ b \in S /\ x \in S /\ y \in S =>
    /\ <<a, b>> \o <<x, y>> \in Seq(S) /\ Len(<<a, b>> \o <<x, y>>) = 4
    /\ (<<a, b>> \o <<x, y>>)[1] = a /\ (<<a, b>> \o <<x, y>>)[2] = b
    /\ (<<a, b>> \o <<x, y>>)[3] = x /\ (<<a, b>> \o <<x, y>>)[4] = y
OBVIOUS

\* Data and an end of line.
LEMMA EndFacts ==
  \A S, d, x, y : d \in Seq(S) /\ x \in S /\ y \in S =>
    /\ d \o <<x, y>> \in Seq(S) /\ Len(d \o <<x, y>>) = Len(d) + 2
    /\ (d \o <<x, y>>)[Len(d) + 1] = x /\ (d \o <<x, y>>)[Len(d) + 2] = y
    /\ \A i \in 1 .. Len(d) : (d \o <<x, y>>)[i] = d[i]
OBVIOUS

\* A command line and what follows it.
LEMMA TailFacts ==
  \A S, h, t : h \in Seq(S) /\ t \in Seq(S) /\ Len(h) = 4 =>
    /\ h \o t \in Seq(S) /\ Len(h \o t) = 4 + Len(t)
    /\ \A i \in 1 .. 4 : (h \o t)[i] = h[i]
    /\ \A i \in 1 .. Len(t) : (h \o t)[4 + i] = t[i]
<1> SUFFICES ASSUME NEW S, NEW h, NEW t, h \in Seq(S) /\ t \in Seq(S) /\ Len(h) = 4
             PROVE  /\ h \o t \in Seq(S) /\ Len(h \o t) = 4 + Len(t)
                    /\ \A i \in 1 .. 4 : (h \o t)[i] = h[i]
                    /\ \A i \in 1 .. Len(t) : (h \o t)[4 + i] = t[i]
  BY Zenon
<1> DEFINE e == h \o t
<1>1. /\ e \in Seq(S) /\ Len(e) = 4 + Len(t) /\ Len(t) \in Nat
      /\ \A i \in 1 .. 4 + Len(t) : e[i] = IF i <= 4 THEN h[i] ELSE t[i - 4]
  <2>1. /\ e \in Seq(S) /\ Len(e) = Len(h) + Len(t) /\ Len(t) \in Nat
        /\ \A i \in 1 .. Len(h) + Len(t) : e[i] = IF i <= Len(h) THEN h[i] ELSE t[i - Len(h)]
    BY ConcatFacts, Zenon
  <2> HIDE DEF e
  <2> QED
    BY <2>1, Zenon
<1> HIDE DEF e
<1>2. \A i \in 1 .. 4 : e[i] = h[i]
  BY <1>1
<1>3. ASSUME NEW i \in 1 .. Len(t)
      PROVE  e[4 + i] = t[i]
  <2>1. 4 + i \in 1 .. 4 + Len(t) /\ ~(4 + i <= 4) /\ (4 + i) - 4 = i
    BY <1>1
  <2> QED
    BY <1>1, <2>1, Zenon
<1> QED
  BY <1>1, <1>2, <1>3, Zenon DEF e

\* A function on 1 .. n is a sequence of length n.
LEMMA FunctionIsSeq ==
  ASSUME NEW S, NEW n \in Nat, NEW f \in [1 .. n -> S]
  PROVE  f \in Seq(S) /\ Len(f) = n
OBVIOUS

\* The bytes of a request.
LEMMA EncodeFacts ==
  ASSUME NEW r, IsRequest(r)
  PROVE  /\ Len(r.data) \in Nat /\ r.command \in Commands /\ r.command \notin {CR, LF}
         /\ r = [command |-> r.command, data |-> r.data]
         /\ Encode(r) \in Seq(Range(Encode(r)))
         /\ Encode(r)[1] = r.command /\ Encode(r)[2] = "."
         /\ Encode(r)[3] = CR /\ Encode(r)[4] = LF
         /\ r.command \notin StorageCommands => r.data = <<>> /\ Len(Encode(r)) = 4
         /\ r.command \in StorageCommands =>
              /\ Len(r.data) = Bytes[r.command] /\ Len(Encode(r)) = Len(r.data) + 6
              /\ \A i \in 1 .. Len(r.data) : Encode(r)[4 + i] = r.data[i]
              /\ Encode(r)[Len(r.data) + 5] = CR /\ Encode(r)[Len(r.data) + 6] = LF
<1> DEFINE S == Range(r.data) \cup {r.command, ".", CR, LF}
           n == Len(r.data)
           h == <<r.command, ".">> \o CRLF
           t == r.data \o CRLF
<1>1. /\ r.data \in Seq(Range(r.data)) /\ r.command \in Commands
      /\ r = [command |-> r.command, data |-> r.data]
      /\ n = IF r.command \in StorageCommands THEN Bytes[r.command] ELSE 0
  BY Zenon DEF IsRequest
<1>2. r.data \in Seq(S) /\ n \in Nat
  <2>1. Range(r.data) \subseteq S
    BY Zenon
  <2> QED
    BY <1>1, <2>1, SeqMonotonic, LenProperties, Zenon
<1>4. /\ h \in Seq(S) /\ Len(h) = 4 /\ h[1] = r.command /\ h[2] = "." /\ h[3] = CR /\ h[4] = LF
  <2>1. r.command \in S /\ "." \in S /\ CR \in S /\ LF \in S
    BY Zenon
  <2> HIDE DEF S
  <2> QED
    BY <2>1, LineFacts DEF CRLF
<1>5. /\ t \in Seq(S) /\ Len(t) = n + 2 /\ t[n + 1] = CR /\ t[n + 2] = LF
      /\ \A i \in 1 .. n : t[i] = r.data[i]
  <2>1. CR \in S /\ LF \in S
    BY Zenon
  <2> HIDE DEF S
  <2> QED
    BY <1>2, <2>1, EndFacts DEF CRLF
<1>6. r.command \notin {CR, LF}
  BY <1>1, CommandsAssumption, Zenon
<1>7. CASE r.command \notin StorageCommands
  <2>1. Encode(r) = h \o <<>>
    BY <1>7, Zenon DEF Encode
  <2>2. h \o <<>> = h
    BY <1>4, ConcatEmptySeq, Zenon
  <2>3. r.data = <<>>
    BY <1>1, <1>7
  <2> HIDE DEF h
  <2>4. h \in Seq(Range(h))
    BY <1>4, OwnElements, Zenon
  <2> QED
    BY <1>1, <1>2, <1>4, <1>6, <1>7, <2>1, <2>2, <2>3, <2>4, Zenon
<1>8. CASE r.command \in StorageCommands
  <2> DEFINE e == h \o t
  <2>1. Encode(r) = e
    BY <1>8, Zenon DEF Encode
  <2> HIDE DEF S, h, t
  <2>2. /\ e \in Seq(S) /\ Len(e) = 4 + (n + 2)
        /\ \A i \in 1 .. 4 : e[i] = h[i]
        /\ \A i \in 1 .. n + 2 : e[4 + i] = t[i]
    <3>1. /\ e \in Seq(S) /\ Len(e) = 4 + Len(t)
          /\ \A i \in 1 .. 4 : e[i] = h[i]
          /\ \A i \in 1 .. Len(t) : e[4 + i] = t[i]
      <4>1. h \in Seq(S) /\ t \in Seq(S) /\ Len(h) = 4
        BY <1>4, <1>5, Zenon
      <4> QED
        BY <4>1, TailFacts
    <3> HIDE DEF e
    <3> QED
      BY <1>5, <3>1, Zenon
  <2> HIDE DEF e, n
  <2>3. /\ e[1] = h[1] /\ e[2] = h[2] /\ e[3] = h[3] /\ e[4] = h[4]
        /\ e[n + 5] = t[n + 1] /\ e[n + 6] = t[n + 2] /\ \A i \in 1 .. n : e[4 + i] = t[i]
    BY <1>2, <2>2
  <2>4. e \in Seq(Range(e))
    BY <2>2, OwnElements, Zenon
  <2>5. Len(e) = n + 6
    BY <1>2, <2>2
  <2>6. \A i \in 1 .. n : e[4 + i] = r.data[i]
    BY <1>5, <2>3, Zenon
  <2> QED
    BY <1>1, <1>2, <1>4, <1>5, <1>6, <1>8, <2>1, <2>3, <2>4, <2>5, <2>6, Zenon DEF n
<1> QED
  BY <1>7, <1>8

\* One more request, and its bytes come last.
LEMMA EncodeAllAppend ==
  ASSUME NEW R, \A x \in R : IsRequest(x), NEW rs \in Seq(R), NEW r \in R
  PROVE  /\ EncodeAll(rs) \in Seq(UNION {Range(Encode(x)) : x \in R})
         /\ Encode(r) \in Seq(UNION {Range(Encode(x)) : x \in R})
         /\ EncodeAll(Append(rs, r)) = EncodeAll(rs) \o Encode(r)
<1> DEFINE S == UNION {Range(Encode(x)) : x \in R}
           q == [i \in DOMAIN rs |-> Encode(rs[i])]
           p == [i \in DOMAIN Append(rs, r) |-> Encode(Append(rs, r)[i])]
<1>1. ASSUME NEW x \in R
      PROVE  Encode(x) \in Seq(S)
  <2>1. Range(Encode(x)) \subseteq S
    BY Zenon
  <2>2. Encode(x) \in Seq(Range(Encode(x)))
    BY EncodeFacts, Zenon
  <2> QED
    BY <2>1, <2>2, SeqMonotonic, Zenon
<1>2. /\ DOMAIN rs = 1 .. Len(rs) /\ Len(rs) \in Nat /\ \A i \in 1 .. Len(rs) : rs[i] \in R
      /\ DOMAIN Append(rs, r) = 1 .. Len(rs) + 1 /\ Append(rs, r)[Len(rs) + 1] = r
      /\ \A i \in 1 .. Len(rs) : Append(rs, r)[i] = rs[i]
  OBVIOUS
<1> HIDE DEF S
<1>3. q \in Seq(Seq(S)) /\ Len(q) = Len(rs)
  <2>1. q \in [1 .. Len(rs) -> Seq(S)]
    BY <1>1, <1>2, Zenon
  <2> HIDE DEF q
  <2> QED
    BY <1>2, <2>1, FunctionIsSeq, Zenon
<1>4. p = Append(q, Encode(r))
  <2>1. DOMAIN p = 1 .. Len(rs) + 1 /\ DOMAIN q = 1 .. Len(rs)
    BY <1>2, Zenon
  <2>2. p[Len(rs) + 1] = Encode(r)
    <3>1. Len(rs) + 1 \in 1 .. Len(rs) + 1
      BY <1>2
    <3> QED
      BY <1>2, <3>1, Zenon
  <2>3. ASSUME NEW i \in 1 .. Len(rs)
        PROVE  p[i] = q[i] /\ p[i] \in Seq(S)
    <3>1. i \in 1 .. Len(rs) + 1
      BY <1>2
    <3> QED
      BY <1>1, <1>2, <3>1, Zenon
  <2>4. p = [i \in 1 .. Len(rs) + 1 |-> p[i]]
    BY <1>2, Zenon
  <2> HIDE DEF p, q
  <2>5. Encode(r) \in Seq(S)
    BY <1>1
  <2>6. p \in Seq(Seq(S)) /\ Len(p) = Len(rs) + 1
    <3>1. ASSUME NEW i \in 1 .. Len(rs) + 1
          PROVE  p[i] \in Seq(S)
      <4>1. i \in 1 .. Len(rs) \/ i = Len(rs) + 1
        BY <1>2
      <4> QED
        BY <2>2, <2>3, <2>5, <4>1, Zenon
    <3>2. p \in [1 .. Len(rs) + 1 -> Seq(S)]
      BY <2>4, <3>1, Zenon
    <3>3. Len(rs) + 1 \in Nat
      BY <1>2
    <3> QED
      BY <3>2, <3>3, FunctionIsSeq, Zenon
  <2>7. /\ Append(q, Encode(r)) \in Seq(Seq(S)) /\ Len(Append(q, Encode(r))) = Len(rs) + 1
        /\ \A i \in 1 .. Len(rs) : Append(q, Encode(r))[i] = q[i]
        /\ Append(q, Encode(r))[Len(rs) + 1] = Encode(r)
    BY <1>3, <2>5
  <2>8. \A i \in 1 .. Len(p) : p[i] = Append(q, Encode(r))[i]
    BY <1>2, <2>2, <2>3, <2>6, <2>7
  <2> QED
    BY <2>6, <2>7, <2>8, SeqEqual, Zenon
<1>5. EncodeAll(rs) = Joined(q) /\ EncodeAll(Append(rs, r)) = Joined(p)
  BY Zenon DEF EncodeAll
<1> HIDE DEF p, q
<1>6. Joined(q) \in Seq(S)
  BY <1>3, JoinedType, Zenon
<1>7. Joined(p) = Joined(q) \o Encode(r)
  BY <1>1, <1>3, <1>4, JoinedAppend, Zenon
<1> QED
  BY <1>1, <1>5, <1>6, <1>7, Zenon DEF S

\* The bytes of the first k requests.
FirstBytes(s, k) == EncodeAll(SubSeq(s, 1, k))

\* No requests, no bytes.
LEMMA EncodeNone == EncodeAll(<<>>) = <<>>
<1> DEFINE q == [i \in DOMAIN <<>> |-> Encode(<<>>[i])]
<1>1. DOMAIN q = 1 .. 0
  OBVIOUS
<1>2. q \in [1 .. 0 -> {}]
  OBVIOUS
<1>3. EncodeAll(<<>>) = Joined(q)
  BY Zenon DEF EncodeAll
<1> HIDE DEF q
<1>4. q \in Seq({}) /\ Len(q) = 0
  BY <1>2, FunctionIsSeq
<1>5. q = <<>>
  BY <1>4, EmptySeq
<1> QED
  BY <1>3, <1>5, Zenon DEF Joined

\* One more request: a step of the induction below.
LEMMA NextBytes ==
  ASSUME NEW s \in Streams, NEW k \in 1 .. Len(s)
  PROVE  LET S == UNION {Range(Encode(x)) : x \in Range(s)}
         IN /\ FirstBytes(s, k - 1) \in Seq(S) /\ Encode(s[k]) \in Seq(S)
            /\ FirstBytes(s, k) = FirstBytes(s, k - 1) \o Encode(s[k])
<1> DEFINE R == Range(s)
<1>1. s \in Seq(R) /\ \A x \in R : IsRequest(x)
  BY CommandsAssumption, Zenon
<1> HIDE DEF R
<1>2. Len(s) \in Nat /\ s[k] \in R /\ k \in Nat /\ 1 <= k /\ k <= Len(s)
  BY <1>1
<1>3. SubSeq(s, 1, k) = Append(SubSeq(s, 1, k - 1), s[k]) /\ SubSeq(s, 1, k - 1) \in Seq(R)
  <2>1. /\ SubSeq(s, 1, k) \in Seq(R) /\ Len(SubSeq(s, 1, k)) = k
        /\ \A i \in 1 .. k : SubSeq(s, 1, k)[i] = s[i]
    BY <1>1, <1>2
  <2>2. /\ SubSeq(s, 1, k - 1) \in Seq(R) /\ Len(SubSeq(s, 1, k - 1)) = k - 1
        /\ \A i \in 1 .. k - 1 : SubSeq(s, 1, k - 1)[i] = s[i]
    BY <1>1, <1>2
  <2> DEFINE p == SubSeq(s, 1, k - 1)
             q == SubSeq(s, 1, k)
  <2> HIDE DEF p, q
  <2>3. /\ Append(p, s[k]) \in Seq(R) /\ Len(Append(p, s[k])) = k
        /\ \A i \in 1 .. k - 1 : Append(p, s[k])[i] = s[i]
        /\ Append(p, s[k])[k] = s[k]
    BY <1>2, <2>2 DEF p
  <2>4. \A i \in 1 .. k : Append(p, s[k])[i] = s[i]
    <3>1. \A i \in 1 .. k : i \in 1 .. k - 1 \/ i = k
      BY <1>2
    <3> QED
      BY <2>3, <3>1, Zenon
  <2>5. q = Append(p, s[k])
    BY <2>1, <2>3, <2>4, SeqEqual DEF q
  <2> QED
    BY <2>2, <2>5, Zenon DEF p, q
<1>4. /\ EncodeAll(SubSeq(s, 1, k - 1)) \in Seq(UNION {Range(Encode(x)) : x \in R})
      /\ Encode(s[k]) \in Seq(UNION {Range(Encode(x)) : x \in R})
      /\ EncodeAll(SubSeq(s, 1, k)) = EncodeAll(SubSeq(s, 1, k - 1)) \o Encode(s[k])
  BY <1>1, <1>2, <1>3, EncodeAllAppend, Zenon
<1> QED
  BY <1>4, Zenon DEF R, FirstBytes

\* The bytes of a stream, request by request.
LEMMA StreamFacts ==
  ASSUME NEW s \in Streams
  PROVE  /\ Len(s) \in Nat /\ s \in Seq(Range(s)) /\ \A i \in 1 .. Len(s) : IsRequest(s[i])
         /\ EncodeAll(s) \in Seq(Alphabet)
         /\ FirstBytes(s, 0) = <<>> /\ FirstBytes(s, Len(s)) = EncodeAll(s)
<1> DEFINE R == Range(s)
           S == UNION {Range(Encode(x)) : x \in R}
<1>1. s \in Seq(R) /\ \A x \in R : IsRequest(x)
  BY CommandsAssumption, Zenon
<1>2. Len(s) \in Nat /\ \A i \in 1 .. Len(s) : IsRequest(s[i])
  <2> HIDE DEF R
  <2> QED
    BY <1>1
<1>3. FirstBytes(s, 0) = <<>>
  <2>1. SubSeq(s, 1, 0) = <<>>
    BY <1>1
  <2> QED
    BY <2>1, EncodeNone, Zenon DEF FirstBytes
<1>4. FirstBytes(s, Len(s)) = EncodeAll(s)
  <2>1. SubSeq(s, 1, Len(s)) = s
    BY <1>1, SubSeqFull, Zenon
  <2> QED
    BY <2>1, Zenon DEF FirstBytes
<1>5. EncodeAll(s) \in Seq(S)
  <2>1. CASE Len(s) = 0
    <3>1. <<>> \in Seq(S)
      BY EmptySeq, Zenon
    <3> QED
      BY <1>3, <1>4, <2>1, <3>1, Zenon
  <2>2. CASE Len(s) # 0
    <3>1. Len(s) \in 1 .. Len(s)
      BY <1>2, <2>2
    <3>2. /\ FirstBytes(s, Len(s) - 1) \in Seq(S) /\ Encode(s[Len(s)]) \in Seq(S)
          /\ FirstBytes(s, Len(s)) = FirstBytes(s, Len(s) - 1) \o Encode(s[Len(s)])
      BY <3>1, NextBytes, Zenon
    <3> QED
      BY <1>4, <3>2, ConcatFacts
  <2> QED
    BY <2>1, <2>2
<1>6. EncodeAll(s) \in Seq(Alphabet)
  <2>1. EncodeAll(s) \in Seq(Range(EncodeAll(s)))
    BY <1>5, OwnElements, Zenon
  <2>2. Range(EncodeAll(s)) \subseteq Alphabet
    BY Zenon DEF Alphabet
  <2> QED
    BY <2>1, <2>2, SeqMonotonic, Zenon
<1> QED
  BY <1>1, <1>2, <1>3, <1>4, <1>6, Zenon

\* The bytes behind a command line.
LEMMA BodyData ==
  ASSUME NEW S, NEW l \in Seq(S), NEW m, Len(l) = m, NEW n \in Nat, n <= m - 4,
         NEW D, NEW d \in Seq(D), Len(d) = n, \A i \in 1 .. n : l[4 + i] = d[i]
  PROVE  SubSeq(SubSeq(l, 5, m), 1, n) = d
<1> DEFINE b == SubSeq(l, 5, m)
           p == SubSeq(b, 1, n)
<1>1. b \in Seq(S) /\ Len(b) = m - 4 /\ \A i \in 1 .. m - 4 : b[i] = l[4 + i]
  OBVIOUS
<1>2. m \in Nat
  OBVIOUS
<1> HIDE DEF b
<1>3. p \in Seq(S) /\ Len(p) = n /\ \A i \in 1 .. n : p[i] = b[i]
  BY <1>1, <1>2
<1> HIDE DEF p
<1>4. \A i \in 1 .. n : i \in 1 .. m - 4
  BY <1>2
<1>5. \A i \in 1 .. Len(p) : p[i] = d[i]
  BY <1>1, <1>3, <1>4, Zenon
<1>6. p \in Seq(S \cup D) /\ d \in Seq(S \cup D)
  BY <1>3
<1>7. p = d
  BY <1>3, <1>5, <1>6, SeqEqual, Zenon
<1> QED
  BY <1>7, Zenon DEF p, b

\* The two halves of a part are parts.
LEMMA PartSplit ==
  ASSUME NEW w, Len(w) \in Nat, NEW S, NEW p \in Seq(S), NEW e \in Seq(S), NEW a, IsPart(p \o e, w, a)
  PROVE  IsPart(p, w, a) /\ IsPart(e, w, a + Len(p)) /\ Len(p \o e) = Len(p) + Len(e)
<1> DEFINE c == p \o e
<1>1. /\ Len(c) = Len(p) + Len(e) /\ Len(p) \in Nat /\ Len(e) \in Nat
      /\ \A i \in 1 .. Len(p) + Len(e) : c[i] = IF i <= Len(p) THEN p[i] ELSE e[i - Len(p)]
  BY ConcatFacts
<1>2. /\ c \in Seq(Alphabet) /\ a \in Nat /\ a + Len(c) <= Len(w)
      /\ \A i \in 1 .. Len(c) : c[i] = w[a + i]
  BY Zenon DEF IsPart
<1> HIDE DEF c
<1>3. \A i \in 1 .. Len(c) : c[i] \in Alphabet
  BY <1>2
<1>4. ASSUME NEW i \in 1 .. Len(p)
      PROVE  p[i] = w[a + i] /\ p[i] \in Alphabet
  <2>1. i \in 1 .. Len(p) + Len(e) /\ i <= Len(p)
    BY <1>1
  <2> QED
    BY <1>1, <1>2, <1>3, <2>1, Zenon
<1>5. ASSUME NEW i \in 1 .. Len(e)
      PROVE  e[i] = w[a + Len(p) + i] /\ e[i] \in Alphabet
  <2>1. Len(p) + i \in 1 .. Len(p) + Len(e) /\ ~(Len(p) + i <= Len(p)) /\ (Len(p) + i) - Len(p) = i
    BY <1>1
  <2>2. a + (Len(p) + i) = a + Len(p) + i
    BY <1>1, <1>2
  <2> QED
    BY <1>1, <1>2, <1>3, <2>1, <2>2, Zenon
<1>6. p \in Seq(Alphabet) /\ e \in Seq(Alphabet)
  <2>1. p = [i \in 1 .. Len(p) |-> p[i]] /\ e = [i \in 1 .. Len(e) |-> e[i]]
    OBVIOUS
  <2>2. p \in [1 .. Len(p) -> Alphabet] /\ e \in [1 .. Len(e) -> Alphabet]
    BY <1>4, <1>5, <2>1, Zenon
  <2> QED
    BY <1>1, <2>2, FunctionIsSeq, Zenon
<1>7. a + Len(p) <= Len(w)
  BY <1>1, <1>2
<1> QED
  <2>1. a + Len(p) \in Nat
    BY <1>1, <1>2
  <2>2. a + Len(p) + Len(e) = a + Len(c)
    BY <1>1, <1>2
  <2> QED
    BY <1>1, <1>2, <1>4, <1>5, <1>6, <1>7, <2>1, <2>2, Zenon DEF IsPart, c

\* A stream begins with the bytes of its first requests.
LEMMA FirstBytesPart ==
  ASSUME NEW s \in Streams
  PROVE  \A k \in 0 .. Len(s) : IsPart(FirstBytes(s, k), EncodeAll(s), 0)
<1> DEFINE w == EncodeAll(s)
           T == {j \in 0 .. Len(s) : ~IsPart(FirstBytes(s, Len(s) - j), w, 0)}
<1>0. Len(s) \in Nat /\ w \in Seq(Alphabet) /\ FirstBytes(s, Len(s)) = w
  BY StreamFacts, Zenon
<1>1. Len(w) \in Nat
  BY <1>0, LenProperties, Zenon
<1>2. SUFFICES ASSUME T # {} PROVE FALSE
  <2>1. \A k \in 0 .. Len(s) : Len(s) - k \in 0 .. Len(s) /\ Len(s) - (Len(s) - k) = k
    BY <1>0
  <2> QED
    BY <2>1, Zenon
<1>3. PICK j \in T : \A i \in T : j <= i
  <2>1. T \subseteq 0 .. Len(s)
    BY Zenon
  <2> HIDE DEF T
  <2> QED
    BY <1>0, <1>2, <2>1, LeastUpto, Zenon
<1>4. j # 0
  <2>1. Len(s) - 0 = Len(s)
    BY <1>0
  <2>2. IsPart(w, w, 0)
    <3> HIDE DEF w
    <3> QED
      BY <1>0, <1>1 DEF IsPart
  <2> QED
    BY <1>0, <2>1, <2>2, Zenon
<1> DEFINE k == Len(s) - j + 1
<1>5. /\ j \in 0 .. Len(s) /\ ~IsPart(FirstBytes(s, Len(s) - j), w, 0)
  BY Zenon
<1>6. /\ k \in 1 .. Len(s) /\ k - 1 = Len(s) - j /\ k = Len(s) - (j - 1)
      /\ j - 1 \in 0 .. Len(s) /\ ~(j <= j - 1)
  BY <1>0, <1>4, <1>5
<1>7. IsPart(FirstBytes(s, k), w, 0)
  BY <1>3, <1>6, Zenon
<1> HIDE DEF w, k
<1>8. PICK S : /\ FirstBytes(s, k - 1) \in Seq(S) /\ Encode(s[k]) \in Seq(S)
               /\ FirstBytes(s, k) = FirstBytes(s, k - 1) \o Encode(s[k])
  BY <1>6, NextBytes, Zenon
<1>9. IsPart(FirstBytes(s, k - 1), w, 0)
  <2> DEFINE p == FirstBytes(s, k - 1)
             e == Encode(s[k])
  <2>1. p \in Seq(S) /\ e \in Seq(S) /\ IsPart(p \o e, w, 0)
    BY <1>7, <1>8, Zenon
  <2> HIDE DEF p, e
  <2>2. IsPart(p, w, 0)
    BY <1>1, <2>1, PartSplit
  <2> QED
    BY <2>2, Zenon DEF p
<1> QED
  BY <1>5, <1>6, <1>9, Zenon

\* The bytes of a request are a part of the stream, behind those of the ones before.
LEMMA RequestPart ==
  ASSUME NEW s \in Streams, NEW k \in 1 .. Len(s)
  PROVE  /\ Len(FirstBytes(s, k - 1)) \in Nat /\ Len(Encode(s[k])) \in Nat /\ Len(EncodeAll(s)) \in Nat
         /\ Len(FirstBytes(s, k)) = Len(FirstBytes(s, k - 1)) + Len(Encode(s[k]))
         /\ Len(FirstBytes(s, k)) <= Len(EncodeAll(s))
         /\ \A i \in 1 .. Len(Encode(s[k])) : Encode(s[k])[i] = EncodeAll(s)[Len(FirstBytes(s, k - 1)) + i]
<1> DEFINE w == EncodeAll(s)
           p == FirstBytes(s, k - 1)
           e == Encode(s[k])
<1>1. PICK S : p \in Seq(S) /\ e \in Seq(S) /\ FirstBytes(s, k) = p \o e
  BY NextBytes, Zenon
<1>2. Len(w) \in Nat /\ Len(s) \in Nat
  BY StreamFacts, LenProperties, Zenon
<1>3. k \in 0 .. Len(s)
  BY <1>2
<1>4. IsPart(p \o e, w, 0)
  BY <1>1, <1>3, FirstBytesPart, Zenon
<1> HIDE DEF w, p, e
<1>5. IsPart(e, w, 0 + Len(p)) /\ Len(p \o e) = Len(p) + Len(e)
  BY <1>1, <1>2, <1>4, PartSplit
<1>6. Len(p) \in Nat /\ Len(e) \in Nat /\ 0 + Len(p) = Len(p)
  BY <1>1
<1>7. Len(p) + Len(e) <= Len(w) /\ \A i \in 1 .. Len(e) : e[i] = w[Len(p) + i]
  BY <1>5, <1>6, Zenon DEF IsPart
<1> QED
  BY <1>1, <1>2, <1>5, <1>6, <1>7, Zenon DEF w, p, e

\* Where a request begins: its command line, and its two ends of line.
LEMMA RequestLayout ==
  ASSUME NEW s \in Streams, NEW k \in 1 .. Len(s)
  PROVE  LET b == Len(FirstBytes(s, k - 1))
             c == s[k].command
             w == EncodeAll(s)
         IN /\ IsRequest(s[k]) /\ c \in Commands
            /\ w[b + 1] = c /\ w[b + 2] = "." /\ IsEndl(w, b + 3)
            /\ c \notin StorageCommands => Len(FirstBytes(s, k)) = b + 4
            /\ c \in StorageCommands =>
                 /\ Len(FirstBytes(s, k)) = b + Bytes[c] + 6
                 /\ \A i \in 1 .. Bytes[c] : s[k].data[i] = w[b + 4 + i]
                 /\ IsEndl(w, b + Bytes[c] + 5)
<1> DEFINE b == Len(FirstBytes(s, k - 1))
           r == s[k]
           c == r.command
           n == Len(r.data)
           e == Encode(r)
           w == EncodeAll(s)
<1>1. IsRequest(r)
  BY StreamFacts, Zenon
<1>2. /\ b \in Nat /\ Len(e) \in Nat /\ Len(FirstBytes(s, k)) = b + Len(e)
      /\ \A i \in 1 .. Len(e) : e[i] = w[b + i]
  BY RequestPart, Zenon
<1>3. /\ n \in Nat /\ c \in Commands /\ e[1] = c /\ e[2] = "." /\ e[3] = CR /\ e[4] = LF
      /\ c \notin StorageCommands => Len(e) = 4
      /\ c \in StorageCommands =>
           /\ n = Bytes[c] /\ Len(e) = n + 6 /\ e[n + 5] = CR /\ e[n + 6] = LF
           /\ \A i \in 1 .. n : e[4 + i] = r.data[i]
  BY <1>1, EncodeFacts, Zenon
<1> HIDE DEF b, r, c, n, e, w
<1>4. 4 <= Len(e)
  BY <1>3
<1>5. w[b + 1] = c /\ w[b + 2] = "." /\ IsEndl(w, b + 3)
  <2>1. 1 \in 1 .. Len(e) /\ 2 \in 1 .. Len(e) /\ 3 \in 1 .. Len(e) /\ 4 \in 1 .. Len(e)
    BY <1>2, <1>4
  <2>2. w[b + 1] = c /\ w[b + 2] = "." /\ w[b + 3] = CR /\ w[b + 4] = LF
    BY <1>2, <1>3, <2>1, Zenon
  <2>3. (b + 3) + 1 = b + 4
    BY <1>2
  <2> QED
    BY <2>2, <2>3, Zenon DEF IsEndl
<1>6. ASSUME c \in StorageCommands
      PROVE  /\ Len(FirstBytes(s, k)) = b + n + 6
             /\ \A i \in 1 .. n : r.data[i] = w[b + 4 + i]
             /\ IsEndl(w, b + n + 5)
  <2>1. Len(e) = n + 6
    BY <1>3, <1>6, Zenon
  <2>2. n + 5 \in 1 .. Len(e) /\ n + 6 \in 1 .. Len(e)
    BY <1>3, <2>1
  <2>3. w[b + (n + 5)] = CR /\ w[b + (n + 6)] = LF
    BY <1>2, <1>3, <1>6, <2>2, Zenon
  <2>4. b + (n + 5) = b + n + 5 /\ b + (n + 6) = (b + n + 5) + 1 /\ b + (n + 6) = b + n + 6
    BY <1>2, <1>3
  <2>5. IsEndl(w, b + n + 5)
    BY <2>3, <2>4, Zenon DEF IsEndl
  <2>6. ASSUME NEW i \in 1 .. n
        PROVE  r.data[i] = w[b + 4 + i]
    <3>1. 4 + i \in 1 .. Len(e) /\ b + (4 + i) = b + 4 + i
      <4>1. b \in Nat /\ n \in Nat
        BY <1>2, <1>3, Zenon
      <4> QED
        BY <2>1, <4>1
    <3>2. w[b + (4 + i)] = e[4 + i] /\ e[4 + i] = r.data[i]
      BY <1>2, <1>3, <1>6, <3>1, Zenon
    <3> QED
      BY <3>1, <3>2, Zenon
  <2> QED
    BY <1>2, <2>1, <2>4, <2>5, <2>6, Zenon
<1>7. c \notin StorageCommands => Len(FirstBytes(s, k)) = b + 4
  BY <1>2, <1>3, Zenon
<1> QED
  BY <1>1, <1>3, <1>5, <1>6, <1>7, Zenon DEF b, r, c, n, e, w

\* The bytes of a part are those of the whole.
LEMMA PartReads ==
  ASSUME NEW d, NEW w, NEW b, IsPart(d, w, b)
  PROVE  /\ Len(d) \in Nat /\ b \in Nat
         /\ \A i \in Nat : i # 0 /\ i <= Len(d) => d[i] = w[b + i]
         /\ \A i \in Nat : i + 2 <= Len(d) /\ IsEndl(w, b + (i + 1)) => IsEndl(d, i + 1)
<1>1. /\ d \in Seq(Alphabet) /\ b \in Nat /\ \A i \in 1 .. Len(d) : d[i] = w[b + i]
  BY Zenon DEF IsPart
<1>2. Len(d) \in Nat
  BY <1>1, LenProperties, Zenon
<1>3. \A i \in Nat : i # 0 /\ i <= Len(d) => d[i] = w[b + i]
  <2>1. \A i \in Nat : i # 0 /\ i <= Len(d) => i \in 1 .. Len(d)
    BY <1>2
  <2> QED
    BY <1>1, <2>1, Zenon
<1>4. ASSUME NEW i \in Nat, i + 2 <= Len(d), IsEndl(w, b + (i + 1))
      PROVE  IsEndl(d, i + 1)
  <2>1. i + 1 \in 1 .. Len(d) /\ (i + 1) + 1 \in 1 .. Len(d) /\ b + ((i + 1) + 1) = (b + (i + 1)) + 1
    BY <1>1, <1>2, <1>4
  <2>2. d[i + 1] = w[b + (i + 1)] /\ d[(i + 1) + 1] = w[b + ((i + 1) + 1)]
    BY <1>1, <2>1, Zenon
  <2>3. w[b + (i + 1)] = CR /\ w[(b + (i + 1)) + 1] = LF
    BY <1>4, Zenon DEF IsEndl
  <2>4. d[i + 1] = CR /\ d[(i + 1) + 1] = LF
    BY <2>1, <2>2, <2>3, Zenon
  <2> QED
    BY <2>4, Zenon DEF IsEndl
<1> QED
  BY <1>1, <1>2, <1>3, <1>4, Zenon

\* What is read from where a request begins.
LEMMA RequestReads ==
  ASSUME NEW s \in Streams, NEW k \in 1 .. Len(s),
         NEW d, IsPart(d, EncodeAll(s), Len(FirstBytes(s, k - 1)))
  PROVE  LET r == s[k]
             n == Bytes[r.command]
         IN /\ 1 <= Len(d) => d[1] = r.command
            /\ 2 <= Len(d) => d[2] = "."
            /\ 4 <= Len(d) => IsEndl(d, 3)
            /\ r.command \in StorageCommands =>
                 /\ \A i \in 1 .. n : 4 + i <= Len(d) => d[4 + i] = r.data[i]
                 /\ n + 5 <= Len(d) => d[n + 5] = CR
                 /\ n + 6 <= Len(d) => IsEndl(d, n + 5)
<1> DEFINE r == s[k]
           n == Bytes[r.command]
           b == Len(FirstBytes(s, k - 1))
           w == EncodeAll(s)
<1>1. /\ Len(d) \in Nat /\ b \in Nat
      /\ \A i \in Nat : i # 0 /\ i <= Len(d) => d[i] = w[b + i]
      /\ \A i \in Nat : i + 2 <= Len(d) /\ IsEndl(w, b + (i + 1)) => IsEndl(d, i + 1)
  BY PartReads, Zenon
<1>2. /\ w[b + 1] = r.command /\ w[b + 2] = "." /\ IsEndl(w, b + 3)
      /\ r.command \in StorageCommands =>
           /\ \A i \in 1 .. n : r.data[i] = w[b + 4 + i]
           /\ IsEndl(w, b + n + 5)
  BY RequestLayout, Zenon
<1> HIDE DEF b, w
<1>3. 1 \in Nat /\ 1 # 0 /\ 2 \in Nat /\ 2 # 0 /\ 2 + 2 = 4 /\ 2 + 1 = 3
  OBVIOUS
<1>4. 1 <= Len(d) => d[1] = r.command
  BY <1>1, <1>2, <1>3, Zenon
<1>5. 2 <= Len(d) => d[2] = "."
  BY <1>1, <1>2, <1>3, Zenon
<1>6. 4 <= Len(d) => IsEndl(d, 3)
  BY <1>1, <1>2, <1>3, Zenon
<1>7. ASSUME r.command \in StorageCommands
      PROVE  /\ \A i \in 1 .. n : 4 + i <= Len(d) => d[4 + i] = r.data[i]
             /\ n + 5 <= Len(d) => d[n + 5] = CR
             /\ n + 6 <= Len(d) => IsEndl(d, n + 5)
  <2>1. n \in Nat
    BY <1>7, CommandsAssumption
  <2> HIDE DEF n
  <2>2. \A i \in 1 .. n : 4 + i \in Nat /\ 4 + i # 0 /\ b + (4 + i) = b + 4 + i
    BY <1>1, <2>1
  <2>3. /\ n + 5 \in Nat /\ n + 5 # 0 /\ b + (n + 5) = b + n + 5
        /\ n + 4 \in Nat /\ (n + 4) + 1 = n + 5 /\ (n + 4) + 2 = n + 6
    BY <1>1, <2>1
  <2>4. ASSUME NEW i \in 1 .. n, 4 + i <= Len(d)
        PROVE  d[4 + i] = r.data[i]
    <3>1. d[4 + i] = w[b + (4 + i)]
      BY <1>1, <2>2, <2>4, Zenon
    <3>2. r.data[i] = w[b + 4 + i]
      BY <1>2, <1>7, Zenon DEF n
    <3> QED
      BY <2>2, <3>1, <3>2, Zenon
  <2>5. IsEndl(w, b + (n + 5))
    BY <1>2, <1>7, <2>3, Zenon DEF n
  <2>6. n + 5 <= Len(d) => d[n + 5] = CR
    <3>1. n + 5 <= Len(d) => d[n + 5] = w[b + (n + 5)]
      BY <1>1, <2>3, Zenon
    <3>2. w[b + (n + 5)] = CR
      BY <2>5, Zenon DEF IsEndl
    <3> QED
      BY <3>1, <3>2, Zenon
  <2>7. n + 6 <= Len(d) => IsEndl(d, n + 5)
    BY <1>1, <2>3, <2>5, Zenon
  <2> QED
    BY <2>4, <2>6, <2>7, Zenon
<1> QED
  BY <1>4, <1>5, <1>6, <1>7, Zenon DEF n

\* The request that byte a belongs to.
LEMMA RequestOf ==
  ASSUME NEW s \in Streams, NEW a \in 1 .. Len(EncodeAll(s))
  PROVE  \E k \in 1 .. Len(s) : Len(FirstBytes(s, k - 1)) < a /\ a <= Len(FirstBytes(s, k))
<1> DEFINE T == {k \in 0 .. Len(s) : a <= Len(FirstBytes(s, k))}
<1>1. Len(s) \in Nat /\ FirstBytes(s, 0) = <<>> /\ FirstBytes(s, Len(s)) = EncodeAll(s)
  BY StreamFacts, Zenon
<1>2. a \in Nat /\ 1 <= a /\ a <= Len(EncodeAll(s))
  <2>1. Len(EncodeAll(s)) \in Nat
    BY StreamFacts, LenProperties, Zenon
  <2> QED
    BY <2>1
<1>3. Len(s) \in T
  <2>1. Len(s) \in 0 .. Len(s)
    BY <1>1
  <2> QED
    BY <1>1, <1>2, <2>1, Zenon
<1>4. PICK k \in T : \A j \in T : k <= j
  <2>1. T \subseteq 0 .. Len(s)
    BY Zenon
  <2> HIDE DEF T
  <2> QED
    BY <1>1, <1>3, <2>1, LeastUpto, Zenon
<1>5. k \in 0 .. Len(s) /\ a <= Len(FirstBytes(s, k))
  BY Zenon
<1>6. k # 0
  <2>1. Len(<<>>) = 0 /\ ~(a <= 0)
    BY <1>2
  <2> QED
    BY <1>1, <1>5, <2>1, Zenon
<1>7. k \in 1 .. Len(s) /\ k - 1 \in 0 .. Len(s) /\ ~(k <= k - 1)
  BY <1>1, <1>5, <1>6
<1>8. ~(a <= Len(FirstBytes(s, k - 1)))
  BY <1>4, <1>7, Zenon
<1>9. Len(FirstBytes(s, k - 1)) \in Nat
  BY <1>7, RequestPart, Zenon
<1>10. Len(FirstBytes(s, k - 1)) < a
  BY <1>2, <1>8, <1>9
<1> QED
  BY <1>5, <1>7, <1>10, Zenon

\* Wherever one starts to look, an end of line comes before long.
LEMMA Window ==
  ASSUME Narrow, NEW s \in Streams, NEW a \in 1 .. Len(EncodeAll(s)), a + Run <= Len(EncodeAll(s)) + 1
  PROVE  \E j \in a .. a + Run - 2 : IsEndl(EncodeAll(s), j)
<1> DEFINE w == EncodeAll(s)
<1>0. /\ Longest \in Nat /\ Run \in Nat /\ Run = Longest + 5
      /\ \A c \in StorageCommands : Bytes[c] \in Nat /\ Bytes[c] <= Longest
  BY Widths DEF Run
<1>1. PICK k \in 1 .. Len(s) : Len(FirstBytes(s, k - 1)) < a /\ a <= Len(FirstBytes(s, k))
  BY RequestOf, Zenon
<1> DEFINE b == Len(FirstBytes(s, k - 1))
           c == s[k].command
           z == Len(FirstBytes(s, k))
<1>2. /\ IsEndl(w, b + 3)
      /\ c \notin StorageCommands => z = b + 4
      /\ c \in StorageCommands => z = b + Bytes[c] + 6 /\ IsEndl(w, b + Bytes[c] + 5)
  BY RequestLayout, Zenon
<1>3. b \in Nat /\ z \in Nat /\ b < a /\ a <= z /\ a + Run <= Len(w) + 1 /\ Len(w) \in Nat /\ a \in Nat
  <2>1. b \in Nat /\ Len(Encode(s[k])) \in Nat /\ Len(w) \in Nat /\ z = b + Len(Encode(s[k]))
    BY RequestPart, Zenon
  <2> QED
    BY <1>1, <2>1
<1>4. CASE a = z
  <2>1. Len(s) \in Nat /\ FirstBytes(s, Len(s)) = w
    BY StreamFacts, Zenon
  <2>2. k # Len(s)
    <3>1. a # Len(w)
      BY <1>0, <1>3
    <3> QED
      BY <1>4, <2>1, <3>1, Zenon
  <2>3. k + 1 \in 1 .. Len(s) /\ (k + 1) - 1 = k
    BY <2>1, <2>2
  <2>4. IsEndl(w, z + 3)
    BY <2>3, RequestLayout, Zenon
  <2>5. z + 3 \in a .. a + Run - 2
    BY <1>0, <1>3, <1>4
  <2> QED
    BY <2>4, <2>5, Zenon
<1>5. CASE a <= b + 3
  <2>1. b + 3 \in a .. a + Run - 2
    BY <1>0, <1>3, <1>5
  <2> QED
    BY <1>2, <2>1, Zenon
<1>6. CASE ~(a <= b + 3) /\ a # z
  <2>1. c \in StorageCommands
    <3>1. z # b + 4
      BY <1>3, <1>6
    <3> QED
      BY <1>2, <3>1, Zenon
  <2>2. Bytes[c] \in Nat /\ Bytes[c] <= Longest /\ z = b + Bytes[c] + 6 /\ IsEndl(w, b + Bytes[c] + 5)
    BY <1>0, <1>2, <2>1, Zenon
  <2> DEFINE n == Bytes[c]
  <2> HIDE DEF n, b, z
  <2>3. b + n + 5 \in a .. a + Run - 2
    <3>1. n \in Nat /\ n <= Longest /\ z = b + n + 6
      BY <2>2, Zenon DEF n
    <3> QED
      BY <1>0, <1>3, <1>6, <3>1
  <2> QED
    BY <2>2, <2>3, Zenon DEF n
<1> QED
  BY <1>4, <1>5, <1>6

\* Bytes of a stream without an end of line are few.
LEMMA Gap ==
  ASSUME Narrow, NEW s \in Streams, NEW d, NEW a, IsPart(d, EncodeAll(s), a),
         NEW i \in Nat, NEW m \in Int, m <= Len(d), \A x \in i .. m - 2 : ~IsEndl(d, x + 1)
  PROVE  m < i + Run
<1> DEFINE w == EncodeAll(s)
<1>0. Run \in Nat /\ 5 <= Run
  BY Widths DEF Run
<1>1. Len(w) \in Nat
  BY StreamFacts, LenProperties, Zenon
<1>2. SUFFICES ASSUME i + Run <= m PROVE FALSE
  BY <1>0
<1>3. /\ d \in Seq(Alphabet) /\ a \in Nat /\ a + Len(d) <= Len(w)
      /\ \A x \in 1 .. Len(d) : d[x] = w[a + x]
  BY Zenon DEF IsPart
<1>4. Len(d) \in Nat
  BY <1>3
<1>5. a + i + 1 \in 1 .. Len(w) /\ (a + i + 1) + Run <= Len(w) + 1
  BY <1>0, <1>1, <1>2, <1>3, <1>4
<1>6. PICK j \in a + i + 1 .. (a + i + 1) + Run - 2 : IsEndl(w, j)
  BY <1>5, Window, Zenon
<1> HIDE DEF w
<1> DEFINE x == j - a - 1
<1>7. /\ x \in i .. m - 2 /\ x + 1 \in 1 .. Len(d) /\ (x + 1) + 1 \in 1 .. Len(d)
      /\ a + (x + 1) = j /\ a + ((x + 1) + 1) = j + 1
  BY <1>0, <1>2, <1>3, <1>4
<1>8. d[x + 1] = w[j] /\ d[(x + 1) + 1] = w[j + 1]
  <2> HIDE DEF x
  <2> QED
    BY <1>3, <1>7, Zenon
<1> HIDE DEF x
<1>9. IsEndl(d, x + 1)
  BY <1>6, <1>8, Zenon DEF IsEndl
<1> QED
  BY <1>7, <1>9, Zenon

\* find: the first end of line, or none (line 91).
LEMMA FindFacts ==
  ASSUME NEW s, Len(s) \in Nat, NEW from \in Nat
  PROVE  \/ /\ Find(s, from) = npos /\ \A i \in from .. Len(s) - 2 : ~IsEndl(s, i + 1)
         \/ /\ Find(s, from) \in from .. Len(s) - 2 /\ IsEndl(s, Find(s, from) + 1)
            /\ \A i \in from .. Find(s, from) - 1 : ~IsEndl(s, i + 1)
<1> DEFINE I == {i \in from .. Len(s) - 2 : IsEndl(s, i + 1)}
           f == CHOOSE i \in I : \A j \in I : i <= j
<1>1. Find(s, from) = IF I = {} THEN npos ELSE f
  BY Zenon DEF Find
<1>2. CASE I = {}
  BY <1>1, <1>2, Zenon
<1>3. CASE I # {}
  <2>1. I \subseteq from .. Len(s) - 2
    BY Zenon
  <2>2. I \subseteq Nat
    <3> HIDE DEF I
    <3> QED
      BY <2>1
  <2>3. \E i \in I : \A j \in I : i <= j
    <3> HIDE DEF I
    <3> QED
      BY <1>3, <2>2, Least, Zenon
  <2>4. f \in I /\ \A j \in I : f <= j
    <3> HIDE DEF I
    <3> QED
      BY <2>3, Zenon
  <2>5. Find(s, from) = f
    BY <1>1, <1>3, Zenon
  <2> HIDE DEF f
  <2>6. f \in from .. Len(s) - 2 /\ IsEndl(s, f + 1)
    BY <2>4, Zenon
  <2>7. \A i \in from .. f - 1 : i \in from .. Len(s) - 2 /\ ~(f <= i)
    BY <2>6
  <2>8. \A i \in from .. f - 1 : ~IsEndl(s, i + 1)
    BY <2>4, <2>7, Zenon
  <2> QED
    BY <2>5, <2>6, <2>8, Zenon
<1> QED
  BY <1>2, <1>3, Zenon

\* A search that has one result has that result.
LEMMA FindIs ==
  ASSUME NEW s, Len(s) \in Nat, NEW from \in Nat, NEW e \in from .. Len(s) - 2, IsEndl(s, e + 1),
         \A i \in from .. e - 1 : ~IsEndl(s, i + 1)
  PROVE  Find(s, from) = e
<1> DEFINE f == Find(s, from)
<1>1. \/ \A i \in from .. Len(s) - 2 : ~IsEndl(s, i + 1)
      \/ /\ f \in from .. Len(s) - 2 /\ IsEndl(s, f + 1)
         /\ \A i \in from .. f - 1 : ~IsEndl(s, i + 1)
  BY FindFacts, Zenon
<1> HIDE DEF f
<1>2. /\ f \in from .. Len(s) - 2 /\ IsEndl(s, f + 1)
      /\ \A i \in from .. f - 1 : ~IsEndl(s, i + 1)
  BY <1>1, Zenon
<1>3. f \notin from .. e - 1 /\ e \notin from .. f - 1
  BY <1>2, Zenon
<1>4. f = e
  BY <1>2, <1>3
<1> QED
  BY <1>4, Zenon DEF f

-----------------------------------------------------------------------------
(* What a step sees *)

\* The numbers of the general invariant.
LEMMA Numbers ==
  ASSUME Narrow, GInv
  PROVE  /\ Longest \in Nat /\ Run \in Nat /\ Run = Longest + 5
         /\ BufferLen \in Nat /\ 0 < BufferLen /\ UIntMod \in Nat /\ npos = UIntMod - 1
         /\ 4 * Longest + 4 * BufferLen + 32 <= UIntMod
         /\ pos \in Nat /\ pos <= 2 * Run + Longest
         /\ readMore \in Int /\ -(Run + BufferLen + 2) <= readMore /\ readMore <= Longest + 2
<1>1. /\ Longest \in Nat /\ BufferLen \in Nat /\ UIntMod \in Nat /\ SizeMod = UIntMod
      /\ 0 < BufferLen /\ 4 * (Longest + BufferLen + 8) <= UIntMod
  BY Widths, Zenon
<1>2. /\ pos \in 0 .. 2 * Run + Longest /\ readMore \in -(Run + BufferLen + 2) .. Longest + 2
  BY Zenon DEF GInv
<1>3. Run \in Nat /\ Run = Longest + 5
  BY <1>1 DEF Run
<1>4. npos = UIntMod - 1
  BY <1>1, Zenon DEF npos
<1>5. 4 * Longest + 4 * BufferLen + 32 <= UIntMod
  BY <1>1
<1> QED
  BY <1>1, <1>2, <1>3, <1>4, <1>5

\* The lengths of the pieces.
LEMMA Lengths ==
  ASSUME GInv
  PROVE  /\ sent \in Streams /\ Len(whole) \in Nat /\ Len(data) \in Nat /\ Len(persistentData) \in Nat
         /\ Len(wire) \in Nat /\ held \in Nat /\ held <= Len(whole)
         /\ held = Len(data) + Len(persistentData) + Len(wire)
<1>1. sent \in Streams /\ Pieces
  BY Zenon DEF GInv
<1>2. whole \in Seq(Alphabet)
  BY <1>1, StreamFacts, Zenon DEF whole
<1>3. /\ data \in Seq(Alphabet) /\ persistentData \in Seq(Alphabet) /\ wire \in Seq(Alphabet)
      /\ Len(whole) - held \in Nat
  BY <1>1, Zenon DEF Pieces, IsPart
<1>4. /\ Len(whole) \in Nat /\ Len(data) \in Nat /\ Len(persistentData) \in Nat /\ Len(wire) \in Nat
  BY <1>2, <1>3, LenProperties, Zenon
<1>5. held = Len(data) + Len(persistentData) + Len(wire)
  BY Zenon DEF held
<1>6. held \in Nat /\ held <= Len(whole)
  BY <1>3, <1>4, <1>5
<1> QED
  BY <1>1, <1>4, <1>5, <1>6, Zenon

\* An end of line was found at oldPos or behind it.
EndlFound ==
  /\ found # npos /\ found \in pos + 2 .. Len(data) - 2 /\ IsEndl(data, found + 1)
  /\ \A i \in pos + 2 .. found - 1 : ~IsEndl(data, i + 1)
  /\ cut = found + 2
  /\ missing = IF persistFlag THEN readMore - (found - pos) ELSE readMore

\* None was.
EndlMissing ==
  /\ found = npos /\ \A i \in pos + 2 .. Len(data) - 2 : ~IsEndl(data, i + 1)

\* The bytes that are held are too few for find, or for the casts, to go wrong.
LEMMA ScanFacts ==
  ASSUME Narrow, GInv, pc = "scan"
  PROVE  oldPos = pos + 2 /\ Len(data) < pos + 2 + Run + BufferLen /\ (EndlFound \/ EndlMissing)
<1>0. /\ Longest \in Nat /\ Run \in Nat /\ Run = Longest + 5
      /\ BufferLen \in Nat /\ 0 < BufferLen /\ UIntMod \in Nat /\ npos = UIntMod - 1
      /\ 4 * Longest + 4 * BufferLen + 32 <= UIntMod
      /\ pos \in Nat /\ pos <= 2 * Run + Longest
      /\ readMore \in Int /\ -(Run + BufferLen + 2) <= readMore /\ readMore <= Longest + 2
  BY Numbers, Zenon
<1>1. Len(data) \in Nat /\ sent \in Streams
  BY Lengths, Zenon
<1>2. /\ IsPart(data, EncodeAll(sent), Len(whole) - held)
      /\ \A i \in pos + 2 .. Len(data) - BufferLen - 2 : ~IsEndl(data, i + 1)
  BY Zenon DEF GInv, Pieces, whole, Reading, Scanned
<1>3. Len(data) < pos + 2 + Run + BufferLen
  <2> DEFINE m == Len(data) - BufferLen
             k == pos + 2
  <2>1. m \in Int /\ m <= Len(data) /\ k \in Nat
    BY <1>0, <1>1
  <2>2. \A i \in k .. m - 2 : ~IsEndl(data, i + 1)
    BY <1>2, Zenon
  <2> HIDE DEF m, k
  <2>3. m < k + Run
    BY <1>1, <1>2, <2>1, <2>2, Gap, Zenon
  <2> QED
    BY <1>0, <1>1, <2>3 DEF m, k
<1>4. pos + 2 \in Nat /\ pos + 2 < UIntMod
  BY <1>0
<1>5. oldPos = pos + 2
  BY <1>4, UIntSmall, Zenon DEF oldPos
<1> DEFINE f == Find(data, pos + 2)
<1>6. \/ /\ f = npos /\ \A i \in pos + 2 .. Len(data) - 2 : ~IsEndl(data, i + 1)
      \/ /\ f \in pos + 2 .. Len(data) - 2 /\ IsEndl(data, f + 1)
         /\ \A i \in pos + 2 .. f - 1 : ~IsEndl(data, i + 1)
  BY <1>1, <1>4, FindFacts, Zenon
<1>7. found = UInt(f)
  BY <1>5, Zenon DEF found
<1> HIDE DEF f
<1>8. CASE f = npos /\ \A i \in pos + 2 .. Len(data) - 2 : ~IsEndl(data, i + 1)
  <2>1. npos \in Nat /\ npos < UIntMod
    BY <1>0
  <2>2. found = npos
    BY <1>7, <1>8, <2>1, UIntSmall, Zenon
  <2> QED
    BY <1>3, <1>5, <1>8, <2>2, Zenon DEF EndlMissing
<1>9. CASE /\ f \in pos + 2 .. Len(data) - 2 /\ IsEndl(data, f + 1)
           /\ \A i \in pos + 2 .. f - 1 : ~IsEndl(data, i + 1)
  <2>1. f \in Nat /\ f < UIntMod /\ f + 2 \in Nat /\ f + 2 < UIntMod /\ f # npos
    BY <1>0, <1>1, <1>3, <1>9
  <2>2. found = f /\ cut = f + 2
    BY <1>7, <2>1, UIntSmall, Zenon DEF cut
  <2>3. (f - oldPos) + 2 = f - pos /\ f - pos \in Nat /\ f - pos < UIntMod
    BY <1>0, <1>1, <1>5, <1>9, <2>1
  <2>4. UInt(found - oldPos + 2) = f - pos
    BY <2>2, <2>3, UIntSmall, Zenon
  <2>5. f - pos < Run + BufferLen
    BY <1>0, <1>1, <1>3, <1>9
  <2>6. /\ readMore - (f - pos) \in Int /\ -UIntMod < 2 * (readMore - (f - pos))
        /\ 2 * (readMore - (f - pos)) < UIntMod - 1
    BY <1>0, <2>3, <2>5
  <2>7. Int32(readMore - (f - pos)) = readMore - (f - pos)
    BY <2>6, Int32Small, Zenon
  <2>8. missing = IF persistFlag THEN readMore - (f - pos) ELSE readMore
    BY <2>4, <2>7, Zenon DEF missing
  <2> QED
    BY <1>3, <1>5, <1>9, <2>1, <2>2, <2>8, Zenon DEF EndlFound
<1> QED
  BY <1>6, <1>8, <1>9, Zenon

\* What sees only the first bytes sees the same in a sequence that begins with them.
LEMMA EndlSame ==
  ASSUME NEW s, NEW t, NEW k \in Nat, \A i \in 1 .. k : s[i] = t[i], NEW i \in 0 .. k - 2
  PROVE  IsEndl(s, i + 1) <=> IsEndl(t, i + 1)
<1>1. i + 1 \in 1 .. k /\ (i + 1) + 1 \in 1 .. k
  OBVIOUS
<1> QED
  BY <1>1, Zenon DEF IsEndl

\* The line and the rest are what was held, cut in two.
LEMMA CutFacts ==
  ASSUME Narrow, GInv, pc = "scan", EndlFound
  PROVE  /\ found \in Nat /\ cut = found + 2 /\ pos + 2 <= found /\ found <= pos + Run /\ cut <= Len(data)
         /\ Len(line) = cut /\ IsPart(line, whole, Len(whole) - held) /\ \A i \in 1 .. cut : line[i] = data[i]
         /\ Len(rest) = Len(data) - cut /\ Len(rest) < BufferLen /\ Len(rest) \in Nat
         /\ IsPart(rest, whole, (Len(whole) - held) + cut)
         /\ IsEndl(line, found + 1) /\ EndsWithEndl(line)
<1>0. /\ Run \in Nat /\ BufferLen \in Nat /\ pos \in Nat
  BY Numbers, Zenon
<1>1. /\ Len(data) \in Nat /\ sent \in Streams /\ Len(whole) \in Nat
  BY Lengths, Zenon
<1>2. /\ IsPart(data, whole, Len(whole) - held)
      /\ \A i \in pos + 2 .. Len(data) - BufferLen - 2 : ~IsEndl(data, i + 1)
  BY Zenon DEF GInv, Pieces, Reading, Scanned
<1>3. /\ found \in pos + 2 .. Len(data) - 2 /\ IsEndl(data, found + 1) /\ cut = found + 2
      /\ \A i \in pos + 2 .. found - 1 : ~IsEndl(data, i + 1)
  BY Zenon DEF EndlFound
<1> DEFINE f == found
           k == cut
           d == data
           ln == line
           rs == rest
           A == Len(whole) - held
<1>4. ln = SubSeq(d, 1, k) /\ rs = SubSeq(d, k + 1, Len(d))
  BY Zenon DEF line, rest
<1> HIDE DEF f, k, ln, rs, A
<1>5. f \in Nat /\ k \in Nat /\ k = f + 2 /\ pos + 2 <= f /\ k <= Len(d) /\ k \in 0 .. Len(d)
  BY <1>0, <1>1, <1>3 DEF f, k
<1>6. /\ IsPart(SubSeq(d, 1, k), whole, A) /\ Len(SubSeq(d, 1, k)) = k
      /\ IsPart(SubSeq(d, k + 1, Len(d)), whole, A + k) /\ Len(SubSeq(d, k + 1, Len(d))) = Len(d) - k
  <2>1. IsPart(d, whole, A)
    BY <1>2, Zenon DEF A
  <2> QED
    BY <1>1, <1>5, <2>1, PartCut
<1>7. \A i \in 1 .. k : ln[i] = d[i]
  <2>1. d \in Seq(Alphabet)
    BY <1>2, Zenon DEF IsPart
  <2> QED
    BY <1>4, <1>5, <2>1
<1>8. f <= pos + Run
  <2> DEFINE m == f + 1
             b == pos + 2
  <2>1. m \in Int /\ m <= Len(d) /\ b \in Nat
    BY <1>0, <1>1, <1>5
  <2>2. m - 2 = f - 1
    BY <1>5
  <2>3. \A i \in b .. m - 2 : ~IsEndl(d, i + 1)
    BY <1>3, <2>2, Zenon DEF f
  <2> HIDE DEF m, b
  <2>4. m < b + Run
    BY <1>1, <1>2, <2>1, <2>3, Gap, Zenon DEF whole
  <2> QED
    BY <1>0, <1>5, <2>4 DEF m, b
<1>9. Len(d) - k < BufferLen /\ Len(d) - k \in Nat
  <2>1. f \notin pos + 2 .. Len(d) - BufferLen - 2
    BY <1>2, <1>3, Zenon DEF f
  <2> QED
    BY <1>0, <1>1, <1>5, <2>1
<1>10. IsEndl(ln, f + 1)
  <2>1. f \in 0 .. k - 2
    BY <1>5
  <2> QED
    BY <1>3, <1>5, <1>7, <2>1, EndlSame, Zenon DEF f
<1>11. EndsWithEndl(ln)
  <2>1. Len(ln) = k
    BY <1>4, <1>6, Zenon
  <2>2. k >= 2 /\ k - 1 = f + 1
    BY <1>5
  <2> QED
    BY <1>10, <2>1, <2>2, Zenon DEF EndsWithEndl
<1> QED
  BY <1>4, <1>5, <1>6, <1>7, <1>8, <1>9, <1>10, <1>11, Zenon DEF f, k, ln, rs, A

\* The first end of line of a line, and what follows it.
IsHeader(e) ==
  /\ e \in 0 .. found /\ e <= Run + 2 /\ IsEndl(line, e + 1)
  /\ \A i \in 0 .. e - 1 : ~IsEndl(line, i + 1)
  /\ Body(line) = SubSeq(line, e + 3, cut) /\ Len(Body(line)) = cut - e - 2

\* What is known of a request that was not complete before.
IsPending(e) ==
  /\ data[1] \in StorageCommands /\ line[1] = data[1]
  /\ pos + 2 < e + Bytes[data[1]] + 4
  /\ readMore + (IF persistFlag THEN pos + 2 ELSE Len(data)) <= e + Bytes[data[1]] + 4

\* Every line has a command line, and it stays the same while data are read.
LEMMA HeaderFacts ==
  ASSUME Narrow, GInv, pc = "scan", EndlFound
  PROVE  \E e : IsHeader(e) /\ (pos # 0 => IsPending(e))
<1>0. /\ Run \in Nat /\ pos \in Nat
  BY Numbers, Zenon
<1>1. /\ found \in Nat /\ cut = found + 2 /\ pos + 2 <= found /\ found <= pos + Run
      /\ Len(line) = cut /\ line \in Seq(Alphabet)
      /\ \A i \in 1 .. cut : line[i] = data[i]
      /\ IsEndl(line, found + 1)
  BY CutFacts, Zenon DEF IsPart
<1>2. cut \in Nat /\ Len(line) \in Nat
  BY <1>1
<1>3. ASSUME NEW e, e \in 0 .. found, IsEndl(line, e + 1), \A i \in 0 .. e - 1 : ~IsEndl(line, i + 1)
      PROVE  Body(line) = SubSeq(line, e + 3, cut) /\ Len(Body(line)) = cut - e - 2
  <2>1. e \in 0 .. Len(line) - 2 /\ 0 \in Nat
    BY <1>1, <1>3
  <2>2. Find(line, 0) = e
    BY <1>2, <1>3, <2>1, FindIs, Zenon
  <2>3. Body(line) = SubSeq(line, e + 3, cut)
    BY <1>1, <2>2, Zenon DEF Body
  <2>4. \A s \in Seq(Alphabet) : Len(s) = cut => Len(SubSeq(s, e + 3, cut)) = cut - e - 2
    BY <1>1, <1>3
  <2> QED
    BY <1>1, <2>3, <2>4, Zenon
<1>4. CASE pos = 0
  <2> DEFINE e == Find(line, 0)
  <2>1. \/ \A i \in 0 .. Len(line) - 2 : ~IsEndl(line, i + 1)
        \/ /\ e \in 0 .. Len(line) - 2 /\ IsEndl(line, e + 1)
           /\ \A i \in 0 .. e - 1 : ~IsEndl(line, i + 1)
    <3>1. 0 \in Nat
      OBVIOUS
    <3> QED
      BY <1>2, <3>1, FindFacts, Zenon
  <2> HIDE DEF e
  <2>2. found \in 0 .. Len(line) - 2
    BY <1>1
  <2>3. /\ e \in 0 .. Len(line) - 2 /\ IsEndl(line, e + 1)
        /\ \A i \in 0 .. e - 1 : ~IsEndl(line, i + 1)
    BY <1>1, <2>1, <2>2, Zenon
  <2>4. found \notin 0 .. e - 1
    BY <1>1, <2>3, Zenon
  <2>5. e \in 0 .. found /\ e <= Run + 2
    BY <1>0, <1>1, <1>4, <2>3, <2>4
  <2> QED
    BY <1>3, <1>4, <2>3, <2>5, Zenon DEF IsHeader
<1>5. CASE pos # 0
  <2>1. InRequest
    BY <1>5, Zenon DEF GInv, Reading
  <2>2. PICK e \in 0 .. pos :
          /\ HeaderAt(e)
          /\ pos + 2 < e + Bytes[data[1]] + 4
          /\ readMore + (IF persistFlag THEN pos + 2 ELSE Len(data)) <= e + Bytes[data[1]] + 4
    BY <2>1, Zenon DEF InRequest
  <2>3. /\ e <= Run + 2 /\ IsEndl(data, e + 1)
        /\ \A i \in 0 .. e - 1 : ~IsEndl(data, i + 1)
    BY <2>2, Zenon DEF HeaderAt
  <2>4. e \in 0 .. found /\ e \in 0 .. cut - 2 /\ 1 \in 1 .. cut /\ \A i \in 0 .. e - 1 : i \in 0 .. cut - 2
    BY <1>0, <1>1, <2>2
  <2>5. IsEndl(line, e + 1) /\ \A i \in 0 .. e - 1 : ~IsEndl(line, i + 1)
    BY <1>1, <1>2, <2>3, <2>4, EndlSame, Zenon
  <2>6. IsPending(e)
    BY <1>1, <2>1, <2>2, <2>4, Zenon DEF IsPending, InRequest
  <2>7. IsHeader(e)
    BY <1>3, <2>3, <2>4, <2>5, Zenon DEF IsHeader
  <2> QED
    BY <2>6, <2>7, Zenon
<1> QED
  BY <1>4, <1>5, Zenon

\* The fields of a request.
LEMMA Fields ==
  \A c, d : /\ [command |-> c, data |-> d].command = c /\ [command |-> c, data |-> d].data = d
            /\ \A C, D : c \in C /\ d \in D => [command |-> c, data |-> d] \in [command: C, data: D]
OBVIOUS

\* What cmdProcessCommand says of a line (src/src/scmd.cpp).
LEMMA CommandFacts ==
  ASSUME Narrow, GInv, pc = "scan", EndlFound, NEW e, IsHeader(e)
  PROVE  LET n == Bytes[line[1]]
             b == cut - e - 2
             body == SubSeq(line, e + 3, cut)
         IN \/ /\ line[1] \notin Commands
               /\ cmdProcessCommand(line) = 0 /\ Request(line) = ERROR
            \/ /\ line[1] \in StorageCommands /\ n \in Nat /\ b < n
               /\ cmdProcessCommand(line) = n + 2 - b
            \/ /\ line[1] \in StorageCommands /\ n \in Nat /\ n <= b
               /\ cmdProcessCommand(line) = 0
               /\ Request(line) = [command |-> line[1], data |-> SubSeq(body, 1, n)]
            \/ /\ line[1] \in Queries /\ line[1] \notin StorageCommands
               /\ cmdProcessCommand(line) = 0
               /\ Request(line) = [command |-> line[1], data |-> <<>>]
            \/ /\ line[1] = QUIT /\ line[1] \notin StorageCommands
               /\ cmdProcessCommand(line) = -1
<1> DEFINE c == line[1]
           n == Bytes[c]
           b == cut - e - 2
           body == SubSeq(line, e + 3, cut)
<1>0. /\ Longest \in Nat /\ UIntMod \in Nat /\ npos = UIntMod - 1
      /\ BufferLen \in Nat /\ 4 * Longest + 4 * BufferLen + 32 <= UIntMod
  BY Numbers, Zenon
<1>1. UInt(npos) = npos
  <2>1. npos \in Nat /\ npos < UIntMod
    BY <1>0
  <2> QED
    BY <2>1, UIntSmall, Zenon
<1>2. Known(line) <=> c \in Commands
  BY <1>1, Zenon DEF Known
<1>3. Body(line) = body /\ Len(Body(line)) = b
  BY Zenon DEF IsHeader
<1>4. b \in Nat
  <2>1. found \in Nat /\ cut = found + 2
    BY CutFacts, Zenon
  <2>2. e \in 0 .. found
    BY Zenon DEF IsHeader
  <2> QED
    BY <2>1, <2>2
<1> HIDE DEF b, body
<1>5. c \in StorageCommands => n \in Nat /\ n <= Longest
  BY Widths, Zenon
<1>6. CASE c \notin Commands
  BY <1>2, <1>6, Zenon DEF cmdProcessCommand, Request
<1>7. CASE c \in StorageCommands
  <2>1. Known(line)
    BY <1>2, <1>7, Zenon DEF Commands
  <2>2. cmdProcessCommand(line) = Larger(0, cmdProcessCommon(line))
    BY <1>7, <2>1, Zenon DEF cmdProcessCommand
  <2>3. cmdProcessCommon(line) = IF Smaller(n, b) < n THEN Int32(n + 2 - Smaller(n, b)) ELSE 0
    BY <1>3, Zenon DEF cmdProcessCommon
  <2>4. Request(line) = [command |-> c, data |-> SubSeq(body, 1, Smaller(n, b))]
    BY <1>3, <1>7, <2>1, Zenon DEF Request
  <2> HIDE DEF n
  <2>5. n \in Nat /\ n <= Longest
    BY <1>5, <1>7, Zenon DEF n
  <2>6. CASE b < n
    <3>1. Smaller(n, b) = b
      BY <1>4, <2>5, <2>6 DEF Smaller
    <3>2. n + 2 - b \in Int /\ -UIntMod < 2 * (n + 2 - b) /\ 2 * (n + 2 - b) < UIntMod - 1 /\ 0 < n + 2 - b
      BY <1>0, <1>4, <2>5, <2>6
    <3>3. Int32(n + 2 - b) = n + 2 - b
      BY <3>2, Int32Small, Zenon
    <3>4. cmdProcessCommand(line) = n + 2 - b
      BY <2>2, <2>3, <2>6, <3>1, <3>2, <3>3, Zenon DEF Larger
    <3> QED
      BY <1>7, <2>5, <2>6, <3>4, Zenon DEF n, b
  <2>7. CASE n <= b
    <3>1. Smaller(n, b) = n
      BY <1>4, <2>5, <2>7 DEF Smaller
    <3>2. ~(n < n) /\ ~(0 < 0)
      BY <2>5
    <3>3. cmdProcessCommand(line) = 0
      BY <2>2, <2>3, <3>1, <3>2, Zenon DEF Larger
    <3>4. Request(line) = [command |-> c, data |-> SubSeq(body, 1, n)]
      BY <2>4, <3>1, Zenon
    <3> QED
      BY <1>7, <2>5, <2>7, <3>3, <3>4, Zenon DEF n, b, body
  <2>8. b < n \/ n <= b
    BY <1>4, <2>5
  <2> QED
    BY <2>6, <2>7, <2>8, Zenon
<1>8. CASE c \in Commands /\ c \notin StorageCommands
  <2>1. Known(line)
    BY <1>2, <1>8, Zenon
  <2>2. Request(line) = [command |-> c, data |-> <<>>]
    BY <1>8, <2>1, Zenon DEF Request
  <2>3. cmdProcessCommand(line) = IF c = QUIT THEN -1 ELSE 0
    BY <1>8, <2>1, Zenon DEF cmdProcessCommand
  <2>4. c \in Queries \/ c = QUIT
    BY <1>8, Zenon DEF Commands
  <2> QED
    BY <1>8, <2>2, <2>3, <2>4, Zenon
<1> QED
  BY <1>6, <1>7, <1>8, Zenon DEF Commands

\* What a line is taken for is a request (lines 119-141).
LEMMA RequestHandled ==
  ASSUME Narrow, GInv, pc = "scan", EndlFound, cmdProcessCommand(line) = 0
  PROVE  IsHandled(Request(line))
<1> DEFINE c == line[1]
           n == Bytes[c]
<1>1. PICK e : IsHeader(e)
  BY HeaderFacts, Zenon
<1> DEFINE b == cut - e - 2
           body == SubSeq(line, e + 3, cut)
<1>2. \/ Request(line) = ERROR
      \/ c \in StorageCommands /\ n \in Nat /\ b < n /\ cmdProcessCommand(line) = n + 2 - b
      \/ /\ c \in StorageCommands /\ n \in Nat /\ n <= b
         /\ Request(line) = [command |-> c, data |-> SubSeq(body, 1, n)]
      \/ c \in Queries /\ Request(line) = [command |-> c, data |-> <<>>]
      \/ cmdProcessCommand(line) = -1
  BY <1>1, CommandFacts, Zenon
<1>3. CASE Request(line) = ERROR
  BY <1>3, Zenon DEF IsHandled
<1>4. Body(line) = body /\ Len(body) = b
  BY <1>1, Zenon DEF IsHeader
<1>5. line \in Seq(Alphabet) /\ Len(line) = cut /\ cut = found + 2 /\ found \in Nat /\ e \in 0 .. found
  BY <1>1, CutFacts, Zenon DEF IsPart, IsHeader
<1>6. b \in Nat
  BY <1>5
<1>7. ~(c \in StorageCommands /\ n \in Nat /\ b < n /\ cmdProcessCommand(line) = n + 2 - b)
  <2> HIDE DEF b, n
  <2> QED
    BY <1>6
<1>8. CASE /\ c \in StorageCommands /\ n \in Nat /\ n <= b
           /\ Request(line) = [command |-> c, data |-> SubSeq(body, 1, n)]
  <2>1. body \in Seq(Alphabet)
    <3>1. \A s \in Seq(Alphabet) : Len(s) = cut => SubSeq(s, e + 3, cut) \in Seq(Alphabet)
      BY <1>5
    <3> QED
      BY <1>5, <3>1, Zenon
  <2> HIDE DEF body, b, n
  <2>2. Len(SubSeq(body, 1, n)) = n
    BY <1>4, <1>6, <1>8, <2>1
  <2>3. Request(line).command = c /\ Request(line).data = SubSeq(body, 1, n)
    <3> DEFINE q == SubSeq(body, 1, n)
    <3>1. [command |-> c, data |-> q].command = c /\ [command |-> c, data |-> q].data = q
      BY Fields, Zenon
    <3>2. Request(line) = [command |-> c, data |-> q]
      BY <1>8, Zenon
    <3> HIDE DEF q
    <3>3. Request(line).command = c /\ Request(line).data = q
      BY <3>1, <3>2, Zenon
    <3> QED
      BY <3>3, Zenon DEF q
  <2> QED
    BY <1>8, <2>2, <2>3, Zenon DEF IsHandled, n
<1>9. CASE c \in Queries /\ Request(line) = [command |-> c, data |-> <<>>]
  BY <1>9, Fields, Zenon DEF IsHandled
<1>10. cmdProcessCommand(line) # -1
  BY SMT
<1> QED
  BY <1>2, <1>3, <1>7, <1>8, <1>9, <1>10, Zenon

-----------------------------------------------------------------------------
(* The general invariant is inductive *)

\* Bytes are put behind data: nothing that was seen changes.
LEMMA Grows ==
  ASSUME Narrow, GInv, pc = "fill", pos' = pos, NEW more, data' = data \o more, Len(more) <= BufferLen,
         IsPart(more, whole, (Len(whole) - held) + Len(data))
  PROVE  /\ Len(more) \in Nat /\ Len(data') = Len(data) + Len(more) /\ IsPart(data', whole, Len(whole) - held)
         /\ \A i \in pos + 2 .. Len(data') - BufferLen - 2 : ~IsEndl(data', i + 1)
         /\ pos # 0 => /\ data'[1] = data[1] /\ IsEndl(data', pos + 1)
                       /\ \A e \in 0 .. pos : HeaderAt(e) => HeaderAt(e)'
<1>0. /\ BufferLen \in Nat /\ pos \in Nat
  BY Numbers, Zenon
<1>1. Len(data) \in Nat /\ Len(whole) \in Nat
  BY Lengths, Zenon
<1> DEFINE d == data
           z == data'
           A == Len(whole) - held
<1>2. IsPart(d, whole, A)
  BY Zenon DEF GInv, Pieces
<1>3. d \in Seq(Alphabet) /\ more \in Seq(Alphabet)
  BY <1>2, Zenon DEF IsPart
<1>4. Len(more) \in Nat
  BY <1>3, LenProperties, Zenon
<1>5. IsPart(z, whole, A) /\ Len(z) = Len(d) + Len(more)
  <2> HIDE DEF A
  <2>1. IsPart(more, whole, A + Len(d))
    BY Zenon DEF A
  <2>2. IsPart(d \o more, whole, A) /\ Len(d \o more) = Len(d) + Len(more)
    BY <1>1, <1>2, <2>1, PartConcat
  <2> QED
    BY <2>2, Zenon
<1>6. \A i \in 1 .. Len(d) : z[i] = d[i]
  <2>1. \A s, t \in Seq(Alphabet) : \A i \in 1 .. Len(s) : (s \o t)[i] = s[i]
    OBVIOUS
  <2> QED
    BY <1>3, <2>1, Zenon
<1>7. \A i \in 0 .. Len(d) - 2 : IsEndl(z, i + 1) <=> IsEndl(d, i + 1)
  BY <1>1, <1>6, EndlSame, Zenon
<1>8. ASSUME NEW i \in pos + 2 .. Len(z) - BufferLen - 2
      PROVE  ~IsEndl(z, i + 1)
  <2>1. i \in pos + 2 .. Len(d) - 0 - 2 /\ i \in 0 .. Len(d) - 2
    BY <1>0, <1>1, <1>4, <1>5
  <2>2. ~IsEndl(d, i + 1)
    BY <2>1, Zenon DEF GInv, Reading, Scanned
  <2> QED
    BY <1>7, <2>1, <2>2, Zenon
<1>9. ASSUME pos # 0
      PROVE  /\ z[1] = d[1] /\ IsEndl(z, pos + 1)
             /\ \A e \in 0 .. pos : HeaderAt(e) => HeaderAt(e)'
  <2>1. pos + 2 <= Len(d) /\ IsEndl(d, pos + 1)
    BY <1>9, Zenon DEF GInv, Reading, Kept, InRequest
  <2>2. 1 \in 1 .. Len(d) /\ pos \in 0 .. Len(d) - 2
    BY <1>0, <1>1, <2>1
  <2>3. z[1] = d[1] /\ IsEndl(z, pos + 1)
    BY <1>6, <1>7, <2>1, <2>2, Zenon
  <2>4. ASSUME NEW e \in 0 .. pos, HeaderAt(e)
        PROVE  HeaderAt(e)'
    <3>1. e \in 0 .. Len(d) - 2 /\ \A i \in 0 .. e - 1 : i \in 0 .. Len(d) - 2
      BY <1>0, <1>1, <2>1
    <3>2. e <= Run + 2 /\ IsEndl(d, e + 1) /\ \A i \in 0 .. e - 1 : ~IsEndl(d, i + 1)
      BY <2>4, Zenon DEF HeaderAt
    <3>3. e <= Run + 2 /\ IsEndl(z, e + 1) /\ \A i \in 0 .. e - 1 : ~IsEndl(z, i + 1)
      BY <1>7, <3>1, <3>2, Zenon
    <3> QED
      BY <3>3, Zenon DEF HeaderAt, Run, Longest, Short, StorageCommands
  <2> QED
    BY <2>3, <2>4, Zenon
<1> QED
  BY <1>4, <1>5, <1>8, <1>9, Zenon

\* The bytes left over are used (lines 54-59).
LEMMA ReuseGeneral ==
  ASSUME Narrow, GInv, Reuse
  PROVE  GInv' /\ held' = held
<1>0. /\ BufferLen \in Nat /\ pos \in Nat /\ readMore \in Int
  BY Numbers, Zenon
<1>1. /\ Len(data) \in Nat /\ Len(whole) \in Nat /\ Len(wire) \in Nat /\ Len(persistentData) \in Nat
      /\ held = Len(data) + Len(persistentData) + Len(wire)
  BY Lengths, Zenon
<1>2. /\ pc = "fill" /\ persistentData # <<>> /\ data' = data \o persistentData /\ persistentData' = <<>>
      /\ persistFlag' = TRUE /\ pc' = "scan"
      /\ sent' = sent /\ wire' = wire /\ gone' = gone /\ pos' = pos /\ readMore' = readMore /\ handled' = handled
  BY Zenon DEF Reuse, client
<1>3. Reading /\ Pieces
  BY <1>2, Zenon DEF GInv
<1>4. Len(persistentData) <= BufferLen /\ Len(data) = Kept /\ persistFlag = FALSE
  BY <1>2, <1>3, Zenon DEF Reading, GInv
<1>5. IsPart(persistentData, whole, (Len(whole) - held) + Len(data))
  BY <1>3, Zenon DEF Pieces
<1>6. /\ Len(data') = Len(data) + Len(persistentData) /\ IsPart(data', whole, Len(whole) - held)
      /\ \A i \in pos + 2 .. Len(data') - BufferLen - 2 : ~IsEndl(data', i + 1)
      /\ pos # 0 => /\ data'[1] = data[1] /\ IsEndl(data', pos + 1)
                    /\ \A e \in 0 .. pos : HeaderAt(e) => HeaderAt(e)'
  BY <1>2, <1>4, <1>5, Grows, Zenon
<1>7. Len(persistentData) > 0
  <2>1. persistentData \in Seq(Alphabet)
    BY <1>5, Zenon DEF IsPart
  <2> QED
    BY <1>2, <2>1
<1>8. whole' = whole
  BY <1>2, Zenon DEF whole, EncodeAll
<1>9. held' = held
  <2>1. Len(<<>>) = 0
    OBVIOUS
  <2>2. held' = Len(data') + 0 + Len(wire)
    BY <1>2, <2>1, Zenon DEF held
  <2> QED
    BY <1>1, <1>6, <2>2
<1>10. Pieces'
  <2>1. IsPart(<<>>, whole, (Len(whole) - held) + Len(data'))
    <3> DEFINE a == (Len(whole) - held) + Len(data')
    <3>1. a \in Nat /\ a <= Len(whole)
      <4>1. Len(whole) - held \in Nat
        BY <1>3, Zenon DEF Pieces, IsPart
      <4> QED
        BY <1>1, <1>6, <4>1
    <3> HIDE DEF a
    <3>2. IsPart(<<>>, whole, a)
      BY <1>1, <3>1, PartEmpty, Zenon
    <3> QED
      BY <3>2, Zenon DEF a
  <2>2. IsPart(wire, whole, Len(whole) - Len(wire))
    BY <1>3, Zenon DEF Pieces
  <2> QED
    BY <1>2, <1>6, <1>8, <1>9, <2>1, <2>2, Zenon DEF Pieces
<1>11. Kept' = Kept /\ Kept \in Nat
  BY <1>0, <1>2 DEF Kept
<1>12. Reading'
  <2>1. Kept' <= Len(data') /\ Kept' < Len(data')
    BY <1>1, <1>4, <1>6, <1>7, <1>11
  <2>2. IF pos' = 0 THEN readMore' <= 0 ELSE InRequest'
    <3>1. CASE pos = 0
      BY <1>2, <1>3, <3>1, Zenon DEF Reading
    <3>2. CASE pos # 0
      <4>1. InRequest
        BY <1>3, <3>2, Zenon DEF Reading
      <4>2. PICK e \in 0 .. pos :
              /\ HeaderAt(e)
              /\ pos + 2 < e + Bytes[data[1]] + 4
              /\ readMore + (IF persistFlag THEN pos + 2 ELSE Len(data)) <= e + Bytes[data[1]] + 4
        BY <4>1, Zenon DEF InRequest
      <4>3. Len(data) = pos + 2
        BY <1>4, <3>2, Zenon DEF Kept
      <4>4. readMore + (pos + 2) <= e + Bytes[data[1]] + 4
        BY <1>4, <4>2, <4>3, Zenon
      <4>5. data[1] \in StorageCommands
        BY <4>1, Zenon DEF InRequest
      <4>6. /\ HeaderAt(e)' /\ data'[1] = data[1] /\ IsEndl(data', pos + 1)
        BY <1>6, <3>2, <4>2, Zenon
      <4>7. InRequest'
        BY <1>2, <4>2, <4>4, <4>5, <4>6, Zenon DEF InRequest, StorageCommands
      <4> QED
        BY <1>2, <3>2, <4>7, Zenon
    <3> QED
      BY <3>1, <3>2
  <2>3. readMore <= Longest + 2 /\ Kept <= readMore + Len(data)
    BY <1>3, Zenon DEF Reading
  <2>4. Kept' <= readMore' + Len(data')
    BY <1>0, <1>1, <1>2, <1>6, <1>11, <2>3
  <2>5. readMore' <= Longest' + 2
    BY <1>2, <2>3, Zenon DEF Longest, Short, StorageCommands
  <2>6. Scanned(BufferLen)'
    BY <1>2, <1>6, Zenon DEF Scanned
  <2>7. pc' = "scan" /\ pc' # "fill"
    BY <1>2, Zenon
  <2> QED
    BY <1>2, <2>1, <2>2, <2>4, <2>5, <2>6, <2>7, Zenon DEF Reading
<1> QED
  BY <1>2, <1>9, <1>10, <1>12, Zenon DEF GInv, IsHandled

\* Bytes arrive (lines 62 and 87-88).
LEMMA ReceiveGeneral ==
  ASSUME Narrow, GInv, NEW rc \in 1 .. BufferLen, Receive(rc)
  PROVE  GInv' /\ held' = held
<1>0. /\ Longest \in Nat /\ Run \in Nat /\ Run = Longest + 5 /\ UIntMod \in Nat
      /\ BufferLen \in Nat /\ 0 < BufferLen /\ 4 * Longest + 4 * BufferLen + 32 <= UIntMod
      /\ pos \in Nat /\ readMore \in Int
      /\ -(Run + BufferLen + 2) <= readMore /\ readMore <= Longest + 2
  BY Numbers, Zenon
<1>1. /\ Len(data) \in Nat /\ Len(whole) \in Nat /\ Len(wire) \in Nat /\ Len(persistentData) \in Nat
      /\ held = Len(data) + Len(persistentData) + Len(wire) /\ sent \in Streams
  BY Lengths, Zenon
<1> DEFINE more == SubSeq(wire, 1, rc)
<1>2. /\ pc = "fill" /\ persistentData = <<>> /\ rc <= Len(wire) /\ data' = data \o more
      /\ wire' = SubSeq(wire, rc + 1, Len(wire)) /\ readMore' = Int32(readMore - rc) /\ pc' = "scan"
      /\ sent' = sent /\ gone' = gone /\ persistentData' = persistentData /\ pos' = pos
      /\ persistFlag' = persistFlag /\ handled' = handled
  BY Zenon DEF Receive
<1>3. Reading /\ Pieces
  BY <1>2, Zenon DEF GInv
<1>4. Len(persistentData) = 0
  BY <1>2
<1>5. rc \in Nat /\ rc <= BufferLen /\ 1 <= rc /\ rc \in 0 .. Len(wire)
  BY <1>0, <1>1, <1>2
<1>6. /\ IsPart(more, whole, Len(whole) - Len(wire)) /\ Len(more) = rc
      /\ IsPart(wire', whole, (Len(whole) - Len(wire)) + rc) /\ Len(wire') = Len(wire) - rc
  <2>1. IsPart(wire, whole, Len(whole) - Len(wire))
    BY <1>3, Zenon DEF Pieces
  <2> DEFINE a == Len(whole) - Len(wire)
  <2> HIDE DEF a
  <2>2. IsPart(wire, whole, a)
    BY <2>1, Zenon DEF a
  <2>3. /\ IsPart(more, whole, a) /\ Len(more) = rc
        /\ IsPart(SubSeq(wire, rc + 1, Len(wire)), whole, a + rc)
        /\ Len(SubSeq(wire, rc + 1, Len(wire))) = Len(wire) - rc
    BY <1>1, <1>5, <2>2, PartCut
  <2> QED
    BY <1>2, <2>3, Zenon DEF a
<1> HIDE DEF more
<1>7. (Len(whole) - held) + Len(data) = Len(whole) - Len(wire)
  BY <1>1, <1>4
<1>8. /\ Len(data') = Len(data) + Len(more) /\ IsPart(data', whole, Len(whole) - held)
      /\ \A i \in pos + 2 .. Len(data') - BufferLen - 2 : ~IsEndl(data', i + 1)
      /\ pos # 0 => /\ data'[1] = data[1] /\ IsEndl(data', pos + 1)
                    /\ \A e \in 0 .. pos : HeaderAt(e) => HeaderAt(e)'
  <2>1. Len(more) <= BufferLen /\ IsPart(more, whole, (Len(whole) - held) + Len(data))
    BY <1>5, <1>6, <1>7, Zenon
  <2> QED
    BY <1>2, <2>1, Grows, Zenon
<1>9. Len(data') = Len(data) + rc
  BY <1>6, <1>8, Zenon
<1>10. Kept' = Kept /\ Kept \in Nat /\ (pos # 0 => Kept = pos + 2) /\ (pos = 0 => Kept = 0)
  BY <1>0, <1>2 DEF Kept
<1>11. /\ Kept <= Len(data) /\ (persistFlag => Kept < Len(data))
       /\ Kept <= readMore + Len(data) /\ Scanned(0)
  BY <1>2, <1>3, Zenon DEF Reading
<1>12. Len(data) < pos + 2 + Run
  <2> DEFINE m == Len(data)
             k == pos + 2
  <2>1. m \in Int /\ m <= Len(data) /\ k \in Nat /\ Len(data) - 0 - 2 = m - 2
    BY <1>0, <1>1
  <2>2. \A i \in k .. m - 2 : ~IsEndl(data, i + 1)
    BY <1>11, <2>1, Zenon DEF Scanned
  <2>3. IsPart(data, EncodeAll(sent), Len(whole) - held)
    BY <1>3, Zenon DEF Pieces, whole
  <2> HIDE DEF m, k
  <2>4. m < k + Run
    BY <1>1, <2>1, <2>2, <2>3, Gap, Zenon
  <2> QED
    BY <2>4, Zenon DEF m, k
<1>13. /\ readMore' = readMore - rc
       /\ -(Run + BufferLen + 2) <= readMore - rc /\ readMore - rc <= Longest + 2
  <2>1. -(Run + BufferLen + 2) <= readMore - rc
    <3>1. CASE pos = 0
      BY <1>0, <1>1, <1>5, <1>10, <1>11, <1>12, <3>1
    <3>2. CASE pos # 0
      BY <1>0, <1>1, <1>5, <1>10, <1>11, <1>12, <3>2
    <3> QED
      BY <3>1, <3>2
  <2>2. readMore - rc \in Int /\ -UIntMod < 2 * (readMore - rc) /\ 2 * (readMore - rc) < UIntMod - 1
    BY <1>0, <1>5, <2>1
  <2>3. Int32(readMore - rc) = readMore - rc
    BY <2>2, Int32Small, Zenon
  <2>4. readMore - rc <= Longest + 2
    BY <1>0, <1>5
  <2> QED
    BY <1>2, <2>1, <2>3, <2>4, Zenon
<1>14. whole' = whole
  BY <1>2, Zenon DEF whole, EncodeAll
<1>15. held' = held
  <2>1. held' = Len(data') + Len(persistentData) + Len(wire')
    BY <1>2, Zenon DEF held
  <2> QED
    BY <1>1, <1>5, <1>6, <1>9, <2>1
<1>16. Pieces'
  <2>1. (Len(whole) - held) + Len(data') = (Len(whole) - Len(wire)) + rc
    BY <1>1, <1>4, <1>5, <1>9
  <2>2. (Len(whole) - Len(wire)) + rc = Len(whole) - Len(wire')
    BY <1>1, <1>5, <1>6
  <2>3. IsPart(<<>>, whole, (Len(whole) - Len(wire)) + rc)
    <3> DEFINE a == (Len(whole) - Len(wire)) + rc
    <3>1. a \in Nat /\ a <= Len(whole)
      <4>1. Len(whole) - held \in Nat
        BY <1>3, Zenon DEF Pieces, IsPart
      <4> QED
        BY <1>1, <1>4, <1>5, <4>1
    <3> HIDE DEF a
    <3>2. IsPart(<<>>, whole, a)
      BY <1>1, <3>1, PartEmpty, Zenon
    <3> QED
      BY <3>2, Zenon DEF a
  <2>4. /\ IsPart(persistentData', whole, (Len(whole) - held) + Len(data'))
        /\ IsPart(wire', whole, Len(whole) - Len(wire'))
    BY <1>2, <1>6, <2>1, <2>2, <2>3, Zenon
  <2> QED
    BY <1>8, <1>14, <1>15, <2>4, Zenon DEF Pieces
<1>17. Reading'
  <2>1. Kept' <= Len(data') /\ (persistFlag' => Kept' < Len(data'))
    <3>1. Kept <= Len(data') /\ (Kept < Len(data) => Kept < Len(data'))
      BY <1>1, <1>5, <1>9, <1>10, <1>11
    <3> QED
      BY <1>2, <1>10, <1>11, <3>1, Zenon
  <2>2. IF pos' = 0 THEN readMore' <= 0 ELSE InRequest'
    <3>1. CASE pos = 0
      <4>1. readMore <= 0
        BY <1>3, <3>1, Zenon DEF Reading
      <4>2. readMore' <= 0
        BY <1>0, <1>5, <1>13, <4>1
      <4> QED
        BY <1>2, <3>1, <4>2, Zenon
    <3>2. CASE pos # 0
      <4>1. InRequest
        BY <1>3, <3>2, Zenon DEF Reading
      <4>2. PICK e \in 0 .. pos :
              /\ HeaderAt(e)
              /\ pos + 2 < e + Bytes[data[1]] + 4
              /\ readMore + (IF persistFlag THEN pos + 2 ELSE Len(data)) <= e + Bytes[data[1]] + 4
        BY <4>1, Zenon DEF InRequest
      <4>3. data[1] \in StorageCommands
        BY <4>1, Zenon DEF InRequest
      <4>4. Bytes[data[1]] \in Nat
        BY <4>3, Widths, Zenon
      <4>5. readMore' + (IF persistFlag THEN pos + 2 ELSE Len(data')) <= e + Bytes[data[1]] + 4
        <5> DEFINE n == Bytes[data[1]]
        <5> HIDE DEF n
        <5>1. n \in Nat
          BY <4>4, Zenon DEF n
        <5>2. CASE persistFlag
          <6>1. readMore + (pos + 2) <= e + n + 4
            BY <4>2, <5>2, Zenon DEF n
          <6>2. readMore' + (pos + 2) <= e + n + 4
            BY <1>0, <1>5, <1>13, <5>1, <6>1
          <6> QED
            BY <5>2, <6>2, Zenon DEF n
        <5>3. CASE ~persistFlag
          <6>1. readMore + Len(data) <= e + n + 4
            BY <4>2, <5>3, Zenon DEF n
          <6>2. readMore' + Len(data') = readMore + Len(data)
            BY <1>0, <1>1, <1>5, <1>9, <1>13
          <6> QED
            BY <5>3, <6>1, <6>2, Zenon DEF n
        <5> QED
          BY <5>2, <5>3
      <4>6. /\ HeaderAt(e)' /\ data'[1] = data[1] /\ IsEndl(data', pos + 1)
        BY <1>8, <3>2, <4>2, Zenon
      <4>7. InRequest'
        BY <1>2, <4>2, <4>3, <4>5, <4>6, Zenon DEF InRequest, StorageCommands
      <4> QED
        BY <1>2, <3>2, <4>7, Zenon
    <3> QED
      BY <3>1, <3>2
  <2>3. Kept' <= readMore' + Len(data')
    BY <1>0, <1>1, <1>5, <1>9, <1>10, <1>11, <1>13
  <2>4. readMore' <= Longest' + 2
    BY <1>13, Zenon DEF Longest, Short, StorageCommands
  <2>5. Scanned(BufferLen)'
    BY <1>2, <1>8, Zenon DEF Scanned
  <2>6. pc' = "scan" /\ pc' # "fill" /\ persistentData' = <<>>
    BY <1>2, Zenon
  <2> QED
    BY <2>1, <2>2, <2>3, <2>4, <2>5, <2>6, Zenon DEF Reading
<1>18. readMore' \in -(Run + BufferLen + 2) .. Longest + 2
  BY <1>0, <1>5, <1>13
<1> QED
  BY <1>2, <1>15, <1>16, <1>17, <1>18, Zenon DEF GInv, IsHandled, Run, Longest, Short, StorageCommands

\* The connection is lost, or the client goes away: what is held stays.
LEMMA IdleGeneral ==
  ASSUME GInv, locals' = locals, sent' = sent, wire' = wire, handled' = handled, gone' \in BOOLEAN,
         pc' = pc \/ pc' = "closed"
  PROVE  GInv' /\ held' = held
<1>1. /\ data' = data /\ persistentData' = persistentData /\ pos' = pos /\ readMore' = readMore
      /\ persistFlag' = persistFlag
  BY Zenon DEF locals
<1>2. pc' # "closed" => pc' = pc
  BY Zenon
<1>3. Pieces' /\ held' = held
  BY <1>1, Zenon DEF GInv, Pieces, IsPart, whole, held, EncodeAll
<1>4. ASSUME pc' # "closed"
      PROVE  Reading'
  <2>1. pc' = pc /\ Reading
    BY <1>2, <1>4, Zenon DEF GInv
  <2>2. InRequest => InRequest'
    BY <1>1, Zenon DEF InRequest, HeaderAt, Run, Longest, Short, StorageCommands
  <2>3. Kept' = Kept /\ \A k : Scanned(k) => Scanned(k)'
    BY <1>1, Zenon DEF Kept, Scanned
  <2> QED
    BY <1>1, <2>1, <2>2, <2>3, Zenon DEF Reading, Longest, Short, StorageCommands
<1>5. pc' \in {"fill", "scan", "closed"}
  BY Zenon DEF GInv
<1> QED
  BY <1>1, <1>3, <1>4, <1>5, Zenon DEF GInv, IsHandled, Run, Longest, Short, StorageCommands

\* No end of line yet (lines 92-97).
LEMMA NoEndlGeneral ==
  ASSUME Narrow, GInv, NoEndl
  PROVE  GInv' /\ held' = held
<1>0. pos \in Nat /\ UIntMod \in Nat /\ BufferLen \in Nat
  BY Numbers, Zenon
<1>1. /\ pc = "scan" /\ found = npos /\ pos' = UInt(oldPos - 2) /\ pc' = "fill"
      /\ sent' = sent /\ wire' = wire /\ gone' = gone /\ data' = data /\ persistentData' = persistentData
      /\ readMore' = readMore /\ persistFlag' = persistFlag /\ handled' = handled
  BY Zenon DEF NoEndl, client
<1>2. EndlMissing /\ oldPos = pos + 2
  BY <1>1, ScanFacts, Zenon DEF EndlFound
<1>3. pos' = pos
  <2>1. oldPos - 2 = pos /\ pos < UIntMod
    <3>1. pos <= 2 * Run + Longest /\ Run = Longest + 5 /\ 4 * Longest + 4 * BufferLen + 32 <= UIntMod
          /\ Longest \in Nat
      BY Numbers, Zenon
    <3> QED
      BY <1>0, <1>2, <3>1
  <2> QED
    BY <1>0, <1>1, <2>1, UIntSmall, Zenon
<1>4. Reading /\ Pieces
  BY <1>1, Zenon DEF GInv
<1>5. Pieces' /\ held' = held
  BY <1>1, <1>4, Zenon DEF Pieces, IsPart, whole, held, EncodeAll
<1>6. InRequest => InRequest'
  BY <1>1, <1>3, Zenon DEF InRequest, HeaderAt, Run, Longest, Short, StorageCommands
<1>7. Scanned(0)'
  <2>1. Len(data) - 0 - 2 = Len(data) - 2
    <3>1. Len(data) \in Nat
      BY Lengths, Zenon
    <3> QED
      BY <3>1
  <2> QED
    BY <1>1, <1>2, <1>3, <2>1, Zenon DEF Scanned, EndlMissing
<1>8. persistentData' = <<>> /\ Len(persistentData') <= BufferLen
  <2>1. persistentData' = <<>>
    BY <1>1, <1>4, Zenon DEF Reading
  <2>2. Len(<<>>) <= BufferLen
    BY <1>0
  <2> QED
    BY <2>1, <2>2, Zenon
<1>9. Kept' = Kept
  BY <1>3, Zenon DEF Kept
<1>10. pc' # "scan"
  BY <1>1, Zenon
<1>11. Reading'
  <2>1. /\ Kept <= Len(data) /\ (persistFlag => Kept < Len(data)) /\ Kept <= readMore + Len(data)
        /\ IF pos = 0 THEN readMore <= 0 ELSE InRequest
    BY <1>4, Zenon DEF Reading
  <2>2. readMore' <= Longest' + 2
    BY <1>1, <1>4, Zenon DEF Reading, Longest, Short, StorageCommands
  <2> QED
    BY <1>1, <1>3, <1>6, <1>7, <1>8, <1>9, <1>10, <2>1, <2>2, Zenon DEF Reading
<1> QED
  BY <1>1, <1>3, <1>5, <1>11, Zenon DEF GInv, IsHandled, Run, Longest, Short, StorageCommands

\* The line is cut off: the pieces behind it.
LEMMA CutPieces ==
  ASSUME Narrow, GInv, pc = "scan", EndlFound, sent' = sent, wire' = wire, persistentData' = rest
  PROVE  /\ whole' = whole
         /\ data' = line => Pieces' /\ held' = held /\ Len(data') = cut
         /\ data' = <<>> => Pieces' /\ held' = held - cut
<1>0. /\ Len(data) \in Nat /\ Len(whole) \in Nat /\ Len(wire) \in Nat /\ held \in Nat /\ held <= Len(whole)
      /\ held = Len(data) + Len(persistentData) + Len(wire)
  BY Lengths, Zenon
<1>1. /\ found \in Nat /\ cut = found + 2 /\ cut <= Len(data)
      /\ Len(line) = cut /\ IsPart(line, whole, Len(whole) - held)
      /\ Len(rest) = Len(data) - cut /\ IsPart(rest, whole, (Len(whole) - held) + cut)
  BY CutFacts, Zenon
<1>2. whole' = whole
  BY Zenon DEF whole, EncodeAll
<1>3. Pieces /\ Reading
  BY Zenon DEF GInv
<1>4. Len(persistentData) = 0
  <2>1. persistentData = <<>>
    BY <1>3, Zenon DEF Reading
  <2> QED
    BY <2>1
<1>5. IsPart(wire', whole', Len(whole') - Len(wire'))
  BY <1>2, <1>3, Zenon DEF Pieces
<1>6. held' = Len(data') + Len(rest) + Len(wire)
  BY Zenon DEF held
<1>7. ASSUME data' = line
      PROVE  Pieces' /\ held' = held /\ Len(data') = cut
  <2>1. Len(data') = cut
    BY <1>1, <1>7, Zenon
  <2>2. held' = held
    BY <1>0, <1>1, <1>4, <1>6, <2>1
  <2> QED
    BY <1>1, <1>2, <1>5, <1>7, <2>1, <2>2, Zenon DEF Pieces
<1>8. ASSUME data' = <<>>
      PROVE  Pieces' /\ held' = held - cut
  <2>1. Len(data') = 0
    BY <1>8
  <2>2. held' = held - cut
    BY <1>0, <1>1, <1>4, <1>6, <2>1
  <2> DEFINE a == (Len(whole) - held) + cut
  <2>3. a = Len(whole) - held' /\ a = (Len(whole) - held') + Len(data') /\ a \in Nat /\ a <= Len(whole)
    BY <1>0, <1>1, <2>1, <2>2
  <2>4. IsPart(<<>>, whole, a)
    <3> HIDE DEF a
    <3> QED
      BY <1>0, <2>3, PartEmpty, Zenon
  <2> QED
    BY <1>1, <1>2, <1>5, <1>8, <2>2, <2>3, <2>4, Zenon DEF Pieces
<1> QED
  BY <1>2, <1>7, <1>8, Zenon

\* When more bytes are needed, they are bytes the command line announces.
LEMMA GoOnFacts ==
  ASSUME Narrow, GInv, GoOn
  PROVE  \E e : /\ IsHeader(e) /\ line[1] \in StorageCommands
                /\ cut < e + Bytes[line[1]] + 4 /\ readMore' + cut <= e + Bytes[line[1]] + 4
                /\ readMore' \in 1 .. Longest + 2
<1>1. /\ pc = "scan" /\ found # npos /\ (Tried => cmdProcessCommand(line) > 0)
      /\ readMore' = IF Tried THEN cmdProcessCommand(line) ELSE missing
  BY Zenon DEF GoOn, Cut
<1>2. EndlFound
  BY <1>1, ScanFacts, Zenon DEF EndlMissing
<1>3. PICK e : IsHeader(e) /\ (pos # 0 => IsPending(e))
  BY <1>1, <1>2, HeaderFacts, Zenon
<1> DEFINE n == Bytes[line[1]]
           b == cut - e - 2
<1>4. /\ found \in Nat /\ cut = found + 2 /\ e \in 0 .. found /\ cut <= Len(data) /\ pos + 2 <= found
      /\ EndsWithEndl(line)
  BY <1>1, <1>2, <1>3, CutFacts, Zenon DEF IsHeader
<1>5. CASE Tried
  <2>1. cmdProcessCommand(line) > 0
    BY <1>1, <1>5, Zenon
  <2>2. \/ cmdProcessCommand(line) = 0
        \/ /\ line[1] \in StorageCommands /\ n \in Nat /\ b < n
           /\ cmdProcessCommand(line) = n + 2 - b
        \/ cmdProcessCommand(line) = -1
    BY <1>1, <1>2, <1>3, CommandFacts, Zenon
  <2>3. ~(0 > 0) /\ ~(-1 > 0)
    OBVIOUS
  <2>4. line[1] \in StorageCommands /\ n \in Nat /\ b < n /\ cmdProcessCommand(line) = n + 2 - b
    BY <2>1, <2>2, <2>3, Zenon
  <2>5. n <= Longest /\ Longest \in Nat
    BY <2>4, Widths, Zenon
  <2>6. readMore' = n + 2 - b
    BY <1>1, <1>5, <2>4, Zenon
  <2> HIDE DEF n
  <2>7. cut < e + n + 4 /\ readMore' + cut <= e + n + 4
    BY <1>4, <2>4, <2>6
  <2>8. readMore' \in 1 .. Longest + 2
    BY <1>4, <2>4, <2>5, <2>6
  <2> QED
    BY <1>3, <2>4, <2>7, <2>8, Zenon DEF n
<1>6. CASE ~Tried
  <2>1. readMore' = missing /\ ~(missing <= 0)
    BY <1>1, <1>4, <1>6, Zenon DEF Tried
  <2>2. missing = IF persistFlag THEN readMore - (found - pos) ELSE readMore
    BY <1>2, Zenon DEF EndlFound
  <2>3. pos \in Nat /\ readMore \in Int /\ readMore <= Longest + 2 /\ Longest \in Nat /\ Len(data) \in Nat
    BY Numbers, Lengths, Zenon
  <2>4. missing \in Int /\ missing <= readMore
    <3>1. CASE persistFlag
      BY <1>4, <2>2, <2>3, <3>1
    <3>2. CASE ~persistFlag
      BY <2>2, <2>3, <3>2
    <3> QED
      BY <3>1, <3>2
  <2>5. pos # 0
    <3>1. ~(readMore <= 0)
      BY <2>1, <2>3, <2>4
    <3> QED
      BY <1>1, <3>1, Zenon DEF GInv, Reading
  <2>6. /\ line[1] \in StorageCommands
        /\ readMore + (IF persistFlag THEN pos + 2 ELSE Len(data)) <= e + n + 4
    BY <1>3, <2>5, Zenon DEF IsPending
  <2>7. n \in Nat
    BY <2>6, Widths, Zenon
  <2> HIDE DEF n
  <2>8. missing + cut <= e + n + 4
    <3>1. CASE persistFlag
      <4>1. missing = readMore - (found - pos) /\ readMore + (pos + 2) <= e + n + 4
        BY <2>2, <2>6, <3>1, Zenon
      <4> QED
        BY <1>4, <2>3, <2>7, <4>1
    <3>2. CASE ~persistFlag
      <4>1. missing = readMore /\ readMore + Len(data) <= e + n + 4
        BY <2>2, <2>6, <3>2, Zenon
      <4> QED
        BY <1>4, <2>3, <2>7, <4>1
    <3> QED
      BY <3>1, <3>2
  <2>9. cut < e + n + 4 /\ missing \in 1 .. Longest + 2
    BY <1>4, <2>1, <2>3, <2>4, <2>7, <2>8
  <2> QED
    BY <1>3, <2>1, <2>6, <2>8, <2>9, Zenon DEF n
<1> QED
  BY <1>5, <1>6

\* The request needs more bytes (lines 98-128).
LEMMA GoOnGeneral ==
  ASSUME Narrow, GInv, GoOn
  PROVE  GInv' /\ held' = held
<1>1. /\ pc = "scan" /\ found # npos /\ persistentData' = rest /\ persistFlag' = FALSE
      /\ data' = line /\ pos' = found /\ pc' = "fill"
      /\ sent' = sent /\ wire' = wire /\ gone' = gone /\ handled' = handled
  BY Zenon DEF GoOn, Cut, client
<1>2. EndlFound
  BY <1>1, ScanFacts, Zenon DEF EndlMissing
<1>3. PICK e : /\ IsHeader(e) /\ line[1] \in StorageCommands
               /\ cut < e + Bytes[line[1]] + 4 /\ readMore' + cut <= e + Bytes[line[1]] + 4
               /\ readMore' \in 1 .. Longest + 2
  BY GoOnFacts, Zenon
<1>4. /\ found \in Nat /\ cut = found + 2 /\ Len(line) = cut /\ pos + 2 <= found
      /\ Len(rest) < BufferLen /\ Len(rest) \in Nat /\ IsEndl(line, found + 1)
  BY <1>1, <1>2, CutFacts, Zenon
<1>5. /\ e \in 0 .. found /\ e <= Run + 2 /\ IsEndl(line, e + 1)
      /\ \A i \in 0 .. e - 1 : ~IsEndl(line, i + 1)
  BY <1>3, Zenon DEF IsHeader
<1>6. Bytes[line[1]] \in Nat /\ Bytes[line[1]] <= Longest
  BY <1>3, Widths, Zenon
<1>7. Run \in Nat /\ Run = Longest + 5 /\ Longest \in Nat /\ BufferLen \in Nat /\ pos \in Nat
  BY Numbers, Zenon
<1>8. Pieces' /\ held' = held /\ Len(data') = cut
  BY <1>1, <1>2, CutPieces, Zenon
<1> DEFINE n == Bytes[line[1]]
<1> HIDE DEF n
<1>9. found \in 0 .. 2 * Run + Longest
  <2>1. n \in Nat /\ n <= Longest /\ cut < e + n + 4
    BY <1>3, <1>6, Zenon DEF n
  <2> QED
    BY <1>4, <1>5, <1>7, <2>1
<1>10. readMore' \in -(Run + BufferLen + 2) .. Longest + 2
  BY <1>3, <1>7
<1>11. found # 0
  BY <1>4, <1>7
<1>12. Kept' = cut
  BY <1>1, <1>4, <1>11, Zenon DEF Kept
<1>13. HeaderAt(e)'
  BY <1>1, <1>5, Zenon DEF HeaderAt, Run, Longest, Short, StorageCommands
<1>14. InRequest'
  <2>1. pos' + 2 = cut
    BY <1>1, <1>4, Zenon
  <2> QED
    BY <1>1, <1>3, <1>4, <1>5, <1>8, <1>13, <2>1, Zenon DEF InRequest, StorageCommands
<1>15. Scanned(0)'
  <2>1. found + 2 .. cut - 0 - 2 = {}
    BY <1>4
  <2> QED
    BY <1>1, <1>8, <2>1, Zenon DEF Scanned
<1>16. Kept' <= Len(data') /\ Kept' <= readMore' + Len(data') /\ readMore' <= Longest + 2
  <2>1. readMore' \in 1 .. Longest + 2 /\ Longest \in Nat
    BY <1>3, <1>7, Zenon
  <2>2. cut \in Nat
    BY <1>4
  <2>3. \A m \in Nat : \A x \in Nat, y \in 1 .. m + 2 : x <= x /\ x <= y + x /\ y <= m + 2
    OBVIOUS
  <2> QED
    BY <1>8, <1>12, <2>1, <2>2, <2>3, Zenon
<1>17. Len(rest) <= BufferLen /\ pc' # "scan" /\ pos' # 0
  BY <1>1, <1>4, <1>7, <1>11
<1>18. Reading'
  BY <1>1, <1>8, <1>12, <1>14, <1>15, <1>16, <1>17, Zenon DEF Reading, Longest, Short, StorageCommands
<1> QED
  BY <1>1, <1>8, <1>9, <1>10, <1>18, Zenon DEF GInv, IsHandled, Run, Longest, Short, StorageCommands

\* The request is processed (lines 135-140).
LEMMA ProcessGeneral ==
  ASSUME Narrow, GInv, Process
  PROVE  GInv'
<1>1. /\ pc = "scan" /\ found # npos /\ persistentData' = rest /\ persistFlag' = FALSE
      /\ cmdProcessCommand(line) = 0 /\ handled' = Append(handled, Request(line))
      /\ data' = <<>> /\ pos' = 0 /\ readMore' = 0 /\ pc' = "fill"
      /\ sent' = sent /\ wire' = wire /\ gone' = gone
  BY Zenon DEF Process, Cut, client
<1>2. EndlFound
  BY <1>1, ScanFacts, Zenon DEF EndlMissing
<1>3. Pieces'
  BY <1>1, <1>2, CutPieces, Zenon
<1>4. IsHandled(Request(line))
  BY <1>1, <1>2, RequestHandled, Zenon
<1>5. Run \in Nat /\ Longest \in Nat /\ BufferLen \in Nat
  BY Numbers, Zenon
<1>6. Len(rest) <= BufferLen
  <2>1. Len(rest) < BufferLen /\ Len(rest) \in Nat
    BY <1>1, <1>2, CutFacts, Zenon
  <2> QED
    BY <1>5, <2>1
<1>7. handled' \in Seq(Range(handled')) /\ \A i \in DOMAIN handled' : IsHandled(handled'[i])
  <2> DEFINE S == Range(handled) \cup {Request(line)}
             r == Request(line)
             h == handled
             g == handled'
  <2>1. h \in Seq(Range(h)) /\ \A i \in DOMAIN h : IsHandled(h[i])
    BY Zenon DEF GInv
  <2>2. Range(h) \subseteq S /\ r \in S
    BY Zenon
  <2>3. g = Append(h, r) /\ IsHandled(r)
    BY <1>1, <1>4, Zenon
  <2> HIDE DEF S, r, g
  <2>4. h \in Seq(S)
    BY <2>1, <2>2, SeqMonotonic, Zenon
  <2>5. /\ g \in Seq(S) /\ DOMAIN g = 1 .. Len(h) + 1 /\ g[Len(h) + 1] = r /\ Len(h) \in Nat
        /\ DOMAIN h = 1 .. Len(h) /\ \A i \in 1 .. Len(h) : g[i] = h[i]
    BY <2>2, <2>3, <2>4
  <2>6. \A i \in 1 .. Len(h) + 1 : i \in 1 .. Len(h) \/ i = Len(h) + 1
    BY <2>5
  <2>7. \A i \in DOMAIN g : IsHandled(g[i])
    BY <2>1, <2>3, <2>5, <2>6, Zenon
  <2>8. g \in Seq(Range(g))
    BY <2>5, OwnElements, Zenon
  <2> QED
    BY <2>7, <2>8, Zenon DEF g
<1>8. Len(data') = 0 /\ Kept' = 0
  <2>1. Len(<<>>) = 0
    OBVIOUS
  <2> QED
    BY <1>1, <2>1, Zenon DEF Kept
<1>9. Scanned(0)'
  <2>1. 0 + 2 .. 0 - 0 - 2 = {}
    OBVIOUS
  <2> QED
    BY <1>1, <1>8, <2>1, Zenon DEF Scanned
<1>10. Reading'
  <2>1. 0 <= 0 /\ 0 <= Longest + 2 /\ 0 <= 0 + 0
    BY <1>5
  <2>2. pc' # "scan"
    BY <1>1, Zenon
  <2> QED
    BY <1>1, <1>6, <1>8, <1>9, <2>1, <2>2, Zenon DEF Reading, Longest, Short, StorageCommands
<1>11. 0 \in 0 .. 2 * Run + Longest /\ 0 \in -(Run + BufferLen + 2) .. Longest + 2
  BY <1>5
<1> QED
  BY <1>1, <1>3, <1>7, <1>10, <1>11, Zenon DEF GInv, IsHandled, Run, Longest, Short, StorageCommands

\* quit closes the connection (lines 129-134).
LEMMA QuitGeneral ==
  ASSUME Narrow, GInv, Quit
  PROVE  GInv' /\ held' = held
<1>1. /\ pc = "scan" /\ found # npos /\ persistentData' = rest /\ persistFlag' = FALSE
      /\ cmdProcessCommand(line) < 0 /\ readMore' = -1 /\ data' = line /\ pos' = found /\ pc' = "closed"
      /\ sent' = sent /\ wire' = wire /\ gone' = gone /\ handled' = handled
  BY Zenon DEF Quit, Cut, client
<1>2. EndlFound
  BY <1>1, ScanFacts, Zenon DEF EndlMissing
<1>3. Pieces' /\ held' = held
  BY <1>1, <1>2, CutPieces, Zenon
<1>4. PICK e : IsHeader(e) /\ (pos # 0 => IsPending(e))
  BY <1>1, <1>2, HeaderFacts, Zenon
<1>5. line[1] \notin StorageCommands
  <2> DEFINE n == Bytes[line[1]]
             b == cut - e - 2
  <2>1. \/ cmdProcessCommand(line) = 0
        \/ n \in Nat /\ b < n /\ cmdProcessCommand(line) = n + 2 - b
        \/ line[1] \notin StorageCommands
    BY <1>1, <1>2, <1>4, CommandFacts, Zenon
  <2>2. ~(0 < 0)
    OBVIOUS
  <2>3. b \in Int
    <3>1. found \in Nat /\ cut = found + 2 /\ e \in 0 .. found
      BY <1>1, <1>2, <1>4, CutFacts, Zenon DEF IsHeader
    <3> QED
      BY <3>1
  <2> HIDE DEF n, b
  <2>4. n \in Nat /\ b < n => ~(n + 2 - b < 0)
    BY <2>3
  <2> QED
    BY <1>1, <2>1, <2>2, <2>4, Zenon
<1>6. pos = 0
  BY <1>4, <1>5, Zenon DEF IsPending
<1>7. Run \in Nat /\ Longest \in Nat /\ BufferLen \in Nat
  BY Numbers, Zenon
<1>8. found \in 0 .. 2 * Run + Longest
  <2>1. found \in Nat /\ found <= pos + Run
    BY <1>1, <1>2, CutFacts, Zenon
  <2> QED
    BY <1>6, <1>7, <2>1
<1>9. -1 \in -(Run + BufferLen + 2) .. Longest + 2
  BY <1>7
<1>10. pc' \in {"fill", "scan", "closed"} /\ persistFlag' \in BOOLEAN
  BY <1>1, Zenon
<1> QED
  BY <1>1, <1>3, <1>8, <1>9, <1>10, Zenon DEF GInv, IsHandled, Run, Longest, Short, StorageCommands

\* At first nothing is held.
LEMMA InitGeneral ==
  ASSUME Narrow, Init
  PROVE  GInv
<1>1. /\ sent \in Streams /\ wire = EncodeAll(sent) /\ gone = FALSE /\ data = <<>> /\ persistentData = <<>>
      /\ pos = 0 /\ readMore = 0 /\ persistFlag = FALSE /\ pc = "fill" /\ handled = <<>>
  BY Zenon DEF Init
<1>2. Longest \in Nat /\ BufferLen \in Nat
  BY Widths, Zenon
<1>3. Run \in Nat
  BY <1>2 DEF Run
<1>4. whole \in Seq(Alphabet) /\ whole = wire
  BY <1>1, StreamFacts, Zenon DEF whole
<1>5. Len(whole) \in Nat /\ Len(data) = 0 /\ Len(persistentData) = 0
  BY <1>1, <1>4
<1>6. held = Len(whole)
  <2>1. 0 + 0 + Len(whole) = Len(whole)
    BY <1>5
  <2> QED
    BY <1>4, <1>5, <2>1, Zenon DEF held
<1>7. Pieces
  <2>1. Len(whole) - held = 0 /\ (Len(whole) - held) + Len(data) = 0 /\ Len(whole) - Len(wire) = 0
    BY <1>4, <1>5, <1>6
  <2>2. IsPart(<<>>, whole, 0)
    <3>1. 0 \in Nat /\ 0 <= Len(whole)
      BY <1>5
    <3> QED
      BY <1>5, <3>1, PartEmpty, Zenon
  <2>3. IsPart(wire, whole, 0)
    <3>1. \A s \in Seq(Alphabet) : IsPart(s, s, 0)
      BY DEF IsPart
    <3> QED
      BY <1>4, <3>1, Zenon
  <2> QED
    BY <1>1, <2>1, <2>2, <2>3, Zenon DEF Pieces
<1>8. Reading
  <2>1. Kept = 0
    BY <1>1, Zenon DEF Kept
  <2>2. 0 + 2 .. 0 - 0 - 2 = {}
    OBVIOUS
  <2>3. Scanned(0)
    BY <1>1, <1>5, <2>2, Zenon DEF Scanned
  <2>4. 0 <= 0 /\ 0 <= Longest + 2 /\ 0 <= 0 + 0 /\ 0 <= BufferLen
    BY <1>2
  <2> QED
    BY <1>1, <1>5, <2>1, <2>3, <2>4, Zenon DEF Reading
<1>9. 0 \in 0 .. 2 * Run + Longest /\ 0 \in -(Run + BufferLen + 2) .. Longest + 2
  BY <1>2, <1>3
<1>10. handled \in Seq(Range(handled)) /\ \A i \in DOMAIN handled : IsHandled(handled[i])
  <2>1. <<>> \in Seq(Range(<<>>)) /\ DOMAIN <<>> = {}
    OBVIOUS
  <2> QED
    BY <1>1, <2>1, Zenon
<1>11. pc \in {"fill", "scan", "closed"} /\ persistFlag \in BOOLEAN /\ gone \in BOOLEAN
  BY <1>1, Zenon
<1> QED
  BY <1>1, <1>7, <1>8, <1>9, <1>10, <1>11, Zenon DEF GInv

\* Every step keeps the general invariant.
LEMMA GeneralStep ==
  ASSUME Narrow, GInv, [Next]_vars
  PROVE  GInv'
<1>1. CASE Reuse
  BY <1>1, ReuseGeneral
<1>2. CASE \E rc \in 1 .. BufferLen : Receive(rc)
  BY <1>2, ReceiveGeneral
<1>3. CASE Lost
  BY <1>3, IdleGeneral, Zenon DEF Lost, client, GInv
<1>4. CASE NoEndl
  BY <1>4, NoEndlGeneral
<1>5. CASE GoOn
  BY <1>5, GoOnGeneral
<1>6. CASE Process
  BY <1>6, ProcessGeneral
<1>7. CASE Quit
  BY <1>7, QuitGeneral
<1>8. CASE Hangup
  <2>1. gone' \in BOOLEAN
    BY <1>8, Zenon DEF Hangup
  <2> QED
    BY <1>8, <2>1, IdleGeneral, Zenon DEF Hangup
<1>9. CASE vars' = vars
  BY <1>9, IdleGeneral, Zenon DEF vars, client, GInv
<1> QED
  BY <1>1, <1>2, <1>3, <1>4, <1>5, <1>6, <1>7, <1>8, <1>9, Zenon DEF Next, sockHandleIncomingConn

\* The general invariant holds throughout.
LEMMA GeneralInvariance == Narrow => (Spec => []GInv)
<1> SUFFICES ASSUME Narrow PROVE Spec => []GInv
  OBVIOUS
<1>1. Init => GInv
  BY InitGeneral
<1>2. GInv /\ [Next]_vars => GInv'
  BY GeneralStep
<1> QED
  BY <1>1, <1>2, PTL DEF Spec

\* The variables keep their types, and no int comes near its limits (lines 54-142).
THEOREM TypeCorrect == Narrow => (Spec => []TypeOK)
<1> SUFFICES ASSUME Narrow PROVE Spec => []TypeOK
  OBVIOUS
<1>1. ASSUME GInv
      PROVE  TypeOK
  <2>1. pos \in 0 .. UIntMod - 1 /\ readMore \in -(UIntMod \div 4) .. UIntMod \div 4
    <3>1. /\ Longest \in Nat /\ Run \in Nat /\ Run = Longest + 5
          /\ BufferLen \in Nat /\ 0 < BufferLen /\ UIntMod \in Nat
          /\ 4 * Longest + 4 * BufferLen + 32 <= UIntMod
          /\ pos \in Nat /\ pos <= 2 * Run + Longest
          /\ readMore \in Int /\ -(Run + BufferLen + 2) <= readMore /\ readMore <= Longest + 2
      BY <1>1, Numbers, Zenon
    <3>2. PICK q : q = UIntMod \div 4
      OBVIOUS
    <3>3. q \in Nat /\ Longest + BufferLen + 8 <= q
      BY <3>1, <3>2
    <3> QED
      BY <3>1, <3>2, <3>3
  <2>2. {wire, data, persistentData} \subseteq Seq(Alphabet)
    BY <1>1, Zenon DEF GInv, Pieces, IsPart
  <2> QED
    BY <1>1, <2>1, <2>2, Zenon DEF TypeOK, GInv, IsHandled
<1>2. Spec => []GInv
  BY GeneralInvariance
<1> QED
  BY <1>1, <1>2, PTL

-----------------------------------------------------------------------------
(* Requests as they were sent *)

\* Clear is the first detached request, or the last.
LEMMA ClearFacts ==
  ASSUME sent \in Streams
  PROVE  /\ Clear \in 0 .. Len(sent) /\ Len(sent) \in Nat
         /\ \A k \in 1 .. Len(sent) : Detached(sent[k]) => Clear <= k
<1>1. Len(sent) \in Nat /\ DOMAIN sent = 1 .. Len(sent)
  <2>1. sent \in Seq(Range(sent))
    BY StreamFacts, Zenon
  <2> QED
    BY <2>1, LenProperties, Zenon
<1> DEFINE I == {i \in 1 .. Len(sent) : Detached(sent[i])}
<1>2. CASE I = {}
  <2>1. ~ \E i \in DOMAIN sent : Detached(sent[i])
    BY <1>1, <1>2, Zenon
  <2>2. Clear = Len(sent)
    BY <2>1, Zenon DEF Clear
  <2>3. Len(sent) \in 0 .. Len(sent)
    BY <1>1
  <2> QED
    BY <1>1, <1>2, <2>2, <2>3, Zenon
<1>3. CASE I # {}
  <2>1. \E i \in DOMAIN sent : Detached(sent[i])
    BY <1>1, <1>3, Zenon
  <2>4. I \subseteq 1 .. Len(sent)
    BY Zenon
  <2>5. \A k \in 1 .. Len(sent) : Detached(sent[k]) => k \in I
    BY Zenon
  <2> HIDE DEF I
  <2>6. I \subseteq Nat
    BY <2>4
  <2>7. \E i \in I : \A j \in I : i <= j
    BY <1>3, <2>6, Least, Zenon
  <2>8. \E i \in DOMAIN sent : Detached(sent[i]) /\ \A j \in 1 .. i - 1 : ~Detached(sent[j])
    <3>1. PICK i \in I : \A j \in I : i <= j
      BY <2>7, Zenon
    <3>2. ASSUME NEW j \in 1 .. i - 1
          PROVE  j \in 1 .. Len(sent) /\ ~(i <= j)
      BY <1>1, <2>4, <3>2
    <3>3. i \in DOMAIN sent /\ Detached(sent[i])
      BY <1>1, <2>4, Zenon DEF I
    <3> QED
      BY <2>5, <3>1, <3>2, <3>3, Zenon
  <2>2. /\ Clear \in DOMAIN sent /\ Detached(sent[Clear])
        /\ \A j \in 1 .. Clear - 1 : ~Detached(sent[j])
    BY <2>1, <2>8, Zenon DEF Clear
  <2>9. Clear \in I /\ \A j \in I : Clear <= j
    <3>1. Clear \in I /\ Clear \in 1 .. Len(sent)
      BY <1>1, <2>2, <2>5, Zenon
    <3>2. ASSUME NEW j \in I, ~(Clear <= j)
          PROVE  j \in 1 .. Clear - 1
      BY <1>1, <2>4, <3>1, <3>2
    <3>3. \A j \in I : Detached(sent[j])
      BY Zenon DEF I
    <3> QED
      BY <2>2, <3>1, <3>2, <3>3, Zenon
  <2>10. Clear \in 0 .. Len(sent)
    <3>1. \A i \in 1 .. Len(sent) : i \in 0 .. Len(sent)
      BY <1>1
    <3> QED
      BY <2>4, <2>9, <3>1, Zenon
  <2> QED
    BY <1>1, <2>5, <2>9, <2>10, Zenon
<1> QED
  BY <1>2, <1>3

\* Requests that equal those sent encode as the start of the stream.
LEMMA StartBytes ==
  ASSUME NEW s \in Streams, NEW h, h \in Seq(Range(h)), Len(h) <= Len(s),
         \A i \in 1 .. Len(h) : h[i] = s[i]
  PROVE  Len(h) \in Nat /\ Len(h) \in 0 .. Len(s) /\ EncodeAll(h) = FirstBytes(s, Len(h))
<1>1. s \in Seq(Range(s)) /\ Len(s) \in Nat
  BY StreamFacts, Zenon
<1> DEFINE k == Len(h)
           S == Range(s)
           H == Range(h)
           p == SubSeq(s, 1, k)
<1>2. k \in Nat /\ k \in 0 .. Len(s) /\ h \in Seq(H)
  <2>1. k \in Nat
    BY LenProperties, Zenon
  <2> HIDE DEF k
  <2>2. k <= Len(s)
    BY Zenon DEF k
  <2>3. k \in 0 .. Len(s)
    BY <1>1, <2>1, <2>2
  <2> QED
    BY <1>1, <2>1, <2>3, Zenon
<1>3. p \in Seq(S) /\ Len(p) = k /\ \A i \in 1 .. k : p[i] = s[i]
  <2> HIDE DEF S, k
  <2> QED
    BY <1>1, <1>2 DEF S
<1> HIDE DEF p, S, H
<1>4. h = p
  <2> DEFINE U == S \cup H
  <2>1. p \in Seq(U) /\ h \in Seq(U)
    <3>1. S \subseteq U /\ H \subseteq U
      BY Zenon
    <3> HIDE DEF U
    <3> QED
      BY <1>2, <1>3, <3>1, SeqMonotonic, Zenon
  <2> HIDE DEF U
  <2>2. Len(h) = Len(p) /\ \A i \in 1 .. Len(h) : h[i] = p[i]
    BY <1>3, Zenon
  <2> QED
    BY <2>1, <2>2, SeqEqual, Zenon
<1> QED
  BY <1>2, <1>4, Zenon DEF FirstBytes, p

\* What was handled in step is the start of the stream.
LEMMA HandledBytes ==
  ASSUME GInv, Len(handled) <= Len(sent), \A i \in 1 .. Len(handled) : handled[i] = sent[i]
  PROVE  /\ Len(handled) \in Nat /\ EncodeAll(handled) = FirstBytes(sent, Len(handled))
         /\ IsPart(EncodeAll(handled), whole, 0) /\ Len(EncodeAll(handled)) \in Nat
<1>1. sent \in Streams /\ handled \in Seq(Range(handled))
  BY Zenon DEF GInv
<1>2. /\ Len(handled) \in Nat /\ Len(handled) \in 0 .. Len(sent)
      /\ EncodeAll(handled) = FirstBytes(sent, Len(handled))
  BY <1>1, StartBytes, Zenon
<1>3. IsPart(FirstBytes(sent, Len(handled)), EncodeAll(sent), 0)
  BY <1>1, <1>2, FirstBytesPart, Zenon
<1>4. Len(FirstBytes(sent, Len(handled))) \in Nat
  BY <1>3, LenProperties, Zenon DEF IsPart
<1> QED
  BY <1>2, <1>3, <1>4, Zenon DEF whole

\* What data begins with: a request that has not been handled.
LEMMA AtRequest ==
  ASSUME Narrow, GInv, InStep, Len(handled) < Len(sent)
  PROVE  LET r == sent[Len(handled) + 1]
             n == Bytes[r.command]
         IN /\ IsRequest(r) /\ r.command \notin {CR, LF}
            /\ r.command \notin StorageCommands =>
                 /\ held = Len(whole) - Len(FirstBytes(sent, Len(handled) + 1)) + 4 /\ 4 <= held
            /\ r.command \in StorageCommands =>
                 /\ n \in Nat /\ n <= Longest /\ n + 6 <= held
                 /\ held = Len(whole) - Len(FirstBytes(sent, Len(handled) + 1)) + n + 6
            /\ \A d : IsPart(d, whole, Len(whole) - held) =>
                 /\ 1 <= Len(d) => d[1] = r.command
                 /\ 2 <= Len(d) => d[2] = "."
                 /\ 4 <= Len(d) => IsEndl(d, 3)
                 /\ r.command \in StorageCommands =>
                      /\ \A i \in 1 .. n : 4 + i <= Len(d) => d[4 + i] = r.data[i]
                      /\ n + 5 <= Len(d) => d[n + 5] = CR
                      /\ n + 6 <= Len(d) => IsEndl(d, n + 5)
<1> DEFINE k == Len(handled) + 1
           r == sent[k]
           n == Bytes[r.command]
           b == Len(FirstBytes(sent, k - 1))
           z == Len(FirstBytes(sent, k))
<1>0. /\ Len(whole) \in Nat /\ held \in Nat /\ sent \in Streams
  BY Lengths, Zenon
<1>1. /\ Len(handled) \in Nat /\ EncodeAll(handled) = FirstBytes(sent, Len(handled))
      /\ held = Len(whole) - Len(EncodeAll(handled))
  BY HandledBytes, Zenon DEF InStep
<1>2. k \in 1 .. Len(sent) /\ k - 1 = Len(handled)
  <2>1. Len(sent) \in Nat
    BY <1>0, StreamFacts, Zenon
  <2> QED
    BY <1>1, <2>1
<1> HIDE DEF k
<1>3. b \in Nat /\ z \in Nat /\ z <= Len(whole) /\ held = Len(whole) - b
  <2>1. b \in Nat /\ Len(Encode(sent[k])) \in Nat /\ z = b + Len(Encode(sent[k])) /\ z <= Len(whole)
    BY <1>0, <1>2, RequestPart, Zenon DEF whole
  <2>2. z \in Nat
    BY <2>1
  <2> QED
    BY <1>1, <1>2, <2>1, <2>2, Zenon
<1>4. /\ IsRequest(r) /\ whole[b + 1] = r.command /\ whole[b + 2] = "." /\ IsEndl(whole, b + 3)
      /\ r.command \notin StorageCommands => z = b + 4
      /\ r.command \in StorageCommands =>
           /\ z = b + n + 6 /\ \A i \in 1 .. n : r.data[i] = whole[b + 4 + i]
           /\ IsEndl(whole, b + n + 5)
  BY <1>0, <1>2, RequestLayout, Zenon DEF whole
<1>5. r.command \notin {CR, LF}
  BY <1>4, EncodeFacts, Zenon
<1> HIDE DEF b, z, r, n
<1>6. r.command \notin StorageCommands => held = Len(whole) - z + 4 /\ 4 <= held
  BY <1>0, <1>3, <1>4
<1>7. r.command \in StorageCommands =>
        n \in Nat /\ n <= Longest /\ n + 6 <= held /\ held = Len(whole) - z + n + 6
  <2> SUFFICES ASSUME r.command \in StorageCommands
               PROVE  n \in Nat /\ n <= Longest /\ n + 6 <= held /\ held = Len(whole) - z + n + 6
    BY Zenon
  <2>1. n \in Nat /\ n <= Longest /\ z = b + n + 6
    BY <1>4, Widths, Zenon DEF n
  <2> QED
    BY <1>0, <1>3, <2>1
<1>8. Len(whole) - held = b
  BY <1>0, <1>3
<1>9. ASSUME NEW d, IsPart(d, whole, b)
      PROVE  /\ 1 <= Len(d) => d[1] = r.command
             /\ 2 <= Len(d) => d[2] = "."
             /\ 4 <= Len(d) => IsEndl(d, 3)
             /\ r.command \in StorageCommands =>
                  /\ \A i \in 1 .. n : 4 + i <= Len(d) => d[4 + i] = r.data[i]
                  /\ n + 5 <= Len(d) => d[n + 5] = CR
                  /\ n + 6 <= Len(d) => IsEndl(d, n + 5)
  <2>1. IsPart(d, EncodeAll(sent), Len(FirstBytes(sent, k - 1)))
    BY <1>9, Zenon DEF whole, b
  <2> QED
    BY <1>0, <1>2, <2>1, RequestReads, Zenon DEF r, n
<1> QED
  BY <1>4, <1>5, <1>6, <1>7, <1>8, <1>9, Zenon DEF k, r, n, z

\* In step, bytes that are held belong to requests that have not been handled.
LEMMA MoreToCome ==
  ASSUME GInv, InStep, held # 0
  PROVE  Len(handled) < Len(sent)
<1>1. sent \in Streams /\ Len(whole) \in Nat
  BY Lengths, Zenon
<1>2. /\ Len(handled) \in Nat /\ EncodeAll(handled) = FirstBytes(sent, Len(handled))
      /\ held = Len(whole) - Len(EncodeAll(handled)) /\ Len(handled) <= Len(sent)
  BY HandledBytes, Zenon DEF InStep
<1>3. Len(sent) \in Nat /\ FirstBytes(sent, Len(sent)) = whole
  BY <1>1, StreamFacts, Zenon DEF whole
<1>4. Len(handled) # Len(sent)
  <2>1. Len(whole) - Len(whole) = 0
    BY <1>1
  <2> QED
    BY <1>2, <1>3, <2>1, Zenon
<1> QED
  BY <1>2, <1>3, <1>4

\* In step, a line begins with the command line of the next request.
LEMMA NextRequest ==
  ASSUME Narrow, GInv, InStep, pc = "scan", EndlFound, NEW e, IsHeader(e)
  PROVE  Len(handled) < Len(sent) /\ e = 2 /\ line[1] = sent[Len(handled) + 1].command /\ 4 <= cut
<1>1. /\ found \in Nat /\ cut = found + 2 /\ pos + 2 <= found /\ cut <= Len(data)
      /\ Len(line) = cut /\ IsPart(line, whole, Len(whole) - held)
  BY CutFacts, Zenon
<1>2. pos \in Nat
  BY Numbers, Zenon
<1>3. 4 <= cut /\ cut \in Nat
  BY <1>1, <1>2
<1>4. Len(handled) < Len(sent)
  <2>1. Len(data) \in Nat /\ Len(persistentData) \in Nat /\ Len(wire) \in Nat
        /\ held = Len(data) + Len(persistentData) + Len(wire)
    BY Lengths, Zenon
  <2>2. held # 0
    BY <1>1, <1>3, <2>1
  <2> QED
    BY <2>2, MoreToCome, Zenon
<1> DEFINE c == sent[Len(handled) + 1].command
<1>5. /\ c \notin {CR, LF} /\ line[1] = c /\ line[2] = "." /\ IsEndl(line, 3)
  <2>1. 1 <= Len(line) /\ 2 <= Len(line) /\ 4 <= Len(line)
    BY <1>1, <1>3
  <2> QED
    BY <1>1, <1>4, <2>1, AtRequest, Zenon
<1> HIDE DEF c
<1>6. /\ e \in 0 .. found /\ IsEndl(line, e + 1) /\ \A i \in 0 .. e - 1 : ~IsEndl(line, i + 1)
  BY Zenon DEF IsHeader
<1>7. e # 0
  <2>0. 0 + 1 = 1
    OBVIOUS
  <2>1. line[1] # CR /\ 0 + 1 = 1
    BY <1>5, <2>0, Zenon
  <2> QED
    BY <1>6, <2>1, Zenon DEF IsEndl
<1>8. e # 1
  <2>1. 1 + 1 = 2
    OBVIOUS
  <2>2. "." # CR
    BY DEF CR
  <2> QED
    BY <1>5, <1>6, <2>1, <2>2, Zenon DEF IsEndl
<1>9. 2 \notin 0 .. e - 1
  <2>1. 2 + 1 = 3
    OBVIOUS
  <2> QED
    BY <1>5, <1>6, <2>1, Zenon
<1>10. e = 2
  BY <1>1, <1>6, <1>7, <1>8, <1>9
<1> QED
  BY <1>3, <1>4, <1>5, <1>10, Zenon DEF c

\* The end of a storage request is found where it ends, or, when its data ends with
\* an end of line, two bytes before.
LEMMA StorageEnd ==
  ASSUME Narrow, GInv, InStep, pc = "scan", EndlFound, IsHeader(2), pos # 0 => IsPending(2),
         sent[Len(handled) + 1].command \in StorageCommands,
         Bytes[sent[Len(handled) + 1].command] <= cut - 4
  PROVE  LET n == Bytes[sent[Len(handled) + 1].command]
         IN cut = n + 6 \/ (cut = n + 4 /\ Detached(sent[Len(handled) + 1]))
<1> DEFINE r == sent[Len(handled) + 1]
           n == Bytes[r.command]
<1>1. /\ found \in Nat /\ cut = found + 2 /\ pos + 2 <= found /\ cut <= Len(data)
      /\ Len(line) = cut /\ \A i \in 1 .. cut : line[i] = data[i]
      /\ IsEndl(line, found + 1)
  BY CutFacts, Zenon
<1>2. pos \in Nat /\ Len(data) \in Nat
  BY Numbers, Lengths, Zenon
<1>3. Len(handled) < Len(sent) /\ line[1] = r.command /\ 4 <= cut
  BY NextRequest, Zenon
<1>4. IsPart(data, whole, Len(whole) - held)
  BY Zenon DEF GInv, Pieces
<1>5. /\ n \in Nat /\ IsRequest(r)
      /\ 4 <= Len(data) => IsEndl(data, 3)
      /\ \A i \in 1 .. n : 4 + i <= Len(data) => data[4 + i] = r.data[i]
      /\ n + 5 <= Len(data) => data[n + 5] = CR
      /\ n + 6 <= Len(data) => IsEndl(data, n + 5)
  BY <1>3, <1>4, AtRequest, Zenon
<1>6. n <= cut - 4 /\ r.command \in StorageCommands
  BY Zenon
<1>7. pos # 0 => pos + 2 < 2 + n + 4 /\ IsEndl(data, pos + 1)
  <2>1. pos # 0 => IsEndl(data, pos + 1)
    BY Zenon DEF GInv, Reading, InRequest
  <2>2. pos # 0 => data[1] = line[1] /\ pos + 2 < 2 + Bytes[data[1]] + 4
    BY Zenon DEF IsPending
  <2> QED
    BY <1>3, <2>1, <2>2, Zenon
<1>8. r.data = <<>> <=> n = 0
  <2>1. Len(r.data) = n /\ r.data \in Seq(Range(r.data))
    BY <1>5, <1>6, Zenon DEF IsRequest
  <2> QED
    BY <2>1
<1> HIDE DEF r, n
<1>9. CR # LF
  BY DEF CR, LF
<1>10. pos + 2 <= n + 4
  <2>1. CASE pos = 0
    BY <1>5, <2>1
  <2>2. CASE pos # 0
    <3>1. pos + 2 < 2 + n + 4 /\ IsEndl(data, pos + 1)
      BY <1>7, <2>2, Zenon
    <3>2. pos # n + 3
      <4>1. n + 3 = pos => n + 5 <= Len(data) /\ (pos + 1) + 1 = n + 5
        BY <1>1, <1>2, <1>5
      <4> QED
        BY <1>5, <1>9, <3>1, <4>1, Zenon DEF IsEndl
    <3> QED
      BY <1>2, <1>5, <3>1, <3>2
  <2> QED
    BY <2>1, <2>2
<1>11. found <= n + 4
  <2>1. CASE n + 6 <= Len(data)
    <3>1. IsEndl(data, (n + 4) + 1)
      <4>1. (n + 4) + 1 = n + 5
        BY <1>5
      <4> QED
        BY <1>5, <2>1, <4>1, Zenon
    <3>2. n + 4 \notin pos + 2 .. found - 1
      BY <3>1, Zenon DEF EndlFound
    <3> QED
      BY <1>1, <1>2, <1>5, <1>10, <3>2
  <2>2. CASE ~(n + 6 <= Len(data))
    BY <1>1, <1>2, <1>5, <2>2
  <2> QED
    BY <2>1, <2>2
<1>12. line[found + 1] = CR /\ line[(found + 1) + 1] = LF
  BY <1>1, Zenon DEF IsEndl
<1>13. data[found + 1] = CR /\ data[found + 2] = LF
  <2>1. found + 1 \in 1 .. cut /\ (found + 1) + 1 \in 1 .. cut /\ (found + 1) + 1 = found + 2
    BY <1>1
  <2> QED
    BY <1>1, <1>12, <2>1, Zenon
<1>14. found # n + 3
  <2>1. found = n + 3 => found + 2 = n + 5 /\ n + 5 <= Len(data)
    BY <1>1, <1>2, <1>5
  <2> QED
    BY <1>5, <1>9, <1>13, <2>1, Zenon
<1>15. found = n + 4 \/ found = n + 2
  BY <1>1, <1>5, <1>6, <1>11, <1>14
<1>16. ASSUME found = n + 2
       PROVE  Detached(r)
  <2>1. CASE n = 0
    BY <1>6, <1>8, <2>1, Zenon DEF Detached
  <2>2. n # 1
    <3>1. n = 1 => found + 1 = 4
      BY <1>16
    <3>2. data[4] = LF
      <4>1. 4 <= Len(data)
        BY <1>1, <1>2, <1>3
      <4>2. 3 + 1 = 4
        OBVIOUS
      <4> QED
        BY <1>5, <4>1, <4>2, Zenon DEF IsEndl
    <3> QED
      BY <1>9, <1>13, <3>1, <3>2, Zenon
  <2>3. CASE n # 0 /\ n # 1
    <3>1. /\ n - 1 \in 1 .. n /\ n \in 1 .. n /\ 4 + (n - 1) = found + 1 /\ 4 + n = found + 2
          /\ 4 + (n - 1) <= Len(data) /\ 4 + n <= Len(data)
      <4>1. cut = found + 2 /\ cut <= Len(data) /\ Len(data) \in Nat /\ n \in Nat /\ found = n + 2 /\ n # 0 /\ n # 1
        BY <1>1, <1>2, <1>5, <1>16, <2>3, Zenon
      <4> QED
        BY <4>1
    <3>2. r.data[n - 1] = CR /\ r.data[n] = LF
      BY <1>5, <1>13, <3>1, Zenon
    <3>3. Len(r.data) = n
      BY <1>5, <1>6, Zenon DEF IsRequest, n
    <3>4. n >= 2 /\ (n - 1) + 1 = n
      BY <1>5, <2>3
    <3>5. EndsWithEndl(r.data)
      BY <3>2, <3>3, <3>4, Zenon DEF EndsWithEndl, IsEndl
    <3> QED
      BY <1>6, <3>5, Zenon DEF Detached
  <2> QED
    BY <2>1, <2>2, <2>3
<1>17. (found = n + 4 => cut = n + 6) /\ (found = n + 2 => cut = n + 4)
  <2>1. cut = found + 2 /\ n \in Nat
    BY <1>1, <1>5, Zenon
  <2>2. \A x \in Nat : (x + 4) + 2 = x + 6 /\ (x + 2) + 2 = x + 4
    OBVIOUS
  <2> QED
    BY <2>1, <2>2, Zenon
<1> QED
  BY <1>15, <1>16, <1>17, Zenon DEF r, n

\* In step, what is processed is the next request; its last end of line may be left
\* behind.
LEMMA ProcessInStep ==
  ASSUME Narrow, GInv, InStep, pc = "scan", EndlFound, cmdProcessCommand(line) = 0
  PROVE  LET k == Len(handled) + 1
             left == Len(whole) - Len(FirstBytes(sent, k))
         IN /\ Len(handled) < Len(sent) /\ Request(line) = sent[k]
            /\ held - cut = left \/ (held - cut = left + 2 /\ Detached(sent[k]))
<1> DEFINE k == Len(handled) + 1
           r == sent[k]
           n == Bytes[r.command]
           z == Len(FirstBytes(sent, k))
<1>1. PICK e : IsHeader(e) /\ (pos # 0 => IsPending(e))
  BY HeaderFacts, Zenon
<1>2. Len(handled) < Len(sent) /\ e = 2 /\ line[1] = r.command /\ 4 <= cut
  BY <1>1, NextRequest, Zenon
<1>3. /\ IsRequest(r)
      /\ r.command \notin StorageCommands => held = Len(whole) - z + 4
      /\ r.command \in StorageCommands => n \in Nat /\ held = Len(whole) - z + n + 6
      /\ \A d : IsPart(d, whole, Len(whole) - held) =>
           /\ 4 <= Len(d) => IsEndl(d, 3)
           /\ r.command \in StorageCommands =>
                \A i \in 1 .. n : 4 + i <= Len(d) => d[4 + i] = r.data[i]
  BY <1>2, AtRequest, Zenon
<1>4. /\ found \in Nat /\ cut = found + 2 /\ pos + 2 <= found /\ cut <= Len(data)
      /\ Len(line) = cut /\ IsPart(line, whole, Len(whole) - held)
  BY CutFacts, Zenon
<1>5. /\ IsPart(data, whole, Len(whole) - held)
  BY Zenon DEF GInv, Pieces
<1>6. /\ r.command \in Commands /\ r = [command |-> r.command, data |-> r.data]
      /\ r.command \notin StorageCommands => r.data = <<>>
      /\ r.command \in StorageCommands => Len(r.data) = n
  BY <1>3, EncodeFacts, Zenon
<1>7. \/ line[1] \notin Commands
      \/ /\ line[1] \in StorageCommands /\ Bytes[line[1]] \in Nat /\ cut - 2 - 2 < Bytes[line[1]]
         /\ cmdProcessCommand(line) = Bytes[line[1]] + 2 - (cut - 2 - 2)
      \/ /\ line[1] \in StorageCommands /\ Bytes[line[1]] <= cut - 2 - 2
         /\ Request(line) = [command |-> line[1], data |-> SubSeq(SubSeq(line, 2 + 3, cut), 1, Bytes[line[1]])]
      \/ /\ line[1] \notin StorageCommands
         /\ Request(line) = [command |-> line[1], data |-> <<>>]
      \/ cmdProcessCommand(line) = -1
  BY <1>1, <1>2, CommandFacts, Zenon
<1>8. /\ Len(whole) \in Nat /\ held \in Nat /\ z \in Nat /\ Len(data) \in Nat /\ pos \in Nat /\ cut \in Nat
  <2>1. Len(handled) \in Nat /\ sent \in Streams
    BY HandledBytes, Zenon DEF InStep, GInv
  <2>2. Len(sent) \in Nat
    BY <2>1, StreamFacts, Zenon
  <2>3. k \in 1 .. Len(sent)
    BY <1>2, <2>1, <2>2
  <2>4. Len(FirstBytes(sent, k - 1)) \in Nat /\ Len(Encode(sent[k])) \in Nat
        /\ z = Len(FirstBytes(sent, k - 1)) + Len(Encode(sent[k]))
    BY <2>1, <2>3, RequestPart, Zenon
  <2>5. z \in Nat
    BY <2>4
  <2>6. cut \in Nat
    BY <1>4
  <2> QED
    BY <2>5, <2>6, Lengths, Numbers, Zenon
<1> HIDE DEF k, r, n, z
<1>9. CASE r.command \notin StorageCommands
  <2>1. Request(line) = [command |-> r.command, data |-> <<>>]
    <3>1. cmdProcessCommand(line) # -1
      BY SMT
    <3> QED
      BY <1>2, <1>6, <1>7, <1>9, <3>1, Zenon
  <2>2. Request(line) = r
    BY <1>6, <1>9, <2>1, Zenon
  <2>3. pos = 0
    <3>1. pos # 0 => line[1] \in StorageCommands
      BY <1>1, Zenon DEF IsPending
    <3> QED
      BY <1>2, <1>9, <3>1, Zenon
  <2>4. IsEndl(data, 2 + 1)
    <3>1. 4 <= Len(data)
      <4>1. 4 <= cut /\ cut <= Len(data) /\ cut \in Nat /\ Len(data) \in Nat
        BY <1>2, <1>4, <1>8, Zenon
      <4> QED
        BY <4>1
    <3>2. 2 + 1 = 3
      OBVIOUS
    <3> QED
      BY <1>3, <1>5, <3>1, <3>2, Zenon
  <2>5. 2 \notin pos + 2 .. found - 1
    BY <2>4, Zenon DEF EndlFound
  <2>6. cut = 4
    <3>1. found \in Nat /\ cut = found + 2 /\ pos + 2 <= found /\ pos = 0
      BY <1>4, <2>3, Zenon
    <3> QED
      BY <2>5, <3>1
  <2>7. held - cut = Len(whole) - z
    <3>1. held = Len(whole) - z + 4 /\ cut = 4 /\ Len(whole) \in Nat /\ z \in Nat
      BY <1>3, <1>8, <1>9, <2>6, Zenon
    <3> QED
      BY <3>1
  <2> QED
    BY <1>2, <2>2, <2>7, Zenon DEF k, r, z
<1>10. CASE r.command \in StorageCommands
  <2>1. n \in Nat /\ held = Len(whole) - z + n + 6 /\ Bytes[line[1]] = n /\ Len(r.data) = n
    BY <1>2, <1>3, <1>6, <1>10, Zenon DEF n
  <2>2. n <= cut - 4 /\ Request(line) = [command |-> r.command, data |-> SubSeq(SubSeq(line, 5, cut), 1, n)]
    <3>1. cmdProcessCommand(line) # -1
      BY SMT
    <3>2. cut - 2 - 2 = cut - 4 /\ 2 + 3 = 5
      BY <1>8
    <3>3. cut - 4 < n => ~(n + 2 - (cut - 4) = 0)
      <4>1. cut \in Nat /\ n \in Nat
        BY <1>8, <2>1, Zenon
      <4> QED
        BY <4>1
    <3>4. ~(n \in Nat /\ cut - 4 < n /\ cmdProcessCommand(line) = n + 2 - (cut - 4))
      BY <3>3, Zenon
    <3> QED
      BY <1>2, <1>6, <1>7, <1>10, <2>1, <3>1, <3>2, <3>4, Zenon
  <2>3. SubSeq(SubSeq(line, 5, cut), 1, n) = r.data
    <3>1. \A i \in 1 .. n : line[4 + i] = r.data[i]
      <4>1. ASSUME NEW i \in 1 .. n
            PROVE  4 + i <= Len(line)
        <5>1. Len(line) = cut /\ n <= cut - 4 /\ cut \in Nat /\ n \in Nat
          BY <1>4, <1>8, <2>1, <2>2, Zenon
        <5> QED
          BY <5>1
      <4> QED
        BY <1>3, <1>4, <1>10, <4>1, Zenon
    <3>2. line \in Seq(Alphabet) /\ Len(line) = cut
      BY <1>4, Zenon DEF IsPart
    <3>3. r.data \in Seq(Range(r.data))
      BY <1>3, Zenon DEF IsRequest
    <3> DEFINE l == line
               d == r.data
               m == cut
    <3> HIDE DEF l, d, m
    <3>4. /\ l \in Seq(Alphabet) /\ Len(l) = m /\ m \in Nat /\ n \in Nat /\ n <= m - 4
          /\ \A i \in 1 .. n : l[4 + i] = d[i]
          /\ d \in Seq(Range(d)) /\ Len(d) = n
      BY <1>8, <2>1, <2>2, <3>1, <3>2, <3>3, Zenon DEF l, d, m
    <3>5. SubSeq(SubSeq(l, 5, m), 1, n) = d
      BY <3>4, BodyData, SMT
    <3> QED
      BY <3>5, Zenon DEF l, d, m
  <2>4. Request(line) = r
    BY <1>6, <2>2, <2>3, Zenon
  <2>5. cut = n + 6 \/ (cut = n + 4 /\ Detached(r))
    BY <1>1, <1>2, <1>10, <2>2, StorageEnd, Zenon DEF r, n, k
  <2>6. (cut = n + 6 => held - cut = Len(whole) - z) /\ (cut = n + 4 => held - cut = Len(whole) - z + 2)
    <3>1. n \in Nat /\ held = Len(whole) - z + n + 6 /\ Len(whole) \in Nat /\ z \in Nat
      BY <1>8, <2>1, Zenon
    <3> QED
      BY <3>1
  <2> QED
    BY <1>2, <2>4, <2>5, <2>6, Zenon DEF k, r, z
<1> QED
  BY <1>9, <1>10

\* Clear depends on what was sent alone.
LEMMA ClearSame ==
  ASSUME sent' = sent
  PROVE  Clear' = Clear
BY DEF Clear, Detached

\* A step that handles no request and drops no byte.
LEMMA StaysInStep ==
  ASSUME InStep \/ LeftBehind \/ OutOfStep, sent' = sent, handled' = handled, held' = held
  PROVE  (InStep \/ LeftBehind \/ OutOfStep)'
<1>1. whole' = whole /\ EncodeAll(handled)' = EncodeAll(handled) /\ Clear' = Clear
  <2>1. whole' = whole /\ EncodeAll(handled)' = EncodeAll(handled)
    BY Zenon DEF whole, EncodeAll
  <2>2. Clear' = Clear
    BY ClearSame
  <2> QED
    BY <2>1, <2>2, Zenon
<1>2. InStep => InStep'
  BY <1>1, Zenon DEF InStep
<1>3. LeftBehind => LeftBehind'
  BY <1>1, Zenon DEF LeftBehind, Detached
<1>4. OutOfStep => OutOfStep'
  BY <1>1, Zenon DEF OutOfStep
<1> QED
  BY <1>2, <1>3, <1>4, Zenon

\* A request is handled.
LEMMA ProcessStep ==
  ASSUME Narrow, GInv, InStep \/ LeftBehind \/ OutOfStep, Process
  PROVE  (InStep \/ LeftBehind \/ OutOfStep)'
<1>1. /\ pc = "scan" /\ found # npos /\ persistentData' = rest
      /\ cmdProcessCommand(line) = 0 /\ handled' = Append(handled, Request(line))
      /\ data' = <<>> /\ sent' = sent /\ wire' = wire
  BY Zenon DEF Process, Cut, client
<1>2. EndlFound
  BY <1>1, ScanFacts, Zenon DEF EndlMissing
<1>3. whole' = whole /\ held' = held - cut
  BY <1>1, <1>2, CutPieces, Zenon
<1>4. Clear' = Clear /\ EncodeAll(handled)' = EncodeAll(handled')
  <2>1. EncodeAll(handled)' = EncodeAll(handled')
    BY <1>1, Zenon DEF EncodeAll
  <2>2. Clear' = Clear
    BY <1>1, ClearSame
  <2> QED
    BY <2>1, <2>2, Zenon
<1> DEFINE k == Len(handled) + 1
           r == Request(line)
           h == handled
           g == handled'
           left == Len(whole) - Len(FirstBytes(sent, k))
<1>5. /\ Len(h) \in Nat /\ k \in Nat /\ Len(g) = k /\ g[k] = r /\ g \in Seq(Range(g))
      /\ \A i \in 1 .. Len(h) : g[i] = h[i]
  <2> DEFINE S == Range(h) \cup {r}
  <2>1. h \in Seq(Range(h)) /\ g = Append(h, r)
    BY <1>1, Zenon DEF GInv
  <2>2. Range(h) \subseteq S /\ r \in S
    BY Zenon
  <2> HIDE DEF S, r, g
  <2>3. h \in Seq(S)
    BY <2>1, <2>2, SeqMonotonic, Zenon
  <2>4. g \in Seq(S) /\ Len(g) = Len(h) + 1 /\ g[Len(h) + 1] = r /\ Len(h) \in Nat
        /\ \A i \in 1 .. Len(h) : g[i] = h[i]
    BY <2>1, <2>2, <2>3
  <2>5. Len(h) + 1 \in Nat
    BY <2>4
  <2> QED
    BY <2>4, <2>5, OwnElements, Zenon
<1>6. sent \in Streams /\ Len(whole) \in Nat
  BY Lengths, Zenon
<1>7. Len(sent) \in Nat /\ FirstBytes(sent, Len(sent)) = whole
  BY <1>6, StreamFacts, Zenon DEF whole
<1>8. CASE InStep
  <2>1. /\ Len(handled) < Len(sent) /\ r = sent[k]
        /\ held - cut = left \/ (held - cut = left + 2 /\ Detached(sent[k]))
    BY <1>1, <1>2, <1>8, ProcessInStep, Zenon
  <2> HIDE DEF r, g, k
  <2>2. \A i \in 1 .. k : g[i] = sent[i]
    <3>1. \A i \in 1 .. k : i \in 1 .. Len(h) \/ i = k
      BY <1>5 DEF k
    <3> QED
      BY <1>5, <1>8, <2>1, <3>1, Zenon DEF InStep
  <2>3. k <= Len(sent) /\ k \in 1 .. Len(sent)
    <3>1. Len(h) \in Nat /\ Len(sent) \in Nat /\ Len(h) < Len(sent)
      BY <1>5, <1>7, <2>1, Zenon
    <3> QED
      BY <3>1 DEF k
  <2>4. EncodeAll(g) = FirstBytes(sent, k)
    BY <1>5, <1>6, <2>2, <2>3, StartBytes, Zenon
  <2>5. CASE held - cut = left
    <3>1. InStep'
      BY <1>1, <1>3, <1>4, <1>5, <2>2, <2>3, <2>4, <2>5, Zenon DEF InStep, g, whole
    <3> QED
      BY <3>1, Zenon
  <2>6. CASE held - cut = left + 2 /\ Detached(sent[k])
    <3>1. CASE k = Len(sent)
      <4>1. (Len(whole) - Len(whole)) + 2 = 2
        BY <1>6
      <4>2. held - cut = 2
        BY <1>7, <2>6, <3>1, <4>1, Zenon
      <4>3. Len(sent) > 0
        BY <1>7, <2>3
      <4>4. LeftBehind'
        BY <1>1, <1>3, <1>5, <2>2, <2>6, <3>1, <4>2, <4>3, Zenon DEF LeftBehind, Detached, g
      <4> QED
        BY <4>4, Zenon
    <3>2. CASE k # Len(sent)
      <4>1. Clear \in 0 .. Len(sent) /\ Clear <= k
        BY <1>6, <2>3, <2>6, ClearFacts, Zenon
      <4>2. Clear < Len(sent) /\ \A i \in 1 .. Clear : i \in 1 .. k
        BY <1>5, <1>7, <2>3, <3>2, <4>1
      <4>3. OutOfStep'
        BY <1>1, <1>4, <1>5, <2>2, <4>1, <4>2, Zenon DEF OutOfStep, g
      <4> QED
        BY <4>3, Zenon
    <3> QED
      BY <3>1, <3>2, Zenon
  <2> QED
    BY <2>1, <2>5, <2>6, Zenon
<1>9. CASE LeftBehind
  <2>1. /\ found \in Nat /\ cut = found + 2 /\ pos + 2 <= found /\ cut <= Len(data)
    BY <1>1, <1>2, CutFacts, Zenon
  <2>2. /\ Len(data) \in Nat /\ Len(persistentData) \in Nat /\ Len(wire) \in Nat
        /\ held = Len(data) + Len(persistentData) + Len(wire) /\ held = 2
    BY <1>9, Lengths, Zenon DEF LeftBehind
  <2>3. pos \in Nat
    BY Numbers, Zenon
  <2>4. FALSE
    BY <2>1, <2>2, <2>3
  <2> QED
    BY <2>4, Zenon
<1>10. CASE OutOfStep
  <2>1. Clear \in Nat
    <3>1. Clear \in 0 .. Len(sent)
      BY <1>6, ClearFacts, Zenon
    <3> QED
      BY <1>7, <3>1
  <2>2. /\ Clear < Len(sent) /\ Clear <= Len(h) /\ \A i \in 1 .. Clear : h[i] = sent[i]
    BY <1>10, Zenon DEF OutOfStep
  <2>3. Clear <= k /\ \A i \in 1 .. Clear : i \in 1 .. Len(h)
    BY <1>5, <2>1, <2>2
  <2>4. OutOfStep'
    BY <1>1, <1>4, <1>5, <2>2, <2>3, Zenon DEF OutOfStep
  <2> QED
    BY <2>4, Zenon
<1> QED
  BY <1>8, <1>9, <1>10

\* Every step keeps the invariant.
LEMMA HStep ==
  ASSUME Narrow, HInv, [Next]_vars
  PROVE  HInv'
<1>1. GInv /\ (InStep \/ LeftBehind \/ OutOfStep)
  BY Zenon DEF HInv
<1>2. GInv'
  BY <1>1, GeneralStep
<1>3. CASE Process
  BY <1>1, <1>2, <1>3, ProcessStep, Zenon DEF HInv
<1>4. CASE ~Process
  <2>1. sent' = sent /\ handled' = handled /\ held' = held
    <3>1. CASE Reuse
      BY <1>1, <3>1, ReuseGeneral, Zenon DEF Reuse, client
    <3>2. CASE \E rc \in 1 .. BufferLen : Receive(rc)
      BY <1>1, <3>2, ReceiveGeneral, Zenon DEF Receive
    <3>3. CASE Lost
      BY <1>1, <3>3, IdleGeneral, Zenon DEF Lost, client, GInv
    <3>4. CASE NoEndl
      BY <1>1, <3>4, NoEndlGeneral, Zenon DEF NoEndl, client
    <3>5. CASE GoOn
      BY <1>1, <3>5, GoOnGeneral, Zenon DEF GoOn, client
    <3>6. CASE Quit
      BY <1>1, <3>6, QuitGeneral, Zenon DEF Quit, client
    <3>7. CASE Hangup
      <4>1. gone' \in BOOLEAN
        BY <3>7, Zenon DEF Hangup
      <4> QED
        BY <1>1, <3>7, <4>1, IdleGeneral, Zenon DEF Hangup
    <3>8. CASE vars' = vars
      BY <1>1, <3>8, IdleGeneral, Zenon DEF vars, client, GInv
    <3> QED
      BY <1>4, <3>1, <3>2, <3>3, <3>4, <3>5, <3>6, <3>7, <3>8, Zenon DEF Next, sockHandleIncomingConn
  <2>2. (InStep \/ LeftBehind \/ OutOfStep)'
    BY <1>1, <2>1, StaysInStep, Zenon
  <2> QED
    BY <1>2, <2>2, Zenon DEF HInv
<1> QED
  BY <1>3, <1>4

\* At the start nothing is handled and the whole stream is to come.
LEMMA InitInStep ==
  ASSUME Narrow, Init
  PROVE  HInv
<1>1. GInv
  BY InitGeneral
<1>2. /\ sent \in Streams /\ wire = EncodeAll(sent) /\ data = <<>> /\ persistentData = <<>>
      /\ handled = <<>>
  BY Zenon DEF Init
<1>3. Len(sent) \in Nat
  BY <1>2, StreamFacts, Zenon
<1>4. Len(<<>>) = 0 /\ 1 .. 0 = {} /\ 0 <= Len(sent)
  BY <1>3
<1>5. held = Len(whole)
  <2>1. Len(whole) \in Nat
    BY <1>1, Lengths, Zenon
  <2>2. held = 0 + 0 + Len(whole)
    BY <1>2, <1>4, Zenon DEF held, whole
  <2> QED
    BY <2>1, <2>2
<1>6. Len(whole) = Len(whole) - 0
  <2>1. Len(whole) \in Nat
    BY <1>1, Lengths, Zenon
  <2> QED
    BY <2>1
<1>7. InStep
  BY <1>2, <1>4, <1>5, <1>6, EncodeNone, Zenon DEF InStep
<1> QED
  BY <1>1, <1>7, Zenon DEF HInv

\* The invariant holds throughout.
LEMMA Invariance == Narrow => (Spec => []HInv)
<1> SUFFICES ASSUME Narrow PROVE Spec => []HInv
  OBVIOUS
<1>1. Init => HInv
  BY InitInStep
<1>2. HInv /\ [Next]_vars => HInv'
  BY HStep
<1> QED
  BY <1>1, <1>2, PTL DEF Spec

-----------------------------------------------------------------------------
(* The properties *)

\* The requests processed are the requests sent, whatever part of them each recv
\* returns (lines 54-142).
THEOREM RequestsAsSent == Narrow => (Spec => []HandledAsSent)
<1> SUFFICES ASSUME Narrow PROVE Spec => []HandledAsSent
  OBVIOUS
<1>1. ASSUME HInv
      PROVE  HandledAsSent
  <2>1. GInv /\ (InStep \/ LeftBehind \/ OutOfStep)
    BY <1>1, Zenon DEF HInv
  <2>2. sent \in Streams /\ handled \in Seq(Range(handled))
    BY <2>1, Zenon DEF GInv
  <2>3. Clear \in 0 .. Len(sent) /\ Len(sent) \in Nat /\ Len(handled) \in Nat
    BY <2>2, ClearFacts, LenProperties, Zenon
  <2>4. \A m, n \in Nat : \A i \in 1 .. Smaller(m, n) : i \in 1 .. m /\ i \in 1 .. n
    BY DEF Smaller
  <2>5. Clear \in Nat
    BY <2>3
  <2> QED
    BY <2>1, <2>3, <2>4, <2>5, Zenon DEF HandledAsSent, InStep, LeftBehind, OutOfStep
<1>2. Spec => []HInv
  BY Invariance
<1> QED
  BY <1>1, <1>2, PTL

\* A part at the beginning is a prefix.
LEMMA PartPrefix ==
  ASSUME NEW w \in Seq(Alphabet), NEW s, IsPart(s, w, 0)
  PROVE  Begins(s, w)
<1>1. /\ s \in Seq(Alphabet) /\ 0 + Len(s) <= Len(w) /\ \A i \in 1 .. Len(s) : s[i] = w[0 + i]
  BY Zenon DEF IsPart
<1>2. Len(s) \in Nat /\ Len(w) \in Nat
  BY <1>1, LenProperties, Zenon
<1>3. Len(s) <= Len(w) /\ \A i \in 1 .. Len(s) : s[i] = w[i]
  BY <1>1, <1>2
<1> DEFINE q == SubSeq(w, 1, Len(s))
<1>5. q \in Seq(Alphabet) /\ Len(q) = Len(s) /\ \A i \in 1 .. Len(s) : q[i] = w[i]
  BY <1>2, <1>3
<1> HIDE DEF q
<1>6. q = s
  <2>1. Len(q) = Len(s) /\ \A i \in 1 .. Len(q) : q[i] = s[i]
    BY <1>3, <1>5, Zenon
  <2> QED
    BY <1>1, <1>5, <2>1, SeqEqual, Zenon
<1> QED
  BY <1>3, <1>6, Zenon DEF Begins, q

\* No byte is dropped, doubled or moved between data and persistentData (lines
\* 54-104).
THEOREM BytesKept == Narrow => (Spec => []NothingLost)
<1> SUFFICES ASSUME Narrow PROVE Spec => []NothingLost
  OBVIOUS
<1>1. ASSUME HInv
      PROVE  NothingLost
  <2> SUFFICES ASSUME Clear = Len(sent), ~ \E i \in DOMAIN sent : Detached(sent[i])
               PROVE  Begins(EncodeAll(handled) \o data \o persistentData \o wire, EncodeAll(sent))
    BY Zenon DEF NothingLost
  <2>1. GInv /\ (InStep \/ LeftBehind \/ OutOfStep)
    BY <1>1, Zenon DEF HInv
  <2>2. /\ sent \in Streams /\ Len(whole) \in Nat /\ Len(data) \in Nat /\ Len(persistentData) \in Nat
        /\ Len(wire) \in Nat /\ held = Len(data) + Len(persistentData) + Len(wire)
    BY <2>1, Lengths, Zenon
  <2>3. Len(sent) \in Nat /\ DOMAIN sent = 1 .. Len(sent)
    <3>1. sent \in Seq(Range(sent))
      BY <2>2, StreamFacts, Zenon
    <3> QED
      BY <3>1, LenProperties, Zenon
  <2>4. ~OutOfStep
    <3>1. ~(Len(sent) < Len(sent))
      BY <2>3
    <3> QED
      BY <3>1, Zenon DEF OutOfStep
  <2>5. ~LeftBehind
    <3>1. Len(sent) > 0 => Len(sent) \in 1 .. Len(sent)
      BY <2>3
    <3> QED
      BY <2>3, <3>1, Zenon DEF LeftBehind
  <2>6. /\ Len(handled) <= Len(sent) /\ \A i \in 1 .. Len(handled) : handled[i] = sent[i]
        /\ held = Len(whole) - Len(EncodeAll(handled))
    BY <2>1, <2>4, <2>5, Zenon DEF InStep
  <2> DEFINE a == EncodeAll(handled)
             b == a \o data
             c == b \o persistentData
             d == c \o wire
  <2>7. IsPart(a, whole, 0) /\ Len(a) \in Nat
    BY <2>1, <2>6, HandledBytes, Zenon
  <2>8. Pieces
    BY <2>1, Zenon DEF GInv
  <2>9. held = Len(whole) - Len(a)
    BY <2>6, Zenon
  <2> HIDE DEF a
  <2>10. IsPart(b, whole, 0) /\ Len(b) = Len(a) + Len(data)
    <3>1. Len(whole) - held = 0 + Len(a)
      BY <2>2, <2>7, <2>9
    <3>2. IsPart(data, whole, 0 + Len(a))
      BY <2>8, <3>1, Zenon DEF Pieces
    <3> QED
      BY <2>2, <2>7, <3>2, PartConcat
  <2> HIDE DEF b
  <2>11. IsPart(c, whole, 0) /\ Len(c) = Len(b) + Len(persistentData)
    <3>1. Len(whole) - held + Len(data) = 0 + Len(b)
      BY <2>2, <2>7, <2>9, <2>10
    <3>2. IsPart(persistentData, whole, 0 + Len(b))
      BY <2>8, <3>1, Zenon DEF Pieces
    <3> QED
      BY <2>2, <2>10, <3>2, PartConcat
  <2> HIDE DEF c
  <2>12. IsPart(d, whole, 0)
    <3>1. Len(whole) - Len(wire) = 0 + Len(c)
      BY <2>2, <2>7, <2>9, <2>10, <2>11
    <3>2. IsPart(wire, whole, 0 + Len(c))
      BY <2>8, <3>1, Zenon DEF Pieces
    <3> QED
      BY <2>2, <2>11, <3>2, PartConcat
  <2> HIDE DEF d
  <2>13. whole \in Seq(Alphabet)
    BY <2>2, StreamFacts, Zenon DEF whole
  <2>14. Begins(d, whole)
    BY <2>12, <2>13, PartPrefix, Zenon
  <2> QED
    BY <2>14, Zenon DEF a, b, c, d, whole
<1>2. Spec => []HInv
  BY Invariance
<1> QED
  BY <1>1, <1>2, PTL

\* The next request has not been cut: at least its command line is held.
LEMMA RequestHeld ==
  ASSUME Narrow, GInv, InStep, Len(handled) < Len(sent)
  PROVE  4 <= held
<1> DEFINE c == sent[Len(handled) + 1].command
           n == Bytes[c]
<1>1. /\ c \notin StorageCommands => 4 <= held
      /\ c \in StorageCommands => n \in Nat /\ n + 6 <= held
  BY AtRequest, Zenon
<1>2. held \in Nat
  BY Lengths, Zenon
<1> HIDE DEF n, c
<1> QED
  BY <1>1, <1>2

\* In step, the command line of a request that waits for data is the one it was
\* sent with.
LEMMA HeaderInStep ==
  ASSUME Narrow, GInv, InStep, Len(handled) < Len(sent), pos # 0, pos + 2 <= Len(data), NEW e, HeaderAt(e)
  PROVE  e = 2 /\ data[1] = sent[Len(handled) + 1].command
<1>1. Len(data) \in Nat /\ pos \in Nat
  BY Lengths, Numbers, Zenon
<1>2. e \in 0 .. pos /\ IsEndl(data, e + 1) /\ \A i \in 0 .. e - 1 : ~IsEndl(data, i + 1)
  BY Zenon DEF HeaderAt
<1>3. IsPart(data, whole, Len(whole) - held)
  BY Zenon DEF GInv, Pieces
<1> DEFINE c == sent[Len(handled) + 1].command
<1>4. /\ c \notin {CR, LF}
      /\ 1 <= Len(data) => data[1] = c
      /\ 2 <= Len(data) => data[2] = "."
      /\ 4 <= Len(data) => IsEndl(data, 3)
  BY <1>3, AtRequest, Zenon
<1> HIDE DEF c
<1>5. 1 <= Len(data) /\ 2 <= Len(data)
  BY <1>1
<1>6. e # 0
  <2>1. 0 + 1 = 1
    OBVIOUS
  <2> QED
    BY <1>2, <1>4, <1>5, <2>1, Zenon DEF IsEndl
<1>7. e # 1
  <2>1. 1 + 1 = 2
    OBVIOUS
  <2>2. "." # CR
    BY DEF CR
  <2> QED
    BY <1>2, <1>4, <1>5, <2>1, <2>2, Zenon DEF IsEndl
<1>8. ~(3 <= e)
  <2>1. 3 <= e => 2 \in 0 .. e - 1 /\ 4 <= Len(data)
    BY <1>1, <1>2
  <2>2. 2 + 1 = 3
    OBVIOUS
  <2> QED
    BY <1>2, <1>4, <2>1, <2>2, Zenon
<1>9. e = 2
  BY <1>2, <1>6, <1>7, <1>8
<1> QED
  BY <1>4, <1>5, <1>9, Zenon DEF c

\* While it waits in recv, the worker does not count on more bytes than the client
\* has left to send (lines 88, 106 and 123).
THEOREM WaitsForLittle == Narrow => (Spec => []NeverAsksTooMuch)
<1> SUFFICES ASSUME Narrow PROVE Spec => []NeverAsksTooMuch
  OBVIOUS
<1>1. ASSUME HInv
      PROVE  NeverAsksTooMuch
  <2> DEFINE counted == readMore - (IF persistFlag THEN Len(data) - (pos + 2) ELSE 0)
  <2> SUFFICES ASSUME pc = "fill", persistentData = <<>>, Clear = Len(sent)
               PROVE  counted <= Len(wire)
    BY Zenon DEF NeverAsksTooMuch
  <2>1. GInv /\ (InStep \/ LeftBehind \/ OutOfStep)
    BY <1>1, Zenon DEF HInv
  <2>2. /\ sent \in Streams /\ Len(data) \in Nat /\ Len(persistentData) \in Nat
        /\ Len(wire) \in Nat /\ held = Len(data) + Len(persistentData) + Len(wire) /\ held \in Nat
    BY <2>1, Lengths, Zenon
  <2>3. pos \in Nat /\ readMore \in Int
    BY <2>1, Numbers, Zenon
  <2>4. held = Len(data) + Len(wire)
    <3>1. Len(persistentData) = 0
      BY SMT
    <3> QED
      BY <2>2, <3>1
  <2>5. ~OutOfStep
    <3>1. Len(sent) \in Nat
      BY <2>2, StreamFacts, Zenon
    <3>2. ~(Len(sent) < Len(sent))
      BY <3>1
    <3> QED
      BY <3>2, Zenon DEF OutOfStep
  <2>6. /\ Kept <= Len(data) /\ (persistFlag => Kept < Len(data))
        /\ IF pos = 0 THEN readMore <= 0 ELSE InRequest
    <3>1. Reading
      BY <2>1, Zenon DEF GInv
    <3> QED
      BY <3>1, Zenon DEF Reading
  <2>7. \/ InStep /\ (held = 0 \/ Len(handled) < Len(sent))
        \/ held = 2
    <3>1. InStep => (held = 0 \/ Len(handled) < Len(sent))
      BY <2>1, MoreToCome, Zenon
    <3> QED
      BY <2>1, <2>5, <3>1, Zenon DEF LeftBehind
  <2>8. CASE pos = 0
    <3>1. readMore <= 0 /\ (persistFlag => 0 < Len(data))
      BY <2>6, <2>8, Zenon DEF Kept
    <3>2. held = 0 \/ 2 <= held
      <4>1. CASE InStep /\ Len(handled) < Len(sent)
        BY <2>1, <2>2, <4>1, RequestHeld
      <4>2. held = 2 => 2 <= held
        BY <2>2
      <4> QED
        BY <2>7, <4>1, <4>2, Zenon
    <3>3. persistFlag => readMore - (Len(data) - (pos + 2)) <= Len(wire)
      <4>1. ASSUME persistFlag
            PROVE  /\ readMore \in Int /\ Len(data) \in Nat /\ Len(wire) \in Nat /\ pos = 0
                   /\ readMore <= 0 /\ 0 < Len(data) /\ held = Len(data) + Len(wire)
                   /\ held = 0 \/ 2 <= held
        BY <2>2, <2>3, <2>4, <2>8, <3>1, <3>2, <4>1, Zenon
      <4> QED
        BY <4>1
    <3>4. readMore - 0 <= Len(wire)
      BY <2>2, <2>3, <3>1
    <3> QED
      BY <3>3, <3>4, Zenon
  <2>9. CASE pos # 0
    <3>1. PICK e \in 0 .. pos :
            /\ HeaderAt(e) /\ data[1] \in StorageCommands
            /\ readMore + (IF persistFlag THEN pos + 2 ELSE Len(data)) <= e + Bytes[data[1]] + 4
      BY <2>6, <2>9, Zenon DEF InRequest
    <3>2. pos + 2 <= Len(data)
      BY <2>6, <2>9, Zenon DEF Kept
    <3>3. held # 2 /\ held # 0
      BY <2>2, <2>3, <2>4, <2>9, <3>2
    <3>4. InStep /\ Len(handled) < Len(sent)
      BY <2>7, <3>3, Zenon
    <3>5. e = 2 /\ data[1] = sent[Len(handled) + 1].command
      BY <2>1, <2>9, <3>1, <3>2, <3>4, HeaderInStep, Zenon
    <3> DEFINE n == Bytes[data[1]]
    <3>6. n \in Nat /\ n + 6 <= held
      BY <2>1, <3>1, <3>4, <3>5, AtRequest, Zenon
    <3>7. readMore + (IF persistFlag THEN pos + 2 ELSE Len(data)) <= 2 + n + 4
      BY <3>1, <3>5, Zenon
    <3> HIDE DEF n
    <3>8. persistFlag => readMore - (Len(data) - (pos + 2)) <= Len(wire)
      <4>1. persistFlag => readMore + (pos + 2) <= 2 + n + 4
        BY <3>7, Zenon
      <4> QED
        BY <2>2, <2>3, <2>4, <3>6, <4>1
    <3>9. ~persistFlag => readMore - 0 <= Len(wire)
      <4>1. ~persistFlag => readMore + Len(data) <= 2 + n + 4
        BY <3>7, Zenon
      <4> QED
        BY <2>2, <2>3, <2>4, <3>6, <4>1
    <3> QED
      BY <3>8, <3>9, Zenon
  <2> QED
    BY <2>8, <2>9, Zenon
<1>2. Spec => []HInv
  BY Invariance
<1> QED
  BY <1>1, <1>2, PTL
===============================================================================
