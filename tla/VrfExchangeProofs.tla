------------------------- MODULE VrfExchangeProofs --------------------------
(***************************************************************************)
(* Proofs about VrfExchange: what the two ends of the socket believe of    *)
(* each other and of the kernel, for every width of a byte, every set of   *)
(* requests, all sizes of sockets, reads and names, and every kernel.      *)
(*                                                                         *)
(* First the codecs: flattening, stuffing, checksum, the nested headers    *)
(* and the decoding loops, each decoder applied to what its encoder made.  *)
(* Then three invariants, each inductive with the ones before it:          *)
(*   RequestInv   the bytes of a request on their way to the server,       *)
(*                and what it makes of them (NothingForeign)               *)
(*   AnswerInv    the bytes of the reply on their way back, and what the   *)
(*                client makes of them (AnswerIsTrue)                      *)
(*   PassesInv    the results of the adds and the routes in the kernel     *)
(*                (PassMeansInstalled)                                     *)
(* and KernelInv, by which adds only ever add (AddsNeverReplace).  Last,   *)
(* the commands of the other processes, field by field and interface by    *)
(* interface (CommandArrives).                                             *)
(*                                                                         *)
(* What a recursive definition computes is proved through LeastElement: a  *)
(* set of indices that has 0, and i + 1 with i, has them all.              *)
(***************************************************************************)
EXTENDS VrfExchange, FiniteSetTheorems, SequenceTheorems, WellFoundedInduction, TLAPS

-----------------------------------------------------------------------------
(* Natural numbers: induction, and functions defined by it.                 *)

\* Every set of natural numbers that is not empty has a least element: among
\* the intervals 0 .. n that end in it one is contained in no smaller one.
LEMMA LeastElement ==
  ASSUME NEW T, T \subseteq Nat, T # {}
  PROVE  \E x \in T : \A y \in T : x <= y
<1> DEFINE Order == StrictSubsetOrdering(Nat)
           Intervals == {0 .. n : n \in T}
<1>1. Intervals \subseteq FiniteSubsetsOf(Nat) /\ Intervals # {}
  <2>1. ASSUME NEW n \in T PROVE 0 .. n \in SUBSET Nat /\ IsFiniteSet(0 .. n)
    BY FS_Interval
  <2> QED BY <2>1 DEF FiniteSubsetsOf
<1>2. PICK m \in T : \A n \in T : <<0 .. n, 0 .. m>> \notin Order
  <2> HIDE DEF Intervals, Order
  <2>1. \E I \in Intervals : \A J \in Intervals : <<J, I>> \notin Order
    BY <1>1, FS_StrictSubsetOrderingWellFounded, WFMin DEF Order
  <2> QED BY <2>1 DEF Intervals
<1>3. ASSUME NEW n \in T, n < m PROVE FALSE
  <2>1. n \in Nat /\ m \in Nat
    OBVIOUS
  <2>2. /\ 0 .. n \subseteq 0 .. m /\ m \in 0 .. m /\ m \notin 0 .. n
        /\ 0 .. n \subseteq Nat /\ 0 .. m \subseteq Nat
    BY <2>1, <1>3
  <2>3. <<0 .. n, 0 .. m>> \in Order
    BY <2>2 DEF StrictSubsetOrdering
  <2> QED BY <2>3, <1>2
<1> QED BY <1>3

\* Induction up to n, for a set in place of a predicate.
LEMMA UpTo ==
  ASSUME NEW n \in Nat, NEW P, 0 \in P,
         \A k \in 0 .. n - 1 : k \in P => k + 1 \in P
  PROVE  \A k \in 0 .. n : k \in P
<1> DEFINE T == {k \in 0 .. n : k \notin P}
<1>1. ASSUME T # {} PROVE FALSE
  <2>1. T \subseteq Nat
    OBVIOUS
  <2>2. PICK m \in T : \A k \in T : m <= k
    <3> HIDE DEF T
    <3> QED BY <1>1, <2>1, LeastElement
  <2>3. m - 1 \in 0 .. n - 1 /\ m - 1 \notin T
    BY <2>2
  <2> QED BY <2>2, <2>3
<1> QED BY <1>1

\* A function whose value at i is computed from the one at i - 1 exists: if
\* it did not up to some m, the one up to m - 1 could be extended.
CanStep(S, n, init, step) ==
  /\ n \in Nat /\ init \in S
  /\ \A i \in 1 .. n : \A x \in S : step[i][x] \in S
Steps(S, n, init, step, f) ==
  /\ f \in [0 .. n -> S] /\ f[0] = init
  /\ \A i \in 1 .. n : f[i] = step[i][f[i - 1]]

\* Given one value and the way from each to the next, the function exists.
LEMMA StepFunction ==
  ASSUME NEW S, NEW n, NEW init, NEW step, CanStep(S, n, init, step)
  PROVE  \E f : Steps(S, n, init, step, f)
<1> USE DEF CanStep, Steps
<1> DEFINE Upto(m) == \E f \in [0 .. m -> S] :
             f[0] = init /\ \A i \in 1 .. m : f[i] = step[i][f[i - 1]]
<1>1. Upto(0)
  <2> DEFINE f == [i \in 0 .. 0 |-> init]
  <2>1. f \in [0 .. 0 -> S] /\ f[0] = init /\ \A i \in 1 .. 0 : FALSE
    OBVIOUS
  <2> QED BY <2>1
<1>2. ASSUME NEW m \in 1 .. n, Upto(m - 1) PROVE Upto(m)
  <2>1. PICK g \in [0 .. m - 1 -> S] :
          g[0] = init /\ \A i \in 1 .. m - 1 : g[i] = step[i][g[i - 1]]
    BY <1>2
  <2> DEFINE f == [i \in 0 .. m |-> IF i = m THEN step[m][g[m - 1]] ELSE g[i]]
  <2>2. m - 1 \in 0 .. m - 1 /\ \A x \in S : step[m][x] \in S
    OBVIOUS
  <2>3. f \in [0 .. m -> S]
    BY <2>1, <2>2
  <2>4. ASSUME NEW i \in 1 .. m PROVE f[i] = step[i][f[i - 1]]
    BY <2>1, <2>2
  <2>5. f[0] = init
    BY <2>1
  <2> QED BY <2>3, <2>4, <2>5
<1>3. Upto(n)
  <2> DEFINE P == {m \in 0 .. n : Upto(m)}
  <2> HIDE DEF Upto
  <2>1. 0 \in P /\ \A k \in 0 .. n - 1 : k \in P => k + 1 \in P
    <3>1. ASSUME NEW k \in 0 .. n - 1, k \in P PROVE k + 1 \in P
      BY <1>2, <3>1
    <3> QED BY <1>1, <3>1
  <2> HIDE DEF P
  <2>2. \A k \in 0 .. n : k \in P
    BY <2>1, UpTo
  <2> QED BY <2>2 DEF P
<1> QED BY <1>3

-----------------------------------------------------------------------------
(* Sequences put together.                                                  *)

\* Two sequences, one after the other: their lengths and elements.
LEMMA Joined ==
  ASSUME NEW S, NEW p \in Seq(S), NEW q \in Seq(S)
  PROVE  /\ p \o q \in Seq(S) /\ Len(p \o q) = Len(p) + Len(q)
         /\ \A i \in 1 .. Len(p) : (p \o q)[i] = p[i]
         /\ \A i \in 1 .. Len(q) : (p \o q)[Len(p) + i] = q[i]
BY ConcatProperties

\* The same without the elements, for leaves that need no more.
LEMMA JoinedLen ==
  ASSUME NEW S, NEW p \in Seq(S), NEW q \in Seq(S)
  PROVE  p \o q \in Seq(S) /\ Len(p \o q) = Len(p) + Len(q)
BY ConcatProperties

\* The two parts of a concatenation are its slices.
LEMMA JoinedParts ==
  ASSUME NEW S, NEW p \in Seq(S), NEW q \in Seq(S)
  PROVE  /\ SubSeq(p \o q, 1, Len(p)) = p
         /\ SubSeq(p \o q, Len(p) + 1, Len(p \o q)) = q
<1>1. SubSeq(p \o q, 1, Len(p)) = p
  OBVIOUS
<1>2. SubSeq(p \o q, Len(p) + 1, Len(p \o q)) = q
  OBVIOUS
<1> QED BY <1>1, <1>2

-----------------------------------------------------------------------------
(* Bytes and the numbers made of them.                                      *)

\* The sizes of bytes and words, and the bytes that mean something.
LEMMA WordFacts ==
  /\ Base \in Nat /\ Base > 2
  /\ Word \in Nat /\ Word = Base * Base /\ Word > 2 * Base
  /\ Word * Word \in Nat
  /\ Byte = 0 .. Base - 1
  /\ {FRAME_DELIM, ESCAPE_BYTE, ESC_DELIM, ESC_ESCAPE} \subseteq Byte
<1>1. Base \in Nat /\ Byte = 0 .. Base - 1
  BY ProtoAssumption DEF Byte
<1>2. Base > 2
  BY ProtoAssumption, <1>1
<1>3. \A b \in Nat : b > 2 => b * b \in Nat /\ b * b > 2 * b
  BY SMTT(30)
<1>4. \A b \in Nat : b * b \in Nat
  BY SMTT(30)
<1>5. Word \in Nat /\ Word = Base * Base /\ Word > 2 * Base
  BY <1>1, <1>2, <1>3 DEF Word
<1> QED BY <1>1, <1>2, <1>4, <1>5, ProtoAssumption

\* Division of natural numbers, with its remainder.
LEMMA Division ==
  ASSUME NEW v \in Nat, NEW b \in Nat, b > 0
  PROVE  /\ v \div b \in Nat /\ v % b \in 0 .. b - 1
         /\ v = b * (v \div b) + (v % b)
<1>1. v \div b \in Nat
  BY SMTT(30)
<1>2. v % b \in 0 .. b - 1
  BY SMTT(30)
<1>3. v % b = v - b * (v \div b)
  BY SMTT(30)
<1>4. b * (v \div b) \in Int
  BY <1>1
<1> QED BY <1>1, <1>2, <1>3, <1>4

\* Quotient and remainder are determined by the number.
LEMMA DivisionIsUnique ==
  ASSUME NEW b \in Nat, b > 0, NEW q \in Nat, NEW r \in 0 .. b - 1,
         NEW t \in Nat, NEW u \in 0 .. b - 1, b * q + r = b * t + u
  PROVE  q = t /\ r = u
<1>1. ASSUME NEW x \in Nat, NEW y \in Nat, x < y PROVE b * y >= b * x + b
  <2>1. PICK d \in Nat : y = x + 1 + d
    <3>1. y - x - 1 \in Nat /\ y = x + 1 + (y - x - 1)
      BY <1>1
    <3> QED BY <3>1
  <2>2. b * y = b * x + b + b * d
    BY <2>1
  <2>3. b * d \in Nat /\ b * x \in Nat
    BY SMTT(30)
  <2> QED BY <2>2, <2>3
<1>2. b * q \in Nat /\ b * t \in Nat
  BY SMTT(30)
<1>3. ~(q < t) /\ ~(t < q)
  BY <1>1, <1>2
<1>4. q = t
  BY <1>3
<1> QED BY <1>2, <1>4

\* A number below the square of b has a quotient below b.
LEMMA QuotientBelow ==
  ASSUME NEW b \in Nat, b > 0, NEW v \in 0 .. b * b - 1
  PROVE  v \div b \in 0 .. b - 1
<1> b * b \in Nat
  BY SMTT(30)
<1> v \in Nat
  OBVIOUS
<1>1. v \div b \in Nat /\ v % b \in 0 .. b - 1 /\ v = b * (v \div b) + (v % b)
  BY Division
<1> DEFINE q == v \div b
<1>2. ASSUME q >= b PROVE FALSE
  <2>1. PICK d \in Nat : q = b + d
    <3>1. q - b \in Nat /\ q = b + (q - b)
      BY <1>1, <1>2
    <3> QED BY <3>1
  <2> HIDE DEF q
  <2>2. b * q = b * b + b * d /\ b * d \in Nat
    <3>1. b * (b + d) = b * b + b * d /\ b * d \in Nat
      BY SMTT(30)
    <3> QED BY <3>1, <2>1
  <2> QED BY <1>1, <2>2 DEF q
<1> QED BY <1>1, <1>2

\* write_be16 writes two bytes, which are the number if it has 16 bits.
LEMMA WriteBe16 ==
  ASSUME NEW v \in Nat
  PROVE  LET w == write_be16(v)
         IN  /\ w \in Seq(Byte) /\ Len(w) = 2
             /\ v < Word => w[1] * Base + w[2] = v
<1> DEFINE q == v \div Base
           w == write_be16(v)
<1>1. q \in Nat /\ v % Base \in Byte /\ v = Base * q + (v % Base)
  BY Division, WordFacts
<1>2. q % Base \in Byte
  BY <1>1, Division, WordFacts
<1>3. w \in Seq(Byte) /\ Len(w) = 2 /\ w[1] = q % Base /\ w[2] = v % Base
  BY <1>1, <1>2 DEF write_be16
<1>4. ASSUME v < Word PROVE q % Base = q
  <2>1. q \in 0 .. Base - 1
    BY <1>4, QuotientBelow, WordFacts
  <2> HIDE DEF q
  <2>2. q = Base * (q \div Base) + (q % Base) /\ q \div Base \in Nat /\ q = Base * 0 + q
    BY <2>1, Division, WordFacts
  <2> QED BY <2>1, <2>2, <1>2, DivisionIsUnique, WordFacts
<1>5. q * Base = Base * q
  BY <1>1, WordFacts
<1> HIDE DEF q, w
<1> QED BY <1>1, <1>3, <1>4, <1>5 DEF w

\* Two digits below b make a number below b * b.
LEMMA BelowSquare ==
  ASSUME NEW b \in Nat, NEW h \in Nat, NEW l \in Nat, h < b, l < b
  PROVE  h * b + l \in Nat /\ h * b + l < b * b
<1>1. PICK d \in Nat : b = h + 1 + d
  <2>1. b - h - 1 \in Nat /\ b = h + 1 + (b - h - 1)
    OBVIOUS
  <2> QED BY <2>1
<1>2. b * b = h * b + b + d * b
  <2>1. (h + 1 + d) * b = h * b + b + d * b
    BY SMTT(30)
  <2> QED BY <2>1, <1>1
<1>3. d * b \in Nat /\ h * b \in Nat
  BY SMTT(30)
<1> QED BY <1>2, <1>3

\* What is read back is in range whatever the bytes are.
LEMMA ReadBe16Range ==
  ASSUME NEW buf \in Seq(Byte), NEW i \in Nat, i + 2 <= Len(buf)
  PROVE  read_be16(buf, i) \in 0 .. Word - 1
<1> DEFINE x == buf[i + 1]
           y == buf[i + 2]
<1>1. x \in 0 .. Base - 1 /\ y \in 0 .. Base - 1 /\ Base \in Nat /\ Base > 0
  BY WordFacts
<1> HIDE DEF x, y
<1>3. x * Base + y \in Nat /\ x * Base + y < Base * Base
  BY <1>1, BelowSquare
<1> QED BY <1>3, WordFacts DEF read_be16, x, y

\* The two bytes of a number are its low word.
LEMMA LowWord ==
  ASSUME NEW v \in Nat
  PROVE  LET w == write_be16(v) IN w[1] * Base + w[2] = v % Word
<1> DEFINE w == write_be16(v)
           q == v \div Word
           r == v \div Base
           a == r \div Base
           b == r % Base
           c == v % Base
<1>0. Word \in Nat /\ Word > 0
  BY WordFacts
<1>1. q \in Nat /\ v % Word \in 0 .. Word - 1 /\ v = Word * q + (v % Word)
  BY <1>0, Division
<1>2. r \in Nat /\ c \in 0 .. Base - 1 /\ v = Base * r + c
  BY Division, WordFacts
<1>3. a \in Nat /\ b \in 0 .. Base - 1 /\ r = Base * a + b
  BY <1>2, Division, WordFacts
<1>4. w[1] = b /\ w[2] = c
  BY DEF write_be16
<1> HIDE DEF q, r, a, b, c, w
<1>5. v = Word * a + (b * Base + c)
  <2>1. \A x \in Nat : x * (x * a + b) + c = (x * x) * a + (b * x + c)
    BY <1>2, <1>3
  <2> QED BY <2>1, <1>2, <1>3, WordFacts
<1>6. b * Base + c \in 0 .. Word - 1
  <2> DEFINE buf == <<b, c>>
  <2>1. buf \in Seq(Byte) /\ Len(buf) = 2 /\ buf[1] = b /\ buf[2] = c
    BY <1>2, <1>3, WordFacts
  <2> HIDE DEF buf
  <2>2. read_be16(buf, 0) = b * Base + c
    BY <2>1 DEF read_be16
  <2>3. 0 + 2 <= Len(buf)
    BY <2>1
  <2>4. read_be16(buf, 0) \in 0 .. Word - 1
    BY <2>1, <2>3, ReadBe16Range
  <2> QED BY <2>2, <2>4
<1>7. /\ a \in Nat /\ b * Base + c \in 0 .. Word - 1
      /\ Word * q + (v % Word) = Word * a + (b * Base + c)
  BY <1>1, <1>3, <1>5, <1>6
<1>8. v % Word = b * Base + c
  BY <1>0, <1>1, <1>7, DivisionIsUnique
<1> QED BY <1>4, <1>8 DEF w

\* write_be32 writes four bytes, which are the number if it has 32 bits.
LEMMA WriteBe32 ==
  ASSUME NEW v \in Nat
  PROVE  LET w == write_be32(v)
         IN  /\ w \in Seq(Byte) /\ Len(w) = 4
             /\ v < Word * Word =>
                  (w[1] * Base + w[2]) * Word + (w[3] * Base + w[4]) = v
<1> DEFINE q == v \div Word
           h == write_be16(q)
           l == write_be16(v)
           w == write_be32(v)
           low == l[1] * Base + l[2]
<1>0. Word \in Nat /\ Word > 0
  BY WordFacts
<1>1. q \in Nat /\ v % Word \in 0 .. Word - 1 /\ v = Word * q + (v % Word)
  BY <1>0, Division
<1>2. /\ h \in Seq(Byte) /\ Len(h) = 2 /\ l \in Seq(Byte) /\ Len(l) = 2
      /\ q < Word => h[1] * Base + h[2] = q
  BY <1>1, WriteBe16
<1>3. /\ w \in Seq(Byte) /\ Len(w) = 4
      /\ w[1] = h[1] /\ w[2] = h[2] /\ w[3] = l[1] /\ w[4] = l[2]
  <2>1. w = h \o l
    BY DEF write_be32
  <2> HIDE DEF h, l, w
  <2>2. h \in Seq(Byte) /\ l \in Seq(Byte) /\ Len(h) = 2 /\ Len(l) = 2
    BY <1>2
  <2>3. h \o l \in Seq(Byte) /\ Len(h \o l) = 4
    BY <2>2, Joined
  <2>4. (h \o l)[1] = h[1] /\ (h \o l)[2] = h[2]
    BY <2>2
  <2>5. (h \o l)[3] = l[1] /\ (h \o l)[4] = l[2]
    <3>1. \A i \in 1 .. Len(l) : (h \o l)[Len(h) + i] = l[i]
      BY <2>2, Joined
    <3> HIDE <2>1
    <3>2. 1 \in 1 .. Len(l) /\ 2 \in 1 .. Len(l) /\ Len(h) + 1 = 3 /\ Len(h) + 2 = 4
      BY <2>2
    <3> QED BY <3>1, <3>2, Zenon
  <2> QED BY <2>1, <2>3, <2>4, <2>5, Zenon
<1>4. low = v % Word
  BY LowWord
<1>5. ASSUME v < Word * Word PROVE q < Word
  BY <1>5, QuotientBelow, WordFacts
<1>6. q * Word = Word * q
  BY <1>1, WordFacts
<1> HIDE DEF q, h, l, w, low
<1> QED BY <1>1, <1>2, <1>3, <1>4, <1>5, <1>6 DEF w, low

-----------------------------------------------------------------------------
(* Sequences of sequences, flattened.                                       *)

\* FlattenSeq adds one sequence after the other.
LEMMA FlattenSteps ==
  ASSUME NEW S, NEW ss \in Seq(Seq(S)), ss # <<>>
  PROVE  \E f \in [1 .. Len(ss) -> Seq(S)] :
           /\ FlattenSeq(ss) = f[Len(ss)] /\ f[1] = ss[1]
           /\ \A i \in 2 .. Len(ss) : f[i] = f[i - 1] \o ss[i]
<1> DEFINE n == Len(ss)
           Step(f) == [i \in 1 .. n |-> IF i = 1 THEN ss[i] ELSE f[i - 1] \o ss[i]]
           flatten == CHOOSE f : f = Step(f)
<1>1. n \in Nat /\ n > 0 /\ \A i \in 1 .. n : ss[i] \in Seq(S)
  OBVIOUS
<1>2. FlattenSeq(ss) = flatten[n]
  BY <1>1 DEF FlattenSeq
<1>3. \E f : f = Step(f)
  <2> DEFINE step == [i \in 1 .. n |->
                        [x \in Seq(S) |-> IF i = 1 THEN ss[i] ELSE x \o ss[i]]]
  <2>1. CanStep(Seq(S), n, <<>>, step)
    <3>1. ASSUME NEW i \in 1 .. n, NEW x \in Seq(S)
          PROVE  (IF i = 1 THEN ss[i] ELSE x \o ss[i]) \in Seq(S)
      BY <1>1
    <3> HIDE DEF n
    <3> QED BY <1>1, <3>1 DEF CanStep
  <2>2. PICK g : Steps(Seq(S), n, <<>>, step, g)
    <3> HIDE DEF n, step
    <3> QED BY <2>1, StepFunction
  <2> DEFINE f == [i \in 1 .. n |-> g[i]]
  <2>3. ASSUME NEW i \in 1 .. n
        PROVE  g[i] = IF i = 1 THEN ss[i] ELSE g[i - 1] \o ss[i]
    <3>1. i \in 0 .. n /\ i # 0 /\ g[i - 1] \in Seq(S)
      <4> HIDE DEF step, n
      <4> QED BY <1>1, <2>2 DEF Steps
    <3>2. g[i] = step[i][g[i - 1]]
      <4> HIDE DEF step, n
      <4> QED BY <2>2 DEF Steps
    <3> QED BY <3>1, <3>2
  <2>4. ASSUME NEW i \in 1 .. n, i # 1 PROVE i - 1 \in 1 .. n /\ f[i - 1] = g[i - 1]
    BY <1>1, <2>4
  <2> HIDE DEF n
  <2>5. f = Step(f)
    BY <2>3, <2>4
  <2> QED BY <2>5
<1>4. flatten = Step(flatten)
  <2> HIDE DEF Step
  <2> QED BY <1>3
<1> HIDE DEF flatten
<1>5. flatten[1] = ss[1] /\ \A i \in 2 .. n : flatten[i] = flatten[i - 1] \o ss[i]
  <2>1. \A i \in 1 .. n : flatten[i] = IF i = 1 THEN ss[i] ELSE flatten[i - 1] \o ss[i]
    BY <1>4, Zenon
  <2>2. 1 \in 1 .. n /\ \A i \in 2 .. n : i \in 1 .. n /\ i # 1
    BY <1>1
  <2> HIDE DEF n
  <2> QED BY <2>1, <2>2, Zenon
<1>6. flatten \in [1 .. n -> Seq(S)]
  <2> DEFINE P == {k \in 0 .. n : k = 0 \/ flatten[k] \in Seq(S)}
  <2>1. 0 \in P
    BY <1>1
  <2>2. ASSUME NEW k \in 0 .. n - 1, k \in P PROVE k + 1 \in P
    <3>1. CASE k = 0
      BY <3>1, <1>1, <1>5
    <3>2. CASE k # 0
      <4>1. flatten[k] \in Seq(S) /\ ss[k + 1] \in Seq(S)
        BY <3>2, <2>2, <1>1
      <4>2. flatten[k + 1] = flatten[k] \o ss[k + 1]
        <5>1. k + 1 \in 2 .. n /\ (k + 1) - 1 = k
          BY <3>2, <1>1
        <5> QED BY <5>1, <1>5
      <4>3. flatten[k + 1] \in Seq(S)
        BY <4>1, <4>2, Joined
      <4> QED BY <4>3, <1>1
    <3> QED BY <3>1, <3>2
  <2> HIDE DEF P, n
  <2>3. \A k \in 0 .. n : k \in P
    BY <1>1, <2>1, <2>2, UpTo
  <2>4. \A k \in 1 .. n : flatten[k] \in Seq(S)
    BY <2>3 DEF P
  <2>5. flatten = [i \in 1 .. n |-> flatten[i]]
    BY <1>4
  <2> QED BY <2>4, <2>5
<1> QED BY <1>2, <1>5, <1>6

\* Where each sequence lies in the flattened one.
Laid(ss, off) ==
  /\ off \in [0 .. Len(ss) -> Nat] /\ off[0] = 0
  /\ off[Len(ss)] = Len(FlattenSeq(ss))
  /\ \A k \in 1 .. Len(ss) :
       /\ off[k] = off[k - 1] + Len(ss[k]) /\ off[k] <= Len(FlattenSeq(ss))
       /\ \A i \in 1 .. Len(ss[k]) : FlattenSeq(ss)[off[k - 1] + i] = ss[k][i]

\* Nothing flattens to nothing.
LEMMA FlattenEmpty == FlattenSeq(<<>>) = <<>>
BY DEF FlattenSeq

\* FlattenSeq lays the sequences out one after the other.
LEMMA Flattened ==
  ASSUME NEW S, NEW ss \in Seq(Seq(S))
  PROVE  FlattenSeq(ss) \in Seq(S) /\ \E off : Laid(ss, off)
<1>1. CASE ss = <<>>
  <2> DEFINE off == [k \in 0 .. 0 |-> 0]
  <2>1. Len(ss) = 0 /\ FlattenSeq(ss) = <<>> /\ <<>> \in Seq(S) /\ Len(<<>>) = 0
    BY <1>1, FlattenEmpty
  <2>2. off \in [0 .. 0 -> Nat] /\ off[0] = 0 /\ \A k \in 1 .. 0 : FALSE
    OBVIOUS
  <2> HIDE DEF off
  <2>3. Laid(ss, off)
    BY <2>1, <2>2 DEF Laid
  <2> QED BY <2>1, <2>3
<1>2. CASE ss # <<>>
  <2> DEFINE n == Len(ss)
  <2>1. n \in Nat /\ n > 0 /\ \A k \in 1 .. n : ss[k] \in Seq(S)
    BY <1>2
  <2>2. PICK f \in [1 .. n -> Seq(S)] :
          /\ FlattenSeq(ss) = f[n] /\ f[1] = ss[1]
          /\ \A i \in 2 .. n : f[i] = f[i - 1] \o ss[i]
    BY <1>2, FlattenSteps
  <2> DEFINE off == [k \in 0 .. n |-> IF k = 0 THEN 0 ELSE Len(f[k])]
  <2> HIDE DEF n
  <2>3. off \in [0 .. n -> Nat] /\ off[0] = 0 /\ \A k \in 1 .. n : off[k] = Len(f[k])
    BY <2>1, <2>2
  <2> HIDE DEF off
  <2>4. \A k \in 1 .. n : f[k] \in Seq(S) /\ Len(ss[k]) \in Nat
    BY <2>1
  <2>5. ASSUME NEW k \in 1 .. n, k # 1
        PROVE  /\ k - 1 \in 1 .. n /\ f[k] = f[k - 1] \o ss[k]
               /\ Len(f[k]) = Len(f[k - 1]) + Len(ss[k])
               /\ \A i \in 1 .. Len(f[k - 1]) : f[k][i] = f[k - 1][i]
               /\ \A i \in 1 .. Len(ss[k]) : f[k][Len(f[k - 1]) + i] = ss[k][i]
    <3>1. k - 1 \in 1 .. n /\ f[k - 1] \in Seq(S) /\ ss[k] \in Seq(S)
      BY <2>1, <2>4, <2>5
    <3>2. f[k] = f[k - 1] \o ss[k]
      <4>1. k \in 2 .. n
        BY <2>1, <2>5
      <4> QED BY <4>1, <2>2
    <3>3. Len(f[k - 1] \o ss[k]) = Len(f[k - 1]) + Len(ss[k])
      BY <3>1, Joined
    <3>4. \A i \in 1 .. Len(f[k - 1]) : (f[k - 1] \o ss[k])[i] = f[k - 1][i]
      BY <3>1, Joined
    <3>5. \A i \in 1 .. Len(ss[k]) : (f[k - 1] \o ss[k])[Len(f[k - 1]) + i] = ss[k][i]
      BY <3>1, Joined
    <3> QED BY <3>1, <3>2, <3>3, <3>4, <3>5, Zenon
  <2>6. ASSUME NEW k \in 1 .. n
        PROVE  off[k] = off[k - 1] + Len(ss[k])
    <3>1. CASE k = 1
      BY <3>1, <2>1, <2>2, <2>3, <2>4
    <3>2. CASE k # 1
      BY <3>2, <2>3, <2>5
    <3> QED BY <3>1, <3>2
  <2> DEFINE P == {m \in 0 .. n : \A k \in 1 .. m :
                     /\ off[k] <= off[m]
                     /\ \A i \in 1 .. Len(ss[k]) : f[m][off[k - 1] + i] = ss[k][i]}
  <2>7. 0 \in P
    BY <2>1
  <2>8. ASSUME NEW m \in 0 .. n - 1, m \in P PROVE m + 1 \in P
    <3> SUFFICES ASSUME NEW k \in 1 .. m + 1
                 PROVE  /\ off[k] <= off[m + 1]
                        /\ \A i \in 1 .. Len(ss[k]) : f[m + 1][off[k - 1] + i] = ss[k][i]
      BY <2>1, SMTT(30)
    <3>1. m + 1 \in 1 .. n /\ off[m + 1] = off[m] + Len(ss[m + 1])
      BY <2>1, <2>6
    <3>a. ASSUME m # 0
          PROVE  /\ \A i \in 1 .. Len(f[m]) : f[m + 1][i] = f[m][i]
                 /\ \A i \in 1 .. Len(ss[m + 1]) : f[m + 1][Len(f[m]) + i] = ss[m + 1][i]
      <4>1. m + 1 \in 1 .. n /\ m + 1 # 1 /\ (m + 1) - 1 = m
        BY <3>1, <3>a
      <4>2. /\ \A i \in 1 .. Len(f[(m + 1) - 1]) : f[m + 1][i] = f[(m + 1) - 1][i]
            /\ \A i \in 1 .. Len(ss[m + 1]) :
                 f[m + 1][Len(f[(m + 1) - 1]) + i] = ss[m + 1][i]
        BY <4>1, <2>5, Zenon
      <4> QED BY <4>1, <4>2, Zenon
    <3>2. CASE m = 0
      BY <3>1, <3>2, <2>2, <2>3
    <3>3. CASE m # 0 /\ k = m + 1
      <4>0. k - 1 = m /\ m \in 1 .. n
        BY <3>3, <2>1
      <4>1. k - 1 = m /\ off[m] = Len(f[m])
        BY <4>0, <2>3
      <4>2. off[k] <= off[m + 1]
        BY <3>1, <3>3, <2>3
      <4>3. \A i \in 1 .. Len(ss[m + 1]) : f[m + 1][off[m] + i] = ss[m + 1][i]
        BY <3>3, <3>a, <4>1
      <4> QED BY <3>3, <4>1, <4>2, <4>3
    <3>4. CASE m # 0 /\ k # m + 1
      <4>1. k \in 1 .. m /\ k \in 1 .. n /\ m \in 1 .. n /\ k - 1 \in 0 .. n
        BY <3>4, <2>1
      <4>2. off[k] <= off[m] /\ \A i \in 1 .. Len(ss[k]) : f[m][off[k - 1] + i] = ss[k][i]
        BY <4>1, <2>8
      <4>3. off[k] = off[k - 1] + Len(ss[k]) /\ off[m] = Len(f[m]) /\ off[k - 1] \in Nat
        BY <4>1, <2>3, <2>6
      <4>4. \A i \in 1 .. Len(f[m]) : f[m + 1][i] = f[m][i]
        BY <3>4, <3>a
      <4>5. off[k] <= off[m + 1]
        BY <4>1, <4>2, <3>1, <2>3, <2>4
      <4>6. ASSUME NEW i \in 1 .. Len(ss[k]) PROVE f[m + 1][off[k - 1] + i] = ss[k][i]
        <5>1. off[k - 1] + i \in 1 .. Len(f[m])
          BY <4>1, <4>2, <4>3, <2>4, SMTT(30)
        <5> QED BY <5>1, <4>2, <4>4
      <4> QED BY <4>5, <4>6
    <3> QED BY <3>2, <3>3, <3>4
  <2> HIDE DEF P
  <2>9. \A m \in 0 .. n : m \in P
    BY <2>1, <2>7, <2>8, UpTo
  <2>10. n \in P /\ FlattenSeq(ss) \in Seq(S) /\ off[n] = Len(FlattenSeq(ss))
    BY <2>1, <2>2, <2>3, <2>4, <2>9
  <2>11. Laid(ss, off)
    <3>1. ASSUME NEW k \in 1 .. n
          PROVE  /\ off[k] <= off[n]
                 /\ \A i \in 1 .. Len(ss[k]) : FlattenSeq(ss)[off[k - 1] + i] = ss[k][i]
      BY <2>2, <2>10 DEF P
    <3> QED BY <3>1, <2>3, <2>6, <2>10 DEF Laid, n
  <2> QED BY <2>10, <2>11
<1> QED BY <1>1, <1>2

-----------------------------------------------------------------------------
(* Byte stuffing.                                                           *)

Inner == Byte \ {FRAME_DELIM}

\* A stuffed byte is one or two bytes, none of them the delimiter.
LEMMA StuffedByte ==
  ASSUME NEW b \in Byte
  PROVE  Stuffed(b) \in Seq(Inner) /\ Stuffed(b) # <<>>
<1>1. ESCAPE_BYTE \in Inner /\ ESC_DELIM \in Inner /\ ESC_ESCAPE \in Inner
  BY ProtoAssumption DEF Inner
<1>2. CASE b = FRAME_DELIM
  BY <1>1, <1>2 DEF Stuffed
<1>3. CASE b # FRAME_DELIM /\ b = ESCAPE_BYTE
  BY <1>1, <1>3 DEF Stuffed
<1>4. CASE b # FRAME_DELIM /\ b # ESCAPE_BYTE
  <2>1. b \in Inner /\ Stuffed(b) = <<b>>
    BY <1>4 DEF Stuffed, Inner
  <2> QED BY <2>1
<1> QED BY <1>2, <1>3, <1>4

\* No delimiter is left between the two of a frame.
LEMMA StuffType ==
  ASSUME NEW raw \in Seq(Byte)
  PROVE  LET ss == [i \in DOMAIN raw |-> Stuffed(raw[i])]
         IN  /\ stuff(raw) = FlattenSeq(ss) /\ ss \in Seq(Seq(Inner)) /\ Len(ss) = Len(raw)
             /\ \A i \in 1 .. Len(raw) : ss[i] = Stuffed(raw[i])
             /\ stuff(raw) \in Seq(Inner) /\ stuff(raw) \in Seq(Byte)
<1> DEFINE ss == [i \in DOMAIN raw |-> Stuffed(raw[i])]
<1>1. stuff(raw) = FlattenSeq(ss)
  BY DEF stuff, ConcatMap
<1>2. \A i \in 1 .. Len(raw) : ss[i] = Stuffed(raw[i]) /\ Stuffed(raw[i]) \in Seq(Inner)
  BY StuffedByte
<1>3. ss \in Seq(Seq(Inner)) /\ Len(ss) = Len(raw)
  <2>1. DOMAIN raw = 1 .. Len(raw) /\ Len(raw) \in Nat
    OBVIOUS
  <2>2. ss \in [1 .. Len(raw) -> Seq(Inner)]
    BY <2>1, <1>2
  <2> HIDE DEF ss
  <2> QED BY <2>1, <2>2
<1> HIDE DEF ss
<1>4. FlattenSeq(ss) \in Seq(Inner)
  BY <1>3, Flattened
<1>5. Inner \subseteq Byte
  BY DEF Inner
<1>6. FlattenSeq(ss) \in Seq(Byte)
  BY <1>4, <1>5, SeqMonotonic
<1> QED BY <1>1, <1>2, <1>3, <1>4, <1>6 DEF ss

Between(out) == [out |-> out, escaped |-> FALSE, bad |-> FALSE]
DestuffStates == [out : Seq(Byte), escaped : BOOLEAN, bad : BOOLEAN]

\* A step of destuff leads from a state to a state.
LEMMA DestuffType ==
  ASSUME NEW x \in DestuffStates, NEW b \in Byte
  PROVE  DestuffStep(x, b) \in DestuffStates
<1>1. \A y \in Byte : Append(x.out, y) \in Seq(Byte)
  BY DEF DestuffStates
<1>2. FRAME_DELIM \in Byte /\ ESCAPE_BYTE \in Byte
  BY ProtoAssumption
<1> QED BY <1>1, <1>2 DEF DestuffStep, DestuffStates

\* One stuffed byte makes one byte of output.
LEMMA DestuffByte ==
  ASSUME NEW out \in Seq(Byte), NEW b \in Byte
  PROVE  LET x == Between(out)
         IN  IF b \in {FRAME_DELIM, ESCAPE_BYTE}
             THEN Stuffed(b)[1] = ESCAPE_BYTE /\ Len(Stuffed(b)) = 2
                  /\ DestuffStep(DestuffStep(x, ESCAPE_BYTE), Stuffed(b)[2]) = Between(Append(out, b))
             ELSE Stuffed(b)[1] = b /\ Len(Stuffed(b)) = 1
                  /\ DestuffStep(x, b) = Between(Append(out, b))
<1> DEFINE y == [out |-> out, escaped |-> TRUE, bad |-> FALSE]
<1>1. DestuffStep(Between(out), ESCAPE_BYTE) = y
  BY DEF DestuffStep, Between
<1>2. /\ DestuffStep(y, ESC_DELIM) = Between(Append(out, FRAME_DELIM))
      /\ DestuffStep(y, ESC_ESCAPE) = Between(Append(out, ESCAPE_BYTE))
  BY ProtoAssumption DEF DestuffStep, Between
<1> HIDE DEF y
<1>3. CASE b = FRAME_DELIM
  BY <1>1, <1>2, <1>3 DEF Stuffed
<1>4. CASE b # FRAME_DELIM /\ b = ESCAPE_BYTE
  BY <1>1, <1>2, <1>4 DEF Stuffed
<1>5. CASE b # FRAME_DELIM /\ b # ESCAPE_BYTE
  BY <1>5 DEF Stuffed, DestuffStep, Between
<1> QED BY <1>3, <1>4, <1>5

\* destuff runs over its input byte by byte.
LEMMA DestuffSteps ==
  ASSUME NEW s \in Seq(Byte)
  PROVE  \E st : /\ st[0] = Between(<<>>)
                 /\ \A i \in 1 .. Len(s) : st[i] = DestuffStep(st[i - 1], s[i])
                 /\ destuff(s) = IF st[Len(s)].bad \/ st[Len(s)].escaped
                                 THEN Err("InvalidFrame") ELSE Ok(st[Len(s)].out)
<1> DEFINE n == Len(s)
           Step(f) == [i \in 0 .. n |-> IF i = 0
                         THEN [out |-> <<>>, escaped |-> FALSE, bad |-> FALSE]
                         ELSE DestuffStep(f[i - 1], s[i])]
           st == CHOOSE f : f = Step(f)
<1>1. n \in Nat /\ \A i \in 1 .. n : s[i] \in Byte
  OBVIOUS
<1>2. destuff(s) = IF st[n].bad \/ st[n].escaped THEN Err("InvalidFrame") ELSE Ok(st[n].out)
  BY DEF destuff
<1>3. \E f : f = Step(f)
  <2> DEFINE step == [i \in 1 .. n |-> [x \in DestuffStates |-> DestuffStep(x, s[i])]]
             f0 == Between(<<>>)
  <2>1. CanStep(DestuffStates, n, f0, step)
    <3>1. f0 \in DestuffStates
      BY DEF DestuffStates, Between
    <3> HIDE DEF n, f0
    <3>2. ASSUME NEW i \in 1 .. n, NEW x \in DestuffStates
          PROVE  step[i][x] \in DestuffStates
      BY <1>1, DestuffType
    <3> HIDE DEF step
    <3> QED BY <1>1, <3>1, <3>2 DEF CanStep
  <2>2. PICK g : Steps(DestuffStates, n, f0, step, g)
    <3> HIDE DEF n, step, f0
    <3> QED BY <2>1, StepFunction
  <2>3. g \in [0 .. n -> DestuffStates] /\ g[0] = f0
    BY <2>2 DEF Steps
  <2>4. ASSUME NEW i \in 1 .. n PROVE g[i] = DestuffStep(g[i - 1], s[i])
    <3>1. g[i] = step[i][g[i - 1]]
      <4> HIDE DEF n, step
      <4> QED BY <2>2 DEF Steps
    <3>2. g[i - 1] \in DestuffStates
      <4> HIDE DEF n
      <4> QED BY <2>3, <1>1
    <3> HIDE DEF n
    <3> QED BY <3>1, <3>2
  <2> HIDE DEF n
  <2>5. g = Step(g)
    <3>1. \A i \in 0 .. n : g[i] = IF i = 0 THEN [out |-> <<>>, escaped |-> FALSE, bad |-> FALSE]
                                   ELSE DestuffStep(g[i - 1], s[i])
      BY <2>3, <2>4 DEF Between
    <3> QED BY <2>3, <3>1
  <2> QED BY <2>5
<1>4. st = Step(st)
  <2> HIDE DEF Step
  <2> QED BY <1>3
<1> HIDE DEF st
<1>5. st[0] = Between(<<>>) /\ \A i \in 1 .. n : st[i] = DestuffStep(st[i - 1], s[i])
  <2>1. \A i \in 0 .. n : st[i] = IF i = 0 THEN [out |-> <<>>, escaped |-> FALSE, bad |-> FALSE]
                                  ELSE DestuffStep(st[i - 1], s[i])
    BY <1>4, Zenon
  <2>2. 0 \in 0 .. n /\ \A i \in 1 .. n : i \in 0 .. n /\ i # 0
    BY <1>1
  <2> HIDE DEF n
  <2> QED BY <2>1, <2>2, Zenon DEF Between
<1> QED BY <1>2, <1>5

\* The prefix of a sequence, one element longer.
LEMMA PrefixGrows ==
  ASSUME NEW S, NEW s \in Seq(S), NEW k \in 0 .. Len(s) - 1
  PROVE  /\ SubSeq(s, 1, k) \in Seq(S)
         /\ SubSeq(s, 1, k + 1) = Append(SubSeq(s, 1, k), s[k + 1])
<1>1. SubSeq(s, 1, k) \in Seq(S) /\ Len(SubSeq(s, 1, k)) = k
  OBVIOUS
<1>2. SubSeq(s, 1, k + 1) \in Seq(S) /\ Len(SubSeq(s, 1, k + 1)) = k + 1
  OBVIOUS
<1>3. s[k + 1] \in S
  OBVIOUS
<1>4. /\ Append(SubSeq(s, 1, k), s[k + 1]) \in Seq(S)
      /\ Len(Append(SubSeq(s, 1, k), s[k + 1])) = k + 1
  BY <1>1, <1>3
<1>5. \A i \in 1 .. k + 1 : SubSeq(s, 1, k + 1)[i] = Append(SubSeq(s, 1, k), s[k + 1])[i]
  OBVIOUS
<1> QED BY <1>1, <1>2, <1>4, <1>5, SeqEqual

\* What was stuffed is taken apart again.
LEMMA DestuffStuff ==
  ASSUME NEW raw \in Seq(Byte)
  PROVE  destuff(stuff(raw)) = Ok(raw)
<1> DEFINE ss == [i \in DOMAIN raw |-> Stuffed(raw[i])]
           s == stuff(raw)
           n == Len(raw)
<1>1. /\ s = FlattenSeq(ss) /\ ss \in Seq(Seq(Inner)) /\ Len(ss) = n
      /\ \A i \in 1 .. n : ss[i] = Stuffed(raw[i])
      /\ s \in Seq(Byte)
  BY StuffType
<1> HIDE DEF ss, s
<1>2. PICK off : Laid(ss, off)
  BY <1>1, Flattened
<1>3. PICK st : /\ st[0] = Between(<<>>)
                /\ \A i \in 1 .. Len(s) : st[i] = DestuffStep(st[i - 1], s[i])
                /\ destuff(s) = IF st[Len(s)].bad \/ st[Len(s)].escaped
                                THEN Err("InvalidFrame") ELSE Ok(st[Len(s)].out)
  BY <1>1, DestuffSteps
<1>4. /\ off \in [0 .. n -> Nat] /\ off[0] = 0 /\ off[n] = Len(s)
      /\ \A k \in 1 .. n :
           /\ off[k] = off[k - 1] + Len(ss[k]) /\ off[k] <= Len(s)
           /\ \A i \in 1 .. Len(ss[k]) : s[off[k - 1] + i] = ss[k][i]
  BY <1>1, <1>2 DEF Laid
<1> DEFINE P == {k \in 0 .. n : st[off[k]] = Between(SubSeq(raw, 1, k))}
<1>5. n \in Nat /\ SubSeq(raw, 1, 0) = <<>> /\ SubSeq(raw, 1, n) = raw
  OBVIOUS
<1>6. 0 \in P
  <2>1. st[off[0]] = Between(SubSeq(raw, 1, 0))
    BY <1>3, <1>4, <1>5, Zenon
  <2>2. 0 \in 0 .. n
    BY <1>5
  <2> QED BY <2>1, <2>2
<1>7. ASSUME NEW k \in 0 .. n - 1, k \in P PROVE k + 1 \in P
  <2> DEFINE b == raw[k + 1]
             o == off[k]
             out == SubSeq(raw, 1, k)
             w == Stuffed(b)
  <2>1. k + 1 \in 1 .. n /\ (k + 1) - 1 = k /\ k \in 0 .. n
    BY <1>5
  <2>2. ss[k + 1] = w /\ o \in Nat
    BY <2>1, <1>1, <1>4
  <2>3. /\ off[k + 1] = o + Len(w) /\ off[k + 1] <= Len(s)
        /\ \A i \in 1 .. Len(w) : s[o + i] = w[i]
    BY <2>1, <2>2, <1>4
  <2>4. b \in Byte /\ out \in Seq(Byte) /\ SubSeq(raw, 1, k + 1) = Append(out, b)
    BY <2>1, PrefixGrows
  <2>5. st[o] = Between(out)
    BY <1>7
  <2>s. Len(s) \in Nat
    BY <1>1
  <2> HIDE DEF P, o, out, w, n
  <2>6. st[off[k + 1]] = Between(Append(out, b))
    <3>1. CASE b \in {FRAME_DELIM, ESCAPE_BYTE}
      <4>1. /\ w[1] = ESCAPE_BYTE /\ Len(w) = 2
            /\ DestuffStep(DestuffStep(Between(out), ESCAPE_BYTE), w[2]) = Between(Append(out, b))
        BY <2>4, <3>1, DestuffByte DEF w
      <4>2. s[o + 1] = ESCAPE_BYTE /\ s[o + 2] = w[2] /\ off[k + 1] = o + 2
        BY <2>3, <4>1
      <4>3. /\ o + 1 \in 1 .. Len(s) /\ o + 2 \in 1 .. Len(s)
            /\ (o + 1) - 1 = o /\ (o + 2) - 1 = o + 1
        BY <2>2, <2>3, <2>s, <4>2
      <4>4. st[o + 1] = DestuffStep(st[o], s[o + 1])
        BY <4>3, <1>3
      <4>5. st[o + 2] = DestuffStep(st[o + 1], s[o + 2])
        BY <4>3, <1>3
      <4> QED BY <4>1, <4>2, <4>4, <4>5, <2>5
    <3>2. CASE b \notin {FRAME_DELIM, ESCAPE_BYTE}
      <4>1. /\ w[1] = b /\ Len(w) = 1
            /\ DestuffStep(Between(out), b) = Between(Append(out, b))
        BY <2>4, <3>2, DestuffByte DEF w
      <4>2. s[o + 1] = b /\ off[k + 1] = o + 1
        BY <2>3, <4>1
      <4>3. o + 1 \in 1 .. Len(s) /\ (o + 1) - 1 = o
        BY <2>2, <2>3, <2>s, <4>2
      <4>4. st[o + 1] = DestuffStep(st[o], s[o + 1])
        BY <4>3, <1>3
      <4> QED BY <4>1, <4>2, <4>4, <2>5
    <3> QED BY <3>1, <3>2
  <2>7. k + 1 \in 0 .. n
    BY <2>1
  <2> QED BY <2>4, <2>6, <2>7 DEF P
<1> HIDE DEF P, n
<1>8. \A k \in 0 .. n : k \in P
  BY <1>5, <1>6, <1>7, UpTo
<1>9. st[Len(s)] = Between(raw)
  <2>1. n \in P
    BY <1>5, <1>8
  <2> QED BY <2>1, <1>4, <1>5 DEF P
<1> QED BY <1>3, <1>9 DEF Between, s

-----------------------------------------------------------------------------
(* The checksum.                                                            *)

\* A checksum has 16 bits.
LEMMA CrcType ==
  ASSUME NEW s \in Seq(Byte)
  PROVE  crc16(s) \in 0 .. Word - 1
<1> DEFINE n == Len(s)
           W == 0 .. Word - 1
           Sum(f) == [i \in 0 .. n |-> IF i = 0 THEN 0 ELSE CrcTable[XorTable[f[i - 1]][s[i]]]]
           crc == CHOOSE f : f = Sum(f)
           step == [i \in 1 .. n |-> [x \in W |-> CrcTable[XorTable[x][s[i]]]]]
<1>1. n \in Nat /\ (\A i \in 1 .. n : s[i] \in Byte) /\ 0 \in W
  BY WordFacts
<1>2. crc16(s) = crc[n]
  BY DEF crc16
<1>3. \A i \in 1 .. n : \A x \in W : CrcTable[XorTable[x][s[i]]] \in W
  <2> HIDE DEF n
  <2> QED BY <1>1, CrcAssumption
<1>4. \E f : f = Sum(f)
  <2>1. CanStep(W, n, 0, step)
    <3> HIDE DEF n, W
    <3>1. \A i \in 1 .. n : \A x \in W : step[i][x] = CrcTable[XorTable[x][s[i]]]
      OBVIOUS
    <3> HIDE DEF step
    <3> QED BY <1>1, <1>3, <3>1 DEF CanStep
  <2>2. PICK g : Steps(W, n, 0, step, g)
    <3> HIDE DEF n, step, W
    <3> QED BY <2>1, StepFunction
  <2>3. g \in [0 .. n -> W] /\ g[0] = 0
    BY <2>2 DEF Steps
  <2>4. ASSUME NEW i \in 1 .. n PROVE g[i] = CrcTable[XorTable[g[i - 1]][s[i]]]
    <3>1. g[i] = step[i][g[i - 1]]
      <4> HIDE DEF n, step, W
      <4> QED BY <2>2 DEF Steps
    <3>2. g[i - 1] \in W
      <4> HIDE DEF n, W
      <4> QED BY <2>3, <1>1
    <3> HIDE DEF n, W
    <3> QED BY <3>1, <3>2
  <2> HIDE DEF n, W
  <2>5. g = Sum(g)
    <3>1. \A i \in 0 .. n : g[i] = IF i = 0 THEN 0 ELSE CrcTable[XorTable[g[i - 1]][s[i]]]
      BY <2>3, <2>4
    <3> QED BY <2>3, <3>1
  <2> QED BY <2>5
<1>5. crc = Sum(crc)
  <2> HIDE DEF Sum
  <2> QED BY <1>4
<1> HIDE DEF crc
<1>6. /\ \A i \in 1 .. n : crc[i] = CrcTable[XorTable[crc[i - 1]][s[i]]]
      /\ crc[0] = 0
  <2>1. \A i \in 0 .. n : crc[i] = IF i = 0 THEN 0 ELSE CrcTable[XorTable[crc[i - 1]][s[i]]]
    BY <1>5, Zenon
  <2>2. 0 \in 0 .. n /\ \A i \in 1 .. n : i \in 0 .. n /\ i # 0
    BY <1>1
  <2> HIDE DEF n
  <2> QED BY <2>1, <2>2, Zenon
<1> DEFINE P == {k \in 0 .. n : crc[k] \in W}
<1> HIDE DEF n, W
<1>7. 0 \in P
  BY <1>1, <1>6
<1>8. ASSUME NEW k \in 0 .. n - 1, k \in P PROVE k + 1 \in P
  <2>1. k + 1 \in 1 .. n /\ (k + 1) - 1 = k
    BY <1>1
  <2>2. crc[k + 1] = CrcTable[XorTable[crc[k]][s[k + 1]]]
    BY <2>1, <1>6
  <2>3. crc[k + 1] \in W
    BY <2>1, <2>2, <1>3, <1>8
  <2> QED BY <2>1, <2>3, <1>1
<1> HIDE DEF P
<1>9. n \in P
  <2>1. \A k \in 0 .. n : k \in P
    BY <1>1, <1>7, <1>8, UpTo
  <2> QED BY <2>1, <1>1
<1> QED BY <1>2, <1>9 DEF P, W

-----------------------------------------------------------------------------
(* Fields of a buffer.                                                      *)

\* The sequence w lies in raw at offset o.
At(raw, o, w) ==
  /\ o \in Nat /\ o + Len(w) <= Len(raw)
  /\ \A i \in 1 .. Len(w) : raw[o + i] = w[i]

\* The first part of a concatenation is at offset 0,
LEMMA AtStart ==
  ASSUME NEW S, NEW w \in Seq(S), NEW q \in Seq(S)
  PROVE  At(w \o q, 0, w)
<1>1. Len(w \o q) = Len(w) + Len(q) /\ \A i \in 1 .. Len(w) : (w \o q)[i] = w[i]
  BY Joined
<1>2. \A i \in 1 .. Len(w) : 0 + i = i
  OBVIOUS
<1> QED BY <1>1, <1>2 DEF At

\* and the second one where the first one ends.
LEMMA AtEnd ==
  ASSUME NEW S, NEW p \in Seq(S), NEW w \in Seq(S)
  PROVE  At(p \o w, Len(p), w)
<1>1. Len(p \o w) = Len(p) + Len(w) /\ \A i \in 1 .. Len(w) : (p \o w)[Len(p) + i] = w[i]
  BY Joined
<1> QED BY <1>1 DEF At

\* What follows does not move it; nor does looking at it as a part.
LEMMA AtKept ==
  ASSUME NEW S, NEW raw \in Seq(S), NEW q \in Seq(S), NEW w \in Seq(S), NEW o, At(raw, o, w)
  PROVE  At(raw \o q, o, w)
<1>1. Len(raw \o q) = Len(raw) + Len(q) /\ \A i \in 1 .. Len(raw) : (raw \o q)[i] = raw[i]
  BY Joined
<1>2. o \in Nat /\ o + Len(w) <= Len(raw) /\ \A i \in 1 .. Len(w) : raw[o + i] = w[i]
  BY DEF At
<1>3. \A i \in 1 .. Len(w) : (raw \o q)[o + i] = w[i]
  <2>1. ASSUME NEW i \in 1 .. Len(w) PROVE (raw \o q)[o + i] = w[i]
    <3>1. o + i \in 1 .. Len(raw)
      BY <1>2
    <3> QED BY <3>1, <1>1, <1>2, Zenon
  <2> QED BY <2>1
<1>4. o + Len(w) <= Len(raw \o q)
  BY <1>1, <1>2
<1> QED BY <1>2, <1>3, <1>4 DEF At

\* What lies in a part lies in the whole.
LEMMA AtInside ==
  ASSUME NEW S, NEW raw \in Seq(S), NEW w \in Seq(S), NEW x \in Seq(S),
         NEW o, At(raw, o, w), NEW j, At(w, j, x)
  PROVE  At(raw, o + j, x)
<1>1. o \in Nat /\ o + Len(w) <= Len(raw) /\ \A i \in 1 .. Len(w) : raw[o + i] = w[i]
  BY DEF At
<1>2. j \in Nat /\ j + Len(x) <= Len(w) /\ \A i \in 1 .. Len(x) : w[j + i] = x[i]
  BY DEF At
<1>3. ASSUME NEW i \in 1 .. Len(x) PROVE raw[(o + j) + i] = x[i]
  <2>1. j + i \in 1 .. Len(w) /\ (o + j) + i = o + (j + i)
    BY <1>1, <1>2
  <2> QED BY <2>1, <1>1, <1>2, Zenon
<1>4. o + j \in Nat /\ (o + j) + Len(x) <= Len(raw)
  BY <1>1, <1>2
<1> QED BY <1>3, <1>4 DEF At

\* Slice takes out what lies there.
LEMMA AtSlice ==
  ASSUME NEW S, NEW raw \in Seq(S), NEW w \in Seq(S), NEW o, At(raw, o, w)
  PROVE  Slice(raw, o, o + Len(w)) = w
<1>1. o \in Nat /\ o + Len(w) <= Len(raw) /\ \A i \in 1 .. Len(w) : raw[o + i] = w[i]
  BY DEF At
<1> DEFINE part == SubSeq(raw, o + 1, o + Len(w))
<1>2. part \in Seq(S) /\ Len(part) = Len(w)
  BY <1>1
<1>3. \A i \in 1 .. Len(w) : part[i] = raw[o + i]
  BY <1>1
<1> HIDE DEF part
<1>4. part = w
  BY <1>1, <1>2, <1>3, SeqEqual
<1> QED BY <1>4 DEF Slice, part

\* A buffer without its first o bytes.
LEMMA AtRest ==
  ASSUME NEW S, NEW raw \in Seq(S), NEW w \in Seq(S), NEW o, At(raw, o, w)
  PROVE  /\ Rest(raw, o) \in Seq(S) /\ Len(Rest(raw, o)) = Len(raw) - o
         /\ At(Rest(raw, o), 0, w)
<1>1. o \in Nat /\ o + Len(w) <= Len(raw) /\ \A i \in 1 .. Len(w) : raw[o + i] = w[i]
  BY DEF At
<1> DEFINE part == SubSeq(raw, o + 1, Len(raw))
<1>2. part \in Seq(S) /\ Len(part) = Len(raw) - o
  BY <1>1
<1>3. \A i \in 1 .. Len(w) : part[i] = raw[o + i]
  BY <1>1
<1>4. part = Rest(raw, o)
  BY DEF Rest, Slice
<1> HIDE DEF part
<1>5. At(part, 0, w)
  <2>1. \A i \in 1 .. Len(w) : part[0 + i] = w[i]
    BY <1>1, <1>3
  <2>2. 0 + Len(w) <= Len(part)
    BY <1>1, <1>2
  <2> QED BY <2>1, <2>2 DEF At
<1> QED BY <1>2, <1>4, <1>5

\* A number is read where it was written.
LEMMA At16 ==
  ASSUME NEW raw, NEW o, NEW v \in 0 .. Word - 1, At(raw, o, write_be16(v))
  PROVE  read_be16(raw, o) = v
<1> DEFINE w == write_be16(v)
<1>0. v \in Nat /\ v < Word
  BY WordFacts
<1>1. w \in Seq(Byte) /\ Len(w) = 2 /\ w[1] * Base + w[2] = v
  BY <1>0, WriteBe16
<1> HIDE DEF w
<1>2. 1 \in 1 .. Len(w) /\ 2 \in 1 .. Len(w)
  BY <1>1
<1>3. raw[o + 1] = w[1] /\ raw[o + 2] = w[2]
  BY <1>2 DEF At, w
<1> QED BY <1>1, <1>3, Zenon DEF read_be16

\* The same for 32 bits.
LEMMA At32 ==
  ASSUME NEW raw, NEW o, NEW v \in 0 .. Word * Word - 1, At(raw, o, write_be32(v))
  PROVE  read_be32(raw, o) = v
<1> DEFINE w == write_be32(v)
<1>0. v \in Nat /\ v < Word * Word
  BY WordFacts
<1>1. /\ w \in Seq(Byte) /\ Len(w) = 4
      /\ (w[1] * Base + w[2]) * Word + (w[3] * Base + w[4]) = v
  BY <1>0, WriteBe32
<1> HIDE DEF w
<1>2. 1 \in 1 .. Len(w) /\ 2 \in 1 .. Len(w) /\ 3 \in 1 .. Len(w) /\ 4 \in 1 .. Len(w)
  BY <1>1
<1>3. raw[o + 1] = w[1] /\ raw[o + 2] = w[2] /\ raw[o + 3] = w[3] /\ raw[o + 4] = w[4]
  BY <1>2 DEF At, w
<1>4. o \in Nat
  BY DEF At
<1>5. o + 2 + 1 = o + 3 /\ o + 2 + 2 = o + 4
  BY <1>4
<1>6. read_be32(raw, o) = (raw[o + 1] * Base + raw[o + 2]) * Word
                          + (raw[o + 3] * Base + raw[o + 4])
  BY <1>5, Zenon DEF read_be32, read_be16
<1> QED BY <1>1, <1>3, <1>6, Zenon

\* Four bytes never read as more than 32 bits.
LEMMA ReadBe32Range ==
  ASSUME NEW buf \in Seq(Byte), NEW i \in Nat, i + 4 <= Len(buf)
  PROVE  read_be32(buf, i) \in 0 .. Word * Word - 1
<1> DEFINE h == read_be16(buf, i)
           l == read_be16(buf, i + 2)
<1>1. h \in 0 .. Word - 1 /\ l \in 0 .. Word - 1 /\ Word \in Nat
  <2>1. read_be16(buf, i) \in 0 .. Word - 1
    BY ReadBe16Range
  <2>2. read_be16(buf, i + 2) \in 0 .. Word - 1
    BY ReadBe16Range
  <2> QED BY <2>1, <2>2, WordFacts
<1>2. read_be32(buf, i) = h * Word + l
  BY DEF read_be32
<1> HIDE DEF h, l
<1>3. h * Word + l \in Nat /\ h * Word + l < Word * Word
  BY <1>1, BelowSquare
<1> QED BY <1>2, <1>3, WordFacts

-----------------------------------------------------------------------------
(* Frames in a stream.                                                      *)

\* The sequence s is how f begins.
Begins(s, f) ==
  /\ s \in Seq(Byte) /\ Len(s) <= Len(f)
  /\ \A i \in 1 .. Len(s) : s[i] = f[i]

Framed(f) ==
  /\ f \in Seq(Byte) /\ Len(f) >= 2
  /\ f[1] = FRAME_DELIM /\ f[Len(f)] = FRAME_DELIM
  /\ \A i \in 2 .. Len(f) - 1 : f[i] # FRAME_DELIM

\* Whatever is framed has the delimiter at both ends and nowhere else.
LEMMA FrameIsFramed ==
  ASSUME NEW raw \in Seq(Byte)
  PROVE  Framed(frame(raw)) /\ Slice(frame(raw), 1, Len(frame(raw)) - 1) = stuff(raw)
<1> DEFINE d == <<FRAME_DELIM>>
           s == stuff(raw)
           h == d \o s
           f == frame(raw)
<1>1. s \in Seq(Byte) /\ s \in Seq(Inner)
  BY StuffType
<1>2. f = h \o d
  BY DEF frame
<1>3. d \in Seq(Byte) /\ Len(d) = 1 /\ d[1] = FRAME_DELIM
  BY ProtoAssumption
<1> HIDE DEF d, s, f
<1>4. h \in Seq(Byte) /\ Len(h) = 1 + Len(s)
  BY <1>1, <1>3, JoinedLen
<1>5. At(h, 0, d) /\ At(h, 1, s)
  BY <1>1, <1>3, AtStart, AtEnd
<1> HIDE DEF h
<1>6. h \o d \in Seq(Byte) /\ Len(h \o d) = Len(h) + 1
  <2>1. h \o d \in Seq(Byte) /\ Len(h \o d) = Len(h) + Len(d)
    BY <1>3, <1>4, JoinedLen, Zenon
  <2> QED BY <2>1, <1>3
<1>7. f \in Seq(Byte) /\ Len(f) = 2 + Len(s)
  BY <1>2, <1>4, <1>6, <1>1
<1>8. At(h \o d, 0, d) /\ At(h \o d, 1, s) /\ At(h \o d, Len(h), d)
  BY <1>1, <1>3, <1>4, <1>5, AtKept, AtEnd
<1>9. At(f, 0, d) /\ At(f, 1, s) /\ At(f, 1 + Len(s), d)
  BY <1>2, <1>4, <1>8
<1>10. f[0 + 1] = FRAME_DELIM /\ f[1 + Len(s) + 1] = FRAME_DELIM
  BY <1>3, <1>9 DEF At
<1>11. ASSUME NEW i \in 2 .. Len(f) - 1 PROVE f[i] # FRAME_DELIM
  <2>1. i - 1 \in 1 .. Len(s) /\ 1 + (i - 1) = i
    BY <1>1, <1>7
  <2>2. \A j \in 1 .. Len(s) : f[1 + j] = s[j]
    BY <1>9 DEF At
  <2>3. f[i] = s[i - 1]
    BY <2>1, <2>2
  <2>4. s[i - 1] \in Inner
    BY <2>1, <1>1
  <2> QED BY <2>3, <2>4 DEF Inner
<1>12. Slice(f, 1, 1 + Len(s)) = s
  BY <1>1, <1>7, <1>9, AtSlice
<1>13. Len(s) \in Nat
  BY <1>1
<1>14. Framed(f) /\ Slice(f, 1, Len(f) - 1) = s
  <2>1. 1 + Len(s) + 1 = Len(f) /\ Len(f) - 1 = 1 + Len(s) /\ Len(f) >= 2
    BY <1>7, <1>13
  <2> QED BY <2>1, <1>7, <1>10, <1>11, <1>12 DEF Framed
<1> QED BY <1>14 DEF f, s

\* Of what begins a frame, only the whole is taken for one.
LEMMA FrameFound ==
  ASSUME NEW f, Framed(f), NEW rx, Begins(rx, f), find_frame(rx).ok
  PROVE  rx = f /\ find_frame(rx).val = f
<1> DEFINE D == {i \in DOMAIN rx : rx[i] = FRAME_DELIM}
           start == CHOOSE i \in D : \A j \in D : i <= j
           close == CHOOSE i \in D \ {start} : \A j \in D \ {start} : i <= j
           n == Len(f)
<1>1. /\ f \in Seq(Byte) /\ n \in Nat /\ n >= 2 /\ f[1] = FRAME_DELIM /\ f[n] = FRAME_DELIM
      /\ \A i \in 2 .. n - 1 : f[i] # FRAME_DELIM
  BY DEF Framed
<1>2. /\ rx \in Seq(Byte) /\ Len(rx) \in Nat /\ Len(rx) <= n /\ DOMAIN rx = 1 .. Len(rx)
      /\ \A i \in 1 .. Len(rx) : rx[i] = f[i]
  BY DEF Begins
<1>3. /\ \E i, j \in D : i # j
      /\ find_frame(rx).val = SubSeq(rx, start, close)
  BY DEF find_frame, Ok, Err
<1>4. D \subseteq {1, n}
  BY <1>1, <1>2
<1>5. n \in D /\ 1 \in D
  <2> HIDE DEF D
  <2> QED BY <1>3, <1>4
<1>6. Len(rx) = n
  BY <1>5, <1>2, <1>1
<1>7. rx = f
  BY <1>1, <1>2, <1>6, SeqEqual
<1>8. D = {1, n}
  <2> HIDE DEF D
  <2> QED BY <1>4, <1>5
<1>9. start = 1
  <2> HIDE DEF D
  <2> QED BY <1>8, <1>1
<1>10. close = n
  <2> HIDE DEF D, start
  <2> QED BY <1>8, <1>9, <1>1
<1>11. SubSeq(f, 1, n) = f
  BY <1>1
<1> QED BY <1>3, <1>7, <1>9, <1>10, <1>11

-----------------------------------------------------------------------------
(* Packets.                                                                 *)

\* The data of a packet arrive, unless they do not fit a 32-bit length; so
\* does the status of a response, which is a packet with one byte of data.
LEMMA PacketDecoded ==
  ASSUME NEW id \in Nat, NEW data \in Seq(Byte)
  PROVE  LET f == encode_packet(Packet(id, data))
             r == decode_packet(f)
         IN  /\ Framed(f)
             /\ r.ok => r.val.data = data
             /\ MIN_PAYLOAD + Len(data) < Word * Word =>
                  r.ok /\ (Len(data) = 1 => decode_response(f).val.status = data[1])
<1> DEFINE L == HEADER_SIZE + Len(data) + CRC_SIZE
           a == write_be32(L)
           b == write_be16(id)
           c == write_be16(1)
           e == write_be16(0)
           ab == a \o b
           abc == ab \o c
           head == abc \o e
           body == head \o data
           sum == crc16(body)
           w == write_be16(sum)
           raw == body \o w
           f == encode_packet(Packet(id, data))
<1>1. f = frame(raw)
  BY DEF encode_packet, Packet, LengthField, build_request_payload
<1>2. Len(data) \in Nat /\ L \in Nat /\ L = 12 + Len(data) /\ HEADER_SIZE = 10 /\ CRC_SIZE = 2
  BY DEF HEADER_SIZE, CRC_SIZE
<1>3. /\ a \in Seq(Byte) /\ Len(a) = 4 /\ b \in Seq(Byte) /\ Len(b) = 2
      /\ c \in Seq(Byte) /\ Len(c) = 2 /\ e \in Seq(Byte) /\ Len(e) = 2
  BY <1>2, WriteBe16, WriteBe32
<1> HIDE DEF L, a, b, c, e, f
<1>4. ab \in Seq(Byte) /\ Len(ab) = 6 /\ At(ab, 0, a)
  <2>1. ab \in Seq(Byte) /\ Len(ab) = 6
    <3>1. ab \in Seq(Byte) /\ Len(ab) = Len(a) + Len(b)
      BY <1>3, JoinedLen, Zenon
    <3> QED BY <3>1, <1>3
  <2>2. At(ab, 0, a)
    BY <1>3, AtStart
  <2> QED BY <2>1, <2>2
<1> HIDE DEF ab
<1>5. abc \in Seq(Byte) /\ Len(abc) = 8 /\ At(abc, 0, a)
  <2>1. abc \in Seq(Byte) /\ Len(abc) = 8
    <3>1. abc \in Seq(Byte) /\ Len(abc) = Len(ab) + Len(c)
      BY <1>3, <1>4, JoinedLen, Zenon
    <3> QED BY <3>1, <1>3, <1>4
  <2>2. At(abc, 0, a)
    BY <1>3, <1>4, AtKept
  <2> QED BY <2>1, <2>2
<1> HIDE DEF abc
<1>6. head \in Seq(Byte) /\ Len(head) = 10 /\ At(head, 0, a)
  <2>1. head \in Seq(Byte) /\ Len(head) = 10
    <3>1. head \in Seq(Byte) /\ Len(head) = Len(abc) + Len(e)
      BY <1>3, <1>5, JoinedLen, Zenon
    <3> QED BY <3>1, <1>3, <1>5
  <2>2. At(head, 0, a)
    BY <1>3, <1>5, AtKept
  <2> QED BY <2>1, <2>2
<1> HIDE DEF head
<1>7. body \in Seq(Byte) /\ Len(body) = 10 + Len(data) /\ At(body, 0, a) /\ At(body, 10, data)
  <2>1. At(body, Len(head), data)
    BY <1>6, AtEnd
  <2>2. At(body, 0, a)
    BY <1>3, <1>6, AtKept
  <2>3. body \in Seq(Byte) /\ Len(body) = 10 + Len(data)
    BY <1>6, JoinedLen
  <2> QED BY <2>1, <2>2, <2>3, <1>6
<1> HIDE DEF body
<1>8. sum \in 0 .. Word - 1 /\ sum \in Nat
  BY <1>7, CrcType, WordFacts
<1> HIDE DEF sum
<1>9. w \in Seq(Byte) /\ Len(w) = 2
  BY <1>8, WriteBe16
<1>10. /\ raw \in Seq(Byte) /\ Len(raw) = L
       /\ At(raw, 0, a) /\ At(raw, 10, data) /\ At(raw, 0, body) /\ At(raw, L - 2, w)
  <2> HIDE DEF w
  <2>1. raw \in Seq(Byte) /\ Len(raw) = Len(body) + 2
    <3>1. raw \in Seq(Byte) /\ Len(raw) = Len(body) + Len(w)
      BY <1>7, <1>9, JoinedLen, Zenon
    <3> QED BY <3>1, <1>9
  <2>2. At(raw, 0, a) /\ At(raw, 10, data)
    BY <1>3, <1>7, <1>9, AtKept
  <2>3. At(raw, 0, body) /\ At(raw, Len(body), w)
    BY <1>7, <1>9, AtStart, AtEnd
  <2>4. Len(body) = L - 2
    BY <1>2, <1>7
  <2> QED BY <2>1, <2>2, <2>3, <2>4, <1>2
<1>11. read_be16(raw, L - 2) = sum
  <2> HIDE DEF raw
  <2> QED BY <1>8, <1>10, At16
<1> HIDE DEF w, raw
<1>12. Slice(raw, 0, L - 2) = body /\ Slice(raw, 10, L - 2) = data
  <2>1. Slice(raw, 0, 0 + Len(body)) = body /\ Slice(raw, 10, 10 + Len(data)) = data
    BY <1>7, <1>10, AtSlice
  <2>2. 0 + Len(body) = L - 2 /\ 10 + Len(data) = L - 2
    BY <1>2, <1>7
  <2> QED BY <2>1, <2>2
<1>13. read_be32(raw, 0) \in 0 .. Word * Word - 1 /\ (L < Word * Word => read_be32(raw, 0) = L)
  <2>1. read_be32(raw, 0) \in 0 .. Word * Word - 1
    <3>1. 0 + 4 <= Len(raw)
      BY <1>2, <1>10
    <3> QED BY <3>1, <1>10, ReadBe32Range
  <2>2. ASSUME L < Word * Word PROVE read_be32(raw, 0) = L
    <3>1. L \in 0 .. Word * Word - 1
      BY <2>2, <1>2, WordFacts
    <3> QED BY <3>1, <1>10, At32 DEF a
  <2> QED BY <2>1, <2>2
<1>14. Framed(f) /\ Slice(f, 1, Len(f) - 1) = stuff(raw) /\ destuff(stuff(raw)) = Ok(raw)
  BY <1>1, <1>10, FrameIsFramed, DestuffStuff
<1>15. extract_payload(f) = IF read_be32(raw, 0) # L THEN Err("BadLength") ELSE Ok(raw)
  <2>1. Len(f) >= 2 /\ Head(f) = FRAME_DELIM /\ Last(f) = FRAME_DELIM
    BY <1>14 DEF Framed, Last
  <2>2. Len(raw) = L /\ MIN_PAYLOAD = 12 /\ CRC_SIZE = 2 /\ ~(L < 12) /\ ~(Len(f) < 2)
    BY <1>2, <1>10, <1>14, <2>1 DEF MIN_PAYLOAD, Framed
  <2>3. read_be16(raw, Len(raw) - CRC_SIZE) = crc16(Slice(raw, 0, Len(raw) - CRC_SIZE))
    BY <2>2, <1>11, <1>12 DEF sum
  <2>4. AndThen(destuff(stuff(raw)), LAMBDA x :
             CASE Len(x) < MIN_PAYLOAD -> Err("BadLength")
               [] read_be16(x, Len(x) - CRC_SIZE)
                    # crc16(Slice(x, 0, Len(x) - CRC_SIZE)) -> Err("CrcMismatch")
               [] read_be32(x, 0) # Len(x) -> Err("BadLength")
               [] OTHER -> Ok(x))
        = IF read_be32(raw, 0) # L THEN Err("BadLength") ELSE Ok(raw)
    BY <2>2, <2>3, <1>14 DEF AndThen, Ok
  <2> QED BY <2>1, <2>2, <2>4, <1>14, Zenon DEF extract_payload
<1>16. decode_packet(f) = IF read_be32(raw, 0) # L THEN Err("BadLength") ELSE Ok(PacketOf(raw))
  <2>1. CASE read_be32(raw, 0) # L
    BY <1>15, <2>1 DEF decode_packet, AndThen, Err
  <2>2. CASE read_be32(raw, 0) = L
    BY <1>15, <2>2 DEF decode_packet, AndThen, Ok
  <2> QED BY <2>1, <2>2
<1>17. PacketOf(raw).data = data
  BY <1>2, <1>10, <1>12 DEF PacketOf
<1>18. MIN_PAYLOAD + Len(data) = L
  BY <1>2 DEF MIN_PAYLOAD
<1>19. /\ decode_packet(f).ok => decode_packet(f).val.data = data
       /\ MIN_PAYLOAD + Len(data) < Word * Word => decode_packet(f).ok
  BY <1>13, <1>16, <1>17, <1>18 DEF Ok, Err
<1>20. ASSUME L < Word * Word, Len(data) = 1 PROVE decode_response(f).val.status = data[1]
  <2>1. extract_payload(f) = Ok(raw)
    BY <1>13, <1>15, <1>20
  <2>2. Len(raw) - MIN_PAYLOAD = 1
    BY <1>2, <1>10, <1>20 DEF MIN_PAYLOAD
  <2> DEFINE pkt == PacketOf(raw)
             rsp == [length |-> pkt.length, pkt_num |-> pkt.pkt_num, ctrl |-> pkt.ctrl,
                     total_pkts |-> pkt.total_pkts, status |-> pkt.data[1]]
  <2>3. decode_response(f) = Ok(rsp)
    BY <2>1, <2>2 DEF decode_response, AndThen, Ok
  <2>4. rsp.status = data[1]
    BY <1>17
  <2> HIDE DEF rsp
  <2> QED BY <2>3, <2>4 DEF Ok
<1> QED BY <1>14, <1>18, <1>19, <1>20 DEF f

-----------------------------------------------------------------------------
(* Messages and exchange blocks.                                            *)

\* decode_message gives back the payload of what encode_message made, but
\* for messages whose length does not fit into its field.
LEMMA MessageDecoded ==
  ASSUME NEW type \in MsgTypes, NEW id \in Nat, NEW p \in Seq(Byte)
  PROVE  LET raw == encode_message(make_message(type, id, p))
         IN  /\ raw \in Seq(Byte) /\ Len(raw) = MSG_HEADER_SIZE + Len(p)
             /\ decode_message(raw).ok /\ decode_message(raw).val.payload = p
<1> DEFINE t == <<type, FLAG_NONE>>
           w == write_be16(id)
           head == t \o w
           raw == encode_message(make_message(type, id, p))
<1>1. raw = head \o p
  BY DEF encode_message, make_message
<1>2. t \in Seq(Byte) /\ Len(t) = 2 /\ t[1] = type
  <2>1. type \in Byte /\ FLAG_NONE \in Byte
    BY MessageAssumption, WordFacts DEF FLAG_NONE
  <2> QED BY <2>1
<1>3. w \in Seq(Byte) /\ Len(w) = 2
  BY WriteBe16
<1> HIDE DEF t, w, raw
<1>4. head \in Seq(Byte) /\ Len(head) = 4
  <2>1. head \in Seq(Byte) /\ Len(head) = Len(t) + Len(w)
    BY <1>2, <1>3, JoinedLen, Zenon
  <2> QED BY <2>1, <1>2, <1>3
<1>5. At(head, 0, t)
  BY <1>2, <1>3, AtStart
<1> HIDE DEF head
<1>6. raw \in Seq(Byte) /\ Len(raw) = 4 + Len(p)
  <2>1. head \o p \in Seq(Byte) /\ Len(head \o p) = Len(head) + Len(p)
    BY <1>4, JoinedLen, Zenon
  <2> QED BY <2>1, <1>1, <1>4, Zenon
<1>7. At(raw, 0, t)
  <2>1. At(head \o p, 0, t)
    BY <1>2, <1>4, <1>5, AtKept, Zenon
  <2> QED BY <2>1, <1>1
<1>8. At(raw, 4, p)
  <2>1. At(head \o p, Len(head), p)
    BY <1>4, AtEnd, Zenon
  <2> QED BY <2>1, <1>1, <1>4, Zenon
<1>9. raw[1] = type
  <2>1. raw[0 + 1] = t[1]
    BY <1>2, <1>7 DEF At
  <2> QED BY <2>1, <1>2
<1>10. Slice(raw, 4, Len(raw)) = p
  BY <1>6, <1>8, AtSlice
<1>11. Len(p) \in Nat /\ MSG_HEADER_SIZE = 4
  BY DEF MSG_HEADER_SIZE
<1>12. decode_message(raw) =
         Ok([msg_type |-> raw[1], flags |-> raw[2], msg_id |-> read_be16(raw, 2), payload |-> p])
  BY <1>6, <1>9, <1>10, <1>11 DEF decode_message
<1>13. decode_message(raw).ok /\ decode_message(raw).val.payload = p
  BY <1>12 DEF Ok
<1> QED BY <1>6, <1>11, <1>13 DEF raw

\* An exchange block arrives if it fits its length fields, and else not.
LEMMA ExchangeDecoded ==
  ASSUME NEW commands \in Seq(Byte)
  PROVE  LET raw == encode_exchange(commands)
             r == decode_exchange(raw)
         IN  /\ raw \in Seq(Byte) /\ Len(raw) = EXCHANGE_MIN_SIZE + Len(commands)
             /\ r.ok <=> EXCHANGE_MIN_SIZE + Len(commands) < Word
             /\ r.ok => r.val = commands
<1> DEFINE L == EXCHANGE_MIN_SIZE + Len(commands)
           a == write_be16(Len(commands))
           b == write_be16(L)
           ab == a \o b
           head == ab \o commands
           sum == crc16(head)
           w == write_be16(sum)
           raw == encode_exchange(commands)
<1>1. raw = head \o w
  BY DEF encode_exchange
<1>2. Len(commands) \in Nat /\ L \in Nat /\ L = 6 + Len(commands) /\ EXCHANGE_MIN_SIZE = 6
  BY DEF EXCHANGE_MIN_SIZE
<1>3. a \in Seq(Byte) /\ Len(a) = 2 /\ b \in Seq(Byte) /\ Len(b) = 2
  BY <1>2, WriteBe16
<1> HIDE DEF L, a, b, raw
<1>4. ab \in Seq(Byte) /\ Len(ab) = 4
  <2>1. ab \in Seq(Byte) /\ Len(ab) = Len(a) + Len(b)
    BY <1>3, JoinedLen, Zenon
  <2> QED BY <2>1, <1>3
<1>5. At(ab, 0, a) /\ At(ab, 2, b)
  <2>1. At(ab, Len(a), b)
    BY <1>3, AtEnd
  <2>2. At(ab, 0, a)
    BY <1>3, AtStart
  <2> QED BY <2>1, <2>2, <1>3
<1> HIDE DEF ab
<1>6. head \in Seq(Byte) /\ Len(head) = L - 2
  <2>1. head \in Seq(Byte) /\ Len(head) = Len(ab) + Len(commands)
    BY <1>4, JoinedLen, Zenon
  <2> QED BY <2>1, <1>2, <1>4
<1>7. At(head, 0, a) /\ At(head, 2, b) /\ At(head, 4, commands)
  <2>1. At(head, 0, a) /\ At(head, 2, b)
    BY <1>3, <1>4, <1>5, AtKept
  <2>2. At(head, Len(ab), commands)
    BY <1>4, AtEnd
  <2> QED BY <2>1, <2>2, <1>4
<1> HIDE DEF head
<1>8. sum \in 0 .. Word - 1 /\ sum \in Nat
  BY <1>6, CrcType, WordFacts
<1> HIDE DEF sum
<1>9. w \in Seq(Byte) /\ Len(w) = 2
  BY <1>8, WriteBe16
<1> HIDE DEF w
<1>10. raw \in Seq(Byte) /\ Len(raw) = L
  <2>1. head \o w \in Seq(Byte) /\ Len(head \o w) = Len(head) + Len(w)
    BY <1>6, <1>9, JoinedLen, Zenon
  <2> QED BY <2>1, <1>1, <1>2, <1>6, <1>9
<1>11. /\ At(raw, 0, a) /\ At(raw, 2, b) /\ At(raw, 4, commands)
       /\ At(raw, 0, head) /\ At(raw, L - 2, w)
  <2>1. At(head \o w, 0, a) /\ At(head \o w, 2, b) /\ At(head \o w, 4, commands)
    BY <1>3, <1>6, <1>7, <1>9, AtKept
  <2>2. At(head \o w, 0, head) /\ At(head \o w, Len(head), w)
    BY <1>6, <1>9, AtStart, AtEnd
  <2> QED BY <2>1, <2>2, <1>1, <1>6, Zenon
<1>12. /\ Slice(raw, 0, L - 2) = head /\ Slice(raw, 4, L - 2) = commands
       /\ read_be16(raw, L - 2) = sum
  <2>1. Slice(raw, 0, 0 + Len(head)) = head /\ Slice(raw, 4, 4 + Len(commands)) = commands
    BY <1>6, <1>10, <1>11, AtSlice
  <2>2. 0 + Len(head) = L - 2 /\ 4 + Len(commands) = L - 2
    BY <1>2, <1>6
  <2>3. read_be16(raw, L - 2) = sum
    BY <1>8, <1>11, At16 DEF w
  <2> QED BY <2>1, <2>2, <2>3
<1>13. /\ read_be16(raw, 2) \in 0 .. Word - 1
       /\ L < Word => read_be16(raw, 2) = L /\ read_be16(raw, 0) = L - 6
  <2>1. read_be16(raw, 2) \in 0 .. Word - 1
    BY <1>2, <1>10, ReadBe16Range
  <2>2. ASSUME L < Word PROVE read_be16(raw, 2) = L /\ read_be16(raw, 0) = L - 6
    <3>1. L \in 0 .. Word - 1 /\ Len(commands) \in 0 .. Word - 1 /\ L - 6 = Len(commands)
      BY <2>2, <1>2, WordFacts
    <3>2. read_be16(raw, 2) = L
      BY <3>1, <1>11, At16 DEF b
    <3>3. read_be16(raw, 0) = Len(commands)
      BY <3>1, <1>11, At16 DEF a
    <3> QED BY <3>1, <3>2, <3>3
  <2> QED BY <2>1, <2>2
<1>14. ASSUME L < Word PROVE decode_exchange(raw) = Ok(commands)
  <2>1. /\ read_be16(raw, 2) = Len(raw) /\ ~(Len(raw) < EXCHANGE_MIN_SIZE)
        /\ read_be16(raw, 0) = Len(raw) - EXCHANGE_MIN_SIZE
    BY <1>2, <1>10, <1>13, <1>14
  <2>2. read_be16(raw, Len(raw) - 2) = crc16(Slice(raw, 0, Len(raw) - 2))
    BY <1>10, <1>12 DEF sum
  <2>3. ExchangeCommands(raw) = commands
    BY <1>10, <1>12 DEF ExchangeCommands
  <2> QED BY <2>1, <2>2, <2>3 DEF decode_exchange
<1>15. ASSUME ~(L < Word) PROVE ~decode_exchange(raw).ok
  <2>1. Word \in Nat
    BY WordFacts
  <2>2. read_be16(raw, 2) # L
    BY <2>1, <1>2, <1>13, <1>15
  <2>3. read_be16(raw, 2) # Len(raw)
    BY <2>2, <1>10
  <2> QED BY <2>3 DEF decode_exchange, Err
<1>16. /\ decode_exchange(raw).ok <=> L < Word
       /\ decode_exchange(raw).ok => decode_exchange(raw).val = commands
  BY <1>14, <1>15 DEF Ok, Err
<1> QED BY <1>10, <1>16 DEF raw, L

-----------------------------------------------------------------------------
(* Decoding loops.                                                          *)

\* Where a part of a flattened sequence begins, read finds its item.
Finds(S, ss, off, I, items, read) ==
  /\ ss \in Seq(Seq(S)) /\ Laid(ss, off) /\ items \in Seq(I) /\ Len(items) = Len(ss)
  /\ \A k \in 1 .. Len(ss) : Len(ss[k]) > 0 /\ read[off[k - 1]] = Item(items[k], Len(ss[k]))

ReadBack(ss, items, read) ==
  LET all == ReadAll(Len(FlattenSeq(ss)), read) IN all.items = items /\ all.error = ""

\* A loop that finds an item where each part begins reads them all.
LEMMA AllRead ==
  ASSUME NEW S, NEW ss, NEW off, NEW I, NEW items, NEW read, Finds(S, ss, off, I, items, read)
  PROVE  ReadBack(ss, items, read)
<1> DEFINE total == Len(FlattenSeq(ss))
           n == Len(ss)
           State(k) == [pos |-> off[k], items |-> SubSeq(items, 1, k), error |-> ""]
           States == {State(k) : k \in 0 .. n}
           Step(f) == [i \in 0 .. total |-> IF i = 0
                         THEN [pos |-> 0, items |-> <<>>, error |-> ""]
                         ELSE ReadOne(total, read, f[i - 1])]
           st == CHOOSE f : f = Step(f)
           step == [i \in 1 .. total |-> [x \in States |-> ReadOne(total, read, x)]]
<1>1. /\ off \in [0 .. n -> Nat] /\ off[0] = 0 /\ off[n] = total
      /\ \A k \in 1 .. n : off[k] = off[k - 1] + Len(ss[k]) /\ off[k] <= total
      /\ n \in Nat /\ Len(items) = n
  BY DEF Laid, Finds
<1>0. items \in Seq(I) /\ ss \in Seq(Seq(S))
  BY DEF Finds
<1>2. total \in Nat
  BY <1>1
<1>3. ReadAll(total, read) = st[total]
  BY DEF ReadAll
<1> HIDE DEF total
<1>4. ASSUME NEW k \in 0 .. n - 1 PROVE ReadOne(total, read, State(k)) = State(k + 1)
  <2>1. k + 1 \in 1 .. n /\ (k + 1) - 1 = k /\ k \in 0 .. n
    BY <1>1
  <2>2. Len(ss[k + 1]) > 0 /\ read[off[k]] = Item(items[k + 1], Len(ss[k + 1]))
    BY <2>1 DEF Finds
  <2>3. off[k + 1] = off[k] + Len(ss[k + 1]) /\ off[k + 1] <= total /\ off[k] \in Nat
    BY <1>1, <2>1
  <2>4. Len(ss[k + 1]) \in Nat
    BY <2>1, <1>0
  <2>5. off[k] # total
    BY <1>2, <2>2, <2>3, <2>4
  <2>6. SubSeq(items, 1, k + 1) = Append(SubSeq(items, 1, k), items[k + 1])
    <3>1. k \in 0 .. Len(items) - 1
      BY <1>1
    <3> QED BY <1>0, <3>1, PrefixGrows
  <2> DEFINE r == read[off[k]]
  <2>7. r.ok /\ r.val.size = Len(ss[k + 1]) /\ r.val.item = items[k + 1]
    BY <2>2 DEF Item, Ok
  <2>8. State(k).pos = off[k] /\ State(k).items = SubSeq(items, 1, k) /\ State(k).error = ""
    OBVIOUS
  <2>9. ReadOne(total, read, State(k)) =
          [pos |-> off[k] + r.val.size, items |-> Append(SubSeq(items, 1, k), r.val.item),
           error |-> ""]
    <3> HIDE DEF State
    <3> QED BY <2>5, <2>7, <2>8 DEF ReadOne
  <2> HIDE DEF r
  <2> QED BY <2>3, <2>6, <2>7, <2>9
<1>5. ReadOne(total, read, State(n)) = State(n)
  BY <1>1 DEF ReadOne
<1>6. State(0) = [pos |-> 0, items |-> <<>>, error |-> ""]
  <2>1. SubSeq(items, 1, 0) = <<>>
    BY <1>0
  <2> QED BY <1>1, <2>1
<1> HIDE DEF State
<1>7. \A x \in States : ReadOne(total, read, x) \in States
  <2> SUFFICES ASSUME NEW k \in 0 .. n PROVE ReadOne(total, read, State(k)) \in States
    OBVIOUS
  <2>1. CASE k = n
    BY <2>1, <1>5
  <2>2. CASE k # n
    <3>1. k \in 0 .. n - 1 /\ k + 1 \in 0 .. n
      BY <2>2, <1>1
    <3>2. ReadOne(total, read, State(k)) = State(k + 1)
      BY <3>1, <1>4
    <3> QED BY <3>1, <3>2
  <2> QED BY <2>1, <2>2
<1>8. State(0) \in States
  BY <1>1
<1> HIDE DEF States, n
<1>9. \E f : f = Step(f)
  <2>1. CanStep(States, total, State(0), step)
    <3>1. \A i \in 1 .. total : \A x \in States : step[i][x] = ReadOne(total, read, x)
      OBVIOUS
    <3> HIDE DEF step
    <3> QED BY <1>2, <1>7, <1>8, <3>1 DEF CanStep
  <2>2. PICK g : Steps(States, total, State(0), step, g)
    <3> HIDE DEF step
    <3> QED BY <2>1, StepFunction
  <2>3. g \in [0 .. total -> States] /\ g[0] = State(0)
    BY <2>2 DEF Steps
  <2>4. ASSUME NEW i \in 1 .. total PROVE g[i] = ReadOne(total, read, g[i - 1])
    <3>1. g[i] = step[i][g[i - 1]]
      <4> HIDE DEF step
      <4> QED BY <2>2 DEF Steps
    <3>2. g[i - 1] \in States
      BY <2>3, <1>2
    <3> QED BY <3>1, <3>2
  <2>5. g = Step(g)
    <3>1. \A i \in 0 .. total : g[i] = IF i = 0 THEN [pos |-> 0, items |-> <<>>, error |-> ""]
                                       ELSE ReadOne(total, read, g[i - 1])
      <4>1. \A i \in 0 .. total : i # 0 => i \in 1 .. total
        BY <1>2
      <4> QED BY <4>1, <2>3, <2>4, <1>6, Zenon
    <3> QED BY <2>3, <3>1
  <2> QED BY <2>5
<1>10. st = Step(st)
  <2> HIDE DEF Step
  <2> QED BY <1>9
<1> HIDE DEF st
<1>11. st[0] = State(0) /\ \A i \in 1 .. total : st[i] = ReadOne(total, read, st[i - 1])
  <2>1. \A i \in 0 .. total : st[i] = IF i = 0 THEN [pos |-> 0, items |-> <<>>, error |-> ""]
                                      ELSE ReadOne(total, read, st[i - 1])
    BY <1>10, Zenon
  <2>2. 0 \in 0 .. total /\ \A i \in 1 .. total : i \in 0 .. total /\ i # 0
    BY <1>2
  <2> QED BY <2>1, <2>2, <1>6, Zenon
\* There are no more items than bytes.
<1>12. n <= total
  <2> DEFINE P == {k \in 0 .. n : k <= off[k]}
  <2>1. 0 \in P
    BY <1>1
  <2>2. ASSUME NEW k \in 0 .. n - 1, k \in P PROVE k + 1 \in P
    <3>1. k + 1 \in 1 .. n /\ (k + 1) - 1 = k /\ k \in 0 .. n
      BY <1>1
    <3>2. Len(ss[k + 1]) > 0 /\ Len(ss[k + 1]) \in Nat
      <4>1. k + 1 \in 1 .. Len(ss)
        BY <3>1 DEF n
      <4> QED BY <4>1, <1>0 DEF Finds
    <3>3. off[k + 1] = off[k] + Len(ss[k + 1]) /\ off[k] \in Nat
      BY <1>1, <3>1
    <3> QED BY <2>2, <3>1, <3>2, <3>3
  <2> HIDE DEF P
  <2>3. \A k \in 0 .. n : k \in P
    BY <1>1, <2>1, <2>2, UpTo
  <2>4. n \in P
    BY <1>1, <2>3
  <2> QED BY <1>1, <2>4 DEF P
<1>13. st[total] = State(n)
  <2> DEFINE Q == {m \in 0 .. total : st[m] = IF m <= n THEN State(m) ELSE State(n)}
  <2>1. 0 \in Q
    BY <1>1, <1>2, <1>11
  <2>2. ASSUME NEW m \in 0 .. total - 1, m \in Q PROVE m + 1 \in Q
    <3>1. m + 1 \in 1 .. total /\ (m + 1) - 1 = m /\ m \in Nat
      BY <1>2
    <3>2. st[m + 1] = ReadOne(total, read, st[m])
      BY <3>1, <1>11
    <3>3. CASE m + 1 <= n
      <4>1. m \in 0 .. n - 1 /\ st[m] = State(m)
        BY <3>1, <3>3, <1>1, <2>2
      <4> QED BY <4>1, <3>1, <3>2, <3>3, <1>4
    <3>4. CASE ~(m + 1 <= n)
      <4>1. st[m] = State(n)
        <5>1. CASE m = n
          BY <5>1, <2>2, <1>1
        <5>2. CASE m # n
          BY <5>2, <3>4, <3>1, <2>2, <1>1
        <5> QED BY <5>1, <5>2
      <4> QED BY <4>1, <3>1, <3>2, <3>4, <1>5
    <3> QED BY <3>3, <3>4
  <2> HIDE DEF Q
  <2>3. \A m \in 0 .. total : m \in Q
    BY <1>2, <2>1, <2>2, UpTo
  <2>4. total \in Q
    BY <1>2, <2>3
  <2>5. CASE n = total
    BY <2>4, <2>5, <1>1 DEF Q
  <2>6. CASE n # total
    BY <2>4, <2>6, <1>1, <1>2, <1>12 DEF Q
  <2> QED BY <2>5, <2>6
<1>14. SubSeq(items, 1, n) = items
  BY <1>0, <1>1
<1>15. ReadAll(total, read).items = items /\ ReadAll(total, read).error = ""
  <2>1. State(n).items = items /\ State(n).error = ""
    BY <1>14 DEF State
  <2> QED BY <1>3, <1>13, <2>1, Zenon
<1> QED BY <1>15 DEF total, ReadBack

\* One sequence flattens to itself.
LEMMA FlattenOne ==
  ASSUME NEW S, NEW s \in Seq(S)
  PROVE  FlattenSeq(<<s>>) = s
<1> DEFINE ss == <<s>>
<1>1. ss \in Seq(Seq(S)) /\ Len(ss) = 1 /\ ss[1] = s
  OBVIOUS
<1> HIDE DEF ss
<1>2. FlattenSeq(ss) \in Seq(S)
  BY <1>1, Flattened
<1>3. PICK off : Laid(ss, off)
  BY <1>1, Flattened
<1>4. /\ off[0] = 0 /\ Len(FlattenSeq(ss)) = off[1]
      /\ off[1] = off[1 - 1] + Len(ss[1])
      /\ \A i \in 1 .. Len(ss[1]) : FlattenSeq(ss)[off[1 - 1] + i] = ss[1][i]
  BY <1>1, <1>3 DEF Laid
<1>5. Len(FlattenSeq(ss)) = Len(s) /\ \A i \in 1 .. Len(s) : FlattenSeq(ss)[i] = s[i]
  BY <1>1, <1>4
<1>6. FlattenSeq(ss) = s
  BY <1>2, <1>5, SeqEqual
<1> QED BY <1>6 DEF ss

-----------------------------------------------------------------------------
(* Commands.                                                                *)

\* The bytes of a command: its id, the low word of its length, its body.
Bytes(id, body) == <<id>> \o write_be16(Len(body)) \o body

\* The header and the body of a command.
LEMMA BytesShape ==
  ASSUME NEW id \in Byte, NEW body \in Seq(Byte)
  PROVE  LET raw == Bytes(id, body)
         IN  /\ raw \in Seq(Byte) /\ Len(raw) = CMD_HEADER_SIZE + Len(body)
             /\ raw[1] = id
             /\ At(raw, 1, write_be16(Len(body))) /\ At(raw, CMD_HEADER_SIZE, body)
<1> DEFINE t == <<id>>
           w == write_be16(Len(body))
           head == t \o w
           raw == Bytes(id, body)
<1>1. raw = head \o body
  BY DEF Bytes
<1>2. t \in Seq(Byte) /\ Len(t) = 1 /\ t[1] = id
  OBVIOUS
<1>3. w \in Seq(Byte) /\ Len(w) = 2
  BY WriteBe16
<1> HIDE DEF t, w, raw
<1>4. head \in Seq(Byte) /\ Len(head) = 3
  <2>1. head \in Seq(Byte) /\ Len(head) = Len(t) + Len(w)
    BY <1>2, <1>3, JoinedLen, Zenon
  <2> QED BY <2>1, <1>2, <1>3
<1>5. At(head, 0, t) /\ At(head, 1, w)
  <2>1. At(head, Len(t), w)
    BY <1>2, <1>3, AtEnd
  <2>2. At(head, 0, t)
    BY <1>2, <1>3, AtStart
  <2> QED BY <2>1, <2>2, <1>2
<1> HIDE DEF head
<1>6. raw \in Seq(Byte) /\ Len(raw) = 3 + Len(body)
  <2>1. head \o body \in Seq(Byte) /\ Len(head \o body) = Len(head) + Len(body)
    BY <1>4, JoinedLen, Zenon
  <2> QED BY <2>1, <1>1, <1>4, Zenon
<1>7. At(raw, 0, t) /\ At(raw, 1, w) /\ At(raw, 3, body)
  <2>1. At(head \o body, 0, t) /\ At(head \o body, 1, w)
    BY <1>2, <1>3, <1>4, <1>5, AtKept
  <2>2. At(head \o body, Len(head), body)
    BY <1>4, AtEnd
  <2> QED BY <2>1, <2>2, <1>1, <1>4, Zenon
<1>8. raw[1] = id
  <2>1. raw[0 + 1] = t[1]
    BY <1>2, <1>7 DEF At
  <2> QED BY <2>1, <1>2
<1> QED BY <1>6, <1>7, <1>8 DEF CMD_HEADER_SIZE, raw, w

\* The bytes of a binary command.
Command(body) == encode_command(make_command(ROUTE_ADD, <<>>, body))

\* A payload is the body of the command; without one there are no fields
\* either.
LEMMA CommandBytes ==
  ASSUME NEW body
  PROVE  Command(body) = Bytes(ROUTE_ADD, body)
<1>1. ConcatMap(EncodeField, <<>>) = <<>>
  BY FlattenEmpty DEF ConcatMap
<1>2. (IF body # <<>> THEN body ELSE ConcatMap(EncodeField, <<>>)) = body
  BY <1>1
<1> QED BY <1>2 DEF Command, encode_command, make_command, Bytes

\* The header and the payload of a ROUTE_ADD command.
LEMMA CommandShape ==
  ASSUME NEW body \in Seq(Byte)
  PROVE  LET raw == Command(body)
         IN  /\ raw \in Seq(Byte) /\ Len(raw) = CMD_HEADER_SIZE + Len(body)
             /\ raw[1] = ROUTE_ADD
             /\ At(raw, 1, write_be16(Len(body))) /\ At(raw, CMD_HEADER_SIZE, body)
<1>1. ROUTE_ADD \in Byte
  BY WordFacts DEF ROUTE_ADD
<1> QED BY <1>1, CommandBytes, BytesShape

\* A command whose length fits is the only one that is found in its bytes.
LEMMA CommandDecoded ==
  ASSUME NEW body \in Seq(Byte), Len(body) < Word
  PROVE  LET r == decode_commands(Command(body))
         IN  r.ok /\ r.val # <<>> /\ r.val[1].raw_payload = body
<1> DEFINE raw == Command(body)
           total == Len(raw)
           read == [pos \in 0 .. total - 1 |-> CommandAt(Rest(raw, pos))]
           cmd == [cmd_id |-> raw[1], fields |-> DecodeFields(body), raw_payload |-> body]
           ss == <<raw>>
<1>1. /\ raw \in Seq(Byte) /\ total = 3 + Len(body) /\ raw[1] = ROUTE_ADD
      /\ At(raw, 1, write_be16(Len(body))) /\ At(raw, 3, body)
  BY CommandShape DEF CMD_HEADER_SIZE
<1> HIDE DEF raw
<1>2. Len(body) \in Nat /\ Len(body) \in 0 .. Word - 1
  BY WordFacts
<1>3. Rest(raw, 0) = raw
  BY <1>1 DEF Rest, Slice
<1>4. read_be16(raw, 1) = Len(body)
  BY <1>1, <1>2, At16
<1>5. Slice(raw, 3, 3 + Len(body)) = body
  BY <1>1, AtSlice
<1>6. decode_command(raw) = Ok(cmd)
  <2>1. ~(Len(raw) < 3) /\ raw[1] \in CmdIds /\ ~(Len(raw) < 3 + read_be16(raw, 1))
    BY <1>1, <1>2, <1>4 DEF CmdIds
  <2> QED BY <2>1, <1>4, <1>5 DEF decode_command, CMD_HEADER_SIZE
<1>7. CommandAt(raw) = Item(cmd, total)
  BY <1>1, <1>4, <1>6 DEF CommandAt, AndThen, Ok, CMD_HEADER_SIZE
<1> HIDE DEF cmd
<1>8. total \in Nat /\ total > 0
  BY <1>1, <1>2
<1>9. read[0] = Item(cmd, total)
  BY <1>3, <1>7, <1>8
<1>10. ss \in Seq(Seq(Byte)) /\ Len(ss) = 1 /\ ss[1] = raw /\ FlattenSeq(ss) = raw
  BY <1>1, FlattenOne
<1> DEFINE items == <<cmd>>
<1>11. items \in Seq({cmd}) /\ Len(items) = 1 /\ items[1] = cmd /\ items # <<>>
  OBVIOUS
<1>12. PICK o : Laid(ss, o)
  <2> HIDE DEF ss
  <2> QED BY <1>10, Flattened
<1>13. o[0] = 0
  BY <1>12 DEF Laid
<1> HIDE DEF ss, items, read
<1>14. Finds(Byte, ss, o, {cmd}, items, read)
  <2> SUFFICES ASSUME NEW k \in 1 .. 1
               PROVE  Len(ss[k]) > 0 /\ read[o[k - 1]] = Item(items[k], Len(ss[k]))
    BY <1>10, <1>11, <1>12 DEF Finds
  <2>1. k = 1 /\ k - 1 = 0
    OBVIOUS
  <2> QED BY <2>1, <1>8, <1>9, <1>10, <1>11, <1>13
<1>15. ReadBack(ss, items, read)
  BY <1>14, AllRead
<1>16. decode_commands(raw) = Ok(items)
  BY <1>10, <1>15 DEF decode_commands, Complete, read, ReadBack
<1>17. items[1].raw_payload = body
  BY <1>11 DEF cmd
<1> QED BY <1>11, <1>16, <1>17 DEF Ok, raw

-----------------------------------------------------------------------------
(* Prefixes and interfaces.                                                 *)

PrefixEntries == [addr : [1 .. ADDR_SIZE -> Byte], mask_len : Byte]

\* A std::array of bytes is a sequence of its size.
LEMMA ArrayIsSequence ==
  ASSUME NEW n \in Nat, NEW a \in [1 .. n -> Byte]
  PROVE  a \in Seq(Byte) /\ Len(a) = n
OBVIOUS

\* The sizes of names, addresses and records.
LEMMA SizeFacts ==
  /\ ADDR_SIZE \in Nat /\ ADDR_SIZE > 0 /\ IFACE_NAME_SIZE \in Nat /\ VRFS_NAME_SIZE \in Nat
  /\ VRFS_NAME_SIZE > 0
  /\ PREFIX_IPV4_WIRE_SIZE = ADDR_SIZE + 1
  /\ INTERFACE_FIXED_SIZE = IFACE_NAME_SIZE + ADDR_SIZE + 6
  /\ VRFS_REQUEST_FIXED_SIZE = VRFS_NAME_SIZE + INTERFACE_FIXED_SIZE
BY CmdAssumption DEF PREFIX_IPV4_WIRE_SIZE, INTERFACE_FIXED_SIZE, VRFS_REQUEST_FIXED_SIZE

\* A prefix is its address, then its mask.
LEMMA PrefixShape ==
  ASSUME NEW p \in PrefixEntries
  PROVE  LET e == EncodePrefix(p)
         IN  /\ p.addr \in Seq(Byte) /\ Len(p.addr) = ADDR_SIZE
             /\ e \in Seq(Byte) /\ Len(e) = PREFIX_IPV4_WIRE_SIZE
             /\ At(e, 0, p.addr) /\ e[ADDR_SIZE + 1] = p.mask_len
<1> DEFINE a == p.addr
           m == <<p.mask_len>>
           e == EncodePrefix(p)
<1>1. e = a \o m
  BY DEF EncodePrefix
<1>2. a \in Seq(Byte) /\ Len(a) = ADDR_SIZE
  <2>1. a \in [1 .. ADDR_SIZE -> Byte]
    BY DEF PrefixEntries
  <2> HIDE DEF a
  <2> QED BY <2>1, SizeFacts, ArrayIsSequence
<1>3. m \in Seq(Byte) /\ Len(m) = 1 /\ m[1] = p.mask_len
  <2>1. p.mask_len \in Byte
    BY DEF PrefixEntries
  <2> QED BY <2>1
<1> HIDE DEF a, m, e
<1>4. e \in Seq(Byte) /\ Len(e) = ADDR_SIZE + 1
  <2>1. a \o m \in Seq(Byte) /\ Len(a \o m) = Len(a) + Len(m)
    BY <1>2, <1>3, JoinedLen, Zenon
  <2> QED BY <2>1, <1>1, <1>2, <1>3
<1>5. At(e, 0, a) /\ At(e, ADDR_SIZE, m)
  <2>1. At(a \o m, 0, a) /\ At(a \o m, Len(a), m)
    BY <1>2, <1>3, AtStart, AtEnd
  <2> QED BY <2>1, <1>1, <1>2, Zenon
<1>6. e[ADDR_SIZE + 1] = p.mask_len
  BY <1>3, <1>5 DEF At
<1> QED BY <1>2, <1>4, <1>5, <1>6, SizeFacts DEF a, e

\* Prefixes follow each other at multiples of their size.
LEMMA PrefixesShape ==
  ASSUME NEW ps \in Seq(PrefixEntries)
  PROVE  LET c == ConcatMap(EncodePrefix, ps)
         IN  /\ c \in Seq(Byte) /\ Len(c) = Len(ps) * PREFIX_IPV4_WIRE_SIZE
             /\ \A i \in 1 .. Len(ps) : At(c, (i - 1) * PREFIX_IPV4_WIRE_SIZE, EncodePrefix(ps[i]))
<1> DEFINE ss == [i \in DOMAIN ps |-> EncodePrefix(ps[i])]
           c == ConcatMap(EncodePrefix, ps)
           n == Len(ps)
           W == PREFIX_IPV4_WIRE_SIZE
<1>1. c = FlattenSeq(ss)
  BY DEF ConcatMap
<1>2. n \in Nat /\ DOMAIN ps = 1 .. n /\ \A i \in 1 .. n : ps[i] \in PrefixEntries
  OBVIOUS
<1>3. \A i \in 1 .. n : ss[i] = EncodePrefix(ps[i]) /\ ss[i] \in Seq(Byte) /\ Len(ss[i]) = W
  BY <1>2, PrefixShape
<1>4. ss \in Seq(Seq(Byte)) /\ Len(ss) = n
  <2>1. ss \in [1 .. n -> Seq(Byte)]
    BY <1>2, <1>3
  <2> HIDE DEF ss
  <2> QED BY <2>1, <1>2
<1> HIDE DEF ss, c, n, W
<1>5. PICK off : Laid(ss, off)
  BY <1>4, Flattened
<1>6. c \in Seq(Byte)
  BY <1>1, <1>4, Flattened
<1>7. /\ off \in [0 .. n -> Nat] /\ off[0] = 0 /\ off[n] = Len(c)
      /\ \A k \in 1 .. n :
           /\ off[k] = off[k - 1] + Len(ss[k]) /\ off[k] <= Len(c)
           /\ \A i \in 1 .. Len(ss[k]) : c[off[k - 1] + i] = ss[k][i]
  BY <1>1, <1>4, <1>5 DEF Laid
<1>8. W \in Nat
  BY SizeFacts DEF W
<1> DEFINE P == {k \in 0 .. n : off[k] = k * W}
<1>9. 0 \in P
  BY <1>2, <1>7, <1>8
<1>10. ASSUME NEW k \in 0 .. n - 1, k \in P PROVE k + 1 \in P
  <2>1. k + 1 \in 1 .. n /\ (k + 1) - 1 = k /\ k \in Nat /\ k + 1 \in 0 .. n
    BY <1>2
  <2>2. off[k + 1] = off[k] + W
    BY <2>1, <1>3, <1>7
  <2>3. (k + 1) * W = k * W + W
    BY <2>1, <1>8
  <2> QED BY <2>1, <2>2, <2>3, <1>10
<1> HIDE DEF P
<1>11. \A k \in 0 .. n : k \in P
  BY <1>2, <1>9, <1>10, UpTo
<1>12. \A k \in 0 .. n : off[k] = k * W
  BY <1>11 DEF P
<1>13. Len(c) = n * W
  BY <1>2, <1>7, <1>12
<1>14. ASSUME NEW i \in 1 .. n PROVE At(c, (i - 1) * W, EncodePrefix(ps[i]))
  <2>1. i - 1 \in 0 .. n
    BY <1>2
  <2>2. off[i - 1] = (i - 1) * W /\ off[i - 1] \in Nat
    BY <2>1, <1>7, <1>12
  <2>3. /\ off[i - 1] + Len(ss[i]) <= Len(c)
        /\ \A j \in 1 .. Len(ss[i]) : c[off[i - 1] + j] = ss[i][j]
    BY <1>7
  <2>4. At(c, off[i - 1], ss[i])
    BY <2>2, <2>3 DEF At
  <2> QED BY <2>2, <2>4, <1>3
<1> QED BY <1>6, <1>13, <1>14 DEF c, n, W

\* The fields of an interface record, each at its offset.
LEMMA InterfaceShape ==
  ASSUME NEW r \in VrfRequests
  PROVE  LET e == EncodeInterface(r)
             A == IFACE_NAME_SIZE + ADDR_SIZE
         IN  /\ r.iface_name \in Seq(Byte) /\ Len(r.iface_name) = IFACE_NAME_SIZE
             /\ r.nexthop_addr_ipv4 \in Seq(Byte) /\ Len(r.nexthop_addr_ipv4) = ADDR_SIZE
             /\ e \in Seq(Byte)
             /\ Len(e) = INTERFACE_FIXED_SIZE + Len(r.prefixes) * PREFIX_IPV4_WIRE_SIZE
             /\ At(e, 0, r.iface_name) /\ At(e, IFACE_NAME_SIZE, r.nexthop_addr_ipv4)
             /\ At(e, A, write_be32(r.nexthop_id_ipv4))
             /\ At(e, A + 4, write_be16(Len(r.prefixes)))
             /\ At(e, INTERFACE_FIXED_SIZE, ConcatMap(EncodePrefix, r.prefixes))
<1> DEFINE a == r.iface_name
           b == r.nexthop_addr_ipv4
           c == write_be32(r.nexthop_id_ipv4)
           d == write_be16(Len(r.prefixes))
           f == ConcatMap(EncodePrefix, r.prefixes)
           ab == a \o b
           abc == ab \o c
           abcd == abc \o d
           e == EncodeInterface(r)
           A == IFACE_NAME_SIZE + ADDR_SIZE
<1>1. e = abcd \o f
  BY DEF EncodeInterface
<1>2. a \in Seq(Byte) /\ Len(a) = IFACE_NAME_SIZE /\ b \in Seq(Byte) /\ Len(b) = ADDR_SIZE
  <2>1. a \in [1 .. IFACE_NAME_SIZE -> Byte] /\ b \in [1 .. ADDR_SIZE -> Byte]
    BY DEF VrfRequests
  <2> HIDE DEF a, b
  <2> QED BY <2>1, SizeFacts, ArrayIsSequence
<1>3. c \in Seq(Byte) /\ Len(c) = 4 /\ d \in Seq(Byte) /\ Len(d) = 2
  <2>1. r.nexthop_id_ipv4 \in Nat /\ Len(r.prefixes) \in Nat
    BY DEF VrfRequests
  <2> QED BY <2>1, WriteBe16, WriteBe32
<1>4. f \in Seq(Byte) /\ Len(f) = Len(r.prefixes) * PREFIX_IPV4_WIRE_SIZE
  <2>1. r.prefixes \in Seq(PrefixEntries)
    BY DEF VrfRequests, PrefixEntries
  <2> QED BY <2>1, PrefixesShape
<1> HIDE DEF a, b, c, d, e, f
<1>5. IFACE_NAME_SIZE \in Nat /\ ADDR_SIZE \in Nat /\ A \in Nat
  BY SizeFacts
<1>6. ab \in Seq(Byte) /\ Len(ab) = A
  <2>1. ab \in Seq(Byte) /\ Len(ab) = Len(a) + Len(b)
    BY <1>2, JoinedLen, Zenon
  <2> QED BY <2>1, <1>2
<1>7. At(ab, 0, a) /\ At(ab, IFACE_NAME_SIZE, b)
  <2>1. At(ab, 0, a) /\ At(ab, Len(a), b)
    BY <1>2, AtStart, AtEnd
  <2> QED BY <2>1, <1>2
<1> HIDE DEF ab
<1>8. abc \in Seq(Byte) /\ Len(abc) = A + 4
  <2>1. abc \in Seq(Byte) /\ Len(abc) = Len(ab) + Len(c)
    BY <1>3, <1>6, JoinedLen, Zenon
  <2> QED BY <2>1, <1>3, <1>6
<1>9. At(abc, 0, a) /\ At(abc, IFACE_NAME_SIZE, b) /\ At(abc, A, c)
  <2>1. At(abc, Len(ab), c)
    BY <1>3, <1>6, AtEnd
  <2>2. At(abc, 0, a) /\ At(abc, IFACE_NAME_SIZE, b)
    BY <1>2, <1>3, <1>6, <1>7, AtKept
  <2> QED BY <2>1, <2>2, <1>6
<1> HIDE DEF abc
<1>10. abcd \in Seq(Byte) /\ Len(abcd) = A + 6
  <2>1. abcd \in Seq(Byte) /\ Len(abcd) = Len(abc) + Len(d)
    BY <1>3, <1>8, JoinedLen, Zenon
  <2> QED BY <2>1, <1>3, <1>8, <1>5
<1>11. At(abcd, 0, a) /\ At(abcd, IFACE_NAME_SIZE, b) /\ At(abcd, A, c) /\ At(abcd, A + 4, d)
  <2>1. At(abcd, Len(abc), d)
    BY <1>3, <1>8, AtEnd
  <2>2. At(abcd, 0, a) /\ At(abcd, IFACE_NAME_SIZE, b) /\ At(abcd, A, c)
    BY <1>2, <1>3, <1>8, <1>9, AtKept
  <2> QED BY <2>1, <2>2, <1>8
<1> HIDE DEF abcd
<1>12. e \in Seq(Byte) /\ Len(e) = A + 6 + Len(f)
  <2>1. abcd \o f \in Seq(Byte) /\ Len(abcd \o f) = Len(abcd) + Len(f)
    BY <1>4, <1>10, JoinedLen, Zenon
  <2> QED BY <2>1, <1>1, <1>10, Zenon
<1>13. /\ At(e, 0, a) /\ At(e, IFACE_NAME_SIZE, b) /\ At(e, A, c) /\ At(e, A + 4, d)
       /\ At(e, A + 6, f)
  <2>1. At(abcd \o f, Len(abcd), f)
    BY <1>4, <1>10, AtEnd
  <2>2. /\ At(abcd \o f, 0, a) /\ At(abcd \o f, IFACE_NAME_SIZE, b)
        /\ At(abcd \o f, A, c) /\ At(abcd \o f, A + 4, d)
    BY <1>2, <1>3, <1>4, <1>10, <1>11, AtKept
  <2> QED BY <2>1, <2>2, <1>1, <1>10, Zenon
<1>14. INTERFACE_FIXED_SIZE = A + 6
  BY SizeFacts
<1> HIDE DEF A
<1> QED BY <1>2, <1>4, <1>12, <1>13, <1>14 DEF a, b, c, d, e, f, A

\* An encoded interface is read back, whatever follows it.
LEMMA InterfaceDecoded ==
  ASSUME NEW r \in VrfRequests, PrefixesValid(r.prefixes),
         NEW raw \in Seq(Byte), At(raw, 0, EncodeInterface(r))
  PROVE  /\ InterfaceEnd(raw) = Len(EncodeInterface(r))
         /\ DecodeInterface(raw) =
              Ok([iface_name |-> r.iface_name, nexthop_addr_ipv4 |-> r.nexthop_addr_ipv4,
                  nexthop_id_ipv4 |-> r.nexthop_id_ipv4, prefixes |-> r.prefixes])
<1> DEFINE e == EncodeInterface(r)
           A == IFACE_NAME_SIZE + ADDR_SIZE
           F == INTERFACE_FIXED_SIZE
           W == PREFIX_IPV4_WIRE_SIZE
           ps == r.prefixes
           n == Len(ps)
           c == ConcatMap(EncodePrefix, ps)
<1>1. /\ r.iface_name \in Seq(Byte) /\ Len(r.iface_name) = IFACE_NAME_SIZE
      /\ r.nexthop_addr_ipv4 \in Seq(Byte) /\ Len(r.nexthop_addr_ipv4) = ADDR_SIZE
      /\ e \in Seq(Byte) /\ Len(e) = F + n * W
  BY InterfaceShape
<1>2. /\ At(e, 0, r.iface_name) /\ At(e, IFACE_NAME_SIZE, r.nexthop_addr_ipv4)
      /\ At(e, A, write_be32(r.nexthop_id_ipv4))
      /\ At(e, A + 4, write_be16(n)) /\ At(e, F, c)
  BY InterfaceShape
<1>3. /\ IFACE_NAME_SIZE \in Nat /\ ADDR_SIZE \in Nat /\ ADDR_SIZE > 0 /\ A \in Nat /\ F \in Nat
      /\ F = A + 6 /\ W \in Nat /\ W = ADDR_SIZE + 1 /\ A + 4 = F - 2
  BY SizeFacts
<1>4. /\ r.nexthop_id_ipv4 \in 0 .. Word * Word - 1 /\ ps \in Seq(PrefixEntries)
      /\ n \in Nat /\ n < Word /\ \A i \in 1 .. n : ps[i] \in PrefixEntries /\ ps[i].mask_len <= MAX_MASK
  <2>1. r.nexthop_id_ipv4 \in 0 .. Word * Word - 1 /\ ps \in Seq(PrefixEntries)
    BY DEF VrfRequests, PrefixEntries
  <2>2. n < Word /\ \A i \in DOMAIN ps : ps[i].mask_len <= MAX_MASK
    BY DEF PrefixesValid
  <2> HIDE DEF ps
  <2> QED BY <2>1, <2>2
<1>5. /\ c \in Seq(Byte) /\ Len(c) = n * W
      /\ \A i \in 1 .. n : At(c, (i - 1) * W, EncodePrefix(ps[i]))
  BY <1>4, PrefixesShape
<1>6. write_be32(r.nexthop_id_ipv4) \in Seq(Byte) /\ write_be16(n) \in Seq(Byte)
  <2>1. r.nexthop_id_ipv4 \in Nat
    BY <1>4, WordFacts
  <2> QED BY <2>1, <1>4, WriteBe16, WriteBe32
<1> HIDE DEF e, A, F, W, ps, n, c
<1>7. /\ At(raw, 0 + 0, r.iface_name) /\ At(raw, 0 + IFACE_NAME_SIZE, r.nexthop_addr_ipv4)
      /\ At(raw, 0 + A, write_be32(r.nexthop_id_ipv4))
      /\ At(raw, 0 + (A + 4), write_be16(n)) /\ At(raw, 0 + F, c)
  <2>1. At(raw, 0, e)
    BY DEF e
  <2> QED BY <2>1, <1>1, <1>2, <1>5, <1>6, AtInside
<1>8. /\ At(raw, 0, r.iface_name) /\ At(raw, IFACE_NAME_SIZE, r.nexthop_addr_ipv4)
      /\ At(raw, A, write_be32(r.nexthop_id_ipv4))
      /\ At(raw, F - 2, write_be16(n)) /\ At(raw, F, c)
  <2>1. 0 + 0 = 0 /\ 0 + IFACE_NAME_SIZE = IFACE_NAME_SIZE /\ 0 + A = A /\ 0 + (A + 4) = F - 2 /\ 0 + F = F
    BY <1>3
  <2> QED BY <1>7, <2>1, Zenon
<1>9. read_be16(raw, F - 2) = n
  <2>1. n \in 0 .. Word - 1
    BY <1>4, WordFacts
  <2> QED BY <2>1, <1>8, At16
<1>10. read_be32(raw, A) = r.nexthop_id_ipv4
  BY <1>4, <1>8, At32
<1>11. /\ Slice(raw, 0, 0 + IFACE_NAME_SIZE) = r.iface_name
       /\ Slice(raw, IFACE_NAME_SIZE, IFACE_NAME_SIZE + ADDR_SIZE) = r.nexthop_addr_ipv4
  <2>1. /\ Slice(raw, 0, 0 + Len(r.iface_name)) = r.iface_name
        /\ Slice(raw, IFACE_NAME_SIZE, IFACE_NAME_SIZE + Len(r.nexthop_addr_ipv4)) = r.nexthop_addr_ipv4
    BY <1>1, <1>8, AtSlice
  <2> QED BY <2>1, <1>1
<1>12. InterfaceEnd(raw) = F + n * W
  BY <1>9 DEF InterfaceEnd, F, W
<1>13. n * W \in Nat /\ F + n * W <= Len(raw) /\ F <= Len(raw)
  <2>1. n * W \in Nat
    BY <1>3, <1>4
  <2>2. 0 + Len(e) <= Len(raw)
    BY DEF At, e
  <2> QED BY <2>1, <2>2, <1>1, <1>3
<1>14. DecodePrefixes(raw) = ps
  <2> DEFINE D(i) == LET pos == F + (i - 1) * W
                     IN  [addr |-> Slice(raw, pos, pos + ADDR_SIZE), mask_len |-> raw[pos + ADDR_SIZE + 1]]
  <2>1. DecodePrefixes(raw) = [i \in 1 .. n |-> D(i)]
    BY <1>9 DEF DecodePrefixes, F, W
  <2>2. ASSUME NEW i \in 1 .. n PROVE D(i) = ps[i]
    <3> DEFINE pos == F + (i - 1) * W
               p == ps[i]
               x == EncodePrefix(p)
    <3>1. p \in PrefixEntries
      BY <1>4
    <3>2. /\ p.addr \in Seq(Byte) /\ Len(p.addr) = ADDR_SIZE
          /\ x \in Seq(Byte) /\ Len(x) = W /\ At(x, 0, p.addr) /\ x[ADDR_SIZE + 1] = p.mask_len
      BY <3>1, PrefixShape DEF W
    <3>3. At(c, (i - 1) * W, x)
      BY <1>5
    <3> HIDE DEF p, x
    <3>4. At(raw, pos, x)
      BY <3>2, <3>3, <1>5, <1>8, AtInside
    <3> HIDE DEF pos
    <3>5. At(raw, pos + 0, p.addr)
      BY <3>2, <3>4, AtInside
    <3>6. pos \in Nat /\ pos + 0 = pos /\ pos + (ADDR_SIZE + 1) = pos + ADDR_SIZE + 1
      BY <3>4, <1>3 DEF At
    <3>7. Slice(raw, pos, pos + ADDR_SIZE) = p.addr
      <4>1. At(raw, pos, p.addr)
        BY <3>5, <3>6, Zenon
      <4>2. Slice(raw, pos, pos + Len(p.addr)) = p.addr
        BY <4>1, <3>2, AtSlice
      <4> QED BY <4>2, <3>2
    <3>8. raw[pos + ADDR_SIZE + 1] = p.mask_len
      <4>1. ADDR_SIZE + 1 \in 1 .. Len(x)
        BY <3>2, <1>3
      <4>2. raw[pos + (ADDR_SIZE + 1)] = x[ADDR_SIZE + 1]
        BY <4>1, <3>4 DEF At
      <4> QED BY <4>2, <3>2, <3>6, Zenon
    <3>9. p = [addr |-> p.addr, mask_len |-> p.mask_len]
      BY <3>1 DEF PrefixEntries, p
    <3>10. D(i) = [addr |-> Slice(raw, pos, pos + ADDR_SIZE), mask_len |-> raw[pos + ADDR_SIZE + 1]]
      BY DEF pos
    <3> HIDE DEF D
    <3> QED BY <3>7, <3>8, <3>9, <3>10, Zenon DEF p
  <2> HIDE DEF D
  <2>3. [i \in 1 .. n |-> D(i)] = [i \in 1 .. n |-> ps[i]]
    BY <2>2
  <2>4. ps = [i \in 1 .. n |-> ps[i]]
    BY <1>4 DEF n
  <2> QED BY <2>1, <2>3, <2>4
<1>15. DecodeInterface(raw) =
         Ok([iface_name |-> r.iface_name, nexthop_addr_ipv4 |-> r.nexthop_addr_ipv4,
             nexthop_id_ipv4 |-> r.nexthop_id_ipv4, prefixes |-> ps])
  <2>1. ~(Len(raw) < F) /\ ~(Len(raw) < InterfaceEnd(raw))
    <3>1. Len(raw) \in Nat
      OBVIOUS
    <3> QED BY <3>1, <1>3, <1>12, <1>13
  <2>2. ~ \E i \in DOMAIN ps : ps[i].mask_len > MAX_MASK
    <3>1. DOMAIN ps = 1 .. n
      BY <1>4 DEF n
    <3>2. \A i \in 1 .. n : ps[i].mask_len \in Int /\ MAX_MASK \in Int
      BY <1>4, CmdAssumption, WordFacts DEF PrefixEntries
    <3> QED BY <3>1, <3>2, <1>4
  <2>3. Slice(raw, 0, IFACE_NAME_SIZE) = r.iface_name
    BY <1>3, <1>11
  <2>4. read_be32(raw, IFACE_NAME_SIZE + ADDR_SIZE) = r.nexthop_id_ipv4
    BY <1>10 DEF A
  <2> QED BY <2>1, <2>2, <2>3, <2>4, <1>11, <1>14 DEF DecodeInterface, F
<1> QED BY <1>1, <1>12, <1>15 DEF e, ps

\* A VRF at the beginning of a buffer is read as it was written.
LEMMA VrfDecoded ==
  ASSUME NEW v \in VrfRequests, PrefixesValid(v.prefixes),
         NEW raw \in Seq(Byte), At(raw, 0, EncodeVrf(v))
  PROVE  VrfAt(raw) = Item(v, Len(EncodeVrf(v)))
<1> DEFINE a == v.vrfs_name
           e == EncodeInterface(v)
           x == EncodeVrf(v)
           N == VRFS_NAME_SIZE
           rest == Rest(raw, N)
           i == [iface_name |-> v.iface_name, nexthop_addr_ipv4 |-> v.nexthop_addr_ipv4,
                 nexthop_id_ipv4 |-> v.nexthop_id_ipv4, prefixes |-> v.prefixes]
<1>1. x = a \o e
  BY DEF EncodeVrf
<1>2. a \in Seq(Byte) /\ Len(a) = N
  <2>1. a \in [1 .. VRFS_NAME_SIZE -> Byte]
    BY DEF VrfRequests
  <2> HIDE DEF a
  <2> QED BY <2>1, SizeFacts, ArrayIsSequence
<1>3. e \in Seq(Byte) /\ Len(e) >= INTERFACE_FIXED_SIZE
  <2>1. e \in Seq(Byte) /\ Len(e) = INTERFACE_FIXED_SIZE + Len(v.prefixes) * PREFIX_IPV4_WIRE_SIZE
    BY InterfaceShape
  <2>2. Len(v.prefixes) \in Nat
    BY DEF VrfRequests
  <2>3. Len(v.prefixes) * PREFIX_IPV4_WIRE_SIZE \in Nat /\ INTERFACE_FIXED_SIZE \in Nat
    <3>1. PREFIX_IPV4_WIRE_SIZE \in Nat /\ INTERFACE_FIXED_SIZE \in Nat
      BY SizeFacts
    <3> QED BY <3>1, <2>2
  <2> QED BY <2>1, <2>3
<1>4. N \in Nat /\ INTERFACE_FIXED_SIZE \in Nat
  BY SizeFacts
<1> HIDE DEF a, e, x, N
<1>5. x \in Seq(Byte) /\ Len(x) = N + Len(e) /\ At(x, 0, a) /\ At(x, N, e)
  <2>1. a \o e \in Seq(Byte) /\ Len(a \o e) = Len(a) + Len(e)
    BY <1>2, <1>3, JoinedLen, Zenon
  <2>2. At(a \o e, 0, a) /\ At(a \o e, Len(a), e)
    BY <1>2, <1>3, AtStart, AtEnd
  <2> QED BY <2>1, <2>2, <1>1, <1>2, Zenon
<1>6. At(raw, 0, a) /\ At(raw, N, e)
  <2>1. At(raw, 0, x)
    BY DEF x
  <2>2. At(raw, 0 + 0, a) /\ At(raw, 0 + N, e)
    BY <2>1, <1>2, <1>3, <1>5, AtInside
  <2>3. 0 + 0 = 0 /\ 0 + N = N
    BY <1>4
  <2> QED BY <2>2, <2>3, Zenon
<1>7. rest \in Seq(Byte) /\ At(rest, 0, e)
  BY <1>3, <1>6, AtRest
<1> HIDE DEF rest
<1>8. InterfaceEnd(rest) = Len(e) /\ DecodeInterface(rest) = Ok(i)
  BY <1>7, InterfaceDecoded DEF e
<1>9. Slice(raw, 0, N) = a
  <2>1. Slice(raw, 0, 0 + Len(a)) = a
    BY <1>2, <1>6, AtSlice
  <2> QED BY <2>1, <1>2, <1>4
<1>10. ~(Len(raw) < VRFS_REQUEST_FIXED_SIZE)
  <2>1. N + Len(e) <= Len(raw)
    BY <1>6 DEF At
  <2>2. VRFS_REQUEST_FIXED_SIZE = N + INTERFACE_FIXED_SIZE
    BY SizeFacts DEF N
  <2>3. Len(e) \in Nat /\ Len(raw) \in Nat
    BY <1>3
  <2> QED BY <2>1, <2>2, <2>3, <1>3, <1>4
<1>11. v = [vrfs_name |-> a, iface_name |-> i.iface_name,
            nexthop_addr_ipv4 |-> i.nexthop_addr_ipv4,
            nexthop_id_ipv4 |-> i.nexthop_id_ipv4, prefixes |-> i.prefixes]
  BY DEF VrfRequests, a
<1> HIDE DEF i
<1>12. VrfAt(raw) = Item(v, N + Len(e))
  <2> DEFINE d == DecodeInterface(rest)
  <2>1. d.ok /\ d.val = i
    BY <1>8 DEF Ok
  <2> HIDE DEF d
  <2>2. VrfAt(raw) = IF d.ok THEN Item([vrfs_name |-> a, iface_name |-> d.val.iface_name,
                            nexthop_addr_ipv4 |-> d.val.nexthop_addr_ipv4,
                            nexthop_id_ipv4 |-> d.val.nexthop_id_ipv4,
                            prefixes |-> d.val.prefixes], N + InterfaceEnd(rest)) ELSE d
    BY <1>9, <1>10 DEF VrfAt, AndThen, rest, N, d
  <2> QED BY <2>1, <2>2, <1>8, <1>11
<1> QED BY <1>5, <1>12 DEF x

-----------------------------------------------------------------------------
(* Requests.                                                                *)

\* A payload that could be encoded is decoded to the same request.
LEMMA PayloadDecoded ==
  ASSUME NEW vrfs \in Seq(VrfRequests), encode_vrfs_route_request(vrfs).ok
  PROVE  LET body == encode_vrfs_route_request(vrfs).val
         IN  body \in Seq(Byte) /\ decode_vrfs_route_request(body) = Ok(vrfs)
<1> DEFINE ss == [i \in DOMAIN vrfs |-> EncodeVrf(vrfs[i])]
           c == ConcatMap(EncodeVrf, vrfs)
           t == <<SINGLE_ROUTE>>
           body == encode_vrfs_route_request(vrfs).val
           n == Len(vrfs)
           read == [pos \in 0 .. Len(c) - 1 |-> VrfAt(Rest(c, pos))]
<1>1. c = FlattenSeq(ss)
  BY DEF ConcatMap
<1>2. body = t \o c /\ \A i \in DOMAIN vrfs : PrefixesValid(vrfs[i].prefixes)
  BY DEF encode_vrfs_route_request, Ok, Err
<1>3. /\ n \in Nat /\ DOMAIN vrfs = 1 .. n
      /\ \A i \in 1 .. n : vrfs[i] \in VrfRequests /\ PrefixesValid(vrfs[i].prefixes)
  <2>1. n \in Nat /\ DOMAIN vrfs = 1 .. n /\ \A i \in 1 .. n : vrfs[i] \in VrfRequests
    OBVIOUS
  <2> QED BY <2>1, <1>2
<1>4. ASSUME NEW i \in 1 .. n
      PROVE  ss[i] = EncodeVrf(vrfs[i]) /\ ss[i] \in Seq(Byte) /\ Len(ss[i]) > 0
  <2> DEFINE v == vrfs[i]
             a == v.vrfs_name
             e == EncodeInterface(v)
  <2>1. v \in VrfRequests
    BY <1>3
  <2> HIDE DEF v
  <2>2. e \in Seq(Byte)
    BY <2>1, InterfaceShape
  <2>3. a \in Seq(Byte) /\ Len(a) = VRFS_NAME_SIZE
    <3>1. a \in [1 .. VRFS_NAME_SIZE -> Byte]
      BY <2>1 DEF VrfRequests
    <3> HIDE DEF a
    <3> QED BY <3>1, SizeFacts, ArrayIsSequence
  <2>4. EncodeVrf(v) = a \o e
    BY DEF EncodeVrf
  <2> HIDE DEF a, e
  <2>5. a \o e \in Seq(Byte) /\ Len(a \o e) = Len(a) + Len(e)
    BY <2>2, <2>3, JoinedLen, Zenon
  <2>6. Len(a) + Len(e) > 0
    BY <2>2, <2>3, SizeFacts
  <2>7. ss[i] = EncodeVrf(v)
    BY <1>3 DEF v
  <2> QED BY <2>4, <2>5, <2>6, <2>7 DEF v
<1>5. ss \in Seq(Seq(Byte)) /\ Len(ss) = n
  <2>1. ss \in [1 .. n -> Seq(Byte)]
    BY <1>3, <1>4
  <2> HIDE DEF ss
  <2> QED BY <2>1, <1>3
<1> HIDE DEF ss, c, n, body
<1>6. c \in Seq(Byte)
  BY <1>1, <1>5, Flattened
<1>7. PICK off : Laid(ss, off)
  BY <1>5, Flattened
<1>8. /\ off \in [0 .. n -> Nat] /\ off[0] = 0 /\ off[n] = Len(c)
      /\ \A k \in 1 .. n :
           /\ off[k] = off[k - 1] + Len(ss[k]) /\ off[k] <= Len(c)
           /\ \A i \in 1 .. Len(ss[k]) : c[off[k - 1] + i] = ss[k][i]
  BY <1>1, <1>5, <1>7 DEF Laid
<1>9. ASSUME NEW k \in 1 .. n PROVE read[off[k - 1]] = Item(vrfs[k], Len(ss[k]))
  <2> DEFINE o == off[k - 1]
  <2>1. /\ o \in Nat /\ o + Len(ss[k]) <= Len(c)
        /\ \A i \in 1 .. Len(ss[k]) : c[o + i] = ss[k][i]
    BY <1>3, <1>8
  <2> HIDE DEF o
  <2>2. At(c, o, ss[k])
    BY <2>1 DEF At
  <2>3. Rest(c, o) \in Seq(Byte) /\ At(Rest(c, o), 0, ss[k])
    BY <2>2, <1>4, <1>6, AtRest
  <2>4. VrfAt(Rest(c, o)) = Item(vrfs[k], Len(ss[k]))
    BY <2>3, <1>3, <1>4, VrfDecoded
  <2>5. o \in 0 .. Len(c) - 1
    <3>1. Len(ss[k]) \in Nat /\ Len(ss[k]) > 0 /\ Len(c) \in Nat
      BY <1>4, <1>6
    <3> QED BY <3>1, <2>1
  <2>6. read[o] = VrfAt(Rest(c, o))
    BY <2>5
  <2> QED BY <2>4, <2>6 DEF o
<1> HIDE DEF read
<1>10. Finds(Byte, ss, off, VrfRequests, vrfs, read)
  <2>1. \A k \in 1 .. Len(ss) : Len(ss[k]) > 0 /\ read[off[k - 1]] = Item(vrfs[k], Len(ss[k]))
    BY <1>4, <1>5, <1>9
  <2>2. Len(vrfs) = Len(ss)
    BY <1>5 DEF n
  <2> QED BY <2>1, <2>2, <1>5, <1>7 DEF Finds
<1>11. ReadBack(ss, vrfs, read)
  BY <1>10, AllRead
<1>12. DecodeVrfs(c) = Ok(vrfs)
  BY <1>1, <1>11 DEF DecodeVrfs, Complete, read, ReadBack
<1>13. t \in Seq(Byte) /\ Len(t) = 1 /\ t[1] = SINGLE_ROUTE
  BY WordFacts DEF SINGLE_ROUTE
<1> HIDE DEF t
<1>14. /\ body \in Seq(Byte) /\ Len(body) = 1 + Len(c) /\ At(body, 0, t)
       /\ SubSeq(body, 2, Len(body)) = c
  <2>1. t \o c \in Seq(Byte) /\ Len(t \o c) = Len(t) + Len(c)
    <3>1. t \in Seq(Byte)
      BY <1>13
    <3> QED BY <3>1, <1>6, JoinedLen
  <2>2. At(t \o c, 0, t)
    BY <1>6, <1>13, AtStart
  <2>3. SubSeq(t \o c, Len(t) + 1, Len(t \o c)) = c
    BY <1>6, <1>13, JoinedParts
  <2>4. Len(t) + 1 = 2
    BY <1>13
  <2> QED BY <2>1, <2>2, <2>3, <2>4, <1>2, <1>13, Zenon
<1>15. body # <<>> /\ body[1] = SINGLE_ROUTE
  <2>1. body[0 + 1] = t[1] /\ Len(body) # 0
    BY <1>6, <1>13, <1>14 DEF At
  <2> QED BY <2>1, <1>13, <1>14
<1>16. Tail(body) = c
  BY <1>14, <1>15
<1>17. decode_vrfs_route_request(body) = Ok(vrfs)
  BY <1>12, <1>15, <1>16, Zenon DEF decode_vrfs_route_request
<1> QED BY <1>14, <1>17 DEF body

\* 32 bits hold the length of anything a 16-bit length admits, with its header.
LEMMA WordIsBig == Word * Word > Word + 16
<1>1. Base \in Nat /\ Base > 5
  BY MessageAssumption, WordFacts DEF MsgTypes, ERROR
<1>2. PICK d \in Nat : Base = 6 + d
  <2>1. Base - 6 \in Nat /\ Base = 6 + (Base - 6)
    BY <1>1
  <2> QED BY <2>1
<1>3. Word = 36 + 12 * d + d * d /\ d * d \in Nat
  <2>1. (6 + d) * (6 + d) = 36 + 12 * d + d * d /\ d * d \in Nat
    BY SMTT(30)
  <2> QED BY <2>1, <1>2, WordFacts
<1>4. PICK e \in Nat : Word = 36 + e
  BY <1>3
<1>5. Word * Word = 36 * Word + e * Word /\ e * Word \in Nat
  <2>1. (36 + e) * (36 + e) = 36 * (36 + e) + e * (36 + e) /\ e * (36 + e) \in Nat
    BY SMTT(30)
  <2> QED BY <2>1, <1>4
<1>6. 36 * Word > Word + 16
  BY <1>4
<1> QED BY <1>4, <1>5, <1>6, WordFacts

\* The server decodes the request that was encoded, or refuses one that
\* cannot be carried.
THEOREM RequestDecoded ==
  ASSUME NEW c \in Nat, NEW vrfs \in Seq(VrfRequests)
  PROVE  LET f == RequestFrame(c, vrfs)
             r == DecodedRequest(f)
         IN  /\ Framed(f)
             /\ r.ok => r.val = vrfs
             /\ ~r.ok => ~Carried(vrfs)
<1> DEFINE payload == encode_vrfs_route_request(vrfs)
           body == PayloadOf(payload)
           command == Command(body)
           block == encode_exchange(command)
           data == encode_message(make_message(DATA, c, block))
           f == RequestFrame(c, vrfs)
           P == decode_packet(f)
           M == decode_message(data)
           X == decode_exchange(block)
           C == decode_commands(command)
           V == decode_vrfs_route_request(body)
<1>1. f = encode_packet(Packet(c, data))
  BY DEF RequestFrame, make_data, make_route_add_vrfs, Command
<1>2. /\ body \in Seq(Byte)
      /\ payload.ok => body = payload.val /\ V = Ok(vrfs)
      /\ ~payload.ok => body = <<>>
  <2>1. CASE payload.ok
    BY <2>1, PayloadDecoded DEF PayloadOf
  <2>2. CASE ~payload.ok
    BY <2>2 DEF PayloadOf
  <2> QED BY <2>1, <2>2
<1> HIDE DEF payload, body, V
<1>3. command \in Seq(Byte) /\ Len(command) = 3 + Len(body)
  BY <1>2, CommandShape DEF CMD_HEADER_SIZE
<1>4. Len(body) < Word => C.ok /\ C.val # <<>> /\ C.val[1].raw_payload = body
  BY <1>2, CommandDecoded
<1> HIDE DEF command, C
<1>5. /\ block \in Seq(Byte) /\ Len(block) = 6 + Len(command)
      /\ X.ok <=> 6 + Len(command) < Word
      /\ X.ok => X.val = command
  BY <1>3, ExchangeDecoded DEF EXCHANGE_MIN_SIZE
<1> HIDE DEF block, X
<1>6. data \in Seq(Byte) /\ Len(data) = 4 + Len(block) /\ M.ok /\ M.val.payload = block
  <2>1. DATA \in MsgTypes
    BY DEF MsgTypes
  <2> QED BY <2>1, <1>5, MessageDecoded DEF MSG_HEADER_SIZE
<1> HIDE DEF data, M
<1>7. Framed(f) /\ (P.ok => P.val.data = data) /\ (12 + Len(data) < Word * Word => P.ok)
  <2> DEFINE g == encode_packet(Packet(c, data))
  <2>1. /\ Framed(g)
        /\ decode_packet(g).ok => decode_packet(g).val.data = data
        /\ MIN_PAYLOAD + Len(data) < Word * Word => decode_packet(g).ok
    BY <1>6, PacketDecoded
  <2>2. f = g
    BY <1>1
  <2>3. MIN_PAYLOAD = 12
    BY DEF MIN_PAYLOAD, HEADER_SIZE, CRC_SIZE
  <2> HIDE DEF f, g
  <2> QED BY <2>1, <2>2, <2>3
<1> HIDE DEF f
<1>8. /\ Len(body) \in Nat /\ Word \in Nat
      /\ Carried(vrfs) <=> payload.ok /\ 9 + Len(payload.val) < Word
  BY <1>2, WordFacts DEF Carried, payload, EXCHANGE_MIN_SIZE, CMD_HEADER_SIZE
\* What fits the block fits the packet.
<1>9. ASSUME Carried(vrfs) PROVE P.ok /\ X.ok
  <2>1. 9 + Len(body) < Word
    BY <1>2, <1>8, <1>9
  <2>2. 12 + Len(data) < Word * Word
    BY <2>1, <1>3, <1>5, <1>6, <1>8, WordIsBig, WordFacts
  <2> QED BY <2>1, <2>2, <1>3, <1>5, <1>7
<1>10. CASE ~P.ok
  <2>1. DecodedRequest(f) = P
    BY <1>10 DEF DecodedRequest, AndThen, P
  <2> QED BY <2>1, <1>7, <1>9, <1>10 DEF f
<1>11. CASE P.ok /\ ~X.ok
  <2>1. DecodedRequest(f) = X
    <3>1. decode_message(P.val.data).ok /\ decode_exchange(decode_message(P.val.data).val.payload) = X
      BY <1>6, <1>7, <1>11 DEF M, X
    <3> QED BY <3>1, <1>11 DEF DecodedRequest, AndThen, P
  <2> QED BY <2>1, <1>7, <1>9, <1>11 DEF f
<1>12. CASE P.ok /\ X.ok
  <2>1. Len(body) < Word
    BY <1>3, <1>5, <1>8, <1>12
  <2>2. C.ok /\ C.val # <<>> /\ C.val[1].raw_payload = body
    BY <2>1, <1>4
  <2>3. DecodedRequest(f) = V
    <3>1. /\ decode_message(P.val.data).ok
          /\ decode_exchange(decode_message(P.val.data).val.payload) = X
      BY <1>6, <1>7, <1>12 DEF M, X
    <3>2. decode_commands(X.val) = C
      BY <1>5, <1>12 DEF C
    <3> QED BY <3>1, <3>2, <2>2, <1>12 DEF DecodedRequest, AndThen, P, V
  <2>4. CASE payload.ok
    BY <2>3, <2>4, <1>2, <1>7 DEF Ok, f
  <2>5. CASE ~payload.ok
    <3>1. ~V.ok
      BY <2>5, <1>2 DEF V, decode_vrfs_route_request, Err
    <3> QED BY <3>1, <2>3, <2>5, <1>7, <1>8 DEF f
  <2> QED BY <2>4, <2>5
<1> QED BY <1>10, <1>11, <1>12

-----------------------------------------------------------------------------
(* The way of a request to the server.                                      *)

\* The frame of request c, and how much of it has reached the server's side.
RequestOf(c) == RequestFrame(c, reqs[c])
Sent(c) == srv[c].rx \o conn[c].up

ConnRecord(c) ==
  /\ conn[c] = [state |-> conn[c].state, up |-> conn[c].up, down |-> conn[c].down]
  /\ conn[c].state \in {"none", "open", "closed", "dead"} /\ conn[c].up \in Seq(Byte)
SrvRecord(c) ==
  /\ srv[c] = [phase |-> srv[c].phase, rx |-> srv[c].rx, req |-> srv[c].req, done |-> srv[c].done]
  /\ srv[c].phase \in {"waiting", "adding", "answered", "refused", "lost"}
  /\ srv[c].rx \in Seq(Byte)

ClientInv ==
  /\ cl = [pc |-> cl.pc, id |-> cl.id, out |-> cl.out, buf |-> cl.buf]
  /\ cl.pc \in {"idle", "connect", "send", "recv"} /\ cl.id \in Nat /\ cl.out \in Seq(Byte)
  /\ cl.pc # "idle" => cl.id = Len(reqs) /\ cl.id \in Ids
  /\ reqs \in Seq(Requests) /\ Len(reqs) <= MaxRequests
TablesInv ==
  /\ conn = [c \in Ids |-> conn[c]] /\ srv = [c \in Ids |-> srv[c]]
  /\ \A c \in Ids : ConnRecord(c) /\ SrvRecord(c)

\* A request that has not been connected has left no trace at the server.
UntouchedInv(c) ==
  /\ c > Len(reqs) => conn[c].state = "none"
  /\ conn[c].state = "none" =>
       conn[c].up = <<>> /\ srv[c].rx = <<>> /\ srv[c].phase = "waiting"

\* Until the server looks for a frame, what it has been sent begins the
\* frame of the request; the client still holds the rest.
StreamInv(c) ==
  /\ srv[c].phase = "waiting" => srv[c].req = <<>>
  /\ c <= Len(reqs) /\ srv[c].phase = "waiting" => Begins(Sent(c), RequestOf(c))
  /\ cl.pc \in {"connect", "send"} /\ cl.id = c /\ srv[c].phase = "waiting" =>
       Sent(c) \o cl.out = RequestOf(c)
HandledInv(c) ==
  /\ srv[c].req # <<>> \/ srv[c].phase \in {"adding", "answered"} =>
       c <= Len(reqs) /\ srv[c].req = reqs[c]
  /\ srv[c].phase = "refused" => c <= Len(reqs) /\ ~Carried(reqs[c])

RequestInv ==
  /\ ClientInv /\ TablesInv
  /\ \A c \in Ids : UntouchedInv(c) /\ StreamInv(c) /\ HandledInv(c)

\* An id is a positive number.
LEMMA IdsFacts == Ids \subseteq Nat /\ \A c \in Ids : c \in Nat /\ c > 0 /\ c <= MaxRequests
BY ExchangeAssumption DEF Ids

\* A request that was processed is one that may be given.
LEMMA RequestsOf ==
  ASSUME reqs \in Seq(Requests), NEW c \in Nat, c > 0, c <= Len(reqs)
  PROVE  reqs[c] \in Requests /\ reqs[c] \in Seq(VrfRequests)
<1>1. reqs[c] \in Requests
  OBVIOUS
<1> QED BY <1>1, RequestAssumption

\* A sequence is its first n elements and the others.
LEMMA Cut ==
  ASSUME NEW S, NEW s \in Seq(S), NEW n \in 0 .. Len(s)
  PROVE  LET p == SubSeq(s, 1, n)
             q == SubSeq(s, n + 1, Len(s))
         IN  p \in Seq(S) /\ q \in Seq(S) /\ p \o q = s
<1>1. 1 \in 1 .. Len(s) + 1 /\ n \in 1 - 1 .. Len(s) /\ Len(s) \in n .. Len(s)
  OBVIOUS
<1>2. SubSeq(s, 1, n) \o SubSeq(s, n + 1, Len(s)) = SubSeq(s, 1, Len(s))
  BY <1>1, ConcatAdjacentSubSeq
<1>3. SubSeq(s, 1, Len(s)) = s
  BY SubSeqFull
<1>4. SubSeq(s, 1, n) \in Seq(S) /\ SubSeq(s, n + 1, Len(s)) \in Seq(S)
  OBVIOUS
<1> QED BY <1>2, <1>3, <1>4

\* Concatenation is associative, for bytes.
LEMMA Joined3 ==
  ASSUME NEW s \in Seq(Byte), NEW t \in Seq(Byte), NEW u \in Seq(Byte)
  PROVE  (s \o t) \o u = s \o (t \o u)
BY ConcatAssociative

\* The first part of a sequence is how it begins.
LEMMA Shorter ==
  ASSUME NEW s \in Seq(Byte), NEW t \in Seq(Byte), NEW f, s \o t = f
  PROVE  Begins(s, f)
<1>1. Len(s \o t) = Len(s) + Len(t) /\ \A i \in 1 .. Len(s) : (s \o t)[i] = s[i]
  BY Joined
<1>2. Len(t) \in Nat /\ Len(s) \in Nat
  OBVIOUS
<1> QED BY <1>1, <1>2 DEF Begins

\* A part of a beginning is a beginning.
LEMMA BeginsShorter ==
  ASSUME NEW s \in Seq(Byte), NEW t \in Seq(Byte), NEW f \in Seq(Byte), Begins(s \o t, f)
  PROVE  Begins(s, f)
<1>1. Len(s \o t) = Len(s) + Len(t) /\ \A i \in 1 .. Len(s) : (s \o t)[i] = s[i]
  BY Joined
<1>2. Len(s \o t) <= Len(f) /\ \A i \in 1 .. Len(s \o t) : (s \o t)[i] = f[i]
  BY DEF Begins
<1>3. Len(t) \in Nat /\ Len(s) \in Nat /\ Len(f) \in Nat
  OBVIOUS
<1>4. \A i \in 1 .. Len(s) : s[i] = f[i]
  <2>1. ASSUME NEW i \in 1 .. Len(s) PROVE s[i] = f[i]
    <3>1. i \in 1 .. Len(s \o t)
      BY <1>1, <1>3
    <3> QED BY <3>1, <1>1, <1>2, Zenon
  <2> QED BY <2>1
<1>5. Len(s) <= Len(f)
  BY <1>1, <1>2, <1>3
<1> QED BY <1>4, <1>5 DEF Begins

\* No frame is found before the first byte.
LEMMA NoFrameInNothing == ~find_frame(<<>>).ok
BY DEF find_frame, Err

\* Initially no request is on its way.
LEMMA InitRequest == Init => RequestInv
<1> SUFFICES ASSUME Init PROVE RequestInv
  OBVIOUS
<1>1. ClientInv
  BY ExchangeAssumption DEF Init, ClientInv, Idle
<1>2. TablesInv
  <2>1. ASSUME NEW c \in Ids PROVE conn[c] = NoConn /\ srv[c] = Unheard
    BY DEF Init
  <2>2. ASSUME NEW c \in Ids PROVE ConnRecord(c) /\ SrvRecord(c)
    <3>1. conn[c] = NoConn /\ srv[c] = Unheard
      BY <2>1
    <3>2. <<>> \in Seq(Byte)
      OBVIOUS
    <3>3. ConnRecord(c)
      BY <3>1, <3>2 DEF ConnRecord, NoConn
    <3>4. SrvRecord(c)
      BY <3>1, <3>2 DEF SrvRecord, Unheard
    <3> QED BY <3>3, <3>4
  <2>3. conn = [c \in Ids |-> conn[c]] /\ srv = [c \in Ids |-> srv[c]]
    BY DEF Init
  <2> QED BY <2>2, <2>3 DEF TablesInv
<1>3. ASSUME NEW c \in Ids PROVE UntouchedInv(c) /\ StreamInv(c) /\ HandledInv(c)
  <2>1. c > 0 /\ c \in Nat
    BY IdsFacts
  <2>2. conn[c] = NoConn /\ srv[c] = Unheard /\ reqs = <<>> /\ cl = Idle
    BY DEF Init
  <2>3. UntouchedInv(c)
    BY <2>1, <2>2 DEF UntouchedInv, NoConn, Unheard
  <2>4. StreamInv(c)
    BY <2>1, <2>2 DEF StreamInv, Unheard, Idle
  <2>5. HandledInv(c)
    BY <2>1, <2>2 DEF HandledInv, Unheard
  <2> QED BY <2>3, <2>4, <2>5
<1> QED BY <1>1, <1>2, <1>3 DEF RequestInv

\* Nobody but the client and the server touches a connection.
LEMMA ToolsStayOut == ToolStep => UNCHANGED <<cl, reqs, result, conn, srv, faults>>
<1> SUFFICES ASSUME ToolStep PROVE UNCHANGED <<cl, reqs, result, conn, srv, faults>>
  OBVIOUS
<1>1. CASE \E p \in ToolAdds : ToolAdd(p)
  BY <1>1 DEF ToolAdd, RoutesAre, ToolDid
<1>2. CASE \E p \in ToolDels : ToolDel(p)
  BY <1>2 DEF ToolDel, RoutesAre, ToolDid
<1>3. CASE \E is \in ToolPayloads : ToolPayload(is)
  BY <1>3 DEF ToolPayload, RoutesAre, ToolDid
<1>4. CASE \E p \in ToolReplaces : ToolReplace(p)
  BY <1>4 DEF ToolReplace, RoutesAre, ToolDid
<1>5. CASE ToolList
  BY <1>5 DEF ToolList, ToolDid
<1>6. CASE \E name \in DOMAIN InitialKernel.links : ToolShow(name)
  BY <1>6 DEF ToolShow, ToolDid
<1>7. CASE \E name \in DOMAIN kernel.links : LinkGone(name)
  BY <1>7 DEF LinkGone, ToolDid
<1> QED BY <1>1, <1>2, <1>3, <1>4, <1>5, <1>6, <1>7 DEF ToolStep

\* Steps that leave client, connections and server alone keep the invariant.
LEMMA RequestUnchanged ==
  ASSUME RequestInv, UNCHANGED <<cl, reqs, conn, srv>>
  PROVE  RequestInv'
BY DEF RequestInv, ClientInv, TablesInv, ConnRecord, SrvRecord, UntouchedInv, StreamInv,
       HandledInv, Sent, RequestOf

\* What the client does after it has sent, or when it gives up.
LEMMA ClientMoves ==
  ASSUME RequestInv, ClientInv', UNCHANGED <<reqs, srv>>,
         cl'.pc \in {"connect", "send"} =>
           cl.pc \in {"connect", "send"} /\ cl'.id = cl.id /\ cl'.out = cl.out,
         conn' = [d \in Ids |-> conn'[d]],
         \A d \in Ids : /\ ConnRecord(d)' /\ conn'[d].up = conn[d].up
                        /\ conn'[d].state = "none" => conn[d].state = "none"
                        /\ d > Len(reqs) => conn'[d].state = conn[d].state
  PROVE  RequestInv'
<1>1. TablesInv'
  BY DEF RequestInv, TablesInv, SrvRecord
<1>2. ASSUME NEW c \in Ids PROVE UntouchedInv(c)' /\ StreamInv(c)' /\ HandledInv(c)'
  <2>1. UntouchedInv(c) /\ StreamInv(c) /\ HandledInv(c)
    BY DEF RequestInv
  <2>2. UntouchedInv(c)'
    BY <2>1 DEF UntouchedInv
  <2>3. Sent(c)' = Sent(c) /\ RequestOf(c)' = RequestOf(c)
    BY DEF Sent, RequestOf
  <2>4. StreamInv(c)'
    BY <2>1, <2>3 DEF StreamInv
  <2>5. HandledInv(c)'
    BY <2>1 DEF HandledInv
  <2> QED BY <2>2, <2>4, <2>5
<1> QED BY <1>1, <1>2 DEF RequestInv

\* A request ends: the client forgets it, the server's side stays.
LEMMA RequestEnded ==
  ASSUME RequestInv, NEW r, EndRequest(r), UNCHANGED srv,
         UNCHANGED conn \/ (cl.pc # "idle" /\ CloseConn(cl.id))
  PROVE  RequestInv'
<1>1. cl' = Idle /\ reqs' = reqs
  BY DEF EndRequest
<1>2. conn = [d \in Ids |-> conn[d]] /\ \A d \in Ids : ConnRecord(d)
  BY DEF RequestInv, TablesInv
<1>3. ClientInv'
  BY <1>1 DEF RequestInv, ClientInv, Idle
<1>4. CASE UNCHANGED conn
  BY <1>1, <1>2, <1>3, <1>4, ClientMoves DEF Idle, ConnRecord
<1>5. CASE cl.pc # "idle" /\ CloseConn(cl.id)
  <2> DEFINE c == cl.id
  <2>1. c \in Ids /\ c = Len(reqs) /\ c \in Nat
    BY <1>5, IdsFacts DEF RequestInv, ClientInv
  <2> HIDE DEF c
  <2>2. conn' = [conn EXCEPT ![c] = [@ EXCEPT !.state = "closed", !.down = <<>>]]
    BY <1>5 DEF CloseConn, c
  <2>3. conn' = [d \in Ids |-> conn'[d]]
    BY <1>2, <2>2
  <2>4. conn'[c] = [conn[c] EXCEPT !.state = "closed", !.down = <<>>]
    BY <1>2, <2>1, <2>2
  <2>5. conn[c] = [state |-> conn[c].state, up |-> conn[c].up, down |-> conn[c].down]
        /\ conn[c].up \in Seq(Byte)
    BY <1>2, <2>1 DEF ConnRecord
  <2>6. conn'[c] = [state |-> "closed", up |-> conn[c].up, down |-> <<>>]
    BY <2>4, <2>5
  <2>7. ASSUME NEW d \in Ids, d # c PROVE conn'[d] = conn[d]
    BY <1>2, <2>2, <2>7
  <2>8. ASSUME NEW d \in Ids
        PROVE  /\ ConnRecord(d)' /\ conn'[d].up = conn[d].up
               /\ conn'[d].state = "none" => conn[d].state = "none"
               /\ d > Len(reqs) => conn'[d].state = conn[d].state
    <3>1. CASE d = c
      BY <3>1, <2>1, <2>5, <2>6 DEF ConnRecord
    <3>2. CASE d # c
      BY <3>2, <1>2, <2>7 DEF ConnRecord
    <3> QED BY <3>1, <3>2
  <2>9. ~(cl'.pc \in {"connect", "send"})
    BY <1>1 DEF Idle
  <2> QED BY <1>1, <1>3, <2>3, <2>8, <2>9, ClientMoves
<1> QED BY <1>4, <1>5

\* A new request has not been sent yet.
LEMMA RequestBegun ==
  ASSUME RequestInv, NEW vrfs \in Requests, processRequest(vrfs)
  PROVE  RequestInv'
<1> DEFINE id == Len(reqs) + 1
<1>1. /\ cl.pc = "idle" /\ Len(reqs) < MaxRequests /\ reqs \in Seq(Requests)
      /\ cl' = [pc |-> "connect", id |-> id, out |-> RequestFrame(id, vrfs), buf |-> <<>>]
      /\ reqs' = Append(reqs, vrfs) /\ conn' = conn /\ srv' = srv
  BY DEF processRequest, RequestInv, ClientInv
<1>2. /\ id \in Nat /\ id \in Ids /\ Len(reqs) \in Nat /\ Len(reqs') = id /\ reqs' \in Seq(Requests)
      /\ reqs'[id] = vrfs /\ \A c \in 1 .. Len(reqs) : reqs'[c] = reqs[c]
  BY <1>1, ExchangeAssumption DEF Ids
<1>3. RequestFrame(id, vrfs) \in Seq(Byte)
  <2>1. vrfs \in Seq(VrfRequests)
    BY RequestAssumption
  <2> QED BY <2>1, <1>2, RequestDecoded DEF Framed
<1>4. ClientInv'
  <2>1. id <= MaxRequests
    BY <1>2, IdsFacts
  <2> QED BY <2>1, <1>1, <1>2, <1>3 DEF ClientInv
<1>5. TablesInv'
  BY <1>1 DEF RequestInv, TablesInv, ConnRecord, SrvRecord
<1>6. ASSUME NEW c \in Ids PROVE UntouchedInv(c)' /\ StreamInv(c)' /\ HandledInv(c)'
  <2>1. UntouchedInv(c) /\ StreamInv(c) /\ HandledInv(c) /\ ConnRecord(c) /\ SrvRecord(c)
    BY DEF RequestInv, TablesInv
  <2>2. c \in Nat /\ c > 0
    BY IdsFacts
  <2>3. UntouchedInv(c)'
    BY <2>1, <2>2, <1>1, <1>2 DEF UntouchedInv
  <2>4. Sent(c)' = Sent(c) /\ (c <= Len(reqs) => RequestOf(c)' = RequestOf(c))
    BY <2>2, <1>1, <1>2 DEF Sent, RequestOf
  <2>5. HandledInv(c)'
    <3>1. c <= Len(reqs) => reqs'[c] = reqs[c]
      BY <2>2, <1>2
    <3> QED BY <3>1, <2>1, <2>2, <1>1, <1>2 DEF HandledInv
  <2>6. StreamInv(c)'
    <3>1. CASE c = id
      <4>1. conn[c].up = <<>> /\ srv[c].rx = <<>>
        BY <3>1, <2>1, <1>2 DEF UntouchedInv
      <4>2. Sent(c)' = <<>> /\ RequestOf(c)' = RequestFrame(id, vrfs)
        BY <4>1, <3>1, <2>4, <1>2 DEF Sent, RequestOf
      <4>3. Sent(c)' \o cl'.out = RequestOf(c)' /\ Begins(Sent(c)', RequestOf(c)')
        BY <4>2, <1>1, <1>3 DEF Begins
      <4> QED BY <4>3, <2>1, <1>1 DEF StreamInv
    <3>2. CASE c # id
      <4>1. c <= Len(reqs') => c <= Len(reqs)
        BY <3>2, <2>2, <1>2
      <4> QED BY <4>1, <3>2, <2>1, <2>4, <1>1 DEF StreamInv
    <3> QED BY <3>1, <3>2
  <2> QED BY <2>3, <2>5, <2>6
<1> QED BY <1>4, <1>5, <1>6 DEF RequestInv

\* Its connection opens with nothing in it.
LEMMA RequestConnected ==
  ASSUME RequestInv, nb_connect
  PROVE  RequestInv'
<1>1. /\ cl.pc = "connect" /\ cl' = [cl EXCEPT !.pc = "send"] /\ reqs' = reqs /\ srv' = srv
      /\ conn' = [conn EXCEPT ![cl.id].state = "open"]
      /\ ClientInv /\ TablesInv
  BY DEF nb_connect, RequestInv
<1>2. cl.id = Len(reqs) /\ cl.id \in Ids
  BY <1>1 DEF ClientInv
<1>3. cl' = [pc |-> "send", id |-> cl.id, out |-> cl.out, buf |-> cl.buf]
  BY <1>1 DEF ClientInv
<1>4. conn = [d \in Ids |-> conn[d]] /\ \A d \in Ids : ConnRecord(d)
  BY <1>1 DEF TablesInv
<1>5. conn'[cl.id] = [state |-> "open", up |-> conn[cl.id].up, down |-> conn[cl.id].down]
  BY <1>1, <1>2, <1>4 DEF ConnRecord
<1>6. ASSUME NEW d \in Ids, d # cl.id PROVE conn'[d] = conn[d]
  BY <1>1, <1>4, <1>6
<1>7. ClientInv'
  BY <1>1, <1>3 DEF ClientInv
<1>8. TablesInv'
  <2>1. conn' = [d \in Ids |-> conn'[d]]
    BY <1>1, <1>4
  <2>2. ASSUME NEW d \in Ids PROVE ConnRecord(d)'
    BY <1>4, <1>5, <1>6 DEF ConnRecord
  <2> QED BY <2>1, <2>2, <1>1 DEF TablesInv, SrvRecord
<1>9. ASSUME NEW d \in Ids
      PROVE  /\ ConnRecord(d)' /\ conn'[d].up = conn[d].up
             /\ conn'[d].state = "none" => conn[d].state = "none"
             /\ d > Len(reqs) => conn'[d].state = conn[d].state
  <2>1. cl.id \in Nat /\ d \in Nat
    BY <1>2, IdsFacts
  <2> QED BY <2>1, <1>2, <1>4, <1>5, <1>6, <1>8 DEF TablesInv
<1>10. conn' = [d \in Ids |-> conn'[d]]
  BY <1>8 DEF TablesInv
<1> QED BY <1>1, <1>3, <1>7, <1>9, <1>10, ClientMoves

\* The client sends what fits; the stream does not change.
LEMMA RequestSent ==
  ASSUME RequestInv, nb_send_all
  PROVE  RequestInv'
<1> DEFINE id == cl.id
           up == conn[id].up
           n == Min({Len(cl.out), SOCK_CAP - Len(up)})
           s1 == SubSeq(cl.out, 1, n)
           s2 == SubSeq(cl.out, n + 1, Len(cl.out))
           pc == IF n = Len(cl.out) THEN "recv" ELSE "send"
<1>1. /\ CanSend /\ conn' = [conn EXCEPT ![id].up = up \o s1]
      /\ cl' = [cl EXCEPT !.out = s2, !.pc = pc] /\ reqs' = reqs /\ srv' = srv
      /\ ClientInv /\ TablesInv
  BY DEF nb_send_all, RequestInv
<1>2. /\ cl.pc = "send" /\ id = Len(reqs) /\ id \in Ids /\ id \in Nat /\ cl.out \in Seq(Byte)
      /\ Len(up) < SOCK_CAP
  BY <1>1, IdsFacts DEF ClientInv, CanSend
<1>3. conn = [d \in Ids |-> conn[d]] /\ \A d \in Ids : ConnRecord(d)
  BY <1>1 DEF TablesInv
<1>4. up \in Seq(Byte)
  BY <1>2, <1>3 DEF ConnRecord
<1>5. n \in 0 .. Len(cl.out)
  <2> DEFINE a == Len(cl.out)
             b == SOCK_CAP - Len(up)
  <2>1. a \in Nat /\ b \in Nat
    BY <1>2, <1>4, ExchangeAssumption
  <2> HIDE DEF a, b
  <2>2. Min({a, b}) = IF a <= b THEN a ELSE b
    BY <2>1 DEF Min
  <2> QED BY <2>1, <2>2 DEF a, b
<1> HIDE DEF n
<1>6. s1 \in Seq(Byte) /\ s2 \in Seq(Byte) /\ s1 \o s2 = cl.out
  BY <1>2, <1>5, Cut
<1>7. cl' = [pc |-> pc, id |-> id, out |-> s2, buf |-> cl.buf]
  BY <1>1 DEF ClientInv
<1> HIDE DEF s1, s2, up
<1>8. up \o s1 \in Seq(Byte)
  BY <1>4, <1>6
<1>9. conn'[id] = [state |-> conn[id].state, up |-> up \o s1, down |-> conn[id].down]
  <2>1. conn'[id] = [conn[id] EXCEPT !.up = up \o s1]
    BY <1>1, <1>2, <1>3
  <2>2. conn[id] = [state |-> conn[id].state, up |-> conn[id].up, down |-> conn[id].down]
    BY <1>2, <1>3 DEF ConnRecord
  <2> QED BY <2>1, <2>2
<1>10. ASSUME NEW d \in Ids, d # id PROVE conn'[d] = conn[d]
  BY <1>1, <1>3, <1>10
<1>11. ClientInv'
  BY <1>1, <1>2, <1>6, <1>7 DEF ClientInv
<1>12. TablesInv'
  <2>1. conn' = [d \in Ids |-> conn'[d]]
    BY <1>1, <1>3
  <2>2. ASSUME NEW d \in Ids PROVE ConnRecord(d)'
    <3>1. CASE d = id
      <4>1. conn[id].state \in {"none", "open", "closed", "dead"}
        BY <1>2, <1>3 DEF ConnRecord
      <4> QED BY <4>1, <3>1, <1>8, <1>9 DEF ConnRecord
    <3>2. CASE d # id
      BY <3>2, <1>3, <1>10 DEF ConnRecord
    <3> QED BY <3>1, <3>2
  <2> QED BY <2>1, <2>2, <1>1 DEF TablesInv, SrvRecord
<1>13. ASSUME NEW c \in Ids PROVE UntouchedInv(c)' /\ StreamInv(c)' /\ HandledInv(c)'
  <2>1. UntouchedInv(c) /\ StreamInv(c) /\ HandledInv(c) /\ SrvRecord(c)
    BY <1>1 DEF RequestInv, TablesInv
  <2>2. RequestOf(c)' = RequestOf(c) /\ HandledInv(c)'
    BY <2>1, <1>1 DEF RequestOf, HandledInv
  <2>3. CASE c # id
    <3>1. conn'[c] = conn[c]
      BY <2>3, <1>10
    <3>2. UntouchedInv(c)' /\ StreamInv(c)'
      BY <3>1, <2>1, <2>2, <2>3, <1>1, <1>7 DEF UntouchedInv, StreamInv, Sent
    <3> QED BY <3>2, <2>2
  <2>4. CASE c = id
    <3>1. conn[c].state = "open" /\ c <= Len(reqs)
      BY <2>4, <1>1, <1>2 DEF CanSend
    <3>2. UntouchedInv(c)'
      BY <3>1, <2>4, <1>1, <1>2, <1>9 DEF UntouchedInv
    <3>3. ASSUME srv[c].phase = "waiting"
          PROVE  Sent(c)' \o s2 = RequestOf(c) /\ Begins(Sent(c)', RequestOf(c))
      <4> DEFINE rx == srv[c].rx
      <4>1. rx \in Seq(Byte) /\ Sent(c) = rx \o up /\ Sent(c)' = rx \o (up \o s1)
        <5>1. rx \in Seq(Byte)
          BY <2>1 DEF SrvRecord
        <5>2. Sent(c) = rx \o up
          BY <2>4 DEF Sent, up
        <5>3. conn'[c].up = up \o s1 /\ srv'[c].rx = rx
          BY <2>4, <1>1, <1>9
        <5> QED BY <5>1, <5>2, <5>3 DEF Sent
      <4>2. (rx \o up) \o (s1 \o s2) = RequestOf(c)
        BY <3>3, <4>1, <2>1, <2>4, <1>2, <1>6 DEF StreamInv
      <4> HIDE DEF rx
      <4>3. (rx \o (up \o s1)) \o s2 = (rx \o up) \o (s1 \o s2)
        <5>1. rx \in Seq(Byte) /\ up \in Seq(Byte) /\ s1 \in Seq(Byte) /\ s2 \in Seq(Byte)
          BY <4>1, <1>4, <1>6
        <5> HIDE DEF up, s1, s2
        <5>2. rx \o up \in Seq(Byte) /\ rx \o (up \o s1) = (rx \o up) \o s1
          BY <5>1, Joined3, JoinedLen
        <5>3. ((rx \o up) \o s1) \o s2 = (rx \o up) \o (s1 \o s2)
          BY <5>1, <5>2, Joined3, Zenon
        <5> QED BY <5>2, <5>3, Zenon
      <4>4. rx \o (up \o s1) \in Seq(Byte)
        BY <4>1, <1>8
      <4> QED BY <4>1, <4>2, <4>3, <4>4, <1>6, Shorter
    <3>4. StreamInv(c)'
      BY <3>3, <2>1, <2>2, <2>4, <1>1, <1>7 DEF StreamInv
    <3> QED BY <3>2, <3>4, <2>2
  <2> QED BY <2>3, <2>4
<1> QED BY <1>11, <1>12, <1>13 DEF RequestInv

\* Reading the reply: the client takes bytes from its end of the connection,
\* or has a frame and ends.
LEMMA RequestReceived ==
  ASSUME RequestInv, nb_recv_frame
  PROVE  RequestInv'
<1> DEFINE id == cl.id
           n == Min({Len(conn[id].down), RECV_MAX})
           buf == cl.buf \o SubSeq(conn[id].down, 1, n)
           rest == SubSeq(conn[id].down, n + 1, Len(conn[id].down))
           found == find_frame(buf)
<1>1. /\ cl.pc = "recv" /\ srv' = srv /\ ClientInv /\ TablesInv
      /\ IF found.ok
         THEN EndRequest(VerdictOf(ReplyMeaning(found.val))) /\ CloseConn(cl.id)
         ELSE /\ cl' = [cl EXCEPT !.buf = buf]
              /\ conn' = [conn EXCEPT ![cl.id].down = rest]
              /\ reqs' = reqs
  BY DEF nb_recv_frame, CanRecv, RequestInv
<1> HIDE DEF found, buf, rest, n
<1>2. CASE found.ok
  BY <1>1, <1>2, RequestEnded
<1>3. CASE ~found.ok
  <2>1. cl' = [cl EXCEPT !.buf = buf] /\ conn' = [conn EXCEPT ![id].down = rest] /\ reqs' = reqs
    BY <1>1, <1>3
  <2>2. id \in Ids /\ cl' = [pc |-> "recv", id |-> id, out |-> cl.out, buf |-> buf]
    BY <1>1, <2>1 DEF ClientInv
  <2>3. conn = [d \in Ids |-> conn[d]] /\ \A d \in Ids : ConnRecord(d)
    BY <1>1 DEF TablesInv
  <2>4. conn'[id] = [conn[id] EXCEPT !.down = rest]
    BY <2>1, <2>2, <2>3
  <2>5. conn[id] = [state |-> conn[id].state, up |-> conn[id].up, down |-> conn[id].down]
    BY <2>2, <2>3 DEF ConnRecord
  <2>6. conn'[id] = [state |-> conn[id].state, up |-> conn[id].up, down |-> rest]
    BY <2>4, <2>5
  <2>7. ASSUME NEW d \in Ids, d # id PROVE conn'[d] = conn[d]
    BY <2>1, <2>3, <2>7
  <2>8. ClientInv'
    BY <1>1, <2>1, <2>2 DEF ClientInv
  <2>9. conn' = [d \in Ids |-> conn'[d]]
    BY <2>1, <2>3
  <2>10. ASSUME NEW d \in Ids
         PROVE  /\ ConnRecord(d)' /\ conn'[d].up = conn[d].up
                /\ conn'[d].state = "none" => conn[d].state = "none"
                /\ d > Len(reqs) => conn'[d].state = conn[d].state
    BY <2>2, <2>3, <2>6, <2>7 DEF ConnRecord
  <2>11. ~(cl'.pc \in {"connect", "send"})
    BY <2>2
  <2> QED BY <1>1, <2>1, <2>8, <2>9, <2>10, <2>11, ClientMoves
<1> QED BY <1>2, <1>3

\* Every step of the client's thread.
LEMMA RequestClient ==
  ASSUME RequestInv, ClientStep
  PROVE  RequestInv'
<1>1. CASE ConnectFails
  BY <1>1, RequestEnded DEF ConnectFails
<1>2. CASE SendFails
  BY <1>2, RequestEnded DEF SendFails, SendGivesUp
<1>3. CASE RecvFails
  BY <1>3, RequestEnded DEF RecvFails, RecvGivesUp
<1> QED BY <1>1, <1>2, <1>3, RequestConnected, RequestSent, RequestReceived DEF ClientStep

\* The server works on one connection at a time.
LEMMA ServerMoves ==
  ASSUME RequestInv, NEW c \in Ids, UNCHANGED <<cl, reqs>>,
         conn' = [d \in Ids |-> conn'[d]], srv' = [d \in Ids |-> srv'[d]],
         \A d \in Ids : d # c => conn'[d] = conn[d] /\ srv'[d] = srv[d],
         ConnRecord(c)', SrvRecord(c)', UntouchedInv(c)', StreamInv(c)', HandledInv(c)'
  PROVE  RequestInv'
<1>1. ClientInv'
  BY DEF RequestInv, ClientInv
<1>2. ASSUME NEW d \in Ids, d # c
      PROVE  ConnRecord(d)' /\ SrvRecord(d)' /\ UntouchedInv(d)' /\ StreamInv(d)' /\ HandledInv(d)'
  <2>1. ConnRecord(d) /\ SrvRecord(d) /\ UntouchedInv(d) /\ StreamInv(d) /\ HandledInv(d)
    BY DEF RequestInv, TablesInv
  <2>2. conn'[d] = conn[d] /\ srv'[d] = srv[d] /\ cl' = cl /\ reqs' = reqs
    BY <1>2
  <2>3. ConnRecord(d)' /\ SrvRecord(d)'
    BY <2>1, <2>2 DEF ConnRecord, SrvRecord
  <2>4. UntouchedInv(d)' /\ HandledInv(d)'
    BY <2>1, <2>2 DEF UntouchedInv, HandledInv
  <2>5. StreamInv(d)'
    BY <2>1, <2>2 DEF StreamInv, Sent, RequestOf
  <2> QED BY <2>3, <2>4, <2>5
<1>3. TablesInv'
  BY <1>2 DEF TablesInv
<1> QED BY <1>1, <1>2, <1>3 DEF RequestInv

\* What is known of one connection, and of the parts a step leaves alone.
LEMMA OneConnection ==
  ASSUME RequestInv, NEW c \in Ids
  PROVE  /\ ConnRecord(c) /\ SrvRecord(c) /\ UntouchedInv(c) /\ StreamInv(c) /\ HandledInv(c)
         /\ conn = [d \in Ids |-> conn[d]] /\ srv = [d \in Ids |-> srv[d]]
         /\ c \in Nat /\ c > 0 /\ Len(reqs) \in Nat /\ reqs \in Seq(Requests)
         /\ c <= Len(reqs) => reqs[c] \in Requests /\ reqs[c] \in Seq(VrfRequests)
<1>1. reqs \in Seq(Requests) /\ Len(reqs) \in Nat /\ c \in Nat /\ c > 0
  BY IdsFacts DEF RequestInv, ClientInv
<1>2. c <= Len(reqs) => reqs[c] \in Requests /\ reqs[c] \in Seq(VrfRequests)
  BY <1>1, RequestsOf
<1> QED BY <1>1, <1>2 DEF RequestInv, TablesInv

\* What the server reads moves from the socket to its buffer.
LEMMA RequestRead ==
  ASSUME RequestInv, NEW c \in Ids, ServerRead(c)
  PROVE  RequestInv'
<1> DEFINE rx == srv[c].rx
           up == conn[c].up
<1>1. /\ srv[c].phase = "waiting" /\ up # <<>>
      /\ srv' = [srv EXCEPT ![c].rx = rx \o up] /\ conn' = [conn EXCEPT ![c].up = <<>>]
      /\ cl' = cl /\ reqs' = reqs
  BY DEF ServerRead
<1>2. /\ ConnRecord(c) /\ SrvRecord(c) /\ UntouchedInv(c) /\ StreamInv(c) /\ HandledInv(c)
      /\ conn = [d \in Ids |-> conn[d]] /\ srv = [d \in Ids |-> srv[d]]
  BY OneConnection
<1>3. rx \in Seq(Byte) /\ up \in Seq(Byte)
  BY <1>2 DEF ConnRecord, SrvRecord
<1> HIDE DEF rx, up
<1>4. rx \o up \in Seq(Byte)
  BY <1>3
<1>5. conn'[c] = [state |-> conn[c].state, up |-> <<>>, down |-> conn[c].down]
  BY <1>1, <1>2 DEF ConnRecord
<1>6. srv'[c] = [phase |-> "waiting", rx |-> rx \o up, req |-> srv[c].req, done |-> srv[c].done]
  BY <1>1, <1>2 DEF SrvRecord
<1>7. ASSUME NEW d \in Ids, d # c PROVE conn'[d] = conn[d] /\ srv'[d] = srv[d]
  BY <1>1, <1>2, <1>7
<1>8. conn' = [d \in Ids |-> conn'[d]] /\ srv' = [d \in Ids |-> srv'[d]]
  BY <1>1, <1>2
<1>9. ConnRecord(c)' /\ SrvRecord(c)'
  <2>1. <<>> \in Seq(Byte)
    OBVIOUS
  <2>2. conn[c].state \in {"none", "open", "closed", "dead"}
    BY <1>2 DEF ConnRecord
  <2> QED BY <2>1, <2>2, <1>4, <1>5, <1>6 DEF ConnRecord, SrvRecord
<1>10. UntouchedInv(c)'
  <2>1. conn[c].state # "none"
    BY <1>1, <1>2 DEF UntouchedInv, up
  <2> QED BY <2>1, <1>1, <1>2, <1>5, <1>6 DEF UntouchedInv
<1>11. Sent(c)' = Sent(c) /\ RequestOf(c)' = RequestOf(c)
  <2>1. (rx \o up) \o <<>> = rx \o up
    BY <1>4, ConcatEmptySeq
  <2>2. Sent(c)' = (rx \o up) \o <<>>
    BY <1>5, <1>6 DEF Sent
  <2>3. Sent(c) = rx \o up
    BY DEF Sent, rx, up
  <2>4. RequestOf(c)' = RequestOf(c)
    BY <1>1 DEF RequestOf
  <2> QED BY <2>1, <2>2, <2>3, <2>4
<1>12. StreamInv(c)' /\ HandledInv(c)'
  BY <1>1, <1>2, <1>6, <1>11 DEF StreamInv, HandledInv
<1> QED BY <1>1, <1>7, <1>8, <1>9, <1>10, <1>12, ServerMoves

\* A reply goes to the client's end of the connection only.
LEMMA ReplyMoves ==
  ASSUME RequestInv, NEW c \in Ids, NEW frm, Reply(c, frm)
  PROVE  /\ conn' = [d \in Ids |-> conn'[d]] /\ ConnRecord(c)'
         /\ conn'[c].state = conn[c].state /\ conn'[c].up = conn[c].up
         /\ \A d \in Ids : d # c => conn'[d] = conn[d]
<1> DEFINE down == IF conn[c].state = "open" THEN conn[c].down \o frm ELSE conn[c].down
<1>1. conn' = [conn EXCEPT ![c].down = down]
  BY DEF Reply
<1> HIDE DEF down
<1>2. ConnRecord(c) /\ conn = [d \in Ids |-> conn[d]]
  BY OneConnection
<1>3. conn'[c] = [state |-> conn[c].state, up |-> conn[c].up, down |-> down]
  <2>1. conn'[c] = [conn[c] EXCEPT !.down = down]
    BY <1>1, <1>2
  <2> QED BY <2>1, <1>2 DEF ConnRecord
<1> QED BY <1>1, <1>2, <1>3 DEF ConnRecord

\* The frame the server finds is the one the client made, so it decodes to
\* the request, or the request could not be carried.
LEMMA RequestHandled ==
  ASSUME RequestInv, NEW c \in Ids, ServerDecode(c)
  PROVE  RequestInv'
<1> DEFINE rx == srv[c].rx
           up == conn[c].up
           found == find_frame(rx)
           r == DecodedRequest(found.val)
<1>1. /\ srv[c].phase = "waiting" /\ found.ok /\ cl' = cl /\ reqs' = reqs
      /\ IF r.ok
         THEN /\ srv' = [srv EXCEPT ![c].phase = "adding", ![c].req = r.val, ![c].rx = <<>>]
              /\ conn' = conn
         ELSE /\ srv' = [srv EXCEPT ![c].phase = "refused", ![c].rx = <<>>]
              /\ \E frm \in Refusals(c) : Reply(c, frm)
  BY DEF ServerDecode
<1>2. /\ ConnRecord(c) /\ SrvRecord(c) /\ UntouchedInv(c) /\ StreamInv(c) /\ HandledInv(c)
      /\ conn = [d \in Ids |-> conn[d]] /\ srv = [d \in Ids |-> srv[d]]
      /\ c \in Nat /\ c > 0 /\ Len(reqs) \in Nat /\ reqs \in Seq(Requests)
  BY OneConnection
<1>3. rx \in Seq(Byte) /\ up \in Seq(Byte)
  BY <1>2 DEF ConnRecord, SrvRecord
<1>4. rx # <<>>
  BY <1>1, NoFrameInNothing
<1>5. conn[c].state # "none" /\ c <= Len(reqs)
  <2>1. conn[c].state # "none"
    BY <1>2, <1>4 DEF UntouchedInv
  <2> QED BY <2>1, <1>2 DEF UntouchedInv
<1>6. reqs[c] \in Requests /\ reqs[c] \in Seq(VrfRequests)
  BY <1>5, OneConnection
<1>7. /\ Framed(RequestOf(c))
      /\ DecodedRequest(RequestOf(c)).ok => DecodedRequest(RequestOf(c)).val = reqs[c]
      /\ ~DecodedRequest(RequestOf(c)).ok => ~Carried(reqs[c])
  BY <1>2, <1>6, RequestDecoded DEF RequestOf
<1>8. found.val = RequestOf(c)
  <2>1. Begins(rx \o up, RequestOf(c))
    BY <1>1, <1>2, <1>5 DEF StreamInv, Sent
  <2>2. RequestOf(c) \in Seq(Byte)
    BY <1>7 DEF Framed
  <2>3. Begins(rx, RequestOf(c))
    BY <2>1, <2>2, <1>3, BeginsShorter
  <2> QED BY <2>3, <1>1, <1>7, FrameFound
<1>9. (r.ok => r.val = reqs[c]) /\ (~r.ok => ~Carried(reqs[c]))
  BY <1>7, <1>8
<1> HIDE DEF r, found, up
<1>10. /\ conn' = [d \in Ids |-> conn'[d]] /\ ConnRecord(c)'
       /\ conn'[c].state = conn[c].state
       /\ \A d \in Ids : d # c => conn'[d] = conn[d]
  <2>1. CASE r.ok
    BY <2>1, <1>1, <1>2 DEF ConnRecord
  <2>2. CASE ~r.ok
    <3>1. PICK frm \in Refusals(c) : Reply(c, frm)
      BY <2>2, <1>1
    <3> QED BY <3>1, ReplyMoves
  <2> QED BY <2>1, <2>2
<1>11. /\ srv' = [d \in Ids |-> srv'[d]] /\ SrvRecord(c)'
       /\ \A d \in Ids : d # c => srv'[d] = srv[d]
       /\ srv'[c].phase \in {"adding", "refused"}
       /\ srv'[c].req # <<>> \/ srv'[c].phase = "adding" => srv'[c].req = reqs[c]
       /\ srv'[c].phase = "refused" => ~Carried(reqs[c])
  <2>1. srv[c] = [phase |-> "waiting", rx |-> rx, req |-> srv[c].req, done |-> srv[c].done]
        /\ srv[c].req = <<>>
    BY <1>1, <1>2 DEF SrvRecord, StreamInv
  <2>2. <<>> \in Seq(Byte)
    OBVIOUS
  <2>3. CASE r.ok
    <3>1. srv' = [srv EXCEPT ![c].phase = "adding", ![c].req = r.val, ![c].rx = <<>>]
      BY <2>3, <1>1
    <3>2. srv'[c] = [phase |-> "adding", rx |-> <<>>, req |-> r.val, done |-> srv[c].done]
      BY <3>1, <2>1, <1>2
    <3>3. srv' = [d \in Ids |-> srv'[d]] /\ \A d \in Ids : d # c => srv'[d] = srv[d]
      BY <3>1, <1>2
    <3> QED BY <3>2, <3>3, <2>2, <2>3, <1>9 DEF SrvRecord
  <2>4. CASE ~r.ok
    <3>1. srv' = [srv EXCEPT ![c].phase = "refused", ![c].rx = <<>>]
      BY <2>4, <1>1
    <3>2. srv'[c] = [phase |-> "refused", rx |-> <<>>, req |-> <<>>, done |-> srv[c].done]
      BY <3>1, <2>1, <1>2
    <3>3. srv' = [d \in Ids |-> srv'[d]] /\ \A d \in Ids : d # c => srv'[d] = srv[d]
      BY <3>1, <1>2
    <3> QED BY <3>2, <3>3, <2>2, <2>4, <1>9 DEF SrvRecord
  <2> QED BY <2>3, <2>4
<1>12. UntouchedInv(c)'
  BY <1>1, <1>5, <1>10, <1>2 DEF UntouchedInv
<1>13. StreamInv(c)' /\ HandledInv(c)'
  BY <1>1, <1>5, <1>11 DEF StreamInv, HandledInv
<1> QED BY <1>1, <1>10, <1>11, <1>12, <1>13, ServerMoves

\* Adding routes and answering leave the request as it is.
LEMMA RequestServed ==
  ASSUME RequestInv, NEW c \in Ids, ServerAdd(c) \/ ServerReply(c)
  PROVE  RequestInv'
<1>1. /\ srv[c].phase = "adding" /\ cl' = cl /\ reqs' = reqs
      /\ ConnRecord(c) /\ SrvRecord(c) /\ UntouchedInv(c) /\ StreamInv(c) /\ HandledInv(c)
      /\ conn = [d \in Ids |-> conn[d]] /\ srv = [d \in Ids |-> srv[d]]
  BY OneConnection DEF ServerAdd, ServerReply
<1>2. /\ conn' = [d \in Ids |-> conn'[d]] /\ ConnRecord(c)'
      /\ conn'[c].state = conn[c].state /\ \A d \in Ids : d # c => conn'[d] = conn[d]
  <2>1. CASE ServerAdd(c)
    BY <2>1, <1>1 DEF ServerAdd, ConnRecord
  <2>2. CASE ServerReply(c)
    <3>1. PICK frm : Reply(c, frm)
      BY <2>2 DEF ServerReply
    <3> QED BY <3>1, ReplyMoves
  <2> QED BY <2>1, <2>2
<1>3. /\ srv' = [d \in Ids |-> srv'[d]] /\ SrvRecord(c)'
      /\ srv'[c].req = srv[c].req /\ srv'[c].phase \in {"adding", "answered"}
      /\ \A d \in Ids : d # c => srv'[d] = srv[d]
  <2>1. srv[c] = [phase |-> "adding", rx |-> srv[c].rx, req |-> srv[c].req, done |-> srv[c].done]
        /\ srv[c].rx \in Seq(Byte)
    BY <1>1 DEF SrvRecord
  <2>2. CASE ServerAdd(c)
    <3>1. PICK did : srv' = [srv EXCEPT ![c].done = Append(srv[c].done, did.result)]
      BY <2>2 DEF ServerAdd
    <3> DEFINE done == Append(srv[c].done, did.result)
    <3>2. srv' = [srv EXCEPT ![c].done = done]
      BY <3>1
    <3> HIDE DEF done
    <3>3. srv'[c] = [phase |-> "adding", rx |-> srv[c].rx, req |-> srv[c].req, done |-> done]
      BY <3>2, <2>1, <1>1
    <3>4. srv' = [d \in Ids |-> srv'[d]] /\ \A d \in Ids : d # c => srv'[d] = srv[d]
      BY <3>2, <1>1
    <3> QED BY <3>3, <3>4, <2>1 DEF SrvRecord
  <2>3. CASE ServerReply(c)
    <3>1. srv' = [srv EXCEPT ![c].phase = "answered"]
      BY <2>3 DEF ServerReply
    <3>2. srv'[c] = [phase |-> "answered", rx |-> srv[c].rx, req |-> srv[c].req,
                     done |-> srv[c].done]
      BY <3>1, <2>1, <1>1
    <3>3. srv' = [d \in Ids |-> srv'[d]] /\ \A d \in Ids : d # c => srv'[d] = srv[d]
      BY <3>1, <1>1
    <3> QED BY <3>2, <3>3, <2>1 DEF SrvRecord
  <2> QED BY <2>2, <2>3, <1>1
<1>4. conn[c].state # "none"
  BY <1>1 DEF UntouchedInv
<1>5. UntouchedInv(c)' /\ StreamInv(c)' /\ HandledInv(c)'
  BY <1>1, <1>2, <1>3, <1>4 DEF UntouchedInv, StreamInv, HandledInv
<1> QED BY <1>1, <1>2, <1>3, <1>5, ServerMoves

\* The death of the server loses requests; it hands none to another.
LEMMA RequestLost ==
  ASSUME RequestInv, ServerDies
  PROVE  RequestInv'
<1>1. /\ conn' = [c \in Ids |-> IF conn[c].state = "open"
                                THEN [conn[c] EXCEPT !.state = "dead", !.up = <<>>]
                                ELSE [conn[c] EXCEPT !.up = <<>>]]
      /\ srv' = [c \in Ids |-> IF srv[c].phase \in {"waiting", "adding"} /\ conn[c].state # "none"
                               THEN [srv[c] EXCEPT !.phase = "lost"] ELSE srv[c]]
      /\ cl' = cl /\ reqs' = reqs
  BY DEF ServerDies
<1>2. ClientInv'
  BY <1>1 DEF RequestInv, ClientInv
<1>3. ASSUME NEW c \in Ids
      PROVE  ConnRecord(c)' /\ SrvRecord(c)' /\ UntouchedInv(c)' /\ StreamInv(c)' /\ HandledInv(c)'
  <2>1. ConnRecord(c) /\ SrvRecord(c) /\ UntouchedInv(c) /\ StreamInv(c) /\ HandledInv(c)
    BY OneConnection
  <2>2. conn'[c] = [state |-> IF conn[c].state = "open" THEN "dead" ELSE conn[c].state,
                    up |-> <<>>, down |-> conn[c].down]
    <3>1. conn[c] = [state |-> conn[c].state, up |-> conn[c].up, down |-> conn[c].down]
      BY <2>1 DEF ConnRecord
    <3> QED BY <3>1, <1>1
  <2>3. srv'[c] = [phase |-> IF srv[c].phase \in {"waiting", "adding"} /\ conn[c].state # "none"
                             THEN "lost" ELSE srv[c].phase,
                   rx |-> srv[c].rx, req |-> srv[c].req, done |-> srv[c].done]
    <3>1. srv[c] = [phase |-> srv[c].phase, rx |-> srv[c].rx, req |-> srv[c].req,
                    done |-> srv[c].done]
      BY <2>1 DEF SrvRecord
    <3> QED BY <3>1, <1>1
  <2>4. ConnRecord(c)'
    <3>1. <<>> \in Seq(Byte)
      OBVIOUS
    <3>2. conn[c].state \in {"none", "open", "closed", "dead"}
      BY <2>1 DEF ConnRecord
    <3> QED BY <3>1, <3>2, <2>2 DEF ConnRecord
  <2>5. SrvRecord(c)'
    <3>1. srv[c].phase \in {"waiting", "adding", "answered", "refused", "lost"}
          /\ srv[c].rx \in Seq(Byte)
      BY <2>1 DEF SrvRecord
    <3> QED BY <3>1, <2>3 DEF SrvRecord
  <2>6. UntouchedInv(c)'
    BY <2>1, <2>2, <2>3, <1>1 DEF UntouchedInv
  <2>7. StreamInv(c)'
    <3>1. CASE srv'[c].phase = "waiting"
      <4>1. srv[c].phase = "waiting" /\ conn[c].state = "none"
        BY <3>1, <2>3
      <4>2. conn[c].up = <<>>
        BY <4>1, <2>1 DEF UntouchedInv
      <4>3. Sent(c)' = Sent(c) /\ RequestOf(c)' = RequestOf(c)
        BY <4>2, <2>2, <2>3, <1>1 DEF Sent, RequestOf
      <4> QED BY <4>1, <4>3, <2>1, <2>3, <1>1 DEF StreamInv
    <3>2. CASE srv'[c].phase # "waiting"
      BY <3>2 DEF StreamInv
    <3> QED BY <3>1, <3>2
  <2>8. HandledInv(c)'
    BY <2>1, <2>3, <1>1 DEF HandledInv
  <2> QED BY <2>4, <2>5, <2>6, <2>7, <2>8
<1>4. conn' = [d \in Ids |-> conn'[d]] /\ srv' = [d \in Ids |-> srv'[d]]
  BY <1>1
<1> QED BY <1>2, <1>3, <1>4 DEF RequestInv, TablesInv

\* Every step keeps the invariant of the way of a request.
LEMMA RequestStep ==
  ASSUME RequestInv, [Next]_vars
  PROVE  RequestInv'
<1>1. CASE \E vrfs \in Requests : processRequest(vrfs)
  BY <1>1, RequestBegun
<1>2. CASE ClientStep
  BY <1>2, RequestClient
<1>3. CASE ServerStep
  BY <1>3, RequestRead, RequestHandled, RequestServed DEF ServerStep
<1>4. CASE ServerDies
  BY <1>4, RequestLost
<1>5. CASE ToolStep
  BY <1>5, ToolsStayOut, RequestUnchanged
<1>6. CASE StrayBytes \/ UNCHANGED vars
  BY <1>6, RequestUnchanged DEF StrayBytes, vars
<1> QED BY <1>1, <1>2, <1>3, <1>4, <1>5, <1>6 DEF Next

\* In every behaviour the invariant of the way of a request holds.
THEOREM RequestsKept == Spec => []RequestInv
BY InitRequest, RequestStep, PTL DEF Spec

\* What the server handles is what the client was given, and what it refuses
\* could not be carried (processRequest of vrf_udp_client.cpp, the codecs of
\* unix_domain/lib).
THEOREM NothingIsForeign == Spec => []NothingForeign
<1>1. RequestInv => NothingForeign
  <2> SUFFICES ASSUME RequestInv PROVE NothingForeign
    OBVIOUS
  <2>1. ASSUME NEW c \in Ids
        PROVE  /\ srv[c].req # <<>> => c \in DOMAIN reqs /\ srv[c].req = reqs[c]
               /\ srv[c].phase = "refused" => ~Carried(reqs[c])
    <3>1. HandledInv(c) /\ c \in Nat /\ c > 0 /\ reqs \in Seq(Requests)
      BY OneConnection
    <3>2. c <= Len(reqs) => c \in DOMAIN reqs
      BY <3>1
    <3> QED BY <3>1, <3>2 DEF HandledInv
  <2> QED BY <2>1 DEF NothingForeign, HandledIsSent, RefusedIsNotCarried
<1> QED BY <1>1, RequestsKept, PTL

-----------------------------------------------------------------------------
(* The kernel.                                                              *)

KernelInv ==
  /\ kernel = [fib |-> kernel.fib, links |-> kernel.links, addrs |-> kernel.addrs]
  /\ \A name \in DOMAIN kernel.links :
       name \in DOMAIN InitialKernel.links /\ kernel.links[name] = InitialKernel.links[name]

\* The message of an add refuses to replace.
LEMMA AddMessage ==
  ASSUME NEW links, NEW p, add_route(links, p).ok
  PROVE  LET msg == add_route(links, p).val
         IN  msg.type = "RTM_NEWROUTE" /\ msg.flags = {"CREATE", "EXCL"}
<1> DEFINE Shape(m) == \E b, a : m = [type |-> "RTM_NEWROUTE", flags |-> {"CREATE", "EXCL"},
                                      body |-> b, attrs |-> a]
<1>1. ASSUME NEW m, Shape(m), NEW t, NEW d PROVE Shape(add_attr(m, t, d))
  <2>1. PICK b, a : m = [type |-> "RTM_NEWROUTE", flags |-> {"CREATE", "EXCL"},
                         body |-> b, attrs |-> a]
    BY <1>1
  <2> DEFINE x == Append(m.attrs, <<t, d>>)
  <2>2. add_attr(m, t, d) = [m EXCEPT !.attrs = x]
    BY DEF add_attr
  <2> HIDE DEF x
  <2>3. [m EXCEPT !.attrs = x] = [type |-> "RTM_NEWROUTE", flags |-> {"CREATE", "EXCL"},
                                  body |-> b, attrs |-> x]
    BY <2>1
  <2> QED BY <2>2, <2>3
<1> HIDE DEF Shape
<1>2. ASSUME NEW m, Shape(m), NEW t, NEW d, NEW cond PROVE Shape(AttrIf(cond, m, t, d))
  BY <1>1, <1>2 DEF AttrIf
<1>3. ASSUME NEW body PROVE Shape(NlMsg("RTM_NEWROUTE", {"CREATE", "EXCL"}, body))
  BY DEF NlMsg, Shape
<1> DEFINE m1 == NlMsg("RTM_NEWROUTE", {"CREATE", "EXCL"},
                       [dst_len |-> p.prefix_len, table |-> TableField(p.table),
                        scope |-> p.scope])
           m2 == AttrIf(p.has_gateway, add_attr(m1, "RTA_DST", p.dst), "RTA_GATEWAY", p.gateway)
           idx == name_to_index(links, p.if_name)
           m3 == AttrIf(p.if_name # <<>>, m2, "RTA_OIF", idx.val)
           m4 == WithTable(AttrIf(p.metric # 0, m3, "RTA_PRIORITY", p.metric), p.table)
<1>4. Shape(m1) /\ Shape(m2) /\ Shape(m3)
  BY <1>1, <1>2, <1>3
<1>5. Shape(m4)
  BY <1>2, <1>4 DEF WithTable
<1>6. add_route(links, p).val = m4
  BY DEF add_route, send_route_new, RouteMsg, WithOif, AndThen, Ok, Err
<1> QED BY <1>5, <1>6 DEF Shape

\* What the kernel does with an add leaves every route where it is.
LEMMA AddKeeps ==
  ASSUME NEW k, k = [fib |-> k.fib, links |-> k.links, addrs |-> k.addrs],
         NEW links, NEW p, NEW received
  PROVE  LET did == Transact(k, add_route(links, p), received)
         IN  /\ k.fib \subseteq did.k.fib
             /\ did.k = [fib |-> did.k.fib, links |-> k.links, addrs |-> k.addrs]
<1> DEFINE m == add_route(links, p)
           r == KernelRoute(k, m.val)
           e == KernelRefusal(k, m.val, r)
<1>1. CASE ~m.ok
  BY <1>1 DEF Transact
<1>2. CASE m.ok
  <2>1. m.val.type = "RTM_NEWROUTE" /\ m.val.flags = {"CREATE", "EXCL"}
    BY <1>2, AddMessage
  <2> HIDE DEF m, r
  <2>2. e = "" => ~(\E s \in k.fib : SameKey(r, s))
    BY <2>1 DEF KernelRefusal
  <2> HIDE DEF e
  <2>3. Transact(k, m, received).k = IF e # "" THEN k
          ELSE [k EXCEPT !.fib = {s \in k.fib : ~SameKey(r, s)} \union {r}]
    BY <1>2, <2>1 DEF Transact, KernelDo, e, r
  <2>4. CASE e # ""
    BY <2>3, <2>4 DEF m
  <2>5. CASE e = ""
    <3>1. \A s \in k.fib : ~SameKey(r, s)
      BY <2>2, <2>5
    <3>2. {s \in k.fib : ~SameKey(r, s)} = k.fib
      BY <3>1
    <3>3. Transact(k, m, received).k = [k EXCEPT !.fib = k.fib \union {r}]
      BY <2>3, <2>5, <3>2
    <3> QED BY <3>3 DEF m
  <2> QED BY <2>4, <2>5
<1> QED BY <1>1, <1>2

\* The kernel starts with its own interfaces.
LEMMA InitKernel == Init => KernelInv
BY KernelAssumption DEF Init, KernelInv

\* The library changes routes; an interface may go, with its routes.
LEMMA KernelStep ==
  ASSUME KernelInv, [Next]_vars
  PROVE  KernelInv'
<1> DEFINE Like(k) == k = [fib |-> k.fib, links |-> kernel.links, addrs |-> kernel.addrs]
<1>1. ASSUME Like(kernel') PROVE KernelInv'
  <2>1. kernel'.links = kernel.links /\ kernel'.addrs = kernel.addrs
    BY <1>1
  <2> QED BY <1>1, <2>1 DEF KernelInv
<1>2. ASSUME UNCHANGED kernel PROVE KernelInv'
  BY <1>2 DEF KernelInv
<1>3. ASSUME NEW fib, NEW seen, RoutesAre(fib, seen) PROVE KernelInv'
  <2>1. kernel' = [kernel EXCEPT !.fib = fib]
    BY <1>3 DEF RoutesAre, ToolDid
  <2>2. kernel' = [fib |-> fib, links |-> kernel.links, addrs |-> kernel.addrs]
    BY <2>1 DEF KernelInv
  <2> QED BY <2>2, <1>1
<1>4. CASE \E vrfs \in Requests : processRequest(vrfs)
  BY <1>2, <1>4 DEF processRequest
<1>5. CASE ClientStep
  BY <1>2, <1>5 DEF ClientStep, nb_connect, ConnectFails, nb_send_all, SendFails, nb_recv_frame,
                    RecvFails
<1>6. CASE ServerStep
  <2>1. PICK c \in Ids : ServerRead(c) \/ ServerDecode(c) \/ ServerAdd(c) \/ ServerReply(c)
    BY <1>6 DEF ServerStep
  <2>2. CASE ServerAdd(c)
    <3>1. PICK received \in BOOLEAN :
             kernel' = Transact(kernel, add_route(kernel.links,
                            PassOf(srv[c].req)[Len(srv[c].done) + 1]), received).k
      BY <2>2 DEF ServerAdd
    <3>2. Like(kernel')
      BY <3>1, AddKeeps DEF KernelInv
    <3> QED BY <3>2, <1>1
  <2>3. CASE ~ServerAdd(c)
    BY <2>1, <2>3, <1>2 DEF ServerRead, ServerDecode, ServerReply
  <2> QED BY <2>2, <2>3
<1>7. CASE ServerDies
  BY <1>2, <1>7 DEF ServerDies
<1>8. CASE ToolStep
  <2>1. CASE \E p \in ToolAdds : ToolAdd(p)
    BY <2>1, <1>2, <1>3 DEF ToolAdd, ToolDid
  <2>2. CASE \E p \in ToolDels : ToolDel(p)
    BY <2>2, <1>2, <1>3 DEF ToolDel, ToolDid
  <2>3. CASE \E is \in ToolPayloads : ToolPayload(is)
    BY <2>3, <1>2, <1>3 DEF ToolPayload, ToolDid
  <2>4. CASE \E p \in ToolReplaces : ToolReplace(p)
    BY <2>4, <1>3 DEF ToolReplace
  <2>5. CASE ToolList
    BY <2>5, <1>2 DEF ToolList, ToolDid
  <2>6. CASE \E name \in DOMAIN InitialKernel.links : ToolShow(name)
    BY <2>6, <1>2 DEF ToolShow, ToolDid
  <2>7. CASE \E name \in DOMAIN kernel.links : LinkGone(name)
    <3>1. PICK name \in DOMAIN kernel.links : LinkGone(name)
      BY <2>7
    <3> DEFINE idx == kernel.links[name]
               left == [n \in DOMAIN kernel.links \ {name} |-> kernel.links[n]]
    <3>2. kernel' = [fib |-> {r \in kernel.fib : r.oif # idx}, links |-> left,
                     addrs |-> {a \in kernel.addrs : a.oif # idx}]
      BY <3>1 DEF LinkGone, ToolDid
    <3>3. kernel' = [fib |-> kernel'.fib, links |-> kernel'.links, addrs |-> kernel'.addrs]
          /\ kernel'.links = left
      BY <3>2
    <3> QED BY <3>3 DEF KernelInv
  <2> QED BY <1>8, <2>1, <2>2, <2>3, <2>4, <2>5, <2>6, <2>7 DEF ToolStep
<1>9. CASE StrayBytes \/ UNCHANGED vars
  BY <1>2, <1>9 DEF StrayBytes, vars
<1> QED BY <1>4, <1>5, <1>6, <1>7, <1>8, <1>9 DEF Next

\* The adds of a request leave every route in the kernel (NLM_F_EXCL of
\* add_route in netlink.cpp): a step that changes the server's state of a
\* request never takes a route away.
THEOREM NeverReplaced == Spec => AddsNeverReplace
<1>1. KernelInv /\ [Next]_vars => [srv' # srv => kernel.fib \subseteq kernel'.fib]_vars
  <2> SUFFICES ASSUME KernelInv, Next, srv' # srv
               PROVE  kernel.fib \subseteq kernel'.fib
    BY DEF vars
  <2>1. CASE \E vrfs \in Requests : processRequest(vrfs)
    BY <2>1 DEF processRequest
  <2>2. CASE ClientStep
    BY <2>2 DEF ClientStep, nb_connect, ConnectFails, nb_send_all, SendFails, nb_recv_frame,
                RecvFails
  <2>3. CASE ServerStep
    <3>1. PICK c \in Ids : ServerRead(c) \/ ServerDecode(c) \/ ServerAdd(c) \/ ServerReply(c)
      BY <2>3 DEF ServerStep
    <3>2. CASE ServerAdd(c)
      <4>1. PICK received \in BOOLEAN :
               kernel' = Transact(kernel, add_route(kernel.links,
                              PassOf(srv[c].req)[Len(srv[c].done) + 1]), received).k
        BY <3>2 DEF ServerAdd
      <4> QED BY <4>1, AddKeeps DEF KernelInv
    <3>3. CASE ~ServerAdd(c)
      BY <3>1, <3>3 DEF ServerRead, ServerDecode, ServerReply
    <3> QED BY <3>2, <3>3
  <2>4. CASE ServerDies
    BY <2>4 DEF ServerDies
  <2>5. CASE StrayBytes \/ ToolStep
    BY <2>5, ToolsStayOut DEF StrayBytes
  <2> QED BY <2>1, <2>2, <2>3, <2>4, <2>5 DEF Next
<1> QED BY <1>1, InitKernel, KernelStep, PTL DEF Spec, AddsNeverReplace

-----------------------------------------------------------------------------
(* Replies.                                                                 *)

AnswerEntries == [vrfs_name : [1 .. VRFS_NAME_SIZE -> Byte], prefix_status : BOOLEAN]

\* An answer is the name of its VRF, then its status.
LEMMA AnswerShape ==
  ASSUME NEW a \in AnswerEntries
  PROVE  LET e == EncodeAnswer(a)
         IN  /\ e \in Seq(Byte) /\ Len(e) = VRFS_ANSWER_WIRE_SIZE /\ Len(e) > 0
             /\ At(e, 0, a.vrfs_name) /\ a.vrfs_name \in Seq(Byte)
             /\ Len(a.vrfs_name) = VRFS_NAME_SIZE
             /\ (e[VRFS_ANSWER_WIRE_SIZE] % 2 # 0) = a.prefix_status
<1> DEFINE n == a.vrfs_name
           bit == IF a.prefix_status THEN 1 ELSE 0
           s == <<bit>>
           e == EncodeAnswer(a)
<1>1. e = n \o s
  BY DEF EncodeAnswer
<1>2. n \in Seq(Byte) /\ Len(n) = VRFS_NAME_SIZE
  <2>1. n \in [1 .. VRFS_NAME_SIZE -> Byte]
    BY DEF AnswerEntries
  <2> HIDE DEF n
  <2> QED BY <2>1, SizeFacts, ArrayIsSequence
<1>3. bit \in {0, 1} /\ (bit # 0) = a.prefix_status
  <2>1. a.prefix_status \in BOOLEAN
    BY DEF AnswerEntries
  <2> QED BY <2>1
<1> HIDE DEF n, bit, e
<1>4. s \in Seq(Byte) /\ Len(s) = 1 /\ s[1] = bit
  BY <1>3, WordFacts
<1> HIDE DEF s
<1>5. n \o s \in Seq(Byte) /\ Len(n \o s) = Len(n) + Len(s)
  BY <1>2, <1>4, JoinedLen, Zenon
<1>6. At(n \o s, 0, n) /\ At(n \o s, Len(n), s)
  BY <1>2, <1>4, AtStart, AtEnd
<1>7. VRFS_ANSWER_WIRE_SIZE = VRFS_NAME_SIZE + 1 /\ VRFS_NAME_SIZE \in Nat
  BY SizeFacts DEF VRFS_ANSWER_WIRE_SIZE
<1>8. (n \o s)[VRFS_ANSWER_WIRE_SIZE] = bit
  BY <1>2, <1>4, <1>6, <1>7 DEF At
<1>9. bit % 2 = bit
  BY <1>3
<1>10. Len(n \o s) = VRFS_ANSWER_WIRE_SIZE /\ VRFS_ANSWER_WIRE_SIZE > 0
  BY <1>2, <1>4, <1>5, <1>7
<1>11. (e[VRFS_ANSWER_WIRE_SIZE] % 2 # 0) = a.prefix_status
  BY <1>1, <1>3, <1>8, <1>9
<1>12. e \in Seq(Byte) /\ Len(e) = VRFS_ANSWER_WIRE_SIZE /\ Len(e) > 0 /\ At(e, 0, n)
  BY <1>1, <1>5, <1>6, <1>10
<1> QED BY <1>2, <1>11, <1>12 DEF n, e

\* An answer at the beginning of a buffer is read as it was written.
LEMMA AnswerDecoded ==
  ASSUME NEW a \in AnswerEntries, NEW raw \in Seq(Byte), At(raw, 0, EncodeAnswer(a))
  PROVE  AnswerAt(raw) = Item(a, Len(EncodeAnswer(a)))
<1> DEFINE e == EncodeAnswer(a)
           W == VRFS_ANSWER_WIRE_SIZE
<1>1. /\ e \in Seq(Byte) /\ Len(e) = W /\ Len(e) > 0 /\ At(e, 0, a.vrfs_name)
      /\ a.vrfs_name \in Seq(Byte) /\ Len(a.vrfs_name) = VRFS_NAME_SIZE
      /\ (e[W] % 2 # 0) = a.prefix_status
  BY AnswerShape
<1>2. At(raw, 0, e)
  OBVIOUS
<1> HIDE DEF e, W
<1>3. W \in Nat /\ W >= 1 /\ Len(raw) \in Nat /\ W <= Len(raw) /\ raw[W] = e[W]
  <2>1. Len(e) \in Nat
    BY <1>1
  <2> QED BY <2>1, <1>1, <1>2 DEF At
<1>4. Slice(raw, 0, VRFS_NAME_SIZE) = a.vrfs_name
  <2>1. At(raw, 0 + 0, a.vrfs_name)
    BY <1>1, <1>2, AtInside
  <2>2. Slice(raw, 0, 0 + Len(a.vrfs_name)) = a.vrfs_name
    BY <2>1, <1>1, AtSlice
  <2> QED BY <2>2, <1>1, SizeFacts
<1>5. a = [vrfs_name |-> a.vrfs_name, prefix_status |-> a.prefix_status]
  BY DEF AnswerEntries
<1>6. AnswerAt(raw) = Item([vrfs_name |-> Slice(raw, 0, VRFS_NAME_SIZE),
                            prefix_status |-> raw[W] % 2 # 0], W)
  BY <1>3 DEF AnswerAt, W
<1>7. [vrfs_name |-> Slice(raw, 0, VRFS_NAME_SIZE), prefix_status |-> raw[W] % 2 # 0] = a
  BY <1>1, <1>3, <1>4, <1>5
<1> QED BY <1>1, <1>6, <1>7 DEF e

\* decode_vrfs_route_response gives back status and answers of what
\* encode_vrfs_route_response wrote.
LEMMA AnswersDecoded ==
  ASSUME NEW status \in Byte, NEW answers \in Seq(AnswerEntries)
  PROVE  LET resp == [status_code |-> status, answers |-> answers]
             enc == encode_vrfs_route_response(resp)
         IN  enc \in Seq(Byte) /\ decode_vrfs_route_response(enc) = Ok(resp)
<1> DEFINE resp == [status_code |-> status, answers |-> answers]
           ss == [i \in DOMAIN answers |-> EncodeAnswer(answers[i])]
           c == ConcatMap(EncodeAnswer, answers)
           t == <<status>>
           enc == encode_vrfs_route_response(resp)
           n == Len(answers)
           read == [pos \in 0 .. Len(c) - 1 |-> AnswerAt(Rest(c, pos))]
<1>1. c = FlattenSeq(ss)
  BY DEF ConcatMap
<1>2. enc = t \o c
  BY DEF encode_vrfs_route_response
<1>3. n \in Nat /\ DOMAIN answers = 1 .. n /\ \A i \in 1 .. n : answers[i] \in AnswerEntries
  OBVIOUS
<1>4. ASSUME NEW i \in 1 .. n
      PROVE  ss[i] = EncodeAnswer(answers[i]) /\ ss[i] \in Seq(Byte) /\ Len(ss[i]) > 0
  <2> DEFINE a == answers[i]
  <2>1. a \in AnswerEntries
    BY <1>3
  <2>2. ss[i] = EncodeAnswer(a)
    BY <1>3
  <2> HIDE DEF a, ss
  <2>3. EncodeAnswer(a) \in Seq(Byte) /\ Len(EncodeAnswer(a)) > 0
    BY <2>1, AnswerShape
  <2> QED BY <2>2, <2>3 DEF a
<1>5. ss \in Seq(Seq(Byte)) /\ Len(ss) = n
  <2>1. ss \in [1 .. n -> Seq(Byte)]
    BY <1>3, <1>4
  <2> HIDE DEF ss
  <2> QED BY <2>1, <1>3
<1> HIDE DEF ss, c, n, enc
<1>6. c \in Seq(Byte)
  BY <1>1, <1>5, Flattened
<1>7. PICK off : Laid(ss, off)
  BY <1>5, Flattened
<1>8. /\ off \in [0 .. n -> Nat] /\ off[0] = 0 /\ off[n] = Len(c)
      /\ \A k \in 1 .. n :
           /\ off[k] = off[k - 1] + Len(ss[k]) /\ off[k] <= Len(c)
           /\ \A i \in 1 .. Len(ss[k]) : c[off[k - 1] + i] = ss[k][i]
  BY <1>1, <1>5, <1>7 DEF Laid
<1>9. ASSUME NEW k \in 1 .. n PROVE read[off[k - 1]] = Item(answers[k], Len(ss[k]))
  <2> DEFINE o == off[k - 1]
  <2>1. /\ o \in Nat /\ o + Len(ss[k]) <= Len(c)
        /\ \A i \in 1 .. Len(ss[k]) : c[o + i] = ss[k][i]
    BY <1>3, <1>8
  <2> HIDE DEF o
  <2>2. At(c, o, ss[k])
    BY <2>1 DEF At
  <2>3. Rest(c, o) \in Seq(Byte) /\ At(Rest(c, o), 0, ss[k])
    BY <2>2, <1>4, <1>6, AtRest
  <2>4. AnswerAt(Rest(c, o)) = Item(answers[k], Len(ss[k]))
    BY <2>3, <1>3, <1>4, AnswerDecoded
  <2>5. o \in 0 .. Len(c) - 1
    <3>1. Len(ss[k]) \in Nat /\ Len(ss[k]) > 0 /\ Len(c) \in Nat
      BY <1>4, <1>6
    <3> QED BY <3>1, <2>1
  <2>6. read[o] = AnswerAt(Rest(c, o))
    BY <2>5
  <2> QED BY <2>4, <2>6 DEF o
<1> HIDE DEF read
<1>10. Finds(Byte, ss, off, AnswerEntries, answers, read)
  <2>1. \A k \in 1 .. Len(ss) : Len(ss[k]) > 0 /\ read[off[k - 1]] = Item(answers[k], Len(ss[k]))
    BY <1>4, <1>5, <1>9
  <2>2. Len(answers) = Len(ss)
    BY <1>5 DEF n
  <2> QED BY <2>1, <2>2, <1>5, <1>7 DEF Finds
<1>11. ReadBack(ss, answers, read)
  BY <1>10, AllRead
<1>12. DecodeAnswers(c) = Ok(answers)
  BY <1>1, <1>11 DEF DecodeAnswers, Complete, read, ReadBack
<1>13. t \in Seq(Byte) /\ Len(t) = 1 /\ t[1] = status
  OBVIOUS
<1> HIDE DEF t
<1>14. /\ enc \in Seq(Byte) /\ Len(enc) = 1 + Len(c) /\ At(enc, 0, t)
       /\ SubSeq(enc, 2, Len(enc)) = c
  <2>1. t \o c \in Seq(Byte) /\ Len(t \o c) = Len(t) + Len(c)
    <3>1. t \in Seq(Byte)
      BY <1>13
    <3> QED BY <3>1, <1>6, JoinedLen
  <2>2. At(t \o c, 0, t)
    BY <1>6, <1>13, AtStart
  <2>3. SubSeq(t \o c, Len(t) + 1, Len(t \o c)) = c
    BY <1>6, <1>13, JoinedParts
  <2>4. Len(t) + 1 = 2
    BY <1>13
  <2> QED BY <2>1, <2>2, <2>3, <2>4, <1>2, <1>13, Zenon
<1>15. enc # <<>> /\ Head(enc) = status
  <2>1. enc[0 + 1] = t[1] /\ Len(enc) # 0
    BY <1>6, <1>13, <1>14 DEF At
  <2> QED BY <2>1, <1>13, <1>14
<1>16. Tail(enc) = c
  BY <1>14, <1>15
<1>17. decode_vrfs_route_response(enc) = Ok(resp)
  <2> DEFINE d == DecodeAnswers(Tail(enc))
  <2>0. d = Ok(answers)
    BY <1>12, <1>16, Zenon
  <2> HIDE DEF d
  <2>1. d.ok /\ d.val = answers
    BY <2>0 DEF Ok
  <2>2. decode_vrfs_route_response(enc) =
          IF d.ok THEN Ok([status_code |-> Head(enc), answers |-> d.val]) ELSE d
    BY <1>15 DEF decode_vrfs_route_response, AndThen, d
  <2> QED BY <2>1, <2>2, <1>15
<1> QED BY <1>14, <1>17 DEF enc

\* What the client makes of a message the server sent it in a packet.
LEMMA ReplyDecoded ==
  ASSUME NEW c \in Nat, NEW type \in MsgTypes, NEW p \in Seq(Byte)
  PROVE  LET f == encode_packet(Packet(c, encode_message(make_message(type, c, p))))
             r == ReplyMeaning(f)
         IN  /\ Framed(f)
             /\ r.ok => Len(p) >= 2 /\ r = decode_vrfs_route_response(Tail(p))
<1> DEFINE data == encode_message(make_message(type, c, p))
           f == encode_packet(Packet(c, data))
           P == decode_packet(f)
           M == decode_message(P.val.data)
           r == ReplyMeaning(f)
<1>1. data \in Seq(Byte) /\ decode_message(data).ok /\ decode_message(data).val.payload = p
  BY MessageDecoded
<1> HIDE DEF data
<1>2. Framed(f) /\ (P.ok => P.val.data = data)
  BY <1>1, PacketDecoded
<1>3. r = IF P.ok THEN IF M.ok THEN IF Len(M.val.payload) < 2 THEN Err("TooShort")
                                    ELSE decode_vrfs_route_response(Tail(M.val.payload))
                       ELSE M
          ELSE P
  BY Zenon DEF ReplyMeaning, AndThen
<1> HIDE DEF f, P, M, r
<1>4. ASSUME r.ok PROVE Len(p) >= 2 /\ r = decode_vrfs_route_response(Tail(p))
  <2>1. P.ok
    BY <1>3, <1>4
  <2>2. M.ok /\ M.val.payload = p
    BY <2>1, <1>1, <1>2 DEF M
  <2>3. r = IF Len(p) < 2 THEN Err("TooShort") ELSE decode_vrfs_route_response(Tail(p))
    BY <2>1, <2>2, <1>3
  <2>4. ~(Len(p) < 2)
    BY <2>3, <1>4 DEF Err
  <2> QED BY <2>3, <2>4
<1> QED BY <1>2, <1>4 DEF f, r, data

\* Items of size W, one after the other, and at the end of them either the end
\* of the bytes or an error.
Evenly(L, W, e, q, off, I, items, read) ==
  /\ e # "" /\ off \in [0 .. q -> Nat] /\ off[0] = 0 /\ \A k \in 0 .. q : off[k] <= L
  /\ \A k \in 1 .. q : off[k] = off[k - 1] + W
  /\ items \in Seq(I) /\ Len(items) = q
  /\ \A k \in 1 .. q : read[off[k - 1]] = Item(items[k], W)
  /\ off[q] # L => read[off[q]] = Err(e)
EvenlyBack(L, q, off, items, read) ==
  ReadAll(L, read).error = "" => off[q] = L /\ ReadAll(L, read).items = items

\* A loop over items of one size reads all of them, and fails if bytes are left.
LEMMA EvenlyRead ==
  ASSUME NEW L \in Nat, NEW W \in Nat, W > 0, NEW e, NEW q \in Nat,
         NEW off, NEW I, NEW items, NEW read,
         Evenly(L, W, e, q, off, I, items, read)
  PROVE  EvenlyBack(L, q, off, items, read)
<1> DEFINE State(k) == [pos |-> off[k], items |-> SubSeq(items, 1, k), error |-> ""]
           Bad == [pos |-> off[q], items |-> SubSeq(items, 1, q), error |-> e]
           Ended == IF off[q] = L THEN State(q) ELSE Bad
           run == [m \in 0 .. L |-> IF m <= q THEN State(m) ELSE Ended]
           Step(f) == [i \in 0 .. L |-> IF i = 0
                         THEN [pos |-> 0, items |-> <<>>, error |-> ""]
                         ELSE ReadOne(L, read, f[i - 1])]
           st == CHOOSE f : f = Step(f)
<1>1. ReadAll(L, read) = st[L]
  BY DEF ReadAll
<1>0. /\ off[0] = 0 /\ off[q] \in Nat /\ off[q] <= L
      /\ \A k \in 0 .. q - 1 : /\ off[k] \in Nat /\ off[k + 1] = off[k] + W
                               /\ off[k + 1] <= L
  <2>1. \A k \in 0 .. q - 1 : k + 1 \in 1 .. q /\ (k + 1) - 1 = k /\ k \in 0 .. q
                               /\ k + 1 \in 0 .. q
    OBVIOUS
  <2>2. q \in 0 .. q
    OBVIOUS
  <2> QED BY <2>1, <2>2 DEF Evenly
\* There are no more items than bytes.
<1>2. off[q] \in Nat /\ q <= off[q] /\ off[q] <= L
  <2> DEFINE P == {k \in 0 .. q : k <= off[k]}
  <2>1. 0 \in P
    BY <1>0
  <2>2. ASSUME NEW k \in 0 .. q - 1, k \in P PROVE k + 1 \in P
    <3>1. k + 1 \in 0 .. q
      OBVIOUS
    <3> QED BY <2>2, <3>1, <1>0
  <2> HIDE DEF P
  <2>3. \A k \in 0 .. q : k \in P
    BY <2>1, <2>2, UpTo
  <2>4. q \in P
    BY <2>3
  <2> QED BY <2>4, <1>0 DEF P
<1>3. ASSUME NEW k \in 0 .. q - 1 PROVE ReadOne(L, read, State(k)) = State(k + 1)
  <2>1. k + 1 \in 1 .. q /\ (k + 1) - 1 = k
    OBVIOUS
  <2>2. read[off[k]] = Item(items[k + 1], W) /\ items \in Seq(I) /\ Len(items) = q
    BY <2>1 DEF Evenly
  <2>3. off[k] # L /\ off[k + 1] = off[k] + W
    BY <1>0
  <2>4. SubSeq(items, 1, k + 1) = Append(SubSeq(items, 1, k), items[k + 1])
    <3>1. k \in 0 .. Len(items) - 1
      BY <2>2
    <3> QED BY <2>2, <3>1, PrefixGrows
  <2> DEFINE r == read[off[k]]
  <2>5. r.ok /\ r.val.size = W /\ r.val.item = items[k + 1]
    BY <2>2 DEF Item, Ok
  <2>6. State(k).pos = off[k] /\ State(k).items = SubSeq(items, 1, k) /\ State(k).error = ""
    OBVIOUS
  <2>7. ReadOne(L, read, State(k)) =
          [pos |-> off[k] + r.val.size, items |-> Append(SubSeq(items, 1, k), r.val.item),
           error |-> ""]
    <3> HIDE DEF State
    <3> QED BY <2>3, <2>5, <2>6 DEF ReadOne
  <2> HIDE DEF r
  <2> QED BY <2>3, <2>4, <2>5, <2>7
<1>4. ReadOne(L, read, State(q)) = Ended
  <2>1. CASE off[q] = L
    BY <2>1 DEF ReadOne
  <2>2. CASE off[q] # L
    <3>1. read[off[q]] = Err(e)
      BY <2>2 DEF Evenly
    <3>3. ~read[off[q]].ok /\ read[off[q]].err = e
      BY <3>1 DEF Err
    <3>2. ReadOne(L, read, State(q)) = [State(q) EXCEPT !.error = e]
      BY <2>2, <3>3 DEF ReadOne
    <3> QED BY <2>2, <3>2
  <2> QED BY <2>1, <2>2
<1>5. ReadOne(L, read, Ended) = Ended
  <2>1. CASE off[q] = L
    BY <2>1, <1>4
  <2>2. CASE off[q] # L
    <3>1. e # ""
      BY DEF Evenly
    <3> QED BY <2>2, <3>1 DEF ReadOne
  <2> QED BY <2>1, <2>2
<1>6. State(0) = [pos |-> 0, items |-> <<>>, error |-> ""]
  <2>1. items \in Seq(I)
    BY DEF Evenly
  <2>2. SubSeq(items, 1, 0) = <<>>
    BY <2>1
  <2> QED BY <2>2, <1>0
<1> HIDE DEF State, Ended
<1>7. ASSUME NEW i \in 1 .. L PROVE run[i] = ReadOne(L, read, run[i - 1])
  <2>1. i \in 0 .. L /\ i - 1 \in 0 .. L /\ (i - 1) + 1 = i
    OBVIOUS
  <2>2. CASE i <= q
    <3>1. i - 1 \in 0 .. q - 1 /\ run[i - 1] = State(i - 1) /\ run[i] = State(i)
      BY <2>1, <2>2
    <3> QED BY <2>1, <3>1, <1>3
  <2>3. CASE i = q + 1
    <3>1. run[i - 1] = State(q) /\ run[i] = Ended
      BY <2>1, <2>3
    <3> QED BY <3>1, <1>4
  <2>4. CASE i > q + 1
    <3>1. run[i - 1] = Ended /\ run[i] = Ended
      BY <2>1, <2>4
    <3> QED BY <3>1, <1>5
  <2> QED BY <2>2, <2>3, <2>4
<1>8. run[0] = State(0)
  OBVIOUS
<1>9. run = Step(run)
  <2>1. \A i \in 0 .. L : run[i] = IF i = 0 THEN [pos |-> 0, items |-> <<>>, error |-> ""]
                                   ELSE ReadOne(L, read, run[i - 1])
    <3>1. \A i \in 0 .. L : i # 0 => i \in 1 .. L
      OBVIOUS
    <3> HIDE DEF run
    <3> QED BY <3>1, <1>6, <1>7, <1>8, Zenon
  <2>2. run = [i \in 0 .. L |-> run[i]]
    OBVIOUS
  <2> HIDE DEF run
  <2> QED BY <2>1, <2>2
<1>10. st = Step(st)
  <2> HIDE DEF Step, run
  <2> QED BY <1>9
<1> HIDE DEF st
<1>11. st[0] = State(0) /\ \A i \in 1 .. L : st[i] = ReadOne(L, read, st[i - 1])
  <2>1. \A i \in 0 .. L : st[i] = IF i = 0 THEN [pos |-> 0, items |-> <<>>, error |-> ""]
                                  ELSE ReadOne(L, read, st[i - 1])
    BY <1>10, Zenon
  <2>2. 0 \in 0 .. L /\ \A i \in 1 .. L : i \in 0 .. L /\ i # 0
    OBVIOUS
  <2> QED BY <2>1, <2>2, <1>6, Zenon
<1> HIDE DEF run
<1>12. st[L] = run[L]
  <2> DEFINE Q == {m \in 0 .. L : st[m] = run[m]}
  <2>1. 0 \in Q
    BY <1>8, <1>11
  <2>2. ASSUME NEW m \in 0 .. L - 1, m \in Q PROVE m + 1 \in Q
    <3>1. m + 1 \in 1 .. L /\ (m + 1) - 1 = m /\ m + 1 \in 0 .. L
      OBVIOUS
    <3> QED BY <2>2, <3>1, <1>7, <1>11
  <2> HIDE DEF Q
  <2>3. \A m \in 0 .. L : m \in Q
    BY <2>1, <2>2, UpTo
  <2>4. L \in Q
    BY <2>3
  <2> QED BY <2>4 DEF Q
<1>13. run[L] = Ended
  <2>1. CASE L <= q
    <3>1. L = q /\ off[q] = L
      BY <2>1, <1>2
    <3> QED BY <3>1 DEF run, Ended
  <2>2. CASE ~(L <= q)
    BY <2>2 DEF run
  <2> QED BY <2>1, <2>2
<1>14. SubSeq(items, 1, q) = items
  <2>1. items \in Seq(I) /\ Len(items) = q
    BY DEF Evenly
  <2> QED BY <2>1
<1>15. ReadAll(L, read) = Ended /\ e # ""
  BY <1>1, <1>12, <1>13 DEF Evenly
<1>16. CASE off[q] = L
  <2>1. ReadAll(L, read) = State(q) /\ State(q).items = SubSeq(items, 1, q)
    BY <1>15, <1>16 DEF Ended, State
  <2> QED BY <2>1, <1>14, <1>16 DEF EvenlyBack
<1>17. CASE off[q] # L
  <2>1. Ended = Bad
    BY <1>17 DEF Ended
  <2>2. Bad.error = e
    OBVIOUS
  <2>3. ReadAll(L, read).error # ""
    BY <2>1, <2>2, <1>15
  <2> QED BY <2>3 DEF EvenlyBack
<1> QED BY <1>16, <1>17

\* What is left of a sequence after two.
LEMMA FromThird ==
  ASSUME NEW S, NEW s \in Seq(S), Len(s) >= 2
  PROVE  LET t == SubSeq(s, 3, Len(s))
         IN  /\ t \in Seq(S) /\ Len(t) = Len(s) - 2
             /\ \A i \in 1 .. Len(t) : t[i] = s[i + 2]
             /\ Tail(s) \in Seq(S) /\ Tail(s) # <<>> /\ Head(Tail(s)) = s[2] /\ Tail(Tail(s)) = t
<1> DEFINE t == SubSeq(s, 3, Len(s))
           u == Tail(s)
<1>1. Len(s) \in Nat /\ 2 <= Len(s)
  OBVIOUS
<1>2. t \in Seq(S) /\ Len(t) = Len(s) - 2 /\ \A i \in 1 .. Len(t) : t[i] = s[i + 2]
  <2>1. 3 \in Int /\ Len(s) \in Int /\ \A i \in 3 .. Len(s) : s[i] \in S
    BY <1>1
  <2>2. /\ t \in Seq(S) /\ Len(t) = IF 3 <= Len(s) THEN Len(s) - 3 + 1 ELSE 0
        /\ \A i \in 1 .. Len(s) - 3 + 1 : t[i] = s[3 + i - 1]
    BY <2>1, SubSeqProperties
  <2>3. \A i \in 1 .. Len(s) - 3 + 1 : 3 + i - 1 = i + 2
    BY <1>1
  <2> HIDE DEF t
  <2>4. Len(t) = Len(s) - 2
    <3>1. CASE 3 <= Len(s)
      <4>1. Len(t) = Len(s) - 3 + 1
        BY <2>2, <3>1
      <4> QED BY <4>1, <1>1
    <3>2. CASE ~(3 <= Len(s))
      <4>1. Len(t) = 0
        BY <2>2, <3>2
      <4>2. \A n \in Nat : 2 <= n /\ ~(3 <= n) => n = 2 /\ n - 2 = 0
        OBVIOUS
      <4> QED BY <4>1, <4>2, <3>2, <1>1, Zenon
    <3> QED BY <3>1, <3>2
  <2> QED BY <2>2, <2>3, <2>4, <1>1
<1>3. u \in Seq(S) /\ Len(u) = Len(s) - 1 /\ \A i \in 1 .. Len(u) : u[i] = s[i + 1]
  BY <1>1
<1> HIDE DEF t, u
<1>4. u # <<>> /\ Head(u) = u[1] /\ u[1] = s[2]
  BY <1>1, <1>3
<1> DEFINE v == Tail(u)
<1>5. v \in Seq(S) /\ Len(v) = Len(u) - 1 /\ \A i \in 1 .. Len(v) : v[i] = u[i + 1]
  BY <1>3, <1>4
<1> HIDE DEF v
<1>6. Len(v) = Len(t) /\ \A i \in 1 .. Len(t) : v[i] = t[i]
  <2>1. \A i \in 1 .. Len(t) : i \in 1 .. Len(v) /\ i + 1 \in 1 .. Len(u) /\ (i + 1) + 1 = i + 2
    BY <1>1, <1>2, <1>3, <1>5
  <2> QED BY <2>1, <1>1, <1>2, <1>3, <1>5
<1>7. v = t
  BY <1>2, <1>5, <1>6
<1> QED BY <1>2, <1>3, <1>4, <1>7 DEF t, u, v

\* What AnswerAt finds at an offset of a text, and where the text ends.
LEMMA TextAnswer ==
  ASSUME NEW text \in Seq(Byte), NEW pos \in Nat, pos <= Len(text) - 2
  PROVE  LET raw == SubSeq(text, 3, Len(text))
             at == 2 + pos
         IN  AnswerAt(Rest(raw, pos)) =
               IF Len(raw) - pos < VRFS_ANSWER_WIRE_SIZE THEN Err("InvalidCommand")
               ELSE Item([vrfs_name |-> Slice(text, at, at + VRFS_NAME_SIZE),
                          prefix_status |-> text[at + VRFS_ANSWER_WIRE_SIZE] % 2 # 0],
                         VRFS_ANSWER_WIRE_SIZE)
<1> DEFINE raw == SubSeq(text, 3, Len(text))
           rest == SubSeq(raw, pos + 1, Len(raw))
           W == VRFS_ANSWER_WIRE_SIZE
           N == VRFS_NAME_SIZE
<1>1. /\ raw \in Seq(Byte) /\ Len(raw) = Len(text) - 2
      /\ \A i \in 1 .. Len(raw) : raw[i] = text[2 + i]
  OBVIOUS
<1> HIDE DEF raw
<1>2. /\ rest \in Seq(Byte) /\ Len(rest) = Len(raw) - pos
      /\ \A i \in 1 .. Len(rest) : rest[i] = raw[pos + i]
  BY <1>1
<1>3. \A i \in 1 .. Len(rest) : rest[i] = text[(2 + pos) + i]
  BY <1>1, <1>2
<1>4. Rest(raw, pos) = rest
  BY DEF Rest, Slice
<1> HIDE DEF rest
<1>5. N \in Nat /\ W = N + 1
  BY SizeFacts DEF VRFS_ANSWER_WIRE_SIZE
<1>6. CASE Len(rest) < W
  BY <1>2, <1>4, <1>6 DEF AnswerAt, W, raw
<1>7. CASE ~(Len(rest) < W)
  <2>1. rest[W] = text[(2 + pos) + W]
    BY <1>2, <1>3, <1>5, <1>7
  <2>2. Slice(rest, 0, N) = Slice(text, 2 + pos, (2 + pos) + N)
    <3> DEFINE u == SubSeq(rest, 1, N)
               v == SubSeq(text, (2 + pos) + 1, (2 + pos) + N)
    <3>1. u \in Seq(Byte) /\ Len(u) = N /\ \A i \in 1 .. N : u[i] = rest[i]
      BY <1>2, <1>5, <1>7
    <3>2. (2 + pos) + N <= Len(text)
      BY <1>1, <1>2, <1>5, <1>7
    <3>3. v \in Seq(Byte) /\ Len(v) = N /\ \A i \in 1 .. N : v[i] = text[(2 + pos) + i]
      BY <1>5, <3>2
    <3>0. Slice(rest, 0, N) = u /\ Slice(text, 2 + pos, (2 + pos) + N) = v
      BY <1>5 DEF Slice
    <3> HIDE DEF u, v
    <3>4. \A i \in 1 .. N : i \in 1 .. Len(rest)
      BY <1>2, <1>5, <1>7
    <3>5. \A i \in 1 .. N : u[i] = v[i]
      BY <1>3, <3>1, <3>3, <3>4
    <3>6. u = v
      BY <3>1, <3>3, <3>5, <1>5
    <3> QED BY <3>0, <3>6
  <2>3. AnswerAt(rest) = Item([vrfs_name |-> Slice(rest, 0, N),
                               prefix_status |-> rest[W] % 2 # 0], W)
    BY <1>7 DEF AnswerAt, W
  <2> QED BY <2>1, <2>2, <2>3, <1>2, <1>4, <1>7 DEF raw
<1> QED BY <1>6, <1>7

\* A text that decode_vrfs_route_response takes for answers has their length,
\* and the answers are its pieces.
LEMMA TextRead ==
  ASSUME NEW text \in Seq(Byte), Len(text) >= 2,
         DecodeAnswers(SubSeq(text, 3, Len(text))).ok
  PROVE  /\ ReadsAsAnswers(text)
         /\ DecodeAnswers(SubSeq(text, 3, Len(text))).val = TextAsAnswers(text)
<1> DEFINE raw == SubSeq(text, 3, Len(text))
           L == Len(raw)
           W == VRFS_ANSWER_WIRE_SIZE
           q == L \div W
           off == [k \in 0 .. q |-> k * W]
           items == TextAsAnswers(text)
           read == [pos \in 0 .. Len(raw) - 1 |-> AnswerAt(Rest(raw, pos))]
           all == ReadAll(L, read)
<1>1. raw \in Seq(Byte) /\ L = Len(text) - 2 /\ L \in Nat
  <2>1. Len(text) \in Nat /\ Len(text) >= 2
    OBVIOUS
  <2>2. raw \in Seq(Byte) /\ Len(raw) = Len(text) - 2
    BY <2>1, FromThird
  <2> HIDE DEF raw
  <2> QED BY <2>1, <2>2
<1>2. W \in Nat /\ W > 0 /\ "InvalidCommand" # ""
  BY SizeFacts DEF VRFS_ANSWER_WIRE_SIZE
<1>3. DecodeAnswers(raw) = Complete(all)
  BY DEF DecodeAnswers
<1>4. all.error = "" /\ DecodeAnswers(raw).val = all.items
  <2> DEFINE d == DecodeAnswers(raw)
  <2>1. d.ok /\ d = Complete(all)
    BY <1>3
  <2> HIDE DEF all, d
  <2>2. all.error = "" /\ d.val = all.items
    BY <2>1 DEF Complete, Ok, Err
  <2> QED BY <2>2 DEF d
<1> HIDE DEF all
<1>5. q \in Nat /\ L % W \in 0 .. W - 1 /\ L = W * q + (L % W)
  BY <1>1, <1>2, Division
<1> HIDE DEF L, W, q
<1>6. \A a, b, w \in Nat : a <= b => a * w <= b * w /\ a * w \in Nat
  BY SMTT(30)
<1>7. \A a, w \in Nat : (a + 1) * w = a * w + w /\ 0 * w = 0 /\ a * w = w * a
  BY SMTT(30)
<1>8. /\ off \in [0 .. q -> Nat] /\ off[0] = 0
      /\ \A k \in 0 .. q : off[k] = k * W /\ off[k] <= q * W
  BY <1>2, <1>5, <1>6, <1>7
<1>9. q * W <= L /\ L - q * W < W /\ (q * W = L => L % W = 0) /\ q * W \in Nat
  <2>1. W * q = q * W /\ q * W \in Nat
    BY <1>2, <1>5, <1>6, <1>7
  <2> QED BY <2>1, <1>1, <1>2, <1>5
<1>10. \A k \in 1 .. q : off[k] = off[k - 1] + W
  <2> SUFFICES ASSUME NEW k \in 1 .. q PROVE off[k] = off[k - 1] + W
    OBVIOUS
  <2>1. k - 1 \in Nat /\ k - 1 \in 0 .. q /\ k \in 0 .. q /\ (k - 1) + 1 = k
    BY <1>5
  <2>2. ((k - 1) + 1) * W = (k - 1) * W + W
    BY <2>1, <1>2, <1>7
  <2> QED BY <2>1, <2>2, <1>8
<1> HIDE DEF off
<1>11. ASSUME NEW pos \in Nat, pos < L
       PROVE  read[pos] = IF L - pos < W THEN Err("InvalidCommand")
                          ELSE Item([vrfs_name |-> Slice(text, 2 + pos, (2 + pos) + VRFS_NAME_SIZE),
                                     prefix_status |-> text[(2 + pos) + W] % 2 # 0], W)
  <2>1. read[pos] = AnswerAt(Rest(raw, pos))
    BY <1>1, <1>11 DEF L
  <2>2. pos <= Len(text) - 2
    BY <1>1, <1>11
  <2> QED BY <2>1, <2>2, TextAnswer DEF L, W
<1>12. ASSUME NEW k \in 1 .. q PROVE read[off[k - 1]] = Item(items[k], W)
  <2> DEFINE pos == (k - 1) * W
  <2>1. k - 1 \in 0 .. q /\ k \in 0 .. q /\ k - 1 \in Nat
    BY <1>5
  <2>2. off[k - 1] = pos /\ pos \in Nat /\ off[k] = pos + W /\ off[k] <= L
    <3>1. off[k - 1] = pos /\ off[k] = off[k - 1] + W /\ off[k] <= q * W
      BY <2>1, <1>8, <1>10
    <3>2. off[k - 1] \in Nat /\ off[k] \in Nat
      BY <2>1, <1>8
    <3> HIDE DEF pos
    <3> QED BY <3>1, <3>2, <1>1, <1>9
  <2>3. items[k] = [vrfs_name |-> Slice(text, 2 + pos, (2 + pos) + VRFS_NAME_SIZE),
                    prefix_status |-> text[(2 + pos) + W] % 2 # 0]
    BY <1>1 DEF TextAsAnswers, W, q
  <2> HIDE DEF pos, items, read
  <2>4. pos < L /\ ~(L - pos < W)
    BY <2>2, <1>1, <1>2
  <2> QED BY <2>2, <2>3, <2>4, <1>11
<1>13. off[q] # L => read[off[q]] = Err("InvalidCommand")
  <2>1. off[q] = q * W
    BY <1>5, <1>8
  <2> HIDE DEF read
  <2>2. q * W # L => q * W < L
    BY <1>1, <1>9
  <2> QED BY <2>1, <2>2, <1>9, <1>11
<1>14. items \in Seq({items[k] : k \in 1 .. q}) /\ Len(items) = q
  <2>1. items = [k \in 1 .. q |-> items[k]]
    BY <1>1 DEF TextAsAnswers, W, q
  <2> HIDE DEF items
  <2> QED BY <2>1, <1>5
<1> HIDE DEF items, read
<1>15. \A k \in 0 .. q : off[k] <= L
  <2> SUFFICES ASSUME NEW k \in 0 .. q PROVE off[k] <= L
    OBVIOUS
  <2>1. off[k] \in Nat /\ off[k] <= q * W
    BY <1>8
  <2> QED BY <2>1, <1>1, <1>9
<1>16. ReadAll(L, read).error = "" => off[q] = L /\ ReadAll(L, read).items = items
  <2> DEFINE I == {items[k] : k \in 1 .. q}
  <2>1. items \in Seq(I) /\ Len(items) = q
    BY <1>14
  <2> HIDE DEF I
  <2>2. Evenly(L, W, "InvalidCommand", q, off, I, items, read)
    BY <2>1, <1>8, <1>10, <1>12, <1>13, <1>15 DEF Evenly
  <2>3. off \in [0 .. q -> Nat] /\ L \in Nat
    BY <1>1, <1>8
  <2>4. EvenlyBack(L, q, off, items, read)
    BY <2>2, <2>3, <1>2, <1>5, EvenlyRead
  <2> QED BY <2>4 DEF EvenlyBack
<1>17. off[q] = L /\ all.items = items
  BY <1>4, <1>16 DEF all
<1>18. L % W = 0
  BY <1>17, <1>5, <1>8, <1>9
<1> QED BY <1>1, <1>4, <1>17, <1>18 DEF ReadsAsAnswers, W, items

\* Answers that are pieces of a description.
FromText(answers) ==
  \E text \in ErrorTexts : ReadsAsAnswers(text) /\ answers = TextAsAnswers(text)

\* However the server refuses, the client reads a failure: an ERROR message
\* as FAIL if its description has the length of an answer, with pieces of it
\* as answers, and anything else as no reply at all.
LEMMA RefusalRead ==
  ASSUME NEW c \in Nat, NEW frm \in Refusals(c)
  PROVE  LET v == VerdictOf(ReplyMeaning(frm))
         IN  Framed(frm) /\ (v = Failed \/ (v.verdict = "FAIL" /\ FromText(v.answers)))
<1> DEFINE r == ReplyMeaning(frm)
           v == VerdictOf(r)
<1>1. ERROR \in MsgTypes /\ DATA_ACK \in MsgTypes
  BY DEF MsgTypes
<1>2. 1 \in Byte
  BY WordFacts
<1>3. ASSUME ~r.ok PROVE VerdictOf(r) = Failed
  BY <1>3 DEF VerdictOf, Failed
<1>4. ASSUME NEW text \in ErrorTexts,
             frm = encode_packet(Packet(c, encode_message(make_error(c, text))))
      PROVE  Framed(frm) /\ (r.ok => v.verdict = "FAIL" /\ FromText(v.answers))
  <2>1. text \in Seq(Byte) /\ \A i \in 1 .. Len(text) : text[i] # 0
    <3>1. text \in Seq(1 .. Base - 1) /\ 1 .. Base - 1 \subseteq Byte
      <4>1. text \in Seq(1 .. Base - 1)
        BY TextAssumption
      <4>2. 1 .. Base - 1 \subseteq Byte
        BY WordFacts DEF Byte
      <4> QED BY <4>1, <4>2
    <3> DEFINE B == 1 .. Base - 1
    <3>2. text \in Seq(B) /\ B \subseteq Byte /\ 0 \notin B
      BY <3>1
    <3> HIDE DEF B
    <3>3. \A i \in 1 .. Len(text) : text[i] \in B
      BY <3>2
    <3> QED BY <3>2, <3>3
  <2>2. /\ Framed(frm)
        /\ r.ok => Len(text) >= 2 /\ r = decode_vrfs_route_response(Tail(text))
    BY <2>1, <1>1, <1>4, ReplyDecoded DEF make_error
  <2> SUFFICES ASSUME r.ok PROVE v.verdict = "FAIL" /\ FromText(v.answers)
    BY <2>2
  <2> DEFINE t == Tail(text)
             raw == SubSeq(text, 3, Len(text))
             d == DecodeAnswers(raw)
  <2>3. t \in Seq(Byte) /\ t # <<>> /\ Head(t) = text[2] /\ Tail(t) = raw
    <3>1. Len(text) \in Nat /\ Len(text) >= 2
      BY <2>1, <2>2
    <3> QED BY <2>1, <3>1, FromThird
  <2>4. r = IF d.ok THEN Ok([status_code |-> text[2], answers |-> d.val]) ELSE d
    <3> HIDE DEF t, raw
    <3>1. r = decode_vrfs_route_response(t)
      BY <2>2 DEF t
    <3> QED BY <3>1, <2>3 DEF decode_vrfs_route_response, AndThen
  <2> HIDE DEF d, r
  <2>5. d.ok /\ r = Ok([status_code |-> text[2], answers |-> d.val])
    BY <2>4
  <2>6. ReadsAsAnswers(text) /\ d.val = TextAsAnswers(text)
    BY <2>1, <2>2, <2>5, TextRead DEF d
  <2>7. text[2] # 0
    BY <2>1, <2>2
  <2>8. v = [verdict |-> "FAIL", answers |-> d.val]
    BY <2>5, <2>7 DEF VerdictOf, Ok
  <2> QED BY <2>6, <2>8 DEF FromText
<1>5. CASE frm = encode_packet(Packet(c, encode_message(make_data_ack(c, FALSE))))
  <2> DEFINE p == <<1>>
  <2>1. p \in Seq(Byte) /\ Len(p) = 1
    BY <1>2
  <2>2. make_data_ack(c, FALSE) = make_message(DATA_ACK, c, p)
    BY DEF make_data_ack
  <2> HIDE DEF p
  <2>3. Framed(frm) /\ (r.ok => Len(p) >= 2)
    BY <2>1, <2>2, <1>1, <1>5, ReplyDecoded
  <2> QED BY <2>1, <2>3, <1>3
<1>6. CASE frm = encode_response([length |-> 0, pkt_num |-> c, total_pkts |-> 1, ctrl |-> 0,
                                  status |-> 1])
  <2> DEFINE p == <<1>>
             P == decode_packet(frm)
  <2>1. p \in Seq(Byte) /\ Len(p) = 1
    BY <1>2
  <2>2. frm = encode_packet(Packet(c, p))
    BY <1>6 DEF encode_response, Packet
  <2> HIDE DEF p
  <2>3. Framed(frm) /\ (P.ok => P.val.data = p)
    BY <2>1, <2>2, PacketDecoded
  <2>4. ~decode_message(p).ok
    BY <2>1 DEF decode_message, Err, MSG_HEADER_SIZE
  <2>5. ~r.ok
    <3> DEFINE M == decode_message(P.val.data)
    <3>1. r = IF P.ok THEN IF M.ok THEN IF Len(M.val.payload) < 2 THEN Err("TooShort")
                                        ELSE decode_vrfs_route_response(Tail(M.val.payload))
                           ELSE M
              ELSE P
      BY Zenon DEF ReplyMeaning, AndThen
    <3>2. P.ok => ~M.ok
      BY <2>3, <2>4
    <3> HIDE DEF r, P, M
    <3> QED BY <3>1, <3>2
  <2> QED BY <2>3, <2>5, <1>3
<1>7. CASE \E text \in ErrorTexts :
               frm = encode_packet(Packet(c, encode_message(make_error(c, text))))
  BY <1>3, <1>4, <1>7
<1> QED BY <1>5, <1>6, <1>7 DEF Refusals

AnswersOf(vrfs, done) ==
  [i \in DOMAIN vrfs |-> [vrfs_name |-> vrfs[i].vrfs_name, prefix_status |-> VrfOk(vrfs, done, i)]]
AnswerFrame(c, vrfs, done) ==
  encode_packet(Packet(c, encode_message(
      [make_data_ack(c, TRUE) EXCEPT
         !.payload = @ \o encode_vrfs_route_response(VrfsResponse(vrfs, done))])))

\* An answer reads as what the kernel said, or is too long to arrive.
LEMMA AnswerRead ==
  ASSUME NEW c \in Nat, NEW vrfs \in Seq(VrfRequests), NEW done
  PROVE  LET frm == AnswerFrame(c, vrfs, done)
             v == VerdictOf(ReplyMeaning(frm))
         IN  /\ Framed(frm)
             /\ \/ v = Failed
                \/ /\ v.verdict \in {"PASS", "FAIL"} /\ v.answers = AnswersOf(vrfs, done)
                   /\ (v.verdict = "PASS") <=> (\A j \in DOMAIN done : done[j].ok)
<1> DEFINE status == IF \A j \in DOMAIN done : done[j].ok THEN 0 ELSE 1
           answers == AnswersOf(vrfs, done)
           resp == [status_code |-> status, answers |-> answers]
           enc == encode_vrfs_route_response(resp)
           t == <<0>>
           p == t \o enc
           frm == AnswerFrame(c, vrfs, done)
           r == ReplyMeaning(frm)
<1>1. VrfsResponse(vrfs, done) = resp
  BY DEF VrfsResponse, AnswersOf
<1>2. status \in Byte /\ (status = 0 <=> \A j \in DOMAIN done : done[j].ok)
  BY WordFacts
<1>3. answers \in Seq(AnswerEntries)
  <2>1. Len(vrfs) \in Nat /\ DOMAIN vrfs = 1 .. Len(vrfs)
        /\ \A i \in 1 .. Len(vrfs) : vrfs[i] \in VrfRequests
    OBVIOUS
  <2>2. ASSUME NEW i PROVE VrfOk(vrfs, done, i) \in BOOLEAN
    BY Zenon DEF VrfOk
  <2>3. ASSUME NEW i \in 1 .. Len(vrfs) PROVE answers[i] \in AnswerEntries
    <3>1. vrfs[i].vrfs_name \in [1 .. VRFS_NAME_SIZE -> Byte]
      BY <2>1 DEF VrfRequests
    <3>2. answers[i] = [vrfs_name |-> vrfs[i].vrfs_name, prefix_status |-> VrfOk(vrfs, done, i)]
      BY <2>1 DEF AnswersOf
    <3> QED BY <3>1, <3>2, <2>2 DEF AnswerEntries
  <2>4. answers = [i \in 1 .. Len(vrfs) |-> answers[i]]
    BY <2>1 DEF AnswersOf
  <2> HIDE DEF answers
  <2> QED BY <2>1, <2>3, <2>4
<1> HIDE DEF status, answers
<1>4. enc \in Seq(Byte) /\ decode_vrfs_route_response(enc) = Ok(resp)
  BY <1>2, <1>3, AnswersDecoded
<1> HIDE DEF resp, enc
<1>5. t \in Seq(Byte) /\ Len(t) = 1
  BY WordFacts
<1>6. make_data_ack(c, TRUE) = make_message(DATA_ACK, c, t)
  BY DEF make_data_ack
<1> HIDE DEF t
<1>7. [make_message(DATA_ACK, c, t) EXCEPT !.payload = @ \o enc] = make_message(DATA_ACK, c, p)
  <2> HIDE DEF p
  <2>1. [make_message(DATA_ACK, c, t) EXCEPT !.payload = p] = make_message(DATA_ACK, c, p)
    BY DEF make_message
  <2>2. make_message(DATA_ACK, c, t).payload \o enc = p
    BY DEF make_message, p
  <2> QED BY <2>1, <2>2
<1>8. frm = encode_packet(Packet(c, encode_message(make_message(DATA_ACK, c, p))))
  BY <1>1, <1>6, <1>7 DEF AnswerFrame, enc
<1>9. p \in Seq(Byte) /\ Tail(p) = enc
  <2>1. SubSeq(t \o enc, Len(t) + 1, Len(t \o enc)) = enc /\ t \o enc \in Seq(Byte)
        /\ Len(t \o enc) = Len(t) + Len(enc)
    BY <1>4, <1>5, Joined, JoinedParts
  <2> HIDE DEF p
  <2>2. SubSeq(p, 2, Len(p)) = enc /\ p \in Seq(Byte) /\ Len(p) = 1 + Len(enc)
    BY <2>1, <1>5 DEF p
  <2>3. p # <<>>
    BY <2>2, <1>4
  <2> QED BY <2>2, <2>3, TailIsSubSeq
<1> HIDE DEF p, frm
<1>10. Framed(frm) /\ (r.ok => r = Ok(resp))
  <2>1. DATA_ACK \in MsgTypes
    BY DEF MsgTypes
  <2> QED BY <2>1, <1>4, <1>8, <1>9, ReplyDecoded
<1> HIDE DEF r
<1>11. ~r.ok => VerdictOf(r) = Failed
  BY DEF VerdictOf, Failed
<1>12. r.ok => VerdictOf(r) = [verdict |-> IF status = 0 THEN "PASS" ELSE "FAIL",
                               answers |-> answers]
  BY <1>10 DEF VerdictOf, Ok, resp
<1>13. CASE r.ok
  <2> DEFINE v == VerdictOf(r)
  <2>1. v = [verdict |-> IF status = 0 THEN "PASS" ELSE "FAIL", answers |-> answers]
    BY <1>12, <1>13
  <2> HIDE DEF v
  <2>2. v.verdict \in {"PASS", "FAIL"} /\ v.answers = answers /\ (v.verdict = "PASS" <=> status = 0)
    BY <2>1
  <2> QED BY <2>2, <1>2, <1>10 DEF v, r, frm, answers
<1> QED BY <1>10, <1>11, <1>13 DEF r, frm

-----------------------------------------------------------------------------
(* The way of a reply to the client.                                        *)

\* What AnswerIsTrue says of the result r for request c.
Truth(c, r) ==
  r.verdict \in {"PASS", "FAIL"} =>
    \/ srv[c].phase = "refused" /\ r.verdict = "FAIL" /\ FromText(r.answers)
    \/ /\ srv[c].phase = "answered"
       /\ (r.verdict = "PASS") <=> (\A j \in DOMAIN srv[c].done : srv[c].done[j].ok)
       /\ r.answers = AnswersOf(reqs[c], srv[c].done)
TrueReply(c, frm) == Framed(frm) /\ Truth(c, VerdictOf(ReplyMeaning(frm)))

\* Before the server has answered nothing comes back; afterwards what the
\* client has read and has still to read is one reply that tells the truth.
Here(c) == cl.pc # "idle" /\ cl.id = c
Replied(c) == cl.buf \o conn[c].down
ReplyInv(c) ==
  /\ srv[c].phase \notin {"answered", "refused"} =>
       conn[c].down = <<>> /\ (Here(c) => cl.buf = <<>>)
  /\ Here(c) => Replied(c) = <<>> \/ TrueReply(c, Replied(c))

IsSequence(s) == \E S : s \in Seq(S)
AnsweredInv(c) ==
  /\ IsSequence(srv[c].done) /\ (srv[c].phase = "waiting" => srv[c].done = <<>>)
  /\ conn[c].down \in Seq(Byte) /\ Truth(c, result[c]) /\ ReplyInv(c)
AnswerInv ==
  /\ cl.buf \in Seq(Byte) /\ result = [c \in Ids |-> result[c]]
  /\ \A c \in Ids : AnsweredInv(c)

\* Initially nothing was answered.
LEMMA InitAnswer == Init => AnswerInv
<1> SUFFICES ASSUME Init PROVE AnswerInv
  OBVIOUS
<1>1. cl.buf \in Seq(Byte) /\ result = [c \in Ids |-> result[c]]
  BY DEF Init, Idle
<1>2. ASSUME NEW c \in Ids PROVE AnsweredInv(c)
  <2>1. conn[c] = NoConn /\ srv[c] = Unheard /\ cl = Idle /\ result[c].verdict = "none"
    BY DEF Init
  <2>2. IsSequence(<<>>) /\ <<>> \in Seq(Byte)
    BY DEF IsSequence
  <2>3. Truth(c, result[c])
    BY <2>1 DEF Truth
  <2>4. ReplyInv(c)
    BY <2>1 DEF ReplyInv, Here, Idle, NoConn
  <2> QED BY <2>1, <2>2, <2>3, <2>4 DEF AnsweredInv, NoConn, Unheard
<1> QED BY <1>1, <1>2 DEF AnswerInv

\* A reply stays true, and so does a result, when the server has settled
\* the request and nobody rewrites it.
Settled(c) ==
  /\ srv'[c].done = srv[c].done /\ (c <= Len(reqs) => reqs'[c] = reqs[c])
  /\ \/ srv'[c].phase = srv[c].phase
     \/ /\ srv[c].phase \notin {"answered", "refused"}
        /\ srv'[c].phase \notin {"answered", "refused", "waiting"}

\* A true result stays true while server and request stay,
LEMMA TruthKept ==
  ASSUME NEW c \in Ids, RequestInv, Settled(c), NEW r, Truth(c, r)
  PROVE  Truth(c, r)'
<1>1. HandledInv(c)
  BY OneConnection
<1>2. srv[c].phase = "answered" => reqs'[c] = reqs[c]
  BY <1>1 DEF HandledInv, Settled
<1> QED BY <1>2 DEF Settled, Truth

\* and so does a true reply that is still to be read.
LEMMA TrueReplyKept ==
  ASSUME NEW c \in Ids, RequestInv, Settled(c), NEW frm, TrueReply(c, frm)
  PROVE  TrueReply(c, frm)'
<1> DEFINE r == VerdictOf(ReplyMeaning(frm))
<1>1. Framed(frm) /\ Truth(c, r)
  BY DEF TrueReply
<1> HIDE DEF r
<1>2. Truth(c, r)'
  BY <1>1, TruthKept
<1> QED BY <1>1, <1>2 DEF TrueReply, r

\* Connections a step only touches in ways that do not matter to the reply.
LEMMA AnswerKept ==
  ASSUME NEW c \in Ids, RequestInv, AnsweredInv(c), Settled(c),
         conn'[c].down = conn[c].down, result'[c] = result[c],
         Here(c)' => \/ Here(c) /\ cl'.buf = cl.buf
                     \/ srv[c].phase = "waiting" /\ cl'.buf = <<>>
  PROVE  AnsweredInv(c)'
<1>1. Truth(c, result[c])'
  <2> DEFINE r == result[c]
  <2>1. Truth(c, r)
    BY DEF AnsweredInv
  <2>2. r' = r
    OBVIOUS
  <2> QED BY <2>1, <2>2, TruthKept DEF Truth
<1>2. srv'[c].phase \notin {"answered", "refused"} => srv[c].phase \notin {"answered", "refused"}
  BY DEF Settled
<1>3. ReplyInv(c) /\ conn[c].down \in Seq(Byte)
  BY DEF AnsweredInv
<1>4. srv'[c].phase \notin {"answered", "refused"} =>
        conn'[c].down = <<>> /\ (Here(c)' => cl'.buf = <<>>)
  BY <1>2, <1>3 DEF ReplyInv
<1>5. Here(c)' => Replied(c)' = <<>> \/ TrueReply(c, Replied(c))'
  <2>1. CASE Here(c)' /\ Here(c) /\ cl'.buf = cl.buf
    <3> DEFINE s == Replied(c)
    <3>1. s' = s
      BY <2>1 DEF Replied
    <3>2. s = <<>> \/ TrueReply(c, s)
      BY <2>1, <1>3 DEF ReplyInv
    <3>3. CASE s = <<>>
      BY <3>1, <3>3
    <3>4. CASE TrueReply(c, s)
      <4>1. PICK frm : frm = s
        OBVIOUS
      <4>2. TrueReply(c, frm)'
        BY <3>4, <4>1, TrueReplyKept
      <4>3. Framed(frm) /\ Truth(c, VerdictOf(ReplyMeaning(frm)))'
        BY <4>2 DEF TrueReply
      <4>4. Framed(s)' /\ Truth(c, VerdictOf(ReplyMeaning(s)))'
        BY <3>1, <4>1, <4>3 DEF Truth
      <4> QED BY <4>4 DEF TrueReply
    <3> QED BY <3>2, <3>3, <3>4
  <2>2. CASE srv[c].phase = "waiting" /\ cl'.buf = <<>>
    <3>1. conn'[c].down = <<>>
      BY <2>2, <1>3 DEF ReplyInv
    <3> QED BY <2>2, <3>1 DEF Replied
  <2> QED BY <2>1, <2>2
<1>6. ReplyInv(c)'
  BY <1>4, <1>5 DEF ReplyInv
<1> QED BY <1>1, <1>3, <1>6 DEF AnsweredInv, Settled

\* A request that ends with a result that tells the truth, or with none.
LEMMA AnswerEnded ==
  ASSUME RequestInv, AnswerInv, NEW r, cl.pc # "idle", EndRequest(r), UNCHANGED srv,
         UNCHANGED conn \/ CloseConn(cl.id), Truth(cl.id, r)
  PROVE  AnswerInv'
<1> DEFINE id == cl.id
<1>1. /\ cl' = Idle /\ reqs' = reqs /\ srv' = srv /\ result' = [result EXCEPT ![id] = r]
      /\ id \in Ids /\ result = [d \in Ids |-> result[d]]
  BY DEF EndRequest, RequestInv, ClientInv, AnswerInv
<1>2. cl'.buf \in Seq(Byte) /\ result' = [d \in Ids |-> result'[d]] /\ result'[id] = r
      /\ \A d \in Ids : d # id => result'[d] = result[d]
  BY <1>1 DEF Idle
<1>3. ASSUME NEW c \in Ids PROVE AnsweredInv(c)'
  <2>1. AnsweredInv(c) /\ Settled(c) /\ ~Here(c)'
    BY <1>1 DEF AnswerInv, Settled, Here, Idle
  <2>2. conn = [d \in Ids |-> conn[d]] /\ ConnRecord(c)
    BY OneConnection
  <2>3. CASE c # id
    <3>1. conn'[c].down = conn[c].down
      BY <2>2, <2>3, <1>1 DEF CloseConn
    <3> QED BY <2>1, <2>3, <3>1, <1>2, AnswerKept
  <2>4. CASE c = id
    <3>1. conn'[c].down \in {conn[c].down, <<>>}
      <4>1. CASE UNCHANGED conn
        BY <4>1
      <4>2. CASE CloseConn(id)
        <5>1. conn'[c] = [conn[c] EXCEPT !.state = "closed", !.down = <<>>]
          BY <4>2, <2>2, <2>4 DEF CloseConn
        <5>2. conn[c] = [state |-> conn[c].state, up |-> conn[c].up, down |-> conn[c].down]
          BY <2>2 DEF ConnRecord
        <5>3. conn'[c] = [state |-> "closed", up |-> conn[c].up, down |-> <<>>]
          BY <5>1, <5>2
        <5> QED BY <5>3
      <4> QED BY <4>1, <4>2
    <3>2. Truth(c, result[c])'
      BY <1>1, <1>2, <2>4 DEF Truth
    <3>3. <<>> \in Seq(Byte)
      OBVIOUS
    <3>4. ReplyInv(c)'
      BY <2>1, <3>1, <1>1 DEF ReplyInv, AnsweredInv
    <3> QED BY <2>1, <3>1, <3>2, <3>3, <3>4, <1>1 DEF AnsweredInv
  <2> QED BY <2>3, <2>4
<1> QED BY <1>2, <1>3 DEF AnswerInv

\* A step that adds nothing to what the client reads.
LEMMA AnswerStays ==
  ASSUME RequestInv, AnswerInv, UNCHANGED result, cl'.buf \in Seq(Byte),
         \A c \in Ids : /\ Settled(c) /\ conn'[c].down = conn[c].down
                        /\ Here(c)' => \/ Here(c) /\ cl'.buf = cl.buf
                                       \/ srv[c].phase = "waiting" /\ cl'.buf = <<>>
  PROVE  AnswerInv'
BY AnswerKept DEF AnswerInv

\* The connection of a new request has nothing to read.
LEMMA AnswerBegun ==
  ASSUME RequestInv, AnswerInv, NEW vrfs \in Requests, processRequest(vrfs)
  PROVE  AnswerInv'
<1> DEFINE id == Len(reqs) + 1
<1>1. /\ cl.pc = "idle" /\ reqs \in Seq(Requests) /\ cl'.id = id /\ cl'.buf = <<>>
      /\ reqs' = Append(reqs, vrfs) /\ conn' = conn /\ srv' = srv /\ result' = result
  BY DEF processRequest, RequestInv, ClientInv
<1>2. ASSUME NEW c \in Ids
      PROVE  /\ Settled(c) /\ conn'[c].down = conn[c].down
             /\ Here(c)' => srv[c].phase = "waiting" /\ cl'.buf = <<>>
  <2>1. UntouchedInv(c) /\ c \in Nat /\ c > 0 /\ Len(reqs) \in Nat
    BY OneConnection
  <2>2. c <= Len(reqs) => reqs'[c] = reqs[c]
    BY <2>1, <1>1
  <2>3. Here(c)' => c > Len(reqs)
    BY <2>1, <1>1 DEF Here
  <2> QED BY <2>1, <2>2, <2>3, <1>1 DEF Settled, UntouchedInv
<1>3. <<>> \in Seq(Byte)
  OBVIOUS
<1> QED BY <1>1, <1>2, <1>3, AnswerStays

\* Reading: the client has the bytes it took, or the whole reply.
LEMMA AnswerReceived ==
  ASSUME RequestInv, AnswerInv, nb_recv_frame
  PROVE  AnswerInv'
<1> DEFINE id == cl.id
           n == Min({Len(conn[id].down), RECV_MAX})
           p == SubSeq(conn[id].down, 1, n)
           q == SubSeq(conn[id].down, n + 1, Len(conn[id].down))
           buf == cl.buf \o p
           found == find_frame(buf)
<1>1. /\ cl.pc = "recv" /\ srv' = srv /\ id \in Ids
      /\ IF found.ok
         THEN EndRequest(VerdictOf(ReplyMeaning(found.val))) /\ CloseConn(cl.id)
         ELSE /\ cl' = [cl EXCEPT !.buf = buf]
              /\ conn' = [conn EXCEPT ![cl.id].down = q]
              /\ reqs' = reqs /\ result' = result
  BY DEF nb_recv_frame, CanRecv, RequestInv, ClientInv
<1>2. AnsweredInv(id) /\ cl.buf \in Seq(Byte) /\ conn[id].down \in Seq(Byte) /\ ReplyInv(id)
  BY <1>1 DEF AnswerInv, AnsweredInv
<1>3. n \in 0 .. Len(conn[id].down)
  <2> DEFINE a == Len(conn[id].down)
  <2>1. a \in Nat /\ RECV_MAX \in Nat
    BY <1>2, ExchangeAssumption
  <2> HIDE DEF a
  <2>2. Min({a, RECV_MAX}) = IF a <= RECV_MAX THEN a ELSE RECV_MAX
    BY <2>1 DEF Min
  <2> QED BY <2>1, <2>2 DEF a
<1> HIDE DEF n
<1>4. p \in Seq(Byte) /\ q \in Seq(Byte) /\ p \o q = conn[id].down
  BY <1>2, <1>3, Cut
<1> HIDE DEF p, q
<1>5. buf \in Seq(Byte) /\ buf \o q = Replied(id)
  <2>1. (cl.buf \o p) \o q = cl.buf \o (p \o q)
    BY <1>2, <1>4, Joined3
  <2> QED BY <2>1, <1>2, <1>4 DEF Replied
<1> HIDE DEF buf
<1>6. Here(id)
  BY <1>1 DEF Here
<1>7. CASE found.ok
  <2>1. buf # <<>>
    BY <1>7, NoFrameInNothing
  <2>2. Replied(id) # <<>>
    <3>1. Len(buf \o q) = Len(buf) + Len(q) /\ Len(buf) \in Nat /\ Len(q) \in Nat
      BY <1>4, <1>5, JoinedLen
    <3>2. Len(buf) # 0
      BY <2>1, <1>5
    <3> QED BY <3>1, <3>2, <1>5
  <2>3. TrueReply(id, Replied(id))
    BY <2>2, <1>2, <1>6 DEF ReplyInv
  <2>4. found.val = Replied(id)
    <3> DEFINE f == Replied(id)
    <3>1. Framed(f)
      BY <2>3 DEF TrueReply
    <3> HIDE DEF f
    <3>2. Begins(buf, f)
      BY <1>4, <1>5, Shorter DEF f
    <3> QED BY <3>1, <3>2, <1>7, FrameFound DEF f
  <2> HIDE DEF found
  <2>5. Truth(id, VerdictOf(ReplyMeaning(found.val)))
    BY <2>3, <2>4 DEF TrueReply
  <2> QED BY <2>5, <1>1, <1>7, AnswerEnded
<1>8. CASE ~found.ok
  <2> HIDE DEF found
  <2>1. /\ cl' = [cl EXCEPT !.buf = buf] /\ conn' = [conn EXCEPT ![id].down = q]
        /\ reqs' = reqs /\ result' = result
    BY <1>1, <1>8
  <2>2. /\ cl' = [pc |-> "recv", id |-> id, out |-> cl.out, buf |-> buf]
        /\ conn = [d \in Ids |-> conn[d]] /\ ConnRecord(id)
    BY <1>1, <2>1, OneConnection DEF RequestInv, ClientInv
  <2>3. conn'[id] = [state |-> conn[id].state, up |-> conn[id].up, down |-> q]
    <3>1. conn'[id] = [conn[id] EXCEPT !.down = q]
      BY <2>1, <2>2, <1>1
    <3> QED BY <3>1, <2>2 DEF ConnRecord
  <2>4. ASSUME NEW c \in Ids PROVE AnsweredInv(c)'
    <3>1. AnsweredInv(c) /\ Settled(c)
      BY <2>1, <1>1 DEF AnswerInv, Settled
    <3>2. CASE c # id
      <4>1. conn'[c].down = conn[c].down /\ ~Here(c)'
        BY <2>1, <2>2, <3>2 DEF Here
      <4> QED BY <4>1, <3>1, <2>1, AnswerKept
    <3>3. CASE c = id
      <4>1. Replied(c)' = Replied(c)
        <5>1. cl'.buf = buf /\ conn'[c].down = q
          BY <2>2, <2>3, <3>3
        <5>2. Replied(c)' = buf \o q
          BY <5>1 DEF Replied
        <5> QED BY <5>2, <3>3, <1>5
      <4>2. srv[c].phase \notin {"answered", "refused"} => conn'[c].down = <<>> /\ cl'.buf = <<>>
        <5>1. ASSUME srv[c].phase \notin {"answered", "refused"}
              PROVE  conn'[c].down = <<>> /\ cl'.buf = <<>>
          <6>1. cl.buf = <<>> /\ p \o q = <<>>
            BY <5>1, <3>3, <1>2, <1>4, <1>6 DEF ReplyInv
          <6>2. p = <<>> /\ q = <<>>
            BY <6>1, <1>4, ConcatEqualIffEmpty
          <6>3. buf = <<>>
            BY <6>1, <6>2 DEF buf
          <6> QED BY <6>2, <6>3, <2>2, <2>3, <3>3
        <5> QED BY <5>1
      <4>3. Replied(c)' = <<>> \/ TrueReply(c, Replied(c))'
        <5> DEFINE s == Replied(c)
        <5>1. s = <<>> \/ TrueReply(c, s)
          BY <3>3, <1>2, <1>6 DEF ReplyInv
        <5>2. CASE s = <<>>
          BY <5>2, <4>1
        <5>3. CASE TrueReply(c, s)
          <6>1. PICK frm : frm = s
            OBVIOUS
          <6>2. Framed(frm) /\ Truth(c, VerdictOf(ReplyMeaning(frm)))'
            BY <5>3, <6>1, <3>1, TrueReplyKept DEF TrueReply
          <6>3. Framed(s)' /\ Truth(c, VerdictOf(ReplyMeaning(s)))'
            BY <4>1, <6>1, <6>2 DEF Truth
          <6> QED BY <6>3 DEF TrueReply
        <5> QED BY <5>1, <5>2, <5>3
      <4>4. ReplyInv(c)'
        BY <4>2, <4>3, <1>1 DEF ReplyInv
      <4>5. Truth(c, result[c])'
        BY <3>1, <2>1, <1>1 DEF Truth, AnsweredInv
      <4> QED BY <4>4, <4>5, <3>1, <3>3, <1>1, <1>4, <2>3 DEF AnsweredInv
    <3> QED BY <3>2, <3>3
  <2> QED BY <2>1, <2>2, <2>4, <1>5 DEF AnswerInv
<1> QED BY <1>7, <1>8

\* The other steps of the client end a request without a verdict or read
\* nothing.
LEMMA AnswerClient ==
  ASSUME RequestInv, AnswerInv, ClientStep
  PROVE  AnswerInv'
<1>1. Truth(cl.id, Failed)
  BY DEF Truth, Failed
<1>2. CASE ConnectFails
  BY <1>1, <1>2, AnswerEnded DEF ConnectFails
<1>3. CASE SendFails
  BY <1>1, <1>3, AnswerEnded DEF SendFails, SendGivesUp
<1>4. CASE RecvFails
  BY <1>1, <1>4, AnswerEnded DEF RecvFails, RecvGivesUp
<1>5. CASE nb_connect \/ nb_send_all
  <2>1. /\ reqs' = reqs /\ srv' = srv /\ result' = result /\ cl.id \in Ids
        /\ cl'.id = cl.id /\ cl'.buf = cl.buf /\ cl.pc # "idle"
    BY <1>5 DEF nb_connect, nb_send_all, CanSend, RequestInv, ClientInv
  <2>2. ASSUME NEW c \in Ids PROVE conn'[c].down = conn[c].down
    <3>1. conn = [d \in Ids |-> conn[d]] /\ ConnRecord(c)
      BY OneConnection
    <3> QED BY <3>1, <1>5, <2>1 DEF nb_connect, nb_send_all, ConnRecord
  <2>3. ASSUME NEW c \in Ids PROVE Settled(c) /\ (Here(c)' => Here(c) /\ cl'.buf = cl.buf)
    BY <2>1 DEF Settled, Here
  <2> QED BY <2>1, <2>2, <2>3, AnswerStays DEF AnswerInv
<1> QED BY <1>2, <1>3, <1>4, <1>5, AnswerReceived DEF ClientStep

\* The server puts one true reply where nothing was.
LEMMA AnswerGiven ==
  ASSUME RequestInv, AnswerInv, NEW c \in Ids, NEW frm, Reply(c, frm),
         UNCHANGED <<cl, reqs, result>>, frm \in Seq(Byte), TrueReply(c, frm)',
         srv[c].phase \notin {"answered", "refused"},
         srv'[c].phase \in {"answered", "refused"}, srv'[c].done = srv[c].done,
         \A d \in Ids : d # c => srv'[d] = srv[d]
  PROVE  AnswerInv'
<1>1. ASSUME NEW d \in Ids PROVE AnsweredInv(d)'
  <2>1. AnsweredInv(d) /\ ConnRecord(d) /\ conn = [e \in Ids |-> conn[e]]
    BY OneConnection DEF AnswerInv
  <2>2. CASE d # c
    <3>1. conn'[d] = conn[d] /\ Settled(d)
      BY <2>2, ReplyMoves DEF Settled
    <3> QED BY <2>1, <3>1, AnswerKept DEF Here
  <2>3. CASE d = c
    <3>1. ReplyInv(d) /\ conn[d].down = <<>> /\ (Here(d) => cl.buf = <<>>)
      BY <2>1, <2>3 DEF AnsweredInv, ReplyInv
    <3> DEFINE down == IF conn[c].state = "open" THEN conn[c].down \o frm ELSE conn[c].down
    <3>2. down \in {<<>>, frm}
      <4>1. <<>> \o frm = frm
        OBVIOUS
      <4> QED BY <4>1, <3>1, <2>3
    <3>3. conn' = [conn EXCEPT ![c].down = down]
      BY DEF Reply
    <3> HIDE DEF down
    <3>4. conn'[d].down = down
      <4>1. conn'[d] = [conn[d] EXCEPT !.down = down]
        BY <2>1, <2>3, <3>3
      <4> QED BY <4>1, <2>1 DEF ConnRecord
    <3>5. <<>> \in Seq(Byte) /\ \A s \in Seq(Byte) : <<>> \o s = s
      OBVIOUS
    <3>6. Here(d)' => Replied(d)' \in {<<>>, frm}
      <4>1. ASSUME Here(d)' PROVE Replied(d)' \in {<<>>, frm}
        <5>1. cl'.buf = <<>>
          BY <4>1, <3>1 DEF Here
        <5>2. Replied(d)' = <<>> \o down
          BY <5>1, <3>4 DEF Replied
        <5>3. down \in Seq(Byte)
          BY <3>2, <3>5
        <5> QED BY <5>2, <5>3, <3>2, <3>5
      <4> QED BY <4>1
    <3>7. Replied(d)' = frm => TrueReply(d, Replied(d))'
      <4>1. Framed(frm) /\ Truth(c, VerdictOf(ReplyMeaning(frm)))'
        BY DEF TrueReply
      <4> QED BY <4>1, <2>3 DEF TrueReply, Truth
    <3>8. ReplyInv(d)'
      BY <3>6, <3>7, <2>3 DEF ReplyInv
    <3>9. Truth(d, result[d])'
      <4>1. ~(result[d].verdict \in {"PASS", "FAIL"})
        BY <2>1, <2>3 DEF AnsweredInv, Truth
      <4> QED BY <4>1 DEF Truth
    <3> QED BY <2>1, <2>3, <3>2, <3>4, <3>5, <3>8, <3>9 DEF AnsweredInv
  <2> QED BY <2>2, <2>3
<1> QED BY <1>1 DEF AnswerInv

\* The server refuses: what it sends reads as FAIL or as an error.
LEMMA AnswerHandled ==
  ASSUME RequestInv, AnswerInv, NEW c \in Ids, ServerDecode(c)
  PROVE  AnswerInv'
<1> DEFINE r == DecodedRequest(find_frame(srv[c].rx).val)
<1>1. /\ srv[c].phase = "waiting" /\ cl' = cl /\ reqs' = reqs /\ result' = result
      /\ IF r.ok
         THEN /\ srv' = [srv EXCEPT ![c].phase = "adding", ![c].req = r.val, ![c].rx = <<>>]
              /\ conn' = conn
         ELSE /\ srv' = [srv EXCEPT ![c].phase = "refused", ![c].rx = <<>>]
              /\ \E frm \in Refusals(c) : Reply(c, frm)
  BY DEF ServerDecode
<1>2. SrvRecord(c) /\ srv = [d \in Ids |-> srv[d]] /\ c \in Nat
  BY OneConnection
<1>3. /\ srv'[c].done = srv[c].done /\ \A d \in Ids : d # c => srv'[d] = srv[d]
      /\ srv'[c].phase = IF r.ok THEN "adding" ELSE "refused"
  <2> HIDE DEF r
  <2>1. srv[c] = [phase |-> "waiting", rx |-> srv[c].rx, req |-> srv[c].req, done |-> srv[c].done]
    BY <1>1, <1>2 DEF SrvRecord
  <2>2. CASE r.ok
    <3>1. srv' = [srv EXCEPT ![c].phase = "adding", ![c].req = r.val, ![c].rx = <<>>]
      BY <2>2, <1>1
    <3>2. srv'[c] = [phase |-> "adding", rx |-> <<>>, req |-> r.val, done |-> srv[c].done]
      BY <3>1, <2>1, <1>2
    <3> QED BY <3>1, <3>2, <2>2, <1>2
  <2>3. CASE ~r.ok
    <3>1. srv' = [srv EXCEPT ![c].phase = "refused", ![c].rx = <<>>]
      BY <2>3, <1>1
    <3>2. srv'[c] = [phase |-> "refused", rx |-> <<>>, req |-> srv[c].req, done |-> srv[c].done]
      BY <3>1, <2>1, <1>2
    <3> QED BY <3>1, <3>2, <2>3, <1>2
  <2> QED BY <2>2, <2>3
<1> HIDE DEF r
<1>4. CASE r.ok
  <2>1. \A d \in Ids : /\ Settled(d) /\ conn'[d].down = conn[d].down
                       /\ Here(d)' => Here(d) /\ cl'.buf = cl.buf
    BY <1>1, <1>3, <1>4 DEF Settled, Here
  <2> QED BY <2>1, <1>1, AnswerStays DEF AnswerInv
<1>5. CASE ~r.ok
  <2>1. PICK frm \in Refusals(c) : Reply(c, frm)
    BY <1>1, <1>5
  <2> DEFINE v == VerdictOf(ReplyMeaning(frm))
  <2>2. Framed(frm) /\ (v = Failed \/ (v.verdict = "FAIL" /\ FromText(v.answers)))
    BY <1>2, RefusalRead
  <2>3. TrueReply(c, frm)'
    <3>1. srv'[c].phase = "refused"
      BY <1>3, <1>5
    <3>2. Truth(c, v)'
      <4> HIDE DEF v
      <4> QED BY <2>2, <3>1 DEF Truth, Failed, FromText
    <3> QED BY <2>2, <3>2 DEF TrueReply
  <2>4. frm \in Seq(Byte)
    BY <2>2 DEF Framed
  <2> QED BY <2>1, <2>3, <2>4, <1>1, <1>3, <1>5, AnswerGiven
<1> QED BY <1>4, <1>5

\* The server answers: what it sends reads as the results of its adds.
LEMMA AnswerServed ==
  ASSUME RequestInv, AnswerInv, NEW c \in Ids, ServerReply(c)
  PROVE  AnswerInv'
<1> DEFINE frm == AnswerFrame(c, srv[c].req, srv[c].done)
<1>1. /\ srv[c].phase = "adding" /\ srv' = [srv EXCEPT ![c].phase = "answered"]
      /\ Reply(c, frm) /\ cl' = cl /\ reqs' = reqs /\ result' = result
  BY DEF ServerReply, AnswerFrame
<1>2. SrvRecord(c) /\ srv = [d \in Ids |-> srv[d]] /\ HandledInv(c) /\ c \in Nat
      /\ (c <= Len(reqs) => reqs[c] \in Seq(VrfRequests))
  BY OneConnection
<1>3. srv[c].req = reqs[c] /\ reqs[c] \in Seq(VrfRequests)
  BY <1>1, <1>2 DEF HandledInv
<1>4. /\ srv'[c].done = srv[c].done /\ srv'[c].phase = "answered"
      /\ \A d \in Ids : d # c => srv'[d] = srv[d]
  <2>1. srv'[c] = [srv[c] EXCEPT !.phase = "answered"]
    BY <1>1, <1>2
  <2> QED BY <2>1, <1>1, <1>2 DEF SrvRecord
<1> DEFINE v == VerdictOf(ReplyMeaning(frm))
<1>5. /\ Framed(frm)
      /\ \/ v = Failed
         \/ /\ v.verdict \in {"PASS", "FAIL"} /\ v.answers = AnswersOf(reqs[c], srv[c].done)
            /\ (v.verdict = "PASS") <=> (\A j \in DOMAIN srv[c].done : srv[c].done[j].ok)
  BY <1>2, <1>3, AnswerRead
<1>6. PICK f : f = frm
  OBVIOUS
<1>7. PICK w : w = v
  OBVIOUS
<1>8. w = VerdictOf(ReplyMeaning(f)) /\ Framed(f) /\ Reply(c, f)
  BY <1>1, <1>5, <1>6, <1>7
<1>9. Truth(c, w)'
  <2> HIDE DEF v, frm
  <2> QED BY <1>1, <1>4, <1>5, <1>7 DEF Truth, Failed
<1>10. TrueReply(c, f)'
  BY <1>8, <1>9 DEF TrueReply, Truth
<1>11. f \in Seq(Byte)
  BY <1>8 DEF Framed
<1> HIDE DEF v, frm
<1> QED BY <1>1, <1>4, <1>8, <1>10, <1>11, AnswerGiven

\* The kernel answers every message with one acknowledgement.
LEMMA Acknowledged ==
  ASSUME NEW received \in BOOLEAN, NEW e
  PROVE  nl_transact(received, <<ErrorMsg(e)>>) =
           IF ~received THEN Err("RecvFailed") ELSE IF e # "" THEN Err(e) ELSE Ok(TRUE)
<1> DEFINE d == <<ErrorMsg(e)>>
           errs == {i \in DOMAIN d : d[i].type = "NLMSG_ERROR"}
<1>1. errs = {1} /\ d[1].error = e
  BY DEF ErrorMsg
<1>2. Min({1}) = 1
  BY DEF Min
<1>3. d[Min(errs)].error = e /\ errs # {}
  BY <1>1, <1>2
<1> HIDE DEF d
<1> QED BY <1>3 DEF nl_transact, d

\* An add puts a result at the end of those there are.
LEMMA AnswerAdded ==
  ASSUME RequestInv, AnswerInv, NEW c \in Ids, ServerAdd(c)
  PROVE  AnswerInv'
<1>1. PICK received \in BOOLEAN :
         srv' = [srv EXCEPT ![c].done = Append(srv[c].done,
                   Transact(kernel, add_route(kernel.links,
                       PassOf(srv[c].req)[Len(srv[c].done) + 1]), received).result)]
  BY DEF ServerAdd
<1> DEFINE out == Transact(kernel, add_route(kernel.links,
                       PassOf(srv[c].req)[Len(srv[c].done) + 1]), received).result
           done == Append(srv[c].done, out)
<1> HIDE DEF out
<1>3. srv[c].phase = "adding" /\ cl' = cl /\ reqs' = reqs /\ result' = result /\ conn' = conn
  BY DEF ServerAdd
<1>4. SrvRecord(c) /\ srv = [d \in Ids |-> srv[d]] /\ AnsweredInv(c)
  BY OneConnection DEF AnswerInv
<1>5. IsSequence(done)
  <2>1. PICK S : srv[c].done \in Seq(S)
    BY <1>4 DEF AnsweredInv, IsSequence
  <2> DEFINE T == S \union {out}
  <2>2. srv[c].done \in Seq(T) /\ out \in T
    BY <2>1, SeqMonotonic
  <2> HIDE DEF T
  <2>3. done \in Seq(T)
    BY <2>2
  <2> QED BY <2>3 DEF IsSequence
<1>6. srv' = [srv EXCEPT ![c].done = done]
  BY <1>1 DEF out
<1> HIDE DEF done
<1>7. srv'[c] = [phase |-> "adding", rx |-> srv[c].rx, req |-> srv[c].req, done |-> done]
  <2>1. srv[c] = [phase |-> "adding", rx |-> srv[c].rx, req |-> srv[c].req, done |-> srv[c].done]
    BY <1>3, <1>4 DEF SrvRecord
  <2>2. srv'[c] = [srv[c] EXCEPT !.done = done]
    BY <1>4, <1>6
  <2> QED BY <2>1, <2>2
<1>8. ASSUME NEW d \in Ids PROVE AnsweredInv(d)'
  <2>1. CASE d # c
    <3>1. Settled(d) /\ AnsweredInv(d)
      BY <2>1, <1>3, <1>4, <1>6 DEF Settled, AnswerInv
    <3> QED BY <3>1, <1>3, AnswerKept DEF Here
  <2>2. CASE d = c
    <3>1. ReplyInv(c) /\ conn[c].down = <<>> /\ (Here(c) => cl.buf = <<>>)
      BY <1>3, <1>4 DEF AnsweredInv, ReplyInv
    <3>2. ReplyInv(c)'
      <4>1. Here(c) => Replied(c)' = <<>>
        BY <3>1, <1>3 DEF Replied
      <4> QED BY <3>1, <4>1, <1>3 DEF ReplyInv, Here
    <3>3. Truth(c, result[c])'
      BY <1>3, <1>4 DEF AnsweredInv, Truth
    <3>4. srv'[d].done = done /\ srv'[d].phase = "adding"
      BY <2>2, <1>7
    <3>5. conn'[d].down \in Seq(Byte) /\ ReplyInv(d)' /\ Truth(d, result[d])'
      BY <2>2, <3>2, <3>3, <1>3, <1>4 DEF AnsweredInv, Truth
    <3> QED BY <3>4, <3>5, <1>5 DEF AnsweredInv
  <2> QED BY <2>1, <2>2
<1> QED BY <1>3, <1>8 DEF AnswerInv

\* Every step keeps the invariant of replies.
LEMMA AnswerStep ==
  ASSUME RequestInv, AnswerInv, [Next]_vars
  PROVE  AnswerInv'
<1>1. cl.buf \in Seq(Byte)
  BY DEF AnswerInv
<1>2. CASE \E vrfs \in Requests : processRequest(vrfs)
  BY <1>2, AnswerBegun
<1>3. CASE ClientStep
  BY <1>3, AnswerClient
<1>4. CASE ServerStep
  <2>1. PICK c \in Ids : ServerRead(c) \/ ServerDecode(c) \/ ServerAdd(c) \/ ServerReply(c)
    BY <1>4 DEF ServerStep
  <2>2. CASE ServerRead(c)
    <3>1. /\ srv' = [srv EXCEPT ![c].rx = srv[c].rx \o conn[c].up]
          /\ conn' = [conn EXCEPT ![c].up = <<>>]
          /\ cl' = cl /\ reqs' = reqs /\ result' = result
      BY <2>2 DEF ServerRead
    <3>2. ASSUME NEW d \in Ids
          PROVE  srv'[d].done = srv[d].done /\ srv'[d].phase = srv[d].phase
                 /\ conn'[d].down = conn[d].down
      <4>1. /\ ConnRecord(d) /\ SrvRecord(d)
            /\ conn = [e \in Ids |-> conn[e]] /\ srv = [e \in Ids |-> srv[e]]
        BY OneConnection
      <4>2. CASE d # c
        BY <4>2, <3>1, <4>1
      <4>3. CASE d = c
        <5>1. /\ srv'[c] = [srv[c] EXCEPT !.rx = srv[c].rx \o conn[c].up]
              /\ conn'[c] = [conn[c] EXCEPT !.up = <<>>]
          BY <3>1, <4>1
        <5> QED BY <4>3, <5>1, <4>1 DEF ConnRecord, SrvRecord
      <4> QED BY <4>2, <4>3
    <3>3. \A d \in Ids : Settled(d) /\ (Here(d)' => Here(d) /\ cl'.buf = cl.buf)
      BY <3>1, <3>2 DEF Settled, Here
    <3> QED BY <3>1, <3>2, <3>3, <1>1, AnswerStays
  <2> QED BY <2>1, <2>2, AnswerHandled, AnswerAdded, AnswerServed
<1>5. CASE ServerDies
  <2>1. /\ conn' = [c \in Ids |-> IF conn[c].state = "open"
                                  THEN [conn[c] EXCEPT !.state = "dead", !.up = <<>>]
                                  ELSE [conn[c] EXCEPT !.up = <<>>]]
        /\ srv' = [c \in Ids |-> IF srv[c].phase \in {"waiting", "adding"} /\ conn[c].state # "none"
                                 THEN [srv[c] EXCEPT !.phase = "lost"] ELSE srv[c]]
        /\ cl' = cl /\ reqs' = reqs /\ result' = result
    BY <1>5 DEF ServerDies
  <2>2. ASSUME NEW d \in Ids PROVE Settled(d) /\ conn'[d].down = conn[d].down
    <3>1. ConnRecord(d) /\ SrvRecord(d)
      BY OneConnection
    <3>2. conn'[d].down = conn[d].down
      <4>1. conn[d] = [state |-> conn[d].state, up |-> conn[d].up, down |-> conn[d].down]
        BY <3>1 DEF ConnRecord
      <4>2. conn'[d] = [state |-> IF conn[d].state = "open" THEN "dead" ELSE conn[d].state,
                        up |-> <<>>, down |-> conn[d].down]
        BY <2>1, <4>1
      <4> QED BY <4>2
    <3>3. Settled(d)
      <4>1. srv[d] = [phase |-> srv[d].phase, rx |-> srv[d].rx, req |-> srv[d].req,
                      done |-> srv[d].done]
        BY <3>1 DEF SrvRecord
      <4>2. \/ srv'[d] = srv[d]
            \/ /\ srv[d].phase \in {"waiting", "adding"}
               /\ srv'[d] = [phase |-> "lost", rx |-> srv[d].rx, req |-> srv[d].req,
                             done |-> srv[d].done]
        BY <2>1, <4>1
      <4> QED BY <4>2, <2>1 DEF Settled
    <3> QED BY <3>2, <3>3
  <2>3. \A d \in Ids : Here(d)' => Here(d) /\ cl'.buf = cl.buf
    BY <2>1 DEF Here
  <2> QED BY <2>1, <2>2, <2>3, <1>1, AnswerStays
<1>6. CASE ToolStep \/ StrayBytes \/ UNCHANGED vars
  <2>1. cl' = cl /\ reqs' = reqs /\ result' = result /\ conn' = conn /\ srv' = srv
    BY <1>6, ToolsStayOut DEF StrayBytes, vars
  <2>2. \A d \in Ids : /\ Settled(d) /\ conn'[d].down = conn[d].down
                       /\ Here(d)' => Here(d) /\ cl'.buf = cl.buf
    BY <2>1 DEF Settled, Here
  <2> QED BY <2>1, <2>2, <1>1, AnswerStays
<1> QED BY <1>2, <1>3, <1>4, <1>5, <1>6 DEF Next

\* In every behaviour replies and results tell the truth (handle_vrfs_route_
\* request against processRequest).
THEOREM AnswersKept == Spec => []AnswerInv
BY InitAnswer, AnswerStep, RequestsKept, PTL DEF Spec

\* The verdict and the answers the client reads are those of the kernel for
\* its request (processRequest and decode_vrfs_route_response against
\* handle_vrfs_route_request); an ERROR message never reads as PASS.
THEOREM AnswersAreTrue == Spec => []AnswerIsTrue
<1>1. RequestInv /\ AnswerInv => AnswerIsTrue
  <2> SUFFICES ASSUME RequestInv, AnswerInv PROVE AnswerIsTrue
    OBVIOUS
  <2>1. ASSUME NEW c \in Ids PROVE Truth(c, result[c])
    BY DEF AnswerInv, AnsweredInv
  <2> QED BY <2>1 DEF AnswerIsTrue, Truth, AnswersOf, FromText
<1> QED BY <1>1, RequestsKept, AnswersKept, PTL

-----------------------------------------------------------------------------
(* The routes of a request.                                                 *)

\* What handle_vrfs_route_request asks of the kernel for one prefix.
PassParams == {PrefixParams(v, p) : v \in VrfRequests, p \in PrefixEntries}

\* Every prefix of every VRF has its place in the pass.
LEMMA PassShape ==
  ASSUME NEW vrfs \in Seq(VrfRequests)
  PROVE  /\ PassOf(vrfs) \in Seq(PassParams)
         /\ \A i \in DOMAIN vrfs : \A j \in DOMAIN vrfs[i].prefixes :
              \E h \in 1 .. Len(PassOf(vrfs)) :
                PassOf(vrfs)[h] = PrefixParams(vrfs[i], vrfs[i].prefixes[j])
<1> DEFINE ss == [i \in DOMAIN vrfs |->
                    [j \in DOMAIN vrfs[i].prefixes |-> PrefixParams(vrfs[i], vrfs[i].prefixes[j])]]
           n == Len(vrfs)
           pass == PassOf(vrfs)
<1>1. pass = FlattenSeq(ss)
  BY DEF PassOf, ConcatMap
<1>2. n \in Nat /\ DOMAIN vrfs = 1 .. n /\ \A i \in 1 .. n : vrfs[i] \in VrfRequests
  OBVIOUS
<1>3. ASSUME NEW i \in 1 .. n
      PROVE  LET v == vrfs[i]
             IN  /\ Len(v.prefixes) \in Nat /\ DOMAIN v.prefixes = 1 .. Len(v.prefixes)
                 /\ ss[i] \in Seq(PassParams) /\ Len(ss[i]) = Len(v.prefixes)
                 /\ \A j \in DOMAIN v.prefixes : ss[i][j] = PrefixParams(v, v.prefixes[j])
  <2> DEFINE v == vrfs[i]
             ps == v.prefixes
             row == [j \in DOMAIN ps |-> PrefixParams(v, ps[j])]
  <2>1. v \in VrfRequests
    BY <1>2
  <2>2. ss[i] = row
    BY <1>2
  <2> HIDE DEF v, ss
  <2>3. ps \in Seq(PrefixEntries)
    BY <2>1 DEF VrfRequests, PrefixEntries
  <2> HIDE DEF ps
  <2>4. Len(ps) \in Nat /\ DOMAIN ps = 1 .. Len(ps) /\ \A j \in 1 .. Len(ps) : ps[j] \in PrefixEntries
    BY <2>3
  <2>5. \A j \in 1 .. Len(ps) : PrefixParams(v, ps[j]) \in PassParams
    BY <2>1, <2>4 DEF PassParams
  <2>6. row \in [1 .. Len(ps) -> PassParams] /\ \A j \in DOMAIN ps : row[j] = PrefixParams(v, ps[j])
    BY <2>4, <2>5
  <2> HIDE DEF row
  <2>7. row \in Seq(PassParams) /\ Len(row) = Len(ps)
    BY <2>4, <2>6
  <2> QED BY <2>2, <2>4, <2>6, <2>7 DEF ps, v
<1>4. ss \in Seq(Seq(PassParams)) /\ Len(ss) = n
  <2>1. ss \in [1 .. n -> Seq(PassParams)]
    BY <1>2, <1>3
  <2> HIDE DEF ss
  <2> QED BY <2>1, <1>2
<1> HIDE DEF ss, pass
<1>5. pass \in Seq(PassParams)
  BY <1>1, <1>4, Flattened
<1>6. PICK off : Laid(ss, off)
  BY <1>4, Flattened
<1>7. /\ off \in [0 .. n -> Nat]
      /\ \A k \in 1 .. n :
           /\ off[k] = off[k - 1] + Len(ss[k]) /\ off[k] <= Len(pass)
           /\ \A i \in 1 .. Len(ss[k]) : pass[off[k - 1] + i] = ss[k][i]
  BY <1>1, <1>4, <1>6 DEF Laid
<1>8. ASSUME NEW i \in 1 .. n, NEW j \in DOMAIN vrfs[i].prefixes
      PROVE  \E h \in 1 .. Len(pass) : pass[h] = PrefixParams(vrfs[i], vrfs[i].prefixes[j])
  <2> DEFINE m == Len(vrfs[i].prefixes)
             o == off[i - 1]
             e == PrefixParams(vrfs[i], vrfs[i].prefixes[j])
  <2>1. m \in Nat /\ j \in 1 .. m /\ Len(ss[i]) = m /\ ss[i][j] = e
    BY <1>3
  <2>2. i - 1 \in 0 .. n
    BY <1>2
  <2>3. o \in Nat
    BY <1>7, <2>2
  <2>4. o + m <= Len(pass) /\ \A k \in 1 .. m : pass[o + k] = ss[i][k]
    BY <1>7, <2>1
  <2> HIDE DEF o, m, e
  <2>5. Len(pass) \in Nat
    BY <1>5
  <2>6. o + j \in 1 .. Len(pass) /\ pass[o + j] = e
    BY <2>1, <2>3, <2>4, <2>5
  <2> QED BY <2>6 DEF e
<1> QED BY <1>2, <1>5, <1>8 DEF pass

\* The attributes of a message, each with a type of its own.
LEMMA TwoAttributes ==
  ASSUME NEW d, NEW g
  PROVE  LET a == parse_attrs(<<<<"RTA_DST", d>>, <<"RTA_GATEWAY", g>>>>)
         IN  DOMAIN a = {"RTA_DST", "RTA_GATEWAY"} /\ a["RTA_DST"] = d /\ a["RTA_GATEWAY"] = g
<1> DEFINE s == <<<<"RTA_DST", d>>, <<"RTA_GATEWAY", g>>>>
           I(t) == {i \in DOMAIN s : s[i][1] = t}
           T == {s[i][1] : i \in DOMAIN s}
<1>1. T = {"RTA_DST", "RTA_GATEWAY"}
  OBVIOUS
<1>2. I("RTA_DST") = {1} /\ I("RTA_GATEWAY") = {2}
  OBVIOUS
<1>3. Max({1}) = 1 /\ Max({2}) = 2
  BY DEF Max
<1>4. parse_attrs(s) = [t \in T |-> s[Max(I(t))][2]]
  BY DEF parse_attrs
<1>5. s[1][2] = d /\ s[2][2] = g
  OBVIOUS
<1> HIDE DEF s, I, T
<1>6. /\ DOMAIN parse_attrs(s) = T /\ parse_attrs(s)["RTA_DST"] = s[Max(I("RTA_DST"))][2]
      /\ parse_attrs(s)["RTA_GATEWAY"] = s[Max(I("RTA_GATEWAY"))][2]
  BY <1>1, <1>4
<1> QED BY <1>1, <1>2, <1>3, <1>5, <1>6 DEF s

\* The same with an interface.
LEMMA ThreeAttributes ==
  ASSUME NEW d, NEW g, NEW o
  PROVE  LET a == parse_attrs(<<<<"RTA_DST", d>>, <<"RTA_GATEWAY", g>>, <<"RTA_OIF", o>>>>)
         IN  /\ DOMAIN a = {"RTA_DST", "RTA_GATEWAY", "RTA_OIF"}
             /\ a["RTA_DST"] = d /\ a["RTA_GATEWAY"] = g /\ a["RTA_OIF"] = o
<1> DEFINE s == <<<<"RTA_DST", d>>, <<"RTA_GATEWAY", g>>, <<"RTA_OIF", o>>>>
           I(t) == {i \in DOMAIN s : s[i][1] = t}
           T == {s[i][1] : i \in DOMAIN s}
<1>1. T = {"RTA_DST", "RTA_GATEWAY", "RTA_OIF"}
  OBVIOUS
<1>2. I("RTA_DST") = {1} /\ I("RTA_GATEWAY") = {2} /\ I("RTA_OIF") = {3}
  OBVIOUS
<1>3. Max({1}) = 1 /\ Max({2}) = 2 /\ Max({3}) = 3
  BY DEF Max
<1>4. parse_attrs(s) = [t \in T |-> s[Max(I(t))][2]]
  BY DEF parse_attrs
<1>5. s[1][2] = d /\ s[2][2] = g /\ s[3][2] = o
  OBVIOUS
<1> HIDE DEF s, I, T
<1>6. /\ DOMAIN parse_attrs(s) = T /\ parse_attrs(s)["RTA_DST"] = s[Max(I("RTA_DST"))][2]
      /\ parse_attrs(s)["RTA_GATEWAY"] = s[Max(I("RTA_GATEWAY"))][2]
      /\ parse_attrs(s)["RTA_OIF"] = s[Max(I("RTA_OIF"))][2]
  BY <1>1, <1>4
<1> QED BY <1>1, <1>2, <1>3, <1>5, <1>6 DEF s

\* A short sequence, one element longer.
LEMMA OneMore ==
  ASSUME NEW x, NEW y, NEW z
  PROVE  /\ Append(<<>>, x) = <<x>> /\ Append(<<x>>, y) = <<x, y>>
         /\ Append(<<x, y>>, z) = <<x, y, z>>
<1> DEFINE S == {x, y, z}
<1>1. x \in S /\ y \in S /\ z \in S
  OBVIOUS
<1> HIDE DEF S
<1>2. <<>> \in Seq(S) /\ <<x>> \in Seq(S) /\ <<x, y>> \in Seq(S) /\ <<x, y, z>> \in Seq(S)
  BY <1>1
<1>3. Append(<<>>, x) = <<x>>
  OBVIOUS
<1>4. Append(<<x>>, y) = <<x, y>>
  <2> DEFINE s == Append(<<x>>, y)
             t == <<x, y>>
  <2>1. s \in Seq(S) /\ Len(s) = 2 /\ s[1] = x /\ s[2] = y
    BY <1>1, <1>2, AppendProperties
  <2>2. t \in Seq(S) /\ Len(t) = 2 /\ t[1] = x /\ t[2] = y
    BY <1>2
  <2> HIDE DEF s, t
  <2>3. \A i \in 1 .. Len(s) : s[i] = t[i]
    BY <2>1, <2>2
  <2>4. s = t
    BY <2>1, <2>2, <2>3, SeqEqual
  <2> QED BY <2>4 DEF s, t
<1>5. Append(<<x, y>>, z) = <<x, y, z>>
  <2> DEFINE s == Append(<<x, y>>, z)
             t == <<x, y, z>>
  <2>1. s \in Seq(S) /\ Len(s) = 3 /\ s[1] = x /\ s[2] = y /\ s[3] = z
    BY <1>1, <1>2, AppendProperties
  <2>2. t \in Seq(S) /\ Len(t) = 3 /\ t[1] = x /\ t[2] = y /\ t[3] = z
    BY <1>2
  <2> HIDE DEF s, t
  <2>3. \A i \in 1 .. Len(s) : s[i] = t[i]
    BY <2>1, <2>2
  <2>4. s = t
    BY <2>1, <2>2, <2>3, SeqEqual
  <2> QED BY <2>4 DEF s, t
<1> QED BY <1>3, <1>4, <1>5

\* What an add asks for is the route of its prefix: in the main table, with
\* the nexthop and, unless the name is empty, the interface of the VRF.
LEMMA AddedRoute ==
  ASSUME NEW k, NEW p \in PassParams, add_route(k.links, p).ok
  PROVE  LET r == KernelRoute(k, add_route(k.links, p).val)
         IN  /\ r.table = Main /\ r.dst = p.dst /\ r.prefix_len = p.prefix_len
             /\ r.gateway = p.gateway
             /\ \/ r.oif = 0
                \/ p.if_name \in DOMAIN k.links /\ r.oif = k.links[p.if_name]
<1> DEFINE F == {"CREATE", "EXCL"}
           B == [dst_len |-> p.prefix_len, table |-> TableField(p.table), scope |-> p.scope]
           M(a) == [type |-> "RTM_NEWROUTE", flags |-> F, body |-> B, attrs |-> a]
           x == <<"RTA_DST", p.dst>>
           y == <<"RTA_GATEWAY", p.gateway>>
           idx == name_to_index(k.links, p.if_name)
           z == <<"RTA_OIF", idx.val>>
           attrs == IF p.if_name # <<>> THEN <<x, y, z>> ELSE <<x, y>>
           msg == add_route(k.links, p).val
           r == KernelRoute(k, msg)
           a == parse_attrs(attrs)
<1>1. p.has_gateway = TRUE /\ p.metric = 0 /\ p.table = Main
  BY DEF PassParams, PrefixParams, RouteAddParams
<1>2. Base \in Nat /\ Base > 5 /\ Main = Base - 2
  BY MessageAssumption, WordFacts DEF MsgTypes, ERROR, Main
<1>3. TableField(p.table) = Main /\ ~(p.table >= Base)
  <2>1. Main \in Int /\ Base \in Int /\ ~(Main >= Base)
    BY <1>2
  <2> HIDE DEF F, B, x, y, idx, z, attrs, msg, r, a
  <2>2. TableField(Main) = Main
    BY <2>1 DEF TableField
  <2>3. p.table = Main
    BY <1>1
  <2> QED BY <2>1, <2>2, <2>3
<1>4. ASSUME NEW s, NEW t, NEW d PROVE add_attr(M(s), t, d) = M(Append(s, <<t, d>>))
  <2> DEFINE w == Append(s, <<t, d>>)
  <2>1. M(s).attrs = s
    OBVIOUS
  <2>2. add_attr(M(s), t, d) = [M(s) EXCEPT !.attrs = w]
    BY <2>1 DEF add_attr
  <2> HIDE DEF w, F, B
  <2>3. [M(s) EXCEPT !.attrs = w] = M(w)
    OBVIOUS
  <2> QED BY <2>2, <2>3 DEF w
<1>5. /\ NlMsg("RTM_NEWROUTE", F, B) = M(<<>>)
      /\ add_attr(M(<<>>), "RTA_DST", p.dst) = M(<<x>>)
      /\ add_attr(M(<<x>>), "RTA_GATEWAY", p.gateway) = M(<<x, y>>)
      /\ add_attr(M(<<x, y>>), "RTA_OIF", idx.val) = M(<<x, y, z>>)
  <2> HIDE DEF F, B
  <2>1. NlMsg("RTM_NEWROUTE", F, B) = M(<<>>)
    BY DEF NlMsg
  <2> HIDE DEF M, idx
  <2>2. add_attr(M(<<>>), "RTA_DST", p.dst) = M(<<x>>)
    <3>1. Append(<<>>, x) = <<x>>
      BY OneMore
    <3>2. add_attr(M(<<>>), "RTA_DST", p.dst) = M(Append(<<>>, x))
      BY <1>4
    <3> HIDE DEF x
    <3> QED BY <3>1, <3>2
  <2>3. add_attr(M(<<x>>), "RTA_GATEWAY", p.gateway) = M(<<x, y>>)
    <3>1. Append(<<x>>, y) = <<x, y>>
      BY OneMore
    <3>2. add_attr(M(<<x>>), "RTA_GATEWAY", p.gateway) = M(Append(<<x>>, y))
      BY <1>4
    <3> HIDE DEF y
    <3> QED BY <3>1, <3>2
  <2>4. add_attr(M(<<x, y>>), "RTA_OIF", idx.val) = M(<<x, y, z>>)
    <3>1. Append(<<x, y>>, z) = <<x, y, z>>
      BY OneMore
    <3>2. add_attr(M(<<x, y>>), "RTA_OIF", idx.val) = M(Append(<<x, y>>, z))
      BY <1>4
    <3> HIDE DEF z
    <3> QED BY <3>1, <3>2
  <2> QED BY <2>1, <2>2, <2>3, <2>4
<1> HIDE DEF M, x, y, z
<1>6. msg = M(attrs) /\ idx.ok
  <2> HIDE DEF F, idx
  <2> DEFINE m1 == NlMsg("RTM_NEWROUTE", F, B)
             m2 == AttrIf(p.has_gateway, add_attr(m1, "RTA_DST", p.dst), "RTA_GATEWAY", p.gateway)
             m3 == AttrIf(p.if_name # <<>>, m2, "RTA_OIF", idx.val)
             m4 == WithTable(AttrIf(p.metric # 0, m3, "RTA_PRIORITY", p.metric), p.table)
  <2>1. msg = m4 /\ idx.ok
    <3>1. add_route(k.links, p) = IF idx.ok THEN Ok(m4) ELSE idx
      BY DEF add_route, send_route_new, RouteMsg, WithOif, AndThen, Ok, F, idx
    <3> HIDE DEF m4
    <3>2. idx.ok
      BY <3>1
    <3> QED BY <3>1, <3>2 DEF Ok
  <2> HIDE DEF B
  <2>2. m2 = M(<<x, y>>)
    BY <1>1, <1>5 DEF AttrIf
  <2>3. m3 = M(attrs)
    BY <2>2, <1>5 DEF AttrIf
  <2> HIDE DEF m3, m2, m1
  <2>4. m4 = m3
    BY <1>1, <1>3 DEF WithTable, AttrIf
  <2> QED BY <2>1, <2>3, <2>4
<1>7. msg.body = B /\ msg.attrs = attrs
  BY <1>6 DEF M
<1>8. /\ DOMAIN a \subseteq {"RTA_DST", "RTA_GATEWAY", "RTA_OIF"}
      /\ "RTA_GATEWAY" \in DOMAIN a /\ a["RTA_DST"] = p.dst /\ a["RTA_GATEWAY"] = p.gateway
      /\ "RTA_OIF" \in DOMAIN a => p.if_name # <<>> /\ a["RTA_OIF"] = idx.val
  <2>1. CASE p.if_name = <<>>
    BY <2>1, TwoAttributes DEF x, y
  <2>2. CASE p.if_name # <<>>
    <3> HIDE DEF idx
    <3> QED BY <2>2, ThreeAttributes DEF x, y, z
  <2> QED BY <2>1, <2>2
<1> HIDE DEF attrs, msg, F
<1>9. KernelTable(msg) = Main
  <2> HIDE DEF a
  <2>1. "RTA_TABLE" \notin DOMAIN a
    BY <1>8
  <2>2. msg.body.table = Main
    BY <1>3, <1>7
  <2> QED BY <2>1, <2>2, <1>7 DEF KernelTable, attr_data, a
<1>10. p.if_name # <<>> => p.if_name \in DOMAIN k.links /\ idx.val = k.links[p.if_name]
  BY <1>6 DEF name_to_index, Ok, Err
<1> HIDE DEF idx, a
<1>11. /\ r.dst = a["RTA_DST"] /\ r.prefix_len = p.prefix_len /\ r.table = Main
       /\ r.gateway = attr_data(a, "RTA_GATEWAY", None) /\ r.oif = attr_data(a, "RTA_OIF", 0)
  BY <1>7, <1>9 DEF KernelRoute, a
<1> HIDE DEF r
<1>12. r.gateway = p.gateway /\ r.dst = p.dst
  BY <1>8, <1>11 DEF attr_data
<1>13. r.oif = 0 \/ (p.if_name \in DOMAIN k.links /\ r.oif = k.links[p.if_name])
  BY <1>8, <1>10, <1>11 DEF attr_data
<1> QED BY <1>11, <1>12, <1>13 DEF r, msg

\* The route of a prefix, by the interfaces there were at the start.
RouteFor(r, p) ==
  /\ r.table = Main /\ r.dst = p.dst /\ r.prefix_len = p.prefix_len
  /\ r.gateway = p.gateway /\ r.oif = InitialKernel.links[p.if_name]

\* An add that was acknowledged has put its route into the kernel.
LEMMA AddInstalls ==
  ASSUME KernelInv, NEW p \in PassParams, NEW received \in BOOLEAN,
         Transact(kernel, add_route(kernel.links, p), received).result.ok
  PROVE  \E r \in Transact(kernel, add_route(kernel.links, p), received).k.fib : RouteFor(r, p)
<1> DEFINE m == add_route(kernel.links, p)
           r == KernelRoute(kernel, m.val)
           e == KernelRefusal(kernel, m.val, r)
           did == Transact(kernel, m, received)
<1>1. m.ok
  BY DEF Transact
<1>2. m.val.type = "RTM_NEWROUTE"
  BY <1>1, AddMessage
<1>3. /\ r.table = Main /\ r.dst = p.dst /\ r.prefix_len = p.prefix_len /\ r.gateway = p.gateway
      /\ \/ r.oif = 0
         \/ p.if_name \in DOMAIN kernel.links /\ r.oif = kernel.links[p.if_name]
  BY <1>1, AddedRoute
<1> HIDE DEF m, r
<1>4. did.result = nl_transact(received, <<ErrorMsg(e)>>)
      /\ did.k = IF e # "" THEN kernel
                 ELSE [kernel EXCEPT !.fib = {s \in kernel.fib : ~SameKey(r, s)} \union {r}]
  BY <1>1, <1>2 DEF Transact, KernelDo, r
<1>5. e = ""
  <2> HIDE DEF e
  <2>1. did.result.ok
    BY DEF m
  <2> HIDE DEF did
  <2>2. SUFFICES ASSUME e # "" PROVE FALSE
    OBVIOUS
  <2>3. CASE received
    <3>1. did.result = Err(e)
      BY <1>4, <2>2, <2>3, Acknowledged, Zenon
    <3> QED BY <3>1, <2>1 DEF Err
  <2>4. CASE ~received
    <3>1. did.result = Err("RecvFailed")
      BY <1>4, <2>4, Acknowledged, Zenon
    <3> QED BY <3>1, <2>1 DEF Err
  <2> QED BY <2>3, <2>4
<1>6. r.oif \in {kernel.links[n] : n \in DOMAIN kernel.links}
  BY <1>5 DEF KernelRefusal
<1>7. r.oif # 0
  <2>1. PICK n \in DOMAIN kernel.links : r.oif = kernel.links[n]
    BY <1>6
  <2>2. kernel.links[n] \in Nat \ {0}
    BY KernelAssumption DEF KernelInv
  <2> QED BY <2>1, <2>2
<1>8. r.oif = InitialKernel.links[p.if_name]
  BY <1>3, <1>7 DEF KernelInv
<1>9. r \in did.k.fib
  <2> DEFINE fib == {s \in kernel.fib : ~SameKey(r, s)} \union {r}
  <2>1. r \in fib
    OBVIOUS
  <2>2. did.k = [kernel EXCEPT !.fib = fib]
    BY <1>4, <1>5
  <2> HIDE DEF fib, did
  <2>3. did.k.fib = fib
    BY <2>2 DEF KernelInv
  <2> QED BY <2>1, <2>3
<1> QED BY <1>3, <1>8, <1>9 DEF RouteFor, m

\* The routes that are in the kernel or that another process took away.
Known == kernel.fib \union removed
Was(p) == \E r \in Known : RouteFor(r, p)

\* The server's results are those of the adds of the request, in its order,
\* and an add that succeeded has left its route.
Put(c) ==
  /\ Len(srv[c].done) <= Len(PassOf(reqs[c]))
  /\ \A j \in 1 .. Len(srv[c].done) : srv[c].done[j].ok => Was(PassOf(reqs[c])[j])
PassInv(c) ==
  /\ srv[c].phase \in {"adding", "answered"} => Put(c)
  /\ srv[c].phase = "answered" => Len(srv[c].done) = Len(PassOf(reqs[c]))
PassesInv == \A c \in Ids : PassInv(c)

\* Initially no add was made.
LEMMA InitPass == Init => PassesInv
BY DEF Init, Unheard, PassInv, PassesInv

\* A route that another process takes away is remembered.
LEMMA KnownGrows ==
  ASSUME KernelInv, [Next]_vars
  PROVE  Known \subseteq Known'
<1>1. ASSUME NEW k, NEW seen, ToolDid(k, seen) PROVE Known \subseteq Known'
  BY <1>1 DEF ToolDid, Known
<1>2. CASE ToolStep
  <2>1. \E k, seen : ToolDid(k, seen)
    <3>1. ASSUME NEW fib, NEW seen, RoutesAre(fib, seen) PROVE \E k, s : ToolDid(k, s)
      BY <3>1 DEF RoutesAre
    <3>2. CASE \E p \in ToolAdds : ToolAdd(p)
      BY <3>1, <3>2 DEF ToolAdd
    <3>3. CASE \E p \in ToolDels : ToolDel(p)
      BY <3>1, <3>3 DEF ToolDel
    <3>4. CASE \E is \in ToolPayloads : ToolPayload(is)
      BY <3>1, <3>4 DEF ToolPayload
    <3>5. CASE \E p \in ToolReplaces : ToolReplace(p)
      BY <3>1, <3>5 DEF ToolReplace
    <3>6. CASE ToolList
      BY <3>6 DEF ToolList
    <3>7. CASE \E name \in DOMAIN InitialKernel.links : ToolShow(name)
      BY <3>7 DEF ToolShow
    <3>8. CASE \E name \in DOMAIN kernel.links : LinkGone(name)
      BY <3>8 DEF LinkGone
    <3> QED BY <1>2, <3>2, <3>3, <3>4, <3>5, <3>6, <3>7, <3>8 DEF ToolStep
  <2> QED BY <2>1, <1>1
<1>3. ASSUME removed' = removed, kernel.fib \subseteq kernel'.fib PROVE Known \subseteq Known'
  BY <1>3 DEF Known
<1>4. CASE \E vrfs \in Requests : processRequest(vrfs)
  BY <1>3, <1>4 DEF processRequest
<1>5. CASE ClientStep
  BY <1>3, <1>5 DEF ClientStep, nb_connect, ConnectFails, nb_send_all, SendFails, nb_recv_frame,
                    RecvFails
<1>6. CASE ServerStep
  <2>1. PICK c \in Ids : ServerRead(c) \/ ServerDecode(c) \/ ServerAdd(c) \/ ServerReply(c)
    BY <1>6 DEF ServerStep
  <2>2. CASE ServerAdd(c)
    <3>1. PICK received \in BOOLEAN :
             kernel' = Transact(kernel, add_route(kernel.links,
                            PassOf(srv[c].req)[Len(srv[c].done) + 1]), received).k
      BY <2>2 DEF ServerAdd
    <3>2. removed' = removed
      BY <2>2 DEF ServerAdd
    <3> QED BY <3>1, <3>2, <1>3, AddKeeps DEF KernelInv
  <2>3. CASE ~ServerAdd(c)
    BY <2>1, <2>3, <1>3 DEF ServerRead, ServerDecode, ServerReply
  <2> QED BY <2>2, <2>3
<1>7. CASE ServerDies
  BY <1>3, <1>7 DEF ServerDies
<1>8. CASE StrayBytes \/ UNCHANGED vars
  BY <1>3, <1>8 DEF StrayBytes, vars
<1> QED BY <1>2, <1>4, <1>5, <1>6, <1>7, <1>8 DEF Next

\* Connections whose results a step leaves alone.
LEMMA PassKept ==
  ASSUME NEW c \in Ids, RequestInv, PassInv(c), Known \subseteq Known',
         srv'[c].done = srv[c].done, c <= Len(reqs) => reqs'[c] = reqs[c],
         srv'[c].phase = srv[c].phase \/ srv'[c].phase \in {"refused", "lost"}
  PROVE  PassInv(c)'
<1>1. CASE srv'[c].phase \in {"adding", "answered"}
  <2>1. srv'[c].phase = srv[c].phase /\ c <= Len(reqs)
    BY <1>1, OneConnection DEF HandledInv
  <2>2. reqs'[c] = reqs[c]
    BY <2>1
  <2>3. \A p : Was(p) => Was(p)'
    BY DEF Was, RouteFor
  <2> QED BY <1>1, <2>1, <2>2, <2>3 DEF PassInv, Put
<1>2. CASE srv'[c].phase \notin {"adding", "answered"}
  BY <1>2 DEF PassInv
<1> QED BY <1>1, <1>2

\* An add puts its result at the end, with its route if it succeeded.
LEMMA PassAdded ==
  ASSUME RequestInv, AnswerInv, KernelInv, NEW c \in Ids, PassInv(c), Known \subseteq Known',
         ServerAdd(c)
  PROVE  PassInv(c)'
<1>a. PICK pass : pass = PassOf(reqs[c])
  OBVIOUS
<1>b. PICK n : n = Len(srv[c].done)
  OBVIOUS
<1>c. PICK p : p = pass[n + 1]
  OBVIOUS
<1> DEFINE done == srv[c].done
<1>1. SrvRecord(c) /\ srv = [d \in Ids |-> srv[d]] /\ AnsweredInv(c) /\ HandledInv(c)
      /\ (c <= Len(reqs) => reqs[c] \in Seq(VrfRequests))
  BY OneConnection DEF AnswerInv
<1>2. srv[c].phase = "adding" /\ reqs' = reqs /\ removed' = removed
  BY DEF ServerAdd
<1>3. srv[c].req = reqs[c] /\ reqs[c] \in Seq(VrfRequests)
  BY <1>1, <1>2 DEF HandledInv
<1>4. pass \in Seq(PassParams)
  BY <1>3, <1>a, PassShape
<1>5. n < Len(pass)
  BY <1>3, <1>a, <1>b DEF ServerAdd
<1>6. PICK received \in BOOLEAN :
         /\ kernel' = Transact(kernel, add_route(kernel.links, p), received).k
         /\ srv' = [srv EXCEPT ![c].done = Append(done,
                        Transact(kernel, add_route(kernel.links, p), received).result)]
  BY <1>3, <1>a, <1>b, <1>c DEF ServerAdd
<1> DEFINE out == Transact(kernel, add_route(kernel.links, p), received).result
           more == Append(done, out)
<1>7. PICK S : done \in Seq(S) /\ out \in S
  <2>1. PICK T : done \in Seq(T)
    BY <1>1 DEF AnsweredInv, IsSequence
  <2> DEFINE S == T \union {out}
  <2>2. done \in Seq(S) /\ out \in S
    BY <2>1, SeqMonotonic
  <2> HIDE DEF S
  <2> QED BY <2>2
<1>8. p \in PassParams /\ n \in Nat
  BY <1>4, <1>5, <1>7, <1>b, <1>c
<1>9. out.ok => Was(p)'
  <2>1. ASSUME out.ok PROVE \E r \in kernel'.fib : RouteFor(r, p)
    BY <2>1, <1>6, <1>8, AddInstalls
  <2> QED BY <2>1 DEF Was, Known, RouteFor
<1> HIDE DEF out
<1>10. /\ Len(more) = n + 1 /\ more[n + 1] = out
       /\ \A j \in 1 .. n : more[j] = done[j]
  BY <1>7, <1>b, AppendProperties
<1>11. srv' = [srv EXCEPT ![c].done = more]
  BY <1>6 DEF out
<1> HIDE DEF more
<1>12. srv'[c].done = more /\ srv'[c].phase = "adding"
  <2>1. srv[c] = [phase |-> "adding", rx |-> srv[c].rx, req |-> srv[c].req, done |-> srv[c].done]
    BY <1>1, <1>2 DEF SrvRecord
  <2>2. srv'[c] = [srv[c] EXCEPT !.done = more]
    BY <1>1, <1>11
  <2> QED BY <2>1, <2>2
<1>13. \A j \in 1 .. n : done[j].ok => Was(pass[j])
  BY <1>2, <1>a, <1>b DEF PassInv, Put
<1>14. \A q : Was(q) => Was(q)'
  BY DEF Was, RouteFor
<1>15. pass = PassOf(reqs'[c])
  BY <1>2, <1>a
<1>16. \A j \in 1 .. n + 1 : more[j].ok => Was(pass[j])'
  <2>1. TAKE j \in 1 .. n + 1
  <2>2. CASE j = n + 1
    <3>1. pass[j] = p /\ more[j] = out
      BY <2>2, <1>10, <1>c
    <3> QED BY <3>1, <1>9 DEF Was, RouteFor
  <2>3. CASE j # n + 1
    <3>1. j \in 1 .. n
      BY <2>3, <1>8
    <3>2. more[j] = done[j]
      BY <3>1, <1>10
    <3> QED BY <3>1, <3>2, <1>13, <1>14
  <2> QED BY <2>2, <2>3
<1>17. n + 1 <= Len(pass)
  <2>1. Len(pass) \in Nat
    BY <1>4
  <2> QED BY <2>1, <1>5, <1>8
<1>18. Put(c)'
  BY <1>10, <1>12, <1>15, <1>16, <1>17 DEF Put
<1> QED BY <1>12, <1>18 DEF PassInv

\* Every step keeps the invariant of the routes of a request.
LEMMA PassStep ==
  ASSUME RequestInv, RequestInv', AnswerInv, KernelInv, PassesInv, [Next]_vars
  PROVE  PassesInv'
<1> SUFFICES ASSUME NEW c \in Ids, PassInv(c) PROVE PassInv(c)'
  BY DEF PassesInv
<1>2. Known \subseteq Known'
  BY KnownGrows
<1>3. /\ SrvRecord(c) /\ srv = [d \in Ids |-> srv[d]] /\ AnsweredInv(c) /\ HandledInv(c)
      /\ HandledInv(c)' /\ c \in Nat /\ reqs \in Seq(Requests)
      /\ (c <= Len(reqs) => reqs[c] \in Seq(VrfRequests))
  BY OneConnection DEF AnswerInv, RequestInv
<1>4. srv[c] = [phase |-> srv[c].phase, rx |-> srv[c].rx, req |-> srv[c].req, done |-> srv[c].done]
  BY <1>3 DEF SrvRecord
<1>5. ASSUME srv' = srv, c <= Len(reqs) => reqs'[c] = reqs[c] PROVE PassInv(c)'
  BY <1>2, <1>5, PassKept
<1>6. CASE \E vrfs \in Requests : processRequest(vrfs)
  <2>1. c <= Len(reqs) => reqs'[c] = reqs[c]
    <3>1. PICK vrfs \in Requests : reqs' = Append(reqs, vrfs)
      BY <1>6 DEF processRequest
    <3>2. c > 0
      BY OneConnection
    <3> QED BY <3>1, <3>2, <1>3
  <2> QED BY <2>1, <1>5, <1>6 DEF processRequest
<1>7. CASE ClientStep
  <2>1. srv' = srv /\ reqs' = reqs
    BY <1>7 DEF ClientStep, nb_connect, ConnectFails, nb_send_all, SendFails, nb_recv_frame,
                RecvFails, EndRequest
  <2> QED BY <2>1, <1>5
<1>8. CASE ServerDies
  <2>1. /\ srv'[c] = srv[c] \/ srv'[c] = [srv[c] EXCEPT !.phase = "lost"]
        /\ reqs' = reqs
    BY <1>8 DEF ServerDies
  <2>2. srv'[c].done = srv[c].done /\ srv'[c].phase \in {srv[c].phase, "lost"}
    <3>1. [srv[c] EXCEPT !.phase = "lost"] = [phase |-> "lost", rx |-> srv[c].rx,
                                              req |-> srv[c].req, done |-> srv[c].done]
      BY <1>4
    <3> QED BY <2>1, <3>1
  <2> QED BY <1>2, <2>1, <2>2, PassKept
<1>9. CASE ToolStep \/ StrayBytes \/ UNCHANGED vars
  BY <1>5, <1>9, ToolsStayOut DEF StrayBytes, vars
<1>10. CASE ServerStep
  <2>1. PICK d \in Ids : ServerRead(d) \/ ServerDecode(d) \/ ServerAdd(d) \/ ServerReply(d)
    BY <1>10 DEF ServerStep
  <2>2. reqs' = reqs
    BY <2>1 DEF ServerRead, ServerDecode, ServerAdd, ServerReply
  <2>3. CASE d # c
    <3>1. srv'[c] = srv[c]
      BY <2>1, <2>3, <1>3 DEF ServerRead, ServerDecode, ServerAdd, ServerReply
    <3> QED BY <3>1, <2>2, <1>2, PassKept
  <2>4. CASE d = c /\ ServerRead(c)
    <3>1. srv' = [srv EXCEPT ![c].rx = srv[c].rx \o conn[c].up]
      BY <2>4 DEF ServerRead
    <3>2. srv'[c] = [srv[c] EXCEPT !.rx = srv[c].rx \o conn[c].up]
      BY <3>1, <1>3
    <3>3. srv'[c].done = srv[c].done /\ srv'[c].phase = srv[c].phase
      BY <3>2, <1>4
    <3> QED BY <3>3, <2>2, <1>2, PassKept
  <2>5. CASE d = c /\ ServerDecode(c)
    <3> DEFINE r == DecodedRequest(find_frame(srv[c].rx).val)
    <3>1. /\ srv[c].phase = "waiting"
          /\ \/ srv' = [srv EXCEPT ![c].phase = "adding", ![c].req = r.val, ![c].rx = <<>>]
             \/ srv' = [srv EXCEPT ![c].phase = "refused", ![c].rx = <<>>]
      BY <2>5 DEF ServerDecode
    <3> HIDE DEF r
    <3>2. srv[c].done = <<>>
      BY <3>1, <1>3 DEF AnsweredInv
    <3>3. CASE srv' = [srv EXCEPT ![c].phase = "adding", ![c].req = r.val, ![c].rx = <<>>]
      <4>1. srv'[c] = [phase |-> "adding", rx |-> <<>>, req |-> r.val, done |-> <<>>]
        BY <3>2, <3>3, <1>3, <1>4
      <4>2. c <= Len(reqs)
        BY <4>1, <1>3, <2>2 DEF HandledInv
      <4>3. Len(PassOf(reqs[c])) \in Nat
        <5>1. PassOf(reqs[c]) \in Seq(PassParams)
          BY <4>2, <1>3, PassShape
        <5> QED BY <5>1
      <4>4. srv'[c].done = <<>> /\ Len(<<>>) = 0 /\ srv'[c].phase = "adding"
        BY <4>1
      <4>5. Put(c)'
        BY <4>3, <4>4, <2>2 DEF Put
      <4> QED BY <4>4, <4>5 DEF PassInv
    <3>4. CASE srv' = [srv EXCEPT ![c].phase = "refused", ![c].rx = <<>>]
      <4>1. srv'[c] = [phase |-> "refused", rx |-> <<>>, req |-> srv[c].req, done |-> srv[c].done]
        BY <3>4, <1>3, <1>4
      <4> QED BY <4>1, <2>2, <1>2, PassKept
    <3> QED BY <3>1, <3>3, <3>4
  <2>6. CASE d = c /\ ServerAdd(c)
    BY <2>6, <1>2, PassAdded
  <2>7. CASE d = c /\ ServerReply(c)
    <3>1. /\ srv[c].phase = "adding" /\ Len(srv[c].done) = Len(PassOf(srv[c].req))
          /\ srv' = [srv EXCEPT ![c].phase = "answered"]
      BY <2>7 DEF ServerReply
    <3>2. srv[c].req = reqs[c]
      BY <3>1, <1>3 DEF HandledInv
    <3>3. srv'[c] = [phase |-> "answered", rx |-> srv[c].rx, req |-> srv[c].req,
                     done |-> srv[c].done]
      <4>1. srv'[c] = [srv[c] EXCEPT !.phase = "answered"]
        BY <3>1, <1>3
      <4> QED BY <4>1, <1>4
    <3>4. Put(c)'
      <4>1. Put(c) /\ \A p : Was(p) => Was(p)'
        BY <3>1, <1>2 DEF PassInv, Was, RouteFor
      <4>2. srv'[c].done = srv[c].done
        BY <3>3
      <4> QED BY <4>1, <4>2, <2>2 DEF Put
    <3>5. Len(srv'[c].done) = Len(PassOf(reqs'[c]))
      BY <3>1, <3>2, <3>3, <2>2
    <3> QED BY <3>4, <3>5 DEF PassInv
  <2> QED BY <2>1, <2>3, <2>4, <2>5, <2>6, <2>7
<1> QED BY <1>6, <1>7, <1>8, <1>9, <1>10 DEF Next

\* In every behaviour an add that the server saw succeed left its route
\* (add_route and nl_transact of netlink.cpp).
THEOREM PassesKept == Spec => []PassesInv
BY InitPass, PassStep, RequestsKept, AnswersKept, InitKernel, KernelStep, PTL DEF Spec

\* PASS means that every prefix of the request is in the kernel, with its
\* nexthop and by its interface, or was and another process took it away
\* (handle_vrfs_route_request, add_route and nl_transact of netlink.cpp, the
\* reply's way back to processRequest).
THEOREM PassIsInstalled == Spec => []PassMeansInstalled
<1>1. RequestInv /\ AnswerInv /\ PassesInv => PassMeansInstalled
  <2> SUFFICES ASSUME RequestInv, AnswerInv, PassesInv,
                      NEW c \in Ids, result[c].verdict = "PASS",
                      NEW i \in DOMAIN reqs[c], NEW j \in DOMAIN reqs[c][i].prefixes
               PROVE  Installed(reqs[c][i], reqs[c][i].prefixes[j], kernel.fib \union removed)
    BY DEF PassMeansInstalled
  <2> DEFINE done == srv[c].done
             pass == PassOf(reqs[c])
             v == reqs[c][i]
             p == v.prefixes[j]
  <2>1. Truth(c, result[c]) /\ IsSequence(done)
    BY DEF AnswerInv, AnsweredInv
  <2>2. srv[c].phase = "answered" /\ \A h \in DOMAIN done : done[h].ok
    BY <2>1 DEF Truth
  <2>3. reqs[c] \in Seq(VrfRequests)
    BY <2>2, OneConnection DEF HandledInv
  <2>4. PICK h \in 1 .. Len(pass) : pass[h] = PrefixParams(v, p)
    BY <2>3, PassShape
  <2>5. /\ Len(done) = Len(pass)
        /\ \A k \in 1 .. Len(done) : done[k].ok => Was(pass[k])
    BY <2>2 DEF PassesInv, PassInv, Put
  <2>6. h \in DOMAIN done /\ h \in 1 .. Len(done)
    BY <2>1, <2>4, <2>5 DEF IsSequence
  <2>7. Was(PrefixParams(v, p))
    BY <2>2, <2>4, <2>5, <2>6
  <2> QED BY <2>7 DEF Was, Known, RouteFor, Installed, PrefixParams, RouteAddParams
<1> QED BY <1>1, RequestsKept, AnswersKept, PassesKept, PTL

-----------------------------------------------------------------------------
(* Commands that arrive alone.                                              *)

\* A command that was received alone has the part of the body that its
\* 16-bit length counts.
LEMMA CommandCut ==
  ASSUME NEW id \in CmdIds, NEW body \in Seq(Byte)
  PROVE  LET cut == SubSeq(body, 1, Len(body) % Word)
         IN  decode_command(Bytes(id, body)) =
               Ok([cmd_id |-> id, fields |-> DecodeFields(cut), raw_payload |-> cut])
<1> DEFINE raw == Bytes(id, body)
           w == write_be16(Len(body))
           n == Len(body) % Word
           cut == SubSeq(body, 1, n)
<1>1. id \in Byte
  BY WordFacts, MessageAssumption DEF CmdIds, ROUTE_ADD, ROUTE_DEL, ROUTE_LIST, MsgTypes, PONG, DATA
<1>2. /\ raw \in Seq(Byte) /\ Len(raw) = 3 + Len(body) /\ raw[1] = id
      /\ At(raw, 1, w) /\ At(raw, 3, body)
  BY <1>1, BytesShape DEF CMD_HEADER_SIZE
<1>3. Len(body) \in Nat /\ n \in Nat /\ n <= Len(body)
  <2>1. Len(body) \in Nat /\ Word \in Nat /\ Word > 0
    BY WordFacts
  <2>2. Len(body) \div Word \in Nat /\ n \in Nat /\ Len(body) = Word * (Len(body) \div Word) + n
    BY <2>1, Division
  <2>3. Word * (Len(body) \div Word) \in Nat
    <3>1. \A a, b \in Nat : a * b \in Nat
      BY SMTT(30)
    <3> QED BY <3>1, <2>1, <2>2
  <2> QED BY <2>1, <2>2, <2>3
<1>4. read_be16(raw, 1) = n
  <2>1. w \in Seq(Byte) /\ Len(w) = 2 /\ w[1] * Base + w[2] = n
    BY <1>3, WriteBe16, LowWord
  <2> HIDE DEF w, raw, n
  <2>2. 1 \in 1 .. Len(w) /\ 2 \in 1 .. Len(w)
    BY <2>1
  <2>3. raw[1 + 1] = w[1] /\ raw[1 + 2] = w[2]
    BY <2>2, <1>2 DEF At
  <2> QED BY <2>1, <2>3, Zenon DEF read_be16
<1> HIDE DEF raw, w, n
<1>5. Slice(raw, 3, 3 + n) = cut
  <2>1. cut \in Seq(Byte) /\ Len(cut) = n /\ \A i \in 1 .. n : cut[i] = body[i]
    BY <1>3
  <2> HIDE DEF cut
  <2>2. At(raw, 3, cut)
    <3>1. ASSUME NEW i \in 1 .. n PROVE raw[3 + i] = cut[i]
      <4>1. i \in 1 .. Len(body)
        BY <1>3
      <4>2. raw[3 + i] = body[i]
        BY <4>1, <1>2 DEF At
      <4> QED BY <4>2, <2>1
    <3>2. 3 + n <= Len(raw)
      BY <1>2, <1>3
    <3> QED BY <2>1, <3>1, <3>2 DEF At
  <2> QED BY <2>1, <2>2, <1>2, AtSlice
<1>6. ~(Len(raw) < 3) /\ raw[1] \in CmdIds /\ ~(Len(raw) < 3 + n)
  BY <1>2, <1>3
<1>7. decode_command(raw) = Ok([cmd_id |-> id, fields |-> DecodeFields(cut), raw_payload |-> cut])
  <2> HIDE DEF cut
  <2> QED BY <1>2, <1>4, <1>5, <1>6 DEF decode_command, CMD_HEADER_SIZE
<1> QED BY <1>7 DEF raw, n

\* A number below the divisor is its own remainder.
LEMMA SmallRemainder ==
  ASSUME NEW v \in Nat, NEW b \in Nat, v < b
  PROVE  v % b = v
<1>1. v \div b \in Nat /\ v % b \in 0 .. b - 1 /\ v = b * (v \div b) + (v % b)
  BY Division
<1>2. v \in 0 .. b - 1 /\ v = b * 0 + v
  OBVIOUS
<1>3. b * (v \div b) + (v % b) = b * 0 + v
  BY <1>1, <1>2
<1> QED BY <1>1, <1>2, <1>3, DivisionIsUnique

\* A length below 16 bits cuts nothing.
LEMMA NothingCut ==
  ASSUME NEW body \in Seq(Byte), Len(body) < Word
  PROVE  SubSeq(body, 1, Len(body) % Word) = body
<1>1. Len(body) % Word = Len(body)
  BY SmallRemainder, WordFacts
<1> QED BY <1>1

\* The bare response that comes back carries the outcome.
LEMMA StatusArrives ==
  ASSUME NEW ok
  PROVE  (StatusSeen(ok) = 0) <=> ok
<1> DEFINE s == IF ok THEN 0 ELSE 1
           data == <<s>>
           frm == encode_response([length |-> 0, pkt_num |-> 1, total_pkts |-> 1, ctrl |-> 0,
                                   status |-> s])
<1>1. s \in Byte /\ ((s = 0) <=> ok)
  BY WordFacts
<1> HIDE DEF s
<1>2. data \in Seq(Byte) /\ Len(data) = 1 /\ data[1] = s
  BY <1>1
<1>3. frm = encode_packet(Packet(1, data))
  BY DEF encode_response, Packet
<1>4. MIN_PAYLOAD + Len(data) < Word * Word
  BY <1>2, WordIsBig, WordFacts DEF MIN_PAYLOAD, HEADER_SIZE, CRC_SIZE
<1> HIDE DEF data
<1>5. decode_response(encode_packet(Packet(1, data))).val.status = s
  BY <1>2, <1>4, PacketDecoded
<1>6. StatusSeen(ok) = decode_response(frm).val.status
  BY DEF StatusSeen, s
<1> HIDE DEF frm
<1> QED BY <1>1, <1>3, <1>5, <1>6

\* A loop that finds an item wherever a part may begin reads them all.
LEMMA ListRead ==
  ASSUME NEW I, NEW items \in Seq(I), NEW ss \in Seq(Seq(Byte)), Len(items) = Len(ss),
         NEW read,
         \A k \in 1 .. Len(ss) : Len(ss[k]) > 0,
         \A k \in 1 .. Len(ss) : \A o \in 0 .. Len(FlattenSeq(ss)) - 1 :
             At(FlattenSeq(ss), o, ss[k]) => read[o] = Item(items[k], Len(ss[k]))
  PROVE  ReadBack(ss, items, read)
<1> DEFINE c == FlattenSeq(ss)
           n == Len(ss)
<1>1. n \in Nat /\ \A k \in 1 .. n : Len(ss[k]) \in Nat /\ Len(ss[k]) > 0
  OBVIOUS
<1>2. c \in Seq(Byte) /\ Len(c) \in Nat
  BY Flattened
<1>3. PICK off : Laid(ss, off)
  BY Flattened
<1>4. /\ off \in [0 .. n -> Nat]
      /\ \A k \in 1 .. n :
           /\ off[k] = off[k - 1] + Len(ss[k]) /\ off[k] <= Len(c)
           /\ \A i \in 1 .. Len(ss[k]) : c[off[k - 1] + i] = ss[k][i]
  BY <1>3 DEF Laid
<1> HIDE DEF c, n
<1>5. ASSUME NEW k \in 1 .. n PROVE read[off[k - 1]] = Item(items[k], Len(ss[k]))
  <2> DEFINE o == off[k - 1]
  <2>1. o \in Nat
    <3>1. k - 1 \in 0 .. n
      BY <1>1
    <3> QED BY <3>1, <1>4
  <2>2. o + Len(ss[k]) <= Len(c) /\ \A i \in 1 .. Len(ss[k]) : c[o + i] = ss[k][i]
    <3>1. off[k] = o + Len(ss[k]) /\ off[k] <= Len(c)
      BY <1>4
    <3> QED BY <3>1, <1>4
  <2> HIDE DEF o
  <2>3. At(c, o, ss[k])
    BY <2>1, <2>2 DEF At
  <2>4. o \in 0 .. Len(c) - 1
    BY <2>1, <2>2, <1>1, <1>2
  <2> QED BY <2>3, <2>4 DEF o, c, n
<1>6. Finds(Byte, ss, off, I, items, read)
  BY <1>3, <1>5 DEF Finds, n
<1> QED BY <1>6, AllRead

-----------------------------------------------------------------------------
(* Fields.                                                                  *)

\* The fields whose length a byte can count.
Fields == {f \in [field_id : Byte, data : Seq(Byte)] : Len(f.data) < Base}

\* A field is its id, its length and its data.
LEMMA FieldShape ==
  ASSUME NEW f \in Fields
  PROVE  LET e == EncodeField(f)
         IN  /\ e \in Seq(Byte) /\ Len(e) = 2 + Len(f.data)
             /\ e[1] = f.field_id /\ e[2] = Len(f.data)
             /\ f.data \in Seq(Byte) /\ Len(f.data) \in Nat /\ Len(f.data) < Base
             /\ At(e, 2, f.data)
<1> DEFINE h == <<f.field_id, Len(f.data) % Base>>
           d == f.data
           e == EncodeField(f)
<1>1. d \in Seq(Byte) /\ Len(d) \in Nat /\ Len(d) < Base /\ f.field_id \in Byte
  BY DEF Fields
<1>2. Len(d) % Base = Len(d) /\ Len(d) \in Byte
  <2> HIDE DEF d
  <2>1. Base \in Nat /\ Byte = 0 .. Base - 1
    BY WordFacts
  <2>2. Len(d) % Base = Len(d)
    BY <1>1, <2>1, SmallRemainder
  <2> QED BY <2>1, <2>2, <1>1
<1>3. h \in Seq(Byte) /\ Len(h) = 2 /\ h[1] = f.field_id /\ h[2] = Len(d)
  BY <1>1, <1>2
<1>4. e = h \o d
  BY DEF EncodeField
<1> HIDE DEF h, d, e
<1>5. h \o d \in Seq(Byte) /\ Len(h \o d) = Len(h) + Len(d)
  BY <1>1, <1>3, JoinedLen, Zenon
<1>6. At(h \o d, 0, h) /\ At(h \o d, Len(h), d)
  BY <1>1, <1>3, AtStart, AtEnd
<1>7. e[1] = h[1] /\ e[2] = h[2]
  <2>1. e[0 + 1] = h[1] /\ e[0 + 2] = h[2]
    BY <1>3, <1>4, <1>6 DEF At
  <2> QED BY <2>1
<1>8. e \in Seq(Byte) /\ Len(e) = 2 + Len(d) /\ At(e, 2, d)
  BY <1>3, <1>4, <1>5, <1>6
<1> QED BY <1>1, <1>3, <1>7, <1>8 DEF d, e

\* A field at the beginning of a buffer is read as it was written.
LEMMA FieldDecoded ==
  ASSUME NEW f \in Fields, NEW raw \in Seq(Byte), At(raw, 0, EncodeField(f))
  PROVE  FieldAt(raw) = Item(f, Len(EncodeField(f)))
<1> DEFINE e == EncodeField(f)
           d == f.data
<1>1. /\ e \in Seq(Byte) /\ Len(e) = 2 + Len(d) /\ e[1] = f.field_id /\ e[2] = Len(d)
      /\ d \in Seq(Byte) /\ Len(d) \in Nat /\ At(e, 2, d)
  BY FieldShape
<1>2. f = [field_id |-> f.field_id, data |-> d]
  BY DEF Fields
<1>3. At(raw, 0, e)
  OBVIOUS
<1> HIDE DEF e, d
<1>4. raw[1] = f.field_id /\ raw[2] = Len(d) /\ 2 + Len(d) <= Len(raw)
  <2>1. raw[0 + 1] = e[1] /\ raw[0 + 2] = e[2] /\ 0 + Len(e) <= Len(raw)
    BY <1>1, <1>3 DEF At
  <2> QED BY <2>1, <1>1
<1>5. Slice(raw, 2, 2 + Len(d)) = d
  <2>1. At(raw, 0 + 2, d)
    BY <1>1, <1>3, AtInside
  <2>2. At(raw, 2, d)
    BY <2>1
  <2> QED BY <2>2, <1>1, AtSlice
<1>6. ~(Len(raw) < 2 \/ Len(raw) - 2 < Len(d))
  <2>1. Len(raw) \in Nat
    OBVIOUS
  <2> QED BY <2>1, <1>1, <1>4
<1>7. FieldAt(raw) = Item([field_id |-> f.field_id, data |-> d], 2 + Len(d))
  BY <1>4, <1>5, <1>6 DEF FieldAt, FIELD_HEADER_SIZE, field
<1> QED BY <1>1, <1>2, <1>7 DEF e

\* The fields of a command are read as they were written, and their bytes
\* are few.
LEMMA FieldsDecoded ==
  ASSUME NEW fs \in Seq(Fields)
  PROVE  LET body == ConcatMap(EncodeField, fs)
         IN  /\ body \in Seq(Byte) /\ Len(body) <= Len(fs) * (Base + 1)
             /\ DecodeFields(body) = fs
<1> DEFINE ss == [i \in DOMAIN fs |-> EncodeField(fs[i])]
           body == ConcatMap(EncodeField, fs)
           n == Len(fs)
           W == Base + 1
           read == [pos \in 0 .. Len(body) - 1 |-> FieldAt(Rest(body, pos))]
<1>1. body = FlattenSeq(ss)
  BY DEF ConcatMap
<1>2. n \in Nat /\ DOMAIN fs = 1 .. n /\ \A i \in 1 .. n : fs[i] \in Fields
  OBVIOUS
<1>3. ASSUME NEW i \in 1 .. n
      PROVE  /\ ss[i] = EncodeField(fs[i]) /\ ss[i] \in Seq(Byte)
             /\ Len(ss[i]) > 0 /\ Len(ss[i]) <= W
  <2> DEFINE f == fs[i]
  <2>1. f \in Fields /\ ss[i] = EncodeField(f)
    BY <1>2
  <2> HIDE DEF f, ss
  <2>2. /\ EncodeField(f) \in Seq(Byte) /\ Len(EncodeField(f)) = 2 + Len(f.data)
        /\ Len(f.data) \in Nat /\ Len(f.data) < Base
    BY <2>1, FieldShape
  <2>3. Base \in Nat
    BY WordFacts
  <2> QED BY <2>1, <2>2, <2>3 DEF f
<1>4. ss \in Seq(Seq(Byte)) /\ Len(ss) = n
  <2>1. ss \in [1 .. n -> Seq(Byte)]
    BY <1>2, <1>3
  <2> HIDE DEF ss
  <2> QED BY <2>1, <1>2
<1> HIDE DEF ss, body, n, W
<1>5. body \in Seq(Byte)
  BY <1>1, <1>4, Flattened
<1>6. Len(body) <= n * W
  <2>1. PICK off : Laid(ss, off)
    BY <1>4, Flattened
  <2>2. /\ off \in [0 .. n -> Nat] /\ off[0] = 0 /\ off[n] = Len(body)
        /\ \A k \in 1 .. n : off[k] = off[k - 1] + Len(ss[k])
    BY <2>1, <1>1, <1>4 DEF Laid
  <2>3. W \in Nat
    BY WordFacts DEF W
  <2> DEFINE P == {k \in 0 .. n : off[k] <= k * W}
  <2>4. 0 \in P
    BY <2>2, <2>3, <1>2
  <2>5. ASSUME NEW k \in 0 .. n - 1, k \in P PROVE k + 1 \in P
    <3>1. k + 1 \in 1 .. n /\ (k + 1) - 1 = k /\ k \in Nat /\ k + 1 \in 0 .. n /\ k \in 0 .. n
      BY <1>2
    <3>2. off[k + 1] = off[k] + Len(ss[k + 1]) /\ Len(ss[k + 1]) <= W /\ Len(ss[k + 1]) \in Nat
      BY <3>1, <2>2, <1>3
    <3>3. (k + 1) * W = k * W + W /\ k * W \in Nat
      <4>1. \A a, b \in Nat : (a + 1) * b = a * b + b /\ a * b \in Nat
        BY SMTT(30)
      <4> QED BY <4>1, <3>1, <2>3
    <3>4. off[k] \in Nat /\ off[k] <= k * W
      BY <2>2, <2>5, <3>1
    <3>5. off[k + 1] <= (k + 1) * W
      BY <3>2, <3>3, <3>4, <2>3
    <3> QED BY <3>1, <3>5
  <2> HIDE DEF P
  <2>6. \A k \in 0 .. n : k \in P
    BY <1>2, <2>4, <2>5, UpTo
  <2>7. n \in P
    BY <2>6, <1>2
  <2> QED BY <2>7, <2>2 DEF P
<1>7. ASSUME NEW k \in 1 .. n, NEW o \in 0 .. Len(body) - 1, At(body, o, ss[k])
      PROVE  read[o] = Item(fs[k], Len(ss[k]))
  <2>1. Rest(body, o) \in Seq(Byte) /\ At(Rest(body, o), 0, ss[k])
    BY <1>3, <1>5, <1>7, AtRest
  <2>2. FieldAt(Rest(body, o)) = Item(fs[k], Len(ss[k]))
    BY <2>1, <1>2, <1>3, FieldDecoded
  <2> QED BY <2>2
<1> HIDE DEF read
<1>8. ReadBack(ss, fs, read)
  <2>1. \A k \in 1 .. Len(ss) : Len(ss[k]) > 0
    BY <1>3, <1>4
  <2>2. Len(fs) = Len(ss)
    BY <1>4 DEF n
  <2>3. \A k \in 1 .. Len(ss) : \A o \in 0 .. Len(FlattenSeq(ss)) - 1 :
             At(FlattenSeq(ss), o, ss[k]) => read[o] = Item(fs[k], Len(ss[k]))
    BY <1>1, <1>4, <1>7
  <2> QED BY <2>1, <2>2, <2>3, <1>4, ListRead
<1>9. DecodeFields(body) = fs
  BY <1>1, <1>8 DEF DecodeFields, read, ReadBack
<1> QED BY <1>5, <1>6, <1>9 DEF body, n, W

-----------------------------------------------------------------------------
(* ROUTE_ADD and ROUTE_DEL.                                                 *)

\* Five fields stay far below a 16-bit length, and arrive.
LEMMA FieldsArrive ==
  ASSUME NEW id \in CmdIds, NEW fs \in Seq(Fields), Len(fs) <= 5
  PROVE  LET r == Received(make_command(id, fs, <<>>)) IN r.ok /\ r.val.fields = fs
<1> DEFINE body == ConcatMap(EncodeField, fs)
           r == Received(make_command(id, fs, <<>>))
<1>1. body \in Seq(Byte) /\ Len(body) <= Len(fs) * (Base + 1) /\ DecodeFields(body) = fs
  BY FieldsDecoded
<1>2. encode_command(make_command(id, fs, <<>>)) = Bytes(id, body)
  BY DEF encode_command, make_command, Bytes
<1> HIDE DEF body
<1>3. Len(body) < Word
  <2>1. Base \in Nat /\ Base > 5
    BY MessageAssumption, WordFacts DEF MsgTypes, ERROR
  <2>2. Len(fs) * (Base + 1) <= 5 * (Base + 1)
    <3>1. \A k, b \in Nat : k <= 5 => k * b <= 5 * b
      <4>1. TAKE k, b \in Nat
      <4>2. k \in {0, 1, 2, 3, 4, 5} \/ k > 5
        OBVIOUS
      <4> QED BY <4>2
    <3>2. Len(fs) \in Nat /\ Base + 1 \in Nat
      BY <2>1
    <3> QED BY <3>1, <3>2
  <2>3. 5 * (Base + 1) < Base * Base
    <3>1. PICK d \in Nat : Base = 6 + d
      <4>1. Base - 6 \in Nat /\ Base = 6 + (Base - 6)
        BY <2>1
      <4> QED BY <4>1
    <3>2. (6 + d) * (6 + d) = 36 + 12 * d + d * d /\ d * d \in Nat
      BY SMTT(30)
    <3> QED BY <3>1, <3>2
  <2>4. Len(body) \in Nat /\ Len(fs) * (Base + 1) \in Nat /\ Base * Base = Word /\ Word \in Nat
    <3>1. \A a, b \in Nat : a * b \in Nat
      BY SMTT(30)
    <3> QED BY <3>1, <1>1, <2>1, WordFacts
  <2> QED BY <1>1, <2>1, <2>2, <2>3, <2>4
<1> DEFINE cmd == [cmd_id |-> id, fields |-> DecodeFields(body), raw_payload |-> body]
<1>4. r = Ok(cmd)
  <2>1. SubSeq(body, 1, Len(body) % Word) = body
    BY <1>1, <1>3, NothingCut
  <2>2. decode_command(Bytes(id, body)) = Ok(cmd)
    BY <2>1, <1>1, CommandCut
  <2> QED BY <2>2, <1>2 DEF Received
<1>5. cmd.fields = fs
  BY <1>1
<1> HIDE DEF cmd, r
<1>6. r.ok /\ r.val = cmd
  BY <1>4 DEF Ok
<1> QED BY <1>5, <1>6 DEF r

\* Fields whose ids are their positions
Numbered(fs) == \A i \in 1 .. Len(fs) : fs[i].field_id = i

\* There is one field of an id, and it is the one that is found.
LEMMA FieldFound ==
  ASSUME NEW cmd, cmd.fields \in Seq(Fields), Numbered(cmd.fields), NEW id \in Nat, id > 0
  PROVE  /\ HasField(cmd, id) <=> id <= Len(cmd.fields)
         /\ HasField(cmd, id) => find_field(cmd, id) = cmd.fields[id].data
<1> DEFINE fs == cmd.fields
           First(i) == fs[i].field_id = id /\ \A j \in 1 .. i - 1 : fs[j].field_id # id
<1>1. DOMAIN fs = 1 .. Len(fs) /\ Len(fs) \in Nat
  OBVIOUS
<1>2. \A i \in 1 .. Len(fs) : fs[i].field_id = i
  BY DEF Numbered
<1>3. HasField(cmd, id) <=> id \in 1 .. Len(fs)
  BY <1>1, <1>2 DEF HasField
<1>4. ASSUME id \in 1 .. Len(fs) PROVE find_field(cmd, id) = fs[id].data
  <2>1. First(id)
    BY <1>2, <1>4, <1>1
  <2>2. \A i \in DOMAIN fs : First(i) => i = id
    BY <1>1, <1>2
  <2>3. id \in DOMAIN fs
    BY <1>1, <1>4
  <2> HIDE DEF First
  <2>4. (CHOOSE i \in DOMAIN fs : First(i)) = id
    BY <2>1, <2>2, <2>3
  <2> QED BY <2>4 DEF find_field, First
<1> QED BY <1>1, <1>3, <1>4

\* Parsing succeeds where nothing is wrong.
LEMMA NothingWrong ==
  ASSUME NEW checks, NEW params
  PROVE  LET r == Parsed(checks, params)
         IN  /\ r.ok <=> \A i \in DOMAIN checks : checks[i] = ""
             /\ r.ok => r.val = params
BY DEF Parsed, Ok, Err

\* The parts of a ROUTE_ADD or ROUTE_DEL: addresses, a mask, a name.
LEMMA AddressIsData ==
  ASSUME NEW a \in Addresses
  PROVE  a \in Seq(Byte) /\ Len(a) = ADDR_SIZE
<1>1. a \in [1 .. ADDR_SIZE -> Byte]
  BY DEF Addresses
<1> QED BY <1>1, SizeFacts, ArrayIsSequence

\* A field of data that a byte can count.
LEMMA FieldType ==
  ASSUME NEW id \in Byte, NEW data \in Seq(Byte), Len(data) < Base
  PROVE  field(id, data) \in Fields /\ field(id, data).field_id = id /\ field(id, data).data = data
BY DEF field, Fields

\* A ROUTE_ADD arrives as it was given; it is refused when its mask is too
\* long or its interface has no name.
LEMMA RouteAddArrives ==
  ASSUME NEW p \in RouteAdds, Len(p.if_name) < Base, ADDR_SIZE < Base
  PROVE  LET r == AndThen(Received(make_route_add(p)), parse_route_add)
         IN  /\ r.ok => r.val = p
             /\ ~r.ok => p.prefix_len > MAX_MASK \/ p.if_name = <<>>
<1> DEFINE m == write_be16(p.metric)
           f1 == field(DST_ADDR, p.dst_addr)
           f2 == field(PREFIX_LEN, <<p.prefix_len>>)
           f3 == field(GATEWAY, p.gateway)
           f4 == field(IF_NAME, p.if_name)
           f5 == field(METRIC, m)
           fs == << f1, f2, f3, f4 >> \o FieldIf(p.metric # 0, f5)
           R == Received(make_command(ROUTE_ADD, fs, <<>>))
           cmd == R.val
           r == AndThen(Received(make_route_add(p)), parse_route_add)
<1>1. /\ p.dst_addr \in Addresses /\ p.gateway \in Addresses /\ p.prefix_len \in Byte
      /\ p.if_name \in Seq(Byte) /\ p.metric \in 0 .. Word - 1
      /\ p = [dst_addr |-> p.dst_addr, prefix_len |-> p.prefix_len, gateway |-> p.gateway,
              if_name |-> p.if_name, metric |-> p.metric]
  BY DEF RouteAdds
<1>2. /\ p.dst_addr \in Seq(Byte) /\ Len(p.dst_addr) = ADDR_SIZE
      /\ p.gateway \in Seq(Byte) /\ Len(p.gateway) = ADDR_SIZE
  BY <1>1, AddressIsData
<1>3. m \in Seq(Byte) /\ Len(m) = 2 /\ read_be16(m, 0) = p.metric
  <2>1. p.metric \in Nat /\ p.metric < Word
    BY <1>1, WordFacts
  <2>2. m \in Seq(Byte) /\ Len(m) = 2 /\ m[1] * Base + m[2] = p.metric
    BY <2>1, WriteBe16
  <2> HIDE DEF m
  <2> QED BY <2>2 DEF read_be16
<1>4. Base \in Nat /\ Base > 5 /\ Byte = 0 .. Base - 1
  BY MessageAssumption, WordFacts DEF MsgTypes, ERROR
<1> HIDE DEF m
<1>5. /\ f1 \in Fields /\ f1.field_id = 1 /\ f1.data = p.dst_addr
      /\ f3 \in Fields /\ f3.field_id = 3 /\ f3.data = p.gateway
      /\ f4 \in Fields /\ f4.field_id = 4 /\ f4.data = p.if_name
      /\ f5 \in Fields /\ f5.field_id = 5 /\ f5.data = m
  <2>1. 1 \in Byte /\ 3 \in Byte /\ 4 \in Byte /\ 5 \in Byte /\ Len(m) < Base
    BY <1>3, <1>4
  <2>2. f1 \in Fields /\ f1.field_id = 1 /\ f1.data = p.dst_addr
    BY <2>1, <1>2, FieldType DEF DST_ADDR
  <2>3. f3 \in Fields /\ f3.field_id = 3 /\ f3.data = p.gateway
    BY <2>1, <1>2, FieldType DEF GATEWAY
  <2>4. f4 \in Fields /\ f4.field_id = 4 /\ f4.data = p.if_name
    BY <2>1, <1>1, FieldType DEF IF_NAME
  <2>5. f5 \in Fields /\ f5.field_id = 5 /\ f5.data = m
    <3>1. m \in Seq(Byte)
      BY <1>3
    <3> QED BY <2>1, <3>1, FieldType DEF METRIC
  <2> QED BY <2>2, <2>3, <2>4, <2>5
<1>6. f2 \in Fields /\ f2.field_id = 2 /\ f2.data = <<p.prefix_len>>
  <2> DEFINE d == <<p.prefix_len>>
  <2>1. d \in Seq(Byte) /\ Len(d) < Base /\ 2 \in Byte
    BY <1>1, <1>4
  <2> HIDE DEF d
  <2>2. field(2, d) \in Fields /\ field(2, d).field_id = 2 /\ field(2, d).data = d
    BY <2>1, FieldType
  <2> QED BY <2>2 DEF PREFIX_LEN, d
<1> HIDE DEF f1, f2, f3, f4, f5
<1>7. /\ fs \in Seq(Fields) /\ Len(fs) = IF p.metric # 0 THEN 5 ELSE 4
      /\ fs[1] = f1 /\ fs[2] = f2 /\ fs[3] = f3 /\ fs[4] = f4
      /\ p.metric # 0 => fs[5] = f5
  <2> DEFINE a == << f1, f2, f3, f4 >>
             b == << f5 >>
             none == << >>
  <2>1. a \in Seq(Fields) /\ Len(a) = 4 /\ a[1] = f1 /\ a[2] = f2 /\ a[3] = f3 /\ a[4] = f4
    BY <1>5, <1>6
  <2>2. b \in Seq(Fields) /\ Len(b) = 1 /\ b[1] = f5
    BY <1>5
  <2>3. fs = a \o (IF p.metric # 0 THEN b ELSE none)
    BY DEF FieldIf
  <2>4. a \o none = a
    BY <2>1
  <2> HIDE DEF a, b, none, fs
  <2>5. /\ a \o b \in Seq(Fields) /\ Len(a \o b) = Len(a) + Len(b)
        /\ \A i \in 1 .. Len(a) : (a \o b)[i] = a[i]
        /\ \A i \in 1 .. Len(b) : (a \o b)[Len(a) + i] = b[i]
    <3>1. a \in Seq(Fields) /\ b \in Seq(Fields)
      BY <2>1, <2>2
    <3> QED BY <3>1, Joined
  <2>6. \A i \in 1 .. 4 : i \in 1 .. Len(a) /\ 1 \in 1 .. Len(b) /\ Len(a) + 1 = 5
    BY <2>1, <2>2
  <2>7. (\A i \in 1 .. 4 : (a \o b)[i] = a[i]) /\ (a \o b)[5] = b[1]
    <3>1. 1 \in 1 .. 4
      OBVIOUS
    <3> QED BY <3>1, <2>5, <2>6, Zenon
  <2>8. Len(a \o b) = 5
    BY <2>1, <2>2, <2>5
  <2>9. CASE p.metric # 0
    BY <2>1, <2>2, <2>3, <2>5, <2>7, <2>8, <2>9
  <2>10. CASE p.metric = 0
    BY <2>1, <2>3, <2>4, <2>10
  <2> QED BY <2>9, <2>10
<1> HIDE DEF fs
<1>8. Numbered(fs)
  <2> SUFFICES ASSUME NEW i \in 1 .. Len(fs) PROVE fs[i].field_id = i
    BY DEF Numbered
  <2>1. i \in {1, 2, 3, 4} \/ (i = 5 /\ p.metric # 0)
    BY <1>7
  <2> QED BY <2>1, <1>5, <1>6, <1>7
<1>9. R.ok /\ cmd.fields = fs
  <2>1. ROUTE_ADD \in CmdIds /\ Len(fs) <= 5
    BY <1>7 DEF CmdIds
  <2> QED BY <2>1, <1>7, FieldsArrive
<1>10. r = parse_route_add(cmd)
  BY <1>9 DEF AndThen, make_route_add, fs, f1, f2, f3, f4, f5, m
<1> HIDE DEF R
<1>11. /\ HasField(cmd, 1) /\ find_field(cmd, 1) = p.dst_addr
       /\ HasField(cmd, 2) /\ find_field(cmd, 2) = <<p.prefix_len>>
       /\ HasField(cmd, 3) /\ find_field(cmd, 3) = p.gateway
       /\ HasField(cmd, 4) /\ find_field(cmd, 4) = p.if_name
       /\ HasField(cmd, 5) <=> p.metric # 0
       /\ p.metric # 0 => find_field(cmd, 5) = m
  <2>1. \A id \in {1, 2, 3, 4, 5} : /\ HasField(cmd, id) <=> id <= Len(fs)
                                    /\ HasField(cmd, id) => find_field(cmd, id) = fs[id].data
    BY <1>7, <1>8, <1>9, FieldFound
  <2>2. ASSUME NEW id \in {1, 2, 3, 4}
        PROVE  HasField(cmd, id) /\ find_field(cmd, id) = fs[id].data
    BY <2>1, <1>7
  <2>3. (HasField(cmd, 5) <=> p.metric # 0) /\ (p.metric # 0 => find_field(cmd, 5) = fs[5].data)
    BY <2>1, <1>7
  <2> QED BY <2>2, <2>3, <1>5, <1>6, <1>7
<1> DEFINE none == ""
           e1 == Fault(cmd, DST_ADDR, IsAddr)
           e2 == Fault(cmd, PREFIX_LEN, IsMask)
           e3 == Fault(cmd, GATEWAY, IsAddr)
           e4 == Fault(cmd, IF_NAME, IsName)
           e5 == OptionalFault(cmd, METRIC, IsMetric)
           checks == << e1, e2, e3, e4, e5 >>
           params == [dst_addr |-> find_field(cmd, DST_ADDR),
                      prefix_len |-> find_field(cmd, PREFIX_LEN)[1],
                      gateway |-> find_field(cmd, GATEWAY),
                      if_name |-> find_field(cmd, IF_NAME),
                      metric |-> IF HasField(cmd, METRIC)
                                 THEN read_be16(find_field(cmd, METRIC), 0) ELSE 0]
<1>12. parse_route_add(cmd) = Parsed(checks, params)
  BY DEF parse_route_add
<1>13. params = p
  BY <1>1, <1>3, <1>11 DEF DST_ADDR, PREFIX_LEN, GATEWAY, IF_NAME, METRIC
<1>14. ASSUME p.prefix_len <= MAX_MASK, p.if_name # <<>>
       PROVE  \A i \in DOMAIN checks : checks[i] = none
  <2>1. e1 = none
    BY <1>2, <1>11 DEF Fault, IsAddr, DST_ADDR
  <2>2. e2 = none
    <3>1. Len(<<p.prefix_len>>) = 1 /\ <<p.prefix_len>>[1] = p.prefix_len
      OBVIOUS
    <3> QED BY <3>1, <1>11, <1>14 DEF Fault, IsMask, PREFIX_LEN
  <2>3. e3 = none
    BY <1>2, <1>11 DEF Fault, IsAddr, GATEWAY
  <2>4. e4 = none
    BY <1>11, <1>14 DEF Fault, IsName, IF_NAME
  <2>5. e5 = none
    BY <1>3, <1>11 DEF OptionalFault, Fault, IsMetric, METRIC
  <2> HIDE DEF none, e1, e2, e3, e4, e5
  <2> QED BY <2>1, <2>2, <2>3, <2>4, <2>5
<1>15. p.prefix_len <= MAX_MASK \/ p.prefix_len > MAX_MASK
  BY <1>1, <1>4, CmdAssumption
<1> HIDE DEF checks, params, r
<1>16. r = Parsed(checks, params)
  BY <1>10, <1>12
<1>17. (r.ok <=> \A i \in DOMAIN checks : checks[i] = none) /\ (r.ok => r.val = params)
  BY <1>16, NothingWrong
<1> QED BY <1>13, <1>14, <1>15, <1>17 DEF r

\* A ROUTE_DEL arrives as it was given; it is refused when its mask is too
\* long.
LEMMA RouteDelArrives ==
  ASSUME NEW p \in RouteDels, ADDR_SIZE < Base
  PROVE  LET r == AndThen(Received(make_route_del(p)), parse_route_del)
         IN  /\ r.ok => r.val = p
             /\ ~r.ok => p.prefix_len > MAX_MASK
<1> DEFINE d == <<p.prefix_len>>
           f1 == field(DST_ADDR, p.dst_addr)
           f2 == field(PREFIX_LEN, d)
           f3 == field(GATEWAY, p.gateway)
           fs == << f1, f2 >> \o FieldIf(p.gateway # ZeroAddr, f3)
           R == Received(make_command(ROUTE_DEL, fs, <<>>))
           cmd == R.val
           r == AndThen(Received(make_route_del(p)), parse_route_del)
<1>1. /\ p.dst_addr \in Addresses /\ p.gateway \in Addresses /\ p.prefix_len \in Byte
      /\ p = [dst_addr |-> p.dst_addr, prefix_len |-> p.prefix_len, gateway |-> p.gateway]
  BY DEF RouteDels
<1>2. /\ p.dst_addr \in Seq(Byte) /\ Len(p.dst_addr) = ADDR_SIZE
      /\ p.gateway \in Seq(Byte) /\ Len(p.gateway) = ADDR_SIZE
  BY <1>1, AddressIsData
<1>3. d \in Seq(Byte) /\ Len(d) = 1 /\ d[1] = p.prefix_len
  BY <1>1
<1>4. Base \in Nat /\ Base > 5 /\ Byte = 0 .. Base - 1
  BY MessageAssumption, WordFacts DEF MsgTypes, ERROR
<1> HIDE DEF d
<1>5. /\ f1 \in Fields /\ f1.field_id = 1 /\ f1.data = p.dst_addr
      /\ f2 \in Fields /\ f2.field_id = 2 /\ f2.data = d
      /\ f3 \in Fields /\ f3.field_id = 3 /\ f3.data = p.gateway
  <2>1. 1 \in Byte /\ 2 \in Byte /\ 3 \in Byte /\ Len(d) < Base
    BY <1>3, <1>4
  <2>2. f1 \in Fields /\ f1.field_id = 1 /\ f1.data = p.dst_addr
    BY <2>1, <1>2, FieldType DEF DST_ADDR
  <2>3. f2 \in Fields /\ f2.field_id = 2 /\ f2.data = d
    BY <2>1, <1>3, FieldType DEF PREFIX_LEN
  <2>4. f3 \in Fields /\ f3.field_id = 3 /\ f3.data = p.gateway
    BY <2>1, <1>2, FieldType DEF GATEWAY
  <2> QED BY <2>2, <2>3, <2>4
<1> HIDE DEF f1, f2, f3
<1>6. /\ fs \in Seq(Fields) /\ Len(fs) = IF p.gateway # ZeroAddr THEN 3 ELSE 2
      /\ fs[1] = f1 /\ fs[2] = f2
      /\ p.gateway # ZeroAddr => fs[3] = f3
  <2> DEFINE a == << f1, f2 >>
             b == << f3 >>
             none == << >>
  <2>1. a \in Seq(Fields) /\ Len(a) = 2 /\ a[1] = f1 /\ a[2] = f2
    BY <1>5
  <2>2. b \in Seq(Fields) /\ Len(b) = 1 /\ b[1] = f3
    BY <1>5
  <2>3. fs = a \o (IF p.gateway # ZeroAddr THEN b ELSE none)
    BY DEF FieldIf
  <2>4. a \o none = a
    BY <2>1
  <2> HIDE DEF a, b, none, fs
  <2>5. /\ a \o b \in Seq(Fields) /\ Len(a \o b) = Len(a) + Len(b)
        /\ \A i \in 1 .. Len(a) : (a \o b)[i] = a[i]
        /\ \A i \in 1 .. Len(b) : (a \o b)[Len(a) + i] = b[i]
    <3>1. a \in Seq(Fields) /\ b \in Seq(Fields)
      BY <2>1, <2>2
    <3> QED BY <3>1, Joined
  <2>6. \A i \in 1 .. 2 : i \in 1 .. Len(a) /\ 1 \in 1 .. Len(b) /\ Len(a) + 1 = 3
    BY <2>1, <2>2
  <2>7. (\A i \in 1 .. 2 : (a \o b)[i] = a[i]) /\ (a \o b)[3] = b[1]
    <3>1. 1 \in 1 .. 2
      OBVIOUS
    <3> QED BY <3>1, <2>5, <2>6, Zenon
  <2>8. Len(a \o b) = 3
    BY <2>1, <2>2, <2>5
  <2>9. CASE p.gateway # ZeroAddr
    BY <2>1, <2>2, <2>3, <2>5, <2>7, <2>8, <2>9
  <2>10. CASE p.gateway = ZeroAddr
    BY <2>1, <2>3, <2>4, <2>10
  <2> QED BY <2>9, <2>10
<1> HIDE DEF fs
<1>7. Numbered(fs)
  <2> SUFFICES ASSUME NEW i \in 1 .. Len(fs) PROVE fs[i].field_id = i
    BY DEF Numbered
  <2>1. i \in {1, 2} \/ (i = 3 /\ p.gateway # ZeroAddr)
    BY <1>6
  <2> QED BY <2>1, <1>5, <1>6
<1>8. R.ok /\ cmd.fields = fs
  <2>1. ROUTE_DEL \in CmdIds /\ Len(fs) <= 5
    BY <1>6 DEF CmdIds
  <2> QED BY <2>1, <1>6, FieldsArrive
<1>9. r = parse_route_del(cmd)
  BY <1>8 DEF AndThen, make_route_del, fs, f1, f2, f3, d
<1> HIDE DEF R
<1>10. /\ HasField(cmd, 1) /\ find_field(cmd, 1) = p.dst_addr
       /\ HasField(cmd, 2) /\ find_field(cmd, 2) = d
       /\ HasField(cmd, 3) <=> p.gateway # ZeroAddr
       /\ p.gateway # ZeroAddr => find_field(cmd, 3) = p.gateway
  <2>1. \A id \in {1, 2, 3} : /\ HasField(cmd, id) <=> id <= Len(fs)
                              /\ HasField(cmd, id) => find_field(cmd, id) = fs[id].data
    BY <1>6, <1>7, <1>8, FieldFound
  <2> QED BY <2>1, <1>5, <1>6
<1> DEFINE none == ""
           e1 == Fault(cmd, DST_ADDR, IsAddr)
           e2 == Fault(cmd, PREFIX_LEN, IsMask)
           e3 == OptionalFault(cmd, GATEWAY, IsAddr)
           checks == << e1, e2, e3 >>
           params == [dst_addr |-> find_field(cmd, DST_ADDR),
                      prefix_len |-> find_field(cmd, PREFIX_LEN)[1],
                      gateway |-> IF HasField(cmd, GATEWAY)
                                  THEN find_field(cmd, GATEWAY) ELSE ZeroAddr]
<1>11. parse_route_del(cmd) = Parsed(checks, params)
  BY DEF parse_route_del
<1>12. params = p
  BY <1>1, <1>3, <1>10 DEF DST_ADDR, PREFIX_LEN, GATEWAY
<1>13. ASSUME p.prefix_len <= MAX_MASK PROVE \A i \in DOMAIN checks : checks[i] = none
  <2>1. e1 = none
    BY <1>2, <1>10 DEF Fault, IsAddr, DST_ADDR
  <2>2. e2 = none
    BY <1>3, <1>10, <1>13 DEF Fault, IsMask, PREFIX_LEN
  <2>3. e3 = none
    BY <1>2, <1>10 DEF OptionalFault, Fault, IsAddr, GATEWAY
  <2> HIDE DEF none, e1, e2, e3
  <2> QED BY <2>1, <2>2, <2>3
<1>14. p.prefix_len <= MAX_MASK \/ p.prefix_len > MAX_MASK
  BY <1>1, <1>4, CmdAssumption
<1> HIDE DEF checks, params, r
<1>15. r = Parsed(checks, params)
  BY <1>9, <1>11
<1>16. (r.ok <=> \A i \in DOMAIN checks : checks[i] = none) /\ (r.ok => r.val = params)
  BY <1>15, NothingWrong
<1> QED BY <1>12, <1>13, <1>14, <1>16 DEF r

-----------------------------------------------------------------------------
(* Lists of interfaces.                                                     *)

\* An interface is encoded like the VRF with its fields.
LEMMA InterfaceAsVrf ==
  ASSUME NEW r \in Interfaces
  PROVE  \E v \in VrfRequests :
           /\ v.prefixes = r.prefixes /\ EncodeInterface(v) = EncodeInterface(r)
           /\ r = [iface_name |-> v.iface_name, nexthop_addr_ipv4 |-> v.nexthop_addr_ipv4,
                   nexthop_id_ipv4 |-> v.nexthop_id_ipv4, prefixes |-> v.prefixes]
<1> DEFINE name == [i \in 1 .. VRFS_NAME_SIZE |-> 0]
           v == [vrfs_name |-> name, iface_name |-> r.iface_name,
                 nexthop_addr_ipv4 |-> r.nexthop_addr_ipv4,
                 nexthop_id_ipv4 |-> r.nexthop_id_ipv4, prefixes |-> r.prefixes]
<1>1. name \in [1 .. VRFS_NAME_SIZE -> Byte]
  BY WordFacts
<1> HIDE DEF name
<1>2. /\ r.iface_name \in [1 .. IFACE_NAME_SIZE -> Byte]
      /\ r.nexthop_addr_ipv4 \in [1 .. ADDR_SIZE -> Byte]
      /\ r.nexthop_id_ipv4 \in 0 .. Word * Word - 1
      /\ r.prefixes \in Seq([addr : [1 .. ADDR_SIZE -> Byte], mask_len : Byte])
      /\ r = [iface_name |-> r.iface_name, nexthop_addr_ipv4 |-> r.nexthop_addr_ipv4,
              nexthop_id_ipv4 |-> r.nexthop_id_ipv4, prefixes |-> r.prefixes]
  BY DEF Interfaces, Addresses
<1>3. v \in VrfRequests
  BY <1>1, <1>2 DEF VrfRequests
<1>4. /\ v.iface_name = r.iface_name /\ v.nexthop_addr_ipv4 = r.nexthop_addr_ipv4
      /\ v.nexthop_id_ipv4 = r.nexthop_id_ipv4 /\ v.prefixes = r.prefixes
  OBVIOUS
<1> HIDE DEF v
<1>5. EncodeInterface(v) = EncodeInterface(r)
  BY <1>4 DEF EncodeInterface
<1> QED BY <1>2, <1>3, <1>4, <1>5

\* An interface takes at least its fixed part.
LEMMA InterfaceLength ==
  ASSUME NEW r \in Interfaces
  PROVE  LET e == EncodeInterface(r)
         IN  /\ e \in Seq(Byte) /\ Len(r.prefixes) \in Nat
             /\ Len(e) = INTERFACE_FIXED_SIZE + Len(r.prefixes) * PREFIX_IPV4_WIRE_SIZE
             /\ At(e, INTERFACE_FIXED_SIZE - 2, write_be16(Len(r.prefixes)))
             /\ Len(e) > 0
<1>1. PICK v \in VrfRequests : v.prefixes = r.prefixes /\ EncodeInterface(v) = EncodeInterface(r)
  BY InterfaceAsVrf
<1> DEFINE e == EncodeInterface(v)
           n == Len(v.prefixes)
           A == IFACE_NAME_SIZE + ADDR_SIZE
<1>2. /\ e \in Seq(Byte) /\ Len(e) = INTERFACE_FIXED_SIZE + n * PREFIX_IPV4_WIRE_SIZE
      /\ At(e, A + 4, write_be16(n))
  BY InterfaceShape
<1>3. n \in Nat
  BY DEF VrfRequests
<1> HIDE DEF e, n
<1>4. /\ INTERFACE_FIXED_SIZE - 2 = A + 4 /\ INTERFACE_FIXED_SIZE \in Nat
      /\ INTERFACE_FIXED_SIZE > 0 /\ PREFIX_IPV4_WIRE_SIZE \in Nat
  BY SizeFacts
<1>5. n * PREFIX_IPV4_WIRE_SIZE \in Nat
  BY <1>3, <1>4
<1> QED BY <1>1, <1>2, <1>3, <1>4, <1>5 DEF e, n

\* An encoded interface is read back, whatever follows it.
LEMMA InterfaceRead ==
  ASSUME NEW r \in Interfaces, PrefixesValid(r.prefixes),
         NEW raw \in Seq(Byte), At(raw, 0, EncodeInterface(r))
  PROVE  InterfaceEnd(raw) = Len(EncodeInterface(r)) /\ DecodeInterface(raw) = Ok(r)
<1>1. PICK v \in VrfRequests :
        /\ v.prefixes = r.prefixes /\ EncodeInterface(v) = EncodeInterface(r)
        /\ r = [iface_name |-> v.iface_name, nexthop_addr_ipv4 |-> v.nexthop_addr_ipv4,
                nexthop_id_ipv4 |-> v.nexthop_id_ipv4, prefixes |-> v.prefixes]
  BY InterfaceAsVrf
<1> QED BY <1>1, InterfaceDecoded

\* One that is cut off is not read.
LEMMA InterfaceCut ==
  ASSUME NEW r \in Interfaces, Len(r.prefixes) < Word,
         NEW raw \in Seq(Byte), Len(raw) < Len(EncodeInterface(r)),
         \A i \in 1 .. Len(raw) : raw[i] = EncodeInterface(r)[i]
  PROVE  DecodeInterface(raw) = Err("InvalidCommand")
<1> DEFINE e == EncodeInterface(r)
           n == Len(r.prefixes)
           F == INTERFACE_FIXED_SIZE
           W == PREFIX_IPV4_WIRE_SIZE
           w == write_be16(n)
<1>1. /\ e \in Seq(Byte) /\ n \in Nat /\ Len(e) = F + n * W /\ At(e, F - 2, w)
  BY InterfaceLength
<1>2. F \in Nat /\ F > 2
  BY SizeFacts
<1>3. w \in Seq(Byte) /\ Len(w) = 2
  BY <1>1, WriteBe16
<1>4. n \in 0 .. Word - 1
  BY <1>1, WordFacts
<1>5. Len(raw) \in Nat /\ Len(raw) < Len(e) /\ \A i \in 1 .. Len(raw) : raw[i] = e[i]
  OBVIOUS
<1> HIDE DEF e, n, F, W, w
<1>6. CASE Len(raw) < F
  BY <1>6 DEF DecodeInterface, F
<1>7. CASE ~(Len(raw) < F)
  <2>1. At(raw, F - 2, w)
    <3>1. ASSUME NEW i \in 1 .. Len(w) PROVE raw[(F - 2) + i] = w[i]
      <4>1. (F - 2) + i \in 1 .. Len(raw)
        BY <1>2, <1>3, <1>5, <1>7
      <4>2. e[(F - 2) + i] = w[i]
        BY <1>1 DEF At
      <4> QED BY <4>1, <4>2, <1>5
    <3>2. F - 2 \in Nat /\ (F - 2) + Len(w) <= Len(raw)
      BY <1>2, <1>3, <1>5, <1>7
    <3> QED BY <3>1, <3>2 DEF At
  <2>2. read_be16(raw, F - 2) = n
    BY <2>1, <1>4, At16 DEF w
  <2>3. InterfaceEnd(raw) = Len(e)
    BY <2>2, <1>1 DEF InterfaceEnd, F, W
  <2>4. Len(raw) >= F /\ Len(raw) < InterfaceEnd(raw)
    BY <2>3, <1>2, <1>5, <1>7
  <2> QED BY <2>4, <1>7 DEF DecodeInterface, F
<1> QED BY <1>6, <1>7

\* What is read from a beginning of encoded interfaces are those
\* interfaces, and from all of it they are read.
LEMMA InterfacesRead ==
  ASSUME NEW ints \in Seq(Interfaces), \A i \in DOMAIN ints : PrefixesValid(ints[i].prefixes),
         NEW raw \in Seq(Byte), Len(raw) <= Len(ConcatMap(EncodeInterface, ints)),
         \A i \in 1 .. Len(raw) : raw[i] = ConcatMap(EncodeInterface, ints)[i]
  PROVE  LET r == DecodeInterfaces(raw, Len(ints))
         IN  /\ r.ok => r.val = ints
             /\ Len(raw) = Len(ConcatMap(EncodeInterface, ints)) => r.ok
<1> DEFINE ss == [i \in DOMAIN ints |-> EncodeInterface(ints[i])]
           c == ConcatMap(EncodeInterface, ints)
           n == Len(ints)
           m == Len(raw)
           More(st) == AndThen(DecodeInterface(Rest(raw, st.pos)), LAMBDA i :
                         Ok([pos |-> st.pos + InterfaceEnd(Rest(raw, st.pos)),
                             items |-> Append(st.items, i)]))
           Step(f) == [k \in 0 .. n |-> IF k = 0 THEN Ok([pos |-> 0, items |-> <<>>])
                                        ELSE AndThen(f[k - 1], More)]
           done == CHOOSE f : f = Step(f)
           r == DecodeInterfaces(raw, n)
<1>1. r = AndThen(done[n], LAMBDA st : Ok(st.items))
  BY DEF DecodeInterfaces
<1>2. c = FlattenSeq(ss)
  BY DEF ConcatMap
<1>3. /\ n \in Nat /\ DOMAIN ints = 1 .. n
      /\ \A i \in 1 .. n : ints[i] \in Interfaces /\ PrefixesValid(ints[i].prefixes)
  <2>1. n \in Nat /\ DOMAIN ints = 1 .. n /\ \A i \in 1 .. n : ints[i] \in Interfaces
    OBVIOUS
  <2> QED BY <2>1
<1>4. ASSUME NEW i \in 1 .. n
      PROVE  ss[i] = EncodeInterface(ints[i]) /\ ss[i] \in Seq(Byte) /\ Len(ss[i]) > 0
  BY <1>3, InterfaceLength
<1>5. ss \in Seq(Seq(Byte)) /\ Len(ss) = n
  <2>1. ss \in [1 .. n -> Seq(Byte)]
    BY <1>3, <1>4
  <2> HIDE DEF ss
  <2> QED BY <2>1, <1>3
<1> HIDE DEF r, done
<1> HIDE DEF ss, c, n
<1>6. c \in Seq(Byte)
  BY <1>2, <1>5, Flattened
<1>7. PICK off : Laid(ss, off)
  BY <1>5, Flattened
<1>8. /\ off \in [0 .. n -> Nat] /\ off[0] = 0 /\ off[n] = Len(c)
      /\ \A k \in 1 .. n :
           /\ off[k] = off[k - 1] + Len(ss[k]) /\ off[k] <= Len(c)
           /\ \A i \in 1 .. Len(ss[k]) : c[off[k - 1] + i] = ss[k][i]
  BY <1>2, <1>5, <1>7 DEF Laid
<1>9. m \in Nat /\ m <= Len(c) /\ \A i \in 1 .. m : raw[i] = c[i]
  BY DEF c
<1> DEFINE State(k) == Ok([pos |-> off[k], items |-> SubSeq(ints, 1, k)])
           Bad == Err("InvalidCommand")
           Read == {k \in 0 .. n : off[k] <= m}
           Next1(x) == AndThen(x, More)
<1>10. ASSUME NEW k \in 0 .. n - 1, k \in Read
       PROVE  Next1(State(k)) = IF k + 1 \in Read THEN State(k + 1) ELSE Bad
  <2> DEFINE o == off[k]
             rest == Rest(raw, o)
             e == ss[k + 1]
             i == ints[k + 1]
             d == DecodeInterface(rest)
  <2>1. k + 1 \in 1 .. n /\ (k + 1) - 1 = k /\ k \in 0 .. n /\ k + 1 \in 0 .. n
    BY <1>3
  <2>2. /\ o \in Nat /\ o <= m /\ off[k + 1] = o + Len(e) /\ o + Len(e) <= Len(c)
        /\ \A j \in 1 .. Len(e) : c[o + j] = e[j]
    <3>1. off[k + 1] = off[(k + 1) - 1] + Len(ss[k + 1]) /\ off[k + 1] <= Len(c)
      BY <2>1, <1>8
    <3>2. \A j \in 1 .. Len(ss[k + 1]) : c[off[(k + 1) - 1] + j] = ss[k + 1][j]
      BY <2>1, <1>8
    <3>3. off[k] \in Nat /\ off[k] <= m
      BY <2>1, <1>8, <1>10
    <3> QED BY <2>1, <3>1, <3>2, <3>3
  <2>3. e = EncodeInterface(i) /\ e \in Seq(Byte) /\ Len(e) > 0 /\ Len(e) \in Nat
    BY <2>1, <1>4
  <2>4. i \in Interfaces /\ PrefixesValid(i.prefixes) /\ Len(i.prefixes) < Word
    BY <2>1, <1>3 DEF PrefixesValid
  <2>5. State(k).ok /\ State(k).val.pos = o /\ State(k).val.items = SubSeq(ints, 1, k)
    BY DEF Ok
  <2>6. Next1(State(k)) = IF d.ok THEN Ok([pos |-> o + InterfaceEnd(rest),
                                           items |-> Append(SubSeq(ints, 1, k), d.val)])
                          ELSE d
    <3> HIDE DEF State
    <3> QED BY <2>5 DEF AndThen
  <2> HIDE DEF State, Next1
  <2> HIDE DEF o, e, i
  <2>7. CASE k + 1 \in Read
    <3>1. o + Len(e) <= m
      BY <2>2, <2>7
    <3>2. At(raw, o, e)
      <4>1. ASSUME NEW j \in 1 .. Len(e) PROVE raw[o + j] = e[j]
        <5>1. o + j \in 1 .. m
          BY <2>2, <2>3, <3>1, <1>9
        <5> QED BY <5>1, <2>2, <1>9
      <4> QED BY <2>2, <3>1, <4>1 DEF At
    <3>3. rest \in Seq(Byte) /\ At(rest, 0, e)
      BY <3>2, <2>3, AtRest
    <3> HIDE DEF rest
    <3>4. InterfaceEnd(rest) = Len(e) /\ DecodeInterface(rest) = Ok(i)
      BY <3>3, <2>3, <2>4, InterfaceRead
    <3>5. d.ok /\ d.val = i
      BY <3>4 DEF Ok
    <3>6. SubSeq(ints, 1, k + 1) = Append(SubSeq(ints, 1, k), i)
      <4>1. k \in 0 .. Len(ints) - 1
        BY DEF n
      <4> QED BY <4>1, PrefixGrows DEF i
    <3> QED BY <2>2, <2>6, <2>7, <3>4, <3>5, <3>6 DEF State
  <2>8. CASE k + 1 \notin Read
    <3>1. o + Len(e) > m
      BY <2>1, <2>2, <2>3, <2>8, <1>9
    <3>2. rest = SubSeq(raw, o + 1, m)
      BY DEF Rest, Slice
    <3>3. rest \in Seq(Byte) /\ Len(rest) = m - o /\ \A j \in 1 .. Len(rest) : rest[j] = raw[o + j]
      BY <3>2, <2>2, <1>9
    <3> HIDE DEF rest
    <3>4. Len(rest) < Len(e)
      BY <3>1, <3>3, <2>2, <2>3, <1>9
    <3>5. \A j \in 1 .. Len(rest) : rest[j] = e[j]
      <4>1. ASSUME NEW j \in 1 .. Len(rest) PROVE rest[j] = e[j]
        <5>1. o + j \in 1 .. m /\ j \in 1 .. Len(e)
          BY <3>3, <3>4, <2>2, <2>3, <1>9
        <5> QED BY <5>1, <3>3, <2>2, <1>9
      <4> QED BY <4>1
    <3>6. d = Bad
      BY <3>3, <3>4, <3>5, <2>3, <2>4, InterfaceCut
    <3>7. ~d.ok
      BY <3>6 DEF Err
    <3> QED BY <2>6, <2>8, <3>6, <3>7
  <2> QED BY <2>7, <2>8
<1>11. Next1(Bad) = Bad
  BY DEF AndThen, Err
<1>12. State(0) = Ok([pos |-> 0, items |-> <<>>]) /\ 0 \in Read
  <2>1. SubSeq(ints, 1, 0) = <<>>
    OBVIOUS
  <2> QED BY <1>3, <1>8, <1>9, <2>1
<1> HIDE DEF Read, State, Bad
<1> DEFINE G(k, x) == x = Bad \/ (k \in Read /\ x = State(k))
<1>13. ASSUME NEW k \in 0 .. n - 1, NEW x, G(k, x)
       PROVE  /\ G(k + 1, Next1(x))
              /\ m = Len(c) /\ x = State(k) => Next1(x) = State(k + 1)
  <2>1. State(k) # Bad
    BY DEF State, Bad, Ok, Err
  <2>2. m = Len(c) => k + 1 \in Read
    <3>1. k + 1 \in 1 .. n /\ k + 1 \in 0 .. n
      BY <1>3
    <3> QED BY <3>1, <1>8 DEF Read
  <2> HIDE DEF Next1
  <2> QED BY <2>1, <2>2, <1>10, <1>11, <1>13
<1> HIDE DEF Next1
<1> DEFINE States == {State(k) : k \in 0 .. n} \union {Bad}
           step == [k \in 1 .. n |-> [x \in States |-> IF G(k - 1, x) THEN Next1(x) ELSE Bad]]
<1>14. G(0, State(0)) /\ \A k \in 0 .. n : \A x : G(k, x) => x \in States
  BY <1>12
<1>15. ASSUME NEW k \in 1 .. n, NEW x, G(k - 1, x)
       PROVE  /\ G(k, Next1(x))
              /\ m = Len(c) /\ x = State(k - 1) => Next1(x) = State(k)
  <2>1. k - 1 \in 0 .. n - 1 /\ (k - 1) + 1 = k
    BY <1>3
  <2>2. /\ G((k - 1) + 1, Next1(x))
        /\ m = Len(c) /\ x = State(k - 1) => Next1(x) = State((k - 1) + 1)
    <3> HIDE DEF G
    <3> QED BY <2>1, <1>13, <1>15
  <2> QED BY <2>1, <2>2
<1> HIDE DEF G
<1>16. CanStep(States, n, State(0), step)
  <2>1. State(0) \in States /\ Bad \in States
    BY <1>3
  <2>2. ASSUME NEW k \in 1 .. n, NEW x \in States PROVE step[k][x] \in States
    <3>1. step[k][x] = IF G(k - 1, x) THEN Next1(x) ELSE Bad
      OBVIOUS
    <3>2. G(k - 1, x) => Next1(x) \in States
      <4>1. k \in 0 .. n
        OBVIOUS
      <4> HIDE DEF States
      <4> QED BY <4>1, <1>14, <1>15
    <3> HIDE DEF step, States
    <3> QED BY <3>1, <3>2, <2>1
  <2> HIDE DEF step, States
  <2> QED BY <2>1, <2>2, <1>3 DEF CanStep
<1>17. PICK g : Steps(States, n, State(0), step, g)
  <2> HIDE DEF step, States
  <2> QED BY <1>16, StepFunction
<1>18. /\ g \in [0 .. n -> States] /\ g[0] = State(0)
       /\ \A k \in 1 .. n : g[k] = step[k][g[k - 1]]
  <2> HIDE DEF step, States
  <2> QED BY <1>17 DEF Steps
<1>19. \A k \in 1 .. n : G(k - 1, g[k - 1]) => g[k] = Next1(g[k - 1])
  <2> SUFFICES ASSUME NEW k \in 1 .. n, G(k - 1, g[k - 1]) PROVE g[k] = Next1(g[k - 1])
    OBVIOUS
  <2>1. g[k - 1] \in States
    <3>1. k - 1 \in 0 .. n
      BY <1>3
    <3> HIDE DEF States
    <3> QED BY <3>1, <1>18
  <2>2. step[k][g[k - 1]] = Next1(g[k - 1])
    <3> HIDE DEF States
    <3> QED BY <2>1
  <2> HIDE DEF step, States
  <2> QED BY <2>2, <1>18
<1> DEFINE P == {k \in 0 .. n : G(k, g[k]) /\ (m = Len(c) => g[k] = State(k))}
<1>20. \A k \in 0 .. n : k \in P
  <2>1. 0 \in P
    BY <1>3, <1>14, <1>18
  <2>2. ASSUME NEW k \in 0 .. n - 1, k \in P PROVE k + 1 \in P
    <3>1. k + 1 \in 1 .. n /\ (k + 1) - 1 = k /\ k + 1 \in 0 .. n
      BY <1>3
    <3>2. G(k, g[k]) /\ (m = Len(c) => g[k] = State(k))
      BY <2>2
    <3>3. g[k + 1] = Next1(g[k])
      BY <3>1, <3>2, <1>19
    <3>4. /\ G(k + 1, Next1(g[k]))
          /\ m = Len(c) /\ g[k] = State(k) => Next1(g[k]) = State(k + 1)
      BY <3>2, <1>13
    <3> QED BY <3>1, <3>2, <3>3, <3>4
  <2> HIDE DEF P
  <2> QED BY <1>3, <2>1, <2>2, UpTo
<1>21. g = Step(g)
  <2>1. \A k \in 1 .. n : g[k] = Next1(g[k - 1])
    <3> SUFFICES ASSUME NEW k \in 1 .. n PROVE g[k] = Next1(g[k - 1])
      OBVIOUS
    <3>1. k - 1 \in 0 .. n
      BY <1>3
    <3>2. k - 1 \in P
      BY <3>1, <1>20
    <3> QED BY <3>2, <1>19
  <2>2. \A k \in 0 .. n : g[k] = IF k = 0 THEN Ok([pos |-> 0, items |-> <<>>]) ELSE Next1(g[k - 1])
    <3>1. \A k \in 0 .. n : k # 0 => k \in 1 .. n
      BY <1>3
    <3> QED BY <3>1, <2>1, <1>12, <1>18, Zenon
  <2>3. g = [k \in 0 .. n |-> IF k = 0 THEN Ok([pos |-> 0, items |-> <<>>]) ELSE Next1(g[k - 1])]
    <3> HIDE DEF States
    <3> QED BY <2>2, <1>18
  <2> QED BY <2>3 DEF Next1
<1>22. done = Step(done)
  <2>1. \E f : f = Step(f)
    BY <1>21
  <2> HIDE DEF Step
  <2> QED BY <2>1 DEF done
<1>23. /\ done[0] = State(0)
       /\ \A k \in 1 .. n : done[k] = Next1(done[k - 1])
  <2>1. \A k \in 0 .. n : done[k] = IF k = 0 THEN Ok([pos |-> 0, items |-> <<>>])
                                    ELSE Next1(done[k - 1])
    BY <1>22, Zenon DEF Next1
  <2>2. 0 \in 0 .. n /\ \A k \in 1 .. n : k \in 0 .. n /\ k # 0
    BY <1>3
  <2> QED BY <2>1, <2>2, <1>12, Zenon
<1> DEFINE Q == {k \in 0 .. n : G(k, done[k]) /\ (m = Len(c) => done[k] = State(k))}
<1>24. n \in Q
  <2>1. 0 \in Q
    BY <1>3, <1>14, <1>23
  <2>2. ASSUME NEW k \in 0 .. n - 1, k \in Q PROVE k + 1 \in Q
    <3>1. k + 1 \in 1 .. n /\ (k + 1) - 1 = k /\ k + 1 \in 0 .. n
      BY <1>3
    <3>2. G(k, done[k]) /\ (m = Len(c) => done[k] = State(k))
      BY <2>2
    <3>3. done[k + 1] = Next1(done[k])
      BY <3>1, <1>23
    <3>4. /\ G(k + 1, Next1(done[k]))
          /\ m = Len(c) /\ done[k] = State(k) => Next1(done[k]) = State(k + 1)
      BY <3>2, <1>13
    <3> QED BY <3>1, <3>2, <3>3, <3>4
  <2> HIDE DEF Q
  <2>3. \A k \in 0 .. n : k \in Q
    BY <1>3, <2>1, <2>2, UpTo
  <2> QED BY <1>3, <2>3
<1>25. State(n).ok /\ State(n).val.items = ints /\ ~Bad.ok
  <2>1. SubSeq(ints, 1, n) = ints
    BY DEF n
  <2> QED BY <2>1 DEF State, Bad, Ok, Err
<1>26. (done[n] = Bad \/ done[n] = State(n)) /\ (m = Len(c) => done[n] = State(n))
  BY <1>24 DEF G
<1>27. (r.ok => r.val = ints) /\ (m = Len(c) => r.ok)
  <2>1. r = IF done[n].ok THEN Ok(done[n].val.items) ELSE done[n]
    BY <1>1 DEF AndThen
  <2> QED BY <2>1, <1>25, <1>26 DEF Ok
<1> QED BY <1>27 DEF r, c, n

\* A list of interfaces arrives as it was given; it is refused when it
\* cannot be encoded or outgrew the 16-bit length of the command.
LEMMA PayloadArrives ==
  ASSUME NEW ints \in Seq(Interfaces)
  PROVE  LET got == AndThen(Received(make_route_add_binary(ints)),
                            LAMBDA cmd : decode_route_add_payload(cmd.raw_payload))
             payload == encode_route_add_payload(ints)
         IN  /\ got.ok => got.val = ints
             /\ ~got.ok => ~(payload.ok /\ Len(payload.val) < Word)
<1> DEFINE got == AndThen(Received(make_route_add_binary(ints)),
                          LAMBDA cmd : decode_route_add_payload(cmd.raw_payload))
           payload == encode_route_add_payload(ints)
           body == PayloadOf(payload)
           q == Len(body) % Word
           cut == SubSeq(body, 1, q)
           n == Len(ints)
           t == <<INTERFACE_ROUTE>>
           w == write_be16(n)
           c == ConcatMap(EncodeInterface, ints)
           head == t \o w
<1>1. encode_command(make_route_add_binary(ints)) = Bytes(ROUTE_ADD, body)
  BY CommandBytes DEF Command, make_route_add_binary
<1>2. n \in Nat /\ DOMAIN ints = 1 .. n /\ c \in Seq(Byte)
  <2> DEFINE ss == [i \in DOMAIN ints |-> EncodeInterface(ints[i])]
  <2>1. n \in Nat /\ DOMAIN ints = 1 .. n /\ \A i \in 1 .. n : ints[i] \in Interfaces
    OBVIOUS
  <2>2. \A i \in 1 .. n : EncodeInterface(ints[i]) \in Seq(Byte)
    BY <2>1, InterfaceLength
  <2>3. ss \in Seq(Seq(Byte))
    <3>1. ss \in [1 .. n -> Seq(Byte)]
      BY <2>1, <2>2
    <3> HIDE DEF ss
    <3> QED BY <3>1, <2>1
  <2>4. c = FlattenSeq(ss)
    BY DEF ConcatMap
  <2> HIDE DEF ss
  <2> QED BY <2>1, <2>3, <2>4, Flattened
<1>3. t \in Seq(Byte) /\ Len(t) = 1 /\ t[1] = INTERFACE_ROUTE
  BY WordFacts DEF INTERFACE_ROUTE
<1>4. w \in Seq(Byte) /\ Len(w) = 2
  BY <1>2, WriteBe16
<1>5. payload.ok => /\ body = head \o c /\ n < Word
                    /\ \A i \in DOMAIN ints : PrefixesValid(ints[i].prefixes)
  BY DEF encode_route_add_payload, PayloadOf, Ok, Err
<1>6. ~payload.ok => body = <<>>
  BY DEF PayloadOf
<1>7. payload.ok => body = payload.val
  BY DEF PayloadOf
<1> HIDE DEF payload, body, n, t, w, c
<1>8. head \in Seq(Byte) /\ Len(head) = 3 /\ At(head, 0, t) /\ At(head, 1, w)
  <2>1. head \in Seq(Byte) /\ Len(head) = Len(t) + Len(w)
    BY <1>3, <1>4, JoinedLen, Zenon
  <2>2. At(head, 0, t) /\ At(head, Len(t), w)
    BY <1>3, <1>4, AtStart, AtEnd
  <2> QED BY <2>1, <2>2, <1>3, <1>4
<1> HIDE DEF head
<1>9. body \in Seq(Byte)
  <2>1. head \o c \in Seq(Byte)
    BY <1>2, <1>8, JoinedLen, Zenon
  <2>2. <<>> \in Seq(Byte)
    OBVIOUS
  <2> QED BY <2>1, <2>2, <1>5, <1>6, Zenon
<1>10. /\ q \in Nat /\ q <= Len(body) /\ (Len(body) < Word => q = Len(body))
       /\ cut \in Seq(Byte) /\ Len(cut) = q /\ \A i \in 1 .. q : cut[i] = body[i]
  <2>1. Len(body) \in Nat /\ Word \in Nat /\ Word > 0
    BY <1>9, WordFacts
  <2>2. Len(body) \div Word \in Nat /\ q \in Nat /\ Len(body) = Word * (Len(body) \div Word) + q
    BY <2>1, Division
  <2>3. Word * (Len(body) \div Word) \in Nat
    <3>1. \A a, b \in Nat : a * b \in Nat
      BY SMTT(30)
    <3> QED BY <3>1, <2>1, <2>2
  <2>4. Len(body) < Word => q = Len(body)
    BY <2>1, SmallRemainder
  <2> HIDE DEF q
  <2>5. q <= Len(body)
    BY <2>1, <2>2, <2>3
  <2> QED BY <2>2, <2>4, <2>5, <1>9
<1>11. got = decode_route_add_payload(cut)
  <2> DEFINE R == Received(make_route_add_binary(ints))
             cmd == [cmd_id |-> ROUTE_ADD, fields |-> DecodeFields(cut), raw_payload |-> cut]
  <2>1. R = Ok(cmd)
    BY <1>1, <1>9, CommandCut DEF Received, CmdIds
  <2>2. cmd.raw_payload = cut
    OBVIOUS
  <2> HIDE DEF cmd, cut
  <2>3. R.ok /\ R.val = cmd
    BY <2>1 DEF Ok
  <2> HIDE DEF R
  <2> QED BY <2>2, <2>3 DEF AndThen, R
<1> HIDE DEF got, cut, q
<1>12. CASE q < 3
  <2>1. ~got.ok
    BY <1>10, <1>11, <1>12 DEF decode_route_add_payload, Err
  <2>2. payload.ok => ~(Len(body) < Word)
    <3>1. Len(head \o c) = Len(head) + Len(c)
      BY <1>2, <1>8, JoinedLen, Zenon
    <3>2. Len(c) \in Nat
      BY <1>2
    <3>3. payload.ok => Len(body) = Len(head) + Len(c)
      BY <3>1, <1>5, Zenon
    <3> QED BY <3>2, <3>3, <1>8, <1>10, <1>12
  <2> QED BY <2>1, <2>2, <1>7 DEF got, payload
<1>13. CASE q >= 3
  <2>1. payload.ok
    BY <1>6, <1>10, <1>13
  <2>2. body = head \o c /\ n < Word /\ \A i \in DOMAIN ints : PrefixesValid(ints[i].prefixes)
    BY <2>1, <1>5
  <2>3. /\ Len(body) = 3 + Len(c)
        /\ At(body, 0, t) /\ At(body, 1, w) /\ At(body, 3, c)
    <3>1. Len(head \o c) = Len(head) + Len(c)
      BY <1>2, <1>8, JoinedLen
    <3>2. At(head \o c, 0, t) /\ At(head \o c, 1, w)
      BY <1>2, <1>3, <1>4, <1>8, AtKept
    <3>3. At(head \o c, Len(head), c)
      BY <1>2, <1>8, AtEnd
    <3> QED BY <3>1, <3>2, <3>3, <2>2, <1>8
  <2>4. cut[1] = INTERFACE_ROUTE
    <3>1. body[0 + 1] = t[1]
      BY <2>3, <1>3 DEF At
    <3> QED BY <3>1, <1>3, <1>10, <1>13
  <2>5. read_be16(cut, 1) = n
    <3>1. At(cut, 1, w)
      <4>1. ASSUME NEW i \in 1 .. Len(w) PROVE cut[1 + i] = w[i]
        <5>1. body[1 + i] = w[i]
          BY <2>3 DEF At
        <5>2. 1 + i \in 1 .. q
          BY <1>4, <1>10, <1>13
        <5> QED BY <5>1, <5>2, <1>10
      <4>2. 1 + Len(w) <= Len(cut)
        BY <1>4, <1>10, <1>13
      <4> QED BY <4>1, <4>2 DEF At
    <3>2. n \in 0 .. Word - 1
      BY <2>2, <1>2, WordFacts
    <3> QED BY <3>1, <3>2, At16 DEF w
  <2> DEFINE rest == Rest(cut, 3)
             r == DecodeInterfaces(rest, n)
  <2>6. /\ rest \in Seq(Byte) /\ Len(rest) = q - 3
        /\ \A i \in 1 .. Len(rest) : rest[i] = cut[3 + i]
    <3>1. rest = SubSeq(cut, 4, q)
      BY <1>10 DEF Rest, Slice
    <3> HIDE DEF rest
    <3> QED BY <3>1, <1>10, <1>13
  <2> HIDE DEF rest
  <2>7. Len(rest) <= Len(c) /\ \A i \in 1 .. Len(rest) : rest[i] = c[i]
    <3>1. Len(rest) <= Len(c)
      BY <2>3, <2>6, <1>2, <1>10
    <3>2. ASSUME NEW i \in 1 .. Len(rest) PROVE rest[i] = c[i]
      <4>1. i \in 1 .. Len(c) /\ 3 + i \in 1 .. q
        BY <3>1, <2>6, <1>2, <1>10
      <4>2. body[3 + i] = c[i]
        BY <4>1, <2>3 DEF At
      <4> QED BY <4>1, <4>2, <2>6, <1>10
    <3> QED BY <3>1, <3>2
  <2>8. (r.ok => r.val = ints) /\ (Len(rest) = Len(c) => r.ok)
    BY <2>2, <2>6, <2>7, InterfacesRead DEF c, n
  <2>9. got = r
    <3>1. ~(Len(cut) < 3 \/ cut[1] # INTERFACE_ROUTE)
      BY <2>4, <1>10, <1>13
    <3> QED BY <3>1, <2>5, <1>11 DEF decode_route_add_payload, rest
  <2>10. Len(payload.val) < Word => Len(rest) = Len(c)
    BY <2>1, <2>3, <2>6, <1>2, <1>7, <1>10
  <2> HIDE DEF r
  <2> QED BY <2>8, <2>9, <2>10 DEF got, payload
<1> QED BY <1>10, <1>12, <1>13

-----------------------------------------------------------------------------
(* Commands of other processes.                                             *)

\* What was seen of the last command depends on nothing else.
LEMMA CommandKept ==
  ASSUME CommandArrives, UNCHANGED tool
  PROVE  CommandArrives'
BY DEF CommandArrives

\* A command leaves behind what was seen of it.
LEMMA Observed ==
  ASSUME NEW k, NEW seen, ToolDid(k, seen)
  PROVE  tool'.seen = seen
BY DEF ToolDid

\* Every command of another process arrives.
LEMMA CommandStep ==
  ASSUME CommandArrives, [Next]_vars
  PROVE  CommandArrives'
<1>1. CASE UNCHANGED tool
  BY <1>1, CommandKept
<1>2. ASSUME NEW p \in ToolAdds, ToolAdd(p) PROVE CommandArrives'
  <2> DEFINE parsed == AndThen(Received(make_route_add(p)), parse_route_add)
             did == handle_route_add(kernel, parsed.val)
             ok == did.result.ok
             seen == [kind |-> "add", asked |-> p, parsed |-> parsed.val,
                      status |-> StatusSeen(ok), ok |-> ok]
             none == "no add"
             unseen == [kind |-> none, asked |-> p]
  <2>1. (parsed.ok => parsed.val = p) /\ (~parsed.ok => p.prefix_len > MAX_MASK \/ p.if_name = <<>>)
    BY ToolAssumption, RouteAddArrives
  <2>2. (StatusSeen(ok) = 0) <=> ok
    BY StatusArrives
  <2>3. CASE parsed.ok
    <3>1. RoutesAre(did.k.fib, seen)
      BY <1>2, <2>3 DEF ToolAdd
    <3>2. tool'.seen = seen
      <4> HIDE DEF seen, did
      <4> QED BY <3>1, Observed DEF RoutesAre
    <3> HIDE DEF parsed, ok
    <3>3. /\ tool'.seen.kind = "add" /\ tool'.seen.asked = p /\ tool'.seen.parsed = parsed.val
          /\ tool'.seen.status = StatusSeen(ok) /\ tool'.seen.ok = ok
      BY <3>2
    <3> HIDE DEF seen
    <3> QED BY <2>1, <2>2, <2>3, <3>3 DEF CommandArrives
  <2>4. CASE ~parsed.ok
    <3>1. ToolDid(kernel, unseen)
      BY <1>2, <2>4 DEF ToolAdd
    <3>2. tool'.seen = unseen
      <4> HIDE DEF unseen
      <4> QED BY <3>1, Observed
    <3> HIDE DEF parsed, none
    <3>3. tool'.seen.kind = none /\ tool'.seen.asked = p
      BY <3>2
    <3> QED BY <2>1, <2>4, <3>3 DEF CommandArrives, none
  <2> QED BY <2>3, <2>4
<1>3. ASSUME NEW p \in ToolDels, ToolDel(p) PROVE CommandArrives'
  <2> DEFINE parsed == AndThen(Received(make_route_del(p)), parse_route_del)
             did == handle_route_del(kernel, parsed.val)
             ok == did.result.ok
             seen == [kind |-> "del", asked |-> p, parsed |-> parsed.val,
                      status |-> StatusSeen(ok), ok |-> ok]
             none == "no del"
             unseen == [kind |-> none, asked |-> p]
  <2>1. (parsed.ok => parsed.val = p) /\ (~parsed.ok => p.prefix_len > MAX_MASK)
    BY ToolAssumption, RouteDelArrives
  <2>2. (StatusSeen(ok) = 0) <=> ok
    BY StatusArrives
  <2>3. CASE parsed.ok
    <3>1. RoutesAre(did.k.fib, seen)
      BY <1>3, <2>3 DEF ToolDel
    <3>2. tool'.seen = seen
      <4> HIDE DEF seen, did
      <4> QED BY <3>1, Observed DEF RoutesAre
    <3> HIDE DEF parsed, ok
    <3>3. /\ tool'.seen.kind = "del" /\ tool'.seen.asked = p /\ tool'.seen.parsed = parsed.val
          /\ tool'.seen.status = StatusSeen(ok) /\ tool'.seen.ok = ok
      BY <3>2
    <3> HIDE DEF seen
    <3> QED BY <2>1, <2>2, <2>3, <3>3 DEF CommandArrives
  <2>4. CASE ~parsed.ok
    <3>1. ToolDid(kernel, unseen)
      BY <1>3, <2>4 DEF ToolDel
    <3>2. tool'.seen = unseen
      <4> HIDE DEF unseen
      <4> QED BY <3>1, Observed
    <3> HIDE DEF parsed, none
    <3>3. tool'.seen.kind = none /\ tool'.seen.asked = p
      BY <3>2
    <3> QED BY <2>1, <2>4, <3>3 DEF CommandArrives, none
  <2> QED BY <2>3, <2>4
<1>4. ASSUME NEW is \in ToolPayloads, ToolPayload(is) PROVE CommandArrives'
  <2> DEFINE got == AndThen(Received(make_route_add_binary(is)),
                            LAMBDA cmd : decode_route_add_payload(cmd.raw_payload))
             payload == encode_route_add_payload(is)
             did == handle_route_add_payload(kernel, got.val)
             resp == decode_route_add_binary_response(encode_route_add_binary_response(did.resp)).val
             seen == [kind |-> "payload", asked |-> is, got |-> got.val,
                      before |-> kernel, after |-> did.k, resp |-> resp]
             none == "no payload"
             unseen == [kind |-> none, asked |-> is]
  <2>1. (got.ok => got.val = is) /\ (~got.ok => ~(payload.ok /\ Len(payload.val) < Word))
    BY ToolAssumption, PayloadArrives
  <2>2. CASE got.ok
    <3>1. RoutesAre(did.k.fib, seen)
      BY <1>4, <2>2 DEF ToolPayload
    <3>2. tool'.seen = seen
      <4> HIDE DEF seen, did
      <4> QED BY <3>1, Observed DEF RoutesAre
    <3> HIDE DEF got, did, resp
    <3>3. tool'.seen.kind = "payload" /\ tool'.seen.asked = is /\ tool'.seen.got = got.val
      BY <3>2
    <3> HIDE DEF seen
    <3> QED BY <2>1, <2>2, <3>3 DEF CommandArrives
  <2>3. CASE ~got.ok
    <3>1. ToolDid(kernel, unseen)
      BY <1>4, <2>3 DEF ToolPayload
    <3>2. tool'.seen = unseen
      <4> HIDE DEF unseen
      <4> QED BY <3>1, Observed
    <3> HIDE DEF got, none
    <3>3. tool'.seen.kind = none /\ tool'.seen.asked = is
      BY <3>2
    <3> QED BY <2>1, <2>3, <3>3 DEF CommandArrives, none
  <2> QED BY <2>2, <2>3
<1>5. ASSUME NEW p, ToolReplace(p) PROVE CommandArrives'
  BY <1>5 DEF ToolReplace, RoutesAre, ToolDid, NothingSeen, CommandArrives
<1>6. ASSUME ToolList PROVE CommandArrives'
  <2>1. tool'.seen.kind = "list"
    BY <1>6 DEF ToolList, ToolDid
  <2> QED BY <2>1 DEF CommandArrives
<1>7. ASSUME NEW name, ToolShow(name) PROVE CommandArrives'
  <2>1. tool'.seen.kind = "show"
    BY <1>7 DEF ToolShow, ToolDid
  <2> QED BY <2>1 DEF CommandArrives
<1>8. ASSUME NEW name, LinkGone(name) PROVE CommandArrives'
  <2>1. tool'.seen.kind = "nothing"
    BY <1>8 DEF LinkGone, ToolDid, NothingSeen
  <2> QED BY <2>1 DEF CommandArrives
<1>9. ToolStep \/ UNCHANGED tool
  BY DEF Next, vars, processRequest, ClientStep, nb_connect, ConnectFails, nb_send_all, SendFails,
         nb_recv_frame, RecvFails, ServerStep, ServerRead, ServerDecode, ServerAdd, ServerReply,
         ServerDies, StrayBytes
<1> QED BY <1>1, <1>2, <1>3, <1>4, <1>5, <1>6, <1>7, <1>8, <1>9 DEF ToolStep

\* CommandArrives: commands of other processes arrive as they were given,
\* with the status that is the kernel's, and are refused only where the
\* formats cannot carry them.
THEOREM CommandsArrive == Spec => []CommandArrives
<1>1. Init => CommandArrives
  <2>1. ASSUME Init PROVE CommandArrives
    <3>1. tool.seen.kind = "nothing"
      BY <2>1 DEF Init, NothingSeen
    <3> QED BY <3>1 DEF CommandArrives
  <2> QED BY <2>1
<1>2. CommandArrives /\ [Next]_vars => CommandArrives'
  BY CommandStep
<1> QED BY <1>1, <1>2, PTL DEF Spec
=============================================================================
