------------------------- MODULE ProcListenerProofs -------------------------
(***************************************************************************)
(* Proofs about ProcListener, for any channel, kernel buffer and length of *)
(* the datagrams.                                                          *)
(***************************************************************************)
EXTENDS ProcListener, Integers, SequenceTheorems, WellFoundedInduction, TLAPS

-----------------------------------------------------------------------------
(***************************************************************************)
(* A set of numbers has a least one.                                       *)
(***************************************************************************)
Less == {ss \in Nat \X Nat : ss[1] < ss[2]}

LEMMA LeastOf ==
  ASSUME NEW T \in SUBSET Nat, T # {}
  PROVE  \E x \in T : \A y \in T : x <= y
<1>1. IsWellFoundedOn(Less, Nat)
  BY NatLessThanWellFounded, Zenon DEF OpToRel, Less
<1>2. PICK x \in T : \A y \in T : ~ (<<y, x>> \in Less)
  BY <1>1, WFMin
<1>3. ASSUME NEW y \in T, y < x PROVE FALSE
  <2>1. <<y, x>> \in Nat \X Nat
    BY Zenon
  <2>2. <<y, x>>[1] < <<y, x>>[2]
    BY <1>3
  <2>3. <<y, x>> \in Less
    BY <2>1, <2>2, Zenon DEF Less
  <2> QED BY <1>2, <2>3
<1>4. \A y \in T : x <= y
  BY <1>3
<1> QED BY <1>4

-----------------------------------------------------------------------------
(***************************************************************************)
(* FlattenSeq is defined by a recursion over the length: the function that *)
(* recursion asks for exists and is unique, and says what happens when a   *)
(* sequence joins at the end or leaves at the front.                       *)
(***************************************************************************)
Unrolls(ss, g) ==
  g = [i \in 1..Len(ss) |-> IF i = 1 THEN ss[i] ELSE g[i - 1] \o ss[i]]

LEMMA FlattenUnrolls ==
  ASSUME NEW ss
  PROVE  FlattenSeq(ss) = IF Len(ss) = 0 THEN ss ELSE (CHOOSE g : Unrolls(ss, g))[Len(ss)]
BY Zenon DEF FlattenSeq, Unrolls

\* The recursion up to a length.
UnrollsTo(ss, S, n, g) ==
  g \in [1..n -> Seq(S)] /\ \A i \in 1..n : g[i] = IF i = 1 THEN ss[i] ELSE g[i - 1] \o ss[i]

LEMMA UnrollingExists ==
  ASSUME NEW S, NEW ss \in Seq(Seq(S))
  PROVE  \E g \in [1..Len(ss) -> Seq(S)] : Unrolls(ss, g)
<1> DEFINE bad == {n \in 0..Len(ss) : ~ \E g : UnrollsTo(ss, S, n, g)}
<1>1. Len(ss) \in Nat /\ \A i \in 1..Len(ss) : ss[i] \in Seq(S)
  BY LenProperties, ElementOfSeq
<1>2. bad = {}
  <2> SUFFICES ASSUME bad # {} PROVE FALSE
    OBVIOUS
  <2>1. PICK n \in bad : \A m \in bad : n <= m
    <3>1. bad \in SUBSET Nat
      BY <1>1
    <3> HIDE DEF bad
    <3> QED BY <3>1, LeastOf
  <2>2. n \in 0..Len(ss) /\ n \in Nat /\ ~ \E g : UnrollsTo(ss, S, n, g)
    BY <1>1
  <2>3. CASE n = 0
    <3> DEFINE g == [i \in 1..0 |-> <<>>]
    <3>1. UnrollsTo(ss, S, 0, g)
      <4>1. 1..0 = {}
        OBVIOUS
      <4> QED BY <4>1 DEF UnrollsTo
    <3> QED BY <2>2, <2>3, <3>1
  <2>4. CASE n # 0
    <3>1. n - 1 \in 0..Len(ss) /\ n - 1 \notin bad
      <4>1. n - 1 \in 0..Len(ss) /\ ~(n <= n - 1)
        BY <1>1, <2>2, <2>4
      <4> HIDE DEF bad
      <4> QED BY <2>1, <4>1
    <3>2. PICK h : UnrollsTo(ss, S, n - 1, h)
      BY <3>1
    <3> DEFINE g == [i \in 1..n |-> IF i = 1 THEN ss[i] ELSE h[i - 1] \o ss[i]]
    <3>3. ASSUME NEW i \in 1..n
          PROVE  /\ i \in 1..Len(ss) /\ (i # 1 => i - 1 \in 1..n - 1 /\ i - 1 \in 1..n)
      BY <1>1, <2>2
    <3>4. g \in [1..n -> Seq(S)]
      <4>1. ASSUME NEW i \in 1..n, i # 1 PROVE h[i - 1] \o ss[i] \in Seq(S)
        <5>1. h[i - 1] \in Seq(S) /\ ss[i] \in Seq(S)
          BY <1>1, <3>2, <3>3, <4>1 DEF UnrollsTo
        <5> QED BY <5>1, ConcatProperties
      <4>2. \A i \in 1..n : ss[i] \in Seq(S)
        BY <1>1, <3>3
      <4> QED BY <4>1, <4>2
    <3>5. ASSUME NEW i \in 1..n - 1 PROVE g[i] = h[i]
      <4>1. i \in 1..n
        BY <2>2
      <4> QED BY <3>2, <4>1 DEF UnrollsTo
    <3>6. ASSUME NEW i \in 1..n
          PROVE  g[i] = IF i = 1 THEN ss[i] ELSE g[i - 1] \o ss[i]
      <4>1. i # 1 => g[i - 1] = h[i - 1]
        BY <3>3, <3>5
      <4>2. g[i] = IF i = 1 THEN ss[i] ELSE h[i - 1] \o ss[i]
        OBVIOUS
      <4> HIDE DEF g
      <4> QED BY <4>1, <4>2
    <3> HIDE DEF g
    <3>7. UnrollsTo(ss, S, n, g)
      BY <3>4, <3>6 DEF UnrollsTo
    <3> QED BY <2>2, <3>7
  <2> QED BY <2>3, <2>4
<1>3. PICK g : UnrollsTo(ss, S, Len(ss), g)
  BY <1>1, <1>2
<1>4. g \in [1..Len(ss) -> Seq(S)] /\ Unrolls(ss, g)
  BY <1>3 DEF UnrollsTo, Unrolls
<1> QED BY <1>4

Agree(ss, tt, n) == \A i \in 1..n : ss[i] = tt[i]

\* The recursions of two sequences agree as long as the sequences do.
LEMMA UnrollingIsUnique ==
  ASSUME NEW ss, NEW tt, NEW n \in Nat, Len(ss) \in Nat, Len(tt) \in Nat,
         n <= Len(ss), n <= Len(tt), Agree(ss, tt, n),
         NEW g, Unrolls(ss, g), NEW h, Unrolls(tt, h)
  PROVE  Agree(g, h, n)
<1> DEFINE bad == {i \in 1..n : g[i] # h[i]}
<1>1. \A i \in 1..n : /\ g[i] = IF i = 1 THEN ss[i] ELSE g[i - 1] \o ss[i]
                      /\ h[i] = IF i = 1 THEN tt[i] ELSE h[i - 1] \o tt[i]
  <2>1. \A i \in 1..n : i \in 1..Len(ss) /\ i \in 1..Len(tt)
    OBVIOUS
  <2>2. \A i \in 1..Len(ss) : g[i] = IF i = 1 THEN ss[i] ELSE g[i - 1] \o ss[i]
    BY DEF Unrolls
  <2>3. \A i \in 1..Len(tt) : h[i] = IF i = 1 THEN tt[i] ELSE h[i - 1] \o tt[i]
    BY DEF Unrolls
  <2> QED BY <2>1, <2>2, <2>3
<1>2. SUFFICES ASSUME bad # {} PROVE FALSE
  BY <1>2 DEF Agree
<1>3. PICK i \in bad : \A j \in bad : i <= j
  <2>1. bad \in SUBSET Nat
    OBVIOUS
  <2> HIDE DEF bad
  <2> QED BY <1>2, <2>1, LeastOf
<1>4. i \in 1..n /\ g[i] # h[i]
  OBVIOUS
<1>5. i # 1
  BY <1>1, <1>4 DEF Agree
<1>6. i - 1 \in 1..n /\ ~(i <= i - 1)
  BY <1>4, <1>5
<1>7. i - 1 \notin bad
  <2> HIDE DEF bad
  <2> QED BY <1>3, <1>6
<1>8. g[i - 1] = h[i - 1]
  BY <1>6, <1>7
<1> HIDE DEF bad
<1> QED BY <1>1, <1>4, <1>5, <1>8 DEF Agree

LEMMA FlattenIs ==
  ASSUME NEW S, NEW ss \in Seq(Seq(S)), ss # <<>>, NEW g, Unrolls(ss, g)
  PROVE  FlattenSeq(ss) = g[Len(ss)]
<1> DEFINE c == CHOOSE h : Unrolls(ss, h)
<1>1. Unrolls(ss, c)
  BY Zenon
<1>2. Len(ss) \in Nat \ {0}
  BY EmptySeq
<1>3. FlattenSeq(ss) = c[Len(ss)]
  <2>1. Len(ss) # 0
    BY <1>2
  <2> QED BY <2>1, FlattenUnrolls, Zenon
<1> HIDE DEF c
<1>4. Agree(c, g, Len(ss))
  <2>1. Len(ss) \in Nat /\ Len(ss) <= Len(ss) /\ Agree(ss, ss, Len(ss))
    BY <1>2 DEF Agree
  <2> QED BY <1>1, <2>1, UnrollingIsUnique
<1>5. Len(ss) \in 1..Len(ss)
  BY <1>2
<1> QED BY <1>3, <1>4, <1>5 DEF Agree

LEMMA FlattenEmpty ==
  FlattenSeq(<<>>) = <<>>
<1>1. Len(<<>>) = 0
  OBVIOUS
<1> QED BY <1>1, FlattenUnrolls, Zenon

LEMMA FlattenType ==
  ASSUME NEW S, NEW ss \in Seq(Seq(S))
  PROVE  FlattenSeq(ss) \in Seq(S)
<1>1. CASE ss = <<>>
  BY <1>1, FlattenEmpty, EmptySeq
<1>2. CASE ss # <<>>
  <2>1. PICK g \in [1..Len(ss) -> Seq(S)] : Unrolls(ss, g)
    BY UnrollingExists
  <2>2. Len(ss) \in 1..Len(ss)
    BY <1>2, EmptySeq
  <2>3. FlattenSeq(ss) = g[Len(ss)]
    BY <1>2, <2>1, FlattenIs
  <2> QED BY <2>2, <2>3
<1> QED BY <1>1, <1>2

\* What joins at the end is heard last.
LEMMA FlattenAppend ==
  ASSUME NEW S, NEW ss \in Seq(Seq(S)), NEW e \in Seq(S)
  PROVE  FlattenSeq(Append(ss, e)) = FlattenSeq(ss) \o e
<1> DEFINE aa == Append(ss, e)
           n  == Len(ss)
<1>1. /\ aa \in Seq(Seq(S)) /\ aa # <<>> /\ Len(aa) = n + 1 /\ n \in Nat
      /\ aa[n + 1] = e /\ \A i \in 1..n : aa[i] = ss[i]
  BY AppendProperties, LenProperties
<1> HIDE DEF aa
<1>2. PICK h \in [1..Len(aa) -> Seq(S)] : Unrolls(aa, h)
  BY <1>1, UnrollingExists
<1>3. FlattenSeq(aa) = h[n + 1]
  BY <1>1, <1>2, FlattenIs
<1>4. h[n + 1] = IF n + 1 = 1 THEN aa[n + 1] ELSE h[n] \o aa[n + 1]
  <2>1. \A i \in 1..Len(aa) : h[i] = IF i = 1 THEN aa[i] ELSE h[i - 1] \o aa[i]
    BY <1>2 DEF Unrolls
  <2>2. n + 1 \in 1..Len(aa) /\ (n + 1) - 1 = n
    BY <1>1
  <2> QED BY <2>1, <2>2
<1>5. CASE ss = <<>>
  <2>1. n = 0
    BY <1>5
  <2>2. FlattenSeq(aa) = e
    BY <1>1, <1>3, <1>4, <2>1
  <2>3. FlattenSeq(ss) \o e = e
    BY <1>5, FlattenEmpty, ConcatEmptySeq
  <2> QED BY <2>2, <2>3 DEF aa
<1>6. CASE ss # <<>>
  <2>1. PICK g \in [1..n -> Seq(S)] : Unrolls(ss, g)
    BY UnrollingExists
  <2>2. FlattenSeq(ss) = g[n]
    BY <1>6, <2>1, FlattenIs
  <2>3. n \in 1..n /\ n <= Len(aa) /\ Len(aa) \in Nat
    BY <1>1, <1>6, EmptySeq
  <2>4. Agree(h, g, n)
    <3>1. Agree(aa, ss, n)
      BY <1>1 DEF Agree
    <3>2. /\ n \in Nat /\ Len(aa) \in Nat /\ Len(ss) \in Nat
          /\ n <= Len(aa) /\ n <= Len(ss)
      BY <1>1, <2>3
    <3>3. Unrolls(aa, h) /\ Unrolls(ss, g)
      BY <1>2, <2>1
    <3> QED BY <3>1, <3>2, <3>3, UnrollingIsUnique
  <2>5. h[n + 1] = h[n] \o e
    BY <1>1, <1>4, <2>3
  <2> QED BY <1>3, <2>2, <2>3, <2>4, <2>5 DEF aa, Agree
<1> QED BY <1>5, <1>6

\* Named, so that the provers find the instance of it they need.
Associates(S) == \A a, b, c \in Seq(S) : (a \o b) \o c = a \o (b \o c)

LEMMA Regroup ==
  \A S : Associates(S)
BY ConcatAssociative, Zenon DEF Associates

\* What leaves at the front is heard first.
LEMMA FlattenHead ==
  ASSUME NEW S, NEW ss \in Seq(Seq(S)), ss # <<>>
  PROVE  FlattenSeq(ss) = Head(ss) \o FlattenSeq(Tail(ss))
<1>0. Associates(S)
  BY Regroup, Zenon
<1> DEFINE tt == Tail(ss)
           n  == Len(tt)
<1>1. /\ tt \in Seq(Seq(S)) /\ n \in Nat /\ Len(ss) = n + 1
      /\ Head(ss) = ss[1] /\ \A i \in 1..n : tt[i] = ss[i + 1]
  <2>1. Len(ss) \in Nat \ {0}
    BY EmptySeq
  <2>2. Head(ss) = ss[1]
    OBVIOUS
  <2> QED BY <2>1, <2>2, HeadTailProperties
<1> HIDE DEF tt
<1>2. PICK g \in [1..n + 1 -> Seq(S)] : Unrolls(ss, g)
  BY <1>1, UnrollingExists
<1>3. FlattenSeq(ss) = g[n + 1]
  BY <1>1, <1>2, FlattenIs
<1>4. \A i \in 1..n + 1 : g[i] = IF i = 1 THEN ss[i] ELSE g[i - 1] \o ss[i]
  BY <1>1, <1>2 DEF Unrolls
<1>5. g[1] = Head(ss) /\ Head(ss) \in Seq(S)
  <2>1. 1 \in 1..n + 1
    BY <1>1
  <2>2. g[1] = Head(ss)
    BY <1>1, <1>4, <2>1
  <2> QED BY <1>2, <2>1, <2>2
<1>6. CASE tt = <<>>
  <2>1. n = 0
    BY <1>6
  <2>2. FlattenSeq(ss) = Head(ss)
    BY <1>3, <1>5, <2>1
  <2>3. Head(ss) \o FlattenSeq(tt) = Head(ss)
    BY <1>5, <1>6, FlattenEmpty, ConcatEmptySeq
  <2> QED BY <2>2, <2>3 DEF tt
<1>7. CASE tt # <<>>
  <2>1. PICK h \in [1..n -> Seq(S)] : Unrolls(tt, h)
    BY <1>1, UnrollingExists
  <2>2. FlattenSeq(tt) = h[n]
    BY <1>1, <1>7, <2>1, FlattenIs
  <2>3. \A i \in 1..n : h[i] = IF i = 1 THEN tt[i] ELSE h[i - 1] \o tt[i]
    BY <2>1 DEF Unrolls
  <2> DEFINE bad == {i \in 1..n : g[i + 1] # Head(ss) \o h[i]}
  <2>4. bad = {}
    <3> SUFFICES ASSUME bad # {} PROVE FALSE
      OBVIOUS
    <3>1. PICK i \in bad : \A j \in bad : i <= j
      <4>1. bad \in SUBSET Nat
        BY <1>1
      <4> HIDE DEF bad
      <4> QED BY <4>1, LeastOf
    <3>2. i \in 1..n /\ i \in Nat /\ g[i + 1] # Head(ss) \o h[i]
      BY <1>1
    <3>3. i + 1 \in 1..n + 1 /\ i + 1 # 1 /\ (i + 1) - 1 = i
      BY <1>1, <3>2
    <3>4. g[i + 1] = g[i] \o tt[i]
      <4>1. g[i + 1] = g[i] \o ss[i + 1]
        BY <1>4, <3>3
      <4> QED BY <1>1, <3>2, <4>1
    <3>5. CASE i = 1
      <4>1. h[i] = tt[i]
        BY <2>3, <3>2, <3>5
      <4> HIDE DEF bad
      <4> QED BY <1>5, <3>2, <3>4, <3>5, <4>1
    <3>6. CASE i # 1
      <4>1. i - 1 \in 1..n /\ ~(i <= i - 1) /\ (i - 1) + 1 = i
        BY <1>1, <3>2, <3>6
      <4>2. i - 1 \notin bad
        <5> HIDE DEF bad
        <5> QED BY <3>1, <4>1
      <4>3. g[i] = Head(ss) \o h[i - 1]
        BY <4>1, <4>2
      <4> HIDE DEF bad
      <4>4. h[i] = h[i - 1] \o tt[i]
        BY <2>3, <3>2, <3>6
      <4>5. h[i - 1] \in Seq(S) /\ tt[i] \in Seq(S)
        <5>1. tt[i] \in Seq(S)
          BY <1>1, <3>2, ElementOfSeq
        <5> QED BY <2>1, <4>1, <5>1
      <4>6. (Head(ss) \o h[i - 1]) \o tt[i] = Head(ss) \o (h[i - 1] \o tt[i])
        <5>1. Head(ss) \in Seq(S)
          BY <1>5
        <5> QED BY <1>0, <4>5, <5>1, Zenon DEF Associates
      <4> QED BY <3>2, <3>4, <4>3, <4>4, <4>6
    <3> QED BY <3>5, <3>6
  <2>5. n \in 1..n
    BY <1>1, <1>7, EmptySeq
  <2>6. g[n + 1] = Head(ss) \o h[n]
    BY <2>4, <2>5
  <2> QED BY <1>3, <2>2, <2>6 DEF tt
<1> QED BY <1>6, <1>7

LEMMA ToSetOfConcat ==
  ASSUME NEW S, NEW s \in Seq(S), NEW t \in Seq(S)
  PROVE  ToSet(s \o t) = ToSet(s) \cup ToSet(t)
<1>1. ToSet(s) = Range(s) /\ ToSet(t) = Range(t) /\ ToSet(s \o t) = Range(s \o t)
  BY Zenon DEF ToSet, Range
<1>2. Range(s \o t) = Range(s) \cup Range(t)
  BY RangeConcatenation, Zenon
<1> QED BY <1>1, <1>2, Zenon

-----------------------------------------------------------------------------
(***************************************************************************)
(* The types, and that the listener iterates over something.               *)
(***************************************************************************)
ListenerInv ==
  /\ TypeOK
  /\ listener = "iterate" => iter # <<>>

LEMMA DatagramType ==
  /\ \A d \in Datagrams : d \in Seq(Messages) /\ Len(d) \in Nat \ {0}
  /\ \A ss \in Seq(Datagrams) : ss \in Seq(Seq(Messages))
<1>1. ASSUME NEW d \in Datagrams PROVE d \in Seq(Messages) /\ Len(d) \in Nat \ {0}
  <2>1. PICK m \in 0..MaxLength : d \in [1..m -> Messages]
    BY DEF Datagrams, SeqOf
  <2>2. m \in Nat
    BY ListenerAssumption
  <2>3. d \in Seq(Messages)
    BY <2>1, <2>2
  <2>4. d # <<>>
    BY DEF Datagrams
  <2> QED BY <2>3, <2>4, EmptySeq
<1>2. ASSUME NEW ss \in Seq(Datagrams) PROVE ss \in Seq(Seq(Messages))
  BY <1>1
<1> QED BY <1>1, <1>2

\* What an Advance leaves.
LEMMA AdvanceLeaves ==
  ASSUME ListenerInv, listener = "iterate", Advance
  PROVE  /\ iter' \in Seq(Messages) /\ Len(iter') = Len(iter) - 1
         /\ listener' \in {"recv", "iterate"}
         /\ iter' # <<>> <=> listener' = "iterate"
         /\ ToSet(iter') \subseteq ToSet(iter)
<1>1. iter \in Seq(Messages) /\ iter # <<>> /\ Len(iter) \in Nat \ {0}
  BY EmptySeq DEF ListenerInv, TypeOK
<1>2. /\ iter' \in Seq(Messages) /\ Len(iter') = Len(iter) - 1
      /\ \A i \in 1..Len(iter') : iter'[i] = iter[i + 1]
  BY <1>1, HeadTailProperties DEF Advance
<1>3. listener' \in {"recv", "iterate"} /\ (listener' = "iterate" <=> Len(iter) # 1)
  BY DEF Advance
<1>4. iter' # <<>> <=> Len(iter') # 0
  BY <1>2, EmptySeq
<1>5. ToSet(iter') \subseteq ToSet(iter)
  <2>1. ASSUME NEW m \in ToSet(iter') PROVE m \in ToSet(iter)
    <3>1. PICK i \in 1..Len(iter') : m = iter'[i]
      BY <1>2 DEF ToSet
    <3>2. i + 1 \in DOMAIN iter /\ m = iter[i + 1]
      BY <1>1, <1>2, <3>1
    <3> QED BY <3>2 DEF ToSet
  <2> QED BY <2>1
<1> QED BY <1>1, <1>2, <1>3, <1>4, <1>5

LEMMA HeadIsMessage ==
  ASSUME ListenerInv, listener = "iterate"
  PROVE  Head(iter) \in ToSet(iter)
<1>1. iter \in Seq(Messages) /\ iter # <<>> /\ Len(iter) \in Nat \ {0}
  BY EmptySeq DEF ListenerInv, TypeOK
<1>2. 1 \in DOMAIN iter /\ Head(iter) = iter[1]
  BY <1>1
<1> QED BY <1>2 DEF ToSet

LEMMA RecvTakes ==
  ASSUME ListenerInv, Recv
  PROVE  /\ iter = <<>> /\ datagrams' \in Seq(Datagrams)
         /\ Len(datagrams') = Len(datagrams) - 1
         /\ iter' \in Seq(Messages) /\ iter' # <<>>
         /\ FlattenSeq(datagrams) = iter' \o FlattenSeq(datagrams')
<1>1. datagrams \in Seq(Datagrams) /\ datagrams # <<>>
  BY DEF ListenerInv, TypeOK, Recv
<1>2. /\ iter' = Head(datagrams) /\ Head(datagrams) \in Datagrams
      /\ datagrams' = Tail(datagrams) /\ Tail(datagrams) \in Seq(Datagrams)
      /\ Len(datagrams') = Len(datagrams) - 1
  BY <1>1, HeadTailProperties DEF Recv
<1>3. iter' \in Seq(Messages) /\ iter' # <<>>
  BY <1>2, DatagramType
<1>4. datagrams \in Seq(Seq(Messages))
  BY <1>1, DatagramType
<1>5. FlattenSeq(datagrams) = Head(datagrams) \o FlattenSeq(Tail(datagrams))
  BY <1>1, <1>4, FlattenHead
<1>6. iter = <<>>
  BY DEF ListenerInv, TypeOK, Recv
<1> QED BY <1>2, <1>3, <1>5, <1>6

LEMMA TypesAreKept ==
  ASSUME ListenerInv, [Next]_vars
  PROVE  ListenerInv'
<1> USE DEF ListenerInv, TypeOK, kernel, queue, history, Points, Ended
<1>1. CASE Connect
  BY <1>1 DEF Connect
<1>2. CASE Subscribe
  BY <1>2 DEF Subscribe
<1>3. CASE Recv
  <2>1. Len(datagrams') <= Buffer
    <3>1. Len(datagrams) \in Nat /\ Buffer \in Nat
      BY ListenerAssumption, LenProperties
    <3> QED BY <1>3, <3>1, RecvTakes
  <2>2. datagrams' \in Seq(Datagrams) /\ iter' \in Seq(Messages) /\ iter' # <<>>
    BY <1>3, RecvTakes
  <2> QED BY <1>3, <2>1, <2>2 DEF Recv
<1>4. CASE RecvOverrun
  <2>1. overrun' \in BOOLEAN
    BY <1>4, Zenon DEF RecvOverrun
  <2>2. /\ UNCHANGED <<datagrams, emitted, listener, iter, queue, history>>
        /\ dropped' = dropped + 1
    BY <1>4, Zenon DEF RecvOverrun
  <2> QED BY <2>1, <2>2
<1>5. CASE RecvFails
  BY <1>5 DEF RecvFails
<1>6. CASE SkipCorrupt
  <2>1. Len(iter) \in Nat
    BY LenProperties
  <2> QED BY <1>6, <2>1 DEF SkipCorrupt
<1>7. CASE SkipNoise
  <2>1. /\ iter' \in Seq(Messages) /\ listener' \in {"recv", "iterate"}
        /\ iter' # <<>> <=> listener' = "iterate"
    BY <1>7, AdvanceLeaves DEF SkipNoise
  <2> QED BY <1>7, <2>1 DEF SkipNoise
<1>8. CASE TrySendOk
  <2>1. /\ iter' \in Seq(Messages) /\ listener' \in {"recv", "iterate"}
        /\ iter' # <<>> <=> listener' = "iterate"
    BY <1>8, AdvanceLeaves DEF TrySendOk, TryingToSend
  <2>2. channel' \in Seq({ProcEvent, Manual}) /\ Len(channel') = Len(channel) + 1
    BY <1>8, AppendProperties DEF TrySendOk
  <2>3. Len(channel') <= Depth
    BY <1>8, <2>2, LenProperties, ListenerAssumption DEF TrySendOk, Room
  <2> QED BY <1>8, <2>1, <2>2, <2>3 DEF TrySendOk
<1>9. CASE TrySendFull
  <2>1. /\ iter' \in Seq(Messages) /\ listener' \in {"recv", "iterate"}
        /\ iter' # <<>> <=> listener' = "iterate"
    BY <1>9, AdvanceLeaves DEF TrySendFull, TryingToSend
  <2> QED BY <1>9, <2>1 DEF TrySendFull
<1>10. CASE TrySendClosed
  BY <1>10 DEF TrySendClosed
<1>11. CASE Emit
  <2>1. PICK d \in Datagrams :
          /\ emitted' = emitted + Len(d)
          /\ \/ Len(datagrams) < Buffer /\ datagrams' = Append(datagrams, d)
                  /\ UNCHANGED overrun
             \/ Len(datagrams) = Buffer /\ overrun' = TRUE /\ UNCHANGED datagrams
    BY <1>11 DEF Emit
  <2>2. emitted' \in Nat
    BY <2>1, DatagramType
  <2>3. datagrams' \in Seq(Datagrams) /\ Len(datagrams') <= Buffer
    <3>1. Len(datagrams) \in Nat /\ Buffer \in Nat
      BY ListenerAssumption, LenProperties
    <3>2. /\ Append(datagrams, d) \in Seq(Datagrams)
          /\ Len(Append(datagrams, d)) = Len(datagrams) + 1
      BY AppendProperties
    <3>3. \/ Len(datagrams) < Buffer /\ datagrams' = Append(datagrams, d)
          \/ datagrams' = datagrams
      BY <2>1, Zenon
    <3>4. CASE datagrams' = datagrams
      BY <3>4
    <3>5. CASE Len(datagrams) < Buffer /\ datagrams' = Append(datagrams, d)
      <4>1. datagrams' \in Seq(Datagrams) /\ Len(datagrams') = Len(datagrams) + 1
        BY <3>2, <3>5, Zenon
      <4> QED BY <3>1, <3>5, <4>1
    <3> QED BY <3>3, <3>4, <3>5
  <2>4. overrun' \in BOOLEAN
    BY <2>1, Zenon
  <2> QED BY <1>11, <2>2, <2>3, <2>4 DEF Emit
<1>12. CASE TaskReceives
  <2>1. /\ channel' \in Seq({ProcEvent, Manual}) /\ Len(channel') = Len(channel) - 1
    BY <1>12, HeadTailProperties DEF TaskReceives
  <2>2. Len(channel') <= Depth
    BY <2>1, LenProperties, ListenerAssumption
  <2> QED BY <1>12, <2>1, <2>2 DEF TaskReceives
<1>13. CASE HandlerSends
  <2>1. channel' \in Seq({ProcEvent, Manual}) /\ Len(channel') = Len(channel) + 1
    BY <1>13, AppendProperties DEF HandlerSends
  <2>2. Len(channel') <= Depth
    BY <1>13, <2>1, LenProperties, ListenerAssumption DEF HandlerSends, Room
  <2> QED BY <1>13, <2>1, <2>2 DEF HandlerSends
<1>14. CASE TaskExits
  <2>1. channel' \in Seq({ProcEvent, Manual}) /\ Len(channel') <= Depth
    BY <1>14, ListenerAssumption, EmptySeq DEF TaskExits
  <2> QED BY <1>14, <2>1 DEF TaskExits
<1>15. CASE UNCHANGED vars
  BY <1>15 DEF vars
<1> QED
  BY <1>1, <1>2, <1>3, <1>4, <1>5, <1>6, <1>7, <1>8, <1>9, <1>10, <1>11, <1>12, <1>13,
     <1>14, <1>15 DEF Next, Run, Environment

\* The listener never holds more datagrams, nor the channel more triggers, than there is
\* room for, and it looks for a message only where there is one.
THEOREM ListenerTypes == Spec => []ListenerInv
<1>1. Init => ListenerInv
  <2>1. /\ <<>> \in Seq(Datagrams) /\ <<>> \in Seq(Messages)
        /\ <<>> \in Seq({ProcEvent, Manual}) /\ Len(<<>>) = 0
    BY EmptySeq
  <2>2. Init => overrun \in BOOLEAN
    BY Zenon DEF Init
  <2>3. Init => open \in BOOLEAN
    BY Zenon DEF Init
  <2>4. Init => /\ datagrams = <<>> /\ iter = <<>> /\ channel = <<>> /\ listener = "connect"
                /\ dropped = 0 /\ emitted = 0 /\ handled = 0 /\ corrupt = 0
    BY Zenon DEF Init
  <2> HIDE DEF Init
  <2> QED BY <2>1, <2>2, <2>3, <2>4, ListenerAssumption
          DEF ListenerInv, TypeOK, Points, Ended
<1>2. ListenerInv /\ [Next]_vars => ListenerInv'
  BY TypesAreKept
<1> QED BY <1>1, <1>2, PTL DEF Spec

-----------------------------------------------------------------------------
(***************************************************************************)
(* The counter.  A loss the kernel has noted and recv not yet reported is  *)
(* owed: the messages that were missed cover it and what was counted.      *)
(***************************************************************************)
noted == IF overrun THEN 1 ELSE 0

CountInv ==
  /\ listener \in {"connect", "subscribe"} =>
       /\ datagrams = <<>> /\ iter = <<>> /\ noted = 0
       /\ dropped = 0 /\ emitted = 0 /\ handled = 0 /\ corrupt = 0
  /\ Listening =>
       /\ dropped + noted <= missed
       /\ missed > 0 => dropped + noted > 0

LEMMA WaitingParts ==
  ASSUME ListenerInv
  PROVE  Len(iter) \in Nat /\ Len(FlattenSeq(datagrams)) \in Nat
<1>1. FlattenSeq(datagrams) \in Seq(Messages)
  BY DatagramType, FlattenType DEF ListenerInv, TypeOK
<1> QED BY <1>1, LenProperties DEF ListenerInv, TypeOK

LEMMA Counts ==
  ASSUME ListenerInv
  PROVE  /\ waiting \in Nat /\ missed \in Int /\ noted \in {0, 1}
         /\ {dropped, emitted, handled, corrupt} \subseteq Nat
<1>1. {dropped, emitted, handled, corrupt} \subseteq Nat
  BY DEF ListenerInv, TypeOK
<1> QED BY <1>1, WaitingParts DEF waiting, missed, noted

\* What each step does to the messages that wait.
LEMMA RecvKeepsWaiting ==
  ASSUME ListenerInv, Recv
  PROVE  waiting' = waiting
<1>1. datagrams' \in Seq(Datagrams) /\ iter' \in Seq(Messages) /\ iter = <<>>
  BY RecvTakes
<1>2. FlattenSeq(datagrams') \in Seq(Messages)
  BY <1>1, DatagramType, FlattenType
<1>3. Len(FlattenSeq(datagrams)) = Len(iter') + Len(FlattenSeq(datagrams'))
  BY <1>1, <1>2, RecvTakes, ConcatProperties
<1>4. Len(FlattenSeq(datagrams')) \in Nat /\ Len(iter') \in Nat
  BY <1>1, <1>2, LenProperties
<1>5. Len(iter) = 0
  BY <1>1
<1> QED BY <1>3, <1>4, <1>5 DEF waiting

LEMMA EmitAddsUp ==
  ASSUME ListenerInv, NEW d \in Datagrams
  PROVE  /\ Append(datagrams, d) \in Seq(Datagrams)
         /\ FlattenSeq(Append(datagrams, d)) = FlattenSeq(datagrams) \o d
         /\ Len(FlattenSeq(Append(datagrams, d))) = Len(FlattenSeq(datagrams)) + Len(d)
<1>1. datagrams \in Seq(Datagrams) /\ datagrams \in Seq(Seq(Messages)) /\ d \in Seq(Messages)
  BY DatagramType DEF ListenerInv, TypeOK
<1>2. FlattenSeq(Append(datagrams, d)) = FlattenSeq(datagrams) \o d
  BY <1>1, FlattenAppend
<1>3. FlattenSeq(datagrams) \in Seq(Messages)
  BY <1>1, FlattenType
<1>4. Len(FlattenSeq(datagrams) \o d) = Len(FlattenSeq(datagrams)) + Len(d)
  BY <1>1, <1>3, ConcatProperties
<1> QED BY <1>1, <1>2, <1>4, AppendProperties

LEMMA AdvanceTakesOne ==
  ASSUME ListenerInv, listener = "iterate", Advance, UNCHANGED datagrams
  PROVE  waiting' = waiting - 1 /\ Listening'
<1>1. Len(iter') = Len(iter) - 1 /\ Len(iter) \in Nat /\ listener' \in {"recv", "iterate"}
  BY AdvanceLeaves, LenProperties DEF ListenerInv, TypeOK
<1> QED BY <1>1, WaitingParts DEF waiting, Listening

LEMMA CountsAreKept ==
  ASSUME ListenerInv, ListenerInv', CountInv, [Next]_vars
  PROVE  CountInv'
<1>1. /\ waiting \in Nat /\ missed \in Int /\ noted \in {0, 1}
      /\ dropped \in Nat /\ emitted \in Nat /\ handled \in Nat /\ corrupt \in Nat
  BY Counts
<1>2. missed = emitted - handled - corrupt - waiting
      /\ missed' = emitted' - handled' - corrupt' - waiting'
  BY DEF missed
<1>3. ASSUME UNCHANGED <<datagrams, overrun, iter, dropped, emitted, handled, corrupt>>
      PROVE  /\ missed' = missed /\ noted' = noted
             /\ listener' = listener => CountInv'
  <2>1. missed' = missed /\ noted' = noted
    <3>1. emitted' = emitted /\ waiting' = waiting
      BY <1>3, Zenon DEF waiting
    <3> QED BY <1>3, <3>1, Zenon DEF missed, noted
  <2>2. /\ datagrams' = datagrams /\ iter' = iter /\ dropped' = dropped
        /\ emitted' = emitted /\ handled' = handled /\ corrupt' = corrupt
    BY <1>3
  <2> QED BY <2>1, <2>2, Zenon DEF CountInv, Listening
<1> USE DEF kernel, queue, history
<1>4. CASE Connect
  <2>1. /\ UNCHANGED <<datagrams, overrun, iter, dropped, emitted, handled, corrupt>>
        /\ listener' \in {"subscribe", "failed"} /\ listener = "connect"
    BY <1>4, Zenon DEF Connect
  <2>2. noted' = noted
    BY <1>3, <2>1
  <2> QED BY <2>1, <2>2 DEF CountInv, Listening
<1>5. CASE Subscribe
  <2>1. /\ UNCHANGED <<datagrams, overrun, iter, dropped, emitted, handled, corrupt>>
        /\ listener' \in {"recv", "failed"} /\ listener = "subscribe"
    BY <1>5, Zenon DEF Subscribe
  <2>2. /\ datagrams = <<>> /\ iter = <<>> /\ noted = 0
        /\ dropped = 0 /\ emitted = 0 /\ handled = 0 /\ corrupt = 0
    BY <2>1 DEF CountInv
  <2>3. waiting = 0
    BY <2>2, FlattenEmpty DEF waiting
  <2>4. missed = 0
    BY <1>2, <2>2, <2>3
  <2>5. missed' = missed /\ noted' = noted
    BY <1>3, <2>1
  <2> QED BY <2>1, <2>2, <2>4, <2>5 DEF CountInv
<1>6. CASE Recv
  <2>1. /\ overrun' = overrun /\ dropped' = dropped /\ emitted' = emitted
        /\ handled' = handled /\ corrupt' = corrupt
        /\ listener = "recv" /\ listener' = "iterate"
    BY <1>6, Zenon DEF Recv
  <2>2. waiting' = waiting
    BY <1>6, RecvKeepsWaiting
  <2>3. missed' = missed /\ noted' = noted
    BY <2>1, <2>2, Zenon DEF missed, noted
  <2> QED BY <1>1, <2>1, <2>3 DEF CountInv, Listening
<1>7. CASE RecvOverrun
  <2>1. /\ datagrams' = datagrams /\ iter' = iter /\ dropped' = dropped + 1
        /\ emitted' = emitted /\ handled' = handled /\ corrupt' = corrupt
        /\ listener = "recv" /\ listener' = listener
    BY <1>7, Zenon DEF RecvOverrun
  <2>2. noted = 1 /\ noted' = 0
    BY <1>7, Zenon DEF RecvOverrun, noted
  <2>3. missed' = missed
    BY <2>1, Zenon DEF missed, waiting
  <2> QED BY <1>1, <2>1, <2>2, <2>3 DEF CountInv, Listening
<1>8. CASE RecvFails
  <2>1. listener' = "failed"
    BY <1>8 DEF RecvFails
  <2> QED BY <2>1 DEF CountInv, Listening
<1>9. CASE SkipCorrupt
  <2>1. /\ datagrams' = datagrams /\ overrun' = overrun /\ iter' = <<>>
        /\ dropped' = dropped /\ emitted' = emitted /\ handled' = handled
        /\ corrupt' = corrupt + Len(iter) /\ listener = "iterate" /\ listener' = "recv"
    BY <1>9, Zenon DEF SkipCorrupt
  <2>2. noted' = noted
    BY <2>1, Zenon DEF noted
  <2>3. Len(iter) \in Nat /\ Len(FlattenSeq(datagrams)) \in Nat
    BY WaitingParts
  <2>4. waiting' = waiting - Len(iter)
    BY <2>1, <2>3 DEF waiting
  <2>5. missed' = missed
    BY <1>1, <1>2, <2>1, <2>3, <2>4
  <2> QED BY <1>1, <2>1, <2>2, <2>5 DEF CountInv, Listening
<1>10. ASSUME listener = "iterate", Advance, UNCHANGED <<datagrams, overrun, emitted, corrupt>>
       PROVE  /\ noted' = noted /\ waiting' = waiting - 1 /\ Listening /\ Listening'
              /\ emitted' = emitted /\ corrupt' = corrupt /\ listener' # "subscribe"
              /\ listener' # "connect"
  <2>1. noted' = noted
    BY <1>10, Zenon DEF noted
  <2>2. waiting' = waiting - 1 /\ Listening'
    BY <1>10, AdvanceTakesOne
  <2> QED BY <1>10, <2>1, <2>2 DEF Listening
<1>11. CASE SkipNoise \/ TrySendOk
  <2>1. /\ listener = "iterate" /\ Advance /\ UNCHANGED <<datagrams, overrun, emitted, corrupt>>
        /\ handled' = handled + 1 /\ dropped' = dropped
    BY <1>11, Zenon DEF SkipNoise, TrySendOk, TryingToSend
  <2>2. /\ noted' = noted /\ waiting' = waiting - 1 /\ Listening /\ Listening'
        /\ emitted' = emitted /\ corrupt' = corrupt /\ listener' # "subscribe"
        /\ listener' # "connect"
    BY <1>10, <2>1
  <2>3. missed' = missed
    BY <1>1, <1>2, <2>1, <2>2
  <2> QED BY <1>1, <2>1, <2>2, <2>3 DEF CountInv
<1>12. CASE TrySendFull
  <2>1. /\ listener = "iterate" /\ Advance /\ UNCHANGED <<datagrams, overrun, emitted, corrupt>>
        /\ handled' = handled /\ dropped' = dropped + 1
    BY <1>12, Zenon DEF TrySendFull, TryingToSend
  <2>2. /\ noted' = noted /\ waiting' = waiting - 1 /\ Listening /\ Listening'
        /\ emitted' = emitted /\ corrupt' = corrupt /\ listener' # "subscribe"
        /\ listener' # "connect"
    BY <1>10, <2>1
  <2>3. missed' = missed + 1
    BY <1>1, <1>2, <2>1, <2>2
  <2> QED BY <1>1, <2>1, <2>2, <2>3 DEF CountInv
<1>13. CASE TrySendClosed
  <2>1. listener' = "closed"
    BY <1>13 DEF TrySendClosed
  <2> QED BY <2>1 DEF CountInv, Listening
<1>14. CASE Emit
  <2>1. /\ iter' = iter /\ dropped' = dropped /\ handled' = handled /\ corrupt' = corrupt
        /\ Listening /\ listener' = listener
    BY <1>14, Zenon DEF Emit
  <2>2. PICK d \in Datagrams :
          /\ emitted' = emitted + Len(d)
          /\ \/ Len(datagrams) < Buffer /\ datagrams' = Append(datagrams, d)
                  /\ UNCHANGED overrun
             \/ Len(datagrams) = Buffer /\ overrun' = TRUE /\ UNCHANGED datagrams
    BY <1>14 DEF Emit
  <2>3. Len(d) \in Nat \ {0}
    BY DatagramType
  <2>4. CASE datagrams' = Append(datagrams, d) /\ overrun' = overrun
    <3>1. noted' = noted
      BY <2>4, Zenon DEF noted
    <3>2. Len(FlattenSeq(datagrams')) = Len(FlattenSeq(datagrams)) + Len(d)
      BY <2>4, EmitAddsUp
    <3>3. Len(iter) \in Nat /\ Len(FlattenSeq(datagrams)) \in Nat
      BY WaitingParts
    <3>4. waiting' = waiting + Len(d)
      BY <2>1, <2>3, <3>2, <3>3 DEF waiting
    <3>5. missed' = missed
      BY <1>1, <1>2, <2>1, <2>2, <2>3, <3>4
    <3> QED BY <1>1, <2>1, <3>1, <3>5 DEF CountInv, Listening
  <2>5. CASE datagrams' = datagrams /\ overrun' = TRUE
    <3>1. noted' = 1
      BY <2>5, Zenon DEF noted
    <3>2. waiting' = waiting
      BY <2>1, <2>5, Zenon DEF waiting
    <3>3. missed' = missed + Len(d)
      BY <1>1, <1>2, <2>1, <2>2, <2>3, <3>2
    <3> QED BY <1>1, <2>1, <2>3, <3>1, <3>3 DEF CountInv, Listening
  <2> QED BY <2>2, <2>4, <2>5, Zenon
<1>15. CASE TaskReceives \/ HandlerSends \/ TaskExits \/ UNCHANGED vars
  <2>1. /\ UNCHANGED <<datagrams, overrun, iter, dropped, emitted, handled, corrupt>>
        /\ listener' = listener
    BY <1>15, Zenon DEF TaskReceives, HandlerSends, TaskExits, vars
  <2> QED BY <1>3, <2>1
<1> QED
  BY <1>4, <1>5, <1>6, <1>7, <1>8, <1>9, <1>11, <1>12, <1>13, <1>14, <1>15, Zenon
     DEF Next, Run, Environment

\* PROC_EVENTS_DROPPED tells the truth about the events that were missed: it never exceeds
\* them, and when there are any it is not zero, or will not be after the next recv.
THEOREM DropsAreOwnedUp == Spec => []MissesShow
<1>1. Init => CountInv
  <2>1. Init => noted = 0
    BY Zenon DEF Init, noted
  <2>2. Init => /\ datagrams = <<>> /\ iter = <<>> /\ listener = "connect"
                /\ dropped = 0 /\ emitted = 0 /\ handled = 0 /\ corrupt = 0
    BY Zenon DEF Init
  <2> HIDE DEF Init
  <2> QED BY <2>1, <2>2 DEF CountInv, Listening
<1>2. ListenerInv /\ ListenerInv' /\ CountInv /\ [Next]_vars => CountInv'
  BY CountsAreKept
<1>3. ListenerInv /\ CountInv => MissesShow
  <2> SUFFICES ASSUME ListenerInv, CountInv, Listening
               PROVE  dropped <= missed /\ (missed > 0 => dropped > 0 \/ overrun)
    BY DEF MissesShow
  <2>1. /\ dropped \in Nat /\ missed \in Int /\ noted \in {0, 1}
        /\ dropped + noted <= missed /\ (missed > 0 => dropped + noted > 0)
    BY Counts DEF CountInv
  <2>2. dropped <= missed
    BY <2>1
  <2>3. missed > 0 => dropped > 0 \/ noted = 1
    BY <2>1
  <2>4. noted = 1 => overrun
    <3>1. CASE overrun
      BY <3>1
    <3>2. CASE ~overrun
      BY <3>2 DEF noted
    <3> QED BY <3>1, <3>2, Zenon
  <2> QED BY <2>2, <2>3, <2>4, Zenon
<1> QED BY <1>1, <1>2, <1>3, ListenerTypes, PTL DEF Spec

-----------------------------------------------------------------------------
(***************************************************************************)
(* The listener as the reconcile task sees it.                             *)
(***************************************************************************)
told == ToSet(iter) \cup ToSet(FlattenSeq(datagrams))

LEMMA Owing ==
  /\ owes = (running /\ \E m \in told : m \in {"Exec", "Exit"})
  /\ owes' = (running' /\ \E m \in told' : m \in {"Exec", "Exit"})
  /\ owes \in BOOLEAN /\ owes' \in BOOLEAN
BY Zenon DEF owes, told

CoarseStep ==
  \/ Coarse!ExecOrExit \/ Coarse!Listener
  \/ TaskStep /\ UNCHANGED <<running, owes>>
  \/ UNCHANGED <<channel, open, running, owes>>

\* The listener ends.
LEMMA EndsCoarsely ==
  ASSUME running, ~running', UNCHANGED <<channel, open>>
  PROVE  CoarseStep
<1>1. owes' = FALSE
  BY Owing, Zenon
<1>2. running = TRUE /\ running' = FALSE
  BY Zenon DEF running
<1>3. Coarse!ListenerExits
  BY <1>1, <1>2, Zenon DEF Coarse!ListenerExits, Coarse!queues, Coarse!clocks
<1> QED BY <1>3, Zenon DEF CoarseStep, Coarse!Listener

\* It goes on, and what it owed is the same, or it owed something.
LEMMA ForwardsCoarsely ==
  ASSUME running, running', UNCHANGED open,
         \/ UNCHANGED channel
         \/ open /\ Room /\ owes /\ channel' = Append(channel, ProcEvent),
         owes' => owes
  PROVE  CoarseStep
<1>1. running' = running
  BY Zenon DEF running
<1>2. CASE ~owes
  <2>1. owes' = owes /\ UNCHANGED channel
    BY <1>2, Owing, Zenon
  <2> QED BY <1>1, <2>1, Zenon DEF CoarseStep
<1>3. CASE owes
  <2>1. \/ channel' = channel
        \/ /\ (IF open THEN "select" ELSE "exited") # "exited"
           /\ Coarse!Room /\ channel' = Append(channel, ProcEvent)
    <3>1. open => (IF open THEN "select" ELSE "exited") # "exited"
      OBVIOUS
    <3> QED BY <3>1, Zenon DEF Coarse!Room, Room
  <2>2. owes' \in BOOLEAN
    BY Owing, Zenon
  <2>3. Coarse!Forward
    BY <1>1, <1>3, <2>1, <2>2, Zenon
       DEF Coarse!Forward, Coarse!clocks, Coarse!ProcEvent, ProcEvent
  <2> QED BY <2>3, Zenon DEF CoarseStep, Coarse!Listener
<1> QED BY <1>2, <1>3, Zenon

\* Nothing the reconcile task sees.
LEMMA StaysCoarsely ==
  ASSUME UNCHANGED <<channel, open, datagrams, iter>>, running' = running
  PROVE  CoarseStep
<1>1. told' = told
  BY Zenon DEF told
<1>2. owes' = owes
  BY <1>1, Zenon DEF owes, told
<1> QED BY <1>2, Zenon DEF CoarseStep

LEMMA ShrinksTo ==
  ASSUME ToSet(iter') \subseteq ToSet(iter), UNCHANGED datagrams, running
  PROVE  owes' => owes
<1>1. told' \subseteq told
  BY DEF told
<1> QED BY <1>1, Owing

LEMMA StepsAreCoarse ==
  ASSUME ListenerInv, [Next]_vars
  PROVE  CoarseStep
<1> USE DEF kernel, queue, history
<1>1. CASE Connect \/ Subscribe \/ RecvFails
  <2>1. /\ UNCHANGED <<channel, open, datagrams, iter>>
        /\ listener \in {"connect", "subscribe", "recv"}
        /\ listener' \in {"subscribe", "recv", "failed"}
    BY <1>1 DEF Connect, Subscribe, RecvFails
  <2>2. running
    BY <2>1 DEF running, Ended
  <2>3. CASE running'
    BY <2>1, <2>2, <2>3, StaysCoarsely, Zenon DEF running
  <2>4. CASE ~running'
    BY <2>1, <2>2, <2>4, EndsCoarsely, Zenon
  <2> QED BY <2>3, <2>4, Zenon
<1>2. CASE Recv
  <2>1. UNCHANGED <<channel, open>> /\ running /\ running'
    BY <1>2 DEF Recv, running, Ended
  <2>2. told' = told
    <3>1. /\ iter = <<>> /\ iter' \in Seq(Messages) /\ datagrams' \in Seq(Datagrams)
          /\ FlattenSeq(datagrams) = iter' \o FlattenSeq(datagrams')
      BY <1>2, RecvTakes
    <3>2. FlattenSeq(datagrams') \in Seq(Messages)
      BY <3>1, DatagramType, FlattenType
    <3>3. ToSet(FlattenSeq(datagrams)) = ToSet(iter') \cup ToSet(FlattenSeq(datagrams'))
      BY <3>1, <3>2, ToSetOfConcat
    <3>4. ToSet(iter) = {}
      BY <3>1 DEF ToSet
    <3> QED BY <3>3, <3>4 DEF told
  <2>3. owes' = owes /\ running' = running
    BY <2>1, <2>2, Owing, Zenon DEF running
  <2> QED BY <2>1, <2>3, Zenon DEF CoarseStep
<1>3. CASE RecvOverrun
  <2>1. UNCHANGED <<channel, open, datagrams, iter, listener>>
    BY <1>3, Zenon DEF RecvOverrun
  <2> QED BY <2>1, StaysCoarsely, Zenon DEF running
<1>4. CASE SkipCorrupt
  <2>1. /\ UNCHANGED <<channel, open, datagrams>> /\ running /\ running' /\ iter' = <<>>
    BY <1>4 DEF SkipCorrupt, running, Ended
  <2>2. ToSet(iter') \subseteq ToSet(iter)
    BY <2>1 DEF ToSet
  <2>3. owes' => owes
    BY <2>1, <2>2, ShrinksTo
  <2> QED BY <2>1, <2>3, ForwardsCoarsely, Zenon
<1>5. ASSUME listener = "iterate", Advance, UNCHANGED datagrams
      PROVE  running /\ running' /\ (owes' => owes)
  <2>1. running /\ running'
    BY <1>5, AdvanceLeaves DEF running, Ended
  <2>2. ToSet(iter') \subseteq ToSet(iter)
    BY <1>5, AdvanceLeaves
  <2>3. owes' => owes
    BY <1>5, <2>1, <2>2, ShrinksTo
  <2> QED BY <2>1, <2>3, Zenon
<1>6. CASE SkipNoise \/ TrySendFull
  <2>1. listener = "iterate" /\ Advance /\ UNCHANGED <<datagrams, channel, open>>
    BY <1>6, Zenon DEF SkipNoise, TrySendFull, TryingToSend
  <2>2. running /\ running' /\ (owes' => owes)
    BY <1>5, <2>1, Zenon
  <2> QED BY <2>1, <2>2, ForwardsCoarsely, Zenon
<1>7. CASE TrySendOk
  <2>1. /\ listener = "iterate" /\ Advance /\ UNCHANGED <<datagrams, open>>
        /\ open /\ Room /\ channel' = Append(channel, ProcEvent)
        /\ is_trigger_kind(Head(iter))
    BY <1>7, Zenon DEF TrySendOk, TryingToSend
  <2>2. running /\ running' /\ (owes' => owes)
    BY <1>5, <2>1, Zenon
  <2>3. owes
    <3>1. Head(iter) \in told
      BY <2>1, HeadIsMessage DEF told
    <3>2. Head(iter) \in {"Exec", "Exit"}
      BY <2>1 DEF is_trigger_kind
    <3> QED BY <2>2, <3>1, <3>2, Owing, Zenon
  <2> QED BY <2>1, <2>2, <2>3, ForwardsCoarsely, Zenon
<1>8. CASE TrySendClosed
  <2>1. UNCHANGED <<channel, open>> /\ running /\ ~running'
    BY <1>8 DEF TrySendClosed, TryingToSend, running, Ended
  <2> QED BY <2>1, EndsCoarsely, Zenon
<1>9. CASE Emit
  <2>1. UNCHANGED <<listener, iter, channel, open>> /\ Listening
    BY <1>9, Zenon DEF Emit
  <2>2. running /\ running' /\ running' = running
    BY <2>1 DEF Listening, running, Ended
  <2>3. PICK d \in Datagrams : datagrams' = datagrams \/ datagrams' = Append(datagrams, d)
    BY <1>9, Zenon DEF Emit
  <2>4. told \subseteq told'
    <3>1. CASE datagrams' = datagrams
      BY <2>1, <3>1 DEF told
    <3>2. CASE datagrams' = Append(datagrams, d)
      <4>1. FlattenSeq(datagrams') = FlattenSeq(datagrams) \o d
        BY <3>2, EmitAddsUp
      <4>2. FlattenSeq(datagrams) \in Seq(Messages) /\ d \in Seq(Messages)
        BY DatagramType, FlattenType DEF ListenerInv, TypeOK
      <4>3. ToSet(FlattenSeq(datagrams')) = ToSet(FlattenSeq(datagrams)) \cup ToSet(d)
        BY <4>1, <4>2, ToSetOfConcat
      <4> QED BY <2>1, <4>3 DEF told
    <3> QED BY <2>3, <3>1, <3>2
  <2>5. owes => owes'
    BY <2>2, <2>4, Owing
  <2>6. owes' \in {owes, running}
    <3>1. owes' = owes \/ owes' = TRUE
      BY <2>5, Owing, Zenon
    <3>2. running = TRUE
      BY <2>2, Zenon DEF running
    <3> QED BY <3>1, <3>2, Zenon
  <2>7. Coarse!ExecOrExit
    BY <2>1, <2>2, <2>6, Zenon DEF Coarse!ExecOrExit, Coarse!queues, Coarse!clocks
  <2> QED BY <2>7, Zenon DEF CoarseStep
<1>10. CASE TaskReceives \/ HandlerSends \/ TaskExits
  <2>1. UNCHANGED <<listener, iter, datagrams>>
    BY <1>10, Zenon DEF TaskReceives, HandlerSends, TaskExits
  <2>2. running' = running
    BY <2>1, Zenon DEF running
  <2>3. owes' = owes
    BY <2>1, Zenon DEF owes, running
  <2> QED BY <1>10, <2>2, <2>3, Zenon DEF CoarseStep, TaskStep
<1>11. CASE UNCHANGED vars
  <2>1. UNCHANGED <<channel, open, datagrams, iter, listener>>
    BY <1>11, Zenon DEF vars
  <2> QED BY <2>1, StaysCoarsely, Zenon DEF running
<1> QED
  BY <1>1, <1>2, <1>3, <1>4, <1>6, <1>7, <1>8, <1>9, <1>10, <1>11, Zenon
     DEF Next, Run, Environment

\* What the reconcile task sees of the listener is what TriggerLoop supposes: each of its
\* pushes stands for an exec or exit event it heard of and still owed, into a free slot of
\* an open channel, and it stops only on a fatal error or a closed channel.
THEOREM ListenerRefines == Spec => ListenerIsCoarse
<1>1. ListenerInv /\ [Next]_vars => CoarseStep
  BY StepsAreCoarse
<1>2. CoarseStep => \/ Coarse!ExecOrExit \/ Coarse!Listener
                    \/ TaskStep /\ UNCHANGED <<running, owes>>
                    \/ UNCHANGED <<channel, open, running, owes>>
  BY Zenon DEF CoarseStep
<1> QED BY <1>1, <1>2, ListenerTypes, PTL DEF Spec, ListenerIsCoarse

=============================================================================
