--------------------------- MODULE SubstateProofs ---------------------------
(***************************************************************************)
(* Proofs about Substate and the ProcScan it extends, for any processes,   *)
(* patterns, units and time limits.                                        *)
(***************************************************************************)
EXTENDS Substate, Integers, SequenceTheorems, FiniteSetTheorems, WellFoundedInduction, TLAPS

-----------------------------------------------------------------------------
(***************************************************************************)
(* A set of numbers has a least one.  The induction theorems of the        *)
(* library take an operator; that < is well founded on Nat does not, and a *)
(* least counterexample does what an induction would.                      *)
(***************************************************************************)
Less == {ss \in Nat \X Nat : ss[1] < ss[2]}

LEMMA LeastOf ==
  ASSUME NEW T \in SUBSET Nat, T # {}
  PROVE  \E x \in T : \A y \in T : x <= y
<1>1. IsWellFoundedOn(Less, Nat)
  BY NatLessThanWellFounded, Zenon DEF OpToRel, Less
<1>2. PICK x \in T : \A y \in T : ~ (<<y, x>> \in Less)
  BY <1>1, WFMin
<1>3. ASSUME NEW y \in T, y < x PROVE FALSE
  <2>1. <<y, x>> \in Nat \X Nat
    BY Zenon
  <2>2. <<y, x>>[1] < <<y, x>>[2]
    BY <1>3
  <2>3. <<y, x>> \in Less
    BY <2>1, <2>2, Zenon DEF Less
  <2> QED BY <1>2, <2>3
<1>4. \A y \in T : x <= y
  BY <1>3
<1> QED BY <1>4

LEMMA MinIsLeast ==
  ASSUME NEW T \in SUBSET Nat, T # {}
  PROVE  Min(T) \in T /\ \A y \in T : Min(T) <= y
BY LeastOf DEF Min

LEMMA MaxIsGreatest ==
  ASSUME NEW n \in Nat, NEW T \in SUBSET (0..n), T # {}
  PROVE  Max(T) \in T /\ \A y \in T : Max(T) >= y
<1> DEFINE below == {n - y : y \in T}
<1>1. below \in SUBSET Nat /\ below # {}
  <2>1. \A y \in T : n - y \in Nat
    OBVIOUS
  <2> QED BY <2>1
<1>2. PICK b \in below : \A c \in below : b <= c
  <2> HIDE DEF below
  <2> QED BY <1>1, LeastOf
<1>3. PICK x \in T : b = n - x
  OBVIOUS
<1>4. ASSUME NEW y \in T PROVE x >= y
  <2>1. b <= n - y
    BY <1>2
  <2>2. x \in Nat /\ y \in Nat
    OBVIOUS
  <2> HIDE DEF below
  <2> QED BY <1>3, <2>1, <2>2
<1> HIDE DEF below
<1> QED BY <1>4 DEF Max

-----------------------------------------------------------------------------
(***************************************************************************)
(* SumFunctionOnSet is defined by a recursion over the subsets of its set: *)
(* the function that recursion asks for exists, is unique, and is a sum in *)
(* which no order matters and a larger set gives no smaller total.         *)
(***************************************************************************)
Pick(s) == CHOOSE x \in s : TRUE

Unrolls(f, S, g) ==
  g = [s \in SUBSET S |-> IF s = {} THEN 0 ELSE f[Pick(s)] + g[s \ {Pick(s)}]]

Total(f, S) == (CHOOSE g : Unrolls(f, S, g))[S]

LEMMA SumIsTotal == ASSUME NEW f, NEW S PROVE SumFunctionOnSet(f, S) = Total(f, S)
BY Zenon DEF SumFunctionOnSet, FoldFunctionOnSet, MapThenFoldSet, Total, Unrolls, Pick

LEMMA PickIsOne == ASSUME NEW s, s # {} PROVE Pick(s) \in s
BY DEF Pick

\* Removing a member of a finite set.
LEMMA OneLess ==
  ASSUME NEW S, IsFiniteSet(S), NEW x \in S
  PROVE  /\ IsFiniteSet(S \ {x}) /\ Cardinality(S) \in Nat /\ Cardinality(S \ {x}) \in Nat
         /\ Cardinality(S \ {x}) < Cardinality(S)
         /\ Cardinality(S \ {x}) = Cardinality(S) - 1
<1>1. IsFiniteSet(S \ {x}) /\ Cardinality(S \ {x}) = Cardinality(S) - 1
  BY FS_RemoveElement
<1>2. Cardinality(S) \in Nat /\ Cardinality(S \ {x}) \in Nat
  BY <1>1, FS_CardinalityType
<1> QED BY <1>1, <1>2

Up(S, n) == {s \in SUBSET S : Cardinality(s) <= n}

UnrollsUp(f, S, n, g) ==
  /\ g \in [Up(S, n) -> Nat]
  /\ \A s \in Up(S, n) : g[s] = IF s = {} THEN 0 ELSE f[Pick(s)] + g[s \ {Pick(s)}]

LEMMA UnrollingExists ==
  ASSUME NEW S, IsFiniteSet(S), NEW f, \A x \in S : f[x] \in Nat
  PROVE  \E g \in [SUBSET S -> Nat] : Unrolls(f, S, g)
<1> DEFINE bad == {n \in Nat : ~ \E g : UnrollsUp(f, S, n, g)}
<1>1. \A s \in SUBSET S :
        IsFiniteSet(s) /\ Cardinality(s) \in Nat /\ Cardinality(s) <= Cardinality(S)
  BY FS_Subset, FS_CardinalityType
<1>2. bad = {}
  <2> SUFFICES ASSUME bad # {} PROVE FALSE
    OBVIOUS
  <2>1. PICK n \in bad : \A m \in bad : n <= m
    <3>1. bad \in SUBSET Nat
      OBVIOUS
    <3> HIDE DEF bad
    <3> QED BY <3>1, LeastOf
  <2>2. n \in Nat /\ ~ \E g : UnrollsUp(f, S, n, g)
    OBVIOUS
  <2>3. CASE n = 0
    <3> DEFINE g == [s \in Up(S, 0) |-> 0]
    <3>1. \A s \in Up(S, 0) : s = {}
      BY <1>1, FS_EmptySet DEF Up
    <3>2. UnrollsUp(f, S, 0, g)
      BY <3>1 DEF UnrollsUp
    <3> QED BY <2>2, <2>3, <3>2
  <2>4. CASE n # 0
    <3>1. n - 1 \in Nat /\ n - 1 \notin bad
      <4>1. n - 1 \in Nat /\ ~(n <= n - 1)
        BY <2>2, <2>4
      <4> HIDE DEF bad
      <4> QED BY <2>1, <4>1
    <3>2. PICK h : UnrollsUp(f, S, n - 1, h)
      BY <3>1
    <3> DEFINE g == [s \in Up(S, n) |-> IF s = {} THEN 0 ELSE f[Pick(s)] + h[s \ {Pick(s)}]]
    <3>3. ASSUME NEW s \in Up(S, n), s # {}
          PROVE  /\ Pick(s) \in S /\ s \ {Pick(s)} \in Up(S, n) /\ s \ {Pick(s)} \in Up(S, n - 1)
      <4>1. s \in SUBSET S /\ Cardinality(s) <= n /\ Pick(s) \in s
        BY <3>3, PickIsOne DEF Up
      <4>2. /\ Cardinality(s) \in Nat /\ Cardinality(s \ {Pick(s)}) \in Nat
            /\ Cardinality(s \ {Pick(s)}) = Cardinality(s) - 1
        BY <1>1, <4>1, OneLess
      <4>3. Cardinality(s \ {Pick(s)}) <= n - 1 /\ Cardinality(s \ {Pick(s)}) <= n
        BY <2>2, <4>1, <4>2
      <4> QED BY <4>1, <4>3 DEF Up
    <3>4. g \in [Up(S, n) -> Nat]
      <4>1. ASSUME NEW s \in Up(S, n), s # {} PROVE f[Pick(s)] + h[s \ {Pick(s)}] \in Nat
        <5>1. f[Pick(s)] \in Nat /\ h[s \ {Pick(s)}] \in Nat
          BY <3>2, <3>3, <4>1 DEF UnrollsUp
        <5> QED BY <5>1
      <4> QED BY <4>1
    <3>5. ASSUME NEW s \in Up(S, n - 1) PROVE g[s] = h[s]
      <4>1. s \in Up(S, n)
        BY <1>1, <2>2, <3>5 DEF Up
      <4> QED BY <3>2, <4>1 DEF UnrollsUp
    <3>6. ASSUME NEW s \in Up(S, n)
          PROVE  g[s] = IF s = {} THEN 0 ELSE f[Pick(s)] + g[s \ {Pick(s)}]
      <4>1. s # {} => g[s \ {Pick(s)}] = h[s \ {Pick(s)}]
        BY <3>3, <3>5
      <4>2. g[s] = IF s = {} THEN 0 ELSE f[Pick(s)] + h[s \ {Pick(s)}]
        OBVIOUS
      <4> HIDE DEF g
      <4> QED BY <4>1, <4>2
    <3> HIDE DEF g
    <3>7. UnrollsUp(f, S, n, g)
      BY <3>4, <3>6 DEF UnrollsUp
    <3> QED BY <2>2, <3>7
  <2> QED BY <2>3, <2>4
<1>3. Cardinality(S) \in Nat /\ Up(S, Cardinality(S)) = SUBSET S
  BY <1>1, FS_CardinalityType DEF Up
<1>4. PICK g : UnrollsUp(f, S, Cardinality(S), g)
  BY <1>2, <1>3
<1>5. g \in [SUBSET S -> Nat]
  BY <1>3, <1>4 DEF UnrollsUp
<1>6. \A s \in SUBSET S : g[s] = IF s = {} THEN 0 ELSE f[Pick(s)] + g[s \ {Pick(s)}]
  BY <1>3, <1>4 DEF UnrollsUp
<1>7. Unrolls(f, S, g)
  BY <1>5, <1>6 DEF Unrolls
<1> QED BY <1>5, <1>7

LEMMA UnrollingIsUnique ==
  ASSUME NEW S, IsFiniteSet(S), NEW T \in SUBSET S, NEW f,
         NEW g, Unrolls(f, S, g), NEW h, Unrolls(f, T, h)
  PROVE  g[T] = h[T]
<1> DEFINE differ == {s \in SUBSET T : g[s] # h[s]}
           sizes  == {Cardinality(s) : s \in differ}
<1>1. \A s \in SUBSET T : IsFiniteSet(s) /\ Cardinality(s) \in Nat
  <2>1. \A s \in SUBSET T : s \in SUBSET S
    OBVIOUS
  <2> QED BY <2>1, FS_Subset, FS_CardinalityType
<1>2. \A s \in SUBSET T : /\ g[s] = IF s = {} THEN 0 ELSE f[Pick(s)] + g[s \ {Pick(s)}]
                          /\ h[s] = IF s = {} THEN 0 ELSE f[Pick(s)] + h[s \ {Pick(s)}]
  <2>1. \A s \in SUBSET T : s \in SUBSET S
    OBVIOUS
  <2>2. \A s \in SUBSET S : g[s] = IF s = {} THEN 0 ELSE f[Pick(s)] + g[s \ {Pick(s)}]
    BY DEF Unrolls
  <2>3. \A s \in SUBSET T : h[s] = IF s = {} THEN 0 ELSE f[Pick(s)] + h[s \ {Pick(s)}]
    BY DEF Unrolls
  <2> QED BY <2>1, <2>2, <2>3
<1>3. SUFFICES ASSUME differ # {} PROVE FALSE
  BY <1>3
<1>4. PICK s \in differ : \A r \in differ : Cardinality(s) <= Cardinality(r)
  <2>1. sizes \in SUBSET Nat /\ sizes # {}
    BY <1>1, <1>3
  <2>2. PICK n \in sizes : \A m \in sizes : n <= m
    <3> HIDE DEF sizes
    <3> QED BY <2>1, LeastOf
  <2> QED BY <2>2
<1>5. s \in SUBSET T /\ g[s] # h[s] /\ IsFiniteSet(s)
  BY <1>1
<1>6. s # {}
  BY <1>2, <1>5
<1> DEFINE r == s \ {Pick(s)}
<1>7. r \in SUBSET T /\ Cardinality(r) \in Nat /\ Cardinality(s) \in Nat
      /\ Cardinality(r) < Cardinality(s)
  BY <1>5, <1>6, PickIsOne, OneLess
<1>8. g[r] # h[r]
  BY <1>2, <1>5, <1>6
<1>9. r \in differ
  BY <1>7, <1>8
<1>10. Cardinality(s) <= Cardinality(r)
  <2> HIDE DEF differ, r
  <2> QED BY <1>4, <1>9
<1> HIDE DEF r
<1> QED BY <1>7, <1>10

LEMMA TotalUnrolls ==
  ASSUME NEW S, IsFiniteSet(S), NEW f, \A x \in S : f[x] \in Nat
  PROVE  /\ Total(f, S) \in Nat
         /\ Total(f, S) = IF S = {} THEN 0 ELSE f[Pick(S)] + Total(f, S \ {Pick(S)})
<1>1. PICK g \in [SUBSET S -> Nat] : Unrolls(f, S, g)
  BY UnrollingExists
<1> DEFINE c == CHOOSE a : Unrolls(f, S, a)
           T == S \ {Pick(S)}
           d == CHOOSE a : Unrolls(f, T, a)
<1>2. Unrolls(f, S, c)
  BY <1>1
<1>3. c[S] = g[S] /\ S \in SUBSET S
  BY <1>1, <1>2, UnrollingIsUnique
<1>4. Total(f, S) = g[S]
  BY <1>3 DEF Total
<1>5. ASSUME S # {} PROVE Total(f, T) = c[T]
  <2>1. IsFiniteSet(T) /\ T \in SUBSET S /\ \A x \in T : f[x] \in Nat
    BY FS_RemoveElement
  <2>2. PICK h : Unrolls(f, T, h)
    <3> HIDE DEF T
    <3> QED BY <2>1, UnrollingExists
  <2>3. Unrolls(f, T, d)
    BY <2>2
  <2>4. c[T] = d[T]
    <3> HIDE DEF c, d, T
    <3> QED BY <1>2, <2>1, <2>3, UnrollingIsUnique
  <2> QED BY <2>4 DEF Total
<1>6. c[S] = IF S = {} THEN 0 ELSE f[Pick(S)] + c[T]
  <2>1. \A s \in SUBSET S : c[s] = IF s = {} THEN 0 ELSE f[Pick(s)] + c[s \ {Pick(s)}]
    <3> HIDE DEF c
    <3> QED BY <1>2 DEF Unrolls
  <2> HIDE DEF c
  <2> QED BY <2>1
<1> HIDE DEF c
<1> QED BY <1>3, <1>4, <1>5, <1>6

\* The total does not depend on the order of the sum.
LEMMA TotalOfAny ==
  ASSUME NEW S, IsFiniteSet(S), NEW f, \A x \in S : f[x] \in Nat, NEW y \in S
  PROVE  Total(f, S) = f[y] + Total(f, S \ {y})
<1> DEFINE Fails(s) == \E z \in s : Total(f, s) # f[z] + Total(f, s \ {z})
           bad   == {s \in SUBSET S : Fails(s)}
           sizes == {Cardinality(s) : s \in bad}
<1>1. \A s \in SUBSET S : IsFiniteSet(s) /\ Cardinality(s) \in Nat /\ \A x \in s : f[x] \in Nat
  BY FS_Subset, FS_CardinalityType
<1>2. SUFFICES ASSUME bad # {} PROVE FALSE
  BY <1>2
<1>3. PICK s \in bad : \A r \in bad : Cardinality(s) <= Cardinality(r)
  <2>1. sizes \in SUBSET Nat /\ sizes # {}
    BY <1>1, <1>2
  <2>2. PICK n \in sizes : \A m \in sizes : n <= m
    <3> HIDE DEF sizes
    <3> QED BY <2>1, LeastOf
  <2> QED BY <2>2
<1>4. s \in SUBSET S /\ IsFiniteSet(s)
  BY <1>1
<1>5. PICK z \in s : Total(f, s) # f[z] + Total(f, s \ {z})
  OBVIOUS
<1> DEFINE x == Pick(s)
<1>6. x \in s
  BY <1>5, PickIsOne
<1>7. Total(f, s) = f[x] + Total(f, s \ {x})
  BY <1>1, <1>4, <1>5, TotalUnrolls
<1>8. x # z
  BY <1>5, <1>7
<1> HIDE DEF x
<1>9. ASSUME NEW a \in s
      PROVE  /\ s \ {a} \in SUBSET S
             /\ \A b \in s \ {a} : Total(f, s \ {a}) = f[b] + Total(f, (s \ {a}) \ {b})
  <2>1. Cardinality(s \ {a}) < Cardinality(s) /\ Cardinality(s \ {a}) \in Nat
        /\ Cardinality(s) \in Nat
    BY <1>4, OneLess
  <2>2. ~(Cardinality(s) <= Cardinality(s \ {a}))
    BY <2>1
  <2>3. s \ {a} \notin bad
    <3> HIDE DEF bad
    <3> QED BY <1>3, <2>2
  <2>4. s \ {a} \in SUBSET S
    BY <1>4
  <2> QED BY <2>3, <2>4
<1>10. (s \ {x}) \ {z} = (s \ {z}) \ {x}
  OBVIOUS
<1> DEFINE rest == Total(f, (s \ {x}) \ {z})
<1>11. Total(f, s \ {x}) = f[z] + rest
  BY <1>6, <1>8, <1>9
<1>12. Total(f, s \ {z}) = f[x] + rest
  BY <1>6, <1>8, <1>9, <1>10
<1>13. rest \in Nat /\ f[x] \in Nat /\ f[z] \in Nat
  <2>1. (s \ {x}) \ {z} \in SUBSET S
    BY <1>4
  <2> HIDE DEF bad
  <2>2. rest \in Nat
    BY <1>1, <2>1, TotalUnrolls
  <2> QED BY <1>1, <1>4, <1>6, <2>2
<1> HIDE DEF rest, bad
<1> QED BY <1>5, <1>7, <1>11, <1>12, <1>13

LEMMA TotalGrows ==
  ASSUME NEW T, IsFiniteSet(T), NEW S \in SUBSET T, NEW f, \A x \in T : f[x] \in Nat
  PROVE  Total(f, S) <= Total(f, T)
<1> DEFINE bad   == {u \in SUBSET T : S \subseteq u /\ ~(Total(f, S) <= Total(f, u))}
           sizes == {Cardinality(u) : u \in bad}
<1>1. \A s \in SUBSET T : IsFiniteSet(s) /\ Cardinality(s) \in Nat /\ \A x \in s : f[x] \in Nat
  BY FS_Subset, FS_CardinalityType
<1>2. \A s \in SUBSET T : Total(f, s) \in Nat
  BY <1>1, TotalUnrolls
<1>3. SUFFICES ASSUME bad # {} PROVE FALSE
  BY <1>3
<1>4. PICK u \in bad : \A r \in bad : Cardinality(u) <= Cardinality(r)
  <2>1. sizes \in SUBSET Nat /\ sizes # {}
    BY <1>1, <1>3
  <2>2. PICK n \in sizes : \A m \in sizes : n <= m
    <3> HIDE DEF sizes
    <3> QED BY <2>1, LeastOf
  <2> QED BY <2>2
<1>5. u \in SUBSET T /\ S \subseteq u /\ ~(Total(f, S) <= Total(f, u)) /\ IsFiniteSet(u)
  BY <1>1
<1>6. PICK y \in u : y \notin S
  BY <1>2, <1>5
<1> DEFINE r == u \ {y}
<1>7. Cardinality(r) < Cardinality(u) /\ Cardinality(r) \in Nat /\ Cardinality(u) \in Nat
  BY <1>5, OneLess
<1>8. r \in SUBSET T /\ S \subseteq r
  BY <1>5, <1>6
<1>9. Total(f, S) <= Total(f, r)
  <2>1. ~(Cardinality(u) <= Cardinality(r))
    <3> HIDE DEF r
    <3> QED BY <1>7
  <2>2. r \notin bad
    <3> HIDE DEF bad, r
    <3> QED BY <1>4, <2>1
  <2> QED BY <1>8, <2>2
<1>10. Total(f, u) = f[y] + Total(f, r)
  <2> HIDE DEF bad
  <2> QED BY <1>1, <1>5, TotalOfAny
<1>11. Total(f, S) \in Nat /\ Total(f, u) \in Nat /\ Total(f, r) \in Nat /\ f[y] \in Nat
  <2> HIDE DEF bad, r
  <2> QED BY <1>1, <1>2, <1>5, <1>8
<1> HIDE DEF r, bad
<1> QED BY <1>5, <1>9, <1>10, <1>11

\* Nor do smaller numbers give a larger total.
LEMMA TotalBelow ==
  ASSUME NEW T, IsFiniteSet(T), NEW f, NEW g,
         \A x \in T : f[x] \in Nat /\ g[x] \in Nat /\ f[x] <= g[x]
  PROVE  Total(f, T) <= Total(g, T)
<1> DEFINE bad   == {u \in SUBSET T : ~(Total(f, u) <= Total(g, u))}
           sizes == {Cardinality(u) : u \in bad}
<1>1. \A s \in SUBSET T : IsFiniteSet(s) /\ Cardinality(s) \in Nat
  BY FS_Subset, FS_CardinalityType
<1>2. \A s \in SUBSET T : (\A x \in s : f[x] \in Nat) /\ \A x \in s : g[x] \in Nat
  OBVIOUS
<1>3. \A s \in SUBSET T : Total(f, s) \in Nat /\ Total(g, s) \in Nat
  BY <1>1, <1>2, TotalUnrolls
<1>4. SUFFICES ASSUME bad # {} PROVE FALSE
  BY <1>4
<1>5. PICK u \in bad : \A r \in bad : Cardinality(u) <= Cardinality(r)
  <2>1. sizes \in SUBSET Nat /\ sizes # {}
    BY <1>1, <1>4
  <2>2. PICK n \in sizes : \A m \in sizes : n <= m
    <3> HIDE DEF sizes
    <3> QED BY <2>1, LeastOf
  <2> QED BY <2>2
<1>6. u \in SUBSET T /\ ~(Total(f, u) <= Total(g, u)) /\ IsFiniteSet(u)
  BY <1>1
<1>7. Total(f, {}) = 0 /\ Total(g, {}) = 0
  BY <1>1, TotalUnrolls
<1>8. PICK y \in u : TRUE
  BY <1>6, <1>7
<1> DEFINE r == u \ {y}
<1>9. Cardinality(r) < Cardinality(u) /\ Cardinality(r) \in Nat /\ Cardinality(u) \in Nat
  BY <1>6, <1>8, OneLess
<1>10. r \in SUBSET T
  BY <1>6
<1>11. Total(f, r) <= Total(g, r)
  <2>1. ~(Cardinality(u) <= Cardinality(r))
    <3> HIDE DEF r
    <3> QED BY <1>9
  <2>2. r \notin bad
    <3> HIDE DEF bad, r
    <3> QED BY <1>5, <2>1
  <2> QED BY <1>10, <2>2
<1> HIDE DEF bad
<1>12. Total(f, u) = f[y] + Total(f, r) /\ Total(g, u) = g[y] + Total(g, r)
  BY <1>2, <1>6, <1>8, TotalOfAny
<1>13. f[y] \in Nat /\ g[y] \in Nat /\ f[y] <= g[y]
  BY <1>6, <1>8
<1> HIDE DEF r
<1> QED BY <1>3, <1>6, <1>10, <1>11, <1>12, <1>13

-----------------------------------------------------------------------------
(***************************************************************************)
(* What classify says of a process is one of the claims its command line   *)
(* allows, and it says something if any is allowed: a veto ends one        *)
(* pattern and not the search.                                             *)
(***************************************************************************)
LEMMA ClassifyIsAClaim ==
  ASSUME NEW g, g # Gone
  PROVE  /\ classify(g.cmdline) \subseteq Claimable(g)
         /\ Claimable(g) # {} => Claimable(g) \cap classify(g.cmdline) # {}
<1> DEFINE hits == {i \in DOMAIN GamePatterns : /\ GamePatterns[i].match \in g.cmdline
                                                /\ GamePatterns[i].exclude \cap g.cmdline = {}}
           rules == {q \in Range(GamePatterns) : /\ q.match \in g.cmdline
                                                 /\ q.exclude \cap g.cmdline = {}}
           steam == {c \in {"steam"} : detect_steam /\ SteamMarker \in g.cmdline}
<1>1. Claimable(g) = steam \cup {r.name : r \in rules}
  BY DEF Claimable
<1>2. DOMAIN GamePatterns \subseteq Nat
  BY ProcScanAssumption, LenProperties
<1>3. \A i \in hits : GamePatterns[i] \in rules
  BY DEF Range
<1>4. \A r \in rules : \E i \in hits : r = GamePatterns[i]
  BY DEF Range
<1>5. match_pattern(g.cmdline) = IF hits = {} THEN NoMatch ELSE GamePatterns[Min(hits)]
  BY DEF match_pattern
<1>6. \A r \in rules : r.name # "none"
  BY ProcScanAssumption
<1>7. hits \in SUBSET Nat
  BY <1>2
<1> HIDE DEF hits, rules
<1>8. CASE detect_steam /\ steam_appid(g.cmdline)
  <2>1. classify(g.cmdline) = {"steam"} /\ steam = {"steam"}
    BY <1>8 DEF classify, steam_appid
  <2> QED BY <1>1, <2>1
<1>9. CASE ~(detect_steam /\ steam_appid(g.cmdline))
  <2>1. classify(g.cmdline) = {match_pattern(g.cmdline).name} \ {"none"} /\ steam = {}
    BY <1>9 DEF classify, steam_appid
  <2>2. CASE hits = {}
    <3>1. match_pattern(g.cmdline).name = "none"
      BY <1>5, <2>2 DEF NoMatch
    <3>2. rules = {}
      BY <1>4, <2>2
    <3> QED BY <1>1, <2>1, <3>1, <3>2
  <2>3. CASE hits # {}
    <3>1. Min(hits) \in hits
      BY <1>7, <2>3, MinIsLeast
    <3>2. match_pattern(g.cmdline) \in rules
      BY <1>3, <1>5, <2>3, <3>1
    <3> QED BY <1>1, <1>6, <2>1, <3>2
  <2> QED BY <2>2, <2>3
<1> QED BY <1>8, <1>9

-----------------------------------------------------------------------------
(***************************************************************************)
(* The walk: whoever ran all the time and has been read is claimed, and    *)
(* what is claimed was seen of somebody.                                   *)
(***************************************************************************)
Claimed(p) == Claimable(table[p]) # {} => Claimable(table[p]) \cap claims # {}

WalkInv ==
  /\ table \in Table
  /\ pc \in {"walk", "scanned"} =>
       /\ listed \subseteq Pids /\ claims \subseteq witnessed
       /\ pc = "scanned" => listed = {}
       /\ pc = "walk" => \A p \in Pids : Claimable(table[p]) \subseteq witnessed
       /\ \A p \in steady : p \in Pids /\ table[p] # Gone /\ (p \in listed \/ Claimed(p))

LEMMA WalkInit == Init => WalkInv
<1> SUFFICES ASSUME Init PROVE WalkInv
  OBVIOUS
<1>1. table \in Table
  BY DEF Init, Table, Listable
<1> QED BY <1>1 DEF Init, WalkInv

LEMMA WalkStep == WalkInv /\ [Next]_vars => WalkInv'
<1> SUFFICES ASSUME WalkInv, [Next]_vars PROVE WalkInv'
  OBVIOUS
<1>1. ASSUME UNCHANGED <<table, scanning, pc>> PROVE WalkInv'
  BY <1>1 DEF WalkInv, scanning, Claimed
<1>2. ASSUME table' = table, pc' \notin {"walk", "scanned"} PROVE WalkInv'
  BY <1>2 DEF WalkInv
<1>3. CASE ListProc /\ table' = table
  <2>1. /\ listed' = Alive /\ claims' = {} /\ steady' = Alive /\ pc' = "walk"
        /\ witnessed' = UNION {Claimable(table[p]) : p \in Pids}
    BY <1>3 DEF ListProc
  <2>2. \A p \in Alive : p \in Pids /\ table[p] # Gone
    BY DEF Alive
  <2>3. \A p \in Pids : Claimable(table[p]) \subseteq witnessed'
    BY <2>1
  <2> QED BY <1>3, <2>1, <2>2, <2>3 DEF WalkInv
<1>4. CASE ReadProc /\ table' = table
  <2> DEFINE p == Min(listed)
             c == IF table[p] = Gone THEN {} ELSE classify(table[p].cmdline)
  <2>1. /\ pc = "walk" /\ listed # {} /\ pc' = pc
        /\ listed' = listed \ {p} /\ claims' = claims \cup c
        /\ steady' = steady /\ witnessed' = witnessed
    BY <1>4 DEF ReadProc
  <2>2. p \in listed /\ p \in Pids
    BY <2>1, MinIsLeast, ProcScanAssumption DEF WalkInv
  <2>3. c \subseteq witnessed
    BY <2>1, <2>2, ClassifyIsAClaim DEF WalkInv
  <2>4. table[p] # Gone /\ Claimable(table[p]) # {} => Claimable(table[p]) \cap c # {}
    BY ClassifyIsAClaim
  <2> HIDE DEF p, c
  <2>5. ASSUME NEW q \in steady
        PROVE  q \in Pids /\ table[q] # Gone /\ (q \in listed' \/ Claimed(q)')
    <3>1. q \in Pids /\ table[q] # Gone /\ (q \in listed \/ Claimed(q))
      BY <2>1 DEF WalkInv
    <3>2. Claimed(q) => Claimed(q)'
      BY <1>4, <2>1 DEF Claimed
    <3>3. q = p => Claimed(q)'
      BY <1>4, <2>1, <2>4, <3>1 DEF Claimed
    <3> QED BY <2>1, <3>1, <3>2, <3>3
  <2> QED BY <1>4, <2>1, <2>3, <2>5 DEF WalkInv
<1>5. CASE ScanDone /\ table' = table
  BY <1>5 DEF ScanDone, scanning, WalkInv, Claimed
<1>6. CASE Scan
  BY <1>3, <1>4, <1>5, <1>6 DEF Scan, machine
<1>7. CASE QueryCompute \/ ReadCgroup \/ CgroupsRead
  BY <1>2, <1>7 DEF QueryCompute, ReadCgroup, CgroupsRead, machine
<1>8. CASE UnitsDone \/ QueryMemory
  BY <1>2, <1>8 DEF UnitsDone, QueryMemory, machine
<1>9. CASE \E u \in Units : IsRunning(u) \/ LoadedModels(u)
  BY <1>2, <1>9 DEF IsRunning, LoadedModels, machine
<1>10. CASE Tick \/ UnitMoves \/ UNCHANGED vars
  BY <1>1, <1>10 DEF Tick, UnitMoves, vars, machine, scanning
<1>11. CASE ProcessMoves
  <2>1. PICK p \in Pids, g \in Programs \cup {Gone} : Becomes(p, g)
    BY <1>11 DEF ProcessMoves, Listable
  <2>2. /\ table' = [table EXCEPT ![p] = g] /\ steady' = steady \ {p}
        /\ witnessed' = IF pc = "walk" THEN witnessed \cup Claimable(g) ELSE witnessed
        /\ listed' = listed /\ claims' = claims /\ pc' = pc /\ pc # "scanned"
    BY <1>11, <2>1 DEF Becomes, ProcessMoves
  <2>3. table' \in Table /\ table'[p] = g /\ \A q \in Pids \ {p} : table'[q] = table[q]
    BY <2>2 DEF WalkInv, Table
  <2>4. ASSUME pc = "walk"
        PROVE  /\ \A q \in Pids : Claimable(table'[q]) \subseteq witnessed'
               /\ \A q \in steady' :
                    q \in Pids /\ table'[q] # Gone /\ (q \in listed' \/ Claimed(q)')
    <3>1. \A q \in Pids : Claimable(table'[q]) \subseteq witnessed'
      BY <2>2, <2>3, <2>4 DEF WalkInv
    <3>2. \A q \in steady' : q # p /\ q \in steady
      BY <2>2
    <3> QED BY <2>2, <2>3, <2>4, <3>1, <3>2 DEF WalkInv, Claimed
  <2> QED BY <2>2, <2>3, <2>4 DEF WalkInv
<1> QED BY <1>6, <1>7, <1>8, <1>9, <1>10, <1>11 DEF Next, RefreshStep

(***************************************************************************)
(* The claims of a walk over /proc are those of the processes that ran     *)
(* meanwhile, and none that ran throughout is missed (observe, scan_proc,  *)
(* classify), however the table changes between the listing and a read.    *)
(***************************************************************************)
THEOREM WalkClaims == Spec => []ClaimsAreOfTheWalk
<1>1. WalkInv => ClaimsAreOfTheWalk
  BY DEF WalkInv, ClaimsAreOfTheWalk, Claimed
<1> QED BY <1>1, WalkInit, WalkStep, PTL DEF Spec

-----------------------------------------------------------------------------
(***************************************************************************)
(* The clock of a refresh: what has passed, and what may still pass before *)
(* the command in flight is cut off, stay within the limits of the         *)
(* commands that came so far.  The units' queries run side by side, so the *)
(* limits of a unit hold whatever the other units do.                      *)
(***************************************************************************)
ClockInv ==
  /\ left \in [Units \cup {Device} -> Nat] /\ elapsed \in Nat
  /\ await \in [Units -> {"is-active", "models", "done"}]
  /\ pc \in {"list", "walk", "scanned"} => elapsed = 0
  /\ pc = "compute" => elapsed + left[Device] <= QueryTime
  /\ pc \in {"compute", "cgroups"} =>
       \A u \in Units : await[u] = "is-active" /\ left[u] = ControlTime
  /\ pc = "cgroups" => elapsed <= QueryTime
  /\ pc = "units" =>
       /\ elapsed <= QueryTime + ControlTime + IntrospectTime
       /\ \A u \in Units :
            /\ await[u] = "is-active" => elapsed + left[u] <= QueryTime + ControlTime
            /\ await[u] = "models" =>
                 elapsed + left[u] <= QueryTime + ControlTime + IntrospectTime
  /\ pc = "memory" => elapsed + left[Device] <= Bound
  /\ pc = "done" => elapsed <= Bound
  /\ pc \in {"list", "walk", "scanned", "compute", "cgroups", "units", "memory", "done"}

LEMMA Limits ==
  /\ QueryTime \in Nat /\ ControlTime \in Nat /\ IntrospectTime \in Nat
  /\ Device \notin Units
BY SubstateAssumption DEF Device

LEMMA ClockInit == Init => ClockInv
BY Limits DEF Init, ClockInv

LEMMA ClockStep == ClockInv /\ [Next]_vars => ClockInv'
<1> SUFFICES ASSUME ClockInv, [Next]_vars PROVE ClockInv'
  OBVIOUS
<1> USE Limits
<1>1. ASSUME UNCHANGED <<left, elapsed, await, pc>> PROVE ClockInv'
  BY <1>1 DEF ClockInv
<1>2. CASE Scan
  <2>1. UNCHANGED <<left, elapsed, await>> /\ pc \in {"list", "walk"}
        /\ pc' \in {"list", "walk", "scanned"}
    BY <1>2 DEF Scan, ListProc, ReadProc, ScanDone, scanning, futures, observer
  <2> QED BY <2>1 DEF ClockInv
<1>3. CASE QueryCompute
  <2>1. UNCHANGED <<left, elapsed, await>> /\ pc = "compute" /\ pc' = "cgroups"
    BY <1>3 DEF QueryCompute, futures
  <2>2. left[Device] \in Nat
    BY DEF ClockInv
  <2> QED BY <2>1, <2>2 DEF ClockInv
<1>4. CASE ReadCgroup
  BY <1>1, <1>4 DEF ReadCgroup, futures, observer
<1>5. CASE CgroupsRead
  <2>1. UNCHANGED <<left, elapsed, await>> /\ pc = "cgroups" /\ pc' = "units"
    BY <1>5 DEF CgroupsRead, futures, observer
  <2> QED BY <2>1 DEF ClockInv
<1>6. ASSUME NEW u \in Units, IsRunning(u) PROVE ClockInv'
  <2>1. PICK next \in {"models", "done"} : await' = [await EXCEPT ![u] = next]
    BY <1>6 DEF IsRunning
  <2>2. /\ left' = [left EXCEPT ![u] = IF next = "models" THEN IntrospectTime ELSE 0]
        /\ pc = "units" /\ pc' = "units" /\ await[u] = "is-active" /\ elapsed' = elapsed
    BY <1>6, <2>1 DEF IsRunning, ClockInv, observer
  <2>3. left[u] \in Nat /\ elapsed + left[u] <= QueryTime + ControlTime /\ elapsed \in Nat
    BY <2>2 DEF ClockInv
  <2>4. elapsed + IntrospectTime <= QueryTime + ControlTime + IntrospectTime
    BY <2>3
  <2>5. /\ left' \in [Units \cup {Device} -> Nat]
        /\ await' \in [Units -> {"is-active", "models", "done"}]
    BY <2>1, <2>2 DEF ClockInv
  <2>6. \A v \in Units \ {u} : await'[v] = await[v] /\ left'[v] = left[v]
    BY <2>1, <2>2 DEF ClockInv
  <2>7. await'[u] = next /\ left'[u] = IF next = "models" THEN IntrospectTime ELSE 0
    BY <2>1, <2>2 DEF ClockInv
  <2> QED BY <2>2, <2>4, <2>5, <2>6, <2>7 DEF ClockInv
<1>7. ASSUME NEW u \in Units, LoadedModels(u) PROVE ClockInv'
  <2>1. /\ await' = [await EXCEPT ![u] = "done"] /\ left' = [left EXCEPT ![u] = 0]
        /\ pc = "units" /\ pc' = "units" /\ elapsed' = elapsed
    BY <1>7 DEF LoadedModels, observer
  <2>2. /\ left' \in [Units \cup {Device} -> Nat]
        /\ await' \in [Units -> {"is-active", "models", "done"}]
        /\ await'[u] = "done"
        /\ \A v \in Units \ {u} : await'[v] = await[v] /\ left'[v] = left[v]
    BY <2>1 DEF ClockInv
  <2> QED BY <2>1, <2>2 DEF ClockInv
<1>8. CASE UnitsDone
  <2>1. /\ left' = [left EXCEPT ![Device] = QueryTime] /\ UNCHANGED <<elapsed, await>>
        /\ pc = "units" /\ pc' = "memory"
    BY <1>8 DEF UnitsDone, observer
  <2>2. left' \in [Units \cup {Device} -> Nat] /\ left'[Device] = QueryTime
    BY <2>1 DEF ClockInv
  <2> QED BY <2>1, <2>2 DEF ClockInv, Bound
<1>9. CASE QueryMemory
  <2>1. UNCHANGED <<left, elapsed, await>> /\ pc = "memory" /\ pc' = "done"
    BY <1>9 DEF QueryMemory, futures, observer
  <2>2. left[Device] \in Nat
    BY DEF ClockInv
  <2> QED BY <2>1, <2>2 DEF ClockInv, Bound
<1>10. CASE Tick
  <2>1. PICK x \in InFlight : \A y \in InFlight : left[y] > 0
    BY <1>10 DEF Tick
  <2>2. /\ left' = [y \in DOMAIN left |-> IF y \in InFlight THEN left[y] - 1 ELSE left[y]]
        /\ elapsed' = elapsed + 1 /\ UNCHANGED <<await, pc>>
    BY <1>10 DEF Tick
  <2>3. InFlight \subseteq Units \cup {Device}
    BY DEF InFlight
  <2>4. /\ left' \in [Units \cup {Device} -> Nat] /\ elapsed' \in Nat
        /\ \A y \in InFlight : elapsed' + left'[y] = elapsed + left[y]
        /\ \A y \in InFlight : elapsed' <= elapsed + left[y]
        /\ \A y \in (Units \cup {Device}) \ InFlight : left'[y] = left[y]
    BY <2>1, <2>2, <2>3 DEF ClockInv
  <2>5. CASE pc = "units"
    <3>1. InFlight = {u \in Units : await[u] # "done"}
      BY <2>5 DEF InFlight
    <3>2. elapsed' <= QueryTime + ControlTime + IntrospectTime
      <4>1. x \in Units /\ await[x] \in {"is-active", "models"} /\ left[x] \in Nat
        BY <2>1, <3>1 DEF ClockInv
      <4>2. elapsed + left[x] <= QueryTime + ControlTime + IntrospectTime /\ elapsed \in Nat
        BY <2>5, <4>1 DEF ClockInv
      <4> QED BY <2>1, <2>4, <4>1, <4>2
    <3> QED BY <2>2, <2>4, <2>5, <3>1, <3>2 DEF ClockInv
  <2>6. CASE pc # "units"
    <3>1. InFlight = {Device} /\ pc \in {"compute", "memory"}
      BY <2>1, <2>6 DEF InFlight
    <3> QED BY <2>2, <2>4, <3>1 DEF ClockInv
  <2> QED BY <2>5, <2>6
<1>11. CASE ProcessMoves \/ UnitMoves \/ UNCHANGED vars
  BY <1>1, <1>11 DEF ProcessMoves, UnitMoves, Note, vars, futures, observer
<1> QED BY <1>2, <1>3, <1>4, <1>5, <1>6, <1>7, <1>8, <1>9, <1>10, <1>11 DEF Next, RefreshStep

(***************************************************************************)
(* A refresh ends within the time limits of two queries of the device and  *)
(* the two of one unit, however many units there are (refresh_substate,    *)
(* join_all): the pass, and with it the next game, waits no longer.        *)
(***************************************************************************)
THEOREM RefreshEndsInTime == Spec => []RefreshIsBounded
<1>1. ClockInv => RefreshIsBounded
  <2> SUFFICES ASSUME ClockInv PROVE elapsed <= Bound
    BY DEF RefreshIsBounded
  <2>1. elapsed \in Nat /\ left[Device] \in Nat
    BY DEF ClockInv
  <2> QED BY <2>1, Limits DEF ClockInv, Bound
<1> QED BY <1>1, ClockInit, ClockStep, PTL DEF Spec

-----------------------------------------------------------------------------
(***************************************************************************)
(* What a refresh tells of a unit, while its queries are answered one      *)
(* after the other: nothing; that it runs; the rest.                       *)
(***************************************************************************)
Told(u) ==
  LET s == found[u]
  IN  /\ s.running # "unknown" => s.running \in was[u]
      /\ s.models = "some" => s.running = "running" /\ "loaded" \in was[u]
      /\ s.running = "running" /\ s.models = "none" /\ ~s.models_error /\ Asks[u] = "Ollama" =>
           "idle" \in was[u]

Progress(u) ==
  \/ await[u] = "is-active"
  \/ await[u] = "models" /\ found[u] = Blank("running") /\ "running" \in was[u]
  \/ await[u] = "done" /\ Told(u)

SeenInv ==
  /\ pc = "done" => units = found
  /\ DOMAIN found = Units /\ DOMAIN was = Units /\ DOMAIN await = Units
  /\ Refreshing => \A u \in Units : Facts(u, table, active) \subseteq was[u]
  /\ \A u \in Units : Progress(u)
  /\ pc \in {"memory", "done"} => \A u \in Units : await[u] = "done"

LEMMA SeenInit == Init => SeenInv
<1> SUFFICES ASSUME Init PROVE SeenInv
  OBVIOUS
<1>1. /\ DOMAIN found = Units /\ DOMAIN was = Units /\ DOMAIN await = Units
      /\ pc \in {"list", "compute"}
      /\ \A u \in Units : await[u] = "is-active"
      /\ \A u \in Units : was[u] = Facts(u, table, active)
  BY DEF Init
<1> QED BY <1>1 DEF SeenInv, Progress

\* The answer that fills in the rest of a running unit's status.
LEMMA ModelsAnswer ==
  ASSUME SeenInv, NEW u \in Units, LoadedModels(u)
  PROVE  /\ DOMAIN found' = Units /\ \A v \in Units \ {u} : found'[v] = found[v]
         /\ found'[u].running = "running"
         /\ found'[u].vram_mb = IF failed THEN Unset ELSE vram_mb(u)
         /\ \E m \in {IF Loaded(u, table) THEN "some" ELSE "none", "failed"} :
              /\ found'[u].models = IF m = "failed" \/ Asks[u] = "None" THEN "none" ELSE m
              /\ found'[u].models_error <=> (m = "failed" /\ Asks[u] = "Ollama")
<1>1. PICK m \in {IF Loaded(u, table) THEN "some" ELSE "none", "failed"} :
        found' = [found EXCEPT ![u] =
                   [@ EXCEPT !.models = IF m = "failed" \/ Asks[u] = "None" THEN "none" ELSE m,
                             !.models_error = (m = "failed" /\ Asks[u] = "Ollama"),
                             !.vram_mb = IF failed THEN Unset ELSE vram_mb(u)]]
  BY DEF LoadedModels
<1>2. await[u] = "models"
  BY DEF LoadedModels
<1>3. found[u] = Blank("running")
  BY <1>2 DEF SeenInv, Progress
<1> DEFINE models == IF m = "failed" \/ Asks[u] = "None" THEN "none" ELSE m
           error  == m = "failed" /\ Asks[u] = "Ollama"
           vram   == IF failed THEN Unset ELSE vram_mb(u)
<1>4. found'[u] = [found[u] EXCEPT !.models = models, !.models_error = error, !.vram_mb = vram]
  BY <1>1, Zenon DEF SeenInv
<1>5. DOMAIN found' = Units /\ \A v \in Units \ {u} : found'[v] = found[v]
  BY <1>1, Zenon DEF SeenInv
<1> HIDE DEF models, error, vram
<1>6. found'[u] = [Blank("running") EXCEPT !.models = models, !.models_error = error,
                                           !.vram_mb = vram]
  BY <1>3, <1>4, Zenon
<1>7. /\ found'[u].running = "running" /\ found'[u].models = models
      /\ found'[u].models_error = error /\ found'[u].vram_mb = vram
  BY <1>6 DEF Blank
<1> QED BY <1>5, <1>7, Zenon DEF models, error, vram

LEMMA SeenStep == SeenInv /\ [Next]_vars => SeenInv'
<1> SUFFICES ASSUME SeenInv, [Next]_vars PROVE SeenInv'
  OBVIOUS
\* The steps that leave the answers and what was true of the units alone.
<1>1. ASSUME UNCHANGED <<table, active, found, was, await>>, Refreshing' => Refreshing,
             pc' = "done" => units' = found,
             pc' \in {"memory", "done"} => \A u \in Units : await[u] = "done"
      PROVE  SeenInv'
  BY <1>1 DEF SeenInv, Progress, Told
<1>2. CASE Scan
  <2>1. /\ UNCHANGED <<table, active, found, was, await>>
        /\ pc' \in {"walk", "scanned"}
    BY <1>2 DEF Scan, ListProc, ReadProc, ScanDone, scanning, machine, futures, observer
  <2> QED BY <1>1, <2>1 DEF Refreshing
<1>3. CASE QueryCompute
  BY <1>1, <1>3 DEF QueryCompute, machine, futures, Refreshing
<1>4. CASE ReadCgroup
  BY <1>1, <1>4 DEF ReadCgroup, machine, futures, observer, Refreshing
<1>5. CASE CgroupsRead
  BY <1>1, <1>5 DEF CgroupsRead, machine, futures, observer, Refreshing
<1>6. CASE UnitsDone
  BY <1>1, <1>6 DEF UnitsDone, machine, observer, Refreshing
<1>7. CASE QueryMemory
  BY <1>1, <1>7 DEF QueryMemory, machine, futures, observer, Refreshing, SeenInv
<1>8. CASE Tick
  BY <1>1, <1>8 DEF Tick, machine, shown, Refreshing, SeenInv
\* The answer to a query of one unit.
<1>9. ASSUME NEW u \in Units, pc = "units", UNCHANGED <<table, active, was, pc>>,
             DOMAIN found' = Units, DOMAIN await' = Units, Progress(u)',
             \A v \in Units \ {u} : found'[v] = found[v] /\ await'[v] = await[v]
      PROVE  SeenInv'
  <2>1. ASSUME NEW v \in Units \ {u} PROVE Progress(v)'
    BY <1>9, <2>1 DEF SeenInv, Progress, Told
  <2> QED BY <1>9, <2>1 DEF SeenInv, Refreshing
<1>10. ASSUME NEW u \in Units, IsRunning(u) PROVE SeenInv'
  <2>1. PICK r \in {IF u \in active THEN "running" ELSE "stopped", "unknown"} :
          /\ found' = [found EXCEPT ![u] = Blank(r)]
          /\ await' = [await EXCEPT ![u] = IF r = "running" THEN "models" ELSE "done"]
    BY <1>10 DEF IsRunning
  <2>2. pc = "units" /\ UNCHANGED <<table, active, was, pc>>
    BY <1>10 DEF IsRunning, machine, observer
  <2>3. /\ DOMAIN found' = Units /\ DOMAIN await' = Units
        /\ found'[u] = Blank(r) /\ await'[u] = IF r = "running" THEN "models" ELSE "done"
        /\ \A v \in Units \ {u} : found'[v] = found[v] /\ await'[v] = await[v]
    BY <2>1 DEF SeenInv
  <2>4. r # "unknown" => r \in was[u]
    BY <2>1, <2>2 DEF SeenInv, Refreshing, Facts
  <2>5. Blank(r).running = r /\ Blank(r).models = "none"
    BY DEF Blank
  <2>6. Progress(u)'
    BY <2>2, <2>3, <2>4, <2>5 DEF Progress, Told
  <2> QED BY <1>9, <2>2, <2>3, <2>6
<1>11. ASSUME NEW u \in Units, LoadedModels(u) PROVE SeenInv'
  <2>1. /\ pc = "units" /\ UNCHANGED <<table, active, was, pc>>
        /\ await[u] = "models" /\ await' = [await EXCEPT ![u] = "done"]
    BY <1>11 DEF LoadedModels, machine, observer
  <2>2. "running" \in was[u]
    BY <2>1 DEF SeenInv, Progress
  <2>3. PICK m \in {IF Loaded(u, table) THEN "some" ELSE "none", "failed"} :
          /\ found'[u].running = "running"
          /\ found'[u].models = IF m = "failed" \/ Asks[u] = "None" THEN "none" ELSE m
          /\ found'[u].models_error <=> (m = "failed" /\ Asks[u] = "Ollama")
    BY <1>11, ModelsAnswer
  <2>4. /\ DOMAIN found' = Units /\ DOMAIN await' = Units /\ await'[u] = "done"
        /\ \A v \in Units \ {u} : found'[v] = found[v] /\ await'[v] = await[v]
    BY <2>1, <1>11, ModelsAnswer DEF SeenInv
  <2>5. m = "some" => "loaded" \in was[u]
    BY <2>3, <2>1 DEF SeenInv, Refreshing, Facts
  <2>6. m = "none" => "idle" \in was[u]
    BY <2>3, <2>1 DEF SeenInv, Refreshing, Facts
  <2>7. Progress(u)'
    <3>1. \/ m = "some" /\ "loaded" \in was[u]
          \/ m = "none" /\ "idle" \in was[u]
          \/ m = "failed"
      BY <2>3, <2>5, <2>6
    <3>2. found'[u].models = "some" => "loaded" \in was[u]
      BY <2>3, <3>1
    <3>3. /\ found'[u].models = "none" /\ Asks[u] = "Ollama"
          /\ ~(m = "failed" /\ Asks[u] = "Ollama")
          => "idle" \in was[u]
      BY <2>3, <3>1
    <3>4. Told(u)'
      BY <2>3, <2>1, <2>2, <3>2, <3>3, Zenon DEF Told
    <3> QED BY <2>4, <3>4 DEF Progress
  <2> QED BY <1>9, <2>1, <2>4, <2>7
<1>12. CASE UNCHANGED vars
  BY <1>1, <1>12 DEF vars, machine, futures, shown, observer, Refreshing, SeenInv
\* The machine moves, and the observer notes it.
<1>13. CASE ProcessMoves \/ UnitMoves
  <2>1. /\ was' = [u \in Units |-> was[u] \cup
                     IF Refreshing THEN Facts(u, table', active') ELSE {}]
        /\ UNCHANGED <<found, await, pc>> /\ pc # "done"
    BY <1>13 DEF ProcessMoves, UnitMoves, Note, futures, Refreshing
  <2>2. DOMAIN was' = Units /\ \A u \in Units : was[u] \subseteq was'[u]
    BY <2>1
  <2>3. \A u \in Units : Progress(u)'
    BY <2>1, <2>2 DEF SeenInv, Progress, Told
  <2>4. Refreshing' => \A u \in Units : Facts(u, table', active') \subseteq was'[u]
    BY <2>1 DEF Refreshing
  <2> QED BY <2>1, <2>2, <2>3, <2>4 DEF SeenInv
<1> QED BY <1>2, <1>3, <1>4, <1>5, <1>6, <1>7, <1>8, <1>10, <1>11, <1>12, <1>13
        DEF Next, RefreshStep

(***************************************************************************)
(* /status shows nothing of a unit that was not so during the refresh that *)
(* published it, and an API that does not answer is not an idle one        *)
(* (refresh_substate, is_running, loaded_models).                          *)
(***************************************************************************)
THEOREM StatusIsFresh == Spec => []StatusIsOfThisRefresh
<1>1. SeenInv => StatusIsOfThisRefresh
  BY DEF SeenInv, Progress, Told, StatusIsOfThisRefresh
<1> QED BY <1>1, SeenInit, SeenStep, PTL DEF Spec

-----------------------------------------------------------------------------
(***************************************************************************)
(* The attribution of the VRAM: a cgroup names the unit whose process it   *)
(* is, if the pid is still the one that was listed; and it names no other, *)
(* unless it is nested.                                                    *)
(***************************************************************************)
LEMMA CgroupNamesUnit ==
  ASSUME NEW g \in Programs, NEW u \in Units
  PROVE  /\ u \in Systemd /\ g.of = u => unit_from_cgroup(g.cgroup) = u
         /\ unit_from_cgroup(g.cgroup) = u => (u \in Systemd /\ g.of = u) \/ Nested(g.cgroup, u)
<1> DEFINE path == g.cgroup
           hits == {i \in DOMAIN path : /\ path[i] \in UnitNames
                                        /\ \E j \in 1..i - 1 : path[j] = "system.slice"}
<1>1. unit_from_cgroup(path) = IF hits = {} THEN Unset ELSE path[Max(hits)]
  BY DEF unit_from_cgroup
<1>2. Len(path) \in Nat /\ DOMAIN path = 1..Len(path)
  <2>1. path \in Seq(Range(path))
    BY CgroupAssumption
  <2> HIDE DEF path
  <2> QED BY <2>1, LenProperties
<1>3. u # Unset /\ u \in UnitNames /\ u # "system.slice"
  BY SubstateAssumption DEF UnitNames
<1>4. hits # {} => Max(hits) \in hits
  <2>1. hits \in SUBSET (0..Len(path))
    BY <1>2
  <2> HIDE DEF hits, path
  <2> QED BY <1>2, <2>1, MaxIsGreatest
<1>5. \A i \in DOMAIN path : path[i] \in Range(path)
  BY DEF Range
<1>6. ASSUME unit_from_cgroup(path) = u PROVE {"system.slice", u} \subseteq Range(path)
  <2> DEFINE m == Max(hits)
  <2>1. path[m] = u /\ m \in hits
    BY <1>1, <1>3, <1>4, <1>6
  <2>2. PICK j \in 1..m - 1 : path[j] = "system.slice"
    BY <2>1
  <2>3. m \in DOMAIN path /\ j \in DOMAIN path
    <3>1. m \in 1..Len(path)
      BY <1>2, <2>1
    <3> HIDE DEF m, path
    <3> QED BY <1>2, <2>2, <3>1
  <2> HIDE DEF m, path
  <2> QED BY <1>5, <2>1, <2>2, <2>3
<1>7. ASSUME InUnit(path, u) PROVE unit_from_cgroup(path) = u
  <2>1. path # <<>> /\ path[1] = "system.slice" /\ Range(path) \cap UnitNames = {u}
    BY <1>7 DEF InUnit
  <2>2. PICK i \in DOMAIN path : path[i] = u
    BY <2>1 DEF Range
  <2>3. 1 \in 1..i - 1
    <3>1. i \in 1..Len(path) /\ i # 1
      BY <1>2, <1>3, <2>1, <2>2
    <3> HIDE DEF path
    <3> QED BY <1>2, <3>1
  <2>4. i \in hits
    BY <1>3, <2>1, <2>2, <2>3
  <2> DEFINE m == Max(hits)
  <2>5. m \in DOMAIN path /\ path[m] \in UnitNames
    BY <1>4, <2>4
  <2>6. path[m] = u
    BY <1>5, <2>1, <2>5
  <2> QED BY <1>1, <2>4, <2>6
<1>8. InUnit(path, u) <=> u \in Systemd /\ g.of = u
  BY CgroupAssumption
<1> QED BY <1>6, <1>7, <1>8 DEF Nested

Listed == pc \in {"cgroups", "units", "memory", "done"}

Owned(p) ==
  \A u \in Units :
    /\ u \in Systemd /\ then[p].of = u => compute[p].owning_unit = u
    /\ compute[p].owning_unit = u =>
         (u \in Systemd /\ then[p].of = u) \/ Nested(then[p].cgroup, u)

VramInv ==
  /\ DOMAIN compute \subseteq Pids /\ unread \subseteq DOMAIN compute
  /\ \A p \in DOMAIN compute :
       /\ DOMAIN compute[p] = {"name", "vram_mb", "owning_unit"}
       /\ compute[p].vram_mb \in Nat
  /\ Listed => \A p \in DOMAIN compute :
       /\ then[p] \in Programs /\ (p \in steady => table[p] = then[p])
       /\ compute[p].name = then[p].cmdline
       /\ compute[p].vram_mb = IF then[p].told THEN then[p].vram ELSE 0
  /\ Listed => \A p \in DOMAIN compute \ unread : p \in steady => Owned(p)
  /\ pc \in {"units", "memory", "done"} => unread = {}
  /\ \A u \in Units :
       await[u] = "done" /\ found[u].running = "running" /\ ~failed =>
         found[u].vram_mb = vram_mb(u)

LEMMA VramInit == Init => VramInv
<1> SUFFICES ASSUME Init PROVE VramInv
  OBVIOUS
<1>1. compute = <<>> /\ unread = {} /\ pc \in {"list", "compute"}
      /\ \A u \in Units : await[u] = "is-active"
  BY DEF Init
<1>2. DOMAIN compute = {}
  BY <1>1
<1> QED BY <1>1, <1>2 DEF VramInv, Listed

LEMMA VramStep == WalkInv /\ ClockInv /\ SeenInv /\ VramInv /\ [Next]_vars => VramInv'
<1> SUFFICES ASSUME WalkInv, ClockInv, SeenInv, VramInv, [Next]_vars PROVE VramInv'
  OBVIOUS
\* The steps that leave the list alone and move on.
<1>1. ASSUME UNCHANGED <<compute, unread, failed, await, found>>,
             Listed' => Listed /\ UNCHANGED <<table, steady, then>>,
             pc' \in {"units", "memory", "done"} => unread = {}
      PROVE  VramInv'
  <2>1. \A u \in Units : vram_mb(u)' = vram_mb(u)
    BY <1>1 DEF vram_mb, VramOf
  <2>2. Listed' => Listed /\ \A p \in DOMAIN compute : Owned(p) => Owned(p)'
    BY <1>1 DEF Owned
  <2> QED BY <1>1, <2>1, <2>2 DEF VramInv
<1>2. CASE Scan
  <2>1. /\ UNCHANGED <<compute, unread, failed, await, found>>
        /\ pc' \in {"walk", "scanned"}
    BY <1>2 DEF Scan, ListProc, ReadProc, ScanDone, scanning, listing, futures
  <2> QED BY <1>1, <2>1 DEF Listed
<1>3. CASE QueryCompute
  <2>1. /\ compute' = [p \in {q \in Alive : /\ backend = "nvidia" /\ ~failed'
                                            /\ table[q].computes} |->
                         GpuComputeProc(table[p])]
        /\ unread' = DOMAIN compute' /\ then' = table /\ table' = table
        /\ pc = "compute" /\ pc' = "cgroups" /\ await' = await
    BY <1>3 DEF QueryCompute, machine, futures
  <2>2. \A p \in Alive : p \in Pids /\ table[p] \in Programs
    BY DEF Alive, WalkInv, Table
  <2>3. \A p \in Alive :
          /\ DOMAIN GpuComputeProc(table[p]) = {"name", "vram_mb", "owning_unit"}
          /\ GpuComputeProc(table[p]).name = table[p].cmdline
          /\ GpuComputeProc(table[p]).vram_mb = IF table[p].told THEN table[p].vram ELSE 0
          /\ GpuComputeProc(table[p]).vram_mb \in Nat
    BY <2>2, CgroupAssumption DEF GpuComputeProc
  <2>4. /\ DOMAIN compute' \subseteq Alive
        /\ \A p \in DOMAIN compute' : compute'[p] = GpuComputeProc(table[p])
    BY <2>1
  <2>5. \A u \in Units : await'[u] # "done"
    BY <2>1 DEF ClockInv
  <2> QED BY <2>1, <2>2, <2>3, <2>4, <2>5 DEF VramInv, Listed
<1>4. CASE ReadCgroup
  <2> DEFINE p == Min(unread)
             owner == IF table[p] = Gone THEN Unset ELSE unit_from_cgroup(table[p].cgroup)
  <2>1. /\ pc = "cgroups" /\ pc' = "cgroups" /\ unread # {} /\ unread' = unread \ {p}
        /\ compute' = [compute EXCEPT ![p].owning_unit = owner]
        /\ UNCHANGED <<table, steady, then, await>>
    BY <1>4 DEF ReadCgroup, machine, scanning, futures, observer
  <2>2. p \in unread /\ p \in DOMAIN compute
    BY <2>1, MinIsLeast, ProcScanAssumption DEF VramInv
  <2>3. p \in steady => \A u \in Units :
          /\ u \in Systemd /\ then[p].of = u => owner = u
          /\ owner = u => (u \in Systemd /\ then[p].of = u) \/ Nested(then[p].cgroup, u)
    <3>1. p \in steady => table[p] = then[p] /\ then[p] \in Programs /\ then[p] # Gone
      BY <2>1, <2>2, ProcScanAssumption DEF VramInv, Listed
    <3> QED BY <3>1, CgroupNamesUnit
  <2> HIDE DEF p, owner
  <2>4. /\ DOMAIN compute' = DOMAIN compute
        /\ compute'[p] = [compute[p] EXCEPT !.owning_unit = owner]
        /\ \A q \in DOMAIN compute \ {p} : compute'[q] = compute[q]
    BY <2>1, <2>2
  <2>5. /\ DOMAIN compute'[p] = DOMAIN compute[p]
        /\ compute'[p].vram_mb = compute[p].vram_mb /\ compute'[p].name = compute[p].name
        /\ compute'[p].owning_unit = owner
    BY <2>2, <2>4 DEF VramInv
  <2>6. ASSUME NEW q \in DOMAIN compute' \ unread', q \in steady' PROVE Owned(q)'
    <3>1. CASE q = p
      BY <2>1, <2>3, <2>5, <2>6, <3>1 DEF Owned
    <3>2. CASE q # p
      <4>1. Owned(q) /\ compute'[q] = compute[q]
        BY <2>1, <2>4, <2>6, <3>2 DEF VramInv, Listed
      <4> QED BY <2>1, <4>1 DEF Owned
    <3> QED BY <3>1, <3>2
  <2>7. \A u \in Units : await'[u] # "done"
    BY <2>1 DEF ClockInv
  <2> QED BY <2>1, <2>2, <2>4, <2>5, <2>6, <2>7 DEF VramInv, Listed
<1>5. CASE CgroupsRead
  <2>1. /\ UNCHANGED <<compute, unread, failed, await, found, table, steady, then>>
        /\ pc = "cgroups" /\ unread = {}
    BY <1>5 DEF CgroupsRead, machine, scanning, listing, futures, observer
  <2> QED BY <1>1, <2>1 DEF Listed
<1>6. CASE UnitsDone
  BY <1>1, <1>6 DEF UnitsDone, machine, scanning, listing, observer, Listed, VramInv
<1>7. CASE QueryMemory
  BY <1>1, <1>7 DEF QueryMemory, machine, scanning, listing, futures, observer, Listed, VramInv
<1>8. CASE Tick
  BY <1>1, <1>8 DEF Tick, machine, scanning, listing, Listed, VramInv
\* A unit answers: nothing is known of its VRAM, or it is computed.
<1>9. ASSUME NEW u \in Units, pc = "units", await[u] # "done",
             UNCHANGED <<table, steady, then, pc, compute, unread, failed>>,
             \A v \in Units \ {u} : found'[v] = found[v] /\ await'[v] = await[v],
             await'[u] = "done" /\ found'[u].running = "running" /\ ~failed =>
               found'[u].vram_mb = vram_mb(u)
      PROVE  VramInv'
  <2>1. \A v \in Units : vram_mb(v)' = vram_mb(v)
    BY <1>9 DEF vram_mb, VramOf
  <2>2. Listed' => Listed /\ \A p \in DOMAIN compute : Owned(p) => Owned(p)'
    BY <1>9 DEF Owned, Listed
  <2>3. \A v \in Units :
          await'[v] = "done" /\ found'[v].running = "running" /\ ~failed =>
            found'[v].vram_mb = vram_mb(v)
    BY <1>9 DEF VramInv
  <2> QED BY <1>9, <2>1, <2>2, <2>3 DEF VramInv
<1>10. ASSUME NEW u \in Units, IsRunning(u) PROVE VramInv'
  <2>1. PICK r \in {IF u \in active THEN "running" ELSE "stopped", "unknown"} :
          /\ found' = [found EXCEPT ![u] = Blank(r)]
          /\ await' = [await EXCEPT ![u] = IF r = "running" THEN "models" ELSE "done"]
    BY <1>10 DEF IsRunning
  <2>2. /\ pc = "units" /\ await[u] # "done"
        /\ UNCHANGED <<table, steady, then, pc, compute, unread, failed>>
    BY <1>10 DEF IsRunning, machine, scanning, listing, observer
  <2>3. /\ found'[u] = Blank(r) /\ await'[u] = IF r = "running" THEN "models" ELSE "done"
        /\ \A v \in Units \ {u} : found'[v] = found[v] /\ await'[v] = await[v]
    BY <2>1 DEF SeenInv
  <2>4. Blank(r).running = r
    BY DEF Blank
  <2> QED BY <1>9, <2>2, <2>3, <2>4
<1>11. ASSUME NEW u \in Units, LoadedModels(u) PROVE VramInv'
  <2>1. /\ pc = "units" /\ await[u] # "done" /\ await' = [await EXCEPT ![u] = "done"]
        /\ UNCHANGED <<table, steady, then, pc, compute, unread, failed>>
    BY <1>11 DEF LoadedModels, machine, scanning, listing, observer
  <2>2. /\ \A v \in Units \ {u} : found'[v] = found[v] /\ await'[v] = await[v]
        /\ ~failed => found'[u].vram_mb = vram_mb(u)
    BY <1>11, <2>1, ModelsAnswer DEF SeenInv
  <2> QED BY <1>9, <2>1, <2>2
<1>12. CASE UnitMoves \/ UNCHANGED vars
  BY <1>1, <1>12 DEF UnitMoves, Note, vars, machine, scanning, listing, futures, observer, Listed,
                     VramInv
<1>13. CASE ProcessMoves
  <2>1. PICK p \in Pids, g \in Programs \cup {Gone} : Becomes(p, g)
    BY <1>13 DEF ProcessMoves, Listable
  <2>2. /\ table' = [table EXCEPT ![p] = g] /\ steady' = steady \ {p}
        /\ UNCHANGED <<compute, unread, failed, await, found, then, pc>>
    BY <1>13, <2>1 DEF Becomes, ProcessMoves, Note, listing, futures
  <2>3. \A q \in steady' : q \in steady /\ q # p
    BY <2>2
  <2>4. \A q \in Pids \ {p} : table'[q] = table[q]
    BY <2>2 DEF WalkInv, Table
  <2>5. \A u \in Units : vram_mb(u)' = vram_mb(u)
    BY <2>2 DEF vram_mb, VramOf
  <2>6. Listed' => Listed /\ \A q \in DOMAIN compute : Owned(q) => Owned(q)'
    BY <2>2 DEF Owned, Listed
  <2> QED BY <2>2, <2>3, <2>4, <2>5, <2>6 DEF VramInv
<1> QED BY <1>2, <1>3, <1>4, <1>5, <1>6, <1>7, <1>8, <1>10, <1>11, <1>12, <1>13
        DEF Next, RefreshStep

\* What a set of listed processes held, and what the list says of it, are sums: a larger
\* set has no less of either, and the list says no more than they held and, where the
\* driver tells it, no less.
LEMMA VramIsASum ==
  ASSUME VramInv, Listed, NEW S \in SUBSET DOMAIN compute, NEW T \in SUBSET DOMAIN compute
  PROVE  /\ VramOf(S) \in Nat /\ VramOf({}) = 0 /\ Held(S) \in Nat /\ Held({}) = 0
         /\ S \subseteq T => VramOf(S) <= VramOf(T) /\ Held(S) <= Held(T)
         /\ VramOf(S) <= Held(S)
         /\ (\A p \in S : then[p].told) => Held(S) <= VramOf(S)
<1> DEFINE cells == [p \in DOMAIN compute |-> compute[p].vram_mb]
           truth == [p \in DOMAIN compute |-> then[p].vram]
<1>1. \A p \in DOMAIN compute :
        /\ cells[p] \in Nat /\ truth[p] \in Nat /\ cells[p] <= truth[p]
        /\ then[p].told => truth[p] <= cells[p]
  <2> SUFFICES ASSUME NEW p \in DOMAIN compute
               PROVE  /\ cells[p] \in Nat /\ truth[p] \in Nat /\ cells[p] <= truth[p]
                      /\ then[p].told => truth[p] <= cells[p]
    OBVIOUS
  <2>1. then[p].vram \in Nat
    BY CgroupAssumption DEF VramInv
  <2>2. compute[p].vram_mb = IF then[p].told THEN then[p].vram ELSE 0
    BY DEF VramInv
  <2> QED BY <2>1, <2>2
<1>2. \A s : VramOf(s) = Total(cells, s) /\ Held(s) = Total(truth, s)
  BY SumIsTotal DEF VramOf, Held
<1>3. IsFiniteSet(DOMAIN compute)
  BY ProcScanAssumption, FS_Subset DEF VramInv
<1>4. IsFiniteSet(S) /\ IsFiniteSet(T) /\ IsFiniteSet({})
  BY <1>3, FS_Subset, FS_EmptySet
<1> HIDE DEF cells, truth
<1>5. /\ \A p \in S : cells[p] \in Nat /\ truth[p] \in Nat /\ cells[p] <= truth[p]
      /\ \A p \in T : cells[p] \in Nat /\ truth[p] \in Nat
      /\ (\A p \in S : then[p].told) => \A p \in S : truth[p] <= cells[p]
  BY <1>1
<1>6. /\ Total(cells, S) \in Nat /\ Total(cells, {}) = 0
      /\ Total(truth, S) \in Nat /\ Total(truth, {}) = 0
  BY <1>4, <1>5, TotalUnrolls
<1>7. S \subseteq T => Total(cells, S) <= Total(cells, T) /\ Total(truth, S) <= Total(truth, T)
  BY <1>4, <1>5, TotalGrows
<1>8. Total(cells, S) <= Total(truth, S)
  BY <1>4, <1>5, TotalBelow
<1>9. (\A p \in S : then[p].told) => Total(truth, S) <= Total(cells, S)
  BY <1>4, <1>5, TotalBelow
<1> QED BY <1>2, <1>6, <1>7, <1>8, <1>9

(***************************************************************************)
(* The VRAM that /status shows of a running unit is no less than what its  *)
(* own processes held when they were listed, as far as the driver told it, *)
(* and no more than what they all held, with those that its vram_match     *)
(* names, those nested in another cgroup and the pids that changed hands   *)
(* while their cgroups were read (query_compute_procs, attribute_units,    *)
(* vram_mb_by_cgroup, vram_mb_matching).                                   *)
(***************************************************************************)
THEOREM VramIsOwn == Spec => []VramIsTheUnits
<1>1. ASSUME SeenInv, VramInv PROVE VramIsTheUnits
  <2> DEFINE told    == {p \in DOMAIN compute : then[p].told}
             loose(u) == {p \in DOMAIN compute : \/ Named(u, then[p].cmdline) \/ p \notin steady
                                                 \/ Nested(then[p].cgroup, u)}
             vram(u) == IF units[u].vram_mb = Unset THEN 0 ELSE units[u].vram_mb
  <2> SUFFICES ASSUME pc = "done", ~failed, NEW u \in Units, units[u].running = "running"
               PROVE  vram(u) \in Held(Own(u) \cap steady \cap told)..Held(Own(u) \cup loose(u))
    BY DEF VramIsTheUnits
  <2> DEFINE own   == Own(u) \cap steady \cap told
             most  == Own(u) \cup loose(u)
             named == {p \in DOMAIN compute : Named(u, compute[p].name)}
             owned == {p \in DOMAIN compute : compute[p].owning_unit = u}
  <2>1. units[u].vram_mb = vram_mb(u) /\ Listed
    BY <1>1 DEF SeenInv, VramInv, Listed
  <2>2. \A p \in DOMAIN compute : p \in steady => Owned(p)
    BY <1>1, <2>1 DEF VramInv
  <2>3. own \subseteq owned
    BY <2>2 DEF Own, Owned
  <2>4. owned \subseteq most
    BY <2>2 DEF Own, Owned
  <2>5. named \subseteq most
    BY <1>1, <2>1 DEF VramInv
  <2>6. /\ own \in SUBSET DOMAIN compute /\ most \in SUBSET DOMAIN compute
        /\ owned \in SUBSET DOMAIN compute /\ named \in SUBSET DOMAIN compute
    BY DEF Own
  <2>7. \A p \in own : then[p].told
    OBVIOUS
  <2>8. vram_mb(u) = CASE owned # {} -> VramOf(owned)
                       [] owned = {} /\ named # {} -> VramOf(named)
                       [] owned \cup named = {} -> Unset
    BY DEF vram_mb
  <2>9. Unset \notin Nat
    BY SubstateAssumption
  <2>10. vram(u) = IF units[u].vram_mb = Unset THEN 0 ELSE units[u].vram_mb
    OBVIOUS
  <2> SUFFICES vram(u) \in Held(own)..Held(most)
    OBVIOUS
  <2> HIDE DEF own, most, named, owned, vram
  <2>11. /\ Held(own) \in Nat /\ Held(most) \in Nat /\ Held({}) = 0
         /\ VramOf(owned) \in Nat /\ VramOf(named) \in Nat
         /\ Held(own) <= VramOf(own) /\ VramOf(own) <= VramOf(owned) /\ VramOf(own) \in Nat
         /\ VramOf(most) <= Held(most) /\ VramOf(most) \in Nat
         /\ VramOf(owned) <= VramOf(most) /\ VramOf(named) <= VramOf(most)
    BY <1>1, <2>1, <2>3, <2>4, <2>5, <2>6, <2>7, VramIsASum
  <2>12. CASE owned # {}
    <3>1. vram(u) = VramOf(owned)
      BY <2>1, <2>8, <2>9, <2>10, <2>11, <2>12
    <3> QED BY <2>11, <3>1
  <2>13. owned = {} => Held(own) = 0
    BY <2>3, <2>11
  <2>14. CASE owned = {} /\ named # {}
    <3>1. vram(u) = VramOf(named)
      BY <2>1, <2>8, <2>9, <2>10, <2>11, <2>14
    <3> QED BY <2>11, <2>13, <2>14, <3>1
  <2>15. CASE owned = {} /\ named = {}
    <3>1. vram(u) = 0
      BY <2>1, <2>8, <2>10, <2>15
    <3> QED BY <2>11, <2>13, <2>15, <3>1
  <2> QED BY <2>12, <2>14, <2>15
<1> QED BY <1>1, WalkInit, WalkStep, ClockInit, ClockStep, SeenInit, SeenStep, VramInit, VramStep,
           PTL DEF Spec

=============================================================================
