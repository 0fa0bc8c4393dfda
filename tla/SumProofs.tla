------------------------------ MODULE SumProofs ------------------------------
(***************************************************************************)
(* Sums over finite sets: what SumFunctionOnSet adds up, for every         *)
(* function and every finite set of its arguments.                         *)
(*                                                                         *)
(* SumFunctionOnSet is a fold, defined with a table that CHOOSE picks: a   *)
(* table gives a set's sum from that of the set without one element of it. *)
(* The lemmas show that such a table exists, that all of them agree, and   *)
(* that the element taken first does not matter.  Induction over the       *)
(* subsets of a set is by a least counterexample: proper inclusion is well *)
(* founded on the finite sets.                                             *)
(***************************************************************************)
EXTENDS FiniteSetsExt, FiniteSetTheorems, TLAPS

(* Induction over the subsets of a finite set: what holds of a subset when *)
(* it holds of that subset without any one element holds of the set.       *)
LEMMA SetInduction ==
  ASSUME NEW S, IsFiniteSet(S), NEW Q,
         \A s \in SUBSET S : (\A x \in s : s \ {x} \in Q) => s \in Q
  PROVE  S \in Q
<1> DEFINE T == {s \in SUBSET S : s \notin Q}
<1>1. IsWellFoundedOn(StrictSubsetOrdering(S), SUBSET S)
  BY FS_StrictSubsetOrderingWellFounded, FS_FiniteSubsetsOfFinite
<1>2. SUFFICES ASSUME S \notin Q PROVE FALSE
  OBVIOUS
<1>3. T \subseteq SUBSET S /\ T # {}
  BY <1>2
<1> HIDE DEF T
<1>4. PICK s \in T : \A r \in T : ~(<<r, s>> \in StrictSubsetOrdering(S))
  BY <1>1, <1>3, WFMin
<1>5. s \in SUBSET S /\ s \notin Q
  BY <1>4 DEF T
<1>6. ASSUME NEW x \in s, s \ {x} \notin Q PROVE FALSE
  <2>1. s \ {x} \in T
    BY <1>5, <1>6 DEF T
  <2>2. <<s \ {x}, s>> \in StrictSubsetOrdering(S)
    <3>1. s \ {x} \in SUBSET S /\ s \ {x} \subseteq s /\ s \ {x} # s
      BY <1>5, <1>6
    <3> QED BY <1>5, <3>1 DEF StrictSubsetOrdering
  <2> QED BY <1>4, <2>1, <2>2
<1> QED
  BY <1>5, <1>6

(* The element of a set that the fold takes first.                         *)
Pick(s) == CHOOSE x \in s : TRUE

(* A table of sums of f: g gives the sum for every set in D.               *)
IsTable(f, D, g) ==
  g = [s \in D |-> IF s = {} THEN 0 ELSE f[Pick(s)] + g[s \ {Pick(s)}]]

(* The element taken is one of the set's.                                  *)
LEMMA PickIsElement == ASSUME NEW S, S # {} PROVE Pick(S) \in S
BY DEF Pick

(* A table for D gives one for E, when the two share the smaller sets that *)
(* both refer to.                                                          *)
LEMMA LargerTable ==
  ASSUME NEW f, NEW D, NEW E, NEW g, IsTable(f, D, g),
         \A s \in D \cup E : s # {} => s \ {Pick(s)} \in D \cap E
  PROVE  \E h : IsTable(f, E, h)
<1> DEFINE h == [s \in E |-> IF s = {} THEN 0 ELSE f[Pick(s)] + g[s \ {Pick(s)}]]
<1>1. \A r \in D \cap E : h[r] = g[r]
  BY DEF IsTable
<1>2. \A s \in E : s # {} => h[s \ {Pick(s)}] = g[s \ {Pick(s)}]
  BY <1>1
<1> HIDE DEF h
<1>3. h = [s \in E |-> IF s = {} THEN 0 ELSE f[Pick(s)] + h[s \ {Pick(s)}]]
  <2>1. h = [s \in E |-> IF s = {} THEN 0 ELSE f[Pick(s)] + g[s \ {Pick(s)}]]
    BY DEF h
  <2> QED BY <1>2, <2>1
<1> QED
  BY <1>3 DEF IsTable

(* Any function has a table of sums for the subsets of a finite set.       *)
LEMMA TableExists ==
  ASSUME NEW f, NEW S, IsFiniteSet(S)
  PROVE  \E g : IsTable(f, SUBSET S, g)
<1> DEFINE Small(s) == {r \in SUBSET S : Cardinality(r) <= Cardinality(s)}
           Q == {s \in SUBSET S : \E g : IsTable(f, Small(s), g)}
<1>1. \A r \in SUBSET S : IsFiniteSet(r) /\ Cardinality(r) \in Nat
  BY FS_Subset, FS_CardinalityType
<1>2. \A r \in SUBSET S : \A x \in r : Cardinality(r \ {x}) = Cardinality(r) - 1
  BY <1>1, FS_RemoveElement
<1>3. ASSUME NEW s \in SUBSET S, \A x \in s : s \ {x} \in Q PROVE s \in Q
  <2>1. CASE s = {}
    <3>1. Small(s) = {{}}
      BY <1>1, <2>1, FS_EmptySet
    <3>2. IsTable(f, {{}}, [r \in {{}} |-> 0])
      BY DEF IsTable
    <3> QED BY <3>1, <3>2
  <2>2. CASE s # {}
    <3>1. PICK x : x \in s
      BY <2>2
    <3>2. PICK g : IsTable(f, Small(s \ {x}), g)
      BY <1>3, <3>1
    <3>3. Cardinality(s \ {x}) = Cardinality(s) - 1 /\ Cardinality(s) \in Nat
      BY <1>1, <1>2, <3>1
    <3>4. ASSUME NEW r \in Small(s \ {x}) \cup Small(s), r # {}
          PROVE  r \ {Pick(r)} \in Small(s \ {x}) \cap Small(s)
      <4>1. r \in SUBSET S /\ Cardinality(r) <= Cardinality(s)
        BY <1>1, <3>3
      <4>2. Pick(r) \in r
        BY <3>4, PickIsElement
      <4>3. Cardinality(r \ {Pick(r)}) = Cardinality(r) - 1 /\ Cardinality(r) \in Nat
        BY <1>1, <1>2, <4>1, <4>2
      <4> QED BY <3>3, <4>1, <4>3
    <3> HIDE DEF Small
    <3>5. \E h : IsTable(f, Small(s), h)
      BY <3>2, <3>4, LargerTable
    <3> QED BY <3>5
  <2> QED BY <2>1, <2>2
<1>4. S \in Q
  <2> HIDE DEF Q
  <2> QED BY <1>3, SetInduction
<1>5. Small(S) = SUBSET S
  BY <1>1, FS_Subset
<1> QED
  BY <1>4, <1>5

(* Two tables of the same function give a set the same sum.                *)
LEMMA TablesAgree ==
  ASSUME NEW f, NEW R, IsFiniteSet(R), NEW S, R \subseteq S, NEW g, NEW h,
         IsTable(f, SUBSET S, g), IsTable(f, SUBSET R, h)
  PROVE  g[R] = h[R]
<1> DEFINE Q == {r \in SUBSET R : g[r] = h[r]}
<1>1. ASSUME NEW r \in SUBSET R, \A x \in r : r \ {x} \in Q PROVE r \in Q
  <2>1. g[r] = (IF r = {} THEN 0 ELSE f[Pick(r)] + g[r \ {Pick(r)}])
    BY DEF IsTable
  <2>2. h[r] = (IF r = {} THEN 0 ELSE f[Pick(r)] + h[r \ {Pick(r)}])
    BY DEF IsTable
  <2>3. r # {} => g[r \ {Pick(r)}] = h[r \ {Pick(r)}]
    BY <1>1, PickIsElement
  <2> QED BY <2>1, <2>2, <2>3
<1>2. R \in Q
  <2> HIDE DEF Q
  <2> QED BY <1>1, SetInduction
<1> QED
  BY <1>2

(* The library's sum is what a table says.                                 *)
LEMMA SumIsTable ==
  ASSUME NEW f, NEW S, IsFiniteSet(S)
  PROVE \E g : IsTable(f, SUBSET S, g) /\ SumFunctionOnSet(f, S) = g[S]
<1> DEFINE G == CHOOSE g : IsTable(f, SUBSET S, g)
<1>1. IsTable(f, SUBSET S, G)
  BY TableExists
<1>2. SumFunctionOnSet(f, S) = G[S]
  BY DEF SumFunctionOnSet, FoldFunctionOnSet, MapThenFoldSet, Pick, IsTable
<1> QED BY <1>1, <1>2

(* Nothing adds up to zero.                                                *)
LEMMA SumEmpty == ASSUME NEW f PROVE SumFunctionOnSet(f, {}) = 0
<1>1. PICK g : IsTable(f, SUBSET {}, g) /\ SumFunctionOnSet(f, {}) = g[{}]
  BY SumIsTable, FS_EmptySet
<1> QED
  BY <1>1 DEF IsTable

(* The sum over a set is the term of the element taken first and the rest. *)
LEMMA SumPick ==
  ASSUME NEW f, NEW S, IsFiniteSet(S), S # {}
  PROVE  SumFunctionOnSet(f, S) = f[Pick(S)] + SumFunctionOnSet(f, S \ {Pick(S)})
<1> DEFINE R == S \ {Pick(S)}
<1>1. PICK g : IsTable(f, SUBSET S, g) /\ SumFunctionOnSet(f, S) = g[S]
  BY SumIsTable
<1>2. IsFiniteSet(R)
  BY FS_RemoveElement
<1>3. PICK h : IsTable(f, SUBSET R, h) /\ SumFunctionOnSet(f, R) = h[R]
  BY <1>2, SumIsTable
<1>4. g[R] = h[R]
  <2>1. R \subseteq S
    OBVIOUS
  <2> HIDE DEF R
  <2> QED BY <1>1, <1>2, <1>3, <2>1, TablesAgree
<1>5. g[S] = f[Pick(S)] + g[R]
  BY <1>1 DEF IsTable
<1> QED
  BY <1>1, <1>3, <1>4, <1>5

(* A sum of integers is an integer.                                        *)
LEMMA SumInt ==
  ASSUME NEW f, NEW S, IsFiniteSet(S), \A x \in S : f[x] \in Int
  PROVE  SumFunctionOnSet(f, S) \in Int
<1> DEFINE Q == {s \in SUBSET S : SumFunctionOnSet(f, s) \in Int}
<1>1. ASSUME NEW s \in SUBSET S, \A x \in s : s \ {x} \in Q PROVE s \in Q
  <2>1. CASE s = {}
    BY <2>1, SumEmpty
  <2>2. CASE s # {}
    <3>1. Pick(s) \in s /\ IsFiniteSet(s)
      BY <2>2, PickIsElement, FS_Subset
    <3>2. SumFunctionOnSet(f, s) = f[Pick(s)] + SumFunctionOnSet(f, s \ {Pick(s)})
      BY <2>2, <3>1, SumPick
    <3> QED BY <1>1, <3>1, <3>2
  <2> QED BY <2>1, <2>2
<1>2. S \in Q
  <2> HIDE DEF Q
  <2> QED BY <1>1, SetInduction
<1> QED BY <1>2

(* Whichever element is taken from the set first, the sum is the same.     *)
LEMMA SumRemove ==
  ASSUME NEW f, NEW S, IsFiniteSet(S), \A x \in S : f[x] \in Int, NEW a \in S
  PROVE  SumFunctionOnSet(f, S) = f[a] + SumFunctionOnSet(f, S \ {a})
<1> DEFINE Sum(s) == SumFunctionOnSet(f, s)
           Q == {s \in SUBSET S : \A x \in s : Sum(s) = f[x] + Sum(s \ {x})}
<1>1. \A s \in SUBSET S : IsFiniteSet(s) /\ Sum(s) \in Int
  BY FS_Subset, SumInt
<1>2. \A s \in SUBSET S : s # {} => Sum(s) = f[Pick(s)] + Sum(s \ {Pick(s)})
  BY <1>1, SumPick
<1> HIDE DEF Sum
<1>3. ASSUME NEW s \in SUBSET S, \A x \in s : s \ {x} \in Q PROVE s \in Q
  <2>1. ASSUME NEW x \in s PROVE Sum(s) = f[x] + Sum(s \ {x})
    <3> DEFINE p == Pick(s)
    <3>1. p \in s
      BY PickIsElement
    <3> HIDE DEF p
    <3>2. Sum(s) = f[p] + Sum(s \ {p})
      BY <1>2 DEF p
    <3>3. CASE x = p
      BY <3>2, <3>3
    <3>4. CASE x # p
      <4>1. Sum(s \ {p}) = f[x] + Sum((s \ {p}) \ {x})
        BY <1>3, <3>1, <3>4
      <4>2. Sum(s \ {x}) = f[p] + Sum((s \ {x}) \ {p})
        BY <1>3, <3>1, <3>4
      <4>3. (s \ {p}) \ {x} = (s \ {x}) \ {p}
        OBVIOUS
      <4>4. f[p] \in Int /\ f[x] \in Int /\ Sum((s \ {x}) \ {p}) \in Int
        BY <1>1, <3>1
      <4> DEFINE rest == Sum((s \ {x}) \ {p})
      <4>5. Sum(s) = f[p] + (f[x] + rest) /\ Sum(s \ {x}) = f[p] + rest
        BY <3>2, <4>1, <4>2, <4>3
      <4> HIDE DEF rest
      <4> QED BY <4>4, <4>5 DEF rest
    <3> QED BY <3>3, <3>4
  <2> QED BY <2>1
<1>4. S \in Q
  <2> HIDE DEF Q
  <2> QED BY <1>3, SetInduction
<1> QED BY <1>4 DEF Sum

(* An element added to a set adds its term.                                *)
LEMMA SumAdd ==
  ASSUME NEW f, NEW S, IsFiniteSet(S), NEW a, a \notin S, \A x \in S \cup {a} : f[x] \in Int
  PROVE  SumFunctionOnSet(f, S \cup {a}) = f[a] + SumFunctionOnSet(f, S)
<1>1. IsFiniteSet(S \cup {a})
  BY FS_AddElement
<1>2. (S \cup {a}) \ {a} = S
  OBVIOUS
<1> QED BY <1>1, <1>2, SumRemove

(* Only the terms of the sum count.                                        *)
LEMMA SumSame ==
  ASSUME NEW f, NEW g, NEW S, IsFiniteSet(S), \A x \in S : f[x] = g[x]
  PROVE  SumFunctionOnSet(f, S) = SumFunctionOnSet(g, S)
<1> DEFINE Q == {s \in SUBSET S : SumFunctionOnSet(f, s) = SumFunctionOnSet(g, s)}
<1>1. ASSUME NEW s \in SUBSET S, \A x \in s : s \ {x} \in Q PROVE s \in Q
  <2>1. CASE s = {}
    BY <2>1, SumEmpty
  <2>2. CASE s # {}
    <3>1. Pick(s) \in s /\ IsFiniteSet(s)
      BY <2>2, PickIsElement, FS_Subset
    <3>2. SumFunctionOnSet(f, s) = f[Pick(s)] + SumFunctionOnSet(f, s \ {Pick(s)})
      BY <2>2, <3>1, SumPick
    <3>3. SumFunctionOnSet(g, s) = g[Pick(s)] + SumFunctionOnSet(g, s \ {Pick(s)})
      BY <2>2, <3>1, SumPick
    <3> QED BY <1>1, <3>1, <3>2, <3>3
  <2> QED BY <2>1, <2>2
<1>2. S \in Q
  <2> HIDE DEF Q
  <2> QED BY <1>1, SetInduction
<1> QED BY <1>2

(* A set that gains one element gains its term.                            *)
LEMMA SumGains ==
  ASSUME NEW f, NEW g, NEW S, IsFiniteSet(S), NEW a, a \notin S, g[a] \in Int,
         \A x \in S : f[x] \in Int /\ g[x] = f[x]
  PROVE  SumFunctionOnSet(g, S \cup {a}) = SumFunctionOnSet(f, S) + g[a]
<1>1. SumFunctionOnSet(g, S \cup {a}) = g[a] + SumFunctionOnSet(g, S)
  BY SumAdd
<1>2. SumFunctionOnSet(g, S) = SumFunctionOnSet(f, S) /\ SumFunctionOnSet(f, S) \in Int
  BY SumSame, SumInt
<1> QED BY <1>1, <1>2

(* A set that loses one element loses its term.                            *)
LEMMA SumLoses ==
  ASSUME NEW f, NEW g, NEW S, IsFiniteSet(S), NEW a \in S,
         \A x \in S : f[x] \in Int, \A x \in S \ {a} : g[x] = f[x]
  PROVE  SumFunctionOnSet(g, S \ {a}) = SumFunctionOnSet(f, S) - f[a]
<1>1. SumFunctionOnSet(f, S) = f[a] + SumFunctionOnSet(f, S \ {a})
  BY SumRemove
<1>2. IsFiniteSet(S \ {a})
  BY FS_RemoveElement
<1>3. SumFunctionOnSet(g, S \ {a}) = SumFunctionOnSet(f, S \ {a})
  BY <1>2, SumSame
<1>4. SumFunctionOnSet(f, S \ {a}) \in Int
  BY <1>2, SumInt
<1> QED BY <1>1, <1>3, <1>4

(* A sum changes by as much as the one term that changes.                  *)
LEMMA SumChange ==
  ASSUME NEW f, NEW g, NEW S, IsFiniteSet(S), NEW a \in S,
         \A x \in S : f[x] \in Int /\ g[x] \in Int,
         \A x \in S \ {a} : g[x] = f[x]
  PROVE  SumFunctionOnSet(g, S) = SumFunctionOnSet(f, S) - f[a] + g[a]
<1>1. SumFunctionOnSet(f, S) = f[a] + SumFunctionOnSet(f, S \ {a})
  BY SumRemove
<1>2. SumFunctionOnSet(g, S) = g[a] + SumFunctionOnSet(g, S \ {a})
  BY SumRemove
<1>3. IsFiniteSet(S \ {a})
  BY FS_RemoveElement
<1>4. SumFunctionOnSet(f, S \ {a}) = SumFunctionOnSet(g, S \ {a})
  BY <1>3, SumSame
<1>5. SumFunctionOnSet(f, S \ {a}) \in Int
  BY <1>3, SumInt
<1> QED BY <1>1, <1>2, <1>4, <1>5

(* The same when the set gains the element, if its old term was none.      *)
LEMMA SumPut ==
  ASSUME NEW f, NEW g, NEW S, IsFiniteSet(S), NEW a, NEW old, a \in S => f[a] = old,
         a \notin S => old = 0, g[a] \in Int,
         \A x \in S : f[x] \in Int, \A x \in S \ {a} : g[x] = f[x]
  PROVE  /\ IsFiniteSet(S \cup {a})
         /\ SumFunctionOnSet(g, S \cup {a}) = SumFunctionOnSet(f, S) - old + g[a]
<1>1. CASE a \in S
  <2>1. S \cup {a} = S /\ \A x \in S : g[x] \in Int
    BY <1>1
  <2>2. SumFunctionOnSet(g, S) = SumFunctionOnSet(f, S) - f[a] + g[a]
    BY <1>1, <2>1, SumChange
  <2> QED BY <1>1, <2>1, <2>2
<1>2. CASE a \notin S
  <2>1. SumFunctionOnSet(g, S \cup {a}) = SumFunctionOnSet(f, S) + g[a]
    BY <1>2, SumGains
  <2>2. SumFunctionOnSet(f, S) \in Int
    BY SumInt
  <2> QED BY <1>2, <2>1, <2>2, FS_AddElement
<1> QED BY <1>1, <1>2

(* A sum of natural numbers is a natural number.                           *)
LEMMA SumNat ==
  ASSUME NEW f, NEW S, IsFiniteSet(S), \A x \in S : f[x] \in Nat
  PROVE  SumFunctionOnSet(f, S) \in Nat
<1> DEFINE Q == {s \in SUBSET S : SumFunctionOnSet(f, s) \in Nat}
<1>1. ASSUME NEW s \in SUBSET S, \A x \in s : s \ {x} \in Q PROVE s \in Q
  <2>1. CASE s = {}
    BY <2>1, SumEmpty
  <2>2. CASE s # {}
    <3>1. Pick(s) \in s /\ IsFiniteSet(s)
      BY <2>2, PickIsElement, FS_Subset
    <3>2. SumFunctionOnSet(f, s) = f[Pick(s)] + SumFunctionOnSet(f, s \ {Pick(s)})
      BY <2>2, <3>1, SumPick
    <3> QED BY <1>1, <3>1, <3>2
  <2> QED BY <2>1, <2>2
<1>2. S \in Q
  <2> HIDE DEF Q
  <2> QED BY <1>1, SetInduction
<1> QED BY <1>2

(* No term of a sum of natural numbers is larger than the sum.             *)
LEMMA SumAtLeast ==
  ASSUME NEW f, NEW S, IsFiniteSet(S), \A x \in S : f[x] \in Nat, NEW a \in S
  PROVE  f[a] <= SumFunctionOnSet(f, S)
<1>1. SumFunctionOnSet(f, S) = f[a] + SumFunctionOnSet(f, S \ {a})
  BY SumRemove
<1>2. SumFunctionOnSet(f, S \ {a}) \in Nat
  BY FS_RemoveElement, SumNat
<1> QED BY <1>1, <1>2

(* A sum of nothing but zeros.                                             *)
LEMMA SumZero ==
  ASSUME NEW f, NEW S, IsFiniteSet(S), \A x \in S : f[x] = 0
  PROVE  SumFunctionOnSet(f, S) = 0
<1> DEFINE Q == {s \in SUBSET S : SumFunctionOnSet(f, s) = 0}
<1>1. ASSUME NEW s \in SUBSET S, \A x \in s : s \ {x} \in Q PROVE s \in Q
  <2>1. CASE s = {}
    BY <2>1, SumEmpty
  <2>2. CASE s # {}
    <3>1. Pick(s) \in s /\ IsFiniteSet(s)
      BY <2>2, PickIsElement, FS_Subset
    <3>2. SumFunctionOnSet(f, s) = f[Pick(s)] + SumFunctionOnSet(f, s \ {Pick(s)})
      BY <2>2, <3>1, SumPick
    <3> QED BY <1>1, <3>1, <3>2
  <2> QED BY <2>1, <2>2
<1>2. S \in Q
  <2> HIDE DEF Q
  <2> QED BY <1>1, SetInduction
<1> QED BY <1>2

(* The sum of the opposites is the opposite of the sum.                    *)
LEMMA SumNegates ==
  ASSUME NEW f, NEW g, NEW S, IsFiniteSet(S), \A x \in S : f[x] \in Int /\ g[x] = -f[x]
  PROVE  SumFunctionOnSet(g, S) = -SumFunctionOnSet(f, S)
<1> DEFINE Q == {s \in SUBSET S : SumFunctionOnSet(g, s) = -SumFunctionOnSet(f, s)}
<1>1. ASSUME NEW s \in SUBSET S, \A x \in s : s \ {x} \in Q PROVE s \in Q
  <2>1. CASE s = {}
    BY <2>1, SumEmpty
  <2>2. CASE s # {}
    <3>1. Pick(s) \in s /\ IsFiniteSet(s) /\ IsFiniteSet(s \ {Pick(s)})
      BY <2>2, PickIsElement, FS_Subset, FS_RemoveElement
    <3>2. SumFunctionOnSet(f, s \ {Pick(s)}) \in Int
      BY <3>1, SumInt
    <3>3. SumFunctionOnSet(g, s \ {Pick(s)}) = -SumFunctionOnSet(f, s \ {Pick(s)})
      BY <1>1, <3>1
    <3>4. /\ SumFunctionOnSet(f, s) = f[Pick(s)] + SumFunctionOnSet(f, s \ {Pick(s)})
          /\ SumFunctionOnSet(g, s) = g[Pick(s)] + SumFunctionOnSet(g, s \ {Pick(s)})
      BY <2>2, <3>1, SumPick
    <3>5. f[Pick(s)] \in Int /\ g[Pick(s)] = -f[Pick(s)]
      BY <3>1
    <3> QED BY <3>2, <3>3, <3>4, <3>5
  <2> QED BY <2>1, <2>2
<1>2. S \in Q
  <2> HIDE DEF Q
  <2> QED BY <1>1, SetInduction
<1> QED BY <1>2

(* A sum of ones counts.                                                   *)
LEMMA SumCounts ==
  ASSUME NEW f, NEW S, IsFiniteSet(S), \A x \in S : f[x] = 1
  PROVE  SumFunctionOnSet(f, S) = Cardinality(S)
<1> DEFINE Q == {s \in SUBSET S : SumFunctionOnSet(f, s) = Cardinality(s)}
<1>1. ASSUME NEW s \in SUBSET S, \A x \in s : s \ {x} \in Q PROVE s \in Q
  <2>1. CASE s = {}
    BY <2>1, SumEmpty, FS_EmptySet
  <2>2. CASE s # {}
    <3>1. Pick(s) \in s /\ IsFiniteSet(s)
      BY <2>2, PickIsElement, FS_Subset
    <3>2. SumFunctionOnSet(f, s \ {Pick(s)}) = Cardinality(s \ {Pick(s)})
      BY <1>1, <3>1
    <3>3. Cardinality(s \ {Pick(s)}) = Cardinality(s) - 1 /\ Cardinality(s) \in Nat
      BY <3>1, FS_RemoveElement, FS_CardinalityType
    <3>4. SumFunctionOnSet(f, s) = f[Pick(s)] + SumFunctionOnSet(f, s \ {Pick(s)})
      BY <2>2, <3>1, SumPick
    <3>5. f[Pick(s)] = 1
      BY <3>1
    <3> QED BY <3>2, <3>3, <3>4, <3>5
  <2> QED BY <2>1, <2>2
<1>2. S \in Q
  <2> HIDE DEF Q
  <2> QED BY <1>1, SetInduction
<1> QED BY <1>2

(* A sum is that of some of its terms and that of the rest.                *)
LEMMA SumSplit ==
  ASSUME NEW f, NEW S, IsFiniteSet(S), \A x \in S : f[x] \in Int, NEW R \in SUBSET S
  PROVE  SumFunctionOnSet(f, S) = SumFunctionOnSet(f, S \ R) + SumFunctionOnSet(f, R)
<1> DEFINE Sum(s) == SumFunctionOnSet(f, s)
           Q == {s \in SUBSET R : Sum(S) = Sum(S \ s) + Sum(s)}
<1>1. \A s \in SUBSET S : IsFiniteSet(s) /\ Sum(s) \in Int
  BY FS_Subset, SumInt
<1>2. ASSUME NEW s \in SUBSET R, \A x \in s : s \ {x} \in Q PROVE s \in Q
  <2>1. CASE s = {}
    <3>1. S \ s = S /\ Sum(s) = 0 /\ Sum(S) \in Int
      BY <1>1, <2>1, SumEmpty
    <3> QED BY <3>1
  <2>2. CASE s # {}
    <3> PICK a \in s : TRUE
      BY <2>2
    <3> DEFINE r == s \ {a}
    <3>1. /\ Sum(S) = Sum(S \ r) + Sum(r) /\ (S \ r) \ {a} = S \ s
          /\ a \in S \ r /\ S \ r \in SUBSET S /\ S \ s \in SUBSET S
          /\ s \in SUBSET S /\ r \in SUBSET S /\ f[a] \in Int
      BY <1>2
    <3>2. Sum(S \ r) = f[a] + Sum(S \ s) /\ Sum(s) = f[a] + Sum(r)
      BY <1>1, <3>1, SumRemove
    <3>3. Sum(S \ s) \in Int /\ Sum(r) \in Int
      BY <1>1, <3>1
    <3> HIDE DEF Sum
    <3> QED BY <3>1, <3>2, <3>3
  <2> QED BY <2>1, <2>2
<1>3. IsFiniteSet(R)
  BY FS_Subset
<1>4. R \in Q
  <2> HIDE DEF Q
  <2> QED BY <1>2, <1>3, SetInduction
<1> QED BY <1>4

(* A sum is the sum of the sums of its parts.                              *)
LEMMA SumOfParts ==
  ASSUME NEW f, NEW S, IsFiniteSet(S), NEW T, IsFiniteSet(T), NEW h,
         \A x \in S : h[x] \in T /\ f[x] \in Int
  PROVE  SumFunctionOnSet([t \in T |-> SumFunctionOnSet(f, {x \in S : h[x] = t})], T)
           = SumFunctionOnSet(f, S)
<1> DEFINE Part(s, t) == {x \in s : h[x] = t}
           G(s) == [t \in T |-> SumFunctionOnSet(f, Part(s, t))]
           Q == {s \in SUBSET S : SumFunctionOnSet(G(s), T) = SumFunctionOnSet(f, s)}
<1>1. \A s \in SUBSET S : IsFiniteSet(s) /\ SumFunctionOnSet(f, s) \in Int
  BY FS_Subset, SumInt
<1>2. ASSUME NEW s \in SUBSET S, \A x \in s : s \ {x} \in Q PROVE s \in Q
  <2>1. CASE s = {}
    <3>1. \A t \in T : G(s)[t] = 0
      BY <2>1, SumEmpty
    <3>2. SumFunctionOnSet(G(s), T) = 0
      <4> HIDE DEF G
      <4> QED BY <3>1, SumZero
    <3> QED BY <2>1, <3>2, SumEmpty
  <2>2. CASE s # {}
    <3> PICK a \in s : TRUE
      BY <2>2
    <3> DEFINE r == s \ {a}
    <3>1. /\ r \in SUBSET S /\ SumFunctionOnSet(G(r), T) = SumFunctionOnSet(f, r)
          /\ SumFunctionOnSet(f, s) = f[a] + SumFunctionOnSet(f, r)
          /\ f[a] \in Int /\ h[a] \in T
      BY <1>1, <1>2, SumRemove
    <3>2. Part(s, h[a]) \in SUBSET S /\ Part(s, h[a]) \ {a} = Part(r, h[a]) /\ a \in Part(s, h[a])
      OBVIOUS
    <3>3. SumFunctionOnSet(f, Part(s, h[a])) = f[a] + SumFunctionOnSet(f, Part(r, h[a]))
      <4> PICK p, q : p = Part(s, h[a]) /\ q = Part(r, h[a])
        OBVIOUS
      <4>1. p \in SUBSET S /\ a \in p /\ q = p \ {a} /\ IsFiniteSet(p)
        BY <1>1, <3>2
      <4>2. SumFunctionOnSet(f, p) = f[a] + SumFunctionOnSet(f, p \ {a})
        BY <4>1, SumRemove
      <4> QED BY <4>1, <4>2
    <3>4. \A t \in T : t # h[a] => Part(s, t) = Part(r, t)
      OBVIOUS
    <3>5. \A t \in T : Part(r, t) \in SUBSET S /\ Part(s, t) \in SUBSET S
      OBVIOUS
    <3> PICK gr, gs : gr = G(r) /\ gs = G(s)
      OBVIOUS
    <3>6. /\ \A t \in T : gr[t] = SumFunctionOnSet(f, Part(r, t)) /\ gs[t] = SumFunctionOnSet(f, Part(s, t))
      OBVIOUS
    <3> HIDE DEF Part, G, r
    <3>7. /\ \A t \in T : gr[t] \in Int /\ gs[t] \in Int
          /\ \A t \in T \ {h[a]} : gs[t] = gr[t]
          /\ gs[h[a]] = f[a] + gr[h[a]]
      BY <1>1, <3>1, <3>3, <3>4, <3>5, <3>6
    <3>8. SumFunctionOnSet(gs, T) = SumFunctionOnSet(gr, T) - gr[h[a]] + gs[h[a]]
      BY <3>1, <3>7, SumChange
    <3>9. SumFunctionOnSet(gr, T) \in Int
      BY <1>1, <3>1
    <3> QED BY <3>1, <3>7, <3>8, <3>9
  <2> QED BY <2>1, <2>2
<1>3. S \in Q
  <2> HIDE DEF Q
  <2> QED BY <1>2, SetInduction
<1> QED BY <1>3
=============================================================================
