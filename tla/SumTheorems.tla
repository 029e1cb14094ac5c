---------------------------- MODULE SumTheorems ----------------------------
(***************************************************************************)
(* Sums over finite sets.  The figures of the monitoring screens are sums  *)
(* (SumFunction of the community modules, a fold), and these are the facts *)
(* about them that the proofs need.  They rest on one induction, stated    *)
(* for a set of subsets rather than for a predicate (SetInduction).        *)
(***************************************************************************)
EXTENDS Integers, FiniteSets, FiniteSetsExt, Functions, FiniteSetTheorems,
        WellFoundedInduction, TLAPS

-----------------------------------------------------------------------------
(* Induction *)

\* Induction over the subsets of a finite set, as a fact about sets of subsets.
LEMMA SetInduction ==
    ASSUME NEW S, IsFiniteSet(S), NEW Good, {} \in Good,
           \A T \in SUBSET S : T # {} /\ (\A x \in T : T \ {x} \in Good) => T \in Good
    PROVE  \A T \in SUBSET S : T \in Good
<1> DEFINE Bad == {T \in SUBSET S : T \notin Good}
<1>1. SUFFICES ASSUME Bad # {} PROVE FALSE
  OBVIOUS
<1>2. IsWellFoundedOn(StrictSubsetOrdering(S), SUBSET S)
  BY FS_StrictSubsetOrderingWellFounded, FS_FiniteSubsetsOfFinite
<1>3. PICK T \in Bad : \A U \in Bad : <<U, T>> \notin StrictSubsetOrdering(S)
  <2> HIDE DEF Bad
  <2>1. Bad \subseteq SUBSET S
    BY DEF Bad
  <2> QED
    BY <1>1, <1>2, <2>1, WFMin
<1>4. \A x \in T : T \ {x} \in Good
  <2>1. SUFFICES ASSUME NEW x \in T, T \ {x} \notin Good PROVE FALSE
    OBVIOUS
  <2>2. T \ {x} \in Bad /\ T \ {x} \subseteq T /\ T \ {x} # T
    BY <2>1
  <2>3. <<T \ {x}, T>> \in StrictSubsetOrdering(S)
    BY <2>2 DEF StrictSubsetOrdering
  <2> QED
    BY <1>3, <2>2, <2>3
<1>5. T # {}
  OBVIOUS
<1> QED
  BY <1>4, <1>5

-----------------------------------------------------------------------------
(* The fold defines a function *)

\* The element a fold takes out of a set.
Pick(s) == CHOOSE x \in s : TRUE

\* g is the sum of f over the subsets of T, as FoldFunctionOnSet defines it.
Adds(g, f, T) ==
    g = [s \in SUBSET T |-> IF s = {} THEN 0 ELSE f[Pick(s)] + g[s \ {Pick(s)}]]

LEMMA PickIn == \A s : s # {} => Pick(s) \in s
BY DEF Pick

\* Two such functions agree where both are defined.
LEMMA AddsOnce ==
    ASSUME NEW S, IsFiniteSet(S), NEW f, NEW g, NEW h, NEW A, NEW B, Adds(g, f, A), Adds(h, f, B),
           S \subseteq A, S \subseteq B
    PROVE  g[S] = h[S]
<1> DEFINE Good == {s \in SUBSET S : g[s] = h[s]}
<1>1. {} \in Good
  BY DEF Adds
<1>2. ASSUME NEW T \in SUBSET S, T # {}, \A x \in T : T \ {x} \in Good
      PROVE  T \in Good
  <2>1. Pick(T) \in T
    BY <1>2, PickIn
  <2>2. g[T] = f[Pick(T)] + g[T \ {Pick(T)}]
    BY <1>2 DEF Adds
  <2>3. h[T] = f[Pick(T)] + h[T \ {Pick(T)}]
    BY <1>2 DEF Adds
  <2>4. T \ {Pick(T)} \in Good
    BY <1>2, <2>1
  <2> QED
    BY <2>2, <2>3, <2>4
<1>3. S \in Good
  <2> HIDE DEF Good
  <2>1. \A T \in SUBSET S : T # {} /\ (\A x \in T : T \ {x} \in Good) => T \in Good
    BY <1>2
  <2>2. \A T \in SUBSET S : T \in Good
    BY <1>1, <2>1, SetInduction
  <2> QED
    BY <2>2
<1> QED
  BY <1>3

\* There is one for every finite set.
LEMMA AddsExists ==
    ASSUME NEW S, IsFiniteSet(S), NEW f
    PROVE  \E g : Adds(g, f, S)
<1> DEFINE Good == {T \in SUBSET S : \E g : Adds(g, f, T)}
<1> DEFINE Of(T) == CHOOSE g : Adds(g, f, T)
<1>1. {} \in Good
  <2> DEFINE g == [s \in SUBSET {} |-> 0]
  <2>1. Adds(g, f, {})
    BY DEF Adds
  <2> QED
    BY <2>1
<1>2. ASSUME NEW T \in SUBSET S, T # {}, \A x \in T : T \ {x} \in Good
      PROVE  T \in Good
  <2> DEFINE p == Pick(T)
  <2> DEFINE less(s) == Of(T \ {CHOOSE x \in T : x \notin s})[s]
  <2> DEFINE g == [s \in SUBSET T |-> IF s = T THEN f[p] + less(T \ {p}) ELSE less(s)]
  <2>0. IsFiniteSet(T)
    BY FS_Subset
  <2>1. \A x \in T : Adds(Of(T \ {x}), f, T \ {x})
    BY <1>2
  <2>2. \A s \in SUBSET T, x \in T : x \notin s => less(s) = Of(T \ {x})[s]
    <3>1. SUFFICES ASSUME NEW s \in SUBSET T, NEW x \in T, x \notin s
                   PROVE  less(s) = Of(T \ {x})[s]
      OBVIOUS
    <3> DEFINE y == CHOOSE z \in T : z \notin s
    <3>2. y \in T /\ y \notin s
      BY <3>1
    <3>3. Adds(Of(T \ {x}), f, T \ {x}) /\ Adds(Of(T \ {y}), f, T \ {y})
      BY <2>1, <3>2
    <3>4. IsFiniteSet(s) /\ s \subseteq T \ {x} /\ s \subseteq T \ {y}
      BY <2>0, <3>1, <3>2, FS_Subset
    <3> HIDE DEF Of, y
    <3>5. Of(T \ {y})[s] = Of(T \ {x})[s]
      BY <3>3, <3>4, AddsOnce
    <3> QED
      BY <3>5 DEF y
  <2>3. ASSUME NEW s \in SUBSET T, s # {}, s # T
        PROVE  g[s] = f[Pick(s)] + g[s \ {Pick(s)}]
    <3>1. PICK x \in T : x \notin s
      BY <2>3
    <3>2. Pick(s) \in s
      BY <2>3, PickIn
    <3>3. Of(T \ {x})[s] = f[Pick(s)] + Of(T \ {x})[s \ {Pick(s)}]
      <4>1. Adds(Of(T \ {x}), f, T \ {x})
        BY <2>1
      <4>2. s \in SUBSET (T \ {x})
        BY <3>1
      <4> HIDE DEF Of
      <4> QED
        BY <4>1, <4>2, <2>3 DEF Adds
    <3>4. less(s) = Of(T \ {x})[s] /\ less(s \ {Pick(s)}) = Of(T \ {x})[s \ {Pick(s)}]
      BY <2>2, <3>1
    <3>5. g[s] = less(s) /\ g[s \ {Pick(s)}] = less(s \ {Pick(s)})
      <4> HIDE DEF less
      <4> QED
        BY <2>3, <3>2
    <3> HIDE DEF less, g, Of
    <3> QED
      BY <3>3, <3>4, <3>5
  <2>4. g[T] = f[p] + g[T \ {p}]
    <3>1. p \in T
      BY <1>2, PickIn
    <3> HIDE DEF less, p
    <3> QED
      BY <3>1
  <2>5. g[{}] = 0
    <3>1. PICK x \in T : TRUE
      BY <1>2
    <3>2. less({}) = Of(T \ {x})[{}]
      BY <2>2
    <3>3. Of(T \ {x})[{}] = 0
      <4>1. Adds(Of(T \ {x}), f, T \ {x})
        BY <2>1
      <4> HIDE DEF Of
      <4> QED
        BY <4>1 DEF Adds
    <3>4. g[{}] = less({})
      <4> HIDE DEF less
      <4> QED
        BY <1>2
    <3> QED
      BY <3>2, <3>3, <3>4
  <2>6. Adds(g, f, T)
    <3> DEFINE h == [s \in SUBSET T |-> IF s = {} THEN 0 ELSE f[Pick(s)] + g[s \ {Pick(s)}]]
    <3>1. \A s \in SUBSET T : g[s] = h[s]
      <4> SUFFICES ASSUME NEW s \in SUBSET T PROVE g[s] = h[s]
        OBVIOUS
      <4>1. CASE s = {}
        <5> HIDE DEF g
        <5> QED
          BY <4>1, <2>5
      <4>2. CASE s = T /\ s # {}
        <5> HIDE DEF g
        <5> QED
          BY <4>2, <2>4
      <4>3. CASE s # T /\ s # {}
        <5> HIDE DEF g
        <5> QED
          BY <4>3, <2>3
      <4> QED
        BY <4>1, <4>2, <4>3
    <3>2. g = [s \in SUBSET T |-> g[s]] /\ h = [s \in SUBSET T |-> h[s]]
      <4> HIDE DEF less
      <4> QED
        OBVIOUS
    <3>3. g = h
      <4> HIDE DEF g, h
      <4> QED
        BY <3>1, <3>2
    <3> HIDE DEF g
    <3> QED
      BY <3>3 DEF Adds
  <2> HIDE DEF g
  <2> QED
    BY <2>6
<1>3. S \in Good
  <2> HIDE DEF Good
  <2> QED
    BY <1>1, <1>2, SetInduction
<1> QED
  BY <1>3

\* The sum over a finite set is the sum over one element less, plus that one.
LEMMA SumByPick ==
    ASSUME NEW S, IsFiniteSet(S), NEW f
    PROVE  /\ S = {} => SumFunctionOnSet(f, S) = 0
           /\ S # {} => SumFunctionOnSet(f, S) = f[Pick(S)] + SumFunctionOnSet(f, S \ {Pick(S)})
<1> DEFINE Iter(T) == CHOOSE g : Adds(g, f, T)
<1>1. ASSUME NEW T PROVE SumFunctionOnSet(f, T) = Iter(T)[T]
  BY DEF SumFunctionOnSet, FoldFunctionOnSet, MapThenFoldSet, Adds, Pick
<1>2. ASSUME NEW T, IsFiniteSet(T) PROVE Adds(Iter(T), f, T)
  BY <1>2, AddsExists
<1>3. ASSUME S = {} PROVE Iter(S)[S] = 0
  <2>1. Adds(Iter(S), f, S)
    BY <1>2
  <2> HIDE DEF Iter
  <2> QED
    BY <1>3, <2>1 DEF Adds
<1>4. ASSUME S # {} PROVE Iter(S)[S] = f[Pick(S)] + Iter(S \ {Pick(S)})[S \ {Pick(S)}]
  <2> DEFINE R == S \ {Pick(S)}
  <2>1. IsFiniteSet(R)
    BY FS_RemoveElement
  <2>2. Adds(Iter(S), f, S) /\ Adds(Iter(R), f, R)
    BY <1>2, <2>1
  <2> HIDE DEF Iter
  <2>3. Iter(S)[S] = f[Pick(S)] + Iter(S)[R]
    BY <1>4, <2>2 DEF Adds
  <2>4. Iter(S)[R] = Iter(R)[R]
    BY <2>1, <2>2, AddsOnce
  <2> QED
    BY <2>3, <2>4
<1> QED
  BY <1>1, <1>3, <1>4
-----------------------------------------------------------------------------
(* Sums *)

LEMMA SumEmpty == ASSUME NEW f PROVE SumFunctionOnSet(f, {}) = 0
BY SumByPick, FS_EmptySet

\* Sums of equal terms are equal.
LEMMA SumSame ==
    ASSUME NEW S, IsFiniteSet(S), NEW f, NEW g, \A x \in S : f[x] = g[x]
    PROVE  SumFunctionOnSet(f, S) = SumFunctionOnSet(g, S)
<1> DEFINE Good == {T \in SUBSET S : SumFunctionOnSet(f, T) = SumFunctionOnSet(g, T)}
<1>1. {} \in Good
  BY SumEmpty
<1>2. ASSUME NEW T \in SUBSET S, T # {}, \A x \in T : T \ {x} \in Good
      PROVE  T \in Good
  <2>1. Pick(T) \in T /\ IsFiniteSet(T)
    BY <1>2, PickIn, FS_Subset
  <2>2. /\ SumFunctionOnSet(f, T) = f[Pick(T)] + SumFunctionOnSet(f, T \ {Pick(T)})
        /\ SumFunctionOnSet(g, T) = g[Pick(T)] + SumFunctionOnSet(g, T \ {Pick(T)})
    BY <1>2, <2>1, SumByPick
  <2>3. T \ {Pick(T)} \in Good /\ f[Pick(T)] = g[Pick(T)]
    BY <1>2, <2>1
  <2> QED
    BY <2>2, <2>3
<1>3. S \in Good
  <2> HIDE DEF Good
  <2>1. \A T \in SUBSET S : T # {} /\ (\A x \in T : T \ {x} \in Good) => T \in Good
    BY <1>2
  <2>2. \A T \in SUBSET S : T \in Good
    BY <1>1, <2>1, SetInduction
  <2> QED
    BY <2>2
<1> QED
  BY <1>3

\* Sums of integers are integers, and of numbers numbers.
LEMMA SumInt ==
    ASSUME NEW S, IsFiniteSet(S), NEW f, NEW V \in {Nat, Int}, \A x \in S : f[x] \in V
    PROVE  SumFunctionOnSet(f, S) \in V
<1> DEFINE Good == {T \in SUBSET S : SumFunctionOnSet(f, T) \in V}
<1>1. {} \in Good
  BY SumEmpty
<1>2. ASSUME NEW T \in SUBSET S, T # {}, \A x \in T : T \ {x} \in Good
      PROVE  T \in Good
  <2>1. Pick(T) \in T /\ IsFiniteSet(T)
    BY <1>2, PickIn, FS_Subset
  <2>2. SumFunctionOnSet(f, T) = f[Pick(T)] + SumFunctionOnSet(f, T \ {Pick(T)})
    BY <1>2, <2>1, SumByPick
  <2>3. SumFunctionOnSet(f, T \ {Pick(T)}) \in V /\ f[Pick(T)] \in V
    BY <1>2, <2>1
  <2>4. V = Nat \/ V = Int
    OBVIOUS
  <2>5. \A a, b \in V : a + b \in V
    BY <2>4
  <2> QED
    BY <2>2, <2>3, <2>5
<1>3. S \in Good
  <2> HIDE DEF Good
  <2>1. \A T \in SUBSET S : T # {} /\ (\A x \in T : T \ {x} \in Good) => T \in Good
    BY <1>2
  <2>2. \A T \in SUBSET S : T \in Good
    BY <1>1, <2>1, SetInduction
  <2> QED
    BY <2>2
<1> QED
  BY <1>3

\* Whichever element is taken out, the sum loses its term.
LEMMA SumRemove ==
    ASSUME NEW S, IsFiniteSet(S), NEW f, \A x \in S : f[x] \in Int
    PROVE  \A x \in S : SumFunctionOnSet(f, S) = f[x] + SumFunctionOnSet(f, S \ {x})
<1> DEFINE Total(T) == SumFunctionOnSet(f, T)
<1> DEFINE Good == {T \in SUBSET S : \A x \in T : Total(T) = f[x] + Total(T \ {x})}
<1>1. {} \in Good
  OBVIOUS
<1>2. ASSUME NEW T \in SUBSET S, T # {}, \A x \in T : T \ {x} \in Good
      PROVE  T \in Good
  <2> DEFINE p == Pick(T)
  <2>1. p \in T /\ IsFiniteSet(T)
    BY <1>2, PickIn, FS_Subset
  <2>2. Total(T) = f[p] + Total(T \ {p})
    BY <1>2, <2>1, SumByPick
  <2>3. ASSUME NEW x \in T, x # p PROVE Total(T) = f[x] + Total(T \ {x})
    <3> DEFINE U == T \ {p, x}
    <3>1. U = (T \ {p}) \ {x} /\ U = (T \ {x}) \ {p} /\ IsFiniteSet(U)
      BY <2>1, FS_Subset
    <3>2. x \in T \ {p} /\ p \in T \ {x} /\ T \ {p} \in Good /\ T \ {x} \in Good
      BY <1>2, <2>1, <2>3
    <3>3. Total(T \ {p}) = f[x] + Total(U)
      BY <3>1, <3>2
    <3>4. Total(T \ {x}) = f[p] + Total(U)
      BY <3>1, <3>2
    <3>5. Total(U) \in Int /\ f[p] \in Int /\ f[x] \in Int
      <4>1. \A y \in U : f[y] \in Int
        OBVIOUS
      <4>2. f[p] \in Int /\ f[x] \in Int
        BY <2>1
      <4> HIDE DEF U
      <4> QED
        BY <3>1, <4>1, <4>2, SumInt
    <3> HIDE DEF Total, U, p
    <3> QED
      BY <2>2, <3>3, <3>4, <3>5
  <2> HIDE DEF Total, p
  <2> QED
    BY <2>2, <2>3
<1>3. S \in Good
  <2> HIDE DEF Good
  <2>1. \A T \in SUBSET S : T # {} /\ (\A x \in T : T \ {x} \in Good) => T \in Good
    BY <1>2
  <2>2. \A T \in SUBSET S : T \in Good
    BY <1>1, <2>1, SetInduction
  <2> QED
    BY <2>2
<1> QED
  BY <1>3

\* A set summed in two parts.
LEMMA SumUnion ==
    ASSUME NEW S, IsFiniteSet(S), NEW T, IsFiniteSet(T), S \cap T = {},
           NEW f, \A x \in S \cup T : f[x] \in Int
    PROVE  SumFunctionOnSet(f, S \cup T) = SumFunctionOnSet(f, S) + SumFunctionOnSet(f, T)
<1> DEFINE Total(U) == SumFunctionOnSet(f, U)
<1> DEFINE Good == {U \in SUBSET S : Total(U \cup T) = Total(U) + Total(T)}
<1>0. \A U \in SUBSET S : IsFiniteSet(U) /\ IsFiniteSet(U \cup T) /\ Total(U) \in Int /\ Total(U \cup T) \in Int
  <2>1. SUFFICES ASSUME NEW U \in SUBSET S
                 PROVE  IsFiniteSet(U) /\ IsFiniteSet(U \cup T) /\ Total(U) \in Int /\ Total(U \cup T) \in Int
    OBVIOUS
  <2>2. IsFiniteSet(U) /\ IsFiniteSet(U \cup T)
    BY FS_Subset, FS_Union
  <2> QED
    BY <2>2, SumInt
<1>1. {} \in Good
  <2>1. Total({}) = 0
    BY SumEmpty
  <2>2. {} \cup T = T /\ Total({} \cup T) \in Int
    BY <1>0
  <2> HIDE DEF Total
  <2> QED
    BY <2>1, <2>2
<1>2. ASSUME NEW U \in SUBSET S, U # {}, \A x \in U : U \ {x} \in Good
      PROVE  U \in Good
  <2>1. PICK x \in U : TRUE
    BY <1>2
  <2>2. Total(U) = f[x] + Total(U \ {x})
    BY <1>0, SumRemove
  <2>3. Total(U \cup T) = f[x] + Total((U \cup T) \ {x})
    BY <1>0, SumRemove
  <2>4. (U \cup T) \ {x} = (U \ {x}) \cup T
    OBVIOUS
  <2>5. Total((U \ {x}) \cup T) = Total(U \ {x}) + Total(T)
    BY <1>2
  <2>6. Total(U \ {x}) \in Int /\ Total(T) \in Int /\ f[x] \in Int
    <3>1. {} \cup T = T
      OBVIOUS
    <3>2. Total({} \cup T) \in Int
      BY <1>0
    <3>3. Total(U \ {x}) \in Int
      BY <1>0
    <3> HIDE DEF Total
    <3> QED
      BY <3>1, <3>2, <3>3
  <2>7. Total((U \cup T) \ {x}) = Total(U \ {x}) + Total(T)
    BY <2>4, <2>5
  <2>8. Total(U \cup T) = Total(U) + Total(T)
    <3> HIDE DEF Total, Good
    <3> QED
      BY <2>2, <2>3, <2>6, <2>7
  <2> QED
    BY <2>8
<1>3. S \in Good
  <2> HIDE DEF Good
  <2>1. \A U \in SUBSET S : U # {} /\ (\A x \in U : U \ {x} \in Good) => U \in Good
    BY <1>2
  <2>2. \A U \in SUBSET S : U \in Good
    BY <1>1, <2>1, SetInduction
  <2> QED
    BY <2>2
<1> QED
  BY <1>3

\* Sums are added term by term.
LEMMA SumPlus ==
    ASSUME NEW S, IsFiniteSet(S), NEW f, NEW g, NEW h,
           \A x \in S : f[x] \in Int /\ g[x] \in Int /\ h[x] = f[x] + g[x]
    PROVE  SumFunctionOnSet(h, S) = SumFunctionOnSet(f, S) + SumFunctionOnSet(g, S)
<1> DEFINE Good == {T \in SUBSET S : SumFunctionOnSet(h, T) = SumFunctionOnSet(f, T) + SumFunctionOnSet(g, T)}
<1>1. {} \in Good
  BY SumEmpty
<1>2. ASSUME NEW T \in SUBSET S, T # {}, \A x \in T : T \ {x} \in Good
      PROVE  T \in Good
  <2> DEFINE R == T \ {Pick(T)}
  <2>1. Pick(T) \in T /\ IsFiniteSet(T) /\ R \in SUBSET S
    BY <1>2, PickIn, FS_Subset
  <2>2. /\ SumFunctionOnSet(f, T) = f[Pick(T)] + SumFunctionOnSet(f, R)
        /\ SumFunctionOnSet(g, T) = g[Pick(T)] + SumFunctionOnSet(g, R)
        /\ SumFunctionOnSet(h, T) = h[Pick(T)] + SumFunctionOnSet(h, R)
    BY <1>2, <2>1, SumByPick
  <2>3. R \in Good /\ h[Pick(T)] = f[Pick(T)] + g[Pick(T)] /\ f[Pick(T)] \in Int /\ g[Pick(T)] \in Int
    BY <1>2, <2>1
  <2>4. SumFunctionOnSet(f, R) \in Int /\ SumFunctionOnSet(g, R) \in Int
    <3>1. IsFiniteSet(R) /\ \A x \in R : f[x] \in Int /\ g[x] \in Int
      BY <2>1, FS_Subset
    <3> HIDE DEF R
    <3> QED
      BY <3>1, SumInt
  <2> HIDE DEF R
  <2> QED
    BY <2>2, <2>3, <2>4
<1>3. S \in Good
  <2> HIDE DEF Good
  <2>1. \A U \in SUBSET S : U # {} /\ (\A x \in U : U \ {x} \in Good) => U \in Good
    BY <1>2
  <2>2. \A U \in SUBSET S : U \in Good
    BY <1>1, <2>1, SetInduction
  <2> QED
    BY <2>2
<1> QED
  BY <1>3

\* Terms that are zero add nothing.
LEMMA SumZeros ==
    ASSUME NEW S, IsFiniteSet(S), NEW T \in SUBSET S, NEW f,
           \A x \in T : f[x] \in Int, \A x \in S \ T : f[x] = 0
    PROVE  SumFunctionOnSet(f, S) = SumFunctionOnSet(f, T)
<1> DEFINE zero == [x \in S |-> 0]  rest == S \ T
<1>1. IsFiniteSet(T) /\ IsFiniteSet(rest)
  BY FS_Subset
<1>2. SumFunctionOnSet(f, rest) = SumFunctionOnSet(zero, rest)
  BY <1>1, SumSame
<1>3. SumFunctionOnSet(zero, rest) = SumFunctionOnSet(zero, rest) + SumFunctionOnSet(zero, rest)
  <2>1. \A x \in rest : zero[x] \in Int /\ zero[x] = zero[x] + zero[x]
    OBVIOUS
  <2> HIDE DEF zero, rest
  <2> QED
    BY <1>1, <2>1, SumPlus
<1>4. SumFunctionOnSet(zero, rest) \in Int /\ SumFunctionOnSet(f, T) \in Int
  <2>1. \A x \in rest : zero[x] \in Int
    OBVIOUS
  <2> HIDE DEF zero, rest
  <2> QED
    BY <1>1, <2>1, SumInt
<1>5. SumFunctionOnSet(f, T \cup rest) = SumFunctionOnSet(f, T) + SumFunctionOnSet(f, rest)
  <2>1. T \cap rest = {} /\ \A x \in T \cup rest : f[x] \in Int
    OBVIOUS
  <2> HIDE DEF rest
  <2> QED
    BY <1>1, <2>1, SumUnion
<1>6. T \cup rest = S
  OBVIOUS
<1>7. SumFunctionOnSet(zero, rest) = 0
  <2>1. \A n \in Int : n = n + n => n = 0
    OBVIOUS
  <2> HIDE DEF zero, rest
  <2> QED
    BY <1>3, <1>4, <2>1
<1> HIDE DEF zero, rest
<1> QED
  BY <1>2, <1>4, <1>5, <1>6, <1>7

\* The elements of a set that are in group k: key says which one an element is in.
Group(S, key, k) == {x \in S : key[x] = k}

\* A set summed group by group.
LEMMA SumByGroup ==
    ASSUME NEW S, IsFiniteSet(S), NEW K, IsFiniteSet(K), NEW key, \A x \in S : key[x] \in K,
           NEW f, \A x \in S : f[x] \in Int,
           NEW g, \A k \in K : g[k] = SumFunctionOnSet(f, Group(S, key, k))
    PROVE  SumFunctionOnSet(f, S) = SumFunctionOnSet(g, K)
<1> DEFINE Of(k) == Group(S, key, k)
<1> DEFINE In(L) == {x \in S : key[x] \in L}
<1> DEFINE Good == {L \in SUBSET K : SumFunctionOnSet(f, In(L)) = SumFunctionOnSet(g, L)}
<1>1. {} \in Good
  <2>1. In({}) = {}
    OBVIOUS
  <2> QED
    BY <2>1, SumEmpty
<1>2. ASSUME NEW L \in SUBSET K, L # {}, \A k \in L : L \ {k} \in Good
      PROVE  L \in Good
  <2> DEFINE p == Pick(L)
  <2>1. p \in L /\ IsFiniteSet(L) /\ L \ {p} \in Good
    BY <1>2, PickIn, FS_Subset
  <2>2. SumFunctionOnSet(g, L) = g[p] + SumFunctionOnSet(g, L \ {p})
    BY <1>2, <2>1, SumByPick
  <2>3. In(L) = Of(p) \cup In(L \ {p}) /\ Of(p) \cap In(L \ {p}) = {}
    BY <2>1 DEF Group
  <2>4. IsFiniteSet(Of(p)) /\ IsFiniteSet(In(L \ {p}))
    BY FS_Subset DEF Group
  <2>5. SumFunctionOnSet(f, In(L)) = SumFunctionOnSet(f, Of(p)) + SumFunctionOnSet(f, In(L \ {p}))
    <3>1. \A x \in Of(p) \cup In(L \ {p}) : f[x] \in Int
      BY DEF Group
    <3> HIDE DEF Of, In, p, Good
    <3>2. SumFunctionOnSet(f, Of(p) \cup In(L \ {p}))
              = SumFunctionOnSet(f, Of(p)) + SumFunctionOnSet(f, In(L \ {p}))
      BY <2>3, <2>4, <3>1, SumUnion
    <3> QED
      BY <2>3, <3>2
  <2>6. g[p] = SumFunctionOnSet(f, Of(p)) /\ SumFunctionOnSet(f, In(L \ {p})) = SumFunctionOnSet(g, L \ {p})
    BY <2>1
  <2>7. SumFunctionOnSet(f, In(L)) = SumFunctionOnSet(g, L)
    <3> HIDE DEF Of, In, p
    <3> QED
      BY <2>2, <2>5, <2>6
  <2> QED
    BY <2>7
<1>3. K \in Good
  <2> HIDE DEF Good
  <2>1. \A L \in SUBSET K : L # {} /\ (\A x \in L : L \ {x} \in Good) => L \in Good
    BY <1>2
  <2>2. \A L \in SUBSET K : L \in Good
    BY <1>1, <2>1, SetInduction
  <2> QED
    BY <2>2
<1>4. In(K) = S
  OBVIOUS
<1> QED
  BY <1>3, <1>4

LEMMA SumSingleton == ASSUME NEW x, NEW f, f[x] \in Int PROVE SumFunctionOnSet(f, {x}) = f[x]
<1>1. IsFiniteSet({x}) /\ Pick({x}) = x /\ {x} \ {Pick({x})} = {}
  BY FS_Singleton DEF Pick
<1>2. SumFunctionOnSet(f, {x}) = f[x] + SumFunctionOnSet(f, {})
  BY <1>1, SumByPick
<1> QED
  BY <1>2, SumEmpty

\* One more element.
LEMMA SumAdd ==
    ASSUME NEW S, IsFiniteSet(S), NEW y, y \notin S, NEW f, \A x \in S \cup {y} : f[x] \in Int
    PROVE  SumFunctionOnSet(f, S \cup {y}) = SumFunctionOnSet(f, S) + f[y]
<1>1. IsFiniteSet({y}) /\ S \cap {y} = {}
  BY FS_Singleton
<1>2. SumFunctionOnSet(f, S \cup {y}) = SumFunctionOnSet(f, S) + SumFunctionOnSet(f, {y})
  BY <1>1, SumUnion
<1>3. SumFunctionOnSet(f, {y}) = f[y]
  BY SumSingleton
<1> QED
  BY <1>2, <1>3

\* A sum does not change when its elements are renamed.
LEMMA SumRenamed ==
    ASSUME NEW S, IsFiniteSet(S), NEW T, IsFiniteSet(T), NEW key, \A x \in S : key[x] \in T,
           \A x, y \in S : key[x] = key[y] => x = y, \A t \in T : \E x \in S : key[x] = t,
           NEW f, NEW g, \A x \in S : f[x] \in Int /\ f[x] = g[key[x]]
    PROVE  SumFunctionOnSet(f, S) = SumFunctionOnSet(g, T)
<1>1. ASSUME NEW t \in T PROVE g[t] = SumFunctionOnSet(f, Group(S, key, t))
  <2>1. PICK x \in S : key[x] = t
    OBVIOUS
  <2>2. Group(S, key, t) = {x}
    BY <2>1 DEF Group
  <2>3. f[x] \in Int /\ f[x] = g[t]
    BY <2>1
  <2> QED
    BY <2>2, <2>3, SumSingleton
<1>2. \A t \in T : g[t] = SumFunctionOnSet(f, Group(S, key, t))
  BY <1>1
<1>3. \A x \in S : f[x] \in Int
  OBVIOUS
<1> QED
  BY <1>2, <1>3, SumByGroup

LEMMA Distributes == \A a, b, c \in Int : a * (b + c) = a * b + a * c
OBVIOUS

\* A common factor comes out of a sum.
LEMMA SumScale ==
    ASSUME NEW S, IsFiniteSet(S), NEW c \in Int, NEW f, NEW g,
           \A x \in S : f[x] \in Int /\ g[x] = c * f[x]
    PROVE  SumFunctionOnSet(g, S) = c * SumFunctionOnSet(f, S)
<1> DEFINE Good == {T \in SUBSET S : SumFunctionOnSet(g, T) = c * SumFunctionOnSet(f, T)}
<1>1. {} \in Good
  BY SumEmpty
<1>2. ASSUME NEW T \in SUBSET S, T # {}, \A x \in T : T \ {x} \in Good
      PROVE  T \in Good
  <2> DEFINE R == T \ {Pick(T)}
  <2>1. Pick(T) \in T /\ IsFiniteSet(T) /\ R \in SUBSET S
    BY <1>2, PickIn, FS_Subset
  <2>2. /\ SumFunctionOnSet(f, T) = f[Pick(T)] + SumFunctionOnSet(f, R)
        /\ SumFunctionOnSet(g, T) = g[Pick(T)] + SumFunctionOnSet(g, R)
    BY <1>2, <2>1, SumByPick
  <2>3. R \in Good /\ g[Pick(T)] = c * f[Pick(T)] /\ f[Pick(T)] \in Int
    BY <1>2, <2>1
  <2>4. SumFunctionOnSet(f, R) \in Int
    <3>1. IsFiniteSet(R) /\ \A x \in R : f[x] \in Int
      BY <2>1, FS_Subset
    <3> HIDE DEF R
    <3> QED
      BY <3>1, SumInt
  <2>5. c * (f[Pick(T)] + SumFunctionOnSet(f, R)) = c * f[Pick(T)] + c * SumFunctionOnSet(f, R)
    BY <2>3, <2>4, Distributes
  <2>6. SumFunctionOnSet(g, R) = c * SumFunctionOnSet(f, R)
    BY <2>3
  <2> HIDE DEF R
  <2> QED
    BY <2>2, <2>3, <2>5, <2>6
<1>3. S \in Good
  <2> HIDE DEF Good
  <2>1. \A U \in SUBSET S : U # {} /\ (\A x \in U : U \ {x} \in Good) => U \in Good
    BY <1>2
  <2>2. \A U \in SUBSET S : U \in Good
    BY <1>1, <2>1, SetInduction
  <2> QED
    BY <2>2
<1> QED
  BY <1>3

\* A set is counted by ones.
LEMMA SumOnes ==
    ASSUME NEW S, IsFiniteSet(S), NEW f, \A x \in S : f[x] = 1
    PROVE  SumFunctionOnSet(f, S) = Cardinality(S)
<1> DEFINE Good == {T \in SUBSET S : SumFunctionOnSet(f, T) = Cardinality(T)}
<1>1. {} \in Good
  BY SumEmpty, FS_EmptySet
<1>2. ASSUME NEW T \in SUBSET S, T # {}, \A x \in T : T \ {x} \in Good
      PROVE  T \in Good
  <2>1. Pick(T) \in T /\ IsFiniteSet(T)
    BY <1>2, PickIn, FS_Subset
  <2>2. SumFunctionOnSet(f, T) = f[Pick(T)] + SumFunctionOnSet(f, T \ {Pick(T)})
    BY <1>2, <2>1, SumByPick
  <2>3. T \ {Pick(T)} \in Good /\ f[Pick(T)] = 1
    BY <1>2, <2>1
  <2>4. Cardinality(T \ {Pick(T)}) = Cardinality(T) - 1 /\ Cardinality(T) \in Nat
    BY <2>1, FS_RemoveElement, FS_CardinalityType
  <2> QED
    BY <2>2, <2>3, <2>4
<1>3. S \in Good
  <2> HIDE DEF Good
  <2>1. \A U \in SUBSET S : U # {} /\ (\A x \in U : U \ {x} \in Good) => U \in Good
    BY <1>2
  <2>2. \A U \in SUBSET S : U \in Good
    BY <1>1, <2>1, SetInduction
  <2> QED
    BY <2>2
<1> QED
  BY <1>3

\* As many times the same amount as there are elements.
LEMMA SumConstant ==
    ASSUME NEW S, IsFiniteSet(S), NEW c \in Int, NEW f, \A x \in S : f[x] = c
    PROVE  SumFunctionOnSet(f, S) = c * Cardinality(S)
<1> DEFINE one == [x \in S |-> 1]
<1>1. SumFunctionOnSet(one, S) = Cardinality(S)
  <2>1. \A x \in S : one[x] = 1
    OBVIOUS
  <2> HIDE DEF one
  <2> QED
    BY <2>1, SumOnes
<1>2. \A x \in S : one[x] \in Int /\ f[x] = c * one[x]
  OBVIOUS
<1> HIDE DEF one
<1>3. SumFunctionOnSet(f, S) = c * SumFunctionOnSet(one, S)
  BY <1>2, SumScale
<1> QED
  BY <1>1, <1>3

-----------------------------------------------------------------------------
(* Maxima *)

\* A finite set of integers has a greatest element.
LEMMA GreatestExists ==
    ASSUME NEW S, IsFiniteSet(S), S # {}, S \subseteq Int
    PROVE  \E m \in S : \A x \in S : x <= m
<1> DEFINE Good == {T \in SUBSET S : T # {} => \E m \in T : \A x \in T : x <= m}
<1>1. {} \in Good
  OBVIOUS
<1>2. ASSUME NEW T \in SUBSET S, T # {}, \A x \in T : T \ {x} \in Good
      PROVE  T \in Good
  <2>1. PICK y \in T : TRUE
    BY <1>2
  <2>2. CASE T = {y}
    BY <2>2
  <2>3. CASE T # {y}
    <3>1. PICK m \in T \ {y} : \A x \in T \ {y} : x <= m
      BY <1>2, <2>1, <2>3
    <3>2. CASE y <= m
      BY <3>1, <3>2
    <3>3. CASE m < y
      <4>1. \A x \in T : x <= y
        BY <3>1, <3>3
      <4> QED
        BY <4>1
    <3> QED
      BY <3>2, <3>3
  <2> QED
    BY <2>2, <2>3
<1>3. S \in Good
  <2> HIDE DEF Good
  <2>1. \A U \in SUBSET S : U # {} /\ (\A x \in U : U \ {x} \in Good) => U \in Good
    BY <1>2
  <2>2. \A U \in SUBSET S : U \in Good
    BY <1>1, <2>1, SetInduction
  <2> QED
    BY <2>2
<1> QED
  BY <1>3

LEMMA SumIs == ASSUME NEW S, NEW f, DOMAIN f = S PROVE SumFunction(f) = SumFunctionOnSet(f, S)
BY DEF SumFunction

LEMMA ImageFinite ==
    ASSUME NEW S, IsFiniteSet(S), NEW T, NEW key, \A t \in T : \E x \in S : key[x] = t
    PROVE  IsFiniteSet(T)
<1> DEFINE From == {x \in S : key[x] \in T}
           f    == [x \in From |-> key[x]]
<1>1. IsFiniteSet(From)
  <2>1. From \in SUBSET S
    OBVIOUS
  <2> QED
    BY <2>1, FS_Subset
<1>2. f \in Surjection(From, T)
  BY DEF Surjection
<1> QED
  BY <1>1, <1>2, FS_Surjection

LEMMA SumIsZero ==
    ASSUME NEW S, IsFiniteSet(S), NEW f, \A x \in S : f[x] \in Nat
    PROVE  SumFunctionOnSet(f, S) \in Nat /\ (SumFunctionOnSet(f, S) = 0 <=> \A x \in S : f[x] = 0)
<1>1. SumFunctionOnSet(f, S) \in Nat
  BY SumInt
<1>2. ASSUME NEW x \in S, f[x] # 0 PROVE SumFunctionOnSet(f, S) # 0
  <2>1. SumFunctionOnSet(f, S) = f[x] + SumFunctionOnSet(f, S \ {x})
    BY SumRemove
  <2>2. IsFiniteSet(S \ {x}) /\ \A y \in S \ {x} : f[y] \in Nat
    BY FS_Subset
  <2>3. SumFunctionOnSet(f, S \ {x}) \in Nat
    BY <2>2, SumInt
  <2> QED
    BY <1>2, <2>1, <2>3
<1>3. ASSUME \A x \in S : f[x] = 0 PROVE SumFunctionOnSet(f, S) = 0
  <2>1. SumFunctionOnSet(f, S) = SumFunctionOnSet(f, {})
    BY <1>3, SumZeros
  <2> QED
    BY <2>1, SumEmpty
<1> QED
  BY <1>1, <1>2, <1>3

\* One table twice, by its rows and by its columns; and what a row adds up to.
Transposed(S, T, rows, columns) ==
    \A x \in S : \A y \in T : rows[x][y] \in Int /\ rows[x][y] = columns[y][x]
Sums(S, T, rows, r) == \A x \in S : r[x] = SumFunctionOnSet(rows[x], T)

\* A table has the same sum row by row and column by column.
LEMMA SumSwapped ==
    ASSUME NEW S, IsFiniteSet(S), NEW T, IsFiniteSet(T), NEW rows, NEW columns,
           Transposed(S, T, rows, columns), NEW r, Sums(S, T, rows, r), NEW c, Sums(T, S, columns, c)
    PROVE  SumFunctionOnSet(r, S) = SumFunctionOnSet(c, T)
<1> DEFINE cells == S \X T
           f == [cell \in cells |-> rows[cell[1]][cell[2]]]
           row == [cell \in cells |-> cell[1]]
           column == [cell \in cells |-> cell[2]]
<1>1. IsFiniteSet(cells)
  BY FS_Product
<1>2. \A cell \in cells : /\ cell[1] \in S /\ cell[2] \in T /\ cell = <<row[cell], column[cell]>>
                          /\ row[cell] = cell[1] /\ column[cell] = cell[2]
                          /\ f[cell] = rows[row[cell]][column[cell]]
                          /\ f[cell] = columns[column[cell]][row[cell]]
                          /\ f[cell] \in Int
  BY DEF Transposed
<1>3. \A x \in S, y \in T : /\ <<x, y>> \in cells /\ row[<<x, y>>] = x /\ column[<<x, y>>] = y
  OBVIOUS
<1> HIDE DEF cells, f, row, column
<1>4. ASSUME NEW x \in S PROVE r[x] = SumFunctionOnSet(f, Group(cells, row, x))
  <2> DEFINE G == Group(cells, row, x)
             h == rows[x]
  <2>1. \A cell \in G : /\ cell \in cells /\ cell = <<x, column[cell]>> /\ column[cell] \in T
                       /\ f[cell] \in Int /\ f[cell] = h[column[cell]]
    BY <1>2 DEF Group
  <2>2. ASSUME NEW y \in T PROVE \E cell \in G : column[cell] = y
    <3>1. <<x, y>> \in G /\ column[<<x, y>>] = y
      BY <1>3 DEF Group
    <3> QED
      BY <3>1
  <2>3. IsFiniteSet(G)
    <3>1. G \in SUBSET cells
      BY DEF Group
    <3> QED
      BY <1>1, <3>1, FS_Subset
  <2>4. r[x] = SumFunctionOnSet(h, T)
    BY DEF Sums
  <2> HIDE DEF G, h
  <2>5. \A a, b \in G : column[a] = column[b] => a = b
    BY <2>1
  <2>6. (\A a \in G : column[a] \in T) /\ (\A y \in T : \E a \in G : column[a] = y)
    BY <2>1, <2>2
  <2>7. \A a \in G : f[a] \in Int /\ f[a] = h[column[a]]
    BY <2>1
  <2>8. SumFunctionOnSet(f, G) = SumFunctionOnSet(h, T)
    BY <2>3, <2>5, <2>6, <2>7, SumRenamed
  <2> QED
    BY <2>4, <2>8 DEF G
<1>5. ASSUME NEW y \in T PROVE c[y] = SumFunctionOnSet(f, Group(cells, column, y))
  <2> DEFINE G == Group(cells, column, y)
             h == columns[y]
  <2>1. \A cell \in G : /\ cell \in cells /\ cell = <<row[cell], y>> /\ row[cell] \in S
                       /\ f[cell] \in Int /\ f[cell] = h[row[cell]]
    BY <1>2 DEF Group
  <2>2. ASSUME NEW x \in S PROVE \E cell \in G : row[cell] = x
    <3>1. <<x, y>> \in G /\ row[<<x, y>>] = x
      BY <1>3 DEF Group
    <3> QED
      BY <3>1
  <2>3. IsFiniteSet(G)
    <3>1. G \in SUBSET cells
      BY DEF Group
    <3> QED
      BY <1>1, <3>1, FS_Subset
  <2>4. c[y] = SumFunctionOnSet(h, S)
    BY DEF Sums
  <2> HIDE DEF G, h
  <2>5. \A a, b \in G : row[a] = row[b] => a = b
    BY <2>1
  <2>6. (\A a \in G : row[a] \in S) /\ (\A x \in S : \E a \in G : row[a] = x)
    BY <2>1, <2>2
  <2>7. \A a \in G : f[a] \in Int /\ f[a] = h[row[a]]
    BY <2>1
  <2>8. SumFunctionOnSet(f, G) = SumFunctionOnSet(h, S)
    BY <2>3, <2>5, <2>6, <2>7, SumRenamed
  <2> QED
    BY <2>4, <2>8 DEF G
<1>6. (\A cell \in cells : row[cell] \in S) /\ (\A cell \in cells : column[cell] \in T)
      /\ \A cell \in cells : f[cell] \in Int
  BY <1>2
<1>7. SumFunctionOnSet(f, cells) = SumFunctionOnSet(r, S)
  BY <1>1, <1>4, <1>6, SumByGroup
<1>8. SumFunctionOnSet(f, cells) = SumFunctionOnSet(c, T)
  BY <1>1, <1>5, <1>6, SumByGroup
<1> QED
  BY <1>7, <1>8
=============================================================================
