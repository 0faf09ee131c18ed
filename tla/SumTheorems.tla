----------------------------- MODULE SumTheorems -----------------------------
(***************************************************************************)
(* What the proofs need of SumFunctionOnSet, the sum of a function over a  *)
(* finite set by which the modules count money, goods and points.  The     *)
(* induction theorems of the library take a predicate as parameter; the    *)
(* one here takes the set of those subsets that are known to be good.      *)
(***************************************************************************)
EXTENDS Integers, FiniteSets, FiniteSetTheorems, Functions, TLAPS

(* What holds of a set whenever it holds of the set without any one of its  *)
(* elements holds of every finite set.                                     *)
LEMMA SubsetInduction ==
  ASSUME NEW S, IsFiniteSet(S), NEW Good, {} \in Good,
         \A T \in SUBSET S : T # {} /\ (\A x \in T : T \ {x} \in Good) => T \in Good
  PROVE  \A T \in SUBSET S : T \in Good
<1> DEFINE Bad == {T \in SUBSET S : T \notin Good}
<1>1. SUFFICES ASSUME Bad # {} PROVE FALSE
  OBVIOUS
<1>2. IsWellFoundedOn(StrictSubsetOrdering(S), SUBSET S)
  BY FS_StrictSubsetOrderingWellFounded, FS_FiniteSubsetsOfFinite
<1>3. PICK T \in Bad : \A U \in Bad : ~ (<<U, T>> \in StrictSubsetOrdering(S))
  <2> HIDE DEF Bad
  <2>1. Bad \subseteq SUBSET S
    BY DEF Bad
  <2> QED BY <1>1, <1>2, <2>1, WFMin
<1>4. PICK x \in T : T \ {x} \notin Good
  BY <1>3
<1>5. T \ {x} \in Bad
  BY <1>4
<1>6. <<T \ {x}, T>> \in StrictSubsetOrdering(S)
  <2>1. T \ {x} \subseteq T /\ T \ {x} # T /\ T \ {x} \in SUBSET S /\ T \in SUBSET S
    BY <1>4
  <2> QED BY <2>1 DEF StrictSubsetOrdering
<1> QED BY <1>3, <1>5, <1>6

-----------------------------------------------------------------------------
\* g lists the sums of f over the subsets of S, as the library defines them.
Picked(s) == CHOOSE x \in s : TRUE
SumTable(f, S, g) ==
  g = [s \in SUBSET S |-> IF s = {} THEN 0 ELSE f[Picked(s)] + g[s \ {Picked(s)}]]

LEMMA SumIsTabled ==
  ASSUME NEW f, NEW S
  PROVE  SumFunctionOnSet(f, S) = (CHOOSE g : SumTable(f, S, g))[S]
BY DEF SumFunctionOnSet, FoldFunctionOnSet, MapThenFoldSet, SumTable, Picked

LEMMA PickedIsMember == \A s : s # {} => Picked(s) \in s
BY DEF Picked

LEMMA TableOfSubset ==
  ASSUME NEW f, NEW S, NEW g, SumTable(f, S, g), NEW T \in SUBSET S
  PROVE  SumTable(f, T, [s \in SUBSET T |-> g[s]])
<1> DEFINE h == [s \in SUBSET T |-> g[s]]
<1>1. ASSUME NEW s \in SUBSET T
      PROVE  h[s] = IF s = {} THEN 0 ELSE f[Picked(s)] + h[s \ {Picked(s)}]
  <2>1. s \in SUBSET S /\ s \ {Picked(s)} \in SUBSET T
    OBVIOUS
  <2>2. g[s] = IF s = {} THEN 0 ELSE f[Picked(s)] + g[s \ {Picked(s)}]
    BY <2>1 DEF SumTable
  <2> QED BY <2>1, <2>2
<1> HIDE DEF h
<1>2. h = [s \in SUBSET T |-> h[s]]
  BY DEF h
<1>3. h = [s \in SUBSET T |-> IF s = {} THEN 0 ELSE f[Picked(s)] + h[s \ {Picked(s)}]]
  BY <1>1, <1>2
<1>4. SumTable(f, T, h)
  BY <1>3 DEF SumTable
<1> QED BY <1>4 DEF h

\* Where functions agree, so do their tables.
LEMMA TablesAgree ==
  ASSUME NEW S, IsFiniteSet(S), NEW f, NEW g, \A x \in S : f[x] = g[x],
         NEW a, NEW b, SumTable(f, S, a), SumTable(g, S, b)
  PROVE  \A s \in SUBSET S : a[s] = b[s]
<1> DEFINE Good == {s \in SUBSET S : a[s] = b[s]}
<1>1. {} \in Good
  BY DEF SumTable
<1>2. ASSUME NEW s \in SUBSET S, s # {}, \A x \in s : s \ {x} \in Good PROVE s \in Good
  <2>1. Picked(s) \in s
    BY <1>2, PickedIsMember
  <2>2. a[s] = f[Picked(s)] + a[s \ {Picked(s)}] /\ b[s] = g[Picked(s)] + b[s \ {Picked(s)}]
    BY <1>2 DEF SumTable
  <2> QED BY <1>2, <2>1, <2>2
<1>3. \A s \in SUBSET S : s \in Good
  <2> HIDE DEF Good
  <2> QED BY <1>1, <1>2, SubsetInduction
<1> QED BY <1>3

LEMMA TablesExist ==
  ASSUME NEW f, NEW S, IsFiniteSet(S)
  PROVE  \A T \in SUBSET S : \E g : SumTable(f, T, g)
<1> DEFINE Good == {T \in SUBSET S : \E g : SumTable(f, T, g)}
<1>1. {} \in Good
  <2>1. SumTable(f, {}, [s \in SUBSET {} |-> 0])
    BY DEF SumTable
  <2> QED BY <2>1
<1>2. ASSUME NEW T \in SUBSET S, T # {}, \A x \in T : T \ {x} \in Good PROVE T \in Good
  <2> DEFINE Below(s) == CHOOSE g : SumTable(f, s, g)
             c == Picked(T)
             h == [s \in SUBSET T |-> IF s = T THEN f[c] + Below(T \ {c})[T \ {c}] ELSE Below(s)[s]]
  <2>1. c \in T
    BY <1>2, PickedIsMember
  <2>2. ASSUME NEW s \in SUBSET T, s # T PROVE SumTable(f, s, Below(s))
    <3>1. PICK x \in T : s \in SUBSET (T \ {x})
      BY <2>2
    <3>2. PICK g : SumTable(f, T \ {x}, g)
      BY <1>2
    <3>3. SumTable(f, s, [u \in SUBSET s |-> g[u]])
      BY <3>1, <3>2, TableOfSubset
    <3> QED BY <3>3
  <2>3. ASSUME NEW s \in SUBSET T, s # T, s # {}
        PROVE  Below(s)[s] = f[Picked(s)] + Below(s \ {Picked(s)})[s \ {Picked(s)}]
    <3> DEFINE u == s \ {Picked(s)}
    <3>1. Picked(s) \in s
      BY <2>3, PickedIsMember
    <3>2. u \in SUBSET s /\ u \in SUBSET T /\ u # T
      BY <3>1
    <3>3. SumTable(f, s, Below(s)) /\ SumTable(f, u, Below(u))
      BY <2>2, <2>3, <3>2
    <3> HIDE DEF Below, u
    <3>4. SumTable(f, u, [v \in SUBSET u |-> Below(s)[v]])
      BY <3>2, <3>3, TableOfSubset
    <3>5. IsFiniteSet(u)
      BY <1>2, <3>2, FS_Subset
    <3>6. \A v \in SUBSET u : [w \in SUBSET u |-> Below(s)[w]][v] = Below(u)[v]
      BY <3>3, <3>4, <3>5, TablesAgree
    <3>7. Below(s)[u] = Below(u)[u]
      BY <3>6
    <3>8. Below(s)[s] = f[Picked(s)] + Below(s)[u]
      BY <2>3, <3>3 DEF SumTable, u
    <3> QED BY <3>7, <3>8 DEF u
  <2>4. ASSUME T # {} PROVE Below({})[{}] = 0
    <3>1. SumTable(f, {}, Below({}))
      BY <2>2, <2>4
    <3> QED BY <3>1 DEF SumTable
  <2>5. ASSUME NEW s \in SUBSET T
        PROVE  h[s] = IF s = {} THEN 0 ELSE f[Picked(s)] + h[s \ {Picked(s)}]
    <3> HIDE DEF Below
    <3>1. CASE s = T
      BY <1>2, <2>1, <3>1
    <3>2. CASE s # T /\ s # {}
      <4>1. Picked(s) \in s
        BY <3>2, PickedIsMember
      <4>2. s \ {Picked(s)} # T
        BY <2>5, <3>2, <4>1
      <4> QED BY <2>3, <3>2, <4>2
    <3>3. CASE s = {} /\ s # T
      BY <2>4, <3>3
    <3> QED BY <3>1, <3>2, <3>3
  <2>6. SumTable(f, T, h)
    <3>1. h = [s \in SUBSET T |-> h[s]]
      OBVIOUS
    <3> HIDE DEF h
    <3>2. h = [s \in SUBSET T |-> IF s = {} THEN 0 ELSE f[Picked(s)] + h[s \ {Picked(s)}]]
      BY <2>5, <3>1
    <3> QED BY <3>2 DEF SumTable
  <2> QED BY <1>2, <2>6
<1>3. \A T \in SUBSET S : T \in Good
  <2> HIDE DEF Good
  <2> QED BY <1>1, <1>2, SubsetInduction
<1> QED BY <1>3

\* The sum of a set is that of what the library takes first and of the rest.
LEMMA SumPicked ==
  ASSUME NEW f, NEW S, IsFiniteSet(S)
  PROVE  /\ SumFunctionOnSet(f, {}) = 0
         /\ S # {} => SumFunctionOnSet(f, S) = f[Picked(S)] + SumFunctionOnSet(f, S \ {Picked(S)})
<1> DEFINE Chosen(s) == CHOOSE g : SumTable(f, s, g)
<1>1. \A s \in SUBSET S : SumTable(f, s, Chosen(s)) /\ SumFunctionOnSet(f, s) = Chosen(s)[s]
  BY TablesExist, SumIsTabled
<1> HIDE DEF Chosen
<1>2. SumFunctionOnSet(f, {}) = 0
  BY <1>1 DEF SumTable
<1>3. ASSUME S # {} PROVE SumFunctionOnSet(f, S) = f[Picked(S)] + SumFunctionOnSet(f, S \ {Picked(S)})
  <2> DEFINE u == S \ {Picked(S)}
  <2>1. Chosen(S)[S] = f[Picked(S)] + Chosen(S)[u]
    BY <1>1, <1>3 DEF SumTable
  <2>2. u \in SUBSET S /\ IsFiniteSet(u)
    BY FS_Subset
  <2> HIDE DEF u
  <2>3. SumTable(f, u, [v \in SUBSET u |-> Chosen(S)[v]])
    BY <1>1, <2>2, TableOfSubset
  <2>4. \A v \in SUBSET u : [w \in SUBSET u |-> Chosen(S)[w]][v] = Chosen(u)[v]
    BY <1>1, <2>2, <2>3, TablesAgree
  <2>5. Chosen(S)[u] = Chosen(u)[u]
    BY <2>4
  <2> QED BY <1>1, <2>1, <2>2, <2>5 DEF u
<1> QED BY <1>2, <1>3

-----------------------------------------------------------------------------
(* The laws of sums by which the invariants are kept. *)

THEOREM SumEmpty ==
  ASSUME NEW f PROVE SumFunctionOnSet(f, {}) = 0
BY SumPicked, FS_EmptySet

\* A sum looks at nothing but the values of its set.
THEOREM SumAgree ==
  ASSUME NEW S, IsFiniteSet(S), NEW f, NEW g, \A x \in S : f[x] = g[x]
  PROVE  SumFunctionOnSet(f, S) = SumFunctionOnSet(g, S)
<1> DEFINE a == CHOOSE h : SumTable(f, S, h)
           b == CHOOSE h : SumTable(g, S, h)
<1>1. SumTable(f, S, a) /\ SumTable(g, S, b)
  BY TablesExist
<1>2. SumFunctionOnSet(f, S) = a[S] /\ SumFunctionOnSet(g, S) = b[S]
  BY SumIsTabled
<1> HIDE DEF a, b
<1> QED BY <1>1, <1>2, TablesAgree

THEOREM SumType ==
  ASSUME NEW S, IsFiniteSet(S), NEW f, \A x \in S : f[x] \in Int
  PROVE  SumFunctionOnSet(f, S) \in Int
<1> DEFINE Good == {T \in SUBSET S : SumFunctionOnSet(f, T) \in Int}
<1>1. {} \in Good
  BY SumEmpty
<1>2. ASSUME NEW T \in SUBSET S, T # {}, \A x \in T : T \ {x} \in Good PROVE T \in Good
  <2> DEFINE c == Picked(T)
  <2>1. c \in T /\ IsFiniteSet(T)
    BY <1>2, PickedIsMember, FS_Subset
  <2>2. SumFunctionOnSet(f, T) = f[c] + SumFunctionOnSet(f, T \ {c})
    BY <1>2, <2>1, SumPicked
  <2>3. SumFunctionOnSet(f, T \ {c}) \in Int /\ f[c] \in Int
    BY <1>2, <2>1
  <2> HIDE DEF c
  <2> QED BY <2>2, <2>3
<1>3. \A T \in SUBSET S : T \in Good
  <2> HIDE DEF Good
  <2> QED BY <1>1, <1>2, SubsetInduction
<1> QED BY <1>3

\* In which order the library takes the members does not matter.
THEOREM SumRemove ==
  ASSUME NEW S, IsFiniteSet(S), NEW f, \A x \in S : f[x] \in Int, NEW x \in S
  PROVE  SumFunctionOnSet(f, S) = f[x] + SumFunctionOnSet(f, S \ {x})
<1> DEFINE Total(T) == SumFunctionOnSet(f, T)
           Good == {T \in SUBSET S : \A y \in T : Total(T) = f[y] + Total(T \ {y})}
<1>1. {} \in Good
  OBVIOUS
<1>2. ASSUME NEW T \in SUBSET S, T # {}, \A y \in T : T \ {y} \in Good PROVE T \in Good
  <2> DEFINE c == Picked(T)
  <2>1. c \in T
    BY <1>2, PickedIsMember
  <2>2. IsFiniteSet(T)
    BY FS_Subset
  <2>3. Total(T) = f[c] + Total(T \ {c})
    BY <1>2, <2>2, SumPicked
  <2>4. ASSUME NEW y \in T, y # c PROVE Total(T) = f[y] + Total(T \ {y})
    <3>1. Total(T \ {c}) = f[y] + Total((T \ {c}) \ {y})
      BY <1>2, <2>1, <2>4
    <3>2. Total(T \ {y}) = f[c] + Total((T \ {y}) \ {c})
      BY <1>2, <2>1, <2>4
    <3>3. (T \ {c}) \ {y} = (T \ {y}) \ {c}
      OBVIOUS
    <3>4. f[y] \in Int /\ f[c] \in Int /\ Total((T \ {c}) \ {y}) \in Int
      <4>1. IsFiniteSet((T \ {c}) \ {y})
        BY <2>2, FS_Subset
      <4> QED BY <2>1, <2>4, <4>1, SumType
    <3> DEFINE r == Total((T \ {c}) \ {y})
    <3>5. Total(T) = f[c] + (f[y] + r) /\ Total(T \ {y}) = f[c] + r
      BY <2>3, <3>1, <3>2, <3>3
    <3>6. f[y] \in Int /\ f[c] \in Int /\ r \in Int
      BY <3>4
    <3> HIDE DEF Total, c, r
    <3> QED BY <3>5, <3>6
  <2> QED BY <2>3, <2>4
<1>3. \A T \in SUBSET S : T \in Good
  <2> HIDE DEF Good
  <2> QED BY <1>1, <1>2, SubsetInduction
<1> QED BY <1>3

\* Where one member of the set has another value, the sum differs by as much.
THEOREM SumChanged ==
  ASSUME NEW S, IsFiniteSet(S), NEW f, NEW g, NEW x \in S,
         \A y \in S : f[y] \in Int, g[x] \in Int, \A y \in S \ {x} : g[y] = f[y]
  PROVE  SumFunctionOnSet(g, S) = SumFunctionOnSet(f, S) - f[x] + g[x]
<1>1. SumFunctionOnSet(f, S) = f[x] + SumFunctionOnSet(f, S \ {x})
  BY SumRemove
<1>2. \A y \in S : g[y] \in Int
  OBVIOUS
<1>3. SumFunctionOnSet(g, S) = g[x] + SumFunctionOnSet(g, S \ {x})
  BY <1>2, SumRemove
<1>4. IsFiniteSet(S \ {x})
  BY FS_Subset
<1>5. SumFunctionOnSet(g, S \ {x}) = SumFunctionOnSet(f, S \ {x})
  BY <1>4, SumAgree
<1>6. SumFunctionOnSet(f, S \ {x}) \in Int /\ f[x] \in Int
  BY <1>4, SumType
<1> QED BY <1>1, <1>3, <1>5, <1>6

\* A member more.
THEOREM SumAdded ==
  ASSUME NEW S, IsFiniteSet(S), NEW f, NEW x, x \notin S, \A y \in S \cup {x} : f[y] \in Int
  PROVE  SumFunctionOnSet(f, S \cup {x}) = SumFunctionOnSet(f, S) + f[x]
<1>1. IsFiniteSet(S \cup {x}) /\ (S \cup {x}) \ {x} = S
  BY FS_AddElement
<1>2. SumFunctionOnSet(f, S \cup {x}) = f[x] + SumFunctionOnSet(f, (S \cup {x}) \ {x})
  BY <1>1, SumRemove
<1> DEFINE r == SumFunctionOnSet(f, S)
<1>3. r \in Int /\ f[x] \in Int
  BY SumType
<1>4. SumFunctionOnSet(f, S \cup {x}) = f[x] + r
  BY <1>1, <1>2
<1> HIDE DEF r
<1>5. f[x] + r = r + f[x]
  BY <1>3
<1> QED BY <1>4, <1>5 DEF r

\* An entry written inside the set or outside of it.
THEOREM SumWritten ==
  ASSUME NEW S, IsFiniteSet(S), NEW R \in SUBSET S, NEW f, NEW g, NEW x \in S,
         \A y \in S : f[y] \in Int, g[x] \in Int, \A y \in S \ {x} : g[y] = f[y]
  PROVE  /\ SumFunctionOnSet(g, R) = SumFunctionOnSet(f, R) + (IF x \in R THEN g[x] - f[x] ELSE 0)
         /\ SumFunctionOnSet(f, R) \in Int
<1>1. IsFiniteSet(R)
  BY FS_Subset
<1>2. SumFunctionOnSet(f, R) \in Int
  BY <1>1, SumType
<1>3. CASE x \in R
  <2>1. SumFunctionOnSet(g, R) = SumFunctionOnSet(f, R) - f[x] + g[x]
    BY <1>1, <1>3, SumChanged
  <2> DEFINE a == SumFunctionOnSet(f, R)
             b == f[x]
             c == g[x]
  <2>2. a \in Int /\ b \in Int /\ c \in Int /\ SumFunctionOnSet(g, R) = a - b + c
    BY <1>2, <2>1
  <2> HIDE DEF a, b, c
  <2>3. a - b + c = a + (c - b)
    BY <2>2
  <2> QED BY <1>2, <1>3, <2>2, <2>3 DEF a, b, c
<1>4. CASE x \notin R
  <2>1. SumFunctionOnSet(g, R) = SumFunctionOnSet(f, R)
    BY <1>1, <1>4, SumAgree
  <2> QED BY <1>2, <1>4, <2>1
<1> QED BY <1>3, <1>4

\* The same of functions as a whole: one that has an entry more.
THEOREM SumExtended ==
  ASSUME NEW S, IsFiniteSet(S), NEW f, NEW g, NEW x, x \notin S, DOMAIN f = S, DOMAIN g = S \cup {x},
         \A y \in S : f[y] \in Int, \A y \in S : g[y] = f[y], g[x] \in Int
  PROVE  SumFunction(g) = SumFunction(f) + g[x] /\ SumFunction(f) \in Int
<1>1. SumFunction(f) = SumFunctionOnSet(f, S) /\ SumFunction(g) = SumFunctionOnSet(g, S \cup {x})
  BY DEF SumFunction
<1>2. \A y \in S \cup {x} : g[y] \in Int
  OBVIOUS
<1>3. SumFunctionOnSet(g, S \cup {x}) = SumFunctionOnSet(g, S) + g[x]
  BY <1>2, SumAdded
<1>4. SumFunctionOnSet(g, S) = SumFunctionOnSet(f, S)
  BY SumAgree
<1>5. SumFunctionOnSet(f, S) \in Int
  BY SumType
<1> QED BY <1>1, <1>3, <1>4, <1>5

\* A relation that zeros have and sums inherit: k times.
THEOREM SumScaled ==
  ASSUME NEW S, IsFiniteSet(S), NEW f, NEW g, NEW k \in Int,
         \A x \in S : f[x] \in Int /\ g[x] = k * f[x]
  PROVE  SumFunctionOnSet(g, S) = k * SumFunctionOnSet(f, S)
<1> DEFINE Good == {T \in SUBSET S : SumFunctionOnSet(g, T) = k * SumFunctionOnSet(f, T)}
<1>1. {} \in Good
  BY SumEmpty
<1>2. ASSUME NEW T \in SUBSET S, T # {}, \A x \in T : T \ {x} \in Good PROVE T \in Good
  <2> DEFINE c == Picked(T)
             r == SumFunctionOnSet(f, T \ {c})
  <2>1. c \in T /\ IsFiniteSet(T) /\ IsFiniteSet(T \ {c})
    BY <1>2, PickedIsMember, FS_Subset
  <2>0. SumFunctionOnSet(g, T \ {c}) = k * r
    BY <1>2, <2>1
  <2>2. SumFunctionOnSet(f, T) = f[c] + r /\ SumFunctionOnSet(g, T) = g[c] + k * r
    BY <1>2, <2>0, <2>1, SumPicked
  <2>3. r \in Int /\ f[c] \in Int /\ g[c] = k * f[c]
    BY <2>1, SumType
  <2> HIDE DEF c, r
  <2>4. \A i, j \in Int : k * (i + j) = k * i + k * j
    OBVIOUS
  <2> QED BY <2>2, <2>3, <2>4
<1>3. \A T \in SUBSET S : T \in Good
  <2> HIDE DEF Good
  <2> QED BY <1>1, <1>2, SubsetInduction
<1> QED BY <1>3

\* Sums are as large as their terms are.
THEOREM SumAtMost ==
  ASSUME NEW S, IsFiniteSet(S), NEW f, NEW g,
         \A x \in S : f[x] \in Int /\ g[x] \in Int /\ f[x] <= g[x]
  PROVE  SumFunctionOnSet(f, S) <= SumFunctionOnSet(g, S)
<1> DEFINE Good == {T \in SUBSET S : SumFunctionOnSet(f, T) <= SumFunctionOnSet(g, T)}
<1>1. {} \in Good
  BY SumEmpty
<1>2. ASSUME NEW T \in SUBSET S, T # {}, \A x \in T : T \ {x} \in Good PROVE T \in Good
  <2> DEFINE c == Picked(T)
  <2>1. c \in T /\ IsFiniteSet(T) /\ IsFiniteSet(T \ {c})
    BY <1>2, PickedIsMember, FS_Subset
  <2>2. /\ SumFunctionOnSet(f, T) = f[c] + SumFunctionOnSet(f, T \ {c})
        /\ SumFunctionOnSet(g, T) = g[c] + SumFunctionOnSet(g, T \ {c})
    BY <1>2, <2>1, SumPicked
  <2>3. SumFunctionOnSet(f, T \ {c}) \in Int /\ SumFunctionOnSet(g, T \ {c}) \in Int
    BY <2>1, SumType
  <2>4. SumFunctionOnSet(f, T \ {c}) <= SumFunctionOnSet(g, T \ {c}) /\ f[c] <= g[c] /\ f[c] \in Int /\ g[c] \in Int
    BY <1>2, <2>1
  <2> HIDE DEF c
  <2> QED BY <2>2, <2>3, <2>4
<1>3. \A T \in SUBSET S : T \in Good
  <2> HIDE DEF Good
  <2> QED BY <1>1, <1>2, SubsetInduction
<1> QED BY <1>3

THEOREM SumNat ==
  ASSUME NEW S, IsFiniteSet(S), NEW f, \A x \in S : f[x] \in Nat
  PROVE  SumFunctionOnSet(f, S) \in Nat
<1> DEFINE Good == {T \in SUBSET S : SumFunctionOnSet(f, T) \in Nat}
<1>1. {} \in Good
  BY SumEmpty
<1>2. ASSUME NEW T \in SUBSET S, T # {}, \A x \in T : T \ {x} \in Good PROVE T \in Good
  <2> DEFINE c == Picked(T)
  <2>1. c \in T /\ IsFiniteSet(T)
    BY <1>2, PickedIsMember, FS_Subset
  <2>2. SumFunctionOnSet(f, T) = f[c] + SumFunctionOnSet(f, T \ {c})
    BY <1>2, <2>1, SumPicked
  <2>3. SumFunctionOnSet(f, T \ {c}) \in Nat /\ f[c] \in Nat
    BY <1>2, <2>1
  <2> HIDE DEF c
  <2> QED BY <2>2, <2>3
<1>3. \A T \in SUBSET S : T \in Good
  <2> HIDE DEF Good
  <2> QED BY <1>1, <1>2, SubsetInduction
<1> QED BY <1>3

THEOREM SumOfZeros ==
  ASSUME NEW S, IsFiniteSet(S), NEW f, \A x \in S : f[x] = 0
  PROVE  SumFunctionOnSet(f, S) = 0
<1> DEFINE Good == {T \in SUBSET S : SumFunctionOnSet(f, T) = 0}
<1>1. {} \in Good
  BY SumEmpty
<1>2. ASSUME NEW T \in SUBSET S, T # {}, \A x \in T : T \ {x} \in Good PROVE T \in Good
  <2>1. Picked(T) \in T /\ IsFiniteSet(T)
    BY <1>2, PickedIsMember, FS_Subset
  <2>2. SumFunctionOnSet(f, T) = f[Picked(T)] + SumFunctionOnSet(f, T \ {Picked(T)})
    BY <1>2, <2>1, SumPicked
  <2>3. SumFunctionOnSet(f, T \ {Picked(T)}) = 0 /\ f[Picked(T)] = 0
    BY <1>2, <2>1
  <2> QED BY <2>2, <2>3
<1>3. \A T \in SUBSET S : T \in Good
  <2> HIDE DEF Good
  <2> QED BY <1>1, <1>2, SubsetInduction
<1> QED BY <1>3

\* The same of a function as a whole.
THEOREM SumUpdated ==
  ASSUME NEW S, IsFiniteSet(S), NEW f, NEW g, DOMAIN f = S, DOMAIN g = S, NEW x \in S,
         \A y \in S : f[y] \in Int, g[x] \in Int, \A y \in S \ {x} : g[y] = f[y]
  PROVE  SumFunction(g) = SumFunction(f) - f[x] + g[x] /\ SumFunction(f) \in Int
<1>1. SumFunction(f) = SumFunctionOnSet(f, S) /\ SumFunction(g) = SumFunctionOnSet(g, S)
  BY DEF SumFunction
<1>2. SumFunctionOnSet(g, S) = SumFunctionOnSet(f, S) - f[x] + g[x]
  BY SumChanged
<1>3. SumFunctionOnSet(f, S) \in Int
  BY SumType
<1> QED BY <1>1, <1>2, <1>3

-----------------------------------------------------------------------------
(* A finite set of integers that is not empty has a least and a greatest    *)
(* element.                                                                *)
THEOREM LeastExists ==
  ASSUME NEW S, IsFiniteSet(S), S # {}, S \subseteq Int
  PROVE  \E m \in S : \A x \in S : m <= x
<1> DEFINE Good == {T \in SUBSET S : T # {} => \E m \in T : \A x \in T : m <= x}
<1>1. {} \in Good
  OBVIOUS
<1>2. ASSUME NEW T \in SUBSET S, T # {}, \A x \in T : T \ {x} \in Good PROVE T \in Good
  <2>1. PICK y \in T : TRUE
    BY <1>2
  <2>2. CASE T \ {y} = {}
    <3>1. T = {y} /\ y \in Int
      BY <2>1, <2>2
    <3>2. \A x \in T : y <= x
      BY <3>1
    <3> QED BY <2>1, <3>2
  <2>3. CASE T \ {y} # {}
    <3>1. PICK m \in T \ {y} : \A x \in T \ {y} : m <= x
      BY <1>2, <2>1, <2>3
    <3>2. m \in Int /\ y \in Int /\ T \subseteq Int
      OBVIOUS
    <3>3. CASE m <= y
      BY <3>1, <3>2, <3>3
    <3>4. CASE y <= m
      <4>1. \A x \in T : y <= x
        BY <3>1, <3>2, <3>4
      <4> QED BY <2>1, <4>1
    <3> QED BY <3>2, <3>3, <3>4
  <2> QED BY <2>2, <2>3
<1>3. \A T \in SUBSET S : T \in Good
  <2> HIDE DEF Good
  <2> QED BY <1>1, <1>2, SubsetInduction
<1> QED BY <1>3

THEOREM GreatestExists ==
  ASSUME NEW S, IsFiniteSet(S), S # {}, S \subseteq Int
  PROVE  \E m \in S : \A x \in S : m >= x
<1> DEFINE Good == {T \in SUBSET S : T # {} => \E m \in T : \A x \in T : m >= x}
<1>1. {} \in Good
  OBVIOUS
<1>2. ASSUME NEW T \in SUBSET S, T # {}, \A x \in T : T \ {x} \in Good PROVE T \in Good
  <2>1. PICK y \in T : TRUE
    BY <1>2
  <2>2. CASE T \ {y} = {}
    <3>1. T = {y} /\ y \in Int
      BY <2>1, <2>2
    <3>2. \A x \in T : y >= x
      BY <3>1
    <3> QED BY <2>1, <3>2
  <2>3. CASE T \ {y} # {}
    <3>1. PICK m \in T \ {y} : \A x \in T \ {y} : m >= x
      BY <1>2, <2>1, <2>3
    <3>2. m \in Int /\ y \in Int /\ T \subseteq Int
      OBVIOUS
    <3>3. CASE m >= y
      BY <3>1, <3>2, <3>3
    <3>4. CASE y >= m
      <4>1. \A x \in T : y >= x
        BY <3>1, <3>2, <3>4
      <4> QED BY <2>1, <4>1
    <3> QED BY <3>2, <3>3, <3>4
  <2> QED BY <2>2, <2>3
<1>3. \A T \in SUBSET S : T \in Good
  <2> HIDE DEF Good
  <2> QED BY <1>1, <1>2, SubsetInduction
<1> QED BY <1>3

(* A sum of differences is the difference of the sums. *)
THEOREM SumMinus ==
  ASSUME NEW S, IsFiniteSet(S), NEW f, NEW g, NEW h,
         \A x \in S : f[x] \in Int /\ g[x] \in Int /\ h[x] = f[x] - g[x]
  PROVE  SumFunctionOnSet(h, S) = SumFunctionOnSet(f, S) - SumFunctionOnSet(g, S)
<1> DEFINE Good == {T \in SUBSET S :
                      SumFunctionOnSet(h, T) = SumFunctionOnSet(f, T) - SumFunctionOnSet(g, T)}
<1>1. {} \in Good
  BY SumEmpty
<1>2. ASSUME NEW T \in SUBSET S, T # {}, \A x \in T : T \ {x} \in Good PROVE T \in Good
  <2>1. PICK x \in T : TRUE
    BY <1>2
  <2>2. IsFiniteSet(T) /\ IsFiniteSet(T \ {x})
    BY FS_Subset
  <2>3. h[x] = f[x] - g[x] /\ f[x] \in Int /\ g[x] \in Int
    OBVIOUS
  <2>4. \A y \in T : h[y] \in Int
    OBVIOUS
  <2>5. /\ SumFunctionOnSet(f, T) = f[x] + SumFunctionOnSet(f, T \ {x})
        /\ SumFunctionOnSet(g, T) = g[x] + SumFunctionOnSet(g, T \ {x})
        /\ SumFunctionOnSet(h, T) = h[x] + SumFunctionOnSet(h, T \ {x})
    BY <2>1, <2>2, <2>4, SumRemove
  <2>6. SumFunctionOnSet(f, T \ {x}) \in Int /\ SumFunctionOnSet(g, T \ {x}) \in Int
    BY <2>2, SumType
  <2>7. SumFunctionOnSet(h, T \ {x}) = SumFunctionOnSet(f, T \ {x}) - SumFunctionOnSet(g, T \ {x})
    BY <1>2, <2>1
  <2> HIDE DEF Good
  <2>8. SumFunctionOnSet(h, T) = SumFunctionOnSet(f, T) - SumFunctionOnSet(g, T)
    BY <2>3, <2>5, <2>6, <2>7
  <2> QED BY <2>8 DEF Good
<1>3. \A T \in SUBSET S : T \in Good
  <2> HIDE DEF Good
  <2> QED BY <1>1, <1>2, SubsetInduction
<1> QED BY <1>3

\* Members whose value is zero can be left out.
THEOREM SumOfOthers ==
  ASSUME NEW S, IsFiniteSet(S), NEW R \in SUBSET S, NEW f,
         \A x \in S : f[x] \in Int, \A x \in S \ R : f[x] = 0
  PROVE  SumFunctionOnSet(f, S) = SumFunctionOnSet(f, R)
<1> DEFINE Good == {T \in SUBSET S : SumFunctionOnSet(f, T) = SumFunctionOnSet(f, T \cap R)}
<1>1. {} \in Good
  BY SumEmpty
<1>2. ASSUME NEW T \in SUBSET S, T # {}, \A x \in T : T \ {x} \in Good PROVE T \in Good
  <2>1. PICK x \in T : TRUE
    BY <1>2
  <2>2. IsFiniteSet(T) /\ IsFiniteSet(T \cap R) /\ IsFiniteSet((T \ {x}) \cap R)
    BY FS_Subset
  <2>3. SumFunctionOnSet(f, T) = f[x] + SumFunctionOnSet(f, (T \ {x}) \cap R)
    <3>1. SumFunctionOnSet(f, T) = f[x] + SumFunctionOnSet(f, T \ {x})
      BY <2>2, SumRemove
    <3> QED BY <1>2, <3>1
  <2>4. CASE x \in R
    <3>1. SumFunctionOnSet(f, T \cap R) = f[x] + SumFunctionOnSet(f, (T \cap R) \ {x})
      BY <2>2, <2>4, SumRemove
    <3>2. (T \cap R) \ {x} = (T \ {x}) \cap R
      OBVIOUS
    <3> QED BY <2>3, <3>1, <3>2
  <2>5. CASE x \notin R
    <3>1. (T \ {x}) \cap R = T \cap R /\ f[x] = 0
      BY <2>5
    <3> DEFINE r == SumFunctionOnSet(f, T \cap R)
    <3>2. r \in Int
      <4>1. \A y \in T \cap R : f[y] \in Int
        OBVIOUS
      <4> QED BY <2>2, <4>1, SumType
    <3>3. SumFunctionOnSet(f, T) = 0 + r
      BY <2>3, <3>1
    <3> HIDE DEF r
    <3>4. SumFunctionOnSet(f, T) = r
      BY <3>2, <3>3
    <3> QED BY <3>4 DEF r
  <2> QED BY <2>4, <2>5
<1>3. \A T \in SUBSET S : T \in Good
  <2> HIDE DEF Good
  <2> QED BY <1>1, <1>2, SubsetInduction
<1>4. S \cap R = R
  OBVIOUS
<1> QED BY <1>3, <1>4

\* A member of a sum of naturals is at most the sum.
THEOREM SumMember ==
  ASSUME NEW S, IsFiniteSet(S), NEW f, \A x \in S : f[x] \in Nat
  PROVE  \A x \in S : f[x] <= SumFunctionOnSet(f, S)
<1> SUFFICES ASSUME NEW x \in S PROVE f[x] <= SumFunctionOnSet(f, S)
  OBVIOUS
<1> DEFINE rest == SumFunctionOnSet(f, S \ {x})
<1>1. rest \in Nat
  BY FS_Subset, SumNat
<1>2. SumFunctionOnSet(f, S) = f[x] + rest
  BY SumRemove
<1> HIDE DEF rest
<1> QED BY <1>1, <1>2

\* k times another function more.
THEOREM SumShifted ==
  ASSUME NEW S, IsFiniteSet(S), NEW f, NEW g, NEW h, NEW k \in Int,
         \A x \in S : f[x] \in Int /\ h[x] \in Int /\ g[x] = h[x] + k * f[x]
  PROVE  SumFunctionOnSet(g, S) = SumFunctionOnSet(h, S) + k * SumFunctionOnSet(f, S)
<1> DEFINE m == [x \in S |-> k * f[x]]
           a == SumFunctionOnSet(g, S)
           b == SumFunctionOnSet(h, S)
           c == SumFunctionOnSet(m, S)
<1>1. \A x \in S : m[x] \in Int /\ m[x] = k * f[x]
  OBVIOUS
<1>2. c = k * SumFunctionOnSet(f, S)
  <2> HIDE DEF m
  <2> QED BY <1>1, SumScaled
<1>3. \A x \in S : g[x] \in Int /\ m[x] \in Int /\ h[x] = g[x] - m[x]
  <2> SUFFICES ASSUME NEW x \in S PROVE g[x] \in Int /\ m[x] \in Int /\ h[x] = g[x] - m[x]
    OBVIOUS
  <2>1. m[x] \in Int /\ g[x] = h[x] + m[x] /\ h[x] \in Int
    BY <1>1
  <2> HIDE DEF m
  <2> QED BY <2>1
<1>4. b = a - c
  <2> HIDE DEF m
  <2> QED BY <1>3, SumMinus
<1>5. a \in Int /\ b \in Int /\ c \in Int
  <2>1. \A x \in S : h[x] \in Int
    OBVIOUS
  <2> HIDE DEF m
  <2> QED BY <1>3, <2>1, SumType
<1> HIDE DEF a, b, c
<1>6. a = b + c
  BY <1>4, <1>5
<1> QED BY <1>2, <1>6 DEF a, b

\* A set and what is left of another without it: the sums add up.
THEOREM SumSplit ==
  ASSUME NEW S, IsFiniteSet(S), NEW R \in SUBSET S, NEW f, \A x \in S : f[x] \in Int
  PROVE  /\ SumFunctionOnSet(f, R) \in Int /\ SumFunctionOnSet(f, S \ R) \in Int
         /\ SumFunctionOnSet(f, S) = SumFunctionOnSet(f, R) + SumFunctionOnSet(f, S \ R)
<1> DEFINE g == [x \in S |-> IF x \in R THEN f[x] ELSE 0]
           h == [x \in S |-> IF x \in R THEN 0 ELSE f[x]]
           a == SumFunctionOnSet(f, R)
           b == SumFunctionOnSet(f, S \ R)
           c == SumFunctionOnSet(f, S)
<1>1. IsFiniteSet(R) /\ IsFiniteSet(S \ R) /\ S \ R \in SUBSET S
  BY FS_Subset
<1>2. \A x \in S : g[x] \in Int /\ h[x] \in Int /\ h[x] = f[x] - g[x]
  OBVIOUS
<1>3. SumFunctionOnSet(g, S) = a
  <2>1. \A x \in S \ R : g[x] = 0
    OBVIOUS
  <2>2. \A x \in R : g[x] = f[x]
    OBVIOUS
  <2> HIDE DEF g
  <2>3. SumFunctionOnSet(g, S) = SumFunctionOnSet(g, R)
    BY <1>2, <2>1, SumOfOthers
  <2> QED BY <1>1, <2>2, <2>3, SumAgree
<1>4. SumFunctionOnSet(h, S) = b
  <2>1. \A x \in S \ (S \ R) : h[x] = 0
    OBVIOUS
  <2>2. \A x \in S \ R : h[x] = f[x]
    OBVIOUS
  <2> HIDE DEF h
  <2>3. SumFunctionOnSet(h, S) = SumFunctionOnSet(h, S \ R)
    BY <1>1, <1>2, <2>1, SumOfOthers
  <2> QED BY <1>1, <2>2, <2>3, SumAgree
<1>5. SumFunctionOnSet(h, S) = c - SumFunctionOnSet(g, S)
  <2> HIDE DEF g, h
  <2> QED BY <1>2, SumMinus
<1>6. a \in Int /\ b \in Int /\ c \in Int
  BY <1>1, SumType
<1> HIDE DEF a, b, c
<1>7. c = a + b
  BY <1>3, <1>4, <1>5, <1>6
<1> QED BY <1>6, <1>7 DEF a, b, c

(* Sums over those members that count: one member is written, and may begin *)
(* or cease to count.                                                      *)
THEOREM SumReplaced ==
  ASSUME NEW S, IsFiniteSet(S), NEW f, NEW g, NEW Q \in SUBSET S, NEW R \in SUBSET S, NEW x \in S,
         \A y \in S : f[y] \in Int /\ g[y] \in Int,
         \A y \in S \ {x} : g[y] = f[y] /\ (y \in R <=> y \in Q)
  PROVE  /\ SumFunctionOnSet(f, Q) \in Int /\ SumFunctionOnSet(g, R) \in Int
         /\ SumFunctionOnSet(g, R) = SumFunctionOnSet(f, Q) - (IF x \in Q THEN f[x] ELSE 0)
                                       + (IF x \in R THEN g[x] ELSE 0)
<1> DEFINE C == Q \ {x}
           c == SumFunctionOnSet(f, C)
           a == SumFunctionOnSet(f, Q)
           b == SumFunctionOnSet(g, R)
<1>1. IsFiniteSet(Q) /\ IsFiniteSet(R) /\ IsFiniteSet(C) /\ C \in SUBSET S /\ C = R \ {x}
  BY FS_Subset
<1>2. SumFunctionOnSet(g, C) = c
  <2>1. \A y \in C : f[y] = g[y]
    OBVIOUS
  <2> QED BY <1>1, <2>1, SumAgree
<1>3. c \in Int /\ a \in Int /\ b \in Int
  BY <1>1, SumType
<1>4. a = c + (IF x \in Q THEN f[x] ELSE 0)
  <2>1. CASE x \in Q
    <3>1. a = f[x] + c
      BY <1>1, <2>1, SumRemove
    <3> HIDE DEF a, c
    <3> QED BY <1>3, <2>1, <3>1
  <2>2. CASE x \notin Q
    <3>1. C = Q
      BY <2>2
    <3>2. a = c
      BY <3>1
    <3> HIDE DEF a, c
    <3> QED BY <1>3, <2>2, <3>2
  <2> QED BY <2>1, <2>2
<1>5. b = c + (IF x \in R THEN g[x] ELSE 0)
  <2>1. CASE x \in R
    <3>1. b = g[x] + SumFunctionOnSet(g, R \ {x})
      BY <1>1, <2>1, SumRemove
    <3>2. b = g[x] + c
      BY <1>1, <1>2, <3>1
    <3> HIDE DEF b, c
    <3> QED BY <1>3, <2>1, <3>2
  <2>2. CASE x \notin R
    <3>1. C = R
      BY <1>1, <2>2
    <3>2. b = c
      BY <1>2, <3>1
    <3> HIDE DEF b, c
    <3> QED BY <1>3, <2>2, <3>2
  <2> QED BY <2>1, <2>2
<1> HIDE DEF a, b, c
<1>6. b = a - (IF x \in Q THEN f[x] ELSE 0) + (IF x \in R THEN g[x] ELSE 0)
  <2>1. (IF x \in Q THEN f[x] ELSE 0) \in Int /\ (IF x \in R THEN g[x] ELSE 0) \in Int
    OBVIOUS
  <2> QED BY <1>3, <1>4, <1>5, <2>1
<1> QED BY <1>3, <1>6 DEF a, b

(* Who takes an amount from one member after the other, the greatest first, *)
(* and from each what is left to take, takes the amount or all there is.   *)
THEOREM SumTaken ==
  ASSUME NEW S \in SUBSET Int, IsFiniteSet(S), NEW f, NEW g, NEW d \in Nat, \A x \in S : f[x] \in Nat,
         \A x \in S : LET rest == d - SumFunctionOnSet(f, {y \in S : y > x})
                      IN  g[x] = IF rest <= 0 THEN 0 ELSE IF f[x] <= rest THEN f[x] ELSE rest
  PROVE  SumFunctionOnSet(g, S) = IF d <= SumFunctionOnSet(f, S) THEN d ELSE SumFunctionOnSet(f, S)
<1> DEFINE Total(T) == SumFunctionOnSet(f, T)
           Least(a, rest) == IF rest <= 0 THEN 0 ELSE IF a <= rest THEN a ELSE rest
           Part(T) == [x \in T |-> Least(f[x], d - Total({y \in T : y > x}))]
           Good == {T \in SUBSET S : SumFunctionOnSet(Part(T), T) = IF d <= Total(T) THEN d ELSE Total(T)}
<1>1. {} \in Good
  BY SumEmpty
<1>2. ASSUME NEW T \in SUBSET S, T # {}, \A x \in T : T \ {x} \in Good PROVE T \in Good
  <2>1. IsFiniteSet(T) /\ T \subseteq Int
    BY FS_Subset
  <2>2. PICK x \in T : \A y \in T : x <= y
    BY <1>2, <2>1, LeastExists
  <2> DEFINE U == T \ {x}
  <2>3. IsFiniteSet(U) /\ U \in Good
    BY <1>2, <2>1, FS_Subset
  <2>4. \A V \in SUBSET T : Total(V) \in Nat
    <3> SUFFICES ASSUME NEW V \in SUBSET T PROVE Total(V) \in Nat
      OBVIOUS
    <3>1. IsFiniteSet(V) /\ \A y \in V : f[y] \in Nat
      BY <2>1, FS_Subset
    <3> QED BY <3>1, SumNat
  <2>5. Total(T) = f[x] + Total(U)
    <3>1. \A y \in T : f[y] \in Int
      OBVIOUS
    <3> QED BY <2>1, <3>1, SumRemove
  <2>6. {y \in T : y > x} = U
    <3>1. \A y \in T : y # x <=> y > x
      BY <2>1, <2>2
    <3> QED BY <3>1
  <2>7. \A y \in U : {z \in T : z > y} = {z \in U : z > y}
    <3>1. \A y \in U : ~(x > y)
      BY <2>1, <2>2
    <3> QED BY <3>1
  <2>8. Part(T)[x] = Least(f[x], d - Total(U))
    BY <2>6
  <2>9. \A y \in U : Part(T)[y] = Part(U)[y]
    BY <2>7
  <2>10. \A y \in T : Part(T)[y] \in Int
    <3> SUFFICES ASSUME NEW y \in T PROVE Part(T)[y] \in Int
      OBVIOUS
    <3> DEFINE rest == d - Total({z \in T : z > y})
    <3>1. rest \in Int /\ f[y] \in Nat
      <4>1. Total({z \in T : z > y}) \in Nat
        BY <2>4
      <4> HIDE DEF Total
      <4> QED BY <4>1
    <3>2. Part(T)[y] = Least(f[y], rest)
      OBVIOUS
    <3> HIDE DEF Part, rest
    <3> QED BY <3>1, <3>2
  <2> DEFINE a == f[x]
             u == Total(U)
             p == SumFunctionOnSet(Part(T), T)
             q == SumFunctionOnSet(Part(U), U)
  <2>11. SumFunctionOnSet(Part(T), T) = Part(T)[x] + SumFunctionOnSet(Part(T), U)
    <3> HIDE DEF Part
    <3> QED BY ONLY <2>1, <2>2, <2>10, SumRemove
  <2>12. SumFunctionOnSet(Part(T), U) = q
    <3> HIDE DEF Part
    <3> QED BY <2>3, <2>9, SumAgree
  <2>13. q = IF d <= u THEN d ELSE u
    BY <2>3
  <2>14. a \in Nat /\ u \in Nat /\ p = Least(a, d - u) + q /\ Total(T) = a + u
    BY <2>4, <2>5, <2>8, <2>11, <2>12
  <2>15. p = IF d <= Total(T) THEN d ELSE Total(T)
    <3> DEFINE t == Total(T)
    <3>1. t = a + u
      BY <2>14
    <3> HIDE DEF a, u, p, q, t
    <3>2. p = IF d <= t THEN d ELSE t
      BY <2>13, <2>14, <3>1
    <3> QED BY <3>2 DEF t
  <2> QED BY <2>15
<1>3. S \in Good
  <2> HIDE DEF Good
  <2>1. \A T \in SUBSET S : T \in Good
    BY ONLY <1>1, <1>2, IsFiniteSet(S), SubsetInduction
  <2> QED BY <2>1
<1>4. \A x \in S : Part(S)[x] = g[x]
  OBVIOUS
<1>5. SumFunctionOnSet(Part(S), S) = SumFunctionOnSet(g, S)
  <2> HIDE DEF Part
  <2> QED BY <1>4, SumAgree
<1> QED BY <1>3, <1>5
=============================================================================
