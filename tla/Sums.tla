-------------------------------- MODULE Sums --------------------------------
(***************************************************************************)
(* Lemmas about finite sets of numbers: that they have a largest element,  *)
(* and about the sums the specifications are written with, the             *)
(* SumFunctionOnSet of the community modules.  The fold behind it is a     *)
(* recursive function, a CHOOSE to the provers: that the function exists,  *)
(* and that the sum does not depend on the order in which the fold takes   *)
(* the elements, is proved first, by minimal counterexample in the strict  *)
(* order of the finite subsets.                                            *)
(***************************************************************************)
EXTENDS Integers, FiniteSets, Folds, Functions, FiniteSetTheorems, TLAPS

\* Among sets of elements of a finite set there is one that no other is in.
LEMMA MinimalSet ==
    ASSUME NEW S, IsFiniteSet(S), NEW Bad \in SUBSET SUBSET S, Bad # {}
    PROVE  \E T \in Bad : \A U \in Bad : U \subseteq T => U = T
  <1>1. IsWellFoundedOn(StrictSubsetOrdering(S), SUBSET S)
    BY FS_StrictSubsetOrderingWellFounded, FS_FiniteSubsetsOfFinite
  <1>2. PICK T \in Bad : \A U \in Bad : <<U, T>> \notin StrictSubsetOrdering(S)
    BY <1>1, WFMin
  <1>3. ASSUME NEW U \in Bad, U \subseteq T, U # T
        PROVE  FALSE
    BY <1>2, <1>3 DEF StrictSubsetOrdering
  <1> QED
    BY <1>2, <1>3

\* What is in Q and is kept in Q element by element reaches the whole set.
LEMMA SetInduction ==
    ASSUME NEW S, IsFiniteSet(S), NEW Q, {} \in Q,
           \A T \in SUBSET S : \A x \in S \ T : T \in Q => T \cup {x} \in Q
    PROVE  S \in Q
  <1> DEFINE Bad == {T \in SUBSET S : T \notin Q}
  <1>1. SUFFICES ASSUME Bad # {} PROVE FALSE
    OBVIOUS
  <1>2. PICK T \in Bad : \A U \in Bad : U \subseteq T => U = T
    <2> HIDE DEF Bad
    <2>1. Bad \in SUBSET SUBSET S
      BY DEF Bad
    <2> QED
      BY <1>1, <2>1, MinimalSet
  <1>3. PICK x : x \in T
    BY <1>2
  <1>4. T \ {x} \in SUBSET S /\ T \ {x} # T /\ T \ {x} \subseteq T
    BY <1>2, <1>3
  <1>5. T \ {x} \in Q
    BY <1>2, <1>4
  <1>6. (T \ {x}) \cup {x} = T
    BY <1>3
  <1> QED
    BY <1>2, <1>3, <1>4, <1>5, <1>6

\* A finite set of integers that is not empty has a largest element.
LEMMA HasLargest ==
    ASSUME NEW S, IsFiniteSet(S), S \subseteq Int, S # {}
    PROVE  \E m \in S : \A x \in S : x <= m
  <1> DEFINE Good(T) == T = {} \/ \E m \in T : \A x \in T : x <= m
             Q == {T \in SUBSET S : Good(T)}
  <1>1. {} \in Q
    OBVIOUS
  <1>2. ASSUME NEW T \in SUBSET S, NEW y \in S \ T, T \in Q
        PROVE  T \cup {y} \in Q
    <2>1. Good(T)
      BY <1>2
    <2>2. Good(T \cup {y})
      <3>1. CASE T = {}
        <4>1. y \in T \cup {y} /\ \A x \in T \cup {y} : x <= y
          BY <3>1
        <4> QED
          BY <4>1
      <3>2. CASE \E m \in T : \A x \in T : x <= m
        <4>1. PICK m \in T : \A x \in T : x <= m
          BY <3>2
        <4>2. PICK n \in T \cup {y} : n >= m /\ n >= y
          BY <4>1
        <4>3. \A x \in T \cup {y} : x <= n
          BY <4>1, <4>2
        <4> QED
          BY <4>3
      <3> QED
        BY <2>1, <3>1, <3>2
    <2> QED
      BY <2>2
  <1>3. S \in Q
    <2> HIDE DEF Q
    <2> QED
      BY <1>1, <1>2, SetInduction
  <1> QED
    BY <1>3

-----------------------------------------------------------------------------
(* The fold.                                                               *)

Chosen(s) == CHOOSE x \in s : TRUE

\* One step of the fold of f from the function "it", at s.
FoldStep(f, it, s) == IF s = {} THEN 0 ELSE f[Chosen(s)] + it[s \ {Chosen(s)}]

Fold(f, S) == CHOOSE it : it = [s \in SUBSET S |-> FoldStep(f, it, s)]

\* it is the fold of f on the subsets of S.
FoldsOn(f, it, S) ==
    /\ it \in [SUBSET S -> Int]
    /\ \A s \in SUBSET S : it[s] = FoldStep(f, it, s)

Ints(f, S) == \A x \in S : f[x] \in Int

LEMMA ChosenIn ==
    ASSUME NEW s, s # {}
    PROVE  /\ Chosen(s) \in s
           /\ s \ {Chosen(s)} \subseteq s /\ s \ {Chosen(s)} # s
  BY DEF Chosen

\* Two folds agree where both are defined.
LEMMA FoldsAgree ==
    ASSUME NEW S, IsFiniteSet(S), NEW f, NEW T \in SUBSET S, NEW U \in SUBSET S,
           NEW g, NEW h, FoldsOn(f, g, T), FoldsOn(f, h, U),
           NEW s \in SUBSET (T \cap U)
    PROVE  g[s] = h[s]
  <1> DEFINE Bad == {r \in SUBSET (T \cap U) : g[r] # h[r]}
  <1>1. SUFFICES ASSUME Bad # {} PROVE FALSE
    OBVIOUS
  <1>2. PICK r \in Bad : \A q \in Bad : q \subseteq r => q = r
    <2> HIDE DEF Bad
    <2>1. Bad \in SUBSET SUBSET S
      BY DEF Bad
    <2> QED
      BY <1>1, <2>1, MinimalSet
  <1>3. r \in SUBSET T /\ r \in SUBSET U /\ g[r] # h[r]
    BY <1>2
  <1>4. g[r] = FoldStep(f, g, r) /\ h[r] = FoldStep(f, h, r)
    BY <1>3 DEF FoldsOn
  <1>5. r # {}
    BY <1>3, <1>4 DEF FoldStep
  <1>6. r \ {Chosen(r)} \in SUBSET (T \cap U) /\ r \ {Chosen(r)} # r /\ r \ {Chosen(r)} \subseteq r
    BY <1>2, <1>5, ChosenIn
  <1>7. g[r \ {Chosen(r)}] = h[r \ {Chosen(r)}]
    BY <1>2, <1>6
  <1> QED
    BY <1>3, <1>4, <1>5, <1>7 DEF FoldStep

\* There is a fold of every integer function on a finite set.
LEMMA FoldExists ==
    ASSUME NEW S, IsFiniteSet(S), NEW f, Ints(f, S)
    PROVE  \E it : FoldsOn(f, it, S)
  <1> DEFINE Bad == {T \in SUBSET S : ~ \E it : FoldsOn(f, it, T)}
  <1>1. SUFFICES ASSUME Bad # {} PROVE FALSE
    OBVIOUS
  <1>2. PICK T \in Bad : \A U \in Bad : U \subseteq T => U = T
    <2> HIDE DEF Bad
    <2>1. Bad \in SUBSET SUBSET S
      BY DEF Bad
    <2> QED
      BY <1>1, <2>1, MinimalSet
  <1> DEFINE A(u) == CHOOSE it : FoldsOn(f, it, u)
             h == [s \in SUBSET T |-> IF s = {} THEN 0
                                      ELSE f[Chosen(s)] + A(s \ {Chosen(s)})[s \ {Chosen(s)}]]
  <1>3. ASSUME NEW u \in SUBSET T, u # T
        PROVE  FoldsOn(f, A(u), u)
    <2>1. u \in SUBSET S /\ u \notin Bad
      BY <1>2, <1>3
    <2>2. \E it : FoldsOn(f, it, u)
      BY <2>1
    <2> QED
      BY <2>2
  <1>4. ASSUME NEW s \in SUBSET T, s # {}
        PROVE  /\ s \ {Chosen(s)} \in SUBSET T /\ s \ {Chosen(s)} # T
               /\ Chosen(s) \in S
               /\ A(s \ {Chosen(s)})[s \ {Chosen(s)}] \in Int
    <2>1. s \ {Chosen(s)} \in SUBSET T /\ s \ {Chosen(s)} # T /\ Chosen(s) \in S
      BY <1>2, <1>4, ChosenIn
    <2>2. FoldsOn(f, A(s \ {Chosen(s)}), s \ {Chosen(s)})
      BY <1>3, <2>1
    <2> HIDE DEF A
    <2> QED
      BY <2>1, <2>2 DEF FoldsOn
  <1> HIDE DEF A
  <1>5. h \in [SUBSET T -> Int]
    BY <1>4 DEF Ints
  <1>6. ASSUME NEW s \in SUBSET T
        PROVE  h[s] = FoldStep(f, h, s)
    <2>1. CASE s = {}
      BY <2>1 DEF FoldStep
    <2>2. CASE s # {}
      <3> DEFINE u == s \ {Chosen(s)}
                 v == u \ {Chosen(u)}
      <3>1. u \in SUBSET T /\ u # T
        BY <1>4, <2>2
      <3>2. h[u] = A(u)[u]
        <4>1. FoldsOn(f, A(u), u)
          BY <1>3, <3>1
        <4>2. A(u)[u] = FoldStep(f, A(u), u)
          BY <4>1 DEF FoldsOn
        <4>3. CASE u = {}
          BY <3>1, <4>2, <4>3 DEF FoldStep
        <4>4. CASE u # {}
          <5>1. v \in SUBSET T /\ v # T /\ v \subseteq u
            BY <1>4, <3>1, <4>4
          <5>2. FoldsOn(f, A(v), v)
            BY <1>3, <5>1
          <5>3. u \in SUBSET S /\ v \in SUBSET S /\ v \in SUBSET (u \cap v)
            BY <1>2, <3>1, <5>1
          <5> HIDE DEF u, v
          <5>4. A(u)[v] = A(v)[v]
            BY <4>1, <5>2, <5>3, FoldsAgree
          <5>5. A(u)[u] = f[Chosen(u)] + A(u)[v]
            BY <4>2, <4>4 DEF FoldStep, v
          <5>6. h[u] = f[Chosen(u)] + A(v)[v]
            BY <3>1, <4>4 DEF v
          <5> QED
            BY <5>4, <5>5, <5>6
        <4> QED
          BY <4>3, <4>4
      <3>3. h[s] = f[Chosen(s)] + A(u)[u]
        BY <2>2
      <3> HIDE DEF h
      <3> QED
        BY <2>2, <3>2, <3>3 DEF FoldStep
    <2> QED
      BY <2>1, <2>2
  <1> HIDE DEF h
  <1>7. FoldsOn(f, h, T)
    BY <1>5, <1>6 DEF FoldsOn
  <1> QED
    BY <1>2, <1>7

-----------------------------------------------------------------------------
(* The sum.                                                                *)

\* Whatever satisfies the recursion is the fold.
LEMMA FoldIs ==
    ASSUME NEW T, IsFiniteSet(T), NEW f, Ints(f, T),
           NEW h, h = [s \in SUBSET T |-> FoldStep(f, h, s)]
    PROVE  FoldsOn(f, h, T)
  <1> DEFINE Q == {s \in SUBSET T : h[s] \in Int}
  <1>1. {} \in Q
    BY DEF FoldStep
  <1>2. \A s \in SUBSET T : h[s] = FoldStep(f, h, s)
    OBVIOUS
  <1> DEFINE Bad == {s \in SUBSET T : h[s] \notin Int}
  <1>3. ASSUME Bad # {} PROVE FALSE
    <2>1. PICK r \in Bad : \A q \in Bad : q \subseteq r => q = r
      <3> HIDE DEF Bad
      <3>1. Bad \in SUBSET SUBSET T
        BY DEF Bad
      <3> QED
        BY <1>3, <3>1, MinimalSet
    <2>2. r # {} /\ r \in SUBSET T
      BY <1>1, <2>1
    <2>3. r \ {Chosen(r)} \in SUBSET T /\ h[r \ {Chosen(r)}] \in Int /\ Chosen(r) \in T
      BY <2>1, <2>2, ChosenIn
    <2>4. f[Chosen(r)] \in Int
      BY <2>3 DEF Ints
    <2>5. h[r] = f[Chosen(r)] + h[r \ {Chosen(r)}]
      BY <1>2, <2>2 DEF FoldStep
    <2> HIDE DEF Q
    <2> QED
      BY <2>1, <2>3, <2>4, <2>5
  <1>4. \A s \in SUBSET T : h[s] \in Int
    BY <1>3
  <1> QED
    BY <1>2, <1>4 DEF FoldsOn

\* The sum over a set is the fold at that set.
LEMMA SumIsFold ==
    ASSUME NEW T, IsFiniteSet(T), NEW f, Ints(f, T)
    PROVE  /\ SumFunctionOnSet(f, T) = Fold(f, T)[T]
           /\ FoldsOn(f, Fold(f, T), T)
  <1>1. PICK it : FoldsOn(f, it, T)
    BY FoldExists
  <1>2. it = [s \in SUBSET T |-> FoldStep(f, it, s)]
    BY <1>1 DEF FoldsOn
  <1>3. Fold(f, T) = [s \in SUBSET T |-> FoldStep(f, Fold(f, T), s)]
    BY <1>2 DEF Fold
  <1>4. FoldsOn(f, Fold(f, T), T)
    BY <1>3, FoldIs
  <1>5. SumFunctionOnSet(f, T) = Fold(f, T)[T]
    BY DEF SumFunctionOnSet, FoldFunctionOnSet, MapThenFoldSet, Fold, FoldStep, Chosen
  <1> QED
    BY <1>4, <1>5

\* A recursion of the same form computes the sum.
LEMMA SumOfFold ==
    ASSUME NEW T, IsFiniteSet(T), NEW f, Ints(f, T),
           NEW h, h = [s \in SUBSET T |-> FoldStep(f, h, s)]
    PROVE  h[T] = SumFunctionOnSet(f, T)
  <1>1. FoldsOn(f, h, T)
    BY FoldIs
  <1>2. SumFunctionOnSet(f, T) = Fold(f, T)[T] /\ FoldsOn(f, Fold(f, T), T)
    BY SumIsFold
  <1>3. T \in SUBSET T /\ T \in SUBSET (T \cap T)
    OBVIOUS
  <1>4. h[T] = Fold(f, T)[T]
    BY <1>1, <1>2, <1>3, FoldsAgree
  <1> QED
    BY <1>2, <1>4

\* The empty sum is 0, and any other the chosen element's value and the sum
\* over the rest.
LEMMA SumChosen ==
    ASSUME NEW S, IsFiniteSet(S), NEW f, Ints(f, S)
    PROVE  /\ SumFunctionOnSet(f, S) \in Int
           /\ S = {} => SumFunctionOnSet(f, S) = 0
           /\ S # {} => SumFunctionOnSet(f, S) =
                 f[Chosen(S)] + SumFunctionOnSet(f, S \ {Chosen(S)})
  <1>1. ASSUME NEW T \in SUBSET S
        PROVE  /\ SumFunctionOnSet(f, T) = Fold(f, T)[T]
               /\ FoldsOn(f, Fold(f, T), T)
    <2>1. IsFiniteSet(T) /\ Ints(f, T)
      BY FS_Subset DEF Ints
    <2> QED
      BY <2>1, SumIsFold
  <1>2. SumFunctionOnSet(f, S) \in Int
    <2>1. S \in SUBSET S
      OBVIOUS
    <2>2. SumFunctionOnSet(f, S) = Fold(f, S)[S] /\ FoldsOn(f, Fold(f, S), S)
      BY <1>1, <2>1
    <2>3. Fold(f, S)[S] \in Int
      BY <2>1, <2>2 DEF FoldsOn
    <2> QED
      BY <2>2, <2>3
  <1>3. CASE S = {}
    BY <1>1, <1>2, <1>3 DEF FoldsOn, FoldStep
  <1>4. CASE S # {}
    <2> DEFINE T == S \ {Chosen(S)}
    <2>1. T \in SUBSET S /\ S \in SUBSET S /\ T \in SUBSET (S \cap T)
      OBVIOUS
    <2> HIDE DEF T
    <2>2. Fold(f, S)[T] = Fold(f, T)[T]
      BY <1>1, <2>1, FoldsAgree
    <2>3. Fold(f, S)[S] = f[Chosen(S)] + Fold(f, S)[T]
      BY <1>1, <1>4, <2>1 DEF FoldsOn, FoldStep, T
    <2>4. SumFunctionOnSet(f, S) = f[Chosen(S)] + SumFunctionOnSet(f, T)
      BY <1>1, <2>1, <2>2, <2>3
    <2> QED
      BY <1>2, <1>4, <2>4 DEF T
  <1> QED
    BY <1>2, <1>3, <1>4

\* Any element may be taken first.
LEMMA SumRemove ==
    ASSUME NEW S, IsFiniteSet(S), NEW f, Ints(f, S), NEW x \in S
    PROVE  SumFunctionOnSet(f, S) = f[x] + SumFunctionOnSet(f, S \ {x})
  <1> DEFINE Sum(T) == SumFunctionOnSet(f, T)
             Bad == {T \in SUBSET S : \E y \in T : Sum(T) # f[y] + Sum(T \ {y})}
  <1>0. ASSUME NEW T \in SUBSET S
        PROVE  /\ Sum(T) \in Int
               /\ T # {} => Sum(T) = f[Chosen(T)] + Sum(T \ {Chosen(T)})
    <2>1. IsFiniteSet(T) /\ Ints(f, T)
      BY FS_Subset DEF Ints
    <2> QED
      BY <2>1, SumChosen
  <1> HIDE DEF Sum
  <1>1. ASSUME Bad # {} PROVE FALSE
    <2>1. PICK T \in Bad : \A U \in Bad : U \subseteq T => U = T
      <3> HIDE DEF Bad
      <3>1. Bad \in SUBSET SUBSET S
        BY DEF Bad
      <3> QED
        BY <1>1, <3>1, MinimalSet
    <2>2. PICK y \in T : Sum(T) # f[y] + Sum(T \ {y})
      BY <2>1
    <2> DEFINE c == Chosen(T)
    <2>3. c \in T /\ Sum(T) = f[c] + Sum(T \ {c})
      BY <1>0, <2>1, <2>2, ChosenIn
    <2> HIDE DEF c
    <2>4. y # c
      BY <2>2, <2>3
    <2>5. /\ Sum(T \ {c}) = f[y] + Sum((T \ {c}) \ {y})
          /\ Sum(T \ {y}) = f[c] + Sum((T \ {y}) \ {c})
      <3>1. T \ {c} \notin Bad /\ T \ {y} \notin Bad
        BY <2>1, <2>2, <2>3
      <3>2. T \ {c} \in SUBSET S /\ T \ {y} \in SUBSET S /\ y \in T \ {c} /\ c \in T \ {y}
        BY <2>1, <2>2, <2>3, <2>4
      <3> QED
        BY <3>1, <3>2
    <2>6. PICK n \in Int : n = Sum((T \ {y}) \ {c}) /\ n = Sum((T \ {c}) \ {y})
      <3>1. (T \ {c}) \ {y} = (T \ {y}) \ {c}
        OBVIOUS
      <3>2. Sum((T \ {y}) \ {c}) \in Int
        BY <1>0, <2>1
      <3> QED
        BY <3>1, <3>2
    <2>7. f[y] \in Int /\ f[c] \in Int
      BY <2>1, <2>2, <2>3 DEF Ints
    <2> QED
      BY <2>2, <2>3, <2>5, <2>6, <2>7
  <1>2. S \in SUBSET S /\ S \notin Bad
    BY <1>1
  <1> QED
    BY <1>2 DEF Sum

LEMMA SumEmpty ==
    ASSUME NEW f
    PROVE  SumFunctionOnSet(f, {}) = 0
  BY FS_EmptySet, SumChosen DEF Ints

LEMMA SumInt ==
    ASSUME NEW S, IsFiniteSet(S), NEW f, Ints(f, S)
    PROVE  SumFunctionOnSet(f, S) \in Int
  BY SumChosen

LEMMA SumAdd ==
    ASSUME NEW S, IsFiniteSet(S), NEW f, NEW x, x \notin S, Ints(f, S \cup {x})
    PROVE  SumFunctionOnSet(f, S \cup {x}) = f[x] + SumFunctionOnSet(f, S)
  <1>1. IsFiniteSet(S \cup {x}) /\ x \in S \cup {x} /\ (S \cup {x}) \ {x} = S
    BY FS_AddElement
  <1> QED
    BY <1>1, SumRemove

-----------------------------------------------------------------------------
(* What the specifications need of it.                                     *)

\* Functions that agree on the set have one sum.
LEMMA SumSame ==
    ASSUME NEW S, IsFiniteSet(S), NEW f, NEW g, Ints(f, S),
           \A x \in S : g[x] = f[x]
    PROVE  SumFunctionOnSet(g, S) = SumFunctionOnSet(f, S)
  <1> DEFINE Q == {T \in SUBSET S : SumFunctionOnSet(g, T) = SumFunctionOnSet(f, T)}
  <1>1. {} \in Q
    BY SumEmpty
  <1>2. ASSUME NEW T \in SUBSET S, NEW x \in S \ T, T \in Q
        PROVE  T \cup {x} \in Q
    <2>1. IsFiniteSet(T) /\ Ints(f, T \cup {x}) /\ Ints(g, T \cup {x})
      BY FS_Subset DEF Ints
    <2>2. /\ SumFunctionOnSet(f, T \cup {x}) = f[x] + SumFunctionOnSet(f, T)
          /\ SumFunctionOnSet(g, T \cup {x}) = g[x] + SumFunctionOnSet(g, T)
      BY <2>1, SumAdd
    <2> QED
      BY <1>2, <2>2
  <1> HIDE DEF Q
  <1>3. S \in Q
    BY <1>1, <1>2, SetInduction
  <1> QED
    BY <1>3 DEF Q

\* The sum of h = f + g is the sum of the sums.
LEMMA SumPlus ==
    ASSUME NEW S, IsFiniteSet(S), NEW f, NEW g, NEW h, Ints(f, S), Ints(g, S),
           \A x \in S : h[x] = f[x] + g[x]
    PROVE  SumFunctionOnSet(h, S) = SumFunctionOnSet(f, S) + SumFunctionOnSet(g, S)
  <1> DEFINE Q == {T \in SUBSET S : SumFunctionOnSet(h, T) =
                       SumFunctionOnSet(f, T) + SumFunctionOnSet(g, T)}
  <1>1. {} \in Q
    BY SumEmpty
  <1>2. ASSUME NEW T \in SUBSET S, NEW x \in S \ T, T \in Q
        PROVE  T \cup {x} \in Q
    <2>1. IsFiniteSet(T)
      BY FS_Subset
    <2>2. Ints(f, T \cup {x}) /\ Ints(g, T \cup {x}) /\ Ints(h, T \cup {x})
      BY DEF Ints
    <2>3. /\ SumFunctionOnSet(f, T \cup {x}) = f[x] + SumFunctionOnSet(f, T)
          /\ SumFunctionOnSet(g, T \cup {x}) = g[x] + SumFunctionOnSet(g, T)
          /\ SumFunctionOnSet(h, T \cup {x}) = h[x] + SumFunctionOnSet(h, T)
      BY <2>1, <2>2, SumAdd
    <2>4. /\ SumFunctionOnSet(f, T) \in Int /\ SumFunctionOnSet(g, T) \in Int
          /\ f[x] \in Int /\ g[x] \in Int
      BY <2>1, <2>2, SumInt DEF Ints
    <2> QED
      BY <1>2, <2>3, <2>4
  <1> HIDE DEF Q
  <1>3. S \in Q
    BY <1>1, <1>2, SetInduction
  <1> QED
    BY <1>3 DEF Q

\* Elements without value do not count.
LEMMA SumSupport ==
    ASSUME NEW S, IsFiniteSet(S), NEW f, Ints(f, S)
    PROVE  SumFunctionOnSet(f, S) = SumFunctionOnSet(f, {x \in S : f[x] # 0})
  <1> DEFINE Some(T) == {x \in T : f[x] # 0}
             Q == {T \in SUBSET S : SumFunctionOnSet(f, T) = SumFunctionOnSet(f, Some(T))}
  <1>1. {} \in Q
    <2>1. Some({}) = {}
      OBVIOUS
    <2> QED
      BY <2>1
  <1>2. ASSUME NEW T \in SUBSET S, NEW x \in S \ T, T \in Q
        PROVE  T \cup {x} \in Q
    <2>1. IsFiniteSet(T) /\ Ints(f, T \cup {x})
      BY FS_Subset DEF Ints
    <2>2. IsFiniteSet(Some(T)) /\ Ints(f, Some(T) \cup {x}) /\ x \notin Some(T)
      <3>1. Some(T) \in SUBSET T
        OBVIOUS
      <3> QED
        BY <1>2, <2>1, <3>1, FS_Subset DEF Ints
    <2>3. SumFunctionOnSet(f, T \cup {x}) = f[x] + SumFunctionOnSet(f, T)
      BY <2>1, SumAdd
    <2>4. CASE f[x] = 0
      <3>1. Some(T \cup {x}) = Some(T)
        BY <2>4
      <3>2. SumFunctionOnSet(f, T) \in Int
        BY <2>1, SumInt DEF Ints
      <3>3. SumFunctionOnSet(f, T \cup {x}) = SumFunctionOnSet(f, T)
        BY <2>3, <2>4, <3>2
      <3> QED
        BY <1>2, <3>1, <3>3
    <2>5. CASE f[x] # 0
      <3>1. Some(T \cup {x}) = Some(T) \cup {x}
        BY <2>5
      <3> HIDE DEF Some
      <3>2. SumFunctionOnSet(f, Some(T) \cup {x}) = f[x] + SumFunctionOnSet(f, Some(T))
        BY <2>2, SumAdd
      <3> QED
        BY <1>2, <2>3, <3>1, <3>2
    <2> QED
      BY <2>4, <2>5
  <1> HIDE DEF Q
  <1>3. S \in Q
    BY <1>1, <1>2, SetInduction
  <1> QED
    BY <1>3 DEF Q

LEMMA SumZero ==
    ASSUME NEW S, IsFiniteSet(S), NEW f, \A x \in S : f[x] = 0
    PROVE  SumFunctionOnSet(f, S) = 0
  <1>1. Ints(f, S) /\ {x \in S : f[x] # 0} = {}
    BY DEF Ints
  <1>2. SumFunctionOnSet(f, S) = SumFunctionOnSet(f, {x \in S : f[x] # 0})
    BY <1>1, SumSupport
  <1> QED
    BY <1>1, <1>2, SumEmpty

\* A sum with one element that is not zero.
LEMMA SumOne ==
    ASSUME NEW S, IsFiniteSet(S), NEW f, NEW x \in S, f[x] \in Int,
           \A y \in S \ {x} : f[y] = 0
    PROVE  SumFunctionOnSet(f, S) = f[x]
  <1>1. Ints(f, S)
    BY DEF Ints
  <1>2. SumFunctionOnSet(f, S) = f[x] + SumFunctionOnSet(f, S \ {x})
    BY <1>1, SumRemove
  <1>3. SumFunctionOnSet(f, S \ {x}) = 0
    BY FS_RemoveElement, SumZero
  <1> QED
    BY <1>2, <1>3

\* One summand changes.
LEMMA SumUpdate ==
    ASSUME NEW S, IsFiniteSet(S), NEW f, NEW g, Ints(f, S), NEW x \in S, g[x] \in Int,
           \A y \in S \ {x} : g[y] = f[y]
    PROVE  SumFunctionOnSet(g, S) = SumFunctionOnSet(f, S) + g[x] - f[x]
  <1>1. /\ IsFiniteSet(S \ {x}) /\ Ints(f, S \ {x}) /\ Ints(g, S) /\ f[x] \in Int
    BY FS_RemoveElement DEF Ints
  <1>2. SumFunctionOnSet(g, S) = g[x] + SumFunctionOnSet(g, S \ {x})
    BY <1>1, SumRemove
  <1>3. SumFunctionOnSet(f, S) = f[x] + SumFunctionOnSet(f, S \ {x})
    BY SumRemove
  <1>4. SumFunctionOnSet(g, S \ {x}) = SumFunctionOnSet(f, S \ {x})
    BY <1>1, SumSame
  <1>5. PICK n \in Int : n = SumFunctionOnSet(f, S \ {x})
    BY <1>1, SumInt
  <1> QED
    BY <1>1, <1>2, <1>3, <1>4, <1>5

\* The summands outside a subset are zero.
LEMMA SumPart ==
    ASSUME NEW S, IsFiniteSet(S), NEW U \in SUBSET S, NEW f, NEW g, Ints(f, U),
           \A x \in U : g[x] = f[x],
           \A x \in S \ U : g[x] = 0
    PROVE  SumFunctionOnSet(g, S) = SumFunctionOnSet(f, U)
  <1> DEFINE V == {x \in U : f[x] # 0}
  <1>1. IsFiniteSet(U) /\ IsFiniteSet(V) /\ Ints(g, S) /\ Ints(f, V)
    BY FS_Subset DEF Ints
  <1>2. {x \in S : g[x] # 0} = V
    OBVIOUS
  <1>3. SumFunctionOnSet(g, S) = SumFunctionOnSet(g, V)
    BY <1>1, <1>2, SumSupport
  <1>4. SumFunctionOnSet(f, U) = SumFunctionOnSet(f, V)
    BY <1>1, SumSupport
  <1>5. SumFunctionOnSet(g, V) = SumFunctionOnSet(f, V)
    BY <1>1, SumSame
  <1> QED
    BY <1>3, <1>4, <1>5

\* A function of pairs, of the one and of the other.
RowOf(F, x, T) == [y \in T |-> F[<<x, y>>]]
ColumnOf(F, S, y) == [x \in S |-> F[<<x, y>>]]

\* A sum of sums may be taken in the other order.
LEMMA SumSwap ==
    ASSUME NEW S, IsFiniteSet(S), NEW T, IsFiniteSet(T), NEW f, NEW g, NEW F,
           \A x \in S, y \in T : F[<<x, y>>] \in Int,
           \A x \in S : f[x] = SumFunctionOnSet(RowOf(F, x, T), T),
           \A y \in T : g[y] = SumFunctionOnSet(ColumnOf(F, S, y), S)
    PROVE  SumFunctionOnSet(f, S) = SumFunctionOnSet(g, T)
  <1> DEFINE Row(x) == [y \in T |-> F[<<x, y>>]]
             Column(y) == [x \in S |-> F[<<x, y>>]]
             A(U) == [x \in S |-> SumFunctionOnSet(Row(x), U)]
             Q == {U \in SUBSET T : SumFunctionOnSet(A(U), S) = SumFunctionOnSet(g, U)}
  <1>1. \A x \in S, y \in T : Row(x)[y] = F[<<x, y>>] /\ Column(y)[x] = F[<<x, y>>]
    OBVIOUS
  <1>2. \A x \in S : Ints(Row(x), T)
    BY <1>1 DEF Ints
  <1>3. \A y \in T : Ints(Column(y), S) /\ g[y] = SumFunctionOnSet(Column(y), S)
    BY <1>1 DEF Ints, ColumnOf
  <1>4. Ints(g, T)
    BY <1>3, SumInt DEF Ints
  <1>5. \A x \in S : f[x] = SumFunctionOnSet(Row(x), T)
    BY DEF RowOf
  <1> HIDE DEF Row, Column
  <1>6. \A U \in SUBSET T : IsFiniteSet(U) /\ Ints(A(U), S)
    <2> SUFFICES ASSUME NEW U \in SUBSET T PROVE IsFiniteSet(U) /\ Ints(A(U), S)
      OBVIOUS
    <2>1. IsFiniteSet(U)
      BY FS_Subset
    <2>2. \A x \in S : Ints(Row(x), U)
      BY <1>2 DEF Ints
    <2>3. \A x \in S : SumFunctionOnSet(Row(x), U) \in Int
      BY <2>1, <2>2, SumInt
    <2> QED
      BY <2>1, <2>3 DEF Ints
  <1>7. {} \in Q
    <2>1. \A x \in S : A({})[x] = 0
      BY SumEmpty
    <2>2. SumFunctionOnSet(A({}), S) = 0
      <3> HIDE DEF A
      <3> QED
        BY <2>1, SumZero
    <2> QED
      BY <2>2, SumEmpty
  <1>8. ASSUME NEW U \in SUBSET T, NEW z \in T \ U, U \in Q
        PROVE  U \cup {z} \in Q
    <2>1. U \cup {z} \in SUBSET T /\ IsFiniteSet(U)
      BY <1>6
    <2>2. \A x \in S : A(U \cup {z})[x] = A(U)[x] + Column(z)[x]
      <3> SUFFICES ASSUME NEW x \in S
                   PROVE  SumFunctionOnSet(Row(x), U \cup {z})
                              = SumFunctionOnSet(Row(x), U) + Column(z)[x]
        OBVIOUS
      <3>1. Ints(Row(x), U \cup {z}) /\ Ints(Row(x), U) /\ Row(x)[z] \in Int
        BY <1>2, <2>1 DEF Ints
      <3>2. SumFunctionOnSet(Row(x), U \cup {z}) = Row(x)[z] + SumFunctionOnSet(Row(x), U)
        BY <2>1, <3>1, SumAdd
      <3>3. SumFunctionOnSet(Row(x), U) \in Int /\ Column(z)[x] = Row(x)[z]
        BY <1>1, <2>1, <3>1, SumInt
      <3> QED
        BY <3>1, <3>2, <3>3
    <2>3. Ints(A(U), S) /\ Ints(Column(z), S)
      BY <1>3, <1>6
    <2> HIDE DEF A
    <2>4. SumFunctionOnSet(A(U \cup {z}), S)
              = SumFunctionOnSet(A(U), S) + SumFunctionOnSet(Column(z), S)
      BY ZenonT(60), <2>2, <2>3, SumPlus
    <2>5. Ints(g, U \cup {z}) /\ Ints(g, U) /\ g[z] \in Int
      BY <1>4, <2>1 DEF Ints
    <2>6. SumFunctionOnSet(g, U \cup {z}) = g[z] + SumFunctionOnSet(g, U)
      BY <2>1, <2>5, SumAdd
    <2>7. SumFunctionOnSet(g, U) \in Int
      BY <2>1, <2>5, SumInt
    <2>8. SumFunctionOnSet(A(U), S) = SumFunctionOnSet(g, U) /\ g[z] = SumFunctionOnSet(Column(z), S)
      BY <1>3, <1>8
    <2> QED
      BY <2>1, <2>4, <2>5, <2>6, <2>7, <2>8
  <1>9. T \in Q
    <2> HIDE DEF Q
    <2> QED
      BY <1>7, <1>8, SetInduction
  <1>10. SumFunctionOnSet(A(T), S) = SumFunctionOnSet(g, T)
    BY <1>9
  <1>11. Ints(A(T), S) /\ \A x \in S : f[x] = A(T)[x]
    BY <1>5, <1>6
  <1> HIDE DEF A
  <1> QED
    BY <1>10, <1>11, SumSame
\* The elements of a class, and what they add up to.
Class(S, c, y) == {x \in S : c[x] = y}

\* A sum is the sum of the sums of its classes.
LEMMA SumClasses ==
    ASSUME NEW S, IsFiniteSet(S), NEW T, IsFiniteSet(T), NEW f, Ints(f, S),
           NEW c, \A x \in S : c[x] \in T,
           NEW g, \A y \in T : g[y] = SumFunctionOnSet(f, Class(S, c, y))
    PROVE  /\ SumFunctionOnSet(g, T) = SumFunctionOnSet(f, S)
           /\ Ints(g, T)
  <1> DEFINE F == [p \in S \X T |-> IF c[p[1]] = p[2] THEN f[p[1]] ELSE 0]
  <1>1. \A x \in S, y \in T : F[<<x, y>>] = IF c[x] = y THEN f[x] ELSE 0
    OBVIOUS
  <1> HIDE DEF F
  <1>2. \A x \in S, y \in T : F[<<x, y>>] \in Int
    <2> TAKE x \in S, y \in T
    <2>1. F[<<x, y>>] = IF c[x] = y THEN f[x] ELSE 0
      BY <1>1
    <2>2. f[x] \in Int
      BY DEF Ints
    <2> QED
      BY <2>1, <2>2
  <1>3. ASSUME NEW x \in S PROVE f[x] = SumFunctionOnSet(RowOf(F, x, T), T)
    <2>1. RowOf(F, x, T)[c[x]] = f[x] /\ \A y \in T \ {c[x]} : RowOf(F, x, T)[y] = 0
      BY <1>1 DEF RowOf
    <2> QED
      BY <2>1, SumOne DEF Ints
  <1>4. ASSUME NEW y \in T
        PROVE  g[y] = SumFunctionOnSet(ColumnOf(F, S, y), S) /\ g[y] \in Int
    <2>1. Class(S, c, y) \in SUBSET S /\ Ints(f, Class(S, c, y))
      BY DEF Class, Ints
    <2>2. /\ \A x \in Class(S, c, y) : ColumnOf(F, S, y)[x] = f[x]
          /\ \A x \in S \ Class(S, c, y) : ColumnOf(F, S, y)[x] = 0
      BY <1>1 DEF Class, ColumnOf
    <2>3. SumFunctionOnSet(ColumnOf(F, S, y), S) = SumFunctionOnSet(f, Class(S, c, y))
      BY <2>1, <2>2, SumPart
    <2>4. SumFunctionOnSet(f, Class(S, c, y)) \in Int
      BY <2>1, FS_Subset, SumInt
    <2> QED
      BY <2>3, <2>4
  <1>5. SumFunctionOnSet(f, S) = SumFunctionOnSet(g, T)
    BY <1>2, <1>3, <1>4, SumSwap
  <1> QED
    BY <1>4, <1>5 DEF Ints

\* A count is a sum of ones.
LEMMA CountIsSum ==
    ASSUME NEW S, IsFiniteSet(S), NEW f, \A x \in S : f[x] = 1
    PROVE  SumFunctionOnSet(f, S) = Cardinality(S) /\ Ints(f, S)
  <1> DEFINE Q == {T \in SUBSET S : SumFunctionOnSet(f, T) = Cardinality(T)}
  <1>1. {} \in Q
    BY SumEmpty, FS_EmptySet
  <1>2. ASSUME NEW T \in SUBSET S, NEW x \in S \ T, T \in Q
        PROVE  T \cup {x} \in Q
    <2>1. IsFiniteSet(T) /\ Ints(f, T \cup {x})
      BY FS_Subset DEF Ints
    <2>2. SumFunctionOnSet(f, T \cup {x}) = 1 + SumFunctionOnSet(f, T)
      BY <2>1, SumAdd
    <2>3. Cardinality(T \cup {x}) = Cardinality(T) + 1 /\ Cardinality(T) \in Nat
      BY <2>1, FS_AddElement, FS_CardinalityType
    <2> QED
      BY <1>2, <2>2, <2>3
  <1> HIDE DEF Q
  <1>3. S \in Q
    BY <1>1, <1>2, SetInduction
  <1> QED
    BY <1>3 DEF Q, Ints

\* A count is the sum of the counts of its classes.
LEMMA CountClasses ==
    ASSUME NEW S, IsFiniteSet(S), NEW T, IsFiniteSet(T),
           NEW c, \A x \in S : c[x] \in T,
           NEW g, \A y \in T : g[y] = Cardinality(Class(S, c, y))
    PROVE  /\ SumFunctionOnSet(g, T) = Cardinality(S)
           /\ Ints(g, T)
  <1> DEFINE f == [x \in S |-> 1]
  <1>1. Ints(f, S) /\ SumFunctionOnSet(f, S) = Cardinality(S)
    BY CountIsSum
  <1>2. ASSUME NEW y \in T PROVE g[y] = SumFunctionOnSet(f, Class(S, c, y))
    <2>1. Class(S, c, y) \in SUBSET S
      BY DEF Class
    <2>2. IsFiniteSet(Class(S, c, y)) /\ \A x \in Class(S, c, y) : f[x] = 1
      BY <2>1, FS_Subset
    <2> HIDE DEF f
    <2> QED
      BY <2>2, CountIsSum
  <1> HIDE DEF f
  <1> QED
    BY <1>1, <1>2, SumClasses

\* A set is counted in two parts.
LEMMA CountParts ==
    ASSUME NEW S, IsFiniteSet(S), NEW A, NEW B,
           \A x : x \in S <=> x \in A \/ x \in B, \A x \in A : x \notin B
    PROVE  /\ Cardinality(S) = Cardinality(A) + Cardinality(B)
           /\ Cardinality(A) \in Nat /\ Cardinality(B) \in Nat
  <1>1. A \in SUBSET S /\ B \in SUBSET S /\ A \cup B = S /\ A \cap B = {}
    OBVIOUS
  <1>2. IsFiniteSet(A) /\ IsFiniteSet(B)
    BY <1>1, FS_Subset
  <1>3. Cardinality(A \cup B) = Cardinality(A) + Cardinality(B) - Cardinality(A \cap B)
    BY <1>2, FS_Union
  <1>4. Cardinality(A) \in Nat /\ Cardinality(B) \in Nat /\ Cardinality({}) = 0
    BY <1>2, FS_EmptySet, FS_CardinalityType
  <1>5. Cardinality(A \cup B) = Cardinality(S) /\ Cardinality(A \cap B) = Cardinality({})
    BY <1>1, Zenon
  <1> QED
    BY <1>3, <1>4, <1>5

\* A set of two, three or four is finite.
LEMMA SmallSets ==
    ASSUME NEW a, NEW b, NEW c, NEW d
    PROVE  IsFiniteSet({a, b}) /\ IsFiniteSet({a, b, c}) /\ IsFiniteSet({a, b, c, d})
  <1>1. {a, b} = {a} \cup {b} /\ {a, b, c} = {a, b} \cup {c} /\ {a, b, c, d} = {a, b, c} \cup {d}
    OBVIOUS
  <1>2. IsFiniteSet({a})
    BY FS_Singleton
  <1>3. IsFiniteSet({a, b})
    <2>1. IsFiniteSet({a} \cup {b})
      BY <1>2, FS_AddElement
    <2> QED
      BY <1>1, <2>1, Zenon
  <1>4. IsFiniteSet({a, b, c})
    <2>1. IsFiniteSet({a, b} \cup {c})
      BY <1>3, FS_AddElement
    <2> QED
      BY <1>1, <2>1, Zenon
  <1>5. IsFiniteSet({a, b, c, d})
    <2>1. IsFiniteSet({a, b, c} \cup {d})
      BY <1>4, FS_AddElement
    <2> QED
      BY <1>1, <2>1, Zenon
  <1> QED
    BY <1>3, <1>4, <1>5
=============================================================================
