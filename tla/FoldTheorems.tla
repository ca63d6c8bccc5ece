---------------------------- MODULE FoldTheorems ----------------------------
(***************************************************************************)
(* Folds: sums over finite sets, and left folds over sequences; numerals.  *)
(*                                                                         *)
(* SumFunctionOnSet takes the elements of its set one by one, each picked  *)
(* with CHOOSE from what is left; FoldLeft takes those of a sequence from  *)
(* its end.  That their recursions have a solution, that a sum does not    *)
(* depend on which element is picked first, and which states a left fold   *)
(* passes through, is proved here by induction.  The induction theorems of *)
(* the library have an operator as their parameter; what they say is used  *)
(* in its first-order form, that of a smallest counterexample: the set of  *)
(* those for which a formula fails has a least element, by WFMin.          *)
(* The recursion of Numeral, on a number without its last digit, is        *)
(* treated in the same way.                                                *)
(***************************************************************************)
EXTENDS Integers, Sequences, FiniteSets, FiniteSetsExt, FiniteSetTheorems,
        SequenceTheorems, TLAPS, Numerals

\* A set of natural numbers that is not empty has a least element.
LEMMA LeastNatural ==
  ASSUME NEW T, T \subseteq Nat, T # {}
  PROVE  \E m \in T : \A n \in T : m <= n
<1>1. PICK m \in T : \A n \in T : <<n, m>> \notin OpToRel(<, Nat)
  BY NatLessThanWellFounded, WFMin, Zenon
<1>2. \A n \in T : ~(n < m)
  BY <1>1 DEF OpToRel
<1>3. m \in T
  BY <1>1
<1>4. QED
  BY <1>2, <1>3

\* Of subsets of a finite set, one has no other below it.
LEMMA SmallestSubset ==
  ASSUME NEW S, IsFiniteSet(S), NEW Bad, Bad \subseteq SUBSET S, Bad # {}
  PROVE  \E T \in Bad : \A U \in Bad : ~(U \subseteq T /\ U # T)
<1>1. IsWellFoundedOn(StrictSubsetOrdering(S), SUBSET S)
  BY FS_StrictSubsetOrderingWellFounded, FS_FiniteSubsetsOfFinite
<1>2. PICK T \in Bad : \A U \in Bad : <<U, T>> \notin StrictSubsetOrdering(S)
  BY <1>1, WFMin
<1>3. QED
  BY <1>2 DEF StrictSubsetOrdering

----------------------------------------------------------------------------
(* The recursion *)

\* The element that is taken next, one step, and a solution of the recursion.
Pick(s) == CHOOSE x \in s : TRUE
Step(fun, iter, s) == IF s = {} THEN 0 ELSE fun[Pick(s)] + iter[s \ {Pick(s)}]
IsSum(fun, S, iter) == iter = [s \in SUBSET S |-> Step(fun, iter, s)]

\* SumFunctionOnSet is a solution, if there is one.
LEMMA SumUnfolds ==
  ASSUME NEW fun, NEW S, \E iter : IsSum(fun, S, iter)
  PROVE  \E iter : IsSum(fun, S, iter) /\ SumFunctionOnSet(fun, S) = iter[S]
<1> DEFINE it == CHOOSE iter : iter = [s \in SUBSET S |->
                   IF s = {} THEN 0
                   ELSE fun[CHOOSE x \in s : TRUE] + iter[s \ {CHOOSE x \in s : TRUE}]]
<1>1. SumFunctionOnSet(fun, S) = it[S]
  BY Zenon DEF SumFunctionOnSet, FoldFunctionOnSet, MapThenFoldSet
<1>2. IsSum(fun, S, it)
  BY Zenon DEF IsSum, Step, Pick
<1>3. QED
  BY <1>1, <1>2, Zenon

\* The recursion has a solution for the subsets of any size.
LEMMA SumExists ==
  ASSUME NEW fun, NEW S, IsFiniteSet(S)
  PROVE  \E iter : IsSum(fun, S, iter)
<1> DEFINE Small(n) == {s \in SUBSET S : Cardinality(s) <= n}
           Solves(g, n) == g = [s \in Small(n) |-> Step(fun, g, s)]
           Unsolved == {n \in Nat : ~ \E g : Solves(g, n)}
<1>1. \A s \in SUBSET S : IsFiniteSet(s) /\ Cardinality(s) \in Nat
  BY FS_Subset, FS_CardinalityType
<1>2. \A s \in SUBSET S : s # {} =>
        /\ s \ {Pick(s)} \in SUBSET S
        /\ Cardinality(s \ {Pick(s)}) = Cardinality(s) - 1
        /\ Cardinality(s) # 0
  BY <1>1, FS_RemoveElement, FS_EmptySet DEF Pick
<1>3. Unsolved = {}
  <2> SUFFICES ASSUME Unsolved # {} PROVE FALSE
    OBVIOUS
  <2>1. PICK n \in Unsolved : \A k \in Unsolved : n <= k
    BY LeastNatural
  <2>2. n # 0
    <3> DEFINE g == [s \in Small(0) |-> 0]
    <3>1. \A s \in Small(0) : s = {}
      BY <1>1, FS_EmptySet
    <3>2. Solves(g, 0)
      BY <3>1 DEF Step
    <3>3. QED
      BY <3>2
  <2>3. PICK g : Solves(g, n - 1)
    <3>1. Unsolved \subseteq Nat
      OBVIOUS
    <3>2. n - 1 \in Nat /\ n - 1 \notin Unsolved
      <4> HIDE DEF Unsolved
      <4> QED BY <2>1, <2>2, <3>1
    <3>3. QED
      BY <3>2
  <2> DEFINE h == [s \in Small(n) |-> Step(fun, g, s)]
  <2>4. \A s \in Small(n) : s # {} =>
          s \ {Pick(s)} \in Small(n - 1) /\ s \ {Pick(s)} \in Small(n)
    BY <1>2, <1>1, <2>1, <2>2
  <2>5. \A u \in Small(n - 1) : u \in Small(n) /\ h[u] = g[u]
    <3> TAKE u \in Small(n - 1)
    <3>1. u \in Small(n)
      BY <1>1, <2>1
    <3>2. g[u] = Step(fun, g, u)
      BY <2>3
    <3>3. QED
      BY <3>1, <3>2
  <2>6. \A s \in Small(n) : Step(fun, h, s) = Step(fun, g, s)
    BY <2>4, <2>5 DEF Step
  <2>7. Solves(h, n)
    BY <2>6
  <2>8. QED
    BY <2>1, <2>7
<1>4. Cardinality(S) \in Nat
  BY FS_CardinalityType
<1>5. PICK g : Solves(g, Cardinality(S))
  BY <1>3, <1>4
<1>6. Small(Cardinality(S)) = SUBSET S
  BY <1>1, FS_Subset
<1>7. QED
  BY <1>5, <1>6 DEF IsSum

\* Two solutions agree where both are defined.
LEMMA SumsAgree ==
  ASSUME NEW fun, NEW S, IsFiniteSet(S), NEW T \in SUBSET S, NEW g, NEW h,
         IsSum(fun, S, g), IsSum(fun, T, h)
  PROVE  g[T] = h[T]
<1> DEFINE Differ == {Cardinality(s) : s \in {s \in SUBSET T : g[s] # h[s]}}
<1>1. \A s \in SUBSET T : IsFiniteSet(s) /\ Cardinality(s) \in Nat
  BY FS_Subset, FS_CardinalityType
<1>2. SUFFICES ASSUME g[T] # h[T] PROVE FALSE
  OBVIOUS
<1>3. Differ \subseteq Nat /\ Differ # {}
  BY <1>1, <1>2
<1>4. PICK m \in Differ : \A n \in Differ : m <= n
  BY <1>3, LeastNatural
<1>5. PICK s \in SUBSET T : g[s] # h[s] /\ Cardinality(s) = m
  BY <1>4
<1>6. g[s] = Step(fun, g, s) /\ h[s] = Step(fun, h, s)
  BY DEF IsSum
<1>7. s # {}
  BY <1>5, <1>6 DEF Step
<1> DEFINE u == s \ {Pick(s)}
<1>8. u \in SUBSET T /\ Cardinality(u) < m
  <2>1. Pick(s) \in s
    BY <1>7 DEF Pick
  <2>2. Cardinality(u) = Cardinality(s) - 1
    BY <1>1, <2>1, FS_RemoveElement
  <2>3. QED
    BY <1>1, <1>5, <2>2
<1>9. g[u] = h[u]
  BY <1>8, <1>4, <1>3
<1>10. QED
  BY <1>5, <1>6, <1>7, <1>9 DEF Step

\* The sum over a set is that over the rest and the element that is picked.
LEMMA SumByPick ==
  ASSUME NEW fun, NEW S, IsFiniteSet(S)
  PROVE  SumFunctionOnSet(fun, S)
           = IF S = {} THEN 0
             ELSE fun[Pick(S)] + SumFunctionOnSet(fun, S \ {Pick(S)})
<1>1. PICK g : IsSum(fun, S, g) /\ SumFunctionOnSet(fun, S) = g[S]
  BY SumExists, SumUnfolds
<1>2. g[S] = Step(fun, g, S)
  BY <1>1 DEF IsSum
<1> DEFINE T == S \ {Pick(S)}
<1>3. IsFiniteSet(T) /\ T \in SUBSET S
  BY FS_RemoveElement
<1>4. PICK h : IsSum(fun, T, h) /\ SumFunctionOnSet(fun, T) = h[T]
  BY <1>3, SumExists, SumUnfolds
<1>5. g[T] = h[T]
  BY <1>1, <1>3, <1>4, SumsAgree
<1>6. QED
  BY <1>1, <1>2, <1>4, <1>5 DEF Step

----------------------------------------------------------------------------
(* What sums do *)

\* A sum of integers is an integer, and any element may be taken out of it.
LEMMA SumTakesOut ==
  ASSUME NEW S, IsFiniteSet(S), NEW fun, \A x \in S : fun[x] \in Int
  PROVE  /\ SumFunctionOnSet(fun, S) \in Int
         /\ \A y \in S : SumFunctionOnSet(fun, S) = fun[y] + SumFunctionOnSet(fun, S \ {y})
<1> DEFINE Fine(T) == /\ SumFunctionOnSet(fun, T) \in Int
                      /\ \A y \in T : SumFunctionOnSet(fun, T)
                                        = fun[y] + SumFunctionOnSet(fun, T \ {y})
           Sizes == {Cardinality(T) : T \in {T \in SUBSET S : ~Fine(T)}}
<1>1. \A T \in SUBSET S : IsFiniteSet(T) /\ Cardinality(T) \in Nat
  BY FS_Subset, FS_CardinalityType
<1>2. SUFFICES ASSUME ~Fine(S) PROVE FALSE
  OBVIOUS
<1>3. Sizes \subseteq Nat /\ Sizes # {}
  <2> HIDE DEF Fine
  <2> QED BY <1>1, <1>2
<1>4. PICK m \in Sizes : \A n \in Sizes : m <= n
  BY <1>3, LeastNatural
<1>5. PICK T \in SUBSET S : ~Fine(T) /\ Cardinality(T) = m
  <2> HIDE DEF Fine
  <2> QED BY <1>4
<1>6. \A U \in SUBSET T : U # T => Fine(U)
  <2> HIDE DEF Fine
  <2> TAKE U \in SUBSET T
  <2> HAVE U # T
  <2>1. U \in SUBSET S /\ T \in SUBSET S
    BY <1>5
  <2>2. Cardinality(U) < Cardinality(T)
    <3>1. Cardinality(U) <= Cardinality(T) /\ Cardinality(U) # Cardinality(T)
      BY <1>1, <2>1, FS_Subset
    <3>2. QED
      BY <1>1, <2>1, <3>1
  <2>3. Cardinality(U) \notin Sizes
    <3> HIDE DEF Sizes
    <3> QED BY <1>1, <1>4, <1>5, <2>1, <2>2
  <2> QED BY <2>1, <2>3
<1>7. T # {}
  <2>1. SumFunctionOnSet(fun, {}) = 0
    BY SumByPick, FS_EmptySet
  <2>2. Fine({})
    BY <2>1
  <2>3. QED
    <3> HIDE DEF Fine
    <3> QED BY <1>5, <2>2
<1> DEFINE x == Pick(T)
           R(U) == SumFunctionOnSet(fun, U)
<1>8. x \in T
  BY <1>7 DEF Pick
<1>9. R(T) = fun[x] + R(T \ {x})
  BY <1>7, <1>1, SumByPick
<1>10. Fine(T \ {x})
  BY <1>6, <1>8
<1>11. R(T) \in Int
  BY <1>9, <1>10, <1>8
<1>12. ASSUME NEW y \in T, y # x PROVE R(T) = fun[y] + R(T \ {y})
  <2> DEFINE W == (T \ {x}) \ {y}
  <2>1. W = (T \ {y}) \ {x}
    OBVIOUS
  <2>2. R(T \ {x}) = fun[y] + R(W)
    BY <1>10, <1>12
  <2>3. R(T \ {y}) = fun[x] + R(W)
    <3>1. Fine(T \ {y})
      BY <1>6, <1>12
    <3>2. x \in T \ {y}
      BY <1>8, <1>12
    <3>3. QED
      BY <3>1, <3>2, <2>1
  <2>4. Fine(W)
    BY <1>6, <1>8
  <2>5. fun[x] \in Int /\ fun[y] \in Int /\ R(W) \in Int
    BY <1>8, <1>12, <2>4
  <2> HIDE DEF R, W, x
  <2>6. QED
    BY <1>9, <2>2, <2>3, <2>5
<1>13. Fine(T)
  BY <1>9, <1>11, <1>12
<1>14. QED
  BY <1>5, <1>13

\* An element that is added adds its value.
LEMMA SumAdds ==
  ASSUME NEW S, IsFiniteSet(S), NEW y, y \notin S,
         NEW fun, \A x \in S \cup {y} : fun[x] \in Int
  PROVE  SumFunctionOnSet(fun, S \cup {y}) = fun[y] + SumFunctionOnSet(fun, S)
<1>1. IsFiniteSet(S \cup {y})
  BY FS_AddElement
<1>2. (S \cup {y}) \ {y} = S
  OBVIOUS
<1>3. SumFunctionOnSet(fun, S \cup {y}) = fun[y] + SumFunctionOnSet(fun, (S \cup {y}) \ {y})
  BY <1>1, SumTakesOut
<1>4. QED
  BY <1>2, <1>3

\* The sum depends only on the values in the set.
LEMMA SumSame ==
  ASSUME NEW S, IsFiniteSet(S), NEW fun, NEW new, \A x \in S : new[x] = fun[x]
  PROVE  SumFunctionOnSet(new, S) = SumFunctionOnSet(fun, S)
<1> DEFINE Same(T) == SumFunctionOnSet(new, T) = SumFunctionOnSet(fun, T)
           Differ == {T \in SUBSET S : ~Same(T)}
<1>1. SUFFICES ASSUME ~Same(S) PROVE FALSE
  OBVIOUS
<1>2. PICK T \in Differ : \A U \in Differ : ~(U \subseteq T /\ U # T)
  <2>1. Differ \subseteq SUBSET S /\ Differ # {}
    <3> HIDE DEF Same
    <3> QED BY <1>1
  <2> HIDE DEF Differ
  <2>2. QED
    BY <2>1, SmallestSubset
<1>3. IsFiniteSet(T)
  BY <1>2, FS_Subset
<1>4. CASE T = {}
  <2>1. SumFunctionOnSet(new, T) = 0 /\ SumFunctionOnSet(fun, T) = 0
    BY <1>3, <1>4, SumByPick
  <2>2. QED
    BY <2>1, <1>2
<1>5. CASE T # {}
  <2>1. Pick(T) \in T
    BY <1>5 DEF Pick
  <2>2. Same(T \ {Pick(T)})
    BY <2>1, <1>2
  <2>3. new[Pick(T)] = fun[Pick(T)]
    BY <2>1, <1>2
  <2>4. /\ SumFunctionOnSet(new, T) = new[Pick(T)] + SumFunctionOnSet(new, T \ {Pick(T)})
        /\ SumFunctionOnSet(fun, T) = fun[Pick(T)] + SumFunctionOnSet(fun, T \ {Pick(T)})
    BY <1>3, <1>5, SumByPick
  <2>5. QED
    BY <2>2, <2>3, <2>4, <1>2
<1>6. QED
  BY <1>4, <1>5

\* Pairs are counted by counting those with each second element.
LEMMA SumCountsPairs ==
  ASSUME NEW S, IsFiniteSet(S), NEW R, NEW pairs, IsFiniteSet(pairs),
         pairs \subseteq R \X S,
         NEW fun, \A x \in S : fun[x] = Cardinality({p \in pairs : p[2] = x})
  PROVE  SumFunctionOnSet(fun, S) = Cardinality(pairs)
<1> DEFINE With(T) == {p \in pairs : p[2] \in T}
           Counted(T) == SumFunctionOnSet(fun, T) = Cardinality(With(T))
           Wrong == {T \in SUBSET S : ~Counted(T)}
<1>1. With(S) = pairs
  OBVIOUS
<1>2. SUFFICES ASSUME ~Counted(S) PROVE FALSE
  BY <1>1
<1>3. PICK T \in Wrong : \A U \in Wrong : ~(U \subseteq T /\ U # T)
  <2>1. Wrong \subseteq SUBSET S /\ Wrong # {}
    <3> HIDE DEF Counted
    <3> QED BY <1>2
  <2> HIDE DEF Wrong
  <2>2. QED
    BY <2>1, SmallestSubset
<1>4. T \subseteq S /\ IsFiniteSet(T)
  BY <1>3, FS_Subset
<1>5. CASE T = {}
  <2>1. With(T) = {}
    BY <1>5
  <2>2. SumFunctionOnSet(fun, T) = 0 /\ Cardinality(With(T)) = 0
    BY <1>4, <1>5, <2>1, SumByPick, FS_EmptySet
  <2>3. QED
    BY <2>2, <1>3
<1>6. CASE T # {}
  <2> DEFINE x == Pick(T)
             rest == With(T \ {x})
             these == {p \in pairs : p[2] = x}
  <2>1. x \in T
    BY <1>6 DEF Pick
  <2>2. SumFunctionOnSet(fun, T \ {x}) = Cardinality(rest)
    BY <2>1, <1>3
  <2>3. SumFunctionOnSet(fun, T) = fun[x] + SumFunctionOnSet(fun, T \ {x})
    BY <1>4, <1>6, SumByPick
  <2> HIDE DEF x
  <2>4. With(T) = rest \cup these /\ rest \cap these = {}
    BY <2>1
  <2>5. IsFiniteSet(rest) /\ IsFiniteSet(these)
    BY FS_Subset
  <2>6. /\ Cardinality(rest) \in Nat /\ Cardinality(these) \in Nat
        /\ Cardinality(With(T)) = Cardinality(rest) + Cardinality(these)
                                    - Cardinality(rest \cap these)
        /\ Cardinality(rest \cap these) = 0
    BY <2>4, <2>5, FS_Union, FS_CardinalityType, FS_EmptySet
  <2>7. fun[x] = Cardinality(these)
    BY <2>1, <1>4
  <2>8. SumFunctionOnSet(fun, T) = Cardinality(With(T))
    <3> HIDE DEF rest, these, With
    <3> QED BY <2>2, <2>3, <2>6, <2>7
  <2>9. QED
    BY <2>8, <1>3
<1>7. QED
  BY <1>5, <1>6

----------------------------------------------------------------------------
(* Induction over an interval *)

\* What holds of 0 and of the successors holds up to m.
LEMMA UpTo ==
  ASSUME NEW m \in Nat, NEW Good, 0 \in Good,
         \A n \in 1..m : n - 1 \in Good => n \in Good
  PROVE  \A n \in 0..m : n \in Good
<1> DEFINE Bad == {n \in 0..m : n \notin Good}
<1>1. SUFFICES ASSUME Bad # {} PROVE FALSE
  OBVIOUS
<1>2. PICK n \in Bad : \A k \in Bad : n <= k
  <2>1. Bad \subseteq Nat
    OBVIOUS
  <2> HIDE DEF Bad
  <2> QED BY <1>1, <2>1, LeastNatural
<1>3. n \in 1..m /\ n - 1 \in 0..m /\ n - 1 \notin Bad
  <2>1. n \in 0..m /\ n # 0
    BY <1>2
  <2> HIDE DEF Bad
  <2>2. n - 1 \notin Bad
    BY <1>2, <2>1
  <2> QED BY <2>1, <2>2
<1> QED BY <1>2, <1>3

LEMMA FromTo ==
  ASSUME NEW j \in Nat, NEW n \in Nat, NEW Good, j \in Good,
         \A m \in (j + 1)..n : m - 1 \in Good => m \in Good
  PROVE  \A m \in j..n : m \in Good
<1> DEFINE Bad == {m \in j..n : m \notin Good}
<1>1. SUFFICES ASSUME Bad # {} PROVE FALSE
  OBVIOUS
<1>2. PICK m \in Bad : \A k \in Bad : m <= k
  <2>1. Bad \subseteq Nat
    OBVIOUS
  <2> HIDE DEF Bad
  <2> QED BY <1>1, <2>1, LeastNatural
<1>3. m \in (j + 1)..n /\ m - 1 \in j..n /\ m - 1 \notin Bad
  <2>1. m \in j..n /\ m # j
    BY <1>2
  <2> HIDE DEF Bad
  <2>2. m - 1 \notin Bad
    BY <1>2, <2>1
  <2> QED BY <2>1, <2>2
<1> QED BY <1>2, <1>3

LEMMA MaxInterval ==
  ASSUME NEW n \in Nat \ {0}
  PROVE  /\ Max(1..n) = n /\ 1..n # {} /\ (1..n) \ {n} = 1..(n - 1)
BY DEF Max

LEMMA MaxOf ==
  ASSUME NEW n \in Nat, NEW s \in SUBSET (1..n), s # {}
  PROVE  /\ Max(s) \in s
         /\ \A x \in s : x <= Max(s)
<1> DEFINE T == {n - x : x \in s}
<1>1. T \subseteq Nat
  <2>1. \A x \in s : x \in 1..n
    OBVIOUS
  <2> QED BY <2>1
<1>0. T # {}
  <2>1. PICK x : x \in s
    OBVIOUS
  <2> QED BY <2>1
<1>2. PICK m \in T : \A k \in T : m <= k
  <2> HIDE DEF T
  <2> QED BY <1>0, <1>1, LeastNatural
<1>3. PICK y \in s : m = n - y
  BY <1>2
<1>4. \A x \in s : x <= y
  BY <1>2, <1>3
<1> QED BY <1>3, <1>4 DEF Max

\* What is left of a set of numbers without its greatest.
LEMMA RestBelow ==
  ASSUME NEW n \in Nat \ {0}, NEW s \in SUBSET (1..n), s # {}
  PROVE  s \ {Max(s)} \in SUBSET (1..(n - 1)) /\ Max(s) \in 1..n
<1> DEFINE k == Max(s)
<1>1. k \in s /\ \A x \in s : x <= k
  BY MaxOf
<1> HIDE DEF k
<1>2. k \in 1..n /\ \A x \in s : x \in 1..n
  BY <1>1
<1>3. \A x \in s \ {k} : x \in 1..(n - 1)
  BY <1>1, <1>2
<1> QED BY <1>2, <1>3 DEF k

----------------------------------------------------------------------------
(* Sequences *)

LEMMA FunIsSeq ==
  ASSUME NEW S, NEW n \in Nat, NEW f \in [1..n -> S]
  PROVE  f \in Seq(S) /\ Len(f) = n
OBVIOUS

LEMMA OneIsSeq ==
  ASSUME NEW S, NEW x \in S
  PROVE  <<x>> \in Seq(S) /\ Len(<<x>>) = 1 /\ <<x>> # <<>> /\ Head(<<x>>) = x
<1>1. <<x>> \in Seq(S) /\ Len(<<x>>) = 1 /\ <<x>>[1] = x
  OBVIOUS
<1> DEFINE q == <<x>>
<1> HIDE DEF q
<1>2. q \in Seq(S) /\ Len(q) = 1 /\ q[1] = x
  BY <1>1 DEF q
<1>3. q # <<>>
  <2> SUFFICES ASSUME q = <<>> PROVE FALSE
    OBVIOUS
  <2>1. Len(q) = 0
    OBVIOUS
  <2> QED BY <1>2, <2>1
<1>4. Head(q) = q[1]
  BY <1>2, <1>3, HeadTailProperties
<1> QED BY <1>2, <1>3, <1>4 DEF q

LEMMA SeqAt ==
  ASSUME NEW S, NEW t \in Seq(S)
  PROVE  \A i \in 1..Len(t) : t[i] \in S
OBVIOUS

LEMMA ConcatIsSeq ==
  ASSUME NEW S, NEW s \in Seq(S), NEW t \in Seq(S)
  PROVE  s \o t \in Seq(S) /\ Len(s \o t) = Len(s) + Len(t)
OBVIOUS

LEMMA ConcatAt ==
  ASSUME NEW S, NEW s \in Seq(S), NEW t \in Seq(S)
  PROVE  /\ \A i \in 1..Len(s) : (s \o t)[i] = s[i]
         /\ \A i \in 1..Len(t) : (s \o t)[Len(s) + i] = t[i]
OBVIOUS

LEMMA AppendIs ==
  ASSUME NEW S, NEW s \in Seq(S), NEW x \in S
  PROVE  Append(s, x) = s \o <<x>>
OBVIOUS

\* The last element of a sequence is the one that was appended.
LEMMA AppendAt ==
  ASSUME NEW S, NEW s \in Seq(S), NEW x \in S
  PROVE  /\ Append(s, x) \in Seq(S) /\ Len(Append(s, x)) = Len(s) + 1
         /\ \A i \in 1..Len(Append(s, x)) :
              Append(s, x)[i] = x \/ (i \in 1..Len(s) /\ Append(s, x)[i] = s[i])
OBVIOUS

LEMMA ConcatCancels ==
  ASSUME NEW S, NEW s \in Seq(S), NEW t \in Seq(S), NEW u \in Seq(S), s \o t = s \o u
  PROVE  t = u
<1>1. Len(t) = Len(u)
  <2>1. Len(s \o t) = Len(s) + Len(t) /\ Len(s \o u) = Len(s) + Len(u)
    OBVIOUS
  <2> QED BY <2>1
<1>2. \A i \in 1..Len(t) : t[i] = u[i]
  <2> TAKE i \in 1..Len(t)
  <2>1. (s \o t)[Len(s) + i] = t[i] /\ (s \o u)[Len(s) + i] = u[i]
    BY <1>1
  <2> QED BY <2>1
<1> QED BY <1>1, <1>2

LEMMA ConcatHeads ==
  ASSUME NEW S, NEW s \in Seq(S), NEW t \in Seq(S), s # <<>>
  PROVE  s \o t \in Seq(S) /\ s \o t # <<>> /\ Head(s \o t) = Head(s)
<1>1. s \o t \in Seq(S) /\ Len(s \o t) = Len(s) + Len(t)
  BY ConcatIsSeq
<1>2. Len(s) \in Nat /\ Len(t) \in Nat /\ Len(s) # 0
  OBVIOUS
<1>3. 1 \in 1..Len(s) /\ Len(s \o t) # 0
  BY <1>1, <1>2
<1>4. (s \o t)[1] = s[1]
  BY <1>3, ConcatAt
<1>5. s \o t # <<>>
  BY <1>1, <1>3
<1> DEFINE v == s \o t
<1> HIDE DEF v
<1>6. v \in Seq(S) /\ v # <<>> /\ v[1] = s[1]
  BY <1>1, <1>4, <1>5 DEF v
<1>7. Head(v) = v[1] /\ Head(s) = s[1]
  BY <1>6
<1> QED BY <1>6, <1>7 DEF v

----------------------------------------------------------------------------
(* Numerals: texts of numbers, which differ *)

\* Digits in some base, at least 2, taken from the characters C.
IsAlphabet(digits, C) ==
  /\ digits \in Seq(C)
  /\ Len(digits) \in Nat \ {0, 1}
  /\ \A j, k \in 1..Len(digits) : digits[j] = digits[k] => j = k

\* The recursion of Numeral.
NumeralStep(digits, d, n) ==
  IF n < Len(digits) THEN <<digits[n + 1]>>
  ELSE Append(d[n \div Len(digits)], digits[(n % Len(digits)) + 1])

\* A digit is taken off.
LEMMA Division ==
  ASSUME NEW n \in Nat, NEW b \in Nat \ {0, 1}
  PROVE  /\ n \div b \in Nat /\ n % b \in 0..(b - 1) /\ n = b * (n \div b) + (n % b)
         /\ n >= b => n \div b \in 0..(n - 1)
<1> DEFINE q == n \div b
           r == n % b
<1>1. r \in 0..(b - 1) /\ q \in Int /\ n = b * q + r
  OBVIOUS
<1> HIDE DEF q, r
<1>2. q >= 0
  BY <1>1
<1>3. b * q >= 2 * q
  BY <1>1, <1>2
<1>4. n >= b => q <= n - 1
  <2> HAVE n >= b
  <2>1. CASE q = 0
    BY <2>1
  <2>2. CASE q > 0
    BY <2>2, <1>1, <1>3
  <2> QED BY <2>1, <2>2, <1>1, <1>2
<1> QED BY <1>1, <1>2, <1>4 DEF q, r

LEMMA LastDigit ==
  ASSUME NEW C, NEW digits, IsAlphabet(digits, C), NEW n \in Nat
  PROVE  /\ n \div Len(digits) \in Nat
         /\ n % Len(digits) \in 0..(Len(digits) - 1)
         /\ n = Len(digits) * (n \div Len(digits)) + (n % Len(digits))
         /\ ~(n < Len(digits)) => /\ n \div Len(digits) \in 0..(n - 1)
                                 /\ ~(n <= n \div Len(digits))
<1> DEFINE b == Len(digits)
<1>1. b \in Nat \ {0, 1}
  BY DEF IsAlphabet
<1> HIDE DEF b
<1>2. /\ n \div b \in Nat /\ n % b \in 0..(b - 1) /\ n = b * (n \div b) + (n % b)
      /\ n >= b => n \div b \in 0..(n - 1)
  BY <1>1, Division
<1>3. ~(n < b) => n >= b
  BY <1>1
<1>4. ~(n < b) => n \div b \in 0..(n - 1) /\ ~(n <= n \div b)
  BY <1>2, <1>3
<1> QED BY <1>2, <1>4 DEF b

LEMMA DigitAt ==
  ASSUME NEW C, NEW digits, IsAlphabet(digits, C), NEW k \in 0..(Len(digits) - 1)
  PROVE  /\ digits[k + 1] \in C /\ k + 1 \in 1..Len(digits)
         /\ <<digits[k + 1]>> \in Seq(C) /\ Len(<<digits[k + 1]>>) = 1
<1>1. k + 1 \in 1..Len(digits)
  BY DEF IsAlphabet
<1>2. digits[k + 1] \in C
  BY <1>1, SeqAt DEF IsAlphabet
<1> QED BY <1>1, <1>2

\* The numerals of the numbers up to n.
SolvesUpTo(digits, d, n) == d = [k \in 0..n |-> NumeralStep(digits, d, k)]

LEMMA NumeralsUpTo ==
  ASSUME NEW C, NEW digits, IsAlphabet(digits, C), NEW n \in Nat
  PROVE  \E d : SolvesUpTo(digits, d, n)
<1> DEFINE b == Len(digits)
           Good == {m \in 0..n : \E d : SolvesUpTo(digits, d, m)}
<1>0. b \in Nat \ {0, 1}
  BY DEF IsAlphabet
<1>1. 0 \in Good
  <2> DEFINE d == [k \in 0..0 |-> NumeralStep(digits, 0, 0)]
  <2>1. \A k \in 0..0 : k = 0 /\ k < b
    BY <1>0
  <2>2. SolvesUpTo(digits, d, 0)
    BY <2>1 DEF SolvesUpTo, NumeralStep
  <2>3. 0 \in 0..n
    OBVIOUS
  <2> HIDE DEF d
  <2> QED BY <2>2, <2>3
<1>2. ASSUME NEW m \in 1..n, m - 1 \in Good PROVE m \in Good
  <2>1. PICK d : SolvesUpTo(digits, d, m - 1)
    BY <1>2
  <2> DEFINE e == [k \in 0..m |-> NumeralStep(digits, d, k)]
  <2>2. \A k \in 0..m : ~(k < b) => k \div b \in 0..(m - 1) /\ k \div b \in 0..m
    <3> TAKE k \in 0..m
    <3> HAVE ~(k < b)
    <3>1. k \in Nat /\ k <= m /\ m \in Nat
      OBVIOUS
    <3>2. k \div b \in 0..(k - 1)
      BY <3>1, LastDigit
    <3> HIDE DEF b
    <3> QED BY <3>1, <3>2
  <2>3. \A k \in 0..(m - 1) : k \in 0..m /\ e[k] = d[k]
    <3> TAKE k \in 0..(m - 1)
    <3>1. d[k] = NumeralStep(digits, d, k)
      BY <2>1 DEF SolvesUpTo
    <3> QED BY <3>1
  <2>4. \A k \in 0..m : NumeralStep(digits, d, k) = NumeralStep(digits, e, k)
    <3> HIDE DEF e
    <3> TAKE k \in 0..m
    <3>1. CASE k < b
      BY <3>1 DEF NumeralStep
    <3>2. CASE ~(k < b)
      <4>1. e[k \div b] = d[k \div b]
        <5> HIDE DEF b
        <5> QED BY <3>2, <2>2, <2>3
      <4> QED BY <4>1, <3>2 DEF NumeralStep
    <3> QED BY <3>1, <3>2
  <2>5. SolvesUpTo(digits, e, m)
    BY <2>4 DEF SolvesUpTo
  <2>6. m \in 0..n
    OBVIOUS
  <2> HIDE DEF e
  <2> QED BY <2>5, <2>6
<1>3. n \in 0..n
  OBVIOUS
<1>4. \A m \in 0..n : m \in Good
  <2> HIDE DEF Good
  <2> QED BY <1>1, <1>2, UpTo
<1> QED BY <1>3, <1>4

LEMMA NumeralsAgree ==
  ASSUME NEW C, NEW digits, IsAlphabet(digits, C),
         NEW m \in Nat, NEW n \in Nat, m <= n,
         NEW d, SolvesUpTo(digits, d, m), NEW e, SolvesUpTo(digits, e, n)
  PROVE  d[m] = e[m]
<1> DEFINE b == Len(digits)
           Bad == {k \in 0..m : d[k] # e[k]}
<1>0. b \in Nat \ {0, 1}
  BY DEF IsAlphabet
<1>1. SUFFICES ASSUME Bad # {} PROVE FALSE
  <2>1. m \in 0..m
    OBVIOUS
  <2> QED BY <2>1
<1>2. PICK k \in Bad : \A j \in Bad : k <= j
  <2>1. Bad \subseteq Nat
    OBVIOUS
  <2> HIDE DEF Bad
  <2> QED BY <1>1, <2>1, LeastNatural
<1>3. k \in 0..m /\ k \in 0..n /\ d[k] # e[k] /\ k \in Nat
  BY <1>2
<1>4. d[k] = NumeralStep(digits, d, k) /\ e[k] = NumeralStep(digits, e, k)
  BY <1>3 DEF SolvesUpTo
<1>5. ~(k < b) => d[k \div b] = e[k \div b]
  <2> HAVE ~(k < b)
  <2>1. k \div b \in 0..(k - 1) /\ ~(k <= k \div b)
    BY <1>3, LastDigit
  <2> HIDE DEF b
  <2>2. k \div b \in 0..m
    BY <1>3, <2>1
  <2>3. k \div b \notin Bad
    <3> HIDE DEF Bad
    <3> QED BY <1>2, <2>1
  <2> QED BY <2>2, <2>3
<1> HIDE DEF Bad
<1> QED BY <1>3, <1>4, <1>5 DEF NumeralStep

\* Numeral is a solution of its recursion.
LEMMA NumeralUnfolds ==
  ASSUME NEW C, NEW digits, IsAlphabet(digits, C)
  PROVE  \A n \in Nat : Numeral(digits)[n] = NumeralStep(digits, Numeral(digits), n)
<1> DEFINE b == Len(digits)
           all == [n \in Nat |-> (CHOOSE g : SolvesUpTo(digits, g, n))[n]]
<1>0. b \in Nat \ {0, 1}
  BY DEF IsAlphabet
<1>1. \A n \in Nat : all[n] = NumeralStep(digits, all, n)
  <2> TAKE n \in Nat
  <2>1. PICK d : d = (CHOOSE g : SolvesUpTo(digits, g, n)) /\ SolvesUpTo(digits, d, n)
    BY NumeralsUpTo, Zenon
  <2>2. all[n] = d[n]
    BY <2>1
  <2>3. d[n] = NumeralStep(digits, d, n)
    <3>1. n \in 0..n
      OBVIOUS
    <3> QED BY <2>1, <3>1 DEF SolvesUpTo
  <2>4. ~(n < b) => d[n \div b] = all[n \div b]
    <3> HAVE ~(n < b)
    <3> DEFINE k == n \div b
    <3>1. k \in 0..(n - 1)
      BY LastDigit
    <3> HIDE DEF k
    <3>5. k \in Nat /\ k <= n
      BY <3>1
    <3>2. PICK e : e = (CHOOSE g : SolvesUpTo(digits, g, k)) /\ SolvesUpTo(digits, e, k)
      BY <3>5, NumeralsUpTo, Zenon
    <3>3. all[k] = e[k]
      BY <3>5, <3>2
    <3>4. e[k] = d[k]
      BY <3>5, <3>2, <2>1, NumeralsAgree
    <3> QED BY <3>3, <3>4 DEF k
  <2> HIDE DEF all
  <2> QED BY <2>2, <2>3, <2>4 DEF NumeralStep
<1> DEFINE it == CHOOSE written :
             written = [n \in Nat |->
               IF n < Len(digits) THEN <<digits[n + 1]>>
               ELSE Append(written[n \div Len(digits)], digits[(n % Len(digits)) + 1])]
<1>2. all = [n \in Nat |-> NumeralStep(digits, all, n)]
  BY <1>1
<1> HIDE DEF all
<1>3. all = [n \in Nat |->
        IF n < Len(digits) THEN <<digits[n + 1]>>
        ELSE Append(all[n \div Len(digits)], digits[(n % Len(digits)) + 1])]
  BY <1>2, Zenon DEF NumeralStep
<1>4. it = [n \in Nat |->
        IF n < Len(digits) THEN <<digits[n + 1]>>
        ELSE Append(it[n \div Len(digits)], digits[(n % Len(digits)) + 1])]
  BY <1>3, Zenon
<1>5. Numeral(digits) = it
  BY Zenon DEF Numeral
<1> HIDE DEF it
<1> QED BY <1>4, <1>5 DEF NumeralStep

\* A numeral is a text of characters, and not empty.
LEMMA NumeralsAreText ==
  ASSUME NEW C, NEW digits, IsAlphabet(digits, C)
  PROVE  \A n \in Nat : Numeral(digits)[n] \in Seq(C) /\ Len(Numeral(digits)[n]) > 0
<1> DEFINE b == Len(digits)
           num == Numeral(digits)
           Bad == {n \in Nat : ~(num[n] \in Seq(C) /\ Len(num[n]) > 0)}
<1>0. b \in Nat \ {0, 1}
  BY DEF IsAlphabet
<1>1. SUFFICES ASSUME Bad # {} PROVE FALSE
  OBVIOUS
<1>2. PICK n \in Bad : \A j \in Bad : n <= j
  <2>1. Bad \subseteq Nat
    OBVIOUS
  <2> HIDE DEF Bad
  <2> QED BY <1>1, <2>1, LeastNatural
<1>3. n \in Nat /\ num[n] = NumeralStep(digits, num, n)
  BY NumeralUnfolds
<1> HIDE DEF num
<1>4. CASE n < b
  <2>1. n \in 0..(Len(digits) - 1)
    BY <1>0, <1>3, <1>4
  <2>2. <<digits[n + 1]>> \in Seq(C) /\ Len(<<digits[n + 1]>>) = 1
    BY <2>1, DigitAt
  <2>3. num[n] = <<digits[n + 1]>>
    BY <1>3, <1>4 DEF NumeralStep
  <2>4. num[n] \in Seq(C) /\ Len(num[n]) > 0
    BY <2>2, <2>3
  <2> QED BY <2>4, <1>2
<1>5. CASE ~(n < b)
  <2> DEFINE k == n \div b
             r == n % b
  <2>2. num[n] = Append(num[k], digits[r + 1])
    BY <1>3, <1>5 DEF NumeralStep
  <2>1. k \in Nat /\ ~(n <= k) /\ r \in 0..(b - 1)
    BY <1>3, <1>5, LastDigit
  <2> HIDE DEF k, r
  <2>3. k \notin Bad
    <3> HIDE DEF Bad
    <3> QED BY <1>2, <2>1
  <2>4. num[k] \in Seq(C)
    BY <2>1, <2>3
  <2>5. digits[r + 1] \in C
    BY <2>1, DigitAt
  <2>6. num[n] \in Seq(C) /\ Len(num[n]) > 0
    BY <2>2, <2>4, <2>5, AppendAt
  <2> QED BY <2>6, <1>2
<1> QED BY <1>4, <1>5

LEMMA AppendSame ==
  ASSUME NEW C, NEW s \in Seq(C), NEW t \in Seq(C), NEW x \in C, NEW y \in C,
         Append(s, x) = Append(t, y)
  PROVE  s = t /\ x = y
BY AppendInjective

\* Different numbers have different numerals.
LEMMA NumeralsDiffer ==
  ASSUME NEW C, NEW digits, IsAlphabet(digits, C), NEW m \in Nat, NEW n \in Nat,
         Numeral(digits)[m] = Numeral(digits)[n]
  PROVE  m = n
<1> DEFINE b == Len(digits)
           num == Numeral(digits)
           Twin(j) == \E k \in Nat : j # k /\ num[j] = num[k]
           Bad == {j \in Nat : Twin(j)}
<1>0. b \in Nat \ {0, 1}
  BY DEF IsAlphabet
<1>1. SUFFICES ASSUME Bad # {} PROVE FALSE
  OBVIOUS
<1>2. PICK i \in Bad : \A j \in Bad : i <= j
  <2>1. Bad \subseteq Nat
    OBVIOUS
  <2> HIDE DEF Bad
  <2> QED BY <1>1, <2>1, LeastNatural
<1>3. PICK k \in Nat : i # k /\ num[i] = num[k]
  BY <1>2
<1>4. i \in Nat
  BY <1>2
<1>5. num[i] = NumeralStep(digits, num, i) /\ num[k] = NumeralStep(digits, num, k)
  BY <1>4, NumeralUnfolds
<1>9. \A a \in Nat : num[a] \in Seq(C) /\ Len(num[a]) > 0
  BY NumeralsAreText
<1> HIDE DEF num
<1>6. ASSUME NEW a \in Nat, NEW c \in Nat, a < b, ~(c < b), num[a] = num[c],
             num[a] = NumeralStep(digits, num, a), num[c] = NumeralStep(digits, num, c)
      PROVE  FALSE
  <2> DEFINE q == c \div b
             r == c % b
  <2>1. num[a] = <<digits[a + 1]>> /\ num[c] = Append(num[q], digits[r + 1])
    BY <1>6 DEF NumeralStep
  <2>2. q \in Nat /\ r \in 0..(b - 1) /\ a \in 0..(b - 1)
    <3>1. q \in Nat /\ r \in 0..(b - 1)
      BY LastDigit
    <3>2. a \in 0..(b - 1)
      BY <1>0, <1>6
    <3> QED BY <3>1, <3>2
  <2> HIDE DEF q, r
  <2>3. digits[r + 1] \in C /\ Len(<<digits[a + 1]>>) = 1
    BY <2>2, DigitAt
  <2>4. num[q] \in Seq(C) /\ Len(num[q]) > 0
    BY <2>2, <1>9
  <2>5. Len(num[c]) = Len(num[q]) + 1
    BY <2>1, <2>3, <2>4, AppendAt
  <2>6. Len(num[a]) = 1
    BY <2>1, <2>3
  <2> DEFINE length == Len(num[q])
  <2>7. length \in Nat
    BY <2>4
  <2>8. length + 1 = 1 /\ length > 0
    BY <2>4, <2>5, <2>6, <1>6, Zenon
  <2> HIDE DEF length
  <2> QED BY <2>7, <2>8
<1>7. CASE i < b /\ k < b
  <2>1. <<digits[i + 1]>> = <<digits[k + 1]>>
    BY <1>3, <1>5, <1>7 DEF NumeralStep
  <2>2. digits[i + 1] = digits[k + 1]
    BY <2>1
  <2>3. i + 1 \in 1..b /\ k + 1 \in 1..b
    BY <1>0, <1>3, <1>4, <1>7
  <2>4. i + 1 = k + 1
    BY <2>2, <2>3 DEF IsAlphabet
  <2> QED BY <1>3, <1>4, <2>4
<1>8. CASE ~(i < b) /\ ~(k < b)
  <2> DEFINE p == i \div b
             q == k \div b
             r == i % b
             s == k % b
  <2>2. Append(num[p], digits[r + 1]) = Append(num[q], digits[s + 1])
    BY <1>3, <1>5, <1>8 DEF NumeralStep
  <2>1. /\ p \in Nat /\ q \in Nat /\ r \in 0..(b - 1) /\ s \in 0..(b - 1)
        /\ i = b * p + r /\ k = b * q + s /\ ~(i <= p)
    BY <1>3, <1>4, <1>8, LastDigit
  <2> HIDE DEF p, q, r, s
  <2>3. /\ num[p] \in Seq(C) /\ num[q] \in Seq(C)
        /\ digits[r + 1] \in C /\ digits[s + 1] \in C
        /\ r + 1 \in 1..b /\ s + 1 \in 1..b
    <3>1. num[p] \in Seq(C) /\ num[q] \in Seq(C)
      BY <2>1, <1>9
    <3>2. digits[r + 1] \in C /\ r + 1 \in 1..b
      BY <2>1, DigitAt
    <3>3. digits[s + 1] \in C /\ s + 1 \in 1..b
      BY <2>1, DigitAt
    <3> QED BY <3>1, <3>2, <3>3
  <2>4. num[p] = num[q] /\ digits[r + 1] = digits[s + 1]
    <3> DEFINE u == num[p]
               v == num[q]
               x == digits[r + 1]
               y == digits[s + 1]
    <3>1. u \in Seq(C) /\ v \in Seq(C) /\ x \in C /\ y \in C /\ Append(u, x) = Append(v, y)
      BY <2>2, <2>3
    <3> HIDE DEF u, v, x, y
    <3>2. u = v /\ x = y
      BY <3>1, AppendSame
    <3> QED BY <3>2 DEF u, v, x, y
  <2>5. p \notin Bad
    <3> HIDE DEF Bad
    <3> QED BY <1>2, <2>1
  <2>6. p = q
    BY <2>1, <2>4, <2>5
  <2>7. r + 1 = s + 1
    BY <2>3, <2>4 DEF IsAlphabet
  <2> HIDE DEF b
  <2>8. r = s
    BY <1>0, <2>1, <2>7
  <2> QED BY <2>1, <2>6, <2>8, <1>3
<1> QED BY <1>3, <1>4, <1>5, <1>6, <1>7, <1>8

----------------------------------------------------------------------------
(* Left folds *)

\* The recursion of FoldLeft has a solution, for a step that is a function.
FoldStep(F, base, seq, g, s) ==
  IF s = {} THEN base ELSE F[<<g[s \ {Max(s)}], seq[Max(s)]>>]

IsFold(S, E, F, base, seq, it) ==
  /\ it \in [SUBSET DOMAIN seq -> S]
  /\ it = [s \in SUBSET DOMAIN seq |-> FoldStep(F, base, seq, it, s)]
  /\ \A s \in SUBSET DOMAIN seq : s # {} =>
       s \ {Max(s)} \in SUBSET DOMAIN seq /\ it[s \ {Max(s)}] \in S /\ seq[Max(s)] \in E

LEMMA FoldExists ==
  ASSUME NEW S, NEW E, NEW F \in [S \X E -> S], NEW base \in S, NEW seq \in Seq(E)
  PROVE  \E it : IsFold(S, E, F, base, seq, it)
<1> DEFINE m == Len(seq)
           Solves(g, n) ==
             /\ g \in [SUBSET (1..n) -> S]
             /\ g = [s \in SUBSET (1..n) |-> FoldStep(F, base, seq, g, s)]
           Solved == {n \in 0..m : \E g : Solves(g, n)}
<1>0. m \in Nat /\ DOMAIN seq = 1..m
  OBVIOUS
<1>1. 0 \in Solved
  <2> DEFINE g == [s \in SUBSET (1..0) |-> base]
  <2>1. \A s \in SUBSET (1..0) : s = {}
    OBVIOUS
  <2>2. Solves(g, 0)
    BY <2>1 DEF FoldStep
  <2>3. 0 \in 0..m
    BY <1>0
  <2> HIDE DEF Solves, g
  <2> QED BY <2>2, <2>3
<1>2. ASSUME NEW n \in 1..m, n - 1 \in Solved PROVE n \in Solved
  <2>1. PICK g : Solves(g, n - 1)
    BY <1>2
  <2>2. \A s \in SUBSET (1..n) : s # {} =>
          s \ {Max(s)} \in SUBSET (1..(n - 1)) /\ Max(s) \in 1..m
    <3>1. n \in Nat \ {0} /\ \A k \in 1..n : k \in 1..m
      BY <1>0
    <3> QED BY <3>1, RestBelow
  <2>3. \A s \in SUBSET (1..n) : FoldStep(F, base, seq, g, s) \in S
    <3> TAKE s \in SUBSET (1..n)
    <3>1. CASE s # {}
      <4> DEFINE r == s \ {Max(s)}
                 k == Max(s)
      <4>1. r \in SUBSET (1..(n - 1)) /\ k \in 1..m
        BY <2>2, <3>1
      <4>2. FoldStep(F, base, seq, g, s) = F[<<g[r], seq[k]>>]
        BY <3>1 DEF FoldStep
      <4> HIDE DEF r, k
      <4>3. g[r] \in S
        BY <2>1, <4>1
      <4>4. seq[k] \in E
        BY <4>1, <1>0
      <4> QED BY <4>2, <4>3, <4>4
    <3> QED BY <3>1 DEF FoldStep
  <2> DEFINE h == [s \in SUBSET (1..n) |-> FoldStep(F, base, seq, g, s)]
  <2>4. \A u \in SUBSET (1..(n - 1)) : u \in SUBSET (1..n) /\ h[u] = g[u]
    <3> TAKE u \in SUBSET (1..(n - 1))
    <3>1. u \in SUBSET (1..n)
      OBVIOUS
    <3>2. g[u] = FoldStep(F, base, seq, g, u)
      BY <2>1
    <3> QED BY <3>1, <3>2
  <2>5. \A s \in SUBSET (1..n) : FoldStep(F, base, seq, g, s) = FoldStep(F, base, seq, h, s)
    <3> HIDE DEF h
    <3> QED BY <2>2, <2>4 DEF FoldStep
  <2>6. h \in [SUBSET (1..n) -> S]
    BY <2>3
  <2>7. h = [s \in SUBSET (1..n) |-> FoldStep(F, base, seq, h, s)]
    BY <2>5
  <2>8. n \in 0..m
    BY <1>0, <1>2
  <2>9. Solves(h, n)
    <3> HIDE DEF h
    <3> QED BY <2>6, <2>7
  <2> QED
    <3> HIDE DEF Solves
    <3> QED BY <2>8, <2>9
<1>3. m \in Solved
  <2>1. \A n \in 0..m : n \in Solved
    <3> HIDE DEF Solved, m
    <3> QED BY <1>0, <1>1, <1>2, UpTo
  <2>2. m \in 0..m
    BY <1>0
  <2> HIDE DEF Solved
  <2> QED BY <2>1, <2>2
<1>4. PICK g : Solves(g, m)
  BY <1>3
<1>5. ASSUME NEW s \in SUBSET DOMAIN seq, s # {}
      PROVE  s \ {Max(s)} \in SUBSET DOMAIN seq /\ g[s \ {Max(s)}] \in S /\ seq[Max(s)] \in E
  <2>1. s \in SUBSET (1..m)
    BY <1>0
  <2>2. Max(s) \in s
    BY <1>0, <1>5, <2>1, MaxOf
  <2>3. \A k \in DOMAIN seq : seq[k] \in E
    OBVIOUS
  <2>4. g \in [SUBSET (DOMAIN seq) -> S]
    BY <1>0, <1>4
  <2> QED BY <2>2, <2>3, <2>4
<1> QED BY <1>0, <1>4, <1>5 DEF IsFold

\* The states that a fold passes through.
IsRun(S, F, base, seq, run) ==
  /\ run \in [0..Len(seq) -> S] /\ run[0] = base
  /\ \A n \in 1..Len(seq) : run[n] = F[<<run[n - 1], seq[n]>>]

\* x is the state that a run ends in.
RunsTo(S, F, base, seq, x) ==
  \E run : IsRun(S, F, base, seq, run) /\ run[Len(seq)] = x

\* The recursion behind FoldLeft, which takes the elements from the end of
\* the domain; it is of use only where the states are known to be in S.
Iterates(S, F, base, seq, it) ==
  /\ it[{}] = base
  /\ \A s \in SUBSET DOMAIN seq : s # {} /\ it[s \ {Max(s)}] \in S =>
       it[s] = F[<<it[s \ {Max(s)}], seq[Max(s)]>>]

LEMMA FoldRuns ==
  ASSUME NEW S, NEW E, NEW F \in [S \X E -> S], NEW base \in S, NEW seq \in Seq(E),
         NEW it, Iterates(S, F, base, seq, it)
  PROVE  RunsTo(S, F, base, seq, it[DOMAIN seq])
<1> DEFINE L == Len(seq)
           run == [n \in 0..L |-> it[1..n]]
           Good == {n \in 0..L : it[1..n] \in S}
<1>1. L \in Nat /\ DOMAIN seq = 1..L /\ \A n \in 1..L : seq[n] \in E
  OBVIOUS
<1> HIDE DEF L
<1>2. 1..0 = {} /\ 0 \in 0..L /\ L \in 0..L
  BY <1>1
<1>3. ASSUME NEW n \in 1..L
      PROVE  /\ 1..n \in SUBSET DOMAIN seq /\ 1..n # {} /\ n - 1 \in 0..L /\ n \in 0..L
             /\ Max(1..n) = n /\ (1..n) \ {n} = 1..(n - 1)
  <2>1. n \in Nat \ {0}
    BY <1>1
  <2>2. n - 1 \in 0..L /\ n \in 0..L /\ \A k \in 1..n : k \in 1..L
    BY <1>1
  <2>3. Max(1..n) = n /\ 1..n # {} /\ (1..n) \ {n} = 1..(n - 1)
    BY <2>1, MaxInterval
  <2> QED BY <1>1, <2>2, <2>3
<1>4. ASSUME NEW n \in 1..L, it[1..(n - 1)] \in S
      PROVE  it[1..n] = F[<<it[1..(n - 1)], seq[n]>>]
  BY <1>3, <1>4 DEF Iterates
<1>5. 0 \in Good
  BY <1>2 DEF Iterates
<1>6. ASSUME NEW n \in 1..L, n - 1 \in Good PROVE n \in Good
  <2>1. it[1..(n - 1)] \in S /\ seq[n] \in E /\ n \in 0..L
    BY <1>1, <1>3, <1>6
  <2>2. it[1..n] \in S
    BY <1>4, <2>1
  <2> QED BY <2>1, <2>2
<1>7. \A n \in 0..L : n \in Good
  <2> HIDE DEF Good
  <2> QED BY <1>1, <1>5, <1>6, UpTo
<1>8. \A n \in 0..L : it[1..n] \in S /\ run[n] = it[1..n]
  BY <1>7
<1>9. run \in [0..L -> S] /\ run[0] = base /\ run[L] = it[DOMAIN seq]
  BY <1>1, <1>2, <1>8 DEF Iterates
<1>10. \A n \in 1..L : run[n] = F[<<run[n - 1], seq[n]>>]
  <2> HIDE DEF run
  <2> QED BY <1>3, <1>4, <1>8
<1> HIDE DEF run
<1> QED BY <1>9, <1>10 DEF IsRun, RunsTo, L

LEMMA RunsIntoStates ==
  ASSUME NEW S, NEW E, NEW F, NEW base, NEW seq \in Seq(E), NEW x, RunsTo(S, F, base, seq, x)
  PROVE  x \in S
<1>1. Len(seq) \in 0..Len(seq)
  OBVIOUS
<1> QED BY <1>1 DEF RunsTo, IsRun

\* A run over nothing.
LEMMA RunsOfNothing ==
  ASSUME NEW S, NEW F, NEW a \in S
  PROVE  RunsTo(S, F, a, <<>>, a)
<1> DEFINE run == [n \in 0..0 |-> a]
<1>1. Len(<<>>) = 0 /\ 0 \in 0..0 /\ \A n \in 1..0 : FALSE
  OBVIOUS
<1>2. run \in [0..0 -> S] /\ run[0] = a
  BY <1>1
<1> HIDE DEF run
<1> QED BY <1>1, <1>2 DEF RunsTo, IsRun

\* One run after another.
LEMMA RunsCompose ==
  ASSUME NEW S, NEW E, NEW F, NEW s \in Seq(E), NEW t \in Seq(E), NEW a, NEW b, NEW c,
         RunsTo(S, F, a, s, b), RunsTo(S, F, b, t, c)
  PROVE  RunsTo(S, F, a, s \o t, c)
<1> DEFINE k == Len(s)
           l == Len(t)
           u == s \o t
<1>1. PICK f : IsRun(S, F, a, s, f) /\ f[k] = b
  BY DEF RunsTo
<1>2. PICK g : IsRun(S, F, b, t, g) /\ g[l] = c
  BY DEF RunsTo
<1>3. k \in Nat /\ l \in Nat /\ Len(u) = k + l
  BY ConcatIsSeq
<1>4. /\ \A n \in 1..k : u[n] = s[n]
      /\ \A n \in 1..l : u[k + n] = t[n]
  BY ConcatAt
<1>5. /\ f \in [0..k -> S] /\ f[0] = a /\ f[k] = b
      /\ \A n \in 1..k : f[n] = F[<<f[n - 1], s[n]>>]
      /\ g \in [0..l -> S] /\ g[0] = b /\ g[l] = c
      /\ \A n \in 1..l : g[n] = F[<<g[n - 1], t[n]>>]
  BY <1>1, <1>2 DEF IsRun
<1> HIDE DEF k, l, u
<1> DEFINE h == [n \in 0..(k + l) |-> IF n <= k THEN f[n] ELSE g[n - k]]
<1>6. /\ \A n \in 0..k : h[n] = f[n] /\ f[n] \in S
      /\ \A n \in 0..l : h[k + n] = g[n] /\ g[n] \in S
  <2>1. ASSUME NEW n \in 0..k PROVE h[n] = f[n] /\ f[n] \in S
    <3>1. n \in 0..(k + l) /\ n <= k
      BY <1>3
    <3> QED BY <1>5, <3>1
  <2>2. ASSUME NEW n \in 0..l PROVE h[k + n] = g[n] /\ g[n] \in S
    <3>1. k + n \in 0..(k + l) /\ (k + n) - k = n /\ (k + n <= k => n = 0)
      BY <1>3
    <3>2. CASE n = 0
      <4>1. k \in 0..(k + l) /\ k + n = k /\ k <= k
        BY <1>3, <3>2
      <4> QED BY <1>5, <3>2, <4>1
    <3>3. CASE n # 0
      BY <1>5, <3>1, <3>3
    <3> QED BY <3>2, <3>3
  <2> QED BY <2>1, <2>2
<1>7. \A n \in 0..(k + l) : h[n] \in S
  <2> TAKE n \in 0..(k + l)
  <2>1. n \in 0..k \/ (n - k \in 0..l /\ n = k + (n - k))
    BY <1>3
  <2> HIDE DEF h
  <2> QED BY <1>6, <2>1
<1>8. h \in [0..(k + l) -> S]
  <2> DEFINE w(n) == IF n <= k THEN f[n] ELSE g[n - k]
  <2>1. h = [n \in 0..(k + l) |-> w(n)] /\ \A n \in 0..(k + l) : h[n] = w(n)
    OBVIOUS
  <2> HIDE DEF h, w
  <2> QED BY <1>7, <2>1
<1>9. \A n \in 1..(k + l) : h[n] = F[<<h[n - 1], u[n]>>]
  <2> TAKE n \in 1..(k + l)
  <2>1. CASE n \in 1..k
    <3>1. n \in 0..k /\ n - 1 \in 0..k
      BY <1>3, <2>1
    <3> HIDE DEF h
    <3> QED BY <1>4, <1>5, <1>6, <2>1, <3>1
  <2>2. CASE n \notin 1..k
    <3> DEFINE m == n - k
    <3>1. m \in 1..l /\ m \in 0..l /\ m - 1 \in 0..l /\ n = k + m /\ n - 1 = k + (m - 1)
      BY <1>3, <2>2
    <3> HIDE DEF h, m
    <3> QED BY <1>4, <1>5, <1>6, <3>1
  <2> QED BY <2>1, <2>2
<1>10. h[0] = a /\ h[k + l] = c
  <2>1. 0 \in 0..k /\ l \in 0..l
    BY <1>3
  <2> HIDE DEF h
  <2> QED BY <1>5, <1>6, <2>1
<1>11. IsRun(S, F, a, u, h) /\ h[Len(u)] = c
  <2> HIDE DEF h
  <2> QED BY <1>3, <1>8, <1>9, <1>10 DEF IsRun
<1>12. RunsTo(S, F, a, u, c)
  <2> HIDE DEF h
  <2> QED BY <1>11 DEF RunsTo
<1> QED BY <1>12 DEF u

\* A run has one end.
LEMMA RunsAgree ==
  ASSUME NEW S, NEW E, NEW F, NEW s \in Seq(E), NEW a, NEW b, NEW c,
         RunsTo(S, F, a, s, b), RunsTo(S, F, a, s, c)
  PROVE  b = c
<1>1. PICK f : IsRun(S, F, a, s, f) /\ f[Len(s)] = b
  BY DEF RunsTo
<1>2. PICK g : IsRun(S, F, a, s, g) /\ g[Len(s)] = c
  BY DEF RunsTo
<1> DEFINE Good == {n \in 0..Len(s) : f[n] = g[n]}
<1>3. Len(s) \in Nat
  OBVIOUS
<1>4. 0 \in Good
  BY <1>1, <1>2, <1>3 DEF IsRun
<1>5. ASSUME NEW n \in 1..Len(s), n - 1 \in Good PROVE n \in Good
  <2>1. n \in 0..Len(s) /\ f[n - 1] = g[n - 1]
    BY <1>3, <1>5
  <2>2. f[n] = F[<<f[n - 1], s[n]>>] /\ g[n] = F[<<g[n - 1], s[n]>>]
    BY <1>1, <1>2 DEF IsRun
  <2> QED BY <2>1, <2>2
<1>6. \A n \in 0..Len(s) : n \in Good
  <2> HIDE DEF Good
  <2> QED BY <1>3, <1>4, <1>5, UpTo
<1>7. Len(s) \in 0..Len(s)
  BY <1>3
<1> QED BY <1>1, <1>2, <1>6, <1>7

\* Two states that the first element takes to the same one.
LEMMA RunsJoin ==
  ASSUME NEW S, NEW E, NEW F, NEW s \in Seq(E), s # <<>>, NEW a, NEW b \in S, NEW c,
         RunsTo(S, F, a, s, c), F[<<b, s[1]>>] = F[<<a, s[1]>>]
  PROVE  RunsTo(S, F, b, s, c)
<1>1. PICK f : IsRun(S, F, a, s, f) /\ f[Len(s)] = c
  BY DEF RunsTo
<1> DEFINE L == Len(s)
           h == [n \in 0..L |-> IF n = 0 THEN b ELSE f[n]]
<1>2. L \in Nat /\ L # 0
  BY EmptySeq
<1> HIDE DEF L
<1>3. \A n \in 1..L : n \in 0..L /\ n - 1 \in 0..L /\ n # 0
  BY <1>2
<1>4. f \in [0..L -> S] /\ f[0] = a /\ \A n \in 1..L : f[n] = F[<<f[n - 1], s[n]>>]
  BY <1>1 DEF IsRun, L
<1>5. h[0] = b /\ (\A n \in 1..L : h[n] = f[n]) /\ h \in [0..L -> S]
  <2>1. 0 \in 0..L
    BY <1>2
  <2> QED BY <1>3, <1>4, <2>1
<1> HIDE DEF h
<1>6. \A n \in 1..L : h[n] = F[<<h[n - 1], s[n]>>]
  <2> TAKE n \in 1..L
  <2>1. CASE n = 1
    BY <1>4, <1>5, <2>1
  <2>2. CASE n # 1
    <3>1. n - 1 \in 1..L
      BY <1>2, <2>2
    <3> QED BY <1>4, <1>5, <3>1
  <2> QED BY <2>1, <2>2
<1>7. h[L] = c
  <2>1. L \in 1..L
    BY <1>2
  <2> QED BY <1>1, <1>5, <2>1 DEF L
<1> QED BY <1>5, <1>6, <1>7 DEF IsRun, RunsTo, L

\* A run of which the states are given.
LEMMA StatesRun ==
  ASSUME NEW S, NEW E, NEW F, NEW t \in Seq(E), NEW x,
         \A k \in 0..Len(t) : x[k] \in S,
         \A k \in 1..Len(t) : F[<<x[k - 1], t[k]>>] = x[k]
  PROVE  RunsTo(S, F, x[0], t, x[Len(t)])
<1> DEFINE L == Len(t)
           run == [k \in 0..L |-> x[k]]
<1>1. L \in Nat
  OBVIOUS
<1> HIDE DEF L
<1>2. (\A k \in 0..L : x[k] \in S) /\ \A k \in 1..L : F[<<x[k - 1], t[k]>>] = x[k]
  BY DEF L
<1>3. \A k \in 0..L : run[k] = x[k]
  OBVIOUS
<1>4. run \in [0..L -> S]
  BY <1>2
<1> HIDE DEF run
<1>5. 0 \in 0..L /\ L \in 0..L /\ \A k \in 1..L : k \in 0..L /\ k - 1 \in 0..L
  BY <1>1
<1>6. run[0] = x[0] /\ run[L] = x[L] /\ \A k \in 1..L : run[k] = F[<<run[k - 1], t[k]>>]
  BY <1>2, <1>3, <1>5
<1> QED BY <1>4, <1>6 DEF IsRun, RunsTo, L
=============================================================================
