-------------------------------- MODULE Sums --------------------------------
(***************************************************************************)
(* Facts about SumFunctionOnSet(q, S), the fold of q with + over a finite  *)
(* set S, which the histories of quantities are stated with.               *)
(*                                                                         *)
(* The fold takes the elements of S in an order that CHOOSE fixes.  The    *)
(* facts say that the order does not matter, and what one element more or  *)
(* less does to the sum.  They are proved by taking a least set that       *)
(* refutes them, because induction itself takes an operator as parameter.  *)
(***************************************************************************)
EXTENDS Functions, FiniteSetTheorems, TLAPS

\* q has a number for every element of S, or a quantity.
Numbers(q, S) == \A x \in S : q[x] \in Int
Amounts(q, S) == \A x \in S : q[x] \in Nat

\* A function on the subsets of S that adds up q, in whatever order.
Additive(h, q, S) ==
    /\ h \in [SUBSET S -> Int]
    /\ h[{}] = 0
    /\ \A s \in SUBSET S : \A x \in s : h[s] = q[x] + h[s \ {x}]

\* Among subsets of a finite set there is a least one, in the sense that none
\* of the others is a part of it.
LEMMA LeastSet ==
    ASSUME NEW S, IsFiniteSet(S), NEW C, C \subseteq SUBSET S, C # {}
    PROVE  \E m \in C : \A c \in C : c \subseteq m => c = m
<1>1. IsWellFoundedOn(StrictSubsetOrdering(S), FiniteSubsetsOf(S))
  BY FS_StrictSubsetOrderingWellFounded
<1>2. FiniteSubsetsOf(S) = SUBSET S
  BY FS_FiniteSubsetsOfFinite
<1>3. PICK m \in C : \A c \in C : ~(<<c, m>> \in StrictSubsetOrdering(S))
  BY <1>1, <1>2, WFMin
<1>4. ASSUME NEW c \in C, c \subseteq m PROVE c = m
  <2>1. <<c, m>> \in (SUBSET S) \X (SUBSET S)
    OBVIOUS
  <2>2. <<c, m>>[1] = c /\ <<c, m>>[2] = m
    OBVIOUS
  <2> QED BY <1>3, <1>4, <2>1, <2>2 DEF StrictSubsetOrdering
<1> QED BY <1>4

\* The sums over the subsets without x give those over the subsets with it.
LEMMA AdditiveExtends ==
    ASSUME NEW m, NEW x \in m, NEW q, Numbers(q, m),
           NEW h, Additive(h, q, m \ {x})
    PROVE  \E g : Additive(g, q, m)
<1> DEFINE n == m \ {x}
           g == [s \in SUBSET m |-> IF x \in s THEN q[x] + h[s \ {x}] ELSE h[s]]
<1>1. /\ q[x] \in Int
      /\ \A s \in SUBSET m : s \ {x} \in SUBSET n /\ (x \notin s => s \in SUBSET n)
  BY DEF Numbers
<1>2. \A s \in SUBSET n : h[s] \in Int
  BY DEF Additive
<1>3. g \in [SUBSET m -> Int]
  BY <1>1, <1>2
<1>4. g[{}] = 0
  BY DEF Additive
<1>5. \A s \in SUBSET m : g[s] = IF x \in s THEN q[x] + h[s \ {x}] ELSE h[s]
  OBVIOUS
<1> HIDE DEF g
<1>6. ASSUME NEW s \in SUBSET m, NEW y \in s PROVE g[s] = q[y] + g[s \ {y}]
  <2>0. q[y] \in Int
    BY DEF Numbers
  <2>1. CASE x \notin s
    <3>1. s \in SUBSET n /\ s \ {y} \in SUBSET m /\ x \notin s \ {y}
      BY <1>1, <2>1
    <3>2. h[s] = q[y] + h[s \ {y}]
      BY <3>1 DEF Additive
    <3> QED BY <1>5, <2>1, <3>1, <3>2
  <2>2. CASE x \in s /\ y = x
    <3>1. s \ {x} \in SUBSET m /\ x \notin s \ {x}
      OBVIOUS
    <3> QED BY <1>5, <2>2, <3>1
  <2>3. CASE x \in s /\ y # x
    <3>1. s \ {x} \in SUBSET n /\ y \in s \ {x} /\ s \ {y} \in SUBSET m /\ x \in s \ {y}
      BY <1>1, <2>3
    <3>2. h[s \ {x}] = q[y] + h[(s \ {x}) \ {y}]
      BY <3>1 DEF Additive
    <3>3. (s \ {x}) \ {y} = (s \ {y}) \ {x} /\ (s \ {y}) \ {x} \in SUBSET n
      BY <3>1
    <3>4. g[s] = q[x] + h[s \ {x}] /\ g[s \ {y}] = q[x] + h[(s \ {y}) \ {x}]
      BY <1>5, <2>3, <3>1
    <3>5. h[(s \ {y}) \ {x}] \in Int
      BY <1>2, <3>3
    <3>6. h[s \ {x}] = q[y] + h[(s \ {y}) \ {x}]
      BY <3>2, <3>3
    <3>7. \A a, b, c \in Int : a + (b + c) = b + (a + c)
      OBVIOUS
    <3> QED BY <1>1, <2>0, <3>4, <3>5, <3>6, <3>7
  <2> QED BY <2>1, <2>2, <2>3
<1> QED BY <1>3, <1>4, <1>6 DEF Additive

\* The quantities of a finite set can be added up in an order that does not
\* matter.
LEMMA AdditiveExists ==
    ASSUME NEW S, IsFiniteSet(S), NEW q, Numbers(q, S)
    PROVE  \E h : Additive(h, q, S)
<1> DEFINE Bad == {t \in SUBSET S : ~ \E h : Additive(h, q, t)}
<1>0. /\ Bad \subseteq SUBSET S
      /\ \A t \in SUBSET S : t \notin Bad => \E h : Additive(h, q, t)
      /\ \A t \in Bad : ~ \E h : Additive(h, q, t)
  OBVIOUS
<1> HIDE DEF Bad
<1> SUFFICES ASSUME Bad # {} PROVE FALSE
  BY <1>0
<1>1. PICK m \in Bad : \A c \in Bad : c \subseteq m => c = m
  BY <1>0, LeastSet
<1>2. CASE m = {}
  <2> DEFINE z == [s \in SUBSET {} |-> 0]
  <2>1. Additive(z, q, {})
    BY DEF Additive
  <2> QED BY <1>0, <1>1, <1>2, <2>1
<1>3. CASE m # {}
  <2>1. PICK x : x \in m
    BY <1>3
  <2>2. m \ {x} \in SUBSET S /\ m \ {x} # m /\ m \ {x} \subseteq m
    BY <1>0, <1>1, <2>1
  <2>3. PICK h : Additive(h, q, m \ {x})
    BY <1>0, <1>1, <2>2
  <2>4. Numbers(q, m)
    BY <1>0, <1>1 DEF Numbers
  <2>5. \E g : Additive(g, q, m)
    BY <2>1, <2>3, <2>4, AdditiveExtends
  <2> QED BY <1>0, <1>1, <2>5
<1> QED BY <1>2, <1>3

\* The fold is the sum in any order.
LEMMA SumIs ==
    ASSUME NEW S, IsFiniteSet(S), NEW q, NEW h, Additive(h, q, S)
    PROVE  SumFunctionOnSet(q, S) = h[S]
<1> DEFINE pick(s) == CHOOSE x \in s : TRUE
           step(g) == [s \in SUBSET S |-> IF s = {} THEN 0 ELSE q[pick(s)] + g[s \ {pick(s)}]]
           g == CHOOSE f : f = step(f)
<1>0. \A s : s # {} => pick(s) \in s
  OBVIOUS
<1>1. SumFunctionOnSet(q, S) = g[S]
  BY DEF SumFunctionOnSet, FoldFunctionOnSet, MapThenFoldSet
<1>2. h = step(h)
  <2>1. \A s \in SUBSET S : h[s] = IF s = {} THEN 0 ELSE q[pick(s)] + h[s \ {pick(s)}]
    BY <1>0 DEF Additive
  <2>2. h = [s \in SUBSET S |-> h[s]]
    BY DEF Additive
  <2> HIDE DEF pick
  <2> QED BY <2>1, <2>2
<1>3. g = step(g)
  <2> HIDE DEF step
  <2> QED BY <1>2
<1> HIDE DEF g
<1>4. \A s \in SUBSET S :
        /\ g[s] = IF s = {} THEN 0 ELSE q[pick(s)] + g[s \ {pick(s)}]
        /\ h[s] = IF s = {} THEN 0 ELSE q[pick(s)] + h[s \ {pick(s)}]
  <2> HIDE DEF pick
  <2> QED BY <1>2, <1>3
<1> HIDE DEF pick
<1> DEFINE Bad == {s \in SUBSET S : g[s] # h[s]}
<1>5. Bad \subseteq SUBSET S /\ \A s \in SUBSET S : s \in Bad <=> g[s] # h[s]
  OBVIOUS
<1> HIDE DEF Bad
<1>6. Bad = {}
  <2> SUFFICES ASSUME Bad # {} PROVE FALSE
    OBVIOUS
  <2>1. PICK m \in Bad : \A c \in Bad : c \subseteq m => c = m
    BY <1>5, LeastSet
  <2>2. m # {}
    BY <1>4, <1>5, <2>1
  <2>3. m \ {pick(m)} \in SUBSET S /\ m \ {pick(m)} \subseteq m /\ m \ {pick(m)} # m
    BY <1>0, <1>5, <2>1, <2>2
  <2>4. m \ {pick(m)} \notin Bad
    BY <2>1, <2>3
  <2> QED BY <1>4, <1>5, <2>1, <2>2, <2>3, <2>4
<1> QED BY <1>1, <1>5, <1>6

-----------------------------------------------------------------------------
\* A sum of numbers is a number.
LEMMA SumInt ==
    ASSUME NEW S, IsFiniteSet(S), NEW q, Numbers(q, S)
    PROVE  SumFunctionOnSet(q, S) \in Int
<1>1. PICK h : Additive(h, q, S)
  BY AdditiveExists
<1>2. h[S] \in Int
  BY <1>1 DEF Additive
<1> QED BY <1>1, <1>2, SumIs

\* Nothing adds up to nothing.
LEMMA SumEmpty ==
    ASSUME NEW q
    PROVE  SumFunctionOnSet(q, {}) = 0
<1>1. IsFiniteSet({}) /\ Numbers(q, {})
  BY FS_EmptySet DEF Numbers
<1>2. PICK h : Additive(h, q, {})
  BY <1>1, AdditiveExists
<1>3. SumFunctionOnSet(q, {}) = h[{}]
  BY <1>1, <1>2, SumIs
<1> QED BY <1>2, <1>3 DEF Additive

\* Sums over the parts of a set are values of one function.
LEMMA SumParts ==
    ASSUME NEW S, IsFiniteSet(S), NEW q, NEW h, Additive(h, q, S), NEW T \in SUBSET S
    PROVE  SumFunctionOnSet(q, T) = h[T]
<1> DEFINE g == [s \in SUBSET T |-> h[s]]
<1>1. Additive(g, q, T)
  <2>1. \A s \in SUBSET T : s \in SUBSET S /\ g[s] = h[s] /\ \A x \in s : s \ {x} \in SUBSET T
    OBVIOUS
  <2>2. g \in [SUBSET T -> Int]
    BY <2>1 DEF Additive
  <2>3. g[{}] = 0
    BY DEF Additive
  <2>4. ASSUME NEW s \in SUBSET T, NEW x \in s PROVE g[s] = q[x] + g[s \ {x}]
    <3>1. h[s] = q[x] + h[s \ {x}]
      BY <2>1 DEF Additive
    <3> QED BY <2>1, <3>1
  <2> HIDE DEF g
  <2> QED BY <2>2, <2>3, <2>4 DEF Additive
<1>2. IsFiniteSet(T)
  BY FS_Subset
<1>3. g[T] = h[T]
  OBVIOUS
<1> HIDE DEF g
<1> QED BY <1>1, <1>2, <1>3, SumIs

\* One element less.
LEMMA SumRemove ==
    ASSUME NEW S, IsFiniteSet(S), NEW q, Numbers(q, S), NEW x \in S
    PROVE  SumFunctionOnSet(q, S) = q[x] + SumFunctionOnSet(q, S \ {x})
<1>1. PICK h : Additive(h, q, S)
  BY AdditiveExists
<1>2. S \in SUBSET S /\ S \ {x} \in SUBSET S
  OBVIOUS
<1>3. SumFunctionOnSet(q, S) = h[S] /\ SumFunctionOnSet(q, S \ {x}) = h[S \ {x}]
  BY <1>1, <1>2, SumParts
<1> QED BY <1>1, <1>2, <1>3 DEF Additive

\* One element more.
LEMMA SumAdd ==
    ASSUME NEW S, IsFiniteSet(S), NEW x, x \notin S, NEW q, Numbers(q, S \cup {x})
    PROVE  SumFunctionOnSet(q, S \cup {x}) = q[x] + SumFunctionOnSet(q, S)
<1>1. IsFiniteSet(S \cup {x})
  BY FS_AddElement
<1>2. x \in S \cup {x} /\ (S \cup {x}) \ {x} = S
  OBVIOUS
<1>3. SumFunctionOnSet(q, S \cup {x}) = q[x] + SumFunctionOnSet(q, (S \cup {x}) \ {x})
  BY <1>1, <1>2, SumRemove
<1> QED BY <1>2, <1>3

\* Numbers elsewhere do not count.
LEMMA SumAgrees ==
    ASSUME NEW S, IsFiniteSet(S), NEW q, Numbers(q, S), NEW r,
           \A x \in S : r[x] = q[x]
    PROVE  SumFunctionOnSet(r, S) = SumFunctionOnSet(q, S)
<1>1. PICK h : Additive(h, q, S)
  BY AdditiveExists
<1>2. Additive(h, r, S)
  BY <1>1 DEF Additive
<1> QED BY <1>1, <1>2, SumIs

\* A part does not add up to more than the whole.
LEMMA SumMonotone ==
    ASSUME NEW S, IsFiniteSet(S), NEW q, Amounts(q, S), NEW T \in SUBSET S
    PROVE  SumFunctionOnSet(q, T) <= SumFunctionOnSet(q, S)
<1>0. Numbers(q, S)
  BY DEF Amounts, Numbers
<1>1. PICK h : Additive(h, q, S)
  BY <1>0, AdditiveExists
<1> DEFINE Bad == {s \in SUBSET S : T \subseteq s /\ ~(h[T] <= h[s])}
<1>2. /\ Bad \subseteq SUBSET S
      /\ \A s \in SUBSET S : T \subseteq s => (s \in Bad <=> ~(h[T] <= h[s]))
      /\ \A s \in Bad : T \subseteq s
  OBVIOUS
<1> HIDE DEF Bad
<1>3. Bad = {}
  <2> SUFFICES ASSUME Bad # {} PROVE FALSE
    OBVIOUS
  <2>1. PICK m \in Bad : \A c \in Bad : c \subseteq m => c = m
    BY <1>2, LeastSet
  <2>2. T # m /\ T \subseteq m /\ m \in SUBSET S
    <3>1. h[T] \in Int
      BY <1>1 DEF Additive
    <3> QED BY <1>2, <2>1, <3>1
  <2>3. PICK x \in m : x \notin T
    BY <2>2
  <2> DEFINE n == m \ {x}
  <2>4. n \in SUBSET S /\ T \subseteq n /\ n # m /\ n \subseteq m
    BY <2>2, <2>3
  <2>5. h[T] <= h[n]
    BY <1>2, <2>1, <2>4
  <2>6. h[m] = q[x] + h[n] /\ q[x] \in Nat /\ h[n] \in Int /\ h[T] \in Int
    BY <1>1, <2>2, <2>3, <2>4 DEF Additive, Amounts
  <2>7. h[T] <= h[m]
    <3> HIDE DEF n
    <3> QED BY <2>5, <2>6
  <2> QED BY <1>2, <2>1, <2>2, <2>7
<1>4. SumFunctionOnSet(q, T) = h[T] /\ SumFunctionOnSet(q, S) = h[S]
  BY <1>1, SumParts
<1> QED BY <1>2, <1>3, <1>4

\* A sum of quantities is a quantity.
LEMMA SumNat ==
    ASSUME NEW S, IsFiniteSet(S), NEW q, Amounts(q, S)
    PROVE  SumFunctionOnSet(q, S) \in Nat
<1>1. Numbers(q, S) /\ {} \in SUBSET S
  BY DEF Amounts, Numbers
<1>2. SumFunctionOnSet(q, {}) <= SumFunctionOnSet(q, S)
  BY <1>1, SumMonotone
<1>3. SumFunctionOnSet(q, S) \in Int
  BY <1>1, SumInt
<1> QED BY <1>2, <1>3, SumEmpty
=============================================================================
