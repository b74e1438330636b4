------------------------------ MODULE SumProofs ------------------------------
(* Sums over finite sets, the operator SumFunctionOnSet the books, totals    *)
(* and pools of the other modules are stated with: how a sum changes with    *)
(* one of its terms.  The proofs go by the least set for which a statement   *)
(* fails, as strict inclusion of finite sets is well-founded.                *)
EXTENDS Functions, WellFoundedInduction, FiniteSetTheorems, TLAPS

(* A set of subsets of a finite set has a least one.                         *)
LEMMA LeastSet ==
  ASSUME NEW S, IsFiniteSet(S), NEW T \in SUBSET (SUBSET S), T # {}
  PROVE  \E m \in T : \A n \in T : n \subseteq m => n = m
<1>1. \A s \in T : s \in FiniteSubsetsOf(S)
  BY FS_Subset DEF FiniteSubsetsOf
<1>2. PICK m \in T : \A n \in T : ~(<<n, m>> \in StrictSubsetOrdering(S))
  BY <1>1, WFMin, FS_StrictSubsetOrderingWellFounded
<1> QED
  BY <1>2 DEF StrictSubsetOrdering

(* How the folds go through a set: g holds the sum, the product, or what     *)
(* else is made of f, over each subset.                                      *)
Pick(s) == CHOOSE x \in s : TRUE

Adding == [by |-> "sum"]

Multiplying == [by |-> "product"]

Stepping(base, step) == [by |-> "step", base |-> base, step |-> step]

FoldBase(kind) == IF kind.by = "sum" THEN 0 ELSE IF kind.by = "product" THEN 1 ELSE kind.base

Combined(kind, x, y) ==
  IF kind.by = "sum" THEN x + y ELSE IF kind.by = "product" THEN y * x ELSE kind.step[<<x, y>>]

FoldStep(kind, f, g, s) ==
  IF s = {} THEN FoldBase(kind) ELSE Combined(kind, f[Pick(s)], g[s \ {Pick(s)}])

FoldsTo(kind, f, S, g) == g = [s \in SUBSET S |-> FoldStep(kind, f, g, s)]

LEMMA PickIn == \A s : s # {} => Pick(s) \in s
  BY DEF Pick

(* Two such functions agree where both are defined.                          *)
SameTerms(S, T, f, e) == IsFiniteSet(S) /\ T \subseteq S /\ \A x \in T : f[x] = e[x]

LEMMA FoldsUnique ==
  ASSUME NEW kind, NEW S, NEW T, NEW f, NEW e, SameTerms(S, T, f, e),
         NEW g, FoldsTo(kind, f, S, g), NEW h, FoldsTo(kind, e, T, h)
  PROVE  \A s \in SUBSET T : g[s] = h[s]
<1> USE DEF SameTerms
<1> DEFINE Bad == {s \in SUBSET T : g[s] # h[s]}
<1>1. SUFFICES ASSUME Bad # {}
               PROVE  FALSE
  OBVIOUS
<1>2. PICK m \in Bad : \A n \in Bad : n \subseteq m => n = m
  <2>1. Bad \in SUBSET (SUBSET S)
    OBVIOUS
  <2> HIDE DEF Bad
  <2> QED
    BY <1>1, <2>1, LeastSet
<1>3. g[m] = FoldStep(kind, f, g, m) /\ h[m] = FoldStep(kind, e, h, m)
  BY DEF FoldsTo
<1>4. m # {}
  BY <1>3 DEF FoldStep
<1>5. Pick(m) \in m
  BY <1>4, PickIn
<1>6. m \ {Pick(m)} \notin Bad
  BY <1>2, <1>5
<1>7. g[m \ {Pick(m)}] = h[m \ {Pick(m)}]
  BY <1>6
<1>8. FoldStep(kind, f, g, m) = FoldStep(kind, e, h, m)
  BY <1>4, <1>5, <1>7 DEF FoldStep
<1> QED
  BY <1>3, <1>8

(* There is one over every finite set.                                       *)
LEMMA FoldsExist ==
  ASSUME NEW kind, NEW S, IsFiniteSet(S), NEW f
  PROVE  \E g : FoldsTo(kind, f, S, g)
<1> DEFINE Bad == {t \in SUBSET S : ~ \E g : FoldsTo(kind, f, t, g)}
           G(t) == CHOOSE g : FoldsTo(kind, f, t, g)
           Rest(s) == G(s \ {Pick(s)})[s \ {Pick(s)}]
           Value(s) == IF s = {} THEN FoldBase(kind) ELSE Combined(kind, f[Pick(s)], Rest(s))
<1>1. SUFFICES ASSUME Bad # {}
               PROVE  FALSE
  OBVIOUS
<1>2. PICK m \in Bad : \A n \in Bad : n \subseteq m => n = m
  <2>1. Bad \in SUBSET (SUBSET S)
    OBVIOUS
  <2> HIDE DEF Bad
  <2> QED
    BY <1>1, <2>1, LeastSet
<1>3. \A t \in SUBSET m : t # m => FoldsTo(kind, f, t, G(t)) /\ IsFiniteSet(t)
  <2>1. \A t \in SUBSET m : t # m => \E g : FoldsTo(kind, f, t, g)
    BY <1>2
  <2>2. \A t \in SUBSET m : IsFiniteSet(t)
    BY FS_Subset
  <2> QED
    BY <2>1, <2>2
<1> DEFINE g == [s \in SUBSET m |-> Value(s)]
<1>4. ASSUME NEW t \in SUBSET m, t # m
      PROVE  g[t] = G(t)[t]
  <2>1. G(t)[t] = FoldStep(kind, f, G(t), t)
    <3>1. FoldsTo(kind, f, t, G(t)) /\ t \in SUBSET t
      BY <1>3, <1>4
    <3> HIDE DEF G
    <3> QED
      BY <3>1 DEF FoldsTo
  <2>2. CASE t = {}
    BY <2>1, <2>2 DEF FoldStep
  <2>3. CASE t # {}
    <3> DEFINE u == t \ {Pick(t)}
    <3>1. u \in SUBSET t /\ u \in SUBSET m /\ u # m /\ u \in SUBSET u
      BY <1>4
    <3>2. /\ FoldsTo(kind, f, t, G(t)) /\ IsFiniteSet(t)
          /\ FoldsTo(kind, f, u, G(u))
      BY <1>3, <1>4, <3>1
    <3>3. G(t)[u] = G(u)[u]
      <4> HIDE DEF G, u
      <4>1. SameTerms(t, u, f, f)
        BY <3>1, <3>2 DEF SameTerms
      <4> QED
        BY <3>1, <3>2, <4>1, FoldsUnique
    <3>4. FoldStep(kind, f, G(t), t) = Combined(kind, f[Pick(t)], G(t)[u])
      BY <2>3 DEF FoldStep
    <3>5. g[t] = Combined(kind, f[Pick(t)], G(u)[u])
      BY <2>3
    <3> QED
      BY <2>1, <3>3, <3>4, <3>5
  <2> QED
    BY <2>2, <2>3
<1>5. ASSUME NEW s \in SUBSET m
      PROVE  g[s] = FoldStep(kind, f, g, s)
  <2>1. CASE s = {}
    BY <2>1 DEF FoldStep
  <2>2. CASE s # {}
    <3> DEFINE u == s \ {Pick(s)}
    <3>1. u \in SUBSET m /\ u # m
      BY <2>2, PickIn
    <3>2. g[u] = G(u)[u]
      BY <3>1, <1>4
    <3>3. g[s] = Combined(kind, f[Pick(s)], G(u)[u])
      BY <2>2
    <3>4. FoldStep(kind, f, g, s) = Combined(kind, f[Pick(s)], g[u])
      BY <2>2 DEF FoldStep
    <3> QED
      BY <3>2, <3>3, <3>4
  <2> QED
    BY <2>1, <2>2
<1>6. FoldsTo(kind, f, m, g)
  <2>1. g = [s \in SUBSET m |-> g[s]]
    OBVIOUS
  <2> HIDE DEF g
  <2> QED
    BY <1>5, <2>1 DEF FoldsTo
<1> QED
  BY <1>6

Sums(f, S, g) == g = [s \in SUBSET S |-> IF s = {} THEN 0 ELSE f[Pick(s)] + g[s \ {Pick(s)}]]

LEMMA SumsFold == \A f, S, g : Sums(f, S, g) <=> FoldsTo(Adding, f, S, g)
<1>1. \A f, g, s : FoldStep(Adding, f, g, s) = IF s = {} THEN 0 ELSE f[Pick(s)] + g[s \ {Pick(s)}]
  BY DEF FoldStep, FoldBase, Combined, Adding
<1> SUFFICES ASSUME NEW f, NEW S, NEW g PROVE Sums(f, S, g) <=> FoldsTo(Adding, f, S, g)
  OBVIOUS
<1>3. PICK h, e : h = [s \in SUBSET S |-> FoldStep(Adding, f, g, s)]
              /\ e = [s \in SUBSET S |-> IF s = {} THEN 0 ELSE f[Pick(s)] + g[s \ {Pick(s)}]]
  OBVIOUS
<1>4. (Sums(f, S, g) <=> g = e) /\ (FoldsTo(Adding, f, S, g) <=> g = h)
  <2>1. Sums(f, S, g) <=> g = e
    BY <1>3, Zenon DEF Sums
  <2>2. FoldsTo(Adding, f, S, g) <=> g = h
    BY <1>3, Zenon DEF FoldsTo
  <2> QED
    BY <2>1, <2>2
<1>5. h = e
  <2>1. DOMAIN h = SUBSET S /\ DOMAIN e = SUBSET S /\ \A s \in SUBSET S : h[s] = e[s]
    BY <1>1, <1>3
  <2>2. h = [s \in SUBSET S |-> h[s]] /\ e = [s \in SUBSET S |-> e[s]]
    BY <1>3, <2>1, Zenon
  <2> QED
    BY <2>1, <2>2, Zenon
<1> QED
  BY <1>4, <1>5

LEMMA SumsUnique ==
  ASSUME NEW S, IsFiniteSet(S), NEW T \in SUBSET S, NEW f, NEW e,
         \A x \in T : f[x] = e[x],
         NEW g, Sums(f, S, g), NEW h, Sums(e, T, h)
  PROVE  \A s \in SUBSET T : g[s] = h[s]
<1>1. FoldsTo(Adding, f, S, g) /\ FoldsTo(Adding, e, T, h)
  BY SumsFold
<1>2. SameTerms(S, T, f, e)
  BY DEF SameTerms
<1> QED
  BY <1>1, <1>2, FoldsUnique

LEMMA SumsExist ==
  ASSUME NEW S, IsFiniteSet(S), NEW f
  PROVE  \E g : Sums(f, S, g)
<1>1. \E g : FoldsTo(Adding, f, S, g)
  BY FoldsExist
<1> QED
  BY <1>1, SumsFold

(* The sum over a set is read off any of them.                               *)
LEMMA SumIs ==
  ASSUME NEW S, IsFiniteSet(S), NEW f, NEW g, Sums(f, S, g)
  PROVE  SumFunctionOnSet(f, S) = g[S]
<1> DEFINE h == CHOOSE e : Sums(f, S, e)
<1>1. SumFunctionOnSet(f, S) = h[S]
  BY DEF SumFunctionOnSet, FoldFunctionOnSet, MapThenFoldSet, Sums, Pick
<1>2. Sums(f, S, h)
  OBVIOUS
<1> HIDE DEF h
<1>3. S \in SUBSET S
  OBVIOUS
<1> QED
  BY <1>1, <1>2, <1>3, SumsUnique

(* One term after the other.                                                 *)
LEMMA SumPick ==
  ASSUME NEW S, IsFiniteSet(S), NEW f
  PROVE  SumFunctionOnSet(f, S) =
           IF S = {} THEN 0
           ELSE f[Pick(S)] + SumFunctionOnSet(f, S \ {Pick(S)})
<1> DEFINE T == S \ {Pick(S)}
<1>1. PICK g : Sums(f, S, g)
  BY SumsExist
<1>2. IsFiniteSet(T) /\ T \in SUBSET S
  BY FS_Subset
<1>3. PICK h : Sums(f, T, h)
  BY <1>2, SumsExist
<1>4. SumFunctionOnSet(f, S) = g[S] /\ SumFunctionOnSet(f, T) = h[T]
  BY <1>1, <1>2, <1>3, SumIs
<1>5. g[T] = h[T]
  <2> HIDE DEF T
  <2> QED
    BY <1>1, <1>2, <1>3, SumsUnique
<1>6. g[S] = IF S = {} THEN 0 ELSE f[Pick(S)] + g[T]
  BY <1>1 DEF Sums
<1> QED
  BY <1>4, <1>5, <1>6

(* Nothing sums up to 0.                                                     *)
LEMMA SumOfNothing == \A f : SumFunctionOnSet(f, {}) = 0
  BY SumPick, FS_EmptySet

(* A sum of integers is one.                                                 *)
LEMMA SumIsInt ==
  ASSUME NEW S, IsFiniteSet(S), NEW f, \A x \in S : f[x] \in Int
  PROVE  SumFunctionOnSet(f, S) \in Int
<1> DEFINE Bad == {s \in SUBSET S : SumFunctionOnSet(f, s) \notin Int}
<1>1. SUFFICES ASSUME Bad # {}
               PROVE  FALSE
  BY S \in SUBSET S
<1>2. PICK m \in Bad : \A n \in Bad : n \subseteq m => n = m
  <2>1. Bad \in SUBSET (SUBSET S)
    OBVIOUS
  <2> HIDE DEF Bad
  <2> QED
    BY <1>1, <2>1, LeastSet
<1>3. IsFiniteSet(m) /\ m \in SUBSET S /\ SumFunctionOnSet(f, m) \notin Int
  BY FS_Subset
<1>4. m # {}
  BY <1>3, SumOfNothing
<1>5. Pick(m) \in m
  BY <1>4, PickIn
<1>6. m \ {Pick(m)} \notin Bad
  BY <1>2, <1>5
<1>7. SumFunctionOnSet(f, m \ {Pick(m)}) \in Int
  BY <1>3, <1>6
<1>8. SumFunctionOnSet(f, m) = f[Pick(m)] + SumFunctionOnSet(f, m \ {Pick(m)})
  BY <1>3, <1>4, SumPick
<1> QED
  BY <1>3, <1>5, <1>7, <1>8

(* The terms may be taken in any order.                                      *)
LEMMA SumWithout ==
  ASSUME NEW S, IsFiniteSet(S), NEW f, \A x \in S : f[x] \in Int, NEW y \in S
  PROVE  SumFunctionOnSet(f, S) = f[y] + SumFunctionOnSet(f, S \ {y})
<1> DEFINE Sum(s) == SumFunctionOnSet(f, s)
           Bad == {s \in SUBSET S : \E x \in s : Sum(s) # f[x] + Sum(s \ {x})}
<1>1. SUFFICES ASSUME Bad # {}
               PROVE  FALSE
  BY S \in SUBSET S
<1>2. PICK m \in Bad : \A n \in Bad : n \subseteq m => n = m
  <2>1. Bad \in SUBSET (SUBSET S)
    OBVIOUS
  <2> HIDE DEF Bad
  <2> QED
    BY <1>1, <2>1, LeastSet
<1>3. PICK x \in m : Sum(m) # f[x] + Sum(m \ {x})
  OBVIOUS
<1> DEFINE c == Pick(m)
<1>4. c \in m /\ m \in SUBSET S
  BY PickIn
<1>5. \A s \in SUBSET S : IsFiniteSet(s) /\ Sum(s) \in Int
  <2>1. \A s \in SUBSET S : IsFiniteSet(s)
    BY FS_Subset
  <2> QED
    BY <2>1, SumIsInt
<1>6. Sum(m) = f[c] + Sum(m \ {c})
  BY <1>4, <1>5, SumPick
<1>7. c # x
  BY <1>3, <1>6
<1>8. m \ {c} \notin Bad /\ m \ {x} \notin Bad
  BY <1>2, <1>3, <1>4
<1> HIDE DEF c
<1>9. /\ Sum(m \ {c}) = f[x] + Sum((m \ {c}) \ {x})
      /\ Sum(m \ {x}) = f[c] + Sum((m \ {x}) \ {c})
  BY <1>3, <1>4, <1>7, <1>8
<1>10. (m \ {c}) \ {x} = (m \ {x}) \ {c}
  OBVIOUS
<1>11. f[c] \in Int /\ f[x] \in Int /\ Sum((m \ {x}) \ {c}) \in Int
  BY <1>3, <1>4, <1>5
<1> DEFINE rest == Sum((m \ {x}) \ {c})
<1>12. Sum(m \ {c}) = f[x] + rest /\ Sum(m \ {x}) = f[c] + rest
  BY <1>9, <1>10
<1>13. f[c] \in Int /\ f[x] \in Int /\ rest \in Int
  BY <1>11
<1> HIDE DEF Sum, rest
<1> QED
  BY <1>3, <1>6, <1>12, <1>13

(* Only the terms matter.                                                    *)
LEMMA SumSame ==
  ASSUME NEW S, IsFiniteSet(S), NEW f, NEW g, \A x \in S : f[x] = g[x]
  PROVE  SumFunctionOnSet(f, S) = SumFunctionOnSet(g, S)
<1>1. PICK h : Sums(f, S, h)
  BY SumsExist
<1>2. PICK e : Sums(g, S, e)
  BY SumsExist
<1>3. S \in SUBSET S
  OBVIOUS
<1>4. \A s \in SUBSET S : h[s] = e[s]
  BY <1>1, <1>2, <1>3, SumsUnique
<1> QED
  BY <1>1, <1>2, <1>3, <1>4, SumIs

(* One more term.                                                            *)
LEMMA SumWith ==
  ASSUME NEW S, IsFiniteSet(S), NEW f, NEW y, y \notin S,
         \A x \in S \cup {y} : f[x] \in Int
  PROVE  /\ SumFunctionOnSet(f, S \cup {y}) = SumFunctionOnSet(f, S) + f[y]
         /\ SumFunctionOnSet(f, S) \in Int
<1>1. IsFiniteSet(S \cup {y}) /\ (S \cup {y}) \ {y} = S
  BY FS_AddElement
<1>2. SumFunctionOnSet(f, S \cup {y}) = f[y] + SumFunctionOnSet(f, S)
  BY <1>1, SumWithout
<1>3. SumFunctionOnSet(f, S) \in Int
  BY SumIsInt
<1> QED
  BY <1>2, <1>3

(* One term changes.                                                         *)
LEMMA SumChange ==
  ASSUME NEW S, IsFiniteSet(S), NEW f, NEW g, NEW y \in S,
         \A x \in S : f[x] \in Int /\ g[x] \in Int,
         \A x \in S : x # y => g[x] = f[x]
  PROVE  /\ SumFunctionOnSet(g, S) = SumFunctionOnSet(f, S) + (g[y] - f[y])
         /\ SumFunctionOnSet(f, S) \in Int
<1> DEFINE T == S \ {y}
<1>1. IsFiniteSet(T)
  BY FS_RemoveElement
<1>2. SumFunctionOnSet(f, S) = f[y] + SumFunctionOnSet(f, T)
  BY SumWithout
<1>3. SumFunctionOnSet(g, S) = g[y] + SumFunctionOnSet(g, T)
  BY SumWithout
<1>4. SumFunctionOnSet(f, T) = SumFunctionOnSet(g, T)
  BY <1>1, SumSame
<1>5. SumFunctionOnSet(f, T) \in Int
  BY <1>1, SumIsInt
<1> QED
  BY <1>2, <1>3, <1>4, <1>5

(* A sum of noughts is nought.                                               *)
LEMMA SumOfZeros ==
  ASSUME NEW S, IsFiniteSet(S), NEW f, \A x \in S : f[x] = 0
  PROVE  SumFunctionOnSet(f, S) = 0
<1> DEFINE Bad == {s \in SUBSET S : SumFunctionOnSet(f, s) # 0}
<1>1. SUFFICES ASSUME Bad # {}
               PROVE  FALSE
  BY S \in SUBSET S
<1>2. PICK m \in Bad : \A n \in Bad : n \subseteq m => n = m
  <2>1. Bad \in SUBSET (SUBSET S)
    OBVIOUS
  <2> HIDE DEF Bad
  <2> QED
    BY <1>1, <2>1, LeastSet
<1>3. IsFiniteSet(m) /\ m \in SUBSET S /\ SumFunctionOnSet(f, m) # 0
  BY FS_Subset
<1>4. m # {}
  BY <1>3, SumOfNothing
<1>5. Pick(m) \in m
  BY <1>4, PickIn
<1>6. m \ {Pick(m)} \notin Bad
  BY <1>2, <1>5
<1>7. SumFunctionOnSet(f, m \ {Pick(m)}) = 0
  BY <1>3, <1>6
<1>8. SumFunctionOnSet(f, m) = f[Pick(m)] + SumFunctionOnSet(f, m \ {Pick(m)})
  BY <1>3, <1>4, SumPick
<1> QED
  BY <1>3, <1>5, <1>7, <1>8
-----------------------------------------------------------------------------
(* Products over finite sets, the form the return of a bet slip is stated    *)
(* with.                                                                     *)
Products(f, S, g) == g = [s \in SUBSET S |-> IF s = {} THEN 1 ELSE g[s \ {Pick(s)}] * f[Pick(s)]]

Product(f, S) == (CHOOSE g : Products(f, S, g))[S]

LEMMA ProductsFold == \A f, S, g : Products(f, S, g) <=> FoldsTo(Multiplying, f, S, g)
<1>1. \A f, g, s : FoldStep(Multiplying, f, g, s) = IF s = {} THEN 1 ELSE g[s \ {Pick(s)}] * f[Pick(s)]
  BY DEF FoldStep, FoldBase, Combined, Multiplying
<1> SUFFICES ASSUME NEW f, NEW S, NEW g PROVE Products(f, S, g) <=> FoldsTo(Multiplying, f, S, g)
  OBVIOUS
<1>3. PICK h, e : h = [s \in SUBSET S |-> FoldStep(Multiplying, f, g, s)]
              /\ e = [s \in SUBSET S |-> IF s = {} THEN 1 ELSE g[s \ {Pick(s)}] * f[Pick(s)]]
  OBVIOUS
<1>4. (Products(f, S, g) <=> g = e) /\ (FoldsTo(Multiplying, f, S, g) <=> g = h)
  <2>1. Products(f, S, g) <=> g = e
    BY <1>3, Zenon DEF Products
  <2>2. FoldsTo(Multiplying, f, S, g) <=> g = h
    BY <1>3, Zenon DEF FoldsTo
  <2> QED
    BY <2>1, <2>2
<1>5. h = e
  <2>1. DOMAIN h = SUBSET S /\ DOMAIN e = SUBSET S /\ \A s \in SUBSET S : h[s] = e[s]
    BY <1>1, <1>3
  <2>2. h = [s \in SUBSET S |-> h[s]] /\ e = [s \in SUBSET S |-> e[s]]
    BY <1>3, <2>1, Zenon
  <2> QED
    BY <2>1, <2>2, Zenon
<1> QED
  BY <1>4, <1>5

LEMMA ProductsExist ==
  ASSUME NEW S, IsFiniteSet(S), NEW f
  PROVE  \E g : Products(f, S, g)
<1>1. \E g : FoldsTo(Multiplying, f, S, g)
  BY FoldsExist
<1> QED
  BY <1>1, ProductsFold

LEMMA ProductsUnique ==
  ASSUME NEW S, IsFiniteSet(S), NEW T \in SUBSET S, NEW f, NEW e,
         \A x \in T : f[x] = e[x],
         NEW g, Products(f, S, g), NEW h, Products(e, T, h)
  PROVE  \A s \in SUBSET T : g[s] = h[s]
<1>1. FoldsTo(Multiplying, f, S, g) /\ FoldsTo(Multiplying, e, T, h)
  BY ProductsFold
<1>2. SameTerms(S, T, f, e)
  BY DEF SameTerms
<1> QED
  BY <1>1, <1>2, FoldsUnique

LEMMA ProductIs ==
  ASSUME NEW S, IsFiniteSet(S), NEW f, NEW g, Products(f, S, g)
  PROVE  Product(f, S) = g[S]
<1>1. PICK h : h = CHOOSE e : Products(f, S, e)
  OBVIOUS
<1>2. Products(f, S, h) /\ Product(f, S) = h[S]
  BY <1>1, Zenon DEF Product
<1>3. S \in SUBSET S
  OBVIOUS
<1> QED
  BY <1>2, <1>3, ProductsUnique

(* Only the factors matter.                                                  *)
LEMMA ProductSame ==
  ASSUME NEW S, IsFiniteSet(S), NEW f, NEW e, \A x \in S : f[x] = e[x]
  PROVE  Product(f, S) = Product(e, S)
<1>1. PICK g : Products(f, S, g)
  BY ProductsExist
<1>2. PICK h : Products(e, S, h)
  BY ProductsExist
<1>3. S \in SUBSET S
  OBVIOUS
<1>4. \A s \in SUBSET S : g[s] = h[s]
  BY <1>1, <1>2, <1>3, ProductsUnique
<1> QED
  BY <1>1, <1>2, <1>3, <1>4, ProductIs

LEMMA ProductPick ==
  ASSUME NEW S, IsFiniteSet(S), NEW f
  PROVE  Product(f, S) = IF S = {} THEN 1 ELSE Product(f, S \ {Pick(S)}) * f[Pick(S)]
<1> DEFINE T == S \ {Pick(S)}
<1>1. PICK g : Products(f, S, g)
  BY ProductsExist
<1>2. IsFiniteSet(T) /\ T \in SUBSET S
  BY FS_Subset
<1>3. PICK h : Products(f, T, h)
  BY <1>2, ProductsExist
<1>4. Product(f, S) = g[S] /\ Product(f, T) = h[T]
  BY <1>1, <1>2, <1>3, ProductIs
<1>5. g[T] = h[T]
  <2> HIDE DEF T
  <2> QED
    BY <1>1, <1>2, <1>3, ProductsUnique
<1>6. g[S] = IF S = {} THEN 1 ELSE g[T] * f[Pick(S)]
  BY <1>1 DEF Products
<1> QED
  BY <1>4, <1>5, <1>6

LEMMA ProductOfNothing == \A f : Product(f, {}) = 1
  BY ProductPick, FS_EmptySet

(* A product of integers is one.                                             *)
LEMMA ProductIsInt ==
  ASSUME NEW S, IsFiniteSet(S), NEW f, \A x \in S : f[x] \in Int
  PROVE  Product(f, S) \in Int
<1> DEFINE Bad == {s \in SUBSET S : Product(f, s) \notin Int}
<1>1. SUFFICES ASSUME Bad # {}
               PROVE  FALSE
  BY S \in SUBSET S
<1>2. PICK m \in Bad : \A n \in Bad : n \subseteq m => n = m
  <2>1. Bad \in SUBSET (SUBSET S)
    OBVIOUS
  <2> HIDE DEF Bad
  <2> QED
    BY <1>1, <2>1, LeastSet
<1>3. IsFiniteSet(m) /\ m \in SUBSET S /\ Product(f, m) \notin Int
  BY FS_Subset
<1>4. m # {}
  BY <1>3, ProductOfNothing
<1>5. Pick(m) \in m
  BY <1>4, PickIn
<1>6. m \ {Pick(m)} \notin Bad
  BY <1>2, <1>5
<1>7. Product(f, m \ {Pick(m)}) \in Int
  BY <1>3, <1>6
<1>8. Product(f, m) = Product(f, m \ {Pick(m)}) * f[Pick(m)]
  BY <1>3, <1>4, ProductPick
<1> QED
  BY <1>3, <1>5, <1>7, <1>8

(* The factors may be taken in any order.                                    *)
LEMMA ProductWithout ==
  ASSUME NEW S, IsFiniteSet(S), NEW f, \A x \in S : f[x] \in Int, NEW y \in S
  PROVE  Product(f, S) = Product(f, S \ {y}) * f[y]
<1> DEFINE P(s) == Product(f, s)
           Bad == {s \in SUBSET S : \E x \in s : P(s) # P(s \ {x}) * f[x]}
<1>1. SUFFICES ASSUME Bad # {}
               PROVE  FALSE
  BY S \in SUBSET S
<1>2. PICK m \in Bad : \A n \in Bad : n \subseteq m => n = m
  <2>1. Bad \in SUBSET (SUBSET S)
    OBVIOUS
  <2> HIDE DEF Bad
  <2> QED
    BY <1>1, <2>1, LeastSet
<1>3. PICK x \in m : P(m) # P(m \ {x}) * f[x]
  OBVIOUS
<1> DEFINE c == Pick(m)
<1>4. c \in m /\ m \in SUBSET S
  BY PickIn
<1>5. \A s \in SUBSET S : IsFiniteSet(s) /\ P(s) \in Int
  <2>1. \A s \in SUBSET S : IsFiniteSet(s)
    BY FS_Subset
  <2> QED
    BY <2>1, ProductIsInt
<1>6. P(m) = P(m \ {c}) * f[c]
  BY <1>4, <1>5, ProductPick
<1>7. c # x
  BY <1>3, <1>6
<1>8. m \ {c} \notin Bad /\ m \ {x} \notin Bad
  BY <1>2, <1>3, <1>4
<1> HIDE DEF c
<1>9. /\ P(m \ {c}) = P((m \ {c}) \ {x}) * f[x]
      /\ P(m \ {x}) = P((m \ {x}) \ {c}) * f[c]
  BY <1>3, <1>4, <1>7, <1>8
<1>10. (m \ {c}) \ {x} = (m \ {x}) \ {c}
  OBVIOUS
<1>11. f[c] \in Int /\ f[x] \in Int /\ P((m \ {x}) \ {c}) \in Int
  BY <1>3, <1>4, <1>5
<1> DEFINE rest == P((m \ {x}) \ {c})
<1>12. P(m \ {c}) = rest * f[x] /\ P(m \ {x}) = rest * f[c]
  BY <1>9, <1>10
<1>13. f[c] \in Int /\ f[x] \in Int /\ rest \in Int
  BY <1>11
<1> HIDE DEF P, rest
<1>14. \A a, b, d \in Int : (a * b) * d = (a * d) * b
  OBVIOUS
<1> QED
  BY <1>3, <1>6, <1>12, <1>13, <1>14

(* Factors of one may be left out.                                           *)
LEMMA ProductOfSome ==
  ASSUME NEW S, IsFiniteSet(S), NEW T, NEW f, \A x \in S : f[x] \in Int,
         \A x \in S : x \notin T => f[x] = 1
  PROVE  Product(f, S) = Product(f, S \cap T)
<1> DEFINE Bad == {s \in SUBSET S : Product(f, s) # Product(f, s \cap T)}
<1>1. SUFFICES ASSUME Bad # {}
               PROVE  FALSE
  BY S \in SUBSET S
<1>2. PICK m \in Bad : \A n \in Bad : n \subseteq m => n = m
  <2>1. Bad \in SUBSET (SUBSET S)
    OBVIOUS
  <2> HIDE DEF Bad
  <2> QED
    BY <1>1, <2>1, LeastSet
<1>3. IsFiniteSet(m) /\ IsFiniteSet(m \cap T) /\ m \in SUBSET S /\ Product(f, m) # Product(f, m \cap T)
  <2>1. IsFiniteSet(m)
    BY FS_Subset
  <2> QED
    BY <2>1, FS_Subset
<1>4. m # {}
  BY <1>3
<1>5. PICK x : x = Pick(m)
  OBVIOUS
<1>6. x \in m /\ f[x] \in Int
  BY <1>3, <1>4, <1>5, PickIn
<1>7. Product(f, m \ {x}) = Product(f, (m \ {x}) \cap T)
  <2>1. m \ {x} \notin Bad /\ m \ {x} \in SUBSET S
    BY <1>2, <1>6
  <2> QED
    BY <2>1
<1>8. Product(f, m) = Product(f, m \ {x}) * f[x]
  BY <1>3, <1>4, <1>5, ProductPick
<1>9. CASE x \in T
  <2>1. Product(f, m \cap T) = Product(f, (m \cap T) \ {x}) * f[x]
    BY <1>3, <1>6, <1>9, ProductWithout
  <2>2. (m \cap T) \ {x} = (m \ {x}) \cap T
    OBVIOUS
  <2> QED
    BY <1>3, <1>7, <1>8, <2>1, <2>2
<1>10. CASE x \notin T
  <2>1. (m \ {x}) \cap T = m \cap T /\ f[x] = 1
    BY <1>3, <1>6, <1>10
  <2>2. IsFiniteSet(m \ {x}) /\ m \ {x} \in SUBSET S
    BY <1>3, FS_Subset
  <2>3. Product(f, m \ {x}) \in Int
    BY <2>2, ProductIsInt
  <2>4. PICK p \in Int : p = Product(f, m \ {x})
    BY <2>3
  <2>5. p * f[x] = p
    BY <2>1, <2>4
  <2> QED
    BY <1>3, <1>7, <1>8, <2>1, <2>4, <2>5
<1> QED
  BY <1>9, <1>10
-----------------------------------------------------------------------------
(* What a fold makes of a set, one element after the other.                  *)
LEMMA StepsTo ==
  ASSUME NEW base, NEW step, NEW S, IsFiniteSet(S), NEW f,
         NEW g, FoldsTo(Stepping(base, step), f, S, g)
  PROVE  /\ g[{}] = base
         /\ \A s \in SUBSET S : s # {} => \E x \in s : g[s] = step[<<f[x], g[s \ {x}]>>]
<1>1. \A s : FoldStep(Stepping(base, step), f, g, s)
               = IF s = {} THEN base ELSE step[<<f[Pick(s)], g[s \ {Pick(s)}]>>]
  BY DEF FoldStep, FoldBase, Combined, Stepping
<1>2. \A s \in SUBSET S : g[s] = IF s = {} THEN base ELSE step[<<f[Pick(s)], g[s \ {Pick(s)}]>>]
  BY <1>1 DEF FoldsTo
<1>3. g[{}] = base
  BY <1>2
<1>4. ASSUME NEW s \in SUBSET S, s # {} PROVE \E x \in s : g[s] = step[<<f[x], g[s \ {x}]>>]
  <2>1. g[s] = step[<<f[Pick(s)], g[s \ {Pick(s)}]>>]
    BY <1>2, <1>4
  <2> QED
    BY <1>4, <2>1, PickIn
<1> QED
  BY <1>3, <1>4
-----------------------------------------------------------------------------
(* Recursion over the naturals.                                              *)
LEMMA LeastNat == ASSUME NEW S \in SUBSET Nat, S # {} PROVE \E m \in S : \A n \in S : m <= n
<1>1. PICK top \in S : TRUE
  OBVIOUS
<1> DEFINE T == {0 .. n : n \in {i \in S : i <= top}}
<1>2. IsFiniteSet(0 .. top)
  <2>1. 0 \in Int /\ top \in Int
    OBVIOUS
  <2> QED
    BY <2>1, FS_Interval
<1>3. T \in SUBSET (SUBSET (0 .. top)) /\ T # {}
  <2>1. top \in {i \in S : i <= top}
    OBVIOUS
  <2>2. \A n \in S : n <= top => 0 .. n \subseteq 0 .. top
    OBVIOUS
  <2> QED
    BY <2>1, <2>2
<1>4. PICK low \in T : \A t \in T : t \subseteq low => t = low
  <2>1. PICK U : U = 0 .. top
    OBVIOUS
  <2> HIDE DEF T
  <2>2. IsFiniteSet(U) /\ T \in SUBSET (SUBSET U) /\ T # {}
    BY <1>2, <1>3, <2>1
  <2> QED
    BY <2>2, LeastSet
<1>5. PICK m \in S : m <= top /\ low = 0 .. m
  BY <1>4
<1>6. ASSUME NEW n \in S PROVE m <= n
  <2>1. CASE n <= top
    <3>1. 0 .. n \in T
      BY <2>1
    <3>2. CASE n < m
      <4>1. 0 .. n \subseteq 0 .. m /\ m \in 0 .. m /\ m \notin 0 .. n
        BY <3>2
      <4> QED
        BY <1>4, <1>5, <3>1, <4>1
    <3> QED
      BY <3>2
  <2> QED
    BY <1>5, <2>1
<1> QED
  BY <1>6

(* A value for every number from the one before it.                          *)
Reaches(base, step, n, g) ==
  g[0] = base /\ \A i \in 0 .. (n - 1) : g[i + 1] = step[<<i, g[i]>>]

RunsFrom(g, A, base, step) ==
  g \in [Nat -> A] /\ g[0] = base /\ \A n \in Nat : g[n + 1] = step[<<n, g[n]>>]

LEMMA NatSteps ==
  ASSUME NEW A, NEW base \in A, NEW step \in [Nat \X A -> A]
  PROVE  \E g : RunsFrom(g, A, base, step)
<1> DEFINE Bad == {n \in Nat : ~ \E g \in [0 .. n -> A] : Reaches(base, step, n, g)}
<1>1. Bad = {}
  <2> SUFFICES ASSUME Bad # {} PROVE FALSE
    OBVIOUS
  <2>1. PICK m \in Bad : \A n \in Bad : m <= n
    <3>1. Bad \in SUBSET Nat
      OBVIOUS
    <3> HIDE DEF Bad
    <3> QED
      BY <3>1, LeastNat
  <2>2. m # 0
    <3>1. PICK g : g = [i \in 0 .. 0 |-> base]
      OBVIOUS
    <3>2. g \in [0 .. 0 -> A] /\ Reaches(base, step, 0, g)
      BY <3>1 DEF Reaches
    <3> QED
      BY <3>2
  <2>3. PICK l \in Nat : m = l + 1
    <3>1. m \in Nat
      OBVIOUS
    <3>2. m - 1 \in Nat /\ m = (m - 1) + 1
      BY <2>2, <3>1
    <3> QED
      BY <3>2
  <2>4. PICK h \in [0 .. l -> A] : Reaches(base, step, l, h)
    <3>1. l \notin Bad
      BY <2>1, <2>3
    <3> QED
      BY <3>1
  <2>5. PICK new \in A : new = step[<<l, h[l]>>]
    <3>1. l \in 0 .. l
      OBVIOUS
    <3>2. h[l] \in A
      BY <3>1
    <3> QED
      BY <3>2
  <2>6. PICK g : g = [i \in 0 .. m |-> IF i = m THEN new ELSE h[i]]
    OBVIOUS
  <2>7. g \in [0 .. m -> A] /\ (\A i \in 0 .. l : g[i] = h[i]) /\ g[m] = new
    BY <2>3, <2>5, <2>6
  <2>8. ASSUME NEW i \in 0 .. (m - 1) PROVE g[i + 1] = step[<<i, g[i]>>]
    <3>1. i \in 0 .. l
      BY <2>3
    <3>2. CASE i = l
      BY <2>3, <2>5, <2>7, <3>1, <3>2
    <3>3. CASE i # l
      <4>1. i \in 0 .. (l - 1) /\ i + 1 \in 0 .. l
        BY <3>1, <3>3
      <4> QED
        BY <2>4, <2>7, <3>1, <4>1 DEF Reaches
    <3> QED
      BY <3>2, <3>3
  <2>9. Reaches(base, step, m, g)
    <3>1. g[0] = base
      <4>1. 0 \in 0 .. l
        OBVIOUS
      <4> QED
        BY <2>4, <2>7, <4>1 DEF Reaches
    <3> QED
      BY <2>8, <3>1 DEF Reaches
  <2> QED
    BY <2>7, <2>9
<1> DEFINE G(n) == CHOOSE g \in [0 .. n -> A] : Reaches(base, step, n, g)
<1>2. ASSUME NEW n \in Nat PROVE G(n) \in [0 .. n -> A] /\ Reaches(base, step, n, G(n))
  <2>1. \E g \in [0 .. n -> A] : Reaches(base, step, n, g)
    BY <1>1
  <2> QED
    BY <2>1
<1>3. ASSUME NEW n \in Nat, NEW g, Reaches(base, step, n, g), NEW l \in Nat, NEW h, Reaches(base, step, l, h), n <= l,
             NEW i \in 0 .. n
      PROVE  g[i] = h[i]
  <2> DEFINE Apart == {j \in 0 .. n : g[j] # h[j]}
  <2> SUFFICES ASSUME Apart # {} PROVE FALSE
    OBVIOUS
  <2>1. PICK m \in Apart : \A j \in Apart : m <= j
    <3>1. Apart \in SUBSET Nat
      OBVIOUS
    <3> HIDE DEF Apart
    <3> QED
      BY <3>1, LeastNat
  <2>2. m # 0
    BY <1>3 DEF Reaches
  <2>3. PICK j : j = m - 1
    OBVIOUS
  <2>4. j \in 0 .. (n - 1) /\ j \in 0 .. (l - 1) /\ j + 1 = m /\ j < m /\ j \in 0 .. n
    BY <1>3, <2>2, <2>3
  <2>5. g[j] = h[j]
    BY <2>1, <2>4
  <2>6. g[j + 1] = step[<<j, g[j]>>] /\ h[j + 1] = step[<<j, h[j]>>]
    BY <1>3, <2>4 DEF Reaches
  <2> QED
    BY <2>4, <2>5, <2>6
<1> DEFINE all == [n \in Nat |-> G(n)[n]]
<1> HIDE DEF G
<1>4. all \in [Nat -> A]
  <2>1. ASSUME NEW n \in Nat PROVE G(n)[n] \in A
    <3>1. n \in 0 .. n
      OBVIOUS
    <3> QED
      BY <1>2, <3>1
  <2> QED
    BY <2>1
<1>5. all[0] = base
  <2>1. Reaches(base, step, 0, G(0))
    BY <1>2
  <2> QED
    BY <2>1 DEF Reaches
<1>6. ASSUME NEW n \in Nat PROVE all[n + 1] = step[<<n, all[n]>>]
  <2>1. n + 1 \in Nat /\ n \in 0 .. ((n + 1) - 1) /\ n <= n + 1 /\ n \in 0 .. n
    OBVIOUS
  <2>2. Reaches(base, step, n, G(n)) /\ Reaches(base, step, n + 1, G(n + 1))
    BY <1>2, <2>1
  <2>3. G(n + 1)[n + 1] = step[<<n, G(n + 1)[n]>>]
    BY <2>1, <2>2 DEF Reaches
  <2>4. G(n)[n] = G(n + 1)[n]
    BY <1>3, <2>1, <2>2
  <2> QED
    BY <2>1, <2>3, <2>4
<1>7. PICK g : g = all
  OBVIOUS
<1>8. RunsFrom(g, A, base, step)
  BY <1>4, <1>5, <1>6, <1>7 DEF RunsFrom
<1> QED
  BY <1>8
=============================================================================
