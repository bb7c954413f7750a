----------------------------- MODULE SumTheorems -----------------------------
(***************************************************************************)
(* Sums of a function over a finite set, for the components whose books    *)
(* are sums: what a sum is when an element is taken out, when the function *)
(* changes elsewhere, when the set is in two parts, and when it falls into *)
(* groups.  Sum is the fold the modules use; the folds choose an element   *)
(* at a time, so that none of this is a matter of unfolding them.          *)
(*                                                                         *)
(* The proofs are by smallest counterexample (Smallest), for induction on  *)
(* a set takes an operator the provers cannot instantiate.                 *)
(***************************************************************************)
EXTENDS Integers, FiniteSets, Folds, FiniteSetTheorems, WellFoundedInduction, TLAPS

(* The sum of f over S.                                                      *)
Sum(f, S) ==
    MapThenFoldSet(+, 0, LAMBDA x : f[x], LAMBDA T : CHOOSE x \in T : TRUE, S)

Chosen(S) == CHOOSE x \in S : TRUE

(* What the fold computes with.                                             *)
Adds(g, f, S) ==
    g = [s \in SUBSET S |-> IF s = {} THEN 0 ELSE f[Chosen(s)] + g[s \ {Chosen(s)}]]

(* The sum is what one such g makes of the whole set.                       *)
LEMMA SumUnfold ==
    ASSUME NEW f, NEW S, \E g : Adds(g, f, S)
    PROVE  \E g : Adds(g, f, S) /\ Sum(f, S) = g[S]
  <1> DEFINE iter == CHOOSE g : g = [s \in SUBSET S |-> IF s = {} THEN 0
                                        ELSE f[CHOOSE x \in s : TRUE] + g[s \ {CHOOSE x \in s : TRUE}]]
  <1>1. Sum(f, S) = iter[S]
    BY DEF Sum, MapThenFoldSet
  <1>2. Adds(iter, f, S)
    BY DEF Adds, Chosen
  <1> QED BY <1>1, <1>2

(* The smallest counterexample, among the finite sets, to what holds of all. *)
LEMMA Smallest ==
    ASSUME NEW S, IsFiniteSet(S), NEW C, C \subseteq SUBSET S, C # {}
    PROVE  \E T \in C : \A U \in C : U \subseteq T => U = T
  <1>1. IsWellFoundedOn(StrictSubsetOrdering(S), FiniteSubsetsOf(S))
    BY FS_StrictSubsetOrderingWellFounded
  <1>2. C \subseteq FiniteSubsetsOf(S)
    BY FS_Subset DEF FiniteSubsetsOf
  <1>3. \E T \in C : \A U \in C : <<U, T>> \notin StrictSubsetOrdering(S)
    BY <1>1, <1>2, WFMin
  <1> QED BY <1>3 DEF StrictSubsetOrdering

LEMMA ChosenIn == ASSUME NEW S, S # {} PROVE Chosen(S) \in S
  BY DEF Chosen

LEMMA AddsAt ==
    ASSUME NEW g, NEW f, NEW S, Adds(g, f, S), NEW s \in SUBSET S
    PROVE  g[s] = IF s = {} THEN 0 ELSE f[Chosen(s)] + g[s \ {Chosen(s)}]
  BY DEF Adds

(* There is one way to add up a finite set.                                 *)
LEMMA AddsAgree ==
    ASSUME NEW f, NEW S, NEW T, NEW g, NEW h, Adds(g, f, S), Adds(h, f, T),
           NEW s \in SUBSET (S \cap T), IsFiniteSet(s)
    PROVE  g[s] = h[s]
  <1> DEFINE Bad == {t \in SUBSET s : g[t] # h[t]}
  <1> SUFFICES ASSUME Bad # {} PROVE FALSE
    OBVIOUS
  <1>2. PICK t \in Bad : \A u \in Bad : u \subseteq t => u = t
    <2>1. Bad \subseteq SUBSET s
      OBVIOUS
    <2> HIDE DEF Bad
    <2> QED BY <2>1, Smallest
  <1>3. t \in SUBSET S /\ t \in SUBSET T
    BY <1>2
  <1>4. t # {}
    BY <1>2, <1>3, AddsAt
  <1>5. Chosen(t) \in t /\ t \ {Chosen(t)} \notin Bad
    BY <1>2, <1>4, ChosenIn
  <1>6. g[t \ {Chosen(t)}] = h[t \ {Chosen(t)}]
    BY <1>5, <1>2
  <1> QED BY <1>2, <1>3, <1>4, <1>6, AddsAt

LEMMA AddsExists ==
    ASSUME NEW f, NEW S, IsFiniteSet(S)
    PROVE  \E g : Adds(g, f, S)
  <1> DEFINE Bad == {t \in SUBSET S : ~ \E g : Adds(g, f, t)}
  <1> SUFFICES ASSUME Bad # {} PROVE FALSE
    OBVIOUS
  <1>1. \A t \in SUBSET S : IsFiniteSet(t)
    BY FS_Subset
  <1>2. PICK t \in Bad : \A u \in Bad : u \subseteq t => u = t
    <2>1. Bad \subseteq SUBSET S
      OBVIOUS
    <2> HIDE DEF Bad
    <2> QED BY <2>1, Smallest
  <1> DEFINE h(u) == CHOOSE g : Adds(g, f, u)
             value(u) == IF u = {} THEN 0 ELSE f[Chosen(u)] + h(u \ {Chosen(u)})[u \ {Chosen(u)}]
             g == [u \in SUBSET t |-> value(u)]
  <1>3. ASSUME NEW u \in SUBSET t, u # t PROVE Adds(h(u), f, u)
    <2>1. u \notin Bad /\ u \in SUBSET S
      BY <1>2, <1>3
    <2> QED BY <2>1
  <1> HIDE DEF h
  <1>4. ASSUME NEW u \in SUBSET t, u # t PROVE h(u)[u] = value(u)
    <2>1. CASE u = {}
      BY <1>3, <1>4, <2>1, AddsAt
    <2>2. CASE u # {}
      <3> DEFINE rest == u \ {Chosen(u)}
      <3>1. Chosen(u) \in u
        BY <2>2, ChosenIn
      <3>2. rest \in SUBSET t /\ rest # t /\ rest \in SUBSET (u \cap rest) /\ IsFiniteSet(rest)
        BY <1>1, <1>2, <1>4, <3>1
      <3>3. Adds(h(u), f, u) /\ Adds(h(rest), f, rest)
        BY <1>3, <1>4, <3>2
      <3>4. h(u)[rest] = h(rest)[rest]
        BY <3>2, <3>3, AddsAgree
      <3>5. h(u)[u] = f[Chosen(u)] + h(u)[rest]
        BY <2>2, <3>3, AddsAt
      <3> QED BY <2>2, <3>4, <3>5
    <2> QED BY <2>1, <2>2
  <1>5. ASSUME NEW u \in SUBSET t, u # {} PROVE g[u \ {Chosen(u)}] = h(u \ {Chosen(u)})[u \ {Chosen(u)}]
    <2> DEFINE rest == u \ {Chosen(u)}
    <2>1. Chosen(u) \in u
      BY <1>5, ChosenIn
    <2>2. rest \in SUBSET t /\ rest # t
      BY <2>1
    <2>3. h(rest)[rest] = value(rest)
      BY <2>2, <1>4
    <2> HIDE DEF value
    <2> QED BY <2>2, <2>3
  <1>6. Adds(g, f, t)
    <2>1. \A u \in SUBSET t : value(u) = IF u = {} THEN 0 ELSE f[Chosen(u)] + g[u \ {Chosen(u)}]
      BY <1>5
    <2> DEFINE body(u) == IF u = {} THEN 0 ELSE f[Chosen(u)] + g[u \ {Chosen(u)}]
    <2>2. g = [u \in SUBSET t |-> body(u)]
      <3> HIDE DEF value, body
      <3>1. \A u \in SUBSET t : value(u) = body(u)
        BY <2>1 DEF body
      <3> QED BY <3>1
    <2> HIDE DEF g
    <2> QED BY <2>2 DEF Adds
  <1> HIDE DEF g
  <1> QED BY <1>2, <1>6

(* Nothing adds up to nothing.                                             *)
THEOREM SumEmpty == ASSUME NEW f PROVE Sum(f, {}) = 0
  <1>1. PICK g : Adds(g, f, {}) /\ Sum(f, {}) = g[{}]
    BY SumUnfold, AddsExists, FS_EmptySet
  <1> QED BY <1>1, AddsAt

(* The fold takes out the chosen element first.                             *)
LEMMA SumChosen ==
    ASSUME NEW f, NEW S, IsFiniteSet(S), S # {}
    PROVE  Sum(f, S) = f[Chosen(S)] + Sum(f, S \ {Chosen(S)})
  <1> DEFINE rest == S \ {Chosen(S)}
  <1>1. PICK g : Adds(g, f, S) /\ Sum(f, S) = g[S]
    BY SumUnfold, AddsExists
  <1>2. IsFiniteSet(rest) /\ rest \in SUBSET (S \cap rest)
    BY FS_Subset
  <1>3. PICK h : Adds(h, f, rest) /\ Sum(f, rest) = h[rest]
    BY <1>2, SumUnfold, AddsExists
  <1>4. g[rest] = h[rest]
    BY <1>1, <1>2, <1>3, AddsAgree
  <1>5. g[S] = f[Chosen(S)] + g[rest]
    BY <1>1, AddsAt
  <1> QED BY <1>1, <1>3, <1>4, <1>5

LEMMA SumType ==
    ASSUME NEW f, NEW S, IsFiniteSet(S), \A x \in S : f[x] \in Int
    PROVE  Sum(f, S) \in Int
  <1> DEFINE Bad == {t \in SUBSET S : Sum(f, t) \notin Int}
  <1> SUFFICES ASSUME Bad # {} PROVE FALSE
    OBVIOUS
  <1>1. \A t \in SUBSET S : IsFiniteSet(t)
    BY FS_Subset
  <1>2. PICK t \in Bad : \A u \in Bad : u \subseteq t => u = t
    <2>1. Bad \subseteq SUBSET S
      OBVIOUS
    <2> HIDE DEF Bad
    <2> QED BY <2>1, Smallest
  <1>3. t # {}
    BY <1>2, SumEmpty
  <1>4. Chosen(t) \in t
    BY <1>3, ChosenIn
  <1>5. Sum(f, t \ {Chosen(t)}) \in Int
    BY <1>2, <1>4
  <1> QED BY <1>1, <1>2, <1>3, <1>4, <1>5, SumChosen

(* Any element may be taken out first.                                      *)
THEOREM SumRemove ==
    ASSUME NEW f, NEW S, IsFiniteSet(S), \A x \in S : f[x] \in Int, NEW e \in S
    PROVE  Sum(f, S) = f[e] + Sum(f, S \ {e})
  <1> DEFINE Bad == {t \in SUBSET S : \E x \in t : Sum(f, t) # f[x] + Sum(f, t \ {x})}
  <1> SUFFICES ASSUME Bad # {} PROVE FALSE
    OBVIOUS
  <1>1. \A t \in SUBSET S : IsFiniteSet(t) /\ Sum(f, t) \in Int
    BY FS_Subset, SumType
  <1>2. PICK t \in Bad : \A u \in Bad : u \subseteq t => u = t
    <2>1. Bad \subseteq SUBSET S
      OBVIOUS
    <2> HIDE DEF Bad
    <2> QED BY <2>1, Smallest
  <1>3. PICK x \in t : Sum(f, t) # f[x] + Sum(f, t \ {x})
    BY <1>2
  <1> DEFINE c == Chosen(t)
  <1>4. c \in t
    BY <1>3, ChosenIn
  <1>5. Sum(f, t) = f[c] + Sum(f, t \ {c})
    BY <1>1, <1>3, SumChosen
  <1>6. x # c
    BY <1>3, <1>5
  <1> HIDE DEF c
  <1>7. t \ {c} \notin Bad /\ t \ {x} \notin Bad
    BY <1>2, <1>3, <1>4
  <1>8. Sum(f, t \ {c}) = f[x] + Sum(f, (t \ {c}) \ {x})
    BY <1>2, <1>3, <1>6, <1>7
  <1>9. Sum(f, t \ {x}) = f[c] + Sum(f, (t \ {x}) \ {c})
    BY <1>2, <1>4, <1>6, <1>7
  <1>10. (t \ {c}) \ {x} = (t \ {x}) \ {c} /\ (t \ {c}) \ {x} \in SUBSET S
    BY <1>2
  <1>11. f[x] \in Int /\ f[c] \in Int /\ Sum(f, (t \ {c}) \ {x}) \in Int
    BY <1>1, <1>2, <1>3, <1>4, <1>10
  <1> DEFINE a == Sum(f, t)
             b == Sum(f, t \ {x})
             d == Sum(f, t \ {c})
             rest == Sum(f, (t \ {c}) \ {x})
  <1>12. a # f[x] + b /\ a = f[c] + d /\ d = f[x] + rest /\ b = f[c] + rest
         /\ f[x] \in Int /\ f[c] \in Int /\ rest \in Int
    BY <1>3, <1>5, <1>8, <1>9, <1>10, <1>11
  <1> HIDE DEF a, b, d, rest
  <1> QED BY <1>12

(* The sum depends on what is added only.                                   *)
THEOREM SumSame ==
    ASSUME NEW f, NEW g, NEW S, IsFiniteSet(S), \A x \in S : f[x] = g[x]
    PROVE  Sum(f, S) = Sum(g, S)
  <1> DEFINE Bad == {t \in SUBSET S : Sum(f, t) # Sum(g, t)}
  <1> SUFFICES ASSUME Bad # {} PROVE FALSE
    OBVIOUS
  <1>1. \A t \in SUBSET S : IsFiniteSet(t)
    BY FS_Subset
  <1>2. PICK t \in Bad : \A u \in Bad : u \subseteq t => u = t
    <2>1. Bad \subseteq SUBSET S
      OBVIOUS
    <2> HIDE DEF Bad
    <2> QED BY <2>1, Smallest
  <1>3. t # {}
    BY <1>2, SumEmpty
  <1>4. Chosen(t) \in t
    BY <1>3, ChosenIn
  <1>5. Sum(f, t \ {Chosen(t)}) = Sum(g, t \ {Chosen(t)})
    BY <1>2, <1>4
  <1>6. Sum(f, t) = f[Chosen(t)] + Sum(f, t \ {Chosen(t)}) /\ Sum(g, t) = g[Chosen(t)] + Sum(g, t \ {Chosen(t)})
    BY <1>1, <1>2, <1>3, SumChosen
  <1> QED BY <1>2, <1>4, <1>5, <1>6

(* Two parts are added up one after the other.                              *)
THEOREM SumParts ==
    ASSUME NEW f, NEW S, IsFiniteSet(S), \A x \in S : f[x] \in Int, NEW T \in SUBSET S
    PROVE  Sum(f, S) = Sum(f, T) + Sum(f, S \ T)
  <1> DEFINE Bad == {t \in SUBSET T : Sum(f, t \cup (S \ T)) # Sum(f, t) + Sum(f, S \ T)}
  <1>1. \A t \in SUBSET S : IsFiniteSet(t) /\ Sum(f, t) \in Int
    BY FS_Subset, SumType
  <1>2. ASSUME Bad # {} PROVE FALSE
    <2>2. PICK t \in Bad : \A u \in Bad : u \subseteq t => u = t
      <3>1. Bad \subseteq SUBSET T /\ IsFiniteSet(T)
        BY <1>1
      <3> HIDE DEF Bad
      <3> QED BY <1>2, <3>1, Smallest
    <2>3. t # {}
      <3>1. {} \cup (S \ T) = S \ T /\ Sum(f, {}) = 0 /\ Sum(f, S \ T) \in Int
        BY <1>1, SumEmpty
      <3>2. Sum(f, {} \cup (S \ T)) = Sum(f, {}) + Sum(f, S \ T)
        BY <3>1
      <3> QED BY <2>2, <3>2
    <2>4. PICK x \in t : TRUE
      BY <2>3
    <2> DEFINE whole == t \cup (S \ T)
    <2>5. /\ x \in whole /\ whole \in SUBSET S /\ t \in SUBSET S
          /\ whole \ {x} = (t \ {x}) \cup (S \ T)
      BY <2>2, <2>4
    <2>6. Sum(f, whole) = f[x] + Sum(f, whole \ {x})
      <3> HIDE DEF whole
      <3>1. IsFiniteSet(whole) /\ \A y \in whole : f[y] \in Int
        BY <1>1, <2>5
      <3> QED BY <2>5, <3>1, SumRemove
    <2>7. Sum(f, t) = f[x] + Sum(f, t \ {x})
      <3>1. IsFiniteSet(t) /\ \A y \in t : f[y] \in Int
        BY <1>1, <2>5
      <3> QED BY <2>4, <3>1, SumRemove
    <2>8. Sum(f, (t \ {x}) \cup (S \ T)) = Sum(f, t \ {x}) + Sum(f, S \ T)
      <3>1. t \ {x} \notin Bad /\ t \ {x} \in SUBSET T
        BY <2>2, <2>4
      <3> QED BY <3>1
    <2>9. f[x] \in Int /\ Sum(f, t \ {x}) \in Int /\ Sum(f, S \ T) \in Int
      BY <1>1, <2>4, <2>5
    <2> QED BY <2>2, <2>5, <2>6, <2>7, <2>8, <2>9
  <1>3. T \cup (S \ T) = S /\ T \notin Bad
    BY <1>2
  <1> QED BY <1>3

(* A set that falls into groups that each come to nothing comes to nothing.  *)
THEOREM SumGroups ==
    ASSUME NEW f, NEW g, NEW S, IsFiniteSet(S), \A x \in S : f[x] \in Int,
           \A x \in S : Sum(f, {y \in S : g[y] = g[x]}) = 0
    PROVE  Sum(f, S) = 0
  <1> DEFINE Group(x) == {y \in S : g[y] = g[x]}
             Bad == {t \in SUBSET S : (\A x \in t : Group(x) \subseteq t) /\ Sum(f, t) # 0}
  <1> SUFFICES ASSUME Bad # {} PROVE FALSE
    <2>1. \A x \in S : Group(x) \subseteq S
      OBVIOUS
    <2> QED BY <2>1
  <1>1. \A t \in SUBSET S : IsFiniteSet(t) /\ \A x \in t : f[x] \in Int
    BY FS_Subset
  <1>2. PICK t \in Bad : \A u \in Bad : u \subseteq t => u = t
    <2>1. Bad \subseteq SUBSET S
      OBVIOUS
    <2> HIDE DEF Bad
    <2> QED BY <2>1, Smallest
  <1>3. PICK x \in t : TRUE
    BY <1>2, SumEmpty
  <1>4. t \in SUBSET S /\ x \in Group(x) /\ Group(x) \in SUBSET t /\ Sum(f, Group(x)) = 0
    BY <1>2, <1>3
  <1>5. t \ Group(x) \notin Bad
    BY <1>2, <1>3, <1>4
  <1>6. \A y \in t \ Group(x) : Group(y) \subseteq t \ Group(x)
    BY <1>2
  <1>7. Sum(f, t \ Group(x)) = 0
    BY <1>4, <1>5, <1>6
  <1>8. Sum(f, t) = Sum(f, Group(x)) + Sum(f, t \ Group(x))
    <2> HIDE DEF Group
    <2> QED BY <1>1, <1>4, SumParts
  <1> QED BY <1>2, <1>4, <1>7, <1>8

(* Nothing in every place adds up to nothing.                               *)
THEOREM SumZero ==
    ASSUME NEW f, NEW S, IsFiniteSet(S), \A x \in S : f[x] = 0
    PROVE  Sum(f, S) = 0
  <1> DEFINE Bad == {t \in SUBSET S : Sum(f, t) # 0}
  <1> SUFFICES ASSUME Bad # {} PROVE FALSE
    OBVIOUS
  <1>1. \A t \in SUBSET S : IsFiniteSet(t)
    BY FS_Subset
  <1>2. PICK t \in Bad : \A u \in Bad : u \subseteq t => u = t
    <2>1. Bad \subseteq SUBSET S
      OBVIOUS
    <2> HIDE DEF Bad
    <2> QED BY <2>1, Smallest
  <1>3. t # {}
    BY <1>2, SumEmpty
  <1>4. Chosen(t) \in t
    BY <1>3, ChosenIn
  <1>5. Sum(f, t \ {Chosen(t)}) = 0
    BY <1>2, <1>4
  <1>6. Sum(f, t) = f[Chosen(t)] + Sum(f, t \ {Chosen(t)})
    BY <1>1, <1>2, <1>3, SumChosen
  <1> QED BY <1>2, <1>4, <1>5, <1>6

(* A change in one place changes the sum by as much.                        *)
THEOREM SumChange ==
    ASSUME NEW f, NEW g, NEW S, IsFiniteSet(S), NEW e \in S,
           \A x \in S : f[x] \in Int /\ g[x] \in Int, \A x \in S \ {e} : f[x] = g[x]
    PROVE  Sum(g, S) = Sum(f, S) - f[e] + g[e]
  <1>1. IsFiniteSet(S \ {e})
    BY FS_Subset
  <1>2. Sum(f, S \ {e}) = Sum(g, S \ {e})
    BY <1>1, SumSame
  <1>3. Sum(f, S) = f[e] + Sum(f, S \ {e}) /\ Sum(g, S) = g[e] + Sum(g, S \ {e})
    BY SumRemove
  <1>4. Sum(f, S \ {e}) \in Int
    BY <1>1, SumType
  <1> QED BY <1>2, <1>3, <1>4

(* Adding place by place adds up to adding the sums.                        *)
THEOREM SumPlus ==
    ASSUME NEW f, NEW g, NEW h, NEW S, IsFiniteSet(S),
           \A x \in S : f[x] \in Int /\ g[x] \in Int /\ h[x] = f[x] + g[x]
    PROVE  Sum(h, S) = Sum(f, S) + Sum(g, S)
  <1> DEFINE Bad == {t \in SUBSET S : Sum(h, t) # Sum(f, t) + Sum(g, t)}
  <1> SUFFICES ASSUME Bad # {} PROVE FALSE
    OBVIOUS
  <1>1. \A t \in SUBSET S : IsFiniteSet(t) /\ Sum(f, t) \in Int /\ Sum(g, t) \in Int
    BY FS_Subset, SumType
  <1>2. PICK t \in Bad : \A u \in Bad : u \subseteq t => u = t
    <2>1. Bad \subseteq SUBSET S
      OBVIOUS
    <2> HIDE DEF Bad
    <2> QED BY <2>1, Smallest
  <1>3. t # {}
    <2> SUFFICES ASSUME t = {} PROVE FALSE
      OBVIOUS
    <2>1. Sum(f, {}) = 0 /\ Sum(g, {}) = 0 /\ Sum(h, {}) = 0
      BY SumEmpty
    <2>2. Sum(h, t) = Sum(f, t) + Sum(g, t)
      BY <2>1
    <2> QED BY <1>2, <2>2
  <1> DEFINE x == Chosen(t)
             rest == t \ {x}
  <1>4. x \in t /\ rest \in SUBSET S
    BY <1>2, <1>3, ChosenIn
  <1>5. Sum(h, rest) = Sum(f, rest) + Sum(g, rest)
    BY <1>2, <1>4
  <1>6. Sum(f, t) = f[x] + Sum(f, rest) /\ Sum(g, t) = g[x] + Sum(g, rest) /\ Sum(h, t) = h[x] + Sum(h, rest)
    BY <1>1, <1>2, <1>3, SumChosen
  <1>7. f[x] \in Int /\ g[x] \in Int /\ h[x] = f[x] + g[x] /\ Sum(f, rest) \in Int /\ Sum(g, rest) \in Int
    BY <1>1, <1>2, <1>4
  <1> HIDE DEF x, rest
  <1>8. Sum(h, t) = Sum(f, t) + Sum(g, t)
    BY <1>5, <1>6, <1>7
  <1> QED BY <1>2, <1>8
=============================================================================
