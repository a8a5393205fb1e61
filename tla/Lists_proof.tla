---------------------------- MODULE Lists_proof ----------------------------
(***************************************************************************)
(* What the operators of Lists return, for every sequence.  The induction  *)
(* theorems of the library take a predicate as a parameter; here the       *)
(* predicate is a set of numbers, and the least number outside it does the *)
(* work.                                                                   *)
(***************************************************************************)
EXTENDS Lists, WellFoundedInduction, FiniteSetTheorems, TLAPS

\* Every set of natural numbers that is not empty has a least element.
LEMMA LeastNumber ==
  ASSUME NEW T \in SUBSET Nat, T # {}
  PROVE  \E x \in T : \A y \in T : x <= y
<1> DEFINE R == OpToRel(<, Nat)
<1>1. IsWellFoundedOn(R, Nat)
  BY NatLessThanWellFounded
<1>2. \A x, y \in T : <<y, x>> \in R <=> y < x
  BY DEF OpToRel
<1> HIDE DEF R
<1>3. PICK x \in T : \A y \in T : ~(<<y, x>> \in R)
  BY <1>1, WFMin
<1>4. \A y \in T : x \in Nat /\ y \in Nat /\ ~(y < x)
  BY <1>2, <1>3
<1> QED BY <1>3, <1>4

\* Induction up to N, for a property given as the set of numbers that have it.
LEMMA InductionUpTo ==
  ASSUME NEW N \in Nat, NEW T,
         0 \in T,
         \A n \in 1..N : n - 1 \in T => n \in T
  PROVE  0..N \subseteq T
<1> SUFFICES ASSUME (0..N) \ T # {} PROVE FALSE
  OBVIOUS
<1>1. (0..N) \ T \in SUBSET Nat
  OBVIOUS
<1>2. PICK x \in (0..N) \ T : \A y \in (0..N) \ T : x <= y
  BY <1>1, LeastNumber
<1>3. x \in 1..N /\ x - 1 \in 0..N /\ x - 1 \notin T
  OBVIOUS
<1> QED BY <1>2, <1>3

\* A recursion of N steps over R from base: step[n] takes the n-th.
Recursion(N, R, base, step) ==
  N \in Nat /\ base \in R /\ step \in [1..N -> [R -> R]]

\* f holds the results of its steps.
Computes(f, N, R, base, step) ==
  /\ f \in [0..N -> R]
  /\ f[0] = base
  /\ \A n \in 1..N : f[n] = step[n][f[n - 1]]

\* A function that computes each value from the one before it exists.
LEMMA StepwiseFunction ==
  ASSUME NEW N, NEW R, NEW base, NEW step, Recursion(N, R, base, step)
  PROVE  \E f : Computes(f, N, R, base, step)
<1> USE DEF Recursion
<1> DEFINE Partial(m) ==
             {f \in [0..N -> R] :
                f[0] = base /\ \A n \in 1..m : f[n] = step[n][f[n - 1]]}
           T == {m \in 0..N : Partial(m) # {}}
<1>1. 0 \in T
  <2>1. [n \in 0..N |-> base] \in Partial(0)
    OBVIOUS
  <2> QED BY <2>1
<1>2. ASSUME NEW m \in 1..N, m - 1 \in T PROVE m \in T
  <2>1. PICK f \in [0..N -> R] :
          f[0] = base /\ \A n \in 1..(m - 1) : f[n] = step[n][f[n - 1]]
    BY <1>2
  <2> DEFINE g == [f EXCEPT ![m] = step[m][f[m - 1]]]
  <2>2. step[m][f[m - 1]] \in R
    OBVIOUS
  <2>3. g \in [0..N -> R] /\ g[0] = base
    BY <2>1, <2>2
  <2>4. \A n \in 1..m : g[n] = step[n][g[n - 1]]
    <3> TAKE n \in 1..m
    <3>1. g[n - 1] = f[n - 1]
      OBVIOUS
    <3>2. CASE n = m
      BY <3>1, <3>2
    <3>3. CASE n # m
      BY <2>1, <3>1, <3>3
    <3> QED BY <3>2, <3>3
  <2> HIDE DEF g
  <2>5. g \in Partial(m)
    BY <2>3, <2>4
  <2> QED BY <2>5
<1> HIDE DEF T
<1>3. 0..N \subseteq T
  BY <1>1, <1>2, InductionUpTo
<1>4. N \in T
  BY <1>3
<1> QED BY <1>4 DEF T, Computes

-----------------------------------------------------------------------------
\* The recursion of Kept: what is kept of the first n elements, for each n.
KeptRun(s, S, f) ==
  /\ f[0] = <<>>
  /\ \A n \in 1..Len(s) :
       f[n] = IF s[n] \in S THEN Append(f[n - 1], s[n]) ELSE f[n - 1]

LEMMA KeptUnrolled ==
  ASSUME NEW E, NEW s \in Seq(E), NEW S
  PROVE  \E f \in [0..Len(s) -> Seq(E)] : KeptRun(s, S, f) /\ Kept(s, S) = f[Len(s)]
<1> DEFINE N == Len(s)
           R == Seq(E)
           step == [n \in 1..N |-> [t \in R |-> IF s[n] \in S THEN Append(t, s[n]) ELSE t]]
           Body(f, n) == IF n = 0 THEN <<>>
                         ELSE IF s[n] \in S THEN Append(f[n - 1], s[n]) ELSE f[n - 1]
           kept == CHOOSE f : f = [n \in 0..N |-> Body(f, n)]
<1>1. N \in Nat /\ <<>> \in R
  OBVIOUS
<1>2. Recursion(N, R, <<>>, step)
  BY <1>1 DEF Recursion
<1>3. \A t \in R, n \in 1..N :
        step[n][t] = IF s[n] \in S THEN Append(t, s[n]) ELSE t
  OBVIOUS
<1>4. Kept(s, S) = kept[N]
  BY DEF Kept
<1>5. ASSUME NEW f PROVE KeptRun(s, S, f) <=> \A n \in 0..N : f[n] = Body(f, n)
  BY <1>1 DEF KeptRun
<1> HIDE DEF N, R, step, Body
<1>6. PICK f : Computes(f, N, R, <<>>, step)
  BY <1>2, StepwiseFunction
<1>7. \A n \in 0..N : f[n] = Body(f, n)
  <2> TAKE n \in 0..N
  <2>1. CASE n = 0
    BY <1>6, <2>1 DEF Body, Computes
  <2>2. CASE n # 0
    <3>1. n \in 1..N /\ n - 1 \in 0..N
      BY <1>1, <2>2
    <3>2. f[n - 1] \in R
      BY <1>6, <3>1 DEF Computes
    <3> QED BY <1>3, <1>6, <2>2, <3>1, <3>2 DEF Body, Computes
  <2> QED BY <2>1, <2>2
<1>8. f = [n \in 0..N |-> Body(f, n)]
  BY <1>6, <1>7 DEF Computes
<1>9. kept = [n \in 0..N |-> Body(kept, n)]
  BY <1>8
<1> HIDE DEF kept
<1>10. \A n \in 0..N : kept[n] = Body(kept, n)
  BY <1>9
<1>11. KeptRun(s, S, kept)
  BY <1>5, <1>10
<1>12. 0..N \subseteq {n \in 0..N : kept[n] \in R}
  <2> DEFINE T == {n \in 0..N : kept[n] \in R}
  <2>1. 0 \in T
    BY <1>1, <1>10 DEF Body
  <2>2. ASSUME NEW n \in 1..N, n - 1 \in T PROVE n \in T
    <3>1. n \in 0..N /\ n # 0 /\ kept[n - 1] \in R
      BY <1>1, <2>2
    <3>2. s[n] \in E
      BY DEF N
    <3>3. kept[n] = IF s[n] \in S THEN Append(kept[n - 1], s[n]) ELSE kept[n - 1]
      BY <1>10, <3>1 DEF Body
    <3>4. kept[n] \in R
      BY <3>1, <3>2, <3>3 DEF R
    <3> QED BY <3>1, <3>4
  <2> HIDE DEF T
  <2>3. 0..N \subseteq T
    BY <1>1, <2>1, <2>2, InductionUpTo
  <2> QED BY <2>3 DEF T
<1>13. kept \in [0..N -> R]
  BY <1>9, <1>12
<1> QED BY <1>4, <1>11, <1>13 DEF N, R

\* at picks the elements of the sequence t out of the first n of s, in order.
Picks(at, t, s, n) ==
  /\ at \in [1..Len(t) -> 1..n]
  /\ \A i, j \in 1..Len(t) : i < j => at[i] < at[j]
  /\ \A i \in 1..Len(t) : t[i] = s[at[i]]

\* What was picked out of n - 1 elements is picked out of n.
LEMMA PicksFewer ==
  ASSUME NEW s, NEW t, NEW n \in Nat \ {0}, NEW at, Picks(at, t, s, n - 1)
  PROVE  Picks(at, t, s, n)
BY DEF Picks

\* The n-th element may be picked as well.
LEMMA PicksAnother ==
  ASSUME NEW s, NEW t, NEW u, NEW n \in Nat \ {0}, NEW at, Picks(at, t, s, n - 1),
         Len(t) \in Nat, Len(u) = Len(t) + 1,
         \A i \in 1..Len(t) : u[i] = t[i], u[Len(u)] = s[n]
  PROVE  \E new : Picks(new, u, s, n)
<1> DEFINE m == Len(t)
           new == [i \in 1..(m + 1) |-> IF i = m + 1 THEN n ELSE at[i]]
<1> HIDE DEF m
<1>1. m \in Nat /\ m = Len(t) /\ Len(u) = m + 1
  BY DEF m
<1>2. /\ \A i \in 1..m : at[i] \in 1..(n - 1) /\ t[i] = s[at[i]]
      /\ \A i, j \in 1..m : i < j => at[i] < at[j]
  BY <1>1 DEF Picks
<1>3. /\ \A i \in 1..m : new[i] = at[i] /\ new[i] \in 1..n /\ new[i] < n
      /\ new[m + 1] = n /\ n \in 1..n /\ DOMAIN new = 1..(m + 1)
  BY <1>1, <1>2
<1>4. new = [i \in 1..(m + 1) |-> new[i]]
  OBVIOUS
<1> HIDE DEF new
<1>5. \A i \in 1..(m + 1) : i \in 1..m \/ i = m + 1
  BY <1>1
<1>6. new \in [1..(m + 1) -> 1..n]
  BY <1>3, <1>4, <1>5
<1>7. \A i, j \in 1..(m + 1) : i < j => new[i] < new[j]
  <2> SUFFICES ASSUME NEW i \in 1..(m + 1), NEW j \in 1..(m + 1), i < j
               PROVE  new[i] < new[j]
    OBVIOUS
  <2>1. i \in 1..m
    BY <1>1
  <2> QED BY <1>2, <1>3, <1>5, <2>1
<1>8. \A i \in 1..(m + 1) : u[i] = s[new[i]]
  BY <1>1, <1>2, <1>3, <1>5
<1>9. Picks(new, u, s, n)
  BY <1>1, <1>6, <1>7, <1>8 DEF Picks
<1> QED BY <1>9

\* What Kept returns: the elements of s that are in S, all of them, in the
\* order they have in s.
LEMMA KeptProperties ==
  ASSUME NEW E, NEW s \in Seq(E), NEW S
  PROVE  /\ Kept(s, S) \in Seq(E)
         /\ ToSet(Kept(s, S)) = ToSet(s) \cap S
         /\ \E at : Picks(at, Kept(s, S), s, Len(s))
<1> DEFINE N == Len(s)
<1>1. PICK f \in [0..N -> Seq(E)] : KeptRun(s, S, f) /\ Kept(s, S) = f[N]
  BY KeptUnrolled
<1> DEFINE Only(n) == \A i \in 1..Len(f[n]) : f[n][i] \in S
           All(n) == \A i \in 1..n : s[i] \in S => \E j \in 1..Len(f[n]) : f[n][j] = s[i]
           InOrder(n) == \E at : Picks(at, f[n], s, n)
           T == {n \in 0..N : Only(n) /\ All(n) /\ InOrder(n)}
<1>2. N \in Nat
  OBVIOUS
<1>3. 0 \in T
  <2>1. f[0] = <<>>
    BY <1>1 DEF KeptRun
  <2>2. Picks(<<>>, f[0], s, 0)
    BY <2>1 DEF Picks
  <2> QED BY <1>2, <2>1, <2>2
<1>4. ASSUME NEW n \in 1..N, n - 1 \in T PROVE n \in T
  <2> DEFINE t == f[n - 1]
             u == f[n]
  <2>1. t \in Seq(E) /\ s[n] \in E /\ n \in Nat \ {0} /\ n \in 0..N
    BY <1>2
  <2>2. u = IF s[n] \in S THEN Append(t, s[n]) ELSE t
    BY <1>1 DEF KeptRun
  <2>3. PICK at : Picks(at, t, s, n - 1)
    BY <1>4
  <2>4. /\ \A i \in 1..Len(t) : t[i] \in S
        /\ \A i \in 1..(n - 1) : s[i] \in S => \E j \in 1..Len(t) : t[j] = s[i]
    BY <1>4
  <2>5. \A i \in 1..n : i \in 1..(n - 1) \/ i = n
    BY <2>1
  <2> HIDE DEF t, u, T
  <2>6. CASE s[n] \in S
    <3>1. /\ Len(u) = Len(t) + 1 /\ Len(t) \in Nat
          /\ \A i \in 1..Len(t) : u[i] = t[i]
          /\ u[Len(u)] = s[n]
      BY <2>1, <2>2, <2>6
    <3>2. /\ 1..Len(t) \subseteq 1..Len(u) /\ Len(u) \in 1..Len(u)
          /\ \A i \in 1..Len(u) : i \in 1..Len(t) \/ i = Len(u)
      BY <3>1
    <3>3. \E new : Picks(new, u, s, n)
      BY <2>1, <2>3, <3>1, PicksAnother
    <3>4. \A i \in 1..Len(u) : u[i] \in S
      BY <2>4, <2>6, <3>1, <3>2
    <3>5. \A i \in 1..n : s[i] \in S => \E j \in 1..Len(u) : u[j] = s[i]
      BY <2>4, <2>5, <3>1, <3>2
    <3> QED BY <2>1, <3>3, <3>4, <3>5 DEF T, u
  <2>7. CASE s[n] \notin S
    <3>1. u = t
      BY <2>2, <2>7
    <3>2. Picks(at, u, s, n)
      BY <2>1, <2>3, <3>1, PicksFewer
    <3>3. \A i \in 1..n : s[i] \in S => \E j \in 1..Len(u) : u[j] = s[i]
      BY <2>4, <2>5, <2>7, <3>1
    <3> QED BY <2>1, <2>4, <3>1, <3>2, <3>3 DEF T, u
  <2> QED BY <2>6, <2>7
<1> HIDE DEF T
<1>5. N \in T
  <2> HIDE DEF N
  <2>1. 0..N \subseteq T
    BY <1>2, <1>3, <1>4, InductionUpTo
  <2> QED BY <1>2, <2>1
<1>6. \E at : Picks(at, f[N], s, N)
  BY <1>5 DEF T
<1>7. /\ \A i \in 1..Len(f[N]) : f[N][i] \in S
      /\ \A i \in 1..N : s[i] \in S => \E j \in 1..Len(f[N]) : f[N][j] = s[i]
  BY <1>5 DEF T
<1>8. f[N] \in Seq(E) /\ \A i \in 1..Len(f[N]) : \E j \in 1..N : f[N][i] = s[j]
  BY <1>2, <1>6 DEF Picks
<1>9. ToSet(f[N]) = ToSet(s) \cap S
  <2>1. DOMAIN f[N] = 1..Len(f[N]) /\ DOMAIN s = 1..N
    BY <1>8
  <2>2. ToSet(f[N]) = {f[N][i] : i \in 1..Len(f[N])} /\ ToSet(s) = {s[i] : i \in 1..N}
    BY <2>1, Zenon DEF ToSet
  <2>3. ToSet(f[N]) \subseteq ToSet(s) \cap S
    BY <1>7, <1>8, <2>2
  <2>4. ToSet(s) \cap S \subseteq ToSet(f[N])
    <3> SUFFICES ASSUME NEW i \in 1..N, s[i] \in S PROVE s[i] \in ToSet(f[N])
      BY <2>2
    <3> QED BY <1>7, <2>2
  <2> QED BY <2>3, <2>4
<1> QED BY <1>1, <1>6, <1>8, <1>9

-----------------------------------------------------------------------------
\* A sequence over a set is one over any larger set.
LEMMA SeqOfMore ==
  ASSUME NEW S, NEW T, S \subseteq T, NEW s \in Seq(S)
  PROVE  s \in Seq(T)
<1>1. Len(s) \in Nat /\ s \in [1..Len(s) -> S]
  OBVIOUS
<1>2. \A i \in 1..Len(s) : s[i] \in T
  BY <1>1
<1>3. s = [i \in 1..Len(s) |-> s[i]]
  BY <1>1
<1>4. [i \in 1..Len(s) |-> s[i]] \in Seq(T)
  BY <1>1, <1>2
<1> QED BY <1>3, <1>4

\* Concatenation joins the elements of two sequences.
LEMMA ConcatElements ==
  ASSUME NEW E, NEW s \in Seq(E), NEW t \in Seq(E)
  PROVE  s \o t \in Seq(E) /\ ToSet(s \o t) = ToSet(s) \cup ToSet(t)
<1> DEFINE st == s \o t
<1>1. /\ st \in Seq(E) /\ Len(st) = Len(s) + Len(t)
      /\ \A i \in 1..Len(st) : st[i] = IF i <= Len(s) THEN s[i] ELSE t[i - Len(s)]
  OBVIOUS
<1>2. Len(s) \in Nat /\ Len(t) \in Nat
  OBVIOUS
<1>3. /\ ToSet(st) = {st[i] : i \in 1..Len(st)}
      /\ ToSet(s) = {s[i] : i \in 1..Len(s)} /\ ToSet(t) = {t[i] : i \in 1..Len(t)}
  <2>1. DOMAIN st = 1..Len(st) /\ DOMAIN s = 1..Len(s) /\ DOMAIN t = 1..Len(t)
    BY <1>1
  <2> QED BY <2>1, Zenon DEF ToSet
<1> HIDE DEF st
<1>4. ASSUME NEW i \in 1..Len(st) PROVE st[i] \in ToSet(s) \cup ToSet(t)
  <2>1. CASE i <= Len(s)
    BY <1>1, <1>2, <1>3, <2>1
  <2>2. CASE ~(i <= Len(s))
    <3>1. i - Len(s) \in 1..Len(t) /\ st[i] = t[i - Len(s)]
      BY <1>1, <1>2, <2>2
    <3> QED BY <1>3, <3>1
  <2> QED BY <2>1, <2>2
<1>5. ASSUME NEW i \in 1..Len(s) PROVE s[i] \in ToSet(st)
  <2>1. i \in 1..Len(st) /\ st[i] = s[i]
    BY <1>1, <1>2
  <2> QED BY <1>3, <2>1
<1>6. ASSUME NEW i \in 1..Len(t) PROVE t[i] \in ToSet(st)
  <2>1. i + Len(s) \in 1..Len(st) /\ st[i + Len(s)] = t[i]
    BY <1>1, <1>2
  <2> QED BY <1>3, <2>1
<1>7. ToSet(st) = ToSet(s) \cup ToSet(t)
  BY <1>3, <1>4, <1>5, <1>6
<1> QED BY <1>1, <1>7 DEF st

\* Inserting adds the one element and loses none.
LEMMA InsertedElements ==
  ASSUME NEW E \in SUBSET Int, NEW t \in Seq(E), NEW x \in E
  PROVE  Inserted(t, x) \in Seq(E) /\ ToSet(Inserted(t, x)) = ToSet(t) \cup {x}
<1> DEFINE low == Kept(t, {y \in ToSet(t) : y <= x})
           high == Kept(t, {y \in ToSet(t) : y > x})
<1>1. low \in Seq(E) /\ ToSet(low) = {y \in ToSet(t) : y <= x}
  BY KeptProperties
<1>2. high \in Seq(E) /\ ToSet(high) = {y \in ToSet(t) : y > x}
  BY KeptProperties
<1>3. ToSet(t) \subseteq E
  BY DEF ToSet
<1>4. <<x>> \in Seq(E) /\ ToSet(<<x>>) = {x}
  BY DEF ToSet
<1> HIDE DEF low, high
<1>41. \A u, v \in Seq(E) : u \o v \in Seq(E) /\ ToSet(u \o v) = ToSet(u) \cup ToSet(v)
  BY ConcatElements
<1>5. low \o <<x>> \in Seq(E) /\ ToSet(low \o <<x>>) = ToSet(low) \cup {x}
  BY <1>1, <1>4, <1>41
<1>6. /\ (low \o <<x>>) \o high \in Seq(E)
      /\ ToSet((low \o <<x>>) \o high) = ToSet(low) \cup {x} \cup ToSet(high)
  BY <1>2, <1>5, <1>41
<1>7. \A y \in ToSet(t) : y <= x \/ y > x
  <2>1. \A y \in Int : y <= x \/ y > x
    OBVIOUS
  <2> QED BY <1>3, <2>1
<1>8. ToSet(low) \cup {x} \cup ToSet(high) = ToSet(t) \cup {x}
  BY <1>1, <1>2, <1>7
<1> QED BY <1>6, <1>8 DEF Inserted, low, high

\* The recursion of Sorted: the first n elements in order, for each n.
SortedRun(s, f) ==
  f[0] = <<>> /\ \A n \in 1..Len(s) : f[n] = Inserted(f[n - 1], s[n])

LEMMA SortedUnrolled ==
  ASSUME NEW E \in SUBSET Int, NEW s \in Seq(E)
  PROVE  \E f : /\ SortedRun(s, f) /\ Sorted(s) = f[Len(s)]
                /\ \A n \in 0..Len(s) : /\ f[n] \in Seq(E)
                                        /\ ToSet(f[n]) = {s[i] : i \in 1..n}
<1> DEFINE N == Len(s)
           R == Seq(E)
           step == [n \in 1..N |-> [t \in R |-> Inserted(t, s[n])]]
           Body(f, n) == IF n = 0 THEN <<>> ELSE Inserted(f[n - 1], s[n])
           sorted == CHOOSE f : f = [n \in 0..N |-> Body(f, n)]
           Upto(n) == {s[i] : i \in 1..n}
<1>1. N \in Nat /\ <<>> \in R
  OBVIOUS
<1>2. \A t \in Seq(E), x \in E :
         Inserted(t, x) \in Seq(E) /\ ToSet(Inserted(t, x)) = ToSet(t) \cup {x}
  BY InsertedElements
<1>3. \A t \in R, n \in 1..N : Inserted(t, s[n]) \in R
  <2>1. \A n \in 1..N : s[n] \in E
    OBVIOUS
  <2> QED BY <1>2, <2>1
<1>4. Recursion(N, R, <<>>, step)
  BY <1>1, <1>3 DEF Recursion
<1>5. \A t \in R, n \in 1..N : step[n][t] = Inserted(t, s[n])
  OBVIOUS
<1>6. Sorted(s) = sorted[N]
  BY DEF Sorted
<1> HIDE DEF N, R, step, Body
<1>7. PICK f : Computes(f, N, R, <<>>, step)
  BY <1>4, StepwiseFunction
<1>8. \A n \in 0..N : f[n] = Body(f, n)
  <2> TAKE n \in 0..N
  <2>1. CASE n = 0
    BY <1>7, <2>1 DEF Body, Computes
  <2>2. CASE n # 0
    <3>1. n \in 1..N /\ n - 1 \in 0..N
      BY <1>1, <2>2
    <3>2. f[n - 1] \in R
      BY <1>7, <3>1 DEF Computes
    <3> QED BY <1>5, <1>7, <2>2, <3>1, <3>2 DEF Body, Computes
  <2> QED BY <2>1, <2>2
<1>9. f = [n \in 0..N |-> Body(f, n)]
  BY <1>7, <1>8 DEF Computes
<1>10. sorted = [n \in 0..N |-> Body(sorted, n)]
  BY <1>9
<1> HIDE DEF sorted
<1>11. \A n \in 0..N : sorted[n] = Body(sorted, n)
  BY <1>10
<1> DEFINE T == {n \in 0..N : sorted[n] \in R /\ ToSet(sorted[n]) = Upto(n)}
<1>12. 0 \in T
  <2>1. sorted[0] = <<>>
    BY <1>1, <1>11 DEF Body
  <2> QED BY <1>1, <2>1 DEF ToSet
<1>13. ASSUME NEW n \in 1..N, n - 1 \in T PROVE n \in T
  <2>1. sorted[n] = Inserted(sorted[n - 1], s[n])
    BY <1>1, <1>11 DEF Body
  <2>2. s[n] \in E
    BY DEF N
  <2>3. sorted[n - 1] \in Seq(E) /\ ToSet(sorted[n - 1]) = Upto(n - 1)
    BY <1>13 DEF R
  <2> HIDE DEF Upto
  <2>4. sorted[n] \in Seq(E) /\ ToSet(sorted[n]) = Upto(n - 1) \cup {s[n]}
    BY <1>2, <2>1, <2>2, <2>3
  <2>5. Upto(n) = Upto(n - 1) \cup {s[n]}
    BY <1>1 DEF Upto
  <2>6. n \in 0..N
    BY <1>1
  <2>7. sorted[n] \in R /\ ToSet(sorted[n]) = Upto(n)
    BY <2>4, <2>5 DEF R
  <2> QED BY <2>6, <2>7
<1> HIDE DEF T
<1>14. 0..N \subseteq T
  BY <1>1, <1>12, <1>13, InductionUpTo
<1>15. \A n \in 0..N : sorted[n] \in R /\ ToSet(sorted[n]) = Upto(n)
  BY <1>14 DEF T
<1>16. SortedRun(s, sorted)
  <2>1. sorted[0] = <<>>
    BY <1>1, <1>11 DEF Body
  <2>2. \A n \in 1..N : sorted[n] = Inserted(sorted[n - 1], s[n])
    <3> TAKE n \in 1..N
    <3>1. n \in 0..N /\ n # 0
      BY <1>1
    <3> QED BY <1>11, <3>1 DEF Body
  <2> QED BY <2>1, <2>2 DEF SortedRun, N
<1> QED BY <1>6, <1>15, <1>16 DEF N, R

\* Sorting keeps the elements.
LEMMA SortedElements ==
  ASSUME NEW E \in SUBSET Int, NEW s \in Seq(E)
  PROVE  Sorted(s) \in Seq(E) /\ ToSet(Sorted(s)) = ToSet(s)
<1>1. Len(s) \in 0..Len(s) /\ ToSet(s) = {s[i] : i \in 1..Len(s)}
  BY DEF ToSet
<1> QED BY <1>1, SortedUnrolled

\* Each element is smaller than those behind it, or, where repeats are let
\* through, equal to them.
Ordered(t, repeats) ==
  \A i, j \in 1..Len(t) : i < j => t[i] < t[j] \/ (repeats /\ t[i] = t[j])

Ascends(t) == \A i, j \in 1..Len(t) : i < j => t[i] < t[j]

\* Keeping some elements of an ordered sequence.
LEMMA KeptOrdered ==
  ASSUME NEW E \in SUBSET Int, NEW t \in Seq(E), NEW S, NEW R \in BOOLEAN, Ordered(t, R)
  PROVE  Ordered(Kept(t, S), R)
<1>1. PICK at : Picks(at, Kept(t, S), t, Len(t))
  BY KeptProperties
<1>2. Len(Kept(t, S)) \in Nat /\ Len(t) \in Nat
  BY KeptProperties
<1> QED BY <1>1, <1>2 DEF Picks, Ordered

\* Inserting an element into an ordered sequence leaves it ordered.
LEMMA InsertedOrdered ==
  ASSUME NEW E \in SUBSET Int, NEW t \in Seq(E), NEW x \in E, NEW R \in BOOLEAN,
         Ordered(t, R), R \/ x \notin ToSet(t)
  PROVE  Ordered(Inserted(t, x), R)
<1> DEFINE low == Kept(t, {y \in ToSet(t) : y <= x})
           high == Kept(t, {y \in ToSet(t) : y > x})
           m == Len(low)
           all == Inserted(t, x)
<1>1. low \in Seq(E) /\ ToSet(low) = {y \in ToSet(t) : y <= x} /\ Ordered(low, R)
  BY KeptProperties, KeptOrdered
<1>2. high \in Seq(E) /\ ToSet(high) = {y \in ToSet(t) : y > x} /\ Ordered(high, R)
  BY KeptProperties, KeptOrdered
<1>3. all = low \o <<x>> \o high
  BY DEF Inserted
<1> HIDE DEF low, high, all
<1>4. \A i \in 1..Len(low) : low[i] \in Int /\ (low[i] < x \/ (R /\ low[i] = x))
  <2> TAKE i \in 1..Len(low)
  <2>1. low[i] \in ToSet(low) /\ low[i] \in Int
    <3>1. DOMAIN low = 1..Len(low) /\ low[i] \in E
      BY <1>1
    <3> QED BY <3>1 DEF ToSet
  <2>2. (R \/ low[i] # x) /\ low[i] <= x
    BY <1>1, <2>1
  <2> QED BY <2>1, <2>2
<1>5. \A i \in 1..Len(high) : high[i] \in Int /\ x < high[i]
  <2> TAKE i \in 1..Len(high)
  <2>1. high[i] \in ToSet(high) /\ high[i] \in Int
    <3>1. DOMAIN high = 1..Len(high) /\ high[i] \in E
      BY <1>2
    <3> QED BY <3>1 DEF ToSet
  <2> QED BY <1>2, <2>1
<1>6. m \in Nat /\ Len(high) \in Nat
  BY <1>1, <1>2
<1>7. /\ Len(all) = m + 1 + Len(high)
      /\ \A i \in 1..Len(all) :
           all[i] = IF i <= m THEN low[i] ELSE IF i = m + 1 THEN x ELSE high[i - (m + 1)]
  <2>1. low \o <<x>> \in Seq(E) /\ Len(low \o <<x>>) = m + 1
    BY <1>1
  <2>2. \A i \in 1..(m + 1) : (low \o <<x>>)[i] = IF i <= m THEN low[i] ELSE x
    BY <1>1
  <2> DEFINE front == low \o <<x>>
  <2> HIDE DEF front, m
  <2>3. /\ Len(front \o high) = Len(front) + Len(high)
        /\ \A i \in 1..Len(front \o high) :
             (front \o high)[i] = IF i <= Len(front) THEN front[i] ELSE high[i - Len(front)]
    BY <1>2, <2>1 DEF front
  <2>4. all = front \o high /\ Len(front) = m + 1
    BY <1>3, <2>1 DEF front, m
  <2>5. Len(all) = m + 1 + Len(high)
    BY <2>3, <2>4
  <2>6. ASSUME NEW i \in 1..Len(all)
        PROVE  all[i] = IF i <= m THEN low[i] ELSE IF i = m + 1 THEN x ELSE high[i - (m + 1)]
    <3>1. all[i] = IF i <= m + 1 THEN front[i] ELSE high[i - (m + 1)]
      BY <2>3, <2>4, <2>6
    <3>2. i \in 1..(m + 1) => front[i] = IF i <= m THEN low[i] ELSE x
      BY <2>2 DEF front
    <3> QED BY <1>6, <2>5, <3>1, <3>2
  <2> QED BY <2>5, <2>6
<1> HIDE DEF m
<1> SUFFICES ASSUME NEW i \in 1..Len(all), NEW j \in 1..Len(all), i < j
             PROVE  all[i] < all[j] \/ (R /\ all[i] = all[j])
  BY DEF Ordered, all
<1>8. CASE j <= m
  <2>1. i \in 1..m /\ j \in 1..m /\ all[i] = low[i] /\ all[j] = low[j]
    BY <1>6, <1>7, <1>8
  <2> QED BY <1>1, <2>1 DEF Ordered, m
<1>9. CASE j = m + 1
  <2>1. i \in 1..m /\ all[i] = low[i] /\ all[j] = x
    BY <1>6, <1>7, <1>9
  <2> QED BY <1>4, <2>1 DEF m
<1>10. CASE j > m + 1
  <2>1. j - (m + 1) \in 1..Len(high) /\ all[j] = high[j - (m + 1)]
    BY <1>6, <1>7, <1>10
  <2>2. CASE i <= m
    <3>1. i \in 1..m /\ all[i] = low[i]
      BY <1>6, <1>7, <2>2
    <3>2. low[i] \in Int /\ (low[i] < x \/ (R /\ low[i] = x))
      BY <1>4, <3>1 DEF m
    <3>3. all[j] \in Int /\ x < all[j] /\ x \in Int
      BY <1>5, <2>1
    <3> QED BY <3>1, <3>2, <3>3
  <2>3. CASE i = m + 1
    BY <1>5, <1>6, <1>7, <2>1, <2>3
  <2>4. CASE i > m + 1
    <3>1. i - (m + 1) \in 1..Len(high) /\ all[i] = high[i - (m + 1)]
          /\ i - (m + 1) < j - (m + 1)
      BY <1>6, <1>7, <2>4
    <3> QED BY <1>2, <2>1, <3>1 DEF Ordered
  <2> QED BY <1>6, <2>2, <2>3, <2>4
<1> QED BY <1>6, <1>8, <1>9, <1>10

\* Sorting puts each element before the larger ones, and equals side by side.
LEMMA SortedOrdered ==
  ASSUME NEW E \in SUBSET Int, NEW s \in Seq(E), NEW R \in BOOLEAN, R \/ IsInjective(s)
  PROVE  Ordered(Sorted(s), R)
<1> DEFINE N == Len(s)
<1>1. PICK f : /\ SortedRun(s, f) /\ Sorted(s) = f[Len(s)]
               /\ \A n \in 0..Len(s) : f[n] \in Seq(E) /\ ToSet(f[n]) = {s[i] : i \in 1..n}
  BY SortedUnrolled
<1>2. N \in Nat /\ (\A n \in 1..N : s[n] \in E)
      /\ (R \/ \A i, j \in 1..N : s[i] = s[j] => i = j)
  BY DEF IsInjective
<1> HIDE DEF N
<1> DEFINE T == {n \in 0..N : Ordered(f[n], R)}
<1>3. 0 \in T
  <2>1. f[0] = <<>>
    BY <1>1 DEF SortedRun
  <2> QED BY <1>2, <2>1 DEF Ordered
<1>4. ASSUME NEW n \in 1..N, n - 1 \in T PROVE n \in T
  <2>1. f[n] = Inserted(f[n - 1], s[n])
    BY <1>1 DEF SortedRun, N
  <2>2. n - 1 \in 0..N /\ n \in 0..N
    BY <1>2
  <2>3. f[n - 1] \in Seq(E) /\ ToSet(f[n - 1]) = {s[i] : i \in 1..(n - 1)}
    BY <1>1, <2>2 DEF N
  <2>4. R \/ s[n] \notin {s[i] : i \in 1..(n - 1)}
    <3> SUFFICES ASSUME ~R, NEW i \in 1..(n - 1), s[n] = s[i] PROVE FALSE
      OBVIOUS
    <3>1. i \in 1..N /\ i # n
      BY <1>2
    <3> QED BY <1>2, <3>1
  <2>5. Ordered(f[n - 1], R) /\ s[n] \in E
    BY <1>2, <1>4
  <2>6. Ordered(Inserted(f[n - 1], s[n]), R)
    BY <2>3, <2>4, <2>5, InsertedOrdered
  <2> QED BY <2>1, <2>2, <2>6
<1> HIDE DEF T
<1>5. 0..N \subseteq T
  BY <1>2, <1>3, <1>4, InductionUpTo
<1>6. N \in 0..N
  BY <1>2
<1> QED BY <1>1, <1>5, <1>6 DEF T, N

\* Without repeats, the order is strict.
LEMMA SortedAscends ==
  ASSUME NEW E \in SUBSET Int, NEW s \in Seq(E), IsInjective(s)
  PROVE  Ascends(Sorted(s))
<1>1. Ordered(Sorted(s), FALSE)
  BY SortedOrdered
<1> QED BY <1>1 DEF Ordered, Ascends

-----------------------------------------------------------------------------
\* What is picked in order from what was picked in order is in order.
LEMMA PicksCompose ==
  ASSUME NEW r, NEW s, NEW t, NEW f, NEW g, NEW n \in Nat,
         Len(s) \in Nat, Len(t) \in Nat,
         Picks(f, t, s, Len(s)), Picks(g, s, r, n)
  PROVE  \E h : Picks(h, t, r, n)
<1> DEFINE h == [i \in 1..Len(t) |-> g[f[i]]]
<1>1. \A i \in 1..Len(t) : f[i] \in 1..Len(s)
  BY DEF Picks
<1>2. h \in [1..Len(t) -> 1..n]
  BY <1>1 DEF Picks
<1>3. \A i, j \in 1..Len(t) : i < j => h[i] < h[j]
  BY <1>1 DEF Picks
<1>4. \A i \in 1..Len(t) : t[i] = r[h[i]]
  BY <1>1 DEF Picks
<1> HIDE DEF h
<1>5. Picks(h, t, r, n)
  BY <1>2, <1>3, <1>4 DEF Picks
<1> QED BY <1>5

-----------------------------------------------------------------------------
\* The elements of a sequence are finitely many.
LEMMA FiniteElements ==
  ASSUME NEW E, NEW s \in Seq(E)
  PROVE  IsFiniteSet(DOMAIN s) /\ IsFiniteSet(ToSet(s))
<1> DEFINE N == Len(s)
           D == 1..N
           S == ToSet(s)
<1>1. N \in Nat /\ DOMAIN s = D
  OBVIOUS
<1>2. IsFiniteSet(D)
  BY <1>1, FS_Interval
<1>3. s \in [D -> S] /\ \A y \in S : \E x \in D : s[x] = y
  BY <1>1 DEF ToSet
<1> HIDE DEF D, S
<1>4. s \in Surjection(D, S)
  BY <1>3 DEF Surjection
<1>5. IsFiniteSet(S)
  BY <1>2, <1>4, FS_Surjection
<1> QED BY <1>1, <1>2, <1>5 DEF S

\* A finite set listed in some order.
LEMMA SetToSeqElements ==
  ASSUME NEW S, IsFiniteSet(S)
  PROVE  /\ SetToSeq(S) \in Seq(S) /\ ToSet(SetToSeq(S)) = S
         /\ IsInjective(SetToSeq(S))
<1> DEFINE n == Cardinality(S)
           D == 1..n
           Listing(f) == f \in [D -> S] /\ IsInjective(f)
           s == SetToSeq(S)
<1>1. n \in Nat /\ ExistsBijection(D, S)
  BY FS_CardinalityType
<1>2. IsFiniteSet(D) /\ Cardinality(D) = n
  <2>1. IsFiniteSet(1..n) /\ Cardinality(1..n) = IF 1 > n THEN 0 ELSE n - 1 + 1
    <3> HIDE DEF n
    <3> QED BY <1>1, FS_Interval
  <2> QED BY <1>1, <2>1
<1>3. \E f : Listing(f)
  BY <1>1 DEF ExistsBijection, Bijection, Injection
<1>4. s = CHOOSE f \in [D -> S] : IsInjective(f)
  BY DEF SetToSeq
<1>5. s \in [D -> S] /\ IsInjective(s)
  <2> HIDE DEF s, D
  <2> QED BY <1>3, <1>4
<1>6. s \in Surjection(D, S)
  <2> HIDE DEF s, D
  <2>1. s \in Injection(D, S)
    BY <1>5 DEF Injection
  <2>2. Cardinality(D) = Cardinality(S)
    BY <1>2
  <2> QED BY <2>1, <2>2, FS_Injection
<1>7. \A y \in S : \E x \in D : s[x] = y
  BY <1>6 DEF Surjection
<1>8. s \in Seq(S) /\ DOMAIN s = D
  BY <1>1, <1>5
<1> HIDE DEF s, D
<1> QED BY <1>5, <1>7, <1>8 DEF ToSet, s

\* The recursion of FlattenSeq: the first n sequences joined, for each n.
FlattenRun(ss, f) ==
  /\ f[0] = <<>>
  /\ \A n \in 1..Len(ss) : f[n] = f[n - 1] \o ss[n]

LEMMA FlattenUnrolled ==
  ASSUME NEW E, NEW ss \in Seq(Seq(E))
  PROVE  \E f : /\ FlattenRun(ss, f) /\ FlattenSeq(ss) = f[Len(ss)]
                /\ \A n \in 0..Len(ss) :
                     /\ f[n] \in Seq(E)
                     /\ ToSet(f[n]) = UNION {ToSet(ss[i]) : i \in 1..n}
<1> DEFINE N == Len(ss)
           R == Seq(E)
           step == [n \in 1..N |-> [t \in R |-> t \o ss[n]]]
           Body(f, i) == IF i = 1 THEN ss[i] ELSE f[i - 1] \o ss[i]
           flatten == CHOOSE f : f = [i \in 1..N |-> Body(f, i)]
           joined == [n \in 0..N |-> IF n = 0 THEN <<>> ELSE flatten[n]]
           Upto(n) == UNION {ToSet(ss[i]) : i \in 1..n}
<1>1. N \in Nat /\ <<>> \in R /\ \A n \in 1..N : ss[n] \in R
  OBVIOUS
<1>2. \A s, t \in Seq(E) : s \o t \in Seq(E) /\ ToSet(s \o t) = ToSet(s) \cup ToSet(t)
  BY ConcatElements
<1>3. Recursion(N, R, <<>>, step)
  BY <1>1, <1>2 DEF Recursion
<1>4. \A t \in R, n \in 1..N : step[n][t] = t \o ss[n]
  OBVIOUS
<1>5. \A t \in R : <<>> \o t = t
  OBVIOUS
<1>6. /\ N # 0 => FlattenSeq(ss) = flatten[N]
      /\ N = 0 => FlattenSeq(ss) = <<>>
  BY DEF FlattenSeq
<1> HIDE DEF N, R, step, Body
<1>7. PICK f : Computes(f, N, R, <<>>, step)
  BY <1>3, StepwiseFunction
<1> DEFINE g == [i \in 1..N |-> f[i]]
<1>8. \A i \in 1..N : g[i] = Body(g, i)
  <2> TAKE i \in 1..N
  <2>1. f[i - 1] \in R /\ f[i] = f[i - 1] \o ss[i]
    <3>1. i - 1 \in 0..N
      BY <1>1
    <3>2. f[i - 1] \in R /\ f[i] = step[i][f[i - 1]]
      BY <1>7, <3>1 DEF Computes
    <3> QED BY <1>4, <3>2
  <2>2. CASE i = 1
    <3>1. f[0] = <<>> /\ i - 1 = 0
      BY <1>7, <2>2 DEF Computes
    <3>2. f[i] = <<>> \o ss[i] /\ ss[i] \in R
      BY <1>1, <2>1, <3>1
    <3> QED BY <1>5, <2>2, <3>2 DEF Body
  <2>3. CASE i # 1
    <3>1. i - 1 \in 1..N
      BY <1>1, <2>3
    <3> QED BY <2>1, <2>3, <3>1 DEF Body
  <2> QED BY <2>2, <2>3
<1>9. g = [i \in 1..N |-> Body(g, i)]
  BY <1>8
<1> HIDE DEF g
<1>10. flatten = [i \in 1..N |-> Body(flatten, i)]
  BY <1>9
<1> HIDE DEF flatten
<1>11. \A i \in 1..N : flatten[i] = Body(flatten, i)
  BY <1>10
<1>12. joined[0] = <<>> /\ \A n \in 1..N : joined[n] = flatten[n]
  BY <1>1
<1>13. FlattenSeq(ss) = joined[N]
  <2>1. N = 0 \/ N \in 1..N
    BY <1>1
  <2> HIDE DEF joined
  <2> QED BY <1>6, <1>12, <2>1
<1> HIDE DEF joined
<1>14. \A n \in 1..N : joined[n] = joined[n - 1] \o ss[n]
  <2> TAKE n \in 1..N
  <2>1. CASE n = 1
    <3>1. flatten[n] = ss[n] /\ joined[n - 1] = <<>> /\ ss[n] \in R
      BY <1>1, <1>11, <1>12, <2>1 DEF Body
    <3> QED BY <1>5, <1>12, <3>1
  <2>2. CASE n # 1
    <3>1. n - 1 \in 1..N
      BY <1>1, <2>2
    <3> QED BY <1>11, <1>12, <2>2, <3>1 DEF Body
  <2> QED BY <2>1, <2>2
<1> DEFINE T == {n \in 0..N : joined[n] \in R /\ ToSet(joined[n]) = Upto(n)}
<1>15. 0 \in T
  BY <1>1, <1>12 DEF ToSet
<1>16. ASSUME NEW n \in 1..N, n - 1 \in T PROVE n \in T
  <2>1. ss[n] \in Seq(E)
    BY <1>1 DEF R
  <2>2. Upto(n) = Upto(n - 1) \cup ToSet(ss[n])
    BY <1>1
  <2>3. joined[n] = joined[n - 1] \o ss[n]
    BY <1>14
  <2>5. n \in 0..N
    BY <1>1
  <2>4. joined[n - 1] \in Seq(E) /\ ToSet(joined[n - 1]) = Upto(n - 1)
    BY <1>16 DEF R
  <2> HIDE DEF Upto
  <2>6. joined[n] \in Seq(E) /\ ToSet(joined[n]) = Upto(n - 1) \cup ToSet(ss[n])
    BY <1>2, <2>1, <2>3, <2>4
  <2> QED BY <2>2, <2>5, <2>6 DEF R
<1> HIDE DEF T
<1>17. 0..N \subseteq T
  BY <1>1, <1>15, <1>16, InductionUpTo
<1>18. \A n \in 0..N : joined[n] \in R /\ ToSet(joined[n]) = Upto(n)
  BY <1>17 DEF T
<1> QED BY <1>12, <1>13, <1>14, <1>18 DEF FlattenRun, N, R

\* FlattenSeq joins sequences into one, which has the elements of them all.
LEMMA FlattenElements ==
  ASSUME NEW E, NEW ss \in Seq(Seq(E))
  PROVE  /\ FlattenSeq(ss) \in Seq(E)
         /\ ToSet(FlattenSeq(ss)) = UNION {ToSet(ss[i]) : i \in 1..Len(ss)}
<1>1. PICK f : /\ FlattenRun(ss, f) /\ FlattenSeq(ss) = f[Len(ss)]
               /\ \A n \in 0..Len(ss) :
                    /\ f[n] \in Seq(E)
                    /\ ToSet(f[n]) = UNION {ToSet(ss[i]) : i \in 1..n}
  BY FlattenUnrolled
<1>2. Len(ss) \in 0..Len(ss)
  OBVIOUS
<1> QED BY <1>1, <1>2

=============================================================================
