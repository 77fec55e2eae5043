--------------------------- MODULE BcapCodecProof ---------------------------
(***************************************************************************)
(* What is sent is read again, for any VARIANTs in VARIANTs and any number *)
(* of arguments: the three walks over the arguments of a packet agree.     *)
(***************************************************************************)
EXTENDS Libraries, WellFoundedInduction, TLAPS
-----------------------------------------------------------------------------
(* Recursion along 0..n *)

\* A nonempty set of natural numbers has a least element.
LEMMA Least ==
    ASSUME NEW T \in SUBSET Nat, T # {}
    PROVE  \E x \in T : \A y \in T : x <= y
<1>1. IsWellFoundedOn(OpToRel(<, Nat), Nat)
  BY NatLessThanWellFounded
<1>2. PICK x \in T : \A y \in T : <<y, x>> \notin OpToRel(<, Nat)
  BY <1>1, WFMin
<1>3. OpToRel(<, Nat) = {ss \in Nat \X Nat : ss[1] < ss[2]}
  BY Zenon DEF OpToRel
<1>4. \A y \in T : <<y, x>> \notin {ss \in Nat \X Nat : ss[1] < ss[2]}
  BY <1>2, <1>3, Zenon
<1>5. ASSUME NEW y \in T PROVE x <= y
  <2>1. x \in Nat /\ y \in Nat
    OBVIOUS
  <2>2. <<y, x>> \in Nat \X Nat /\ ~(<<y, x>>[1] < <<y, x>>[2])
    BY <1>4, <2>1
  <2> QED
    BY <2>1, <2>2
<1> QED
  BY <1>5

\* The numbers that something is true of, if it goes on from each to the next.
LEMMA Upwards ==
    ASSUME NEW n \in Nat, NEW T, 0 \in T, \A i \in 1..n : i - 1 \in T => i \in T
    PROVE  \A i \in 0..n : i \in T
<1> SUFFICES ASSUME {i \in 0..n : i \notin T} # {} PROVE FALSE
  OBVIOUS
<1>1. PICK k \in {i \in 0..n : i \notin T} : \A y \in {i \in 0..n : i \notin T} : k <= y
  BY Least, {i \in 0..n : i \notin T} \in SUBSET Nat
<1>2. k \in 1..n
  BY <1>1
<1>3. k - 1 \in 0..n /\ ~(k <= k - 1)
  BY <1>2
<1> QED
  BY <1>1, <1>2, <1>3

\* Two functions that begin and go on alike are equal.
Alike(f, g, n) == f[0] = g[0] /\ \A i \in 1..n : f[i - 1] = g[i - 1] => f[i] = g[i]

Equal(f, g, n) == \A i \in 0..n : f[i] = g[i]

LEMMA AlikeAreEqual ==
    ASSUME NEW n \in Nat, NEW f, NEW g, Alike(f, g, n)
    PROVE  Equal(f, g, n)
<1> USE DEF Alike, Equal
<1> DEFINE T == {i \in 0..n : f[i] = g[i]}
<1>1. 0 \in T
  OBVIOUS
<1>2. ASSUME NEW i \in 1..n, i - 1 \in T PROVE i \in T
  BY <1>2
<1> HIDE DEF T
<1>3. \A i \in 0..n : i \in T
  BY <1>1, <1>2, Upwards
<1> QED
  BY <1>3 DEF T

\* f begins with a and goes on with step.
Follows(f, a, step, n) == f[0] = a /\ \A i \in 1..n : f[i] = step[i][f[i - 1]]

Within(step, n, S) == \A i \in 1..n : \A s \in S : step[i][s] \in S

\* There is such a function.
LEMMA GoesOn ==
    ASSUME NEW S, NEW a \in S, NEW n \in Nat, NEW step, Within(step, n, S)
    PROVE  \E f \in [0..n -> S] : Follows(f, a, step, n)
<1> USE DEF Follows, Within
<1> DEFINE T == {k \in 0..n : \E f \in [0..k -> S] :
                   f[0] = a /\ \A i \in 1..k : f[i] = step[i][f[i - 1]]}
<1>1. 0 \in T
  <2> DEFINE f == [i \in 0..0 |-> a]
  <2>1. f \in [0..0 -> S] /\ f[0] = a /\ 1..0 = {}
    OBVIOUS
  <2> HIDE DEF f
  <2>2. \E g \in [0..0 -> S] : g[0] = a /\ \A i \in 1..0 : g[i] = step[i][g[i - 1]]
    BY <2>1
  <2> QED
    BY <2>2
<1>2. ASSUME NEW k \in 1..n, k - 1 \in T PROVE k \in T
  <2>1. PICK f \in [0..k - 1 -> S] :
          f[0] = a /\ \A i \in 1..k - 1 : f[i] = step[i][f[i - 1]]
    BY <1>2
  <2> DEFINE g == [i \in 0..k |-> IF i = k THEN step[k][f[k - 1]] ELSE f[i]]
  <2>2. f[k - 1] \in S /\ step[k][f[k - 1]] \in S
    OBVIOUS
  <2>3. g \in [0..k -> S] /\ g[0] = a
    BY <2>1, <2>2
  <2>4. \A i \in 1..k : g[i - 1] = f[i - 1] /\ g[i] = IF i = k THEN step[k][f[k - 1]] ELSE f[i]
    OBVIOUS
  <2>5. \A i \in 1..k : g[i] = step[i][g[i - 1]]
    BY <2>1, <2>4
  <2> HIDE DEF g
  <2> QED
    BY <2>3, <2>5
<1> HIDE DEF T
<1>3. \A k \in 0..n : k \in T
  BY <1>1, <1>2, Upwards
<1>4. n \in T
  BY <1>3
<1> QED
  BY <1>4 DEF T
-----------------------------------------------------------------------------
(* Sums and joined sequences *)

\* The partial sums of ns.
Sums(sum, ns) == sum[0] = 0 /\ \A i \in 1..Len(ns) : sum[i] = sum[i - 1] + ns[i]

LEMMA SumOfSteps ==
    ASSUME NEW ns \in Seq(Nat)
    PROVE  \E sum \in [0..Len(ns) -> Nat] : Sums(sum, ns) /\ CD!SumOf(ns) = sum[Len(ns)]
<1> DEFINE n == Len(ns)
           step == [i \in 1..n |-> [m \in Nat |-> m + ns[i]]]
<1>1. n \in Nat /\ 0 \in Nat
  OBVIOUS
<1>2. \A i \in 1..n : \A m \in Nat : step[i][m] = m + ns[i] /\ step[i][m] \in Nat
  <2> TAKE i \in 1..n
  <2> TAKE m \in Nat
  <2>1. step[i][m] = m + ns[i]
    OBVIOUS
  <2>2. ns[i] \in Nat
    OBVIOUS
  <2>3. m + ns[i] \in Nat
    BY <2>2
  <2> QED
    BY <2>1, <2>3, Zenon
<1> HIDE DEF step, n
<1>3. Within(step, n, Nat)
  BY <1>2 DEF Within
<1>4. PICK f \in [0..n -> Nat] : Follows(f, 0, step, n)
  BY <1>1, <1>3, GoesOn
<1>5. f[0] = 0 /\ \A i \in 1..n : f[i - 1] \in Nat /\ f[i] = f[i - 1] + ns[i]
  <2>1. \A i \in 1..n : f[i - 1] \in Nat
    BY <1>1
  <2>2. f[0] = 0 /\ \A i \in 1..n : f[i] = step[i][f[i - 1]]
    BY <1>4 DEF Follows
  <2> QED
    BY <1>2, <2>1, <2>2, Zenon
<1> DEFINE Step(g) == [i \in 0..n |-> IF i = 0 THEN 0 ELSE g[i - 1] + ns[i]]
           sum == CHOOSE g : g = Step(g)
<1>6. f = Step(f)
  <2>1. f = [i \in 0..n |-> f[i]]
    OBVIOUS
  <2>2. ASSUME NEW i \in 0..n PROVE i = 0 \/ i \in 1..n
    BY <1>1
  <2>3. \A i \in 0..n : f[i] = IF i = 0 THEN 0 ELSE f[i - 1] + ns[i]
    BY <1>5, <2>2, Zenon
  <2> QED
    BY <2>1, <2>3, Zenon
<1>7. CD!SumOf(ns) = sum[n]
  BY DEF CD!SumOf, n
<1>8. sum = Step(sum)
  <2> HIDE DEF Step
  <2> QED
    BY <1>6, Zenon
<1> HIDE DEF sum
<1>9. Sums(sum, ns)
  <2>1. \A i \in 0..n : sum[i] = Step(sum)[i]
    BY <1>8, Zenon
  <2>2. \A i \in 0..n : Step(sum)[i] = IF i = 0 THEN 0 ELSE sum[i - 1] + ns[i]
    OBVIOUS
  <2> HIDE DEF Step
  <2>3. sum[0] = 0 /\ \A i \in 1..n : sum[i] = sum[i - 1] + ns[i]
    <3>1. 0 \in 0..n
      BY <1>1
    <3>2. ASSUME NEW i \in 1..n PROVE i \in 0..n /\ i # 0
      BY <1>1
    <3> QED
      BY <2>1, <2>2, <3>1, <3>2, Zenon
  <2> QED
    BY <2>3, Zenon DEF Sums, n
<1>10. Equal(f, sum, n)
  <2>1. Alike(f, sum, n)
    BY <1>5, <1>9, Zenon DEF Alike, Sums, n
  <2> QED
    BY <1>1, <2>1, AlikeAreEqual
<1>11. n \in 0..n
  BY <1>1
<1>12. Sums(f, ns)
  BY <1>5, Zenon DEF Sums, n
<1>13. CD!SumOf(ns) = f[n]
  BY <1>7, <1>10, <1>11, Zenon DEF Equal
<1> QED
  BY <1>12, <1>13 DEF n

\* The first of the sequences ss, joined.
Joins(joined, ss) == joined[0] = <<>> /\ \A i \in 1..Len(ss) : joined[i] = joined[i - 1] \o ss[i]

LEMMA JoinedSteps ==
    ASSUME NEW F, NEW ss \in Seq(Seq(F))
    PROVE  \E joined \in [0..Len(ss) -> Seq(F)] : Joins(joined, ss) /\ CD!Joined(ss) = joined[Len(ss)]
<1> DEFINE n == Len(ss)
           step == [i \in 1..n |-> [m \in Seq(F) |-> m \o ss[i]]]
<1>1. n \in Nat /\ <<>> \in Seq(F)
  OBVIOUS
<1>2. \A i \in 1..n : \A m \in Seq(F) : step[i][m] = m \o ss[i] /\ step[i][m] \in Seq(F)
  <2> TAKE i \in 1..n
  <2> TAKE m \in Seq(F)
  <2>1. step[i][m] = m \o ss[i]
    OBVIOUS
  <2>2. ss[i] \in Seq(F)
    OBVIOUS
  <2>3. m \o ss[i] \in Seq(F)
    BY <2>2
  <2> QED
    BY <2>1, <2>3, Zenon
<1> HIDE DEF step, n
<1>3. Within(step, n, Seq(F))
  BY <1>2 DEF Within
<1>4. PICK f \in [0..n -> Seq(F)] : Follows(f, <<>>, step, n)
  BY <1>1, <1>3, GoesOn
<1>5. f[0] = <<>> /\ \A i \in 1..n : f[i - 1] \in Seq(F) /\ f[i] = f[i - 1] \o ss[i]
  <2>1. \A i \in 1..n : f[i - 1] \in Seq(F)
    BY <1>1
  <2>2. f[0] = <<>> /\ \A i \in 1..n : f[i] = step[i][f[i - 1]]
    BY <1>4 DEF Follows
  <2> QED
    BY <1>2, <2>1, <2>2, Zenon
<1> DEFINE Step(g) == [i \in 0..n |-> IF i = 0 THEN <<>> ELSE g[i - 1] \o ss[i]]
           joined == CHOOSE g : g = Step(g)
<1>6. f = Step(f)
  <2>1. f = [i \in 0..n |-> f[i]]
    OBVIOUS
  <2>2. ASSUME NEW i \in 0..n PROVE i = 0 \/ i \in 1..n
    BY <1>1
  <2>3. \A i \in 0..n : f[i] = IF i = 0 THEN <<>> ELSE f[i - 1] \o ss[i]
    BY <1>5, <2>2, Zenon
  <2> QED
    BY <2>1, <2>3, Zenon
<1>7. CD!Joined(ss) = joined[n]
  BY DEF CD!Joined, n
<1>8. joined = Step(joined)
  <2> HIDE DEF Step
  <2> QED
    BY <1>6, Zenon
<1> HIDE DEF joined
<1>9. Joins(joined, ss)
  <2>1. \A i \in 0..n : joined[i] = Step(joined)[i]
    BY <1>8, Zenon
  <2>2. \A i \in 0..n : Step(joined)[i] = IF i = 0 THEN <<>> ELSE joined[i - 1] \o ss[i]
    OBVIOUS
  <2> HIDE DEF Step
  <2>3. joined[0] = <<>> /\ \A i \in 1..n : joined[i] = joined[i - 1] \o ss[i]
    <3>1. 0 \in 0..n
      BY <1>1
    <3>2. ASSUME NEW i \in 1..n PROVE i \in 0..n /\ i # 0
      BY <1>1
    <3> QED
      BY <2>1, <2>2, <3>1, <3>2, Zenon
  <2> QED
    BY <2>3, Zenon DEF Joins, n
<1>10. Equal(f, joined, n)
  <2>1. Alike(f, joined, n)
    BY <1>5, <1>9, Zenon DEF Alike, Joins, n
  <2> QED
    BY <1>1, <2>1, AlikeAreEqual
<1>11. n \in 0..n
  BY <1>1
<1>12. Joins(f, ss)
  BY <1>5, Zenon DEF Joins, n
<1>13. CD!Joined(ss) = f[n]
  BY <1>7, <1>10, <1>11, Zenon DEF Equal
<1> QED
  BY <1>12, <1>13 DEF n
-----------------------------------------------------------------------------
(* VARIANTs in VARIANTs *)

LEMMA CalcVariantDef ==
    ASSUME CD!Coding
    PROVE  \A d \in 0..Deepest : CD!CalcVariant[d] =
             [x \in Level[d] |-> CD!CalcValue(x, CD!CalcVariant[d - 1])]
<1> DEFINE Body(h, d) == [x \in Level[d] |-> CD!CalcValue(x, h)]
           Step(f, n) == [d \in 0..n |-> Body(f[d - 1], d)]
           T == {n \in 0..Deepest : \E f : f = Step(f, n)}
<1>1. \A h, g : Body(h, 0) = Body(g, 0)
  <2>1. \A x \in Level[0] : x.sub = <<>>
    BY DEF CD!Coding
  <2> QED
    BY <2>1 DEF CD!CalcValue
<1>2. CD!CalcVariant = CHOOSE f : f = Step(f, Deepest)
  BY DEF CD!CalcVariant
<1>3. Deepest \in Nat
  BY DEF CD!Coding
<1> HIDE DEF Body
<1>4. 0 \in T
  <2> DEFINE f == [d \in 0..0 |-> Body(0, 0)]
  <2>1. \A d \in 0..0 : Body(f[d - 1], d) = Body(0, 0)
    BY <1>1
  <2>2. f = Step(f, 0)
    BY <2>1
  <2> HIDE DEF f, Step
  <2> QED
    BY <1>3, <2>2
<1>5. ASSUME NEW n \in 1..Deepest, n - 1 \in T PROVE n \in T
  <2>1. PICK f : f = Step(f, n - 1)
    BY <1>5
  <2> DEFINE g == [d \in 0..n |-> IF d = n THEN Body(f[n - 1], n) ELSE f[d]]
  <2>2. \A d \in 0..n - 1 : f[d] = Body(f[d - 1], d)
    BY <2>1
  <2>3. \A d \in 1..n : g[d - 1] = f[d - 1]
    OBVIOUS
  <2>4. \A d \in 0..n : g[d] = IF d = n THEN Body(f[n - 1], n) ELSE f[d]
    OBVIOUS
  <2>5. g = [d \in 0..n |-> g[d]]
    OBVIOUS
  <2> HIDE DEF g
  <2>6. ASSUME NEW d \in 0..n PROVE g[d] = Body(g[d - 1], d)
    BY <1>1, <2>2, <2>3, <2>4
  <2>7. g = Step(g, n)
    BY <2>5, <2>6, Zenon
  <2> HIDE DEF Step
  <2> QED
    BY <2>7
<1>6. \A n \in 0..Deepest : n \in T
  <2> HIDE DEF T
  <2> QED
    BY <1>3, <1>4, <1>5, Upwards
<1>7. \E f : f = Step(f, Deepest)
  BY <1>3, <1>6
<1>8. CD!CalcVariant = Step(CD!CalcVariant, Deepest)
  <2> HIDE DEF Step
  <2> QED
    BY <1>2, <1>7, Zenon
<1> QED
  BY <1>8, Zenon DEF Body

LEMMA PutVariantDef ==
    ASSUME CD!Coding
    PROVE  \A d \in 0..Deepest : CD!PutVariant[d] =
             [x \in Level[d] |-> CD!PutFields(x, CD!PutVariant[d - 1])]
<1> DEFINE Body(h, d) == [x \in Level[d] |-> CD!PutFields(x, h)]
           Step(f, n) == [d \in 0..n |-> Body(f[d - 1], d)]
           T == {n \in 0..Deepest : \E f : f = Step(f, n)}
<1>1. \A h, g : Body(h, 0) = Body(g, 0)
  <2>1. \A x \in Level[0] : x.sub = <<>>
    BY DEF CD!Coding
  <2>2. \A h, g : \A x \in Level[0] : [i \in DOMAIN x.sub |-> h[x.sub[i]]] = [i \in DOMAIN x.sub |-> g[x.sub[i]]]
    BY <2>1
  <2>3. \A h, g : \A x \in Level[0] : CD!PutFields(x, h) = CD!PutFields(x, g)
    BY <2>2, Zenon DEF CD!PutFields
  <2> QED
    BY <2>3, Zenon
<1>2. CD!PutVariant = CHOOSE f : f = Step(f, Deepest)
  BY DEF CD!PutVariant
<1>3. Deepest \in Nat
  BY DEF CD!Coding
<1> HIDE DEF Body
<1>4. 0 \in T
  <2> DEFINE f == [d \in 0..0 |-> Body(0, 0)]
  <2>1. \A d \in 0..0 : Body(f[d - 1], d) = Body(0, 0)
    BY <1>1
  <2>2. f = Step(f, 0)
    BY <2>1
  <2> HIDE DEF f, Step
  <2> QED
    BY <1>3, <2>2
<1>5. ASSUME NEW n \in 1..Deepest, n - 1 \in T PROVE n \in T
  <2>1. PICK f : f = Step(f, n - 1)
    BY <1>5
  <2> DEFINE g == [d \in 0..n |-> IF d = n THEN Body(f[n - 1], n) ELSE f[d]]
  <2>2. \A d \in 0..n - 1 : f[d] = Body(f[d - 1], d)
    BY <2>1
  <2>3. \A d \in 1..n : g[d - 1] = f[d - 1]
    OBVIOUS
  <2>4. \A d \in 0..n : g[d] = IF d = n THEN Body(f[n - 1], n) ELSE f[d]
    OBVIOUS
  <2>5. g = [d \in 0..n |-> g[d]]
    OBVIOUS
  <2> HIDE DEF g
  <2>6. ASSUME NEW d \in 0..n PROVE g[d] = Body(g[d - 1], d)
    BY <1>1, <2>2, <2>3, <2>4
  <2>7. g = Step(g, n)
    BY <2>5, <2>6, Zenon
  <2> HIDE DEF Step
  <2> QED
    BY <2>7
<1>6. \A n \in 0..Deepest : n \in T
  <2> HIDE DEF T
  <2> QED
    BY <1>3, <1>4, <1>5, Upwards
<1>7. \E f : f = Step(f, Deepest)
  BY <1>3, <1>6
<1>8. CD!PutVariant = Step(CD!PutVariant, Deepest)
  <2> HIDE DEF Step
  <2> QED
    BY <1>2, <1>7, Zenon
<1> QED
  BY <1>8, Zenon DEF Body

LEMMA GetVariantDef ==
    ASSUME CD!Coding
    PROVE  \A d \in 0..Deepest : CD!GetVariant[d] =
             [p \in CD!Offsets |-> CD!GetFields(p, IF d = 0 THEN [q \in CD!Offsets |-> CD!Bad] ELSE CD!GetVariant[d - 1])]
<1> DEFINE Body(h, d) == [p \in CD!Offsets |-> CD!GetFields(p, IF d = 0 THEN [q \in CD!Offsets |-> CD!Bad] ELSE h)]
           Step(f, n) == [d \in 0..n |-> Body(f[d - 1], d)]
           T == {n \in 0..Deepest : \E f : f = Step(f, n)}
<1>1. \A h, g : Body(h, 0) = Body(g, 0)
  OBVIOUS
<1>2. CD!GetVariant = CHOOSE f : f = Step(f, Deepest)
  BY DEF CD!GetVariant
<1>3. Deepest \in Nat
  BY DEF CD!Coding
<1> HIDE DEF Body
<1>4. 0 \in T
  <2> DEFINE f == [d \in 0..0 |-> Body(0, 0)]
  <2>1. \A d \in 0..0 : Body(f[d - 1], d) = Body(0, 0)
    BY <1>1
  <2>2. f = Step(f, 0)
    BY <2>1
  <2> HIDE DEF f, Step
  <2> QED
    BY <1>3, <2>2
<1>5. ASSUME NEW n \in 1..Deepest, n - 1 \in T PROVE n \in T
  <2>1. PICK f : f = Step(f, n - 1)
    BY <1>5
  <2> DEFINE g == [d \in 0..n |-> IF d = n THEN Body(f[n - 1], n) ELSE f[d]]
  <2>2. \A d \in 0..n - 1 : f[d] = Body(f[d - 1], d)
    BY <2>1
  <2>3. \A d \in 1..n : g[d - 1] = f[d - 1]
    OBVIOUS
  <2>4. \A d \in 0..n : g[d] = IF d = n THEN Body(f[n - 1], n) ELSE f[d]
    OBVIOUS
  <2>5. g = [d \in 0..n |-> g[d]]
    OBVIOUS
  <2> HIDE DEF g
  <2>6. ASSUME NEW d \in 0..n PROVE g[d] = Body(g[d - 1], d)
    BY <1>1, <2>2, <2>3, <2>4
  <2>7. g = Step(g, n)
    BY <2>5, <2>6, Zenon
  <2> HIDE DEF Step
  <2> QED
    BY <2>7
<1>6. \A n \in 0..Deepest : n \in T
  <2> HIDE DEF T
  <2> QED
    BY <1>3, <1>4, <1>5, Upwards
<1>7. \E f : f = Step(f, Deepest)
  BY <1>3, <1>6
<1>8. CD!GetVariant = Step(CD!GetVariant, Deepest)
  <2> HIDE DEF Step
  <2> QED
    BY <1>2, <1>7, Zenon
<1> QED
  BY <1>8, Zenon DEF Body

LEMMA KnownDef ==
    ASSUME CD!Coding
    PROVE  \A d \in 0..Deepest : CD!Known[d] =
             [x \in Level[d] |-> CD!KnownType(x, CD!Known[d - 1])]
<1> DEFINE Body(h, d) == [x \in Level[d] |-> CD!KnownType(x, h)]
           Step(f, n) == [d \in 0..n |-> Body(f[d - 1], d)]
           T == {n \in 0..Deepest : \E f : f = Step(f, n)}
<1>1. \A h, g : Body(h, 0) = Body(g, 0)
  <2>1. \A x \in Level[0] : x.sub = <<>>
    BY DEF CD!Coding
  <2> QED
    BY <2>1 DEF CD!KnownType
<1>2. CD!Known = CHOOSE f : f = Step(f, Deepest)
  BY DEF CD!Known
<1>3. Deepest \in Nat
  BY DEF CD!Coding
<1> HIDE DEF Body
<1>4. 0 \in T
  <2> DEFINE f == [d \in 0..0 |-> Body(0, 0)]
  <2>1. \A d \in 0..0 : Body(f[d - 1], d) = Body(0, 0)
    BY <1>1
  <2>2. f = Step(f, 0)
    BY <2>1
  <2> HIDE DEF f, Step
  <2> QED
    BY <1>3, <2>2
<1>5. ASSUME NEW n \in 1..Deepest, n - 1 \in T PROVE n \in T
  <2>1. PICK f : f = Step(f, n - 1)
    BY <1>5
  <2> DEFINE g == [d \in 0..n |-> IF d = n THEN Body(f[n - 1], n) ELSE f[d]]
  <2>2. \A d \in 0..n - 1 : f[d] = Body(f[d - 1], d)
    BY <2>1
  <2>3. \A d \in 1..n : g[d - 1] = f[d - 1]
    OBVIOUS
  <2>4. \A d \in 0..n : g[d] = IF d = n THEN Body(f[n - 1], n) ELSE f[d]
    OBVIOUS
  <2>5. g = [d \in 0..n |-> g[d]]
    OBVIOUS
  <2> HIDE DEF g
  <2>6. ASSUME NEW d \in 0..n PROVE g[d] = Body(g[d - 1], d)
    BY <1>1, <2>2, <2>3, <2>4
  <2>7. g = Step(g, n)
    BY <2>5, <2>6, Zenon
  <2> HIDE DEF Step
  <2> QED
    BY <2>7
<1>6. \A n \in 0..Deepest : n \in T
  <2> HIDE DEF T
  <2> QED
    BY <1>3, <1>4, <1>5, Upwards
<1>7. \E f : f = Step(f, Deepest)
  BY <1>3, <1>6
<1>8. CD!Known = Step(CD!Known, Deepest)
  <2> HIDE DEF Step
  <2> QED
    BY <1>2, <1>7, Zenon
<1> QED
  BY <1>8, Zenon DEF Body

LEMMA SameDef ==
    ASSUME CD!Coding
    PROVE  \A d \in 0..Deepest : CD!Same[d] =
             [x \in Level[d] |-> CD!Received(x, CD!Same[d - 1])]
<1> DEFINE Body(h, d) == [x \in Level[d] |-> CD!Received(x, h)]
           Step(f, n) == [d \in 0..n |-> Body(f[d - 1], d)]
           T == {n \in 0..Deepest : \E f : f = Step(f, n)}
<1>1. \A h, g : Body(h, 0) = Body(g, 0)
  <2>1. \A x \in Level[0] : x.sub = <<>>
    BY DEF CD!Coding
  <2>2. \A h, g : \A x \in Level[0] : [i \in DOMAIN x.sub |-> h[x.sub[i]]] = [i \in DOMAIN x.sub |-> g[x.sub[i]]]
    BY <2>1
  <2>3. \A h, g : \A x \in Level[0] : CD!Received(x, h) = CD!Received(x, g)
    BY <2>2, Zenon DEF CD!Received
  <2> QED
    BY <2>3, Zenon
<1>2. CD!Same = CHOOSE f : f = Step(f, Deepest)
  BY DEF CD!Same
<1>3. Deepest \in Nat
  BY DEF CD!Coding
<1> HIDE DEF Body
<1>4. 0 \in T
  <2> DEFINE f == [d \in 0..0 |-> Body(0, 0)]
  <2>1. \A d \in 0..0 : Body(f[d - 1], d) = Body(0, 0)
    BY <1>1
  <2>2. f = Step(f, 0)
    BY <2>1
  <2> HIDE DEF f, Step
  <2> QED
    BY <1>3, <2>2
<1>5. ASSUME NEW n \in 1..Deepest, n - 1 \in T PROVE n \in T
  <2>1. PICK f : f = Step(f, n - 1)
    BY <1>5
  <2> DEFINE g == [d \in 0..n |-> IF d = n THEN Body(f[n - 1], n) ELSE f[d]]
  <2>2. \A d \in 0..n - 1 : f[d] = Body(f[d - 1], d)
    BY <2>1
  <2>3. \A d \in 1..n : g[d - 1] = f[d - 1]
    OBVIOUS
  <2>4. \A d \in 0..n : g[d] = IF d = n THEN Body(f[n - 1], n) ELSE f[d]
    OBVIOUS
  <2>5. g = [d \in 0..n |-> g[d]]
    OBVIOUS
  <2> HIDE DEF g
  <2>6. ASSUME NEW d \in 0..n PROVE g[d] = Body(g[d - 1], d)
    BY <1>1, <2>2, <2>3, <2>4
  <2>7. g = Step(g, n)
    BY <2>5, <2>6, Zenon
  <2> HIDE DEF Step
  <2> QED
    BY <2>7
<1>6. \A n \in 0..Deepest : n \in T
  <2> HIDE DEF T
  <2> QED
    BY <1>3, <1>4, <1>5, Upwards
<1>7. \E f : f = Step(f, Deepest)
  BY <1>3, <1>6
<1>8. CD!Same = Step(CD!Same, Deepest)
  <2> HIDE DEF Step
  <2> QED
    BY <1>2, <1>7, Zenon
<1> QED
  BY <1>8, Zenon DEF Body
-----------------------------------------------------------------------------
(* Reading what is in the buffer *)

\* The fields are in the buffer, from an offset on.
At(p, fields) ==
    /\ p + Len(fields) <= Len(buf)
    /\ \A i \in 1..Len(fields) : buf[p + i] = fields[i]

LEMMA GetAt ==
    ASSUME Len(buf) \in Nat, NEW p \in Nat, NEW n, NEW v, At(p, CD!Field(n, v))
    PROVE  CD!Get(p, n) = CD!Read(v, p + 1)
<1> DEFINE f == [size |-> n, val |-> v]
<1>1. CD!Field(n, v) = <<f>> /\ Len(<<f>>) = 1 /\ <<f>>[1] = f
  BY DEF CD!Field
<1>2. p + 1 <= Len(buf) /\ buf[p + 1] = f
  BY <1>1 DEF At
<1>3. p < Len(buf)
  BY <1>2
<1>4. f.size = n /\ f.val = v
  OBVIOUS
<1> HIDE DEF f
<1> QED
  BY <1>2, <1>3, <1>4 DEF CD!Get

LEMMA Concat ==
    ASSUME NEW F, NEW a \in Seq(F), NEW b \in Seq(F)
    PROVE  a \o b \in Seq(F) /\ Len(a \o b) = Len(a) + Len(b) /\ Len(a) \in Nat /\ Len(b) \in Nat
OBVIOUS

LEMMA AtBoth ==
    ASSUME Len(buf) \in Nat, NEW p \in Nat, NEW F, NEW a \in Seq(F), NEW b \in Seq(F),
           At(p, a \o b)
    PROVE  At(p, a) /\ At(p + Len(a), b)
<1>1. Len(a \o b) = Len(a) + Len(b) /\ Len(a) \in Nat /\ Len(b) \in Nat
  OBVIOUS
<1>2. \A i \in 1..Len(a) : (a \o b)[i] = a[i]
  OBVIOUS
<1>3. \A i \in 1..Len(b) : (a \o b)[Len(a) + i] = b[i]
  OBVIOUS
<1> DEFINE c == a \o b
<1>4. p + Len(c) <= Len(buf) /\ \A i \in 1..Len(c) : buf[p + i] = c[i]
  BY DEF At
<1> HIDE DEF c
<1>5. ASSUME NEW i \in 1..Len(b) PROVE buf[p + Len(a) + i] = b[i]
  <2>1. Len(a) + i \in 1..Len(c) /\ p + (Len(a) + i) = p + Len(a) + i
    BY <1>1 DEF c
  <2> QED
    BY <1>3, <1>4, <2>1 DEF c
<1>6. ASSUME NEW i \in 1..Len(a) PROVE buf[p + i] = a[i]
  <2>1. i \in 1..Len(c)
    BY <1>1 DEF c
  <2> QED
    BY <1>2, <1>4, <2>1 DEF c
<1>7. p + Len(a) <= Len(buf) /\ p + Len(a) + Len(b) <= Len(buf)
  BY <1>1, <1>4 DEF c
<1> QED
  BY <1>5, <1>6, <1>7 DEF At

\* Where each of the sequences begins, that are joined from p on, and the last ends.
Starts(st, p, ss) ==
    /\ st[0] = p
    /\ \A i \in 1..Len(ss) : st[i] = st[i - 1] + Len(ss[i]) /\ At(st[i - 1], ss[i])

LEMMA StartsOfJoined ==
    ASSUME Len(buf) \in Nat, NEW p \in Nat, NEW F, NEW ss \in Seq(Seq(F)), At(p, CD!Joined(ss))
    PROVE  \E st \in [0..Len(ss) -> Nat] :
             Starts(st, p, ss) /\ st[Len(ss)] = p + Len(CD!Joined(ss))
<1>1. PICK joined \in [0..Len(ss) -> Seq(F)] :
        Joins(joined, ss) /\ CD!Joined(ss) = joined[Len(ss)]
  BY JoinedSteps
<1> DEFINE n == Len(ss)
           T == {k \in 0..n : At(p, joined[n - k])}
           st == [i \in 0..n |-> p + Len(joined[i])]
<1>2. n \in Nat /\ \A i \in 0..n : joined[i] \in Seq(F) /\ Len(joined[i]) \in Nat
  OBVIOUS
<1>3. \A i \in 1..n : ss[i] \in Seq(F) /\ joined[i] = joined[i - 1] \o ss[i]
  <2>1. \A i \in 1..n : ss[i] \in Seq(F)
    OBVIOUS
  <2> QED
    BY <1>1, <2>1, Zenon DEF Joins
<1>4. joined[0] = <<>>
  BY <1>1 DEF Joins
<1> HIDE DEF n
<1>5. 0 \in T
  BY <1>1, <1>2 DEF n
<1>6. ASSUME NEW k \in 1..n, k - 1 \in T PROVE k \in T
  <2> DEFINE i == n - (k - 1)
  <2>1. i \in 1..n /\ i - 1 = n - k /\ i - 1 \in 0..n /\ i \in 0..n
    BY <1>2
  <2>2. At(p, joined[i])
    BY <1>6
  <2> HIDE DEF i
  <2>3. joined[i] = joined[i - 1] \o ss[i] /\ joined[i - 1] \in Seq(F) /\ ss[i] \in Seq(F)
    BY <1>2, <1>3, <2>1
  <2>4. At(p, joined[i - 1])
    BY <2>2, <2>3, AtBoth
  <2> QED
    BY <2>1, <2>4
<1> HIDE DEF T
<1>7. \A k \in 0..n : k \in T
  BY <1>2, <1>5, <1>6, Upwards
<1>8. ASSUME NEW i \in 0..n PROVE At(p, joined[i])
  <2>1. n - i \in T /\ n - (n - i) = i
    BY <1>2, <1>7
  <2> QED
    BY <2>1 DEF T
<1>9. st \in [0..n -> Nat] /\ \A i \in 0..n : st[i] = p + Len(joined[i])
  BY <1>2
<1>10. st[0] = p
  BY <1>2, <1>4, <1>9
<1> HIDE DEF st
<1>11. ASSUME NEW i \in 1..n PROVE st[i] = st[i - 1] + Len(ss[i]) /\ At(st[i - 1], ss[i])
  <2>1. i \in 0..n /\ i - 1 \in 0..n
    BY <1>2
  <2>2. joined[i] = joined[i - 1] \o ss[i] /\ joined[i - 1] \in Seq(F) /\ ss[i] \in Seq(F)
    BY <1>2, <1>3, <2>1
  <2>3. At(p + Len(joined[i - 1]), ss[i])
    BY <1>8, <2>1, <2>2, AtBoth
  <2>4. Len(joined[i]) = Len(joined[i - 1]) + Len(ss[i]) /\ Len(ss[i]) \in Nat
    BY <2>2
  <2>5. st[i] = p + Len(joined[i]) /\ st[i - 1] = p + Len(joined[i - 1])
    BY <1>9, <2>1
  <2>6. st[i] = st[i - 1] + Len(ss[i])
    <3>1. Len(joined[i - 1]) \in Nat
      BY <1>2, <2>1
    <3>2. \A a, b \in Nat : p + (a + b) = (p + a) + b
      OBVIOUS
    <3>3. p + (Len(joined[i - 1]) + Len(ss[i])) = (p + Len(joined[i - 1])) + Len(ss[i])
      BY <2>4, <3>1, <3>2
    <3> QED
      BY <2>4, <2>5, <3>3, Zenon
  <2> QED
    BY <2>3, <2>5, <2>6, Zenon
<1>12. Starts(st, p, ss)
  BY <1>10, <1>11 DEF Starts, n
<1>13. n \in 0..n /\ st[n] = p + Len(CD!Joined(ss))
  <2>1. n \in 0..n
    BY <1>2
  <2> QED
    BY <1>1, <1>9, <2>1, Zenon DEF n
<1> QED
  BY <1>9, <1>12, <1>13 DEF n

\* A read at each of these, one after the other, reads the values vals.
Reads(get, st, vals, n) == \A i \in 1..n : get[st[i - 1]] = CD!Read(vals[i], st[i])

LEMMA GetNReads ==
    ASSUME NEW V, NEW vals \in Seq(V), NEW st, NEW get, Reads(get, st, vals, Len(vals))
    PROVE  CD!GetN(get, Len(vals), st[0]) = CD!Read(vals, st[Len(vals)])
<1> DEFINE n == Len(vals)
           Step(f) == [i \in 0..n |-> IF i = 0 THEN CD!Read(<<>>, st[0])
                                      ELSE CD!AlsoRead(f[i - 1], get[f[i - 1].next])]
           f == [i \in 0..n |-> CD!Read(SubSeq(vals, 1, i), st[i])]
           got == CHOOSE h : h = Step(h)
<1>1. n \in Nat
  OBVIOUS
<1>2. CD!GetN(get, Len(vals), st[0]) = got[n]
  BY DEF CD!GetN
<1>3. ASSUME NEW i \in 0..n
      PROVE  f[i] = IF i = 0 THEN CD!Read(<<>>, st[0])
                    ELSE CD!AlsoRead(f[i - 1], get[f[i - 1].next])
  <2>1. CASE i = 0
    <3>1. SubSeq(vals, 1, 0) = <<>>
      OBVIOUS
    <3>2. f[i] = CD!Read(SubSeq(vals, 1, 0), st[0])
      BY <2>1
    <3> QED
      BY <2>1, <3>1, <3>2, Zenon
  <2>2. CASE i # 0
    <3>1. i \in 1..n /\ i - 1 \in 0..n
      BY <2>2
    <3>2. f[i - 1] = CD!Read(SubSeq(vals, 1, i - 1), st[i - 1])
      BY <3>1
    <3>3. get[st[i - 1]] = CD!Read(vals[i], st[i])
      BY <3>1 DEF Reads
    <3>4. Append(SubSeq(vals, 1, i - 1), vals[i]) = SubSeq(vals, 1, i)
      BY <3>1
    <3>5. f[i - 1].ok /\ f[i - 1].val = SubSeq(vals, 1, i - 1) /\ f[i - 1].next = st[i - 1]
      BY <3>2 DEF CD!Read
    <3>6. CD!AlsoRead(f[i - 1], CD!Read(vals[i], st[i])) = CD!Read(SubSeq(vals, 1, i), st[i])
      BY <3>4, <3>5 DEF CD!AlsoRead, CD!Read
    <3> QED
      BY <2>2, <3>3, <3>5, <3>6
  <2> QED
    BY <2>1, <2>2
<1>4. f = Step(f)
  BY <1>3, Zenon
<1>5. got = Step(got)
  <2> HIDE DEF Step, f
  <2> QED
    BY <1>4, Zenon
<1> HIDE DEF got
<1>6. \A i \in 0..n : got[i] = Step(got)[i]
  BY <1>5, Zenon
<1>7. Alike(f, got, n)
  <2>1. 0 \in 0..n /\ \A i \in 1..n : i \in 0..n /\ i # 0
    OBVIOUS
  <2> HIDE DEF f, n
  <2>2. f[0] = CD!Read(<<>>, st[0]) /\ got[0] = CD!Read(<<>>, st[0])
    BY <1>3, <1>6, <2>1, Zenon
  <2>3. ASSUME NEW i \in 1..n, f[i - 1] = got[i - 1] PROVE f[i] = got[i]
    BY <1>3, <1>6, <2>1, <2>3, Zenon
  <2> QED
    BY <2>2, <2>3, Zenon DEF Alike
<1> HIDE DEF f
<1>8. Equal(f, got, n)
  BY <1>1, <1>7, AlikeAreEqual
<1>9. n \in 0..n /\ f[n] = CD!Read(vals, st[n])
  <2>1. SubSeq(vals, 1, n) = vals
    OBVIOUS
  <2>2. n \in 0..n
    BY <1>1
  <2> HIDE DEF n
  <2>3. f[n] = CD!Read(SubSeq(vals, 1, n), st[n])
    BY <2>2, Zenon DEF f
  <2> QED
    BY <2>1, <2>2, <2>3, Zenon
<1> QED
  BY <1>2, <1>8, <1>9, Zenon DEF Equal

\* Each of the sequences, wherever it is in the buffer, is read as a value.
EachReads(get, ss, vals) ==
    \A i \in 1..Len(ss) : \A q \in Nat :
      At(q, ss[i]) => get[q] = CD!Read(vals[i], q + Len(ss[i]))

LEMMA JoinedReads ==
    ASSUME Len(buf) \in Nat, NEW p \in Nat, NEW F, NEW ss \in Seq(Seq(F)), At(p, CD!Joined(ss)),
           NEW V, NEW vals \in Seq(V), Len(vals) = Len(ss), NEW get, EachReads(get, ss, vals)
    PROVE  CD!GetN(get, Len(ss), p) = CD!Read(vals, p + Len(CD!Joined(ss)))
<1>1. PICK st \in [0..Len(ss) -> Nat] : Starts(st, p, ss) /\ st[Len(ss)] = p + Len(CD!Joined(ss))
  BY StartsOfJoined
<1>2. ASSUME NEW i \in 1..Len(ss) PROVE get[st[i - 1]] = CD!Read(vals[i], st[i])
  <2>1. st[i - 1] \in Nat
    <3>1. i - 1 \in 0..Len(ss)
      OBVIOUS
    <3> QED
      BY <3>1, Zenon
  <2>2. At(st[i - 1], ss[i]) /\ st[i] = st[i - 1] + Len(ss[i])
    BY <1>1, Zenon DEF Starts
  <2> QED
    BY <2>1, <2>2, Zenon DEF EachReads
<1>3. Reads(get, st, vals, Len(vals))
  BY <1>2, Zenon DEF Reads
<1>4. CD!GetN(get, Len(vals), st[0]) = CD!Read(vals, st[Len(vals)])
  BY <1>3, GetNReads
<1> QED
  BY <1>1, <1>4, Zenon DEF Starts
-----------------------------------------------------------------------------
(* The fields of a value, and reading it *)

\* All values that a field can have.
Written ==
    Int \cup Seq(Int) \cup {<<x.vt, x.array>> : x \in UNION {Level[d] : d \in 0..Deepest}}

Fields == [size : Nat, val : Written]

LEMMA FieldType ==
    ASSUME NEW n \in Nat, NEW v \in Written
    PROVE  CD!Field(n, v) \in Seq(Fields) /\ Len(CD!Field(n, v)) = 1
BY DEF CD!Field, Fields

LEMMA Sizes ==
    /\ CD!SizeMin \in Nat /\ CD!SizeDataLen \in Nat /\ CD!SizeType \in Nat /\ CD!SizeNum \in Nat
    /\ CD!SizeBstrLen \in Nat /\ CD!SizeChar \in Nat
    /\ \A vt, array : CD!ElementSize(vt, array) \in Nat /\ CD!SizeOf(vt) \in Nat
<1>1. \A vt : CD!SizeOf(vt) \in Nat
  BY DEF CD!SizeOf
<1> QED
  BY <1>1 DEF CD!SizeMin, CD!SizeDataLen, CD!SizeType, CD!SizeNum, CD!SizeBstrLen, CD!SizeChar, CD!ElementSize,
              CD!ScalarSizeOf

\* The characters of a string.
Chars(s) == [i \in DOMAIN s |-> [size |-> CD!SizeChar, val |-> s[i]]]

LEMMA CharsType ==
    ASSUME NEW s \in Seq(Int)
    PROVE  /\ Chars(s) \in Seq(Fields) /\ Len(Chars(s)) = Len(s)
           /\ \A i \in 1..Len(s) : Chars(s)[i] = [size |-> CD!SizeChar, val |-> s[i]]
<1>1. \A i \in 1..Len(s) : [size |-> CD!SizeChar, val |-> s[i]] \in Fields
  BY Sizes DEF Fields, Written
<1> QED
  BY <1>1 DEF Chars

LEMMA PutBstrType ==
    ASSUME NEW s \in Seq(Int)
    PROVE  /\ CD!PutBstr(s) = CD!Field(CD!SizeBstrLen, CD!SizeChar * Len(s)) \o Chars(s)
           /\ CD!Field(CD!SizeBstrLen, CD!SizeChar * Len(s)) \in Seq(Fields)
           /\ CD!PutBstr(s) \in Seq(Fields) /\ Len(CD!PutBstr(s)) = Len(s) + 1
<1>1. CD!PutBstr(s) = CD!Field(CD!SizeBstrLen, CD!SizeChar * Len(s)) \o Chars(s)
  BY DEF CD!PutBstr, Chars
<1>2. CD!SizeChar * Len(s) \in Written
  BY DEF CD!SizeChar, Written
<1>3. /\ CD!Field(CD!SizeBstrLen, CD!SizeChar * Len(s)) \in Seq(Fields)
      /\ Len(CD!Field(CD!SizeBstrLen, CD!SizeChar * Len(s))) = 1
  BY <1>2, FieldType, Sizes
<1> DEFINE l == CD!Field(CD!SizeBstrLen, CD!SizeChar * Len(s))
<1>4. l \in Seq(Fields) /\ Len(l) = 1 /\ Chars(s) \in Seq(Fields) /\ Len(Chars(s)) = Len(s)
  BY <1>3, CharsType
<1> HIDE DEF l
<1>5. l \o Chars(s) \in Seq(Fields) /\ Len(l \o Chars(s)) = Len(l) + Len(Chars(s))
  BY <1>4, Concat
<1>6. 1 + Len(s) = Len(s) + 1
  OBVIOUS
<1> QED
  BY <1>1, <1>3, <1>4, <1>5, <1>6, Zenon DEF l

LEMMA BstrReads ==
    ASSUME Len(buf) \in Nat, NEW s \in Seq(Int), NEW p \in Nat, At(p, CD!PutBstr(s))
    PROVE  CD!GetBstr(p) = CD!Read(s, p + Len(CD!PutBstr(s)))
<1> DEFINE l == CD!Field(CD!SizeBstrLen, CD!SizeChar * Len(s))
           get == [q \in CD!Offsets |-> CD!Get(q, CD!SizeChar)]
           st == [i \in 0..Len(s) |-> p + 1 + i]
<1>1. l \in Seq(Fields) /\ Len(l) = 1 /\ Chars(s) \in Seq(Fields) /\ CD!PutBstr(s) = l \o Chars(s)
  BY PutBstrType, CharsType DEF CD!Field
<1>2. At(p, l) /\ At(p + 1, Chars(s))
  <2> HIDE DEF l
  <2>1. At(p, l \o Chars(s))
    BY <1>1, Zenon
  <2>2. At(p, l) /\ At(p + Len(l), Chars(s))
    BY <1>1, <2>1, AtBoth
  <2> QED
    BY <1>1, <2>2, Zenon
<1>3. CD!Get(p, CD!SizeBstrLen) = CD!Read(CD!SizeChar * Len(s), p + 1)
  BY <1>2, GetAt
<1>4. (CD!SizeChar * Len(s)) \div CD!SizeChar = Len(s)
  BY DEF CD!SizeChar
<1>5. ASSUME NEW i \in 1..Len(s) PROVE get[st[i - 1]] = CD!Read(s[i], st[i])
  <2>1. /\ p + 1 + Len(s) <= Len(buf)
        /\ buf[p + 1 + i] = [size |-> CD!SizeChar, val |-> s[i]]
    BY <1>2, CharsType DEF At
  <2>2. st[i - 1] = p + i /\ st[i] = p + i + 1 /\ p + i \in CD!Offsets /\ p + i < Len(buf)
    <3>1. i \in 0..Len(s) /\ i - 1 \in 0..Len(s) /\ p + 1 + (i - 1) = p + i /\ p + 1 + i = p + i + 1
      OBVIOUS
    <3>2. st[i - 1] = p + 1 + (i - 1) /\ st[i] = p + 1 + i
      BY <3>1, Zenon
    <3>3. p + i \in CD!Offsets /\ p + i < Len(buf)
      BY <2>1 DEF CD!Offsets
    <3> HIDE DEF st
    <3> QED
      BY <3>1, <3>2, <3>3
  <2>3. p + 1 + i = p + i + 1
    OBVIOUS
  <2>4. CD!Get(p + i, CD!SizeChar) = CD!Read(s[i], p + i + 1)
    BY <2>1, <2>2, <2>3 DEF CD!Get
  <2> QED
    BY <2>2, <2>4
<1>6. st[0] = p + 1 /\ st[Len(s)] = p + Len(CD!PutBstr(s))
  <2>1. Len(CD!PutBstr(s)) = Len(s) + 1
    BY PutBstrType
  <2>2. st[0] = p + 1 /\ st[Len(s)] = p + 1 + Len(s)
    OBVIOUS
  <2>3. p + 1 + Len(s) = p + (Len(s) + 1)
    OBVIOUS
  <2> QED
    BY <2>1, <2>2, <2>3, Zenon
<1> HIDE DEF get, st
<1>7. Reads(get, st, s, Len(s))
  BY <1>5, Zenon DEF Reads
<1>8. CD!GetN(get, Len(s), p + 1) = CD!Read(s, p + Len(CD!PutBstr(s)))
  BY <1>6, <1>7, GetNReads
<1>9. /\ CD!Read(CD!SizeChar * Len(s), p + 1).ok
      /\ CD!Read(CD!SizeChar * Len(s), p + 1).val = CD!SizeChar * Len(s)
      /\ CD!Read(CD!SizeChar * Len(s), p + 1).next = p + 1
  BY DEF CD!Read
<1> QED
  BY <1>3, <1>4, <1>8, <1>9 DEF CD!GetBstr, get

\* A value of a type, and what is left of it.
OfType(vt, v) ==
    v \in Seq(Int) /\ (vt # "BSTR" => Len(v) = 1) /\ (vt = "DATE" => CD!Rounded(v))

Kept(vt, v) == IF vt = "DATE" THEN CD!Date(CD!Days(v)) ELSE v

Valued(vt, array) == vt = "BSTR" \/ CD!ElementSize(vt, array) > 0

LEMMA DateType ==
    ASSUME NEW v \in Seq(Int), Len(v) = 1, CD!Rounded(v)
    PROVE  CD!Days(v) \in Seq(Int) /\ CD!Date(CD!Days(v)) \in Seq(Int)
<1>1. v[1] \in Int
  OBVIOUS
<1>2. v[1] > 0 => Second(v[1]) \in Int
  BY <1>1 DEF CD!Rounded
<1>3. <<0>> \in Seq(Int) /\ ~(<<0>>[1] > 0)
  OBVIOUS
<1>4. CASE v[1] > 0
  <2>1. CD!Days(v) = v /\ CD!Date(v) = <<Second(v[1])>>
    BY <1>4 DEF CD!Days, CD!Date
  <2> QED
    BY <1>2, <1>4, <2>1
<1>5. CASE ~(v[1] > 0)
  <2>1. CD!Days(v) = <<0>>
    BY <1>5 DEF CD!Days
  <2>2. CD!Date(<<0>>) = <<0>>
    BY <1>3 DEF CD!Date
  <2> QED
    BY <1>3, <2>1, <2>2
<1> QED
  BY <1>4, <1>5

LEMMA KeptType ==
    ASSUME NEW vt, NEW v, OfType(vt, v)
    PROVE  Kept(vt, v) \in Seq(Int)
BY DateType DEF Kept, OfType

LEMMA PutValueType ==
    ASSUME NEW vt, NEW array, NEW v, OfType(vt, v)
    PROVE  /\ CD!PutValue(vt, array, v) \in Seq(Fields)
           /\ vt = "BSTR" => CD!PutValue(vt, array, v) = CD!PutBstr(v)
           /\ vt = "DATE" => CD!PutValue(vt, array, v) = CD!Field(CD!SizeOf(vt), CD!Days(v))
           /\ vt \notin {"BSTR", "DATE"} /\ CD!ElementSize(vt, array) > 0 =>
                CD!PutValue(vt, array, v) = CD!Field(CD!ElementSize(vt, array), v)
           /\ vt \notin {"BSTR", "DATE"} /\ ~(CD!ElementSize(vt, array) > 0) =>
                CD!PutValue(vt, array, v) = <<>>
<1>1. CASE vt = "BSTR"
  <2>0. ~(CD!ElementSize(vt, array) > 0)
    BY <1>1 DEF CD!ElementSize, CD!ScalarSizeOf, CD!SizeOf, CD!Size1, CD!Size2, CD!Size4, CD!Size8
  <2>1. CD!PutValue(vt, array, v) = CD!PutBstr(v)
    BY <1>1, <2>0 DEF CD!PutValue
  <2> QED
    BY <1>1, <2>1, PutBstrType DEF OfType
<1>2. CASE vt = "DATE"
  <2>1. CD!PutValue(vt, array, v) = CD!Field(CD!SizeOf(vt), CD!Days(v))
    BY <1>2 DEF CD!PutValue
  <2>2. CD!Days(v) \in Written
    BY <1>2, DateType DEF OfType, Written
  <2>3. CD!Field(CD!SizeOf(vt), CD!Days(v)) \in Seq(Fields)
    BY <2>2, FieldType, Sizes
  <2> QED
    BY <1>2, <2>1, <2>3
<1>3. CASE vt \notin {"BSTR", "DATE"} /\ CD!ElementSize(vt, array) > 0
  <2>1. CD!PutValue(vt, array, v) = CD!Field(CD!ElementSize(vt, array), v)
    BY <1>3 DEF CD!PutValue
  <2>2. CD!Field(CD!ElementSize(vt, array), v) \in Seq(Fields)
    BY FieldType, Sizes DEF OfType, Written
  <2> QED
    BY <1>3, <2>1, <2>2
<1>4. CASE vt \notin {"BSTR", "DATE"} /\ ~(CD!ElementSize(vt, array) > 0)
  <2>1. CD!PutValue(vt, array, v) = <<>>
    BY <1>4 DEF CD!PutValue
  <2> QED
    BY <1>4, <2>1
<1> QED
  BY <1>1, <1>2, <1>3, <1>4

LEMMA ValueReads ==
    ASSUME Len(buf) \in Nat, NEW vt, NEW array, NEW v, OfType(vt, v),
           Valued(vt, array), NEW p \in Nat, At(p, CD!PutValue(vt, array, v))
    PROVE  CD!GetValue(vt, array, p) = CD!Read(Kept(vt, v), p + Len(CD!PutValue(vt, array, v)))
<1>1. CASE vt = "BSTR"
  <2>1. CD!GetValue(vt, array, p) = CD!GetBstr(p)
    BY <1>1 DEF CD!GetValue
  <2>2. CD!PutValue(vt, array, v) = CD!PutBstr(v) /\ v \in Seq(Int) /\ Kept(vt, v) = v
    BY <1>1, PutValueType DEF OfType, Kept
  <2> QED
    BY <2>1, <2>2, BstrReads
<1>2. CASE vt = "DATE"
  <2>1. CD!PutValue(vt, array, v) = CD!Field(CD!SizeOf(vt), CD!Days(v)) /\ Kept(vt, v) = CD!Date(CD!Days(v))
    BY <1>2, PutValueType DEF Kept
  <2>2. CD!ElementSize(vt, array) = CD!SizeOf(vt)
    BY <1>2 DEF CD!ElementSize, CD!ScalarSizeOf
  <2>3. CD!Get(p, CD!ElementSize(vt, array)) = CD!Read(CD!Days(v), p + 1)
    BY <2>1, <2>2, GetAt
  <2>4. /\ CD!Read(CD!Days(v), p + 1).ok /\ CD!Read(CD!Days(v), p + 1).val = CD!Days(v)
        /\ CD!Read(CD!Days(v), p + 1).next = p + 1
    BY DEF CD!Read
  <2>5. CD!GetValue(vt, array, p) = CD!Read(CD!Date(CD!Days(v)), p + 1)
    BY <1>2, <2>3, <2>4 DEF CD!GetValue
  <2>6. Len(CD!PutValue(vt, array, v)) = 1
    BY <2>1 DEF CD!Field
  <2> QED
    BY <2>1, <2>5, <2>6
<1>3. CASE vt \notin {"BSTR", "DATE"}
  <2>1. CD!PutValue(vt, array, v) = CD!Field(CD!ElementSize(vt, array), v) /\ Kept(vt, v) = v
    BY <1>3, PutValueType DEF Kept, Valued
  <2>2. CD!Get(p, CD!ElementSize(vt, array)) = CD!Read(v, p + 1)
    BY <2>1, GetAt
  <2>3. CD!GetValue(vt, array, p) = CD!Get(p, CD!ElementSize(vt, array))
    BY <1>3 DEF CD!GetValue
  <2>4. Len(CD!PutValue(vt, array, v)) = 1
    BY <2>1 DEF CD!Field
  <2> QED
    BY <2>1, <2>2, <2>3, <2>4
<1> QED
  BY <1>1, <1>2, <1>3

LEMMA AtOffset ==
    ASSUME Len(buf) \in Nat, NEW F, NEW fields \in Seq(F), NEW p \in Nat, At(p, fields)
    PROVE  p \in CD!Offsets
<1>1. Len(fields) \in Nat /\ p + Len(fields) <= Len(buf)
  BY DEF At
<1> QED
  BY <1>1 DEF CD!Offsets

Kepts(vt, vs) == [i \in DOMAIN vs |-> Kept(vt, vs[i])]

GetValues(vt, array) == [q \in CD!Offsets |-> CD!GetValue(vt, array, q)]

\* The fields of the values of a VARIANT.
PutValues(vt, array, vs) == [i \in DOMAIN vs |-> CD!PutValue(vt, array, vs[i])]

LEMMA ValuesRead ==
    ASSUME Len(buf) \in Nat, NEW vt, NEW array, NEW vs \in Seq(Seq(Int)),
           \A i \in DOMAIN vs : OfType(vt, vs[i]) /\ Valued(vt, array),
           NEW p \in Nat, At(p, CD!Joined(PutValues(vt, array, vs)))
    PROVE  CD!GetN(GetValues(vt, array), Len(vs), p)
             = CD!Read(Kepts(vt, vs), p + Len(CD!Joined(PutValues(vt, array, vs))))
<1> DEFINE ss == PutValues(vt, array, vs)
           get == [q \in CD!Offsets |-> CD!GetValue(vt, array, q)]
           vals == [i \in DOMAIN vs |-> Kept(vt, vs[i])]
<1>1. \A i \in DOMAIN vs : ss[i] = CD!PutValue(vt, array, vs[i]) /\ ss[i] \in Seq(Fields)
  BY PutValueType, Zenon DEF PutValues
<1>2. DOMAIN vs = 1..Len(vs) /\ Len(vs) \in Nat
  OBVIOUS
<1>3. ss \in Seq(Seq(Fields)) /\ Len(ss) = Len(vs)
  <2>1. ss = [i \in 1..Len(vs) |-> ss[i]]
    BY <1>2, Zenon DEF PutValues
  <2> HIDE DEF ss
  <2> QED
    BY <1>1, <1>2, <2>1
<1>4. vals \in Seq(Seq(Int)) /\ Len(vals) = Len(vs)
  <2>1. \A i \in DOMAIN vs : vals[i] \in Seq(Int)
    BY KeptType, Zenon
  <2>2. vals = [i \in 1..Len(vs) |-> vals[i]]
    BY <1>2, Zenon
  <2> HIDE DEF vals
  <2> QED
    BY <1>2, <2>1, <2>2
<1>5. ASSUME NEW i \in 1..Len(ss), NEW q \in Nat, At(q, ss[i])
      PROVE  get[q] = CD!Read(vals[i], q + Len(ss[i]))
  <2>1. i \in DOMAIN vs
    BY <1>2, <1>3
  <2>2. At(q, CD!PutValue(vt, array, vs[i]))
    BY <1>1, <1>5, <2>1, Zenon
  <2>3. q \in CD!Offsets
    BY <1>1, <1>5, <2>1, AtOffset
  <2>4. CD!GetValue(vt, array, q) = CD!Read(Kept(vt, vs[i]), q + Len(CD!PutValue(vt, array, vs[i])))
    BY <2>1, <2>2, ValueReads
  <2> QED
    BY <1>1, <2>1, <2>3, <2>4, Zenon
<1> HIDE DEF ss, get, vals
<1>6. EachReads(get, ss, vals)
  BY <1>5, Zenon DEF EachReads
<1>7. CD!GetN(get, Len(ss), p) = CD!Read(vals, p + Len(CD!Joined(ss)))
  <2>1. At(p, CD!Joined(ss))
    BY DEF ss
  <2> QED
    BY <1>3, <1>4, <1>6, <2>1, JoinedReads
<1> QED
  BY <1>3, <1>7, Zenon DEF ss, get, vals, Kepts, GetValues
-----------------------------------------------------------------------------
(* The fields of a VARIANT, and reading it *)

Inner(d) == IF d = 0 THEN {} ELSE Level[d - 1]

\* What Coding says of a VARIANT.
LEMMA Shape ==
    ASSUME CD!Coding, NEW d \in 0..Deepest, NEW x \in Level[d]
    PROVE  /\ x = [vt |-> x.vt, array |-> x.array, val |-> x.val, sub |-> x.sub]
           /\ x.array \in BOOLEAN /\ x.val \in Seq(Seq(Int)) /\ x.sub \in Seq(Inner(d))
           /\ \A i \in DOMAIN x.val : OfType(x.vt, x.val[i])
           /\ x.vt = "VARIANT" => x.val = <<>>
           /\ x.vt # "VARIANT" \/ ~x.array => x.sub = <<>>
           /\ ~x.array => Len(x.val) = IF x.vt = "BSTR" \/ CD!ScalarSizeOf(x.vt) > 0 THEN 1 ELSE 0
<1>1. /\ x = [vt |-> x.vt, array |-> x.array, val |-> x.val, sub |-> x.sub]
      /\ x.array \in BOOLEAN /\ x.val \in Seq(Seq(Int))
      /\ x.vt # "BSTR" => \A i \in DOMAIN x.val : Len(x.val[i]) = 1
      /\ x.vt = "DATE" => \A i \in DOMAIN x.val : CD!Rounded(x.val[i])
      /\ x.vt = "VARIANT" => x.val = <<>>
      /\ x.sub \in Seq(IF d = 0 THEN {} ELSE Level[d - 1])
      /\ x.sub # <<>> => x.vt = "VARIANT" /\ x.array
      /\ ~x.array => Len(x.val) = IF x.vt = "BSTR" \/ CD!ScalarSizeOf(x.vt) > 0 THEN 1 ELSE 0
  BY Zenon DEF CD!Coding
<1>2. \A i \in DOMAIN x.val : x.val[i] \in Seq(Int)
  BY <1>1
<1> QED
  BY <1>1, <1>2, Zenon DEF OfType, Inner

\* y is read as same[y], wherever it is.
ReadAs(put, get, same, y) ==
    \A q \in Nat : At(q, put[y]) => get[q] = CD!Read(same[y], q + Len(put[y]))

Subs(same, ys) == [i \in DOMAIN ys |-> same[ys[i]]]

PutSubs(put, ys) == [i \in DOMAIN ys |-> put[ys[i]]]

LEMMA SubsRead ==
    ASSUME Len(buf) \in Nat, NEW B, NEW ys \in Seq(B), NEW put, NEW get, NEW same,
           \A y \in B : put[y] \in Seq(Fields),
           \A i \in DOMAIN ys : ReadAs(put, get, same, ys[i]),
           NEW p \in Nat, At(p, CD!Joined(PutSubs(put, ys)))
    PROVE  CD!GetN(get, Len(ys), p)
             = CD!Read(Subs(same, ys), p + Len(CD!Joined(PutSubs(put, ys))))
<1> DEFINE ss == PutSubs(put, ys)
           vals == [i \in DOMAIN ys |-> same[ys[i]]]
           V == {same[y] : y \in B}
<1>1. DOMAIN ys = 1..Len(ys) /\ Len(ys) \in Nat /\ \A i \in DOMAIN ys : ys[i] \in B
  OBVIOUS
<1>2. \A i \in DOMAIN ys : ss[i] = put[ys[i]] /\ ss[i] \in Seq(Fields)
  BY <1>1, Zenon DEF PutSubs
<1>3. ss \in Seq(Seq(Fields)) /\ Len(ss) = Len(ys)
  <2>1. ss = [i \in 1..Len(ys) |-> ss[i]]
    BY <1>1, Zenon DEF PutSubs
  <2> HIDE DEF ss
  <2> QED
    BY <1>1, <1>2, <2>1
<1>4. vals \in Seq(V) /\ Len(vals) = Len(ys)
  <2>1. \A i \in DOMAIN ys : vals[i] \in V
    BY <1>1, Zenon
  <2>2. vals = [i \in 1..Len(ys) |-> vals[i]]
    BY <1>1, Zenon
  <2> HIDE DEF vals, V
  <2> QED
    BY <1>1, <2>1, <2>2
<1>5. ASSUME NEW i \in 1..Len(ss), NEW q \in Nat, At(q, ss[i])
      PROVE  get[q] = CD!Read(vals[i], q + Len(ss[i]))
  <2>1. i \in DOMAIN ys
    BY <1>1, <1>3
  <2> QED
    BY <1>2, <1>5, <2>1, Zenon DEF ReadAs
<1> HIDE DEF ss, vals, V
<1>6. EachReads(get, ss, vals)
  BY <1>5, Zenon DEF EachReads
<1>7. CD!GetN(get, Len(ss), p) = CD!Read(vals, p + Len(CD!Joined(ss)))
  <2>1. At(p, CD!Joined(ss))
    BY DEF ss
  <2> QED
    BY <1>3, <1>4, <1>6, <2>1, JoinedReads
<1> QED
  BY <1>3, <1>7, Zenon DEF ss, vals, Subs

\* What PutFields joins behind the type and the number.
Content(x, put) == IF x.vt = "VARIANT" THEN PutSubs(put, x.sub) ELSE PutValues(x.vt, x.array, x.val)

Number(x) == IF x.array THEN Len(x.val) + Len(x.sub) ELSE 1

LEMMA JoinedType ==
    ASSUME NEW F, NEW ss \in Seq(Seq(F))
    PROVE  CD!Joined(ss) \in Seq(F)
<1>1. PICK joined \in [0..Len(ss) -> Seq(F)] :
        Joins(joined, ss) /\ CD!Joined(ss) = joined[Len(ss)]
  BY JoinedSteps
<1>2. Len(ss) \in 0..Len(ss)
  OBVIOUS
<1> QED
  BY <1>1, <1>2, Zenon

LEMMA NumberType ==
    ASSUME CD!Coding, NEW d \in 0..Deepest, NEW x \in Level[d]
    PROVE  <<x.vt, x.array>> \in Written /\ Number(x) \in Written
<1>1. x \in UNION {Level[k] : k \in 0..Deepest}
  OBVIOUS
<1>2. x.val \in Seq(Seq(Int)) /\ x.sub \in Seq(Inner(d))
  BY Shape
<1>3. Number(x) \in Int
  BY <1>2 DEF Number
<1> QED
  BY <1>1, <1>3, Zenon DEF Written

LEMMA PutFieldsType ==
    ASSUME CD!Coding, NEW d \in 0..Deepest, NEW x \in Level[d], NEW put,
           \A y \in Inner(d) : put[y] \in Seq(Fields)
    PROVE  /\ CD!PutFields(x, put) = CD!Field(CD!SizeType, <<x.vt, x.array>>) \o CD!Field(CD!SizeNum, Number(x))
                                    \o CD!Joined(Content(x, put))
           /\ CD!Field(CD!SizeType, <<x.vt, x.array>>) \in Seq(Fields)
           /\ CD!Field(CD!SizeNum, Number(x)) \in Seq(Fields)
           /\ Content(x, put) \in Seq(Seq(Fields)) /\ CD!Joined(Content(x, put)) \in Seq(Fields)
           /\ CD!PutFields(x, put) \in Seq(Fields)
<1>1. CD!PutFields(x, put) = CD!Field(CD!SizeType, <<x.vt, x.array>>) \o CD!Field(CD!SizeNum, Number(x))
                            \o CD!Joined(Content(x, put))
  BY Zenon DEF CD!PutFields, Content, Number, PutSubs, PutValues
<1>2. x.val \in Seq(Seq(Int)) /\ x.sub \in Seq(Inner(d))
      /\ \A i \in DOMAIN x.val : OfType(x.vt, x.val[i])
  BY Shape
<1>3. <<x.vt, x.array>> \in Written /\ Number(x) \in Written
  BY NumberType
<1>4. CD!Field(CD!SizeType, <<x.vt, x.array>>) \in Seq(Fields) /\ CD!Field(CD!SizeNum, Number(x)) \in Seq(Fields)
  BY <1>3, FieldType, Sizes
<1>5. PutSubs(put, x.sub) \in Seq(Seq(Fields))
  <2> DEFINE ys == x.sub
             ss == PutSubs(put, ys)
  <2>1. DOMAIN ys = 1..Len(ys) /\ Len(ys) \in Nat /\ \A i \in DOMAIN ys : ys[i] \in Inner(d)
    BY <1>2
  <2>2. \A i \in DOMAIN ys : ss[i] \in Seq(Fields)
    BY <2>1, Zenon DEF PutSubs
  <2>3. ss = [i \in 1..Len(ys) |-> ss[i]]
    BY <2>1, Zenon DEF PutSubs
  <2> HIDE DEF ss, ys
  <2>4. ss \in Seq(Seq(Fields))
    BY <2>1, <2>2, <2>3
  <2> QED
    BY <2>4 DEF ss, ys
<1>6. PutValues(x.vt, x.array, x.val) \in Seq(Seq(Fields))
  <2> DEFINE vs == x.val
             ss == PutValues(x.vt, x.array, vs)
  <2>1. DOMAIN vs = 1..Len(vs) /\ Len(vs) \in Nat
    BY <1>2
  <2>2. \A i \in DOMAIN vs : ss[i] \in Seq(Fields)
    BY <1>2, PutValueType, Zenon DEF PutValues
  <2>3. ss = [i \in 1..Len(vs) |-> ss[i]]
    BY <2>1, Zenon DEF PutValues
  <2> HIDE DEF ss, vs
  <2>4. ss \in Seq(Seq(Fields))
    BY <2>1, <2>2, <2>3
  <2> QED
    BY <2>4 DEF ss, vs
<1>7. Content(x, put) \in Seq(Seq(Fields))
  BY <1>5, <1>6, Zenon DEF Content
<1>8. CD!Joined(Content(x, put)) \in Seq(Fields)
  BY <1>7, JoinedType
<1>9. CD!PutFields(x, put) \in Seq(Fields)
  BY <1>1, <1>4, <1>8, Concat
<1> QED
  BY <1>1, <1>4, <1>7, <1>8, <1>9

LEMMA ReceivedIs ==
    ASSUME NEW x, NEW same
    PROVE  CD!Received(x, same).val = Kepts(x.vt, x.val) /\ CD!Received(x, same).sub = Subs(same, x.sub)
BY DEF CD!Received, Kepts, Kept, Subs

\* What put writes for a VARIANT in another are fields, and they are read.
PutBelow(d, put) == \A y \in Inner(d) : put[y] \in Seq(Fields)

ReadsSubs(x, put, get, same) == \A i \in DOMAIN x.sub : ReadAs(put, get, same, x.sub[i])

LEMMA BodyReads ==
    ASSUME CD!Coding, Len(buf) \in Nat, NEW d \in 0..Deepest, NEW x \in Level[d],
           NEW put, NEW get, NEW same, x.array => CD!Creatable(x.vt, Len(x.val)),
           PutBelow(d, put), ReadsSubs(x, put, get, same),
           NEW p \in Nat, At(p, CD!Joined(Content(x, put)))
    PROVE  LET r == CD!Received(x, same)
           IN CD!GetBody(x.vt, x.array, Number(x), p, get)
                = CD!Read(IF x.vt = "VARIANT" THEN r.sub ELSE r.val, p + Len(CD!Joined(Content(x, put))))
<1> DEFINE vals == Kepts(x.vt, x.val)
           subs == Subs(same, x.sub)
           end == p + Len(CD!Joined(Content(x, put)))
           getValues == GetValues(x.vt, x.array)
           n == IF x.vt = "BSTR" \/ CD!ScalarSizeOf(x.vt) > 0 THEN 1 ELSE 0
<1>1. CD!Received(x, same).val = vals /\ CD!Received(x, same).sub = subs
  BY ReceivedIs
<1>2. /\ x.array \in BOOLEAN /\ x.val \in Seq(Seq(Int)) /\ x.sub \in Seq(Inner(d))
      /\ \A i \in DOMAIN x.val : OfType(x.vt, x.val[i])
      /\ x.vt = "VARIANT" => x.val = <<>>
      /\ x.vt # "VARIANT" \/ ~x.array => x.sub = <<>>
      /\ ~x.array => Len(x.val) = n
  BY Shape
<1>3. ASSUME x.vt # "VARIANT", \A i \in DOMAIN x.val : Valued(x.vt, x.array)
      PROVE  CD!GetN(getValues, Len(x.val), p) = CD!Read(vals, end)
  <2>1. Content(x, put) = PutValues(x.vt, x.array, x.val)
    BY <1>3 DEF Content
  <2>2. At(p, CD!Joined(PutValues(x.vt, x.array, x.val)))
    BY <2>1, Zenon
  <2>3. \A i \in DOMAIN x.val : OfType(x.vt, x.val[i]) /\ Valued(x.vt, x.array)
    BY <1>2, <1>3, Zenon
  <2>4. x.val \in Seq(Seq(Int))
    BY <1>2
  <2>5. CD!GetN(getValues, Len(x.val), p)
          = CD!Read(vals, p + Len(CD!Joined(PutValues(x.vt, x.array, x.val))))
    BY <2>2, <2>3, <2>4, ValuesRead
  <2> QED
    BY <2>1, <2>5, Zenon
<1>4. CASE x.array /\ x.vt = "VARIANT"
  <2>1. CD!GetBody(x.vt, x.array, Number(x), p, get) = CD!GetN(get, Number(x), p)
    BY <1>4 DEF CD!GetBody, CD!Creatable, GetValues
  <2>2. Number(x) = Len(x.sub)
    <3>1. Len(x.val) = 0 /\ Len(x.sub) \in Nat
      BY <1>2, <1>4
    <3> QED
      BY <1>4, <3>1 DEF Number
  <2>3. Content(x, put) = PutSubs(put, x.sub)
    BY <1>4 DEF Content
  <2>4. CD!GetN(get, Len(x.sub), p) = CD!Read(subs, end)
    <3>1. At(p, CD!Joined(PutSubs(put, x.sub)))
      BY <2>3, Zenon
    <3>2. x.sub \in Seq(Inner(d))
      BY <1>2
    <3>3. CD!GetN(get, Len(x.sub), p) = CD!Read(subs, p + Len(CD!Joined(PutSubs(put, x.sub))))
      BY <3>1, <3>2, SubsRead DEF PutBelow, ReadsSubs
    <3> QED
      BY <2>3, <3>3, Zenon
  <2> QED
    BY <1>1, <1>4, <2>1, <2>2, <2>4, Zenon
<1>5. CASE x.array /\ x.vt # "VARIANT"
  <2>1. Number(x) = Len(x.val) /\ Len(x.val) \in Nat
    <3>1. Len(x.sub) = 0 /\ Len(x.val) \in Nat
      BY <1>2, <1>5
    <3> QED
      BY <1>5, <3>1 DEF Number
  <2>2. CD!Creatable(x.vt, Len(x.val))
    BY <1>5
  <2>3. CD!GetBody(x.vt, x.array, Number(x), p, get) = CD!GetN(getValues, Number(x), p)
    <3>1. CD!Creatable(x.vt, Number(x)) /\ x.array = TRUE
      BY <1>2, <1>5, <2>1, <2>2
    <3> QED
      BY <1>5, <3>1 DEF CD!GetBody, GetValues
  <2>4. ASSUME NEW i \in DOMAIN x.val PROVE Valued(x.vt, x.array)
    <3>1. Len(x.val) # 0
      BY <1>2
    <3> QED
      BY <1>5, <2>2, <3>1 DEF CD!Creatable, Valued, CD!ElementSize
  <2>5. CD!GetN(getValues, Len(x.val), p) = CD!Read(vals, end)
    BY <1>3, <1>5, <2>4
  <2> QED
    BY <1>1, <1>5, <2>1, <2>3, <2>5, Zenon
<1>6. CASE ~x.array
  <2>1. CD!GetBody(x.vt, x.array, Number(x), p, get) = CD!GetN(getValues, n, p)
    <3>1. x.array = FALSE
      BY <1>2, <1>6
    <3> QED
      BY <3>1 DEF CD!GetBody, GetValues
  <2>2. CASE x.vt # "VARIANT"
    <3>1. ASSUME NEW i \in DOMAIN x.val PROVE Valued(x.vt, x.array)
      <4>1. Len(x.val) # 0
        BY <1>2
      <4>2. n # 0
        BY <1>2, <1>6, <4>1, Zenon
      <4> QED
        BY <1>6, <4>2 DEF Valued, CD!ElementSize
    <3>2. CD!GetN(getValues, Len(x.val), p) = CD!Read(vals, end)
      BY <1>3, <2>2, <3>1
    <3> QED
      BY <1>1, <1>2, <1>6, <2>1, <2>2, <3>2, Zenon
  <2>3. CASE x.vt = "VARIANT"
    <3>1. n = 0
      BY <2>3 DEF CD!ScalarSizeOf, CD!SizeOf, CD!Size1, CD!Size2, CD!Size4, CD!Size8
    <3>2. Content(x, put) = PutSubs(put, x.sub) /\ x.sub = <<>>
      BY <1>2, <1>6, <2>3, Zenon DEF Content
    <3>3. CD!GetN(get, Len(x.sub), p) = CD!Read(subs, end)
      <4>1. At(p, CD!Joined(PutSubs(put, x.sub)))
        BY <3>2, Zenon
      <4>2. x.sub \in Seq(Inner(d))
        BY <1>2
      <4>3. CD!GetN(get, Len(x.sub), p) = CD!Read(subs, p + Len(CD!Joined(PutSubs(put, x.sub))))
        BY <4>1, <4>2, SubsRead DEF PutBelow, ReadsSubs
      <4> QED
        BY <3>2, <4>3, Zenon
    <3>4. Len(x.sub) = 0
      BY <3>2
    <3>5. CD!GetN(getValues, 0, p) = CD!GetN(get, 0, p)
      <4> DEFINE a == [q \in 0..0 |-> CD!Read(<<>>, p)]
                 Step(g, f) == [i \in 0..0 |-> IF i = 0 THEN CD!Read(<<>>, p)
                                               ELSE CD!AlsoRead(f[i - 1], g[f[i - 1].next])]
      <4>1. \A g, f : Step(g, f) = a
        OBVIOUS
      <4>2. \A g : CD!GetN(g, 0, p) = (CHOOSE f : f = Step(g, f))[0]
        BY DEF CD!GetN
      <4> HIDE DEF a, Step
      <4>3. \A g : (CHOOSE f : f = Step(g, f)) = a
        BY <4>1, Zenon
      <4> QED
        BY <4>2, <4>3, Zenon
    <3> QED
      BY <1>1, <2>1, <2>3, <3>1, <3>3, <3>4, <3>5, Zenon
  <2> QED
    BY <2>2, <2>3
<1> QED
  BY <1>2, <1>4, <1>5, <1>6

LEMMA FieldsRead ==
    ASSUME CD!Coding, Len(buf) \in Nat, NEW d \in 0..Deepest, NEW x \in Level[d],
           NEW put, NEW get, NEW same, x.array => CD!Creatable(x.vt, Len(x.val)),
           PutBelow(d, put), ReadsSubs(x, put, get, same),
           NEW p \in Nat, At(p, CD!PutFields(x, put))
    PROVE  CD!GetFields(p, get) = CD!Read(CD!Received(x, same), p + Len(CD!PutFields(x, put)))
<1> DEFINE type == CD!Field(CD!SizeType, <<x.vt, x.array>>)
           number == CD!Field(CD!SizeNum, Number(x))
           content == CD!Joined(Content(x, put))
           r == CD!Received(x, same)
           inner == IF x.vt = "VARIANT" THEN r.sub ELSE r.val
           body == CD!GetBody(x.vt, x.array, Number(x), p + 2, get)
<1>1. /\ CD!PutFields(x, put) = (type \o number) \o content
      /\ type \in Seq(Fields) /\ number \in Seq(Fields) /\ content \in Seq(Fields)
  BY PutFieldsType DEF PutBelow
<1>2. Len(type) = 1 /\ Len(number) = 1
  BY DEF CD!Field
<1>3. At(p, type) /\ At(p + 1, number) /\ At(p + 2, content)
      /\ Len(CD!PutFields(x, put)) = 2 + Len(content) /\ Len(content) \in Nat
  <2> HIDE DEF type, number, content
  <2>1. type \o number \in Seq(Fields) /\ Len(type \o number) = 2
    <3>1. type \o number \in Seq(Fields) /\ Len(type \o number) = Len(type) + Len(number)
      BY <1>1, Concat, Zenon
    <3> QED
      BY <1>2, <3>1
  <2>2. At(p, type \o number) /\ At(p + 2, content)
    <3>1. At(p, (type \o number) \o content)
      BY <1>1, Zenon
    <3> QED
      BY <1>1, <2>1, <3>1, AtBoth
  <2>3. At(p, type) /\ At(p + 1, number)
    BY <1>1, <1>2, <2>2, AtBoth
  <2>4. Len(CD!PutFields(x, put)) = 2 + Len(content) /\ Len(content) \in Nat
    BY <1>1, <2>1, Concat
  <2> QED
    BY <2>2, <2>3, <2>4
<1>4. CD!Get(p, CD!SizeType) = CD!Read(<<x.vt, x.array>>, p + 1)
  BY <1>3, GetAt
<1>5. CD!Get(p + 1, CD!SizeNum) = CD!Read(Number(x), p + 2)
  <2>1. p + 1 \in Nat /\ p + 1 + 1 = p + 2
    OBVIOUS
  <2> HIDE DEF type, content, body
  <2>2. CD!Get(p + 1, CD!SizeNum) = CD!Read(Number(x), p + 1 + 1)
    BY <1>3, <2>1, GetAt
  <2> QED
    BY <2>1, <2>2
<1>6. body = CD!Read(inner, p + 2 + Len(content))
  <2>1. p + 2 \in Nat
    OBVIOUS
  <2>2. At(p + 2, CD!Joined(Content(x, put)))
    BY <1>3, Zenon
  <2> QED
    BY <2>1, <2>2, BodyReads
<1>8. <<x.vt, x.array>>[1] = x.vt /\ <<x.vt, x.array>>[2] = x.array
  OBVIOUS
<1>9. p + 2 + Len(content) = p + Len(CD!PutFields(x, put))
  BY <1>3
<1> HIDE DEF type, number, content, r, inner, body
<1>10. CD!GetFields(p, get)
         = CD!Read([vt |-> x.vt, array |-> x.array,
                 val |-> IF x.vt = "VARIANT" THEN <<>> ELSE inner,
                 sub |-> IF x.vt = "VARIANT" THEN inner ELSE <<>>], p + Len(CD!PutFields(x, put)))
  <2> DEFINE t == CD!Get(p, CD!SizeType)
             n == CD!Get(t.next, CD!SizeNum)
             b == CD!GetBody(t.val[1], t.val[2], n.val, n.next, get)
  <2>1. t.ok /\ t.val[1] = x.vt /\ t.val[2] = x.array /\ t.next = p + 1
    <3> HIDE DEF t
    <3>1. t = CD!Read(<<x.vt, x.array>>, p + 1)
      BY <1>4, Zenon DEF t
    <3>2. t.ok /\ t.val = <<x.vt, x.array>> /\ t.next = p + 1
      BY <3>1 DEF CD!Read
    <3> QED
      BY <1>8, <3>2, Zenon
  <2>2. n.ok /\ n.val = Number(x) /\ n.next = p + 2
    <3>1. n = CD!Read(Number(x), p + 2)
      BY <1>5, <2>1, Zenon
    <3> HIDE DEF n
    <3> QED
      BY <3>1 DEF CD!Read
  <2>3. b = CD!Read(inner, p + Len(CD!PutFields(x, put)))
    BY <1>6, <1>9, <2>1, <2>2, Zenon DEF body
  <2>4. b.ok /\ b.val = inner /\ b.next = p + Len(CD!PutFields(x, put))
    <3> HIDE DEF b
    <3> QED
      BY <2>3 DEF CD!Read
  <2>5. CD!GetFields(p, get) =
          IF ~t.ok \/ ~n.ok \/ ~b.ok THEN CD!Bad
          ELSE CD!Read([vt |-> t.val[1], array |-> t.val[2],
                     val |-> IF t.val[1] = "VARIANT" THEN <<>> ELSE b.val,
                     sub |-> IF t.val[1] = "VARIANT" THEN b.val ELSE <<>>], b.next)
    BY Zenon DEF CD!GetFields
  <2> HIDE DEF t, n, b
  <2> QED
    BY <2>1, <2>2, <2>4, <2>5, Zenon
<1>11. [vt |-> x.vt, array |-> x.array,
        val |-> IF x.vt = "VARIANT" THEN <<>> ELSE inner,
        sub |-> IF x.vt = "VARIANT" THEN inner ELSE <<>>] = r
  <2>1. (x.vt = "VARIANT" => x.val = <<>>) /\ (x.vt # "VARIANT" => x.sub = <<>>)
    BY Shape
  <2>2. x.vt = "VARIANT" => r.val = <<>>
    <3>1. r.val = Kepts(x.vt, x.val)
      BY ReceivedIs DEF r
    <3>2. Kepts(x.vt, <<>>) = <<>>
      BY DEF Kepts
    <3> QED
      BY <2>1, <3>1, <3>2, Zenon
  <2>3. x.vt # "VARIANT" => r.sub = <<>>
    <3>1. r.sub = Subs(same, x.sub)
      BY ReceivedIs DEF r
    <3>2. Subs(same, <<>>) = <<>>
      BY DEF Subs
    <3> QED
      BY <2>1, <3>1, <3>2, Zenon
  <2>4. r = [vt |-> x.vt, array |-> x.array, val |-> r.val, sub |-> r.sub]
    BY DEF r, CD!Received
  <2> QED
    BY <2>2, <2>3, <2>4, Zenon DEF inner
<1> QED
  BY <1>10, <1>11, Zenon DEF r

\* What PutVariant writes are fields.
LEMMA PutVariantType ==
    ASSUME CD!Coding
    PROVE  \A d \in 0..Deepest : \A x \in Level[d] : CD!PutVariant[d][x] \in Seq(Fields)
<1> DEFINE T == {d \in 0..Deepest : \A x \in Level[d] : CD!PutVariant[d][x] \in Seq(Fields)}
<1>1. Deepest \in Nat
  BY DEF CD!Coding
<1>2. ASSUME NEW d \in 0..Deepest, \A y \in Inner(d) : CD!PutVariant[d - 1][y] \in Seq(Fields)
      PROVE  d \in T
  <2>1. CD!PutVariant[d] = [x \in Level[d] |-> CD!PutFields(x, CD!PutVariant[d - 1])]
    BY PutVariantDef
  <2>2. ASSUME NEW x \in Level[d] PROVE CD!PutVariant[d][x] \in Seq(Fields)
    <3>1. CD!PutVariant[d][x] = CD!PutFields(x, CD!PutVariant[d - 1])
      BY <2>1, Zenon
    <3>2. CD!PutFields(x, CD!PutVariant[d - 1]) \in Seq(Fields)
      BY <1>2, PutFieldsType
    <3> QED
      BY <3>1, <3>2, Zenon
  <2> QED
    BY <2>2
<1>3. 0 \in T
  BY <1>1, <1>2 DEF Inner
<1>4. ASSUME NEW d \in 1..Deepest, d - 1 \in T PROVE d \in T
  <2>1. d \in 0..Deepest /\ Inner(d) = Level[d - 1]
    BY DEF Inner
  <2>2. \A y \in Inner(d) : CD!PutVariant[d - 1][y] \in Seq(Fields)
    BY <1>4, <2>1
  <2> HIDE DEF T
  <2> QED
    BY <1>2, <2>1, <2>2
<1> HIDE DEF T
<1>5. \A d \in 0..Deepest : d \in T
  BY <1>1, <1>3, <1>4, Upwards
<1> QED
  BY <1>5 DEF T

\* A VARIANT that all tables know is read wherever it was written.
LEMMA VariantRead ==
    ASSUME CD!Coding, Len(buf) \in Nat
    PROVE  \A d \in 0..Deepest : \A x \in Level[d] :
             CD!Known[d][x] => ReadAs(CD!PutVariant[d], CD!GetVariant[d], CD!Same[d], x)
<1> DEFINE Good(d) == \A x \in Level[d] :
                        CD!Known[d][x] => ReadAs(CD!PutVariant[d], CD!GetVariant[d], CD!Same[d], x)
           T == {d \in 0..Deepest : Good(d)}
           below(d) == IF d = 0 THEN [q \in CD!Offsets |-> CD!Bad] ELSE CD!GetVariant[d - 1]
<1>1. Deepest \in Nat
  BY DEF CD!Coding
<1>2. ASSUME NEW d \in 0..Deepest, d # 0 => Good(d - 1) PROVE Good(d)
  <2> SUFFICES ASSUME NEW x \in Level[d], CD!Known[d][x], NEW p \in Nat, At(p, CD!PutVariant[d][x])
               PROVE  CD!GetVariant[d][p] = CD!Read(CD!Same[d][x], p + Len(CD!PutVariant[d][x]))
    BY DEF ReadAs
  <2>1. /\ CD!PutVariant[d][x] = CD!PutFields(x, CD!PutVariant[d - 1])
        /\ CD!Same[d][x] = CD!Received(x, CD!Same[d - 1])
        /\ CD!Known[d][x] = CD!KnownType(x, CD!Known[d - 1])
    <3>1. CD!PutVariant[d] = [z \in Level[d] |-> CD!PutFields(z, CD!PutVariant[d - 1])]
      BY PutVariantDef, Zenon
    <3>2. CD!Same[d] = [z \in Level[d] |-> CD!Received(z, CD!Same[d - 1])]
      BY SameDef, Zenon
    <3>3. CD!Known[d] = [z \in Level[d] |-> CD!KnownType(z, CD!Known[d - 1])]
      BY KnownDef, Zenon
    <3>4. CD!PutVariant[d][x] = CD!PutFields(x, CD!PutVariant[d - 1])
      BY <3>1, Zenon
    <3>5. CD!Same[d][x] = CD!Received(x, CD!Same[d - 1])
      BY <3>2, Zenon
    <3>6. CD!Known[d][x] = CD!KnownType(x, CD!Known[d - 1])
      BY <3>3, Zenon
    <3> QED
      BY <3>4, <3>5, <3>6, Zenon
  <2>2. p \in CD!Offsets
    BY PutVariantType, AtOffset
  <2>3. CD!GetVariant[d][p] = CD!GetFields(p, below(d))
    <3>1. CD!GetVariant[d] = [q \in CD!Offsets |-> CD!GetFields(q, below(d))]
      BY GetVariantDef, Zenon
    <3> HIDE DEF below
    <3> QED
      BY <2>2, <3>1, Zenon
  <2> HIDE DEF below
  <2>4. CD!KnownType(x, CD!Known[d - 1]) /\ At(p, CD!PutFields(x, CD!PutVariant[d - 1]))
    BY <2>1, Zenon
  <2>5. x.sub \in Seq(Inner(d))
    BY Shape
  <2>6. \A y \in Inner(d) : CD!PutVariant[d - 1][y] \in Seq(Fields)
    <3>1. CASE d = 0
      BY <3>1, Zenon DEF Inner
    <3>2. CASE d # 0
      <4>1. d - 1 \in 0..Deepest /\ Inner(d) = Level[d - 1]
        BY <1>1, <3>2 DEF Inner
      <4> QED
        BY <4>1, PutVariantType, Zenon
    <3> QED
      BY <3>1, <3>2
  <2>7. ASSUME NEW i \in DOMAIN x.sub
        PROVE  ReadAs(CD!PutVariant[d - 1], below(d), CD!Same[d - 1], x.sub[i])
    <3>1. x.sub[i] \in Inner(d)
      BY <2>5
    <3>2. d # 0 /\ x.sub[i] \in Level[d - 1]
      BY <3>1 DEF Inner
    <3>3. CD!Known[d - 1][x.sub[i]]
      BY <2>4, Zenon DEF CD!KnownType
    <3>4. below(d) = CD!GetVariant[d - 1]
      BY <3>2 DEF below
    <3> QED
      BY <1>2, <3>2, <3>3, <3>4, Zenon
  <2>8. x.array => CD!Creatable(x.vt, Len(x.val))
    BY <2>4, Zenon DEF CD!KnownType
  <2>9. PutBelow(d, CD!PutVariant[d - 1]) /\ ReadsSubs(x, CD!PutVariant[d - 1], below(d), CD!Same[d - 1])
    BY <2>6, <2>7, Zenon DEF PutBelow, ReadsSubs
  <2>10. CD!GetFields(p, below(d))
          = CD!Read(CD!Received(x, CD!Same[d - 1]), p + Len(CD!PutFields(x, CD!PutVariant[d - 1])))
    BY <2>4, <2>8, <2>9, FieldsRead
  <2> QED
    BY <2>1, <2>3, <2>10, Zenon
<1> HIDE DEF Good
<1>3. 0 \in T
  BY <1>1, <1>2
<1>4. ASSUME NEW d \in 1..Deepest, d - 1 \in T PROVE d \in T
  <2>1. d \in 0..Deepest /\ Good(d - 1)
    BY <1>4
  <2> QED
    BY <1>2, <2>1
<1> HIDE DEF T
<1>5. \A d \in 0..Deepest : d \in T
  BY <1>1, <1>3, <1>4, Upwards
<1> QED
  BY <1>5 DEF T, Good
-----------------------------------------------------------------------------
(* The size of what is written *)

LEMMA SumOfIs ==
    ASSUME NEW ns \in Seq(Nat), NEW sum, Sums(sum, ns)
    PROVE  CD!SumOf(ns) = sum[Len(ns)]
<1>1. PICK f \in [0..Len(ns) -> Nat] : Sums(f, ns) /\ CD!SumOf(ns) = f[Len(ns)]
  BY SumOfSteps
<1>2. Alike(f, sum, Len(ns))
  BY <1>1, Zenon DEF Alike, Sums
<1>3. Len(ns) \in Nat /\ Len(ns) \in 0..Len(ns)
  OBVIOUS
<1>4. Equal(f, sum, Len(ns))
  BY <1>2, <1>3, AlikeAreEqual
<1> QED
  BY <1>1, <1>3, <1>4, Zenon DEF Equal

LEMMA SumOfType ==
    ASSUME NEW ns \in Seq(Nat)
    PROVE  CD!SumOf(ns) \in Nat
<1>1. PICK f \in [0..Len(ns) -> Nat] : CD!SumOf(ns) = f[Len(ns)]
  BY SumOfSteps
<1>2. Len(ns) \in 0..Len(ns)
  OBVIOUS
<1> QED
  BY <1>1, <1>2

LEMMA SumOfBoth ==
    ASSUME NEW a \in Seq(Nat), NEW b \in Seq(Nat)
    PROVE  CD!SumOf(a \o b) = CD!SumOf(a) + CD!SumOf(b)
<1>1. PICK f \in [0..Len(a) -> Nat] : Sums(f, a) /\ CD!SumOf(a) = f[Len(a)]
  BY SumOfSteps
<1>2. PICK g \in [0..Len(b) -> Nat] : Sums(g, b) /\ CD!SumOf(b) = g[Len(b)]
  BY SumOfSteps
<1> DEFINE n == Len(a)
           h == [i \in 0..n + Len(b) |-> IF i <= n THEN f[i] ELSE f[n] + g[i - n]]
<1>3. a \o b \in Seq(Nat) /\ Len(a \o b) = n + Len(b) /\ n \in Nat /\ Len(b) \in Nat
  OBVIOUS
<1>4. f[0] = 0 /\ g[0] = 0 /\ f[n] \in Nat
  <2>1. f[0] = 0 /\ g[0] = 0
    BY <1>1, <1>2, Zenon DEF Sums
  <2>2. n \in 0..n
    BY <1>3
  <2> QED
    BY <2>1, <2>2
<1>5. h[0] = 0
  BY <1>4
<1>6. ASSUME NEW i \in 1..n + Len(b) PROVE h[i] = h[i - 1] + (a \o b)[i]
  <2>1. CASE i <= n
    <3>1. h[i] = f[i] /\ h[i - 1] = f[i - 1] /\ (a \o b)[i] = a[i] /\ i \in 1..n
      BY <2>1
    <3> QED
      BY <1>1, <3>1, Zenon DEF Sums
  <2>2. CASE i = n + 1
    <3>1. h[i] = f[n] + g[1] /\ h[i - 1] = f[n] /\ (a \o b)[i] = b[1] /\ 1 \in 1..Len(b)
      BY <2>2, <1>3
    <3>2. g[1] = g[1 - 1] + b[1]
      BY <1>2, <3>1, Zenon DEF Sums
    <3>3. g[1] = b[1] /\ b[1] \in Nat
      BY <1>4, <3>1, <3>2
    <3> QED
      BY <3>1, <3>3, Zenon
  <2>3. CASE i > n + 1
    <3>1. /\ h[i] = f[n] + g[i - n] /\ h[i - 1] = f[n] + g[i - 1 - n]
          /\ (a \o b)[i] = b[i - n] /\ i - n \in 1..Len(b) /\ i - 1 - n = i - n - 1
      BY <2>3, <1>3
    <3>2. g[i - n] = g[i - n - 1] + b[i - n]
      BY <1>2, <3>1, Zenon DEF Sums
    <3>3. g[i - n - 1] \in Nat /\ b[i - n] \in Nat
      <4>1. i - n - 1 \in 0..Len(b) /\ i - n \in 1..Len(b)
        BY <2>3, <1>3, <3>1
      <4>2. \A k \in 1..Len(b) : b[k] \in Nat
        OBVIOUS
      <4> HIDE DEF n
      <4> QED
        BY <4>1, <4>2, Zenon
    <3>4. \A x, y \in Nat : f[n] + (x + y) = (f[n] + x) + y
      BY <1>4
    <3>5. f[n] + (g[i - n - 1] + b[i - n]) = (f[n] + g[i - n - 1]) + b[i - n]
      BY <3>3, <3>4
    <3> HIDE DEF h, n
    <3>6. h[i] = f[n] + (g[i - n - 1] + b[i - n]) /\ h[i - 1] = f[n] + g[i - n - 1]
      BY <3>1, <3>2, Zenon
    <3> QED
      BY <3>1, <3>5, <3>6, Zenon
  <2> QED
    BY <1>3, <2>1, <2>2, <2>3
<1>7. h[n + Len(b)] = f[n] + g[Len(b)]
  <2>1. CASE Len(b) = 0
    BY <1>3, <1>4, <2>1
  <2>2. CASE Len(b) # 0
    BY <1>3, <2>2
  <2> QED
    BY <2>1, <2>2
<1> HIDE DEF h
<1>8. Sums(h, a \o b)
  BY <1>3, <1>5, <1>6, Zenon DEF Sums
<1>9. CD!SumOf(a \o b) = h[Len(a \o b)]
  BY <1>3, <1>8, SumOfIs
<1> QED
  BY <1>1, <1>2, <1>3, <1>7, <1>9, Zenon

LEMMA SumOfAlike ==
    ASSUME NEW k \in Nat, NEW ns \in Seq(Nat), \A i \in 1..Len(ns) : ns[i] = k
    PROVE  CD!SumOf(ns) = k * Len(ns)
<1> DEFINE sum == [i \in 0..Len(ns) |-> k * i]
<1>1. sum[0] = 0
  OBVIOUS
<1>2. ASSUME NEW i \in 1..Len(ns) PROVE sum[i] = sum[i - 1] + ns[i]
  <2>1. sum[i] = k * i /\ sum[i - 1] = k * (i - 1) /\ ns[i] = k
    OBVIOUS
  <2>2. i \in Int /\ k \in Int
    OBVIOUS
  <2>3. k * i = k * (i - 1) + k
    BY <2>2
  <2> QED
    BY <2>1, <2>3, Zenon
<1>3. sum[Len(ns)] = k * Len(ns)
  OBVIOUS
<1> HIDE DEF sum
<1>4. Sums(sum, ns)
  BY <1>1, <1>2, Zenon DEF Sums
<1> QED
  BY <1>3, <1>4, SumOfIs

SizesOf(fields) == [i \in DOMAIN fields |-> fields[i].size]

LEMMA WidthType ==
    ASSUME NEW fields \in Seq(Fields)
    PROVE  /\ SizesOf(fields) \in Seq(Nat) /\ Len(SizesOf(fields)) = Len(fields)
           /\ CD!Width(fields) = CD!SumOf(SizesOf(fields)) /\ CD!Width(fields) \in Nat
<1>1. SizesOf(fields) \in Seq(Nat) /\ Len(SizesOf(fields)) = Len(fields)
  <2>1. DOMAIN fields = 1..Len(fields) /\ Len(fields) \in Nat
        /\ \A i \in 1..Len(fields) : fields[i] \in Fields
    OBVIOUS
  <2>2. \A i \in 1..Len(fields) : fields[i].size \in Nat
    BY <2>1 DEF Fields
  <2>3. SizesOf(fields) = [i \in 1..Len(fields) |-> fields[i].size]
    BY <2>1, Zenon DEF SizesOf
  <2> QED
    BY <2>1, <2>2, <2>3
<1>2. CD!Width(fields) = CD!SumOf(SizesOf(fields))
  BY Zenon DEF CD!Width, SizesOf
<1> QED
  BY <1>1, <1>2, SumOfType

LEMMA WidthNone == CD!Width(<<>>) = 0
<1>1. SizesOf(<<>>) = <<>> /\ <<>> \in Seq(Nat) /\ Len(<<>>) = 0 /\ <<>> \in Seq(Fields)
  BY DEF SizesOf
<1>2. CD!SumOf(<<>>) = 0 * Len(<<>>)
  <2> DEFINE ns == <<>>
  <2>1. ns \in Seq(Nat) /\ 0 \in Nat /\ \A i \in 1..Len(ns) : ns[i] = 0
    OBVIOUS
  <2> HIDE DEF ns
  <2>2. CD!SumOf(ns) = 0 * Len(ns)
    BY <2>1, SumOfAlike
  <2> QED
    BY <2>2 DEF ns
<1>3. CD!Width(<<>>) = CD!SumOf(SizesOf(<<>>))
  BY <1>1, WidthType, Zenon
<1>4. 0 * Len(<<>>) = 0
  BY <1>1
<1> QED
  BY <1>1, <1>2, <1>3, <1>4, Zenon

LEMMA WidthBoth ==
    ASSUME NEW a \in Seq(Fields), NEW b \in Seq(Fields)
    PROVE  CD!Width(a \o b) = CD!Width(a) + CD!Width(b)
<1>1. SizesOf(a \o b) = SizesOf(a) \o SizesOf(b)
  <2> DEFINE m == Len(a) + Len(b)
  <2>1. /\ Len(a) \in Nat /\ Len(b) \in Nat /\ DOMAIN (a \o b) = 1..m
        /\ DOMAIN a = 1..Len(a) /\ DOMAIN b = 1..Len(b)
        /\ \A i \in 1..m : (a \o b)[i] = IF i <= Len(a) THEN a[i] ELSE b[i - Len(a)]
    OBVIOUS
  <2>2. /\ SizesOf(a) \in Seq(Nat) /\ SizesOf(b) \in Seq(Nat)
        /\ Len(SizesOf(a)) = Len(a) /\ Len(SizesOf(b)) = Len(b)
    BY WidthType
  <2>3. ASSUME NEW i \in 1..m
        PROVE  (a \o b)[i].size = (SizesOf(a) \o SizesOf(b))[i]
    <3>1. CASE i <= Len(a)
      <4>1. (a \o b)[i] = a[i] /\ i \in DOMAIN a
        BY <2>1, <3>1
      <4>2. SizesOf(a)[i] = a[i].size
        BY <4>1, Zenon DEF SizesOf
      <4>3. (SizesOf(a) \o SizesOf(b))[i] = SizesOf(a)[i]
        BY <2>1, <2>2, <3>1
      <4> QED
        BY <4>1, <4>2, <4>3, Zenon
    <3>2. CASE ~(i <= Len(a))
      <4>1. (a \o b)[i] = b[i - Len(a)] /\ i - Len(a) \in DOMAIN b
        BY <2>1, <3>2
      <4>2. SizesOf(b)[i - Len(a)] = b[i - Len(a)].size
        BY <4>1, Zenon DEF SizesOf
      <4>3. (SizesOf(a) \o SizesOf(b))[i] = SizesOf(b)[i - Len(a)]
        BY <2>1, <2>2, <3>2
      <4> QED
        BY <4>1, <4>2, <4>3, Zenon
    <3> QED
      BY <3>1, <3>2
  <2>4. SizesOf(a \o b) = [i \in 1..m |-> (a \o b)[i].size]
    BY <2>1, Zenon DEF SizesOf
  <2>5. SizesOf(a) \o SizesOf(b) = [i \in 1..m |-> (SizesOf(a) \o SizesOf(b))[i]]
    <3> DEFINE w == SizesOf(a) \o SizesOf(b)
    <3>1. w \in Seq(Nat) /\ Len(w) = m
      <4>1. w \in Seq(Nat) /\ Len(w) = Len(SizesOf(a)) + Len(SizesOf(b))
        BY <2>2, Concat, Zenon
      <4> QED
        BY <2>2, <4>1
    <3> HIDE DEF w, m
    <3>2. w = [i \in 1..Len(w) |-> w[i]]
      BY <3>1
    <3> QED
      BY <3>1, <3>2, Zenon DEF w
  <2> HIDE DEF m
  <2> QED
    BY <2>3, <2>4, <2>5
<1>2. a \o b \in Seq(Fields)
  BY Concat
<1>3. CD!SumOf(SizesOf(a) \o SizesOf(b)) = CD!SumOf(SizesOf(a)) + CD!SumOf(SizesOf(b))
  BY WidthType, SumOfBoth
<1> QED
  BY <1>1, <1>2, <1>3, WidthType, Zenon

LEMMA WidthField ==
    ASSUME NEW n \in Nat, NEW v \in Written
    PROVE  CD!Width(CD!Field(n, v)) = n
<1> DEFINE f == CD!Field(n, v)
<1>1. f \in Seq(Fields) /\ Len(f) = 1
  BY FieldType
<1>2. f[1].size = n
  BY DEF CD!Field
<1> HIDE DEF f
<1>3. SizesOf(f) \in Seq(Nat) /\ Len(SizesOf(f)) = 1 /\ CD!Width(f) = CD!SumOf(SizesOf(f))
  BY <1>1, WidthType
<1>4. \A i \in 1..1 : SizesOf(f)[i] = n
  BY <1>1, <1>2 DEF SizesOf
<1>5. CD!SumOf(SizesOf(f)) = n * 1
  BY <1>3, <1>4, SumOfAlike
<1> QED
  BY <1>3, <1>5 DEF f

LEMMA WidthJoined ==
    ASSUME NEW ss \in Seq(Seq(Fields))
    PROVE  LET widths == [i \in DOMAIN ss |-> CD!Width(ss[i])]
           IN widths \in Seq(Nat) /\ CD!Width(CD!Joined(ss)) = CD!SumOf(widths)
<1> DEFINE widths == [i \in DOMAIN ss |-> CD!Width(ss[i])]
           n == Len(ss)
<1>1. PICK joined \in [0..n -> Seq(Fields)] : Joins(joined, ss) /\ CD!Joined(ss) = joined[n]
  BY JoinedSteps
<1> DEFINE sum == [i \in 0..n |-> CD!Width(joined[i])]
<1>2. n \in Nat /\ DOMAIN ss = 1..n /\ \A i \in 1..n : ss[i] \in Seq(Fields)
  OBVIOUS
<1>3. \A i \in 1..n : widths[i] = CD!Width(ss[i]) /\ widths[i] \in Nat
  BY <1>2, WidthType
<1>4. widths \in Seq(Nat) /\ Len(widths) = n
  <2>1. widths = [i \in 1..n |-> widths[i]]
    BY <1>2, Zenon
  <2> HIDE DEF widths
  <2> QED
    BY <1>2, <1>3, <2>1
<1>5. sum[0] = 0
  <2>1. joined[0] = <<>> /\ 0 \in 0..n
    BY <1>1, <1>2 DEF Joins
  <2> QED
    BY <2>1, WidthNone
<1>6. ASSUME NEW i \in 1..n PROVE sum[i] = sum[i - 1] + widths[i]
  <2>1. i \in 0..n /\ i - 1 \in 0..n
    BY <1>2
  <2>2. joined[i] = joined[i - 1] \o ss[i]
    BY <1>1, Zenon DEF Joins
  <2>3. CD!Width(joined[i]) = CD!Width(joined[i - 1]) + CD!Width(ss[i])
    BY <1>2, <2>1, <2>2, WidthBoth
  <2> QED
    BY <1>3, <2>1, <2>3
<1>7. n \in 0..n /\ sum[n] = CD!Width(CD!Joined(ss))
  BY <1>1, <1>2
<1> HIDE DEF sum, widths
<1>8. Sums(sum, widths)
  BY <1>4, <1>5, <1>6, Zenon DEF Sums
<1>9. CD!SumOf(widths) = sum[n]
  BY <1>4, <1>8, SumOfIs
<1> QED
  BY <1>4, <1>7, <1>9, Zenon DEF widths

LEMMA WidthBstr ==
    ASSUME NEW s \in Seq(Int)
    PROVE  CD!Width(CD!PutBstr(s)) = CD!CalcBstr(s)
<1> DEFINE l == CD!Field(CD!SizeBstrLen, CD!SizeChar * Len(s))
<1>1. CD!PutBstr(s) = l \o Chars(s) /\ l \in Seq(Fields) /\ Chars(s) \in Seq(Fields)
  BY PutBstrType, CharsType
<1>2. CD!Width(l) = CD!SizeBstrLen
  <2>1. CD!SizeChar * Len(s) \in Written
    BY DEF CD!SizeChar, Written
  <2> QED
    BY <2>1, WidthField, Sizes
<1>3. CD!Width(Chars(s)) = CD!SizeChar * Len(s)
  <2>1. /\ SizesOf(Chars(s)) \in Seq(Nat) /\ Len(SizesOf(Chars(s))) = Len(s)
        /\ CD!Width(Chars(s)) = CD!SumOf(SizesOf(Chars(s)))
    BY <1>1, WidthType, CharsType
  <2>2. \A i \in 1..Len(s) : SizesOf(Chars(s))[i] = CD!SizeChar
    <3> TAKE i \in 1..Len(s)
    <3>1. Chars(s)[i] = [size |-> CD!SizeChar, val |-> s[i]] /\ i \in DOMAIN Chars(s)
      BY CharsType
    <3>2. SizesOf(Chars(s))[i] = Chars(s)[i].size
      BY <3>1, Zenon DEF SizesOf
    <3> QED
      BY <3>1, <3>2
  <2>3. CD!SumOf(SizesOf(Chars(s))) = CD!SizeChar * Len(SizesOf(Chars(s)))
    BY <2>1, <2>2, SumOfAlike, Sizes
  <2> QED
    BY <2>1, <2>3, Zenon
<1> HIDE DEF l
<1>4. CD!Width(l \o Chars(s)) = CD!Width(l) + CD!Width(Chars(s))
  BY <1>1, WidthBoth
<1> QED
  BY <1>1, <1>2, <1>3, <1>4, Zenon DEF CD!CalcBstr

LEMMA WidthValue ==
    ASSUME NEW vt, NEW array, NEW v, OfType(vt, v)
    PROVE  /\ CD!Width(CD!PutValue(vt, array, v)) \in Nat
           /\ CD!Width(CD!PutValue(vt, array, v)) =
                IF vt = "BSTR" THEN CD!CalcBstr(v) ELSE CD!ElementSize(vt, array)
<1>1. CD!Width(CD!PutValue(vt, array, v)) \in Nat
  BY PutValueType, WidthType
<1>2. CASE vt = "BSTR"
  BY <1>1, <1>2, PutValueType, WidthBstr DEF OfType
<1>3. CASE vt = "DATE"
  <2>1. CD!PutValue(vt, array, v) = CD!Field(CD!SizeOf(vt), CD!Days(v)) /\ vt # "BSTR"
    BY <1>3, PutValueType
  <2>2. CD!Days(v) \in Written
    BY <1>3, DateType DEF OfType, Written
  <2>3. CD!Width(CD!Field(CD!SizeOf(vt), CD!Days(v))) = CD!SizeOf(vt)
    BY <2>2, WidthField, Sizes
  <2>4. CD!ElementSize(vt, array) = CD!SizeOf(vt)
    BY <1>3 DEF CD!ElementSize, CD!ScalarSizeOf
  <2> QED
    BY <1>1, <2>1, <2>3, <2>4
<1>4. CASE vt \notin {"BSTR", "DATE"} /\ CD!ElementSize(vt, array) > 0
  <2>1. CD!PutValue(vt, array, v) = CD!Field(CD!ElementSize(vt, array), v)
    BY <1>4, PutValueType
  <2>2. v \in Written
    BY DEF OfType, Written
  <2>3. CD!Width(CD!Field(CD!ElementSize(vt, array), v)) = CD!ElementSize(vt, array)
    BY <2>2, WidthField, Sizes
  <2> QED
    BY <1>1, <1>4, <2>1, <2>3
<1>5. CASE vt \notin {"BSTR", "DATE"} /\ ~(CD!ElementSize(vt, array) > 0)
  <2>1. CD!PutValue(vt, array, v) = <<>>
    BY <1>5, PutValueType
  <2>2. CD!ElementSize(vt, array) = 0
    BY <1>5, Sizes
  <2>3. CD!Width(<<>>) = 0
    BY WidthNone
  <2> QED
    BY <1>1, <1>5, <2>1, <2>2, <2>3
<1> QED
  BY <1>2, <1>3, <1>4, <1>5

\* The size computed for what is behind the type and the number is its width.
LEMMA WidthContent ==
    ASSUME CD!Coding, NEW d \in 0..Deepest, NEW x \in Level[d], NEW put, NEW calc,
           PutBelow(d, put),
           \A y \in Inner(d) : CD!Width(put[y]) = CD!SizeType + CD!SizeNum + calc[y]
    PROVE  CD!CalcValue(x, calc) = CD!Width(CD!Joined(Content(x, put)))
<1>1. /\ x.val \in Seq(Seq(Int)) /\ x.sub \in Seq(Inner(d))
      /\ \A i \in DOMAIN x.val : OfType(x.vt, x.val[i])
  BY Shape
<1>2. Content(x, put) \in Seq(Seq(Fields))
  BY PutFieldsType DEF PutBelow
<1>3. CASE x.vt = "VARIANT"
  <2>1. CD!CalcValue(x, calc) = CD!SumOf([i \in DOMAIN x.sub |-> CD!SizeType + CD!SizeNum + calc[x.sub[i]]])
    BY <1>3 DEF CD!CalcValue
  <2>2. Content(x, put) = PutSubs(put, x.sub)
    BY <1>3, Zenon DEF Content
  <2>3. ASSUME NEW i \in DOMAIN x.sub
        PROVE  CD!Width(PutSubs(put, x.sub)[i]) = CD!SizeType + CD!SizeNum + calc[x.sub[i]]
    <3>1. x.sub[i] \in Inner(d)
      BY <1>1
    <3>2. PutSubs(put, x.sub)[i] = put[x.sub[i]]
      BY Zenon DEF PutSubs
    <3> QED
      BY <3>1, <3>2, Zenon
  <2>4. DOMAIN PutSubs(put, x.sub) = DOMAIN x.sub
    BY Zenon DEF PutSubs
  <2>5. [i \in DOMAIN PutSubs(put, x.sub) |-> CD!Width(PutSubs(put, x.sub)[i])]
          = [i \in DOMAIN x.sub |-> CD!SizeType + CD!SizeNum + calc[x.sub[i]]]
    BY <2>3, <2>4, Zenon
  <2>6. CD!Width(CD!Joined(PutSubs(put, x.sub)))
          = CD!SumOf([i \in DOMAIN PutSubs(put, x.sub) |-> CD!Width(PutSubs(put, x.sub)[i])])
    BY <1>2, <2>2, WidthJoined
  <2> QED
    BY <2>1, <2>2, <2>5, <2>6, Zenon
<1>4. CASE x.vt # "VARIANT"
  <2> DEFINE ss == PutValues(x.vt, x.array, x.val)
             widths == [i \in DOMAIN ss |-> CD!Width(ss[i])]
  <2>1. Content(x, put) = ss
    BY <1>4, Zenon DEF Content
  <2>2. widths \in Seq(Nat) /\ CD!Width(CD!Joined(ss)) = CD!SumOf(widths)
    BY <1>2, <2>1, WidthJoined
  <2>3. ASSUME NEW i \in DOMAIN x.val
        PROVE  CD!Width(ss[i]) = IF x.vt = "BSTR" THEN CD!CalcBstr(x.val[i])
                              ELSE CD!ElementSize(x.vt, x.array)
    <3>1. ss[i] = CD!PutValue(x.vt, x.array, x.val[i])
      BY Zenon DEF PutValues
    <3> QED
      BY <1>1, <3>1, WidthValue, Zenon
  <2>4. DOMAIN ss = DOMAIN x.val
    BY Zenon DEF PutValues
  <2>5. CASE x.vt = "BSTR"
    <3>1. CD!CalcValue(x, calc) = CD!SumOf([i \in DOMAIN x.val |-> CD!CalcBstr(x.val[i])])
      BY <2>5 DEF CD!CalcValue
    <3>2. widths = [i \in DOMAIN x.val |-> CD!CalcBstr(x.val[i])]
      BY <2>3, <2>4, <2>5, Zenon
    <3> QED
      BY <2>1, <2>2, <3>1, <3>2, Zenon
  <2>6. CASE x.vt # "BSTR"
    <3>1. CD!CalcValue(x, calc) = CD!ElementSize(x.vt, x.array) * Len(x.val)
      BY <1>4, <2>6 DEF CD!CalcValue
    <3>2. DOMAIN x.val = 1..Len(x.val) /\ Len(x.val) \in Nat
      BY <1>1
    <3>3. widths = [i \in 1..Len(x.val) |-> CD!ElementSize(x.vt, x.array)]
      BY <2>3, <2>4, <2>6, <3>2, Zenon
    <3> HIDE DEF widths
    <3>4. Len(widths) = Len(x.val) /\ \A i \in 1..Len(widths) : widths[i] = CD!ElementSize(x.vt, x.array)
      BY <3>2, <3>3
    <3>5. CD!SumOf(widths) = CD!ElementSize(x.vt, x.array) * Len(widths)
      BY <2>2, <3>4, SumOfAlike, Sizes
    <3> QED
      BY <2>1, <2>2, <3>1, <3>4, <3>5, Zenon
  <2> QED
    BY <2>5, <2>6
<1> QED
  BY <1>3, <1>4

LEMMA WidthVariant ==
    ASSUME CD!Coding
    PROVE  \A d \in 0..Deepest : \A x \in Level[d] :
             /\ CD!CalcVariant[d][x] \in Nat
             /\ CD!Width(CD!PutVariant[d][x]) = CD!SizeType + CD!SizeNum + CD!CalcVariant[d][x]
<1> DEFINE Good(d) == \A x \in Level[d] :
                        /\ CD!CalcVariant[d][x] \in Nat
                        /\ CD!Width(CD!PutVariant[d][x]) = CD!SizeType + CD!SizeNum + CD!CalcVariant[d][x]
           T == {d \in 0..Deepest : Good(d)}
<1>1. Deepest \in Nat
  BY DEF CD!Coding
<1>2. ASSUME NEW d \in 0..Deepest, d # 0 => Good(d - 1) PROVE Good(d)
  <2> SUFFICES ASSUME NEW x \in Level[d]
               PROVE  /\ CD!CalcVariant[d][x] \in Nat
                      /\ CD!Width(CD!PutVariant[d][x]) = CD!SizeType + CD!SizeNum + CD!CalcVariant[d][x]
    OBVIOUS
  <2> DEFINE put == CD!PutVariant[d - 1]
             calc == CD!CalcVariant[d - 1]
             type == CD!Field(CD!SizeType, <<x.vt, x.array>>)
             number == CD!Field(CD!SizeNum, Number(x))
             content == CD!Joined(Content(x, put))
  <2>1. CD!PutVariant[d][x] = CD!PutFields(x, put)
    <3>1. CD!PutVariant[d] = [z \in Level[d] |-> CD!PutFields(z, CD!PutVariant[d - 1])]
      BY PutVariantDef, Zenon
    <3> QED
      BY <3>1, Zenon
  <2>2. CD!CalcVariant[d][x] = CD!CalcValue(x, calc)
    <3>1. CD!CalcVariant[d] = [z \in Level[d] |-> CD!CalcValue(z, CD!CalcVariant[d - 1])]
      BY CalcVariantDef, Zenon
    <3> QED
      BY <3>1, Zenon
  <2>3. /\ PutBelow(d, put)
        /\ \A y \in Inner(d) : CD!Width(put[y]) = CD!SizeType + CD!SizeNum + calc[y]
    <3>1. CASE d = 0
      BY <3>1, Zenon DEF Inner, PutBelow
    <3>2. CASE d # 0
      <4>1. d - 1 \in 0..Deepest /\ Inner(d) = Level[d - 1]
        BY <1>1, <3>2 DEF Inner
      <4>2. \A y \in Inner(d) : CD!PutVariant[d - 1][y] \in Seq(Fields)
        BY <4>1, PutVariantType, Zenon
      <4> QED
        BY <1>2, <3>2, <4>1, <4>2, Zenon DEF PutBelow
    <3> QED
      BY <3>1, <3>2
  <2> HIDE DEF put, calc
  <2>4. CD!CalcValue(x, calc) = CD!Width(content)
    BY <2>3, WidthContent
  <2>5. /\ CD!PutFields(x, put) = (type \o number) \o content
        /\ type \in Seq(Fields) /\ number \in Seq(Fields) /\ content \in Seq(Fields)
    BY <2>3, PutFieldsType DEF PutBelow
  <2>6. CD!Width(type) = CD!SizeType /\ CD!Width(number) = CD!SizeNum
    <3>1. <<x.vt, x.array>> \in Written /\ Number(x) \in Written
      BY NumberType
    <3> QED
      BY <3>1, WidthField, Sizes
  <2> HIDE DEF type, number, content
  <2>7. CD!Width((type \o number) \o content) = CD!Width(type) + CD!Width(number) + CD!Width(content)
    <3>1. type \o number \in Seq(Fields)
      BY <2>5, Concat, Zenon
    <3>2. CD!Width(type \o number) = CD!Width(type) + CD!Width(number)
      BY <2>5, WidthBoth, Zenon
    <3>3. CD!Width((type \o number) \o content) = CD!Width(type \o number) + CD!Width(content)
      BY <2>5, <3>1, WidthBoth, Zenon
    <3> QED
      BY <3>2, <3>3, Zenon
  <2>8. CD!Width(content) \in Nat
    BY <2>5, WidthType
  <2> QED
    BY <2>1, <2>2, <2>4, <2>5, <2>6, <2>7, <2>8, Zenon
<1> HIDE DEF Good
<1>3. 0 \in T
  BY <1>1, <1>2
<1>4. ASSUME NEW d \in 1..Deepest, d - 1 \in T PROVE d \in T
  <2>1. d \in 0..Deepest /\ Good(d - 1)
    BY <1>4
  <2> QED
    BY <1>2, <2>1
<1> HIDE DEF T
<1>5. \A d \in 0..Deepest : d \in T
  BY <1>1, <1>3, <1>4, Upwards
<1> QED
  BY <1>5 DEF T, Good
-----------------------------------------------------------------------------
(* The arguments of a packet *)

LEMMA PutArgumentType ==
    ASSUME CD!Coding, NEW x \in Level[Deepest]
    PROVE  /\ CD!PutVariant[Deepest][x] \in Seq(Fields) /\ CD!PutArgument(x) \in Seq(Fields)
           /\ CD!Field(CD!SizeDataLen, CD!Width(CD!PutVariant[Deepest][x])) \in Seq(Fields)
           /\ CD!Width(CD!PutArgument(x)) = CD!SizeDataLen + CD!SizeType + CD!SizeNum + CD!CalcVariant[Deepest][x]
<1> DEFINE fields == CD!PutVariant[Deepest][x]
           l == CD!Field(CD!SizeDataLen, CD!Width(fields))
<1>1. Deepest \in 0..Deepest
  BY DEF CD!Coding
<1>2. /\ fields \in Seq(Fields) /\ CD!CalcVariant[Deepest][x] \in Nat
      /\ CD!Width(fields) = CD!SizeType + CD!SizeNum + CD!CalcVariant[Deepest][x]
  BY <1>1, PutVariantType, WidthVariant, Zenon
<1> HIDE DEF fields
<1>3. CD!Width(fields) \in Nat /\ CD!Width(fields) \in Written
  BY <1>2, WidthType DEF Written
<1>4. l \in Seq(Fields) /\ CD!Width(l) = CD!SizeDataLen
  BY <1>3, FieldType, WidthField, Sizes
<1>5. CD!PutArgument(x) = l \o fields
  BY Zenon DEF CD!PutArgument, fields
<1> HIDE DEF l
<1>6. l \o fields \in Seq(Fields) /\ CD!Width(l \o fields) = CD!Width(l) + CD!Width(fields)
  BY <1>2, <1>4, Concat, WidthBoth, Zenon
<1>7. CD!SizeDataLen + (CD!SizeType + CD!SizeNum + CD!CalcVariant[Deepest][x])
        = CD!SizeDataLen + CD!SizeType + CD!SizeNum + CD!CalcVariant[Deepest][x]
  BY <1>2, Sizes
<1> QED
  BY <1>2, <1>4, <1>5, <1>6, <1>7, Zenon DEF fields, l

Arguments(xs) == [i \in DOMAIN xs |-> CD!PutArgument(xs[i])]

LEMMA ArgumentsType ==
    ASSUME CD!Coding, NEW xs \in Seq(Level[Deepest])
    PROVE  /\ Arguments(xs) \in Seq(Seq(Fields)) /\ Len(Arguments(xs)) = Len(xs)
           /\ DOMAIN Arguments(xs) = DOMAIN xs /\ DOMAIN xs = 1..Len(xs)
           /\ \A i \in 1..Len(xs) : xs[i] \in Level[Deepest] /\ Arguments(xs)[i] = CD!PutArgument(xs[i])
           /\ CD!PutPacket(xs) = CD!Joined(Arguments(xs)) /\ CD!PutPacket(xs) \in Seq(Fields)
<1> DEFINE ss == Arguments(xs)
<1>1. /\ DOMAIN xs = 1..Len(xs) /\ Len(xs) \in Nat
      /\ \A i \in 1..Len(xs) : xs[i] \in Level[Deepest]
  OBVIOUS
<1>2. \A i \in 1..Len(xs) : ss[i] = CD!PutArgument(xs[i])
  BY <1>1, Zenon DEF Arguments
<1>3. \A i \in 1..Len(xs) : ss[i] \in Seq(Fields)
  BY <1>1, <1>2, PutArgumentType, Zenon
<1>4. ss = [i \in 1..Len(xs) |-> ss[i]] /\ DOMAIN ss = DOMAIN xs
  BY <1>1, Zenon DEF Arguments
<1>5. CD!PutPacket(xs) = CD!Joined(ss)
  BY Zenon DEF CD!PutPacket, Arguments
<1> HIDE DEF ss
<1>6. ss \in Seq(Seq(Fields)) /\ Len(ss) = Len(xs)
  BY <1>1, <1>3, <1>4
<1>7. CD!Joined(ss) \in Seq(Fields)
  BY <1>6, JoinedType
<1> QED
  BY <1>1, <1>2, <1>4, <1>5, <1>6, <1>7, Zenon DEF ss

\* The computed size holds what is written.
LEMMA PacketSize ==
    ASSUME CD!Coding, NEW xs \in Seq(Level[Deepest])
    PROVE  CD!CalcPacket(xs) = CD!SizeMin + CD!Width(CD!PutPacket(xs)) /\ CD!Width(CD!PutPacket(xs)) \in Nat
<1> DEFINE ss == Arguments(xs)
           calc(x) == CD!SizeDataLen + CD!SizeType + CD!SizeNum + CD!CalcVariant[Deepest][x]
<1>1. /\ ss \in Seq(Seq(Fields)) /\ DOMAIN ss = DOMAIN xs /\ DOMAIN xs = 1..Len(xs)
      /\ \A i \in 1..Len(xs) : xs[i] \in Level[Deepest] /\ ss[i] = CD!PutArgument(xs[i])
      /\ CD!PutPacket(xs) = CD!Joined(ss) /\ CD!PutPacket(xs) \in Seq(Fields)
  BY ArgumentsType
<1>2. \A i \in DOMAIN xs : CD!Width(ss[i]) = calc(xs[i])
  BY <1>1, PutArgumentType, Zenon
<1> HIDE DEF ss
<1>3. CD!Width(CD!Joined(ss)) = CD!SumOf([i \in DOMAIN ss |-> CD!Width(ss[i])])
  BY <1>1, WidthJoined
<1>4. [i \in DOMAIN ss |-> CD!Width(ss[i])] = [i \in DOMAIN xs |-> calc(xs[i])]
  BY <1>1, <1>2, Zenon
<1>5. CD!CalcPacket(xs) = CD!SizeMin + CD!SumOf([i \in DOMAIN xs |-> calc(xs[i])])
  BY Zenon DEF CD!CalcPacket
<1>6. CD!Width(CD!PutPacket(xs)) \in Nat
  BY <1>1, WidthType
<1> QED
  BY <1>1, <1>3, <1>4, <1>5, <1>6, Zenon

\* What is read of the arguments xs.
SameAs(xs) == [i \in DOMAIN xs |-> CD!Same[Deepest][xs[i]]]

LEMMA ArgumentReads ==
    ASSUME CD!Coding, Len(buf) \in Nat, NEW x \in Level[Deepest], CD!Known[Deepest][x],
           NEW p \in Nat, At(p, CD!PutArgument(x))
    PROVE  CD!GetArgument(p) = CD!Read(CD!Same[Deepest][x], p + Len(CD!PutArgument(x)))
<1> DEFINE fields == CD!PutVariant[Deepest][x]
           l == CD!Field(CD!SizeDataLen, CD!Width(fields))
<1>1. Deepest \in 0..Deepest
  BY DEF CD!Coding
<1>2. l \in Seq(Fields) /\ fields \in Seq(Fields) /\ CD!PutArgument(x) = l \o fields
  BY PutArgumentType, Zenon DEF CD!PutArgument
<1>3. Len(l) = 1
  BY DEF CD!Field
<1>4. At(p, l) /\ At(p + 1, fields) /\ Len(CD!PutArgument(x)) = 1 + Len(fields) /\ Len(fields) \in Nat
  <2> HIDE DEF l, fields
  <2>1. At(p, l \o fields)
    BY <1>2, Zenon
  <2>2. At(p, l) /\ At(p + Len(l), fields)
    BY <1>2, <2>1, AtBoth
  <2>3. Len(l \o fields) = Len(l) + Len(fields) /\ Len(fields) \in Nat
    BY <1>2, Concat
  <2> QED
    BY <1>2, <1>3, <2>2, <2>3, Zenon
<1>5. CD!Get(p, CD!SizeDataLen) = CD!Read(CD!Width(fields), p + 1)
  BY <1>4, GetAt
<1>6. CD!GetVariant[Deepest][p + 1] = CD!Read(CD!Same[Deepest][x], p + 1 + Len(fields))
  <2>1. ReadAs(CD!PutVariant[Deepest], CD!GetVariant[Deepest], CD!Same[Deepest], x)
    BY <1>1, VariantRead, Zenon
  <2>2. p + 1 \in Nat
    OBVIOUS
  <2> QED
    BY <1>4, <2>1, <2>2, Zenon DEF ReadAs
<1>7. p + 1 + Len(fields) = p + (1 + Len(fields))
  <2>1. \A n \in Nat : p + 1 + n = p + (1 + n)
    OBVIOUS
  <2> QED
    BY <1>4, <2>1, Zenon
<1> DEFINE g == CD!Get(p, CD!SizeDataLen)
<1>8. CD!GetArgument(p) = IF g.ok THEN CD!GetVariant[Deepest][g.next] ELSE CD!Bad
  BY Zenon DEF CD!GetArgument
<1>9. g = CD!Read(CD!Width(fields), p + 1)
  BY <1>5, Zenon
<1> HIDE DEF g, fields
<1>10. g.ok /\ g.next = p + 1
  BY <1>9 DEF CD!Read
<1> QED
  BY <1>4, <1>6, <1>7, <1>8, <1>10, Zenon

LEMMA PacketReads ==
    ASSUME CD!Coding, NEW xs \in Seq(Level[Deepest]), buf = CD!PutPacket(xs),
           \A i \in DOMAIN xs : CD!Known[Deepest][xs[i]]
    PROVE  LET got == CD!GetN([p \in CD!Offsets |-> CD!GetArgument(p)], Len(xs), 0)
           IN got.ok /\ got.val = SameAs(xs)
<1> DEFINE ss == Arguments(xs)
           get == [p \in CD!Offsets |-> CD!GetArgument(p)]
           vals == SameAs(xs)
           V == {CD!Same[Deepest][x] : x \in Level[Deepest]}
<1>1. /\ ss \in Seq(Seq(Fields)) /\ Len(ss) = Len(xs) /\ DOMAIN xs = 1..Len(xs)
      /\ \A i \in 1..Len(xs) : xs[i] \in Level[Deepest] /\ ss[i] = CD!PutArgument(xs[i])
      /\ CD!PutPacket(xs) = CD!Joined(ss) /\ CD!PutPacket(xs) \in Seq(Fields)
  BY ArgumentsType
<1>2. Len(buf) \in Nat /\ Len(xs) \in Nat
  BY <1>1
<1>3. At(0, CD!Joined(ss))
  <2>1. \A i \in 1..Len(buf) : buf[0 + i] = buf[i]
    OBVIOUS
  <2> HIDE DEF ss
  <2>2. buf = CD!Joined(ss)
    BY <1>1, Zenon
  <2> QED
    BY <1>2, <2>1, <2>2 DEF At
<1>4. vals \in Seq(V) /\ Len(vals) = Len(ss)
  <2>1. \A i \in 1..Len(xs) : vals[i] \in V
    BY <1>1, Zenon DEF SameAs
  <2>2. vals = [i \in 1..Len(xs) |-> vals[i]]
    BY <1>1, Zenon DEF SameAs
  <2> HIDE DEF vals, V, ss
  <2> QED
    BY <1>1, <1>2, <2>1, <2>2
<1>5. ASSUME NEW i \in 1..Len(ss), NEW q \in Nat, At(q, ss[i])
      PROVE  get[q] = CD!Read(vals[i], q + Len(ss[i]))
  <2>1. i \in 1..Len(xs) /\ i \in DOMAIN xs /\ ss[i] = CD!PutArgument(xs[i]) /\ xs[i] \in Level[Deepest]
    BY <1>1
  <2>2. q \in CD!Offsets
    BY <1>1, <1>2, <1>5, AtOffset
  <2>3. CD!GetArgument(q) = CD!Read(CD!Same[Deepest][xs[i]], q + Len(CD!PutArgument(xs[i])))
    <3>1. CD!Known[Deepest][xs[i]] /\ At(q, CD!PutArgument(xs[i]))
      BY <1>5, <2>1, Zenon
    <3> QED
      BY <1>2, <2>1, <3>1, ArgumentReads
  <2>4. vals[i] = CD!Same[Deepest][xs[i]]
    BY <2>1, Zenon DEF SameAs
  <2> QED
    BY <2>1, <2>2, <2>3, <2>4, Zenon
<1> HIDE DEF ss, get, vals, V
<1>6. EachReads(get, ss, vals)
  BY <1>5, Zenon DEF EachReads
<1>7. CD!GetN(get, Len(ss), 0) = CD!Read(vals, 0 + Len(CD!Joined(ss)))
  BY <1>1, <1>2, <1>3, <1>4, <1>6, JoinedReads
<1> DEFINE got == CD!GetN(get, Len(xs), 0)
<1>8. got = CD!Read(vals, 0 + Len(CD!Joined(ss)))
  BY <1>1, <1>7, Zenon
<1> HIDE DEF got
<1>9. got.ok /\ got.val = vals
  BY <1>8 DEF CD!Read
<1> QED
  BY <1>9, Zenon DEF got, get, vals
-----------------------------------------------------------------------------
(* The two ends *)

\* What is allKnown of every state: the size is the computed one, the buffer holds
\* what was written, and until the end nothing was read and nothing failed.
Ends ==
    /\ sent \in ArgLists /\ room \in Rooms
    /\ pc \in {"size", "encode", "decode", "done"}
    /\ pc # "size" => len = CD!CalcPacket(sent)
    /\ pc = "decode" => buf = CD!PutPacket(sent)
    /\ pc # "done" => args = <<>> /\ hr = "S_OK"

Inv == Ends /\ CD!SameArguments

LEMMA SentType ==
    ASSUME CD!Coding, Ends
    PROVE  sent \in Seq(Level[Deepest]) /\ Len(sent) \in Nat /\ room \in Nat
BY DEF CD!Coding, Ends

\* Encode never fails, Decode reads what was sent.
LEMMA InvKept ==
    ASSUME CD!Coding, Inv, [CD!Next]_(CD!vars)
    PROVE  Inv'
<1>1. sent \in Seq(Level[Deepest]) /\ Len(sent) \in Nat /\ room \in Nat
  BY SentType DEF Inv
<1>2. CASE CD!Size
  BY <1>2 DEF CD!Size, Inv, Ends, CD!SameArguments
<1>3. CASE CD!Encode
  <2>1. CD!CalcPacket(sent) = CD!SizeMin + CD!Width(CD!PutPacket(sent)) /\ CD!Width(CD!PutPacket(sent)) \in Nat
    BY <1>1, PacketSize
  <2>2. len = CD!CalcPacket(sent)
    BY <1>3 DEF CD!Encode, Inv, Ends
  <2>3. ~(CD!SizeMin - 1 + CD!Width(CD!PutPacket(sent)) > len - 1)
    BY <2>1, <2>2, Sizes
  <2>4. buf' = CD!PutPacket(sent) /\ pc' = "decode" /\ UNCHANGED <<sent, room, len, args, hr>>
    BY <1>3, <2>3 DEF CD!Encode
  <2> QED
    BY <1>3, <2>4 DEF Inv, Ends, CD!SameArguments, CD!Encode
<1>4. CASE CD!Decode
  <2> DEFINE got == CD!GetN([p \in CD!Offsets |-> CD!GetArgument(p)], Len(sent), 0)
             allKnown == \A i \in DOMAIN sent : CD!Known[Deepest][sent[i]]
  <2>1. ASSUME allKnown PROVE got.ok /\ got.val = SameAs(sent)
    <3>1. buf = CD!PutPacket(sent)
      BY <1>4 DEF CD!Decode, Inv, Ends
    <3> QED
      BY <1>1, <2>1, <3>1, PacketReads
  <2>2. /\ pc' = "done" /\ UNCHANGED <<sent, room, len, buf>>
        /\ args = <<>> /\ hr = "S_OK" /\ pc = "decode"
    BY <1>4 DEF CD!Decode, Inv, Ends
  <2>3. \/ Len(sent) > room /\ hr' = "FAILED" /\ args' = args
        \/ Len(sent) <= room /\ got.ok /\ args' = got.val /\ hr' = hr
        \/ Len(sent) <= room /\ ~got.ok /\ hr' = "FAILED" /\ args' = args
    BY <1>4 DEF CD!Decode
  <2>4. Ends'
    BY <2>2 DEF Inv, Ends
  <2> HIDE DEF got, allKnown
  <2>5. ASSUME allKnown
        PROVE  IF Len(sent) <= room THEN hr' = "S_OK" /\ args' = SameAs(sent)
               ELSE hr' = "FAILED" /\ args' = <<>>
    BY <1>1, <2>1, <2>2, <2>3, <2>5
  <2>6. allKnown' <=> allKnown
    BY <2>2 DEF allKnown
  <2>7. CD!SameArguments'
    BY <2>2, <2>5, <2>6 DEF CD!SameArguments, SameAs, allKnown
  <2> QED
    BY <2>4, <2>7 DEF Inv
<1>5. CASE UNCHANGED CD!vars
  BY <1>5 DEF CD!vars, Inv, Ends, CD!SameArguments
<1> QED
  BY <1>2, <1>3, <1>4, <1>5 DEF CD!Next

\* The computed size always holds the packet, and what the other end reads is what
\* was sent, but for the last second of dates, for any arguments whose types all
\* tables know.
THEOREM ArgumentsAreSame ==
    ASSUME CD!Coding
    PROVE  CD!Spec => []SameArguments
<1>1. CD!Init => Inv
  BY DEF CD!Init, Inv, Ends, CD!SameArguments
<1>2. Inv /\ [CD!Next]_(CD!vars) => Inv'
  BY InvKept
<1>3. Inv => SameArguments
  BY DEF Inv, SameArguments
<1> QED
  BY <1>1, <1>2, <1>3, PTL DEF CD!Spec
=============================================================================
