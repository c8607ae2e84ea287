---------------------------- MODULE SubIdsProofs ----------------------------
(***************************************************************************)
(* Proofs about SubIds, for any number of processes, any command lines and *)
(* any files: searches and lookups say what the file says, what a search   *)
(* gives is given to one user, an edit changes what it is asked to change, *)
(* and a map holds what is the caller's.                                   *)
(*                                                                         *)
(* First the operators of SubordinateIo: sorting, the first hole,          *)
(* have_range, and what each edit may give to whom.  Then the scripts and  *)
(* the invariant on locks and copies, with a lemma for each action; the    *)
(* theorems follow from it, with what each of them needs besides.          *)
(***************************************************************************)
EXTENDS SubIds, ToolScriptsProofs, WellFoundedInduction

(***************************************************************************)
(* Numbers.                                                                *)
(***************************************************************************)
\* Every non-empty set of naturals has a least element.
LEMMA LeastOf ==
  ASSUME NEW T \in SUBSET Nat, T # {}
  PROVE  \E x \in T : \A y \in T : x <= y
<1> DEFINE R == OpToRel(<, Nat)
<1>1. IsWellFoundedOn(R, Nat)
  BY NatLessThanWellFounded
<1>2. \A x, y \in Nat : <<x, y>> \in R <=> x < y
  BY DEF OpToRel
<1> HIDE DEF R
<1>3. PICK x \in T : \A y \in T : ~ (<<y, x>> \in R)
  BY <1>1, WFMin
<1>4. \A y \in T : x <= y
  <2> TAKE y \in T
  <2>1. x \in Nat /\ y \in Nat
    OBVIOUS
  <2>2. ~ (<<y, x>> \in R)
    BY <1>3
  <2> QED BY <1>2, <2>1, <2>2
<1> QED BY <1>4

\* What fits into a space fits at least once.
LEMMA AtLeastOne ==
  ASSUME NEW a \in Nat, NEW b \in Nat, b > 0, a >= b
  PROVE  a \div b \in Nat /\ a \div b >= 1
OBVIOUS

(***************************************************************************)
(* The order of the ranges.                                                *)
(***************************************************************************)
\* What the lemmas need to know of a range.
IsRange(r) == r.start \in Nat /\ r.count \in Nat

\* Ranges are ordered, by where they begin and then by how many they are.
LEMMA BelowOrder ==
  ASSUME NEW r, NEW s, NEW t, IsRange(r), IsRange(s), IsRange(t)
  PROVE  /\ ~Below(r, r) /\ (Below(r, s) => ~Below(s, r))
         /\ Below(r, s) /\ ~Below(t, s) => Below(r, t)
         /\ ~Below(s, r) /\ Below(s, t) => Below(r, t)
         /\ ~Below(s, r) /\ ~Below(t, s) => ~Below(t, r)
         /\ Below(r, s) => r.start <= s.start
         /\ ~Below(s, r) => r.start <= s.start
BY DEF Below, IsRange

\* A sort is the same ranges in another order, none below an earlier one.
LEMMA SortedFact ==
  ASSUME NEW S, NEW db \in Seq(S), \A r \in S : IsRange(r)
  PROVE  /\ Sorted(db) \in Seq(S) /\ Len(Sorted(db)) = Len(db)
         /\ Range(Sorted(db)) = Range(db)
         /\ \A i, j \in DOMAIN db : i < j => ~Below(Sorted(db)[j], Sorted(db)[i])
<1> DEFINE n == Len(db)
           D == 1 .. n
           Upto(j, i) == Below(db[j], db[i]) \/ (~Below(db[i], db[j]) /\ j <= i)
           upto(i) == {j \in D : Upto(j, i)}
           place == [i \in D |-> Place(db, i)]
<1>1. /\ n \in Nat /\ DOMAIN db = D /\ \A i \in D : db[i] \in S /\ IsRange(db[i])
      /\ IsFiniteSet(D) /\ Cardinality(D) = n
  <2>1. n \in Nat /\ DOMAIN db = D /\ \A i \in D : db[i] \in S
    BY LenProperties
  <2>2. IsFiniteSet(D) /\ Cardinality(D) = IF 1 > n THEN 0 ELSE n - 1 + 1
    BY <2>1, FS_Interval
  <2> QED BY <2>1, <2>2
<1>2. \A i \in D : place[i] = Cardinality(upto(i))
  BY <1>1 DEF Place
<1>3. \A i \in D : IsFiniteSet(upto(i)) /\ place[i] \in D
  <2> TAKE i \in D
  <2>1. upto(i) \subseteq D /\ i \in upto(i)
    <3>1. ~Below(db[i], db[i])
      BY <1>1 DEF Below, IsRange
    <3> QED BY <3>1
  <2>2. IsFiniteSet(upto(i)) /\ Cardinality(upto(i)) <= n
    BY <1>1, <2>1, FS_Subset
  <2>3. Cardinality(upto(i)) \in Nat
    BY <2>2, FS_CardinalityType
  <2>4. Cardinality(upto(i)) # 0
    BY <2>1, <2>2, FS_EmptySet
  <2> QED BY <1>1, <1>2, <2>2, <2>3, <2>4
<1>4. \A i, j \in D : i # j => (Upto(i, j) <=> ~Upto(j, i))
  BY <1>1 DEF Below, IsRange
<1>5. \A i, j \in D : i # j /\ Upto(i, j) => place[i] < place[j]
  <2> SUFFICES ASSUME NEW i \in D, NEW j \in D, i # j, Upto(i, j) PROVE place[i] < place[j]
    OBVIOUS
  <2>1. \A k \in D : Upto(k, i) => Upto(k, j)
    BY <1>1 DEF Below, IsRange
  <2>2. upto(i) \subseteq upto(j)
    BY <2>1
  <2>3. j \in upto(j) /\ j \notin upto(i)
    <3>1. ~Below(db[j], db[j])
      BY <1>1 DEF Below, IsRange
    <3> QED BY <1>4, <3>1
  <2>4. upto(i) # upto(j)
    BY <2>3
  <2>5. /\ Cardinality(upto(i)) <= Cardinality(upto(j))
        /\ Cardinality(upto(i)) # Cardinality(upto(j))
    BY <1>3, <2>2, <2>4, FS_Subset
  <2>6. Cardinality(upto(i)) \in Nat /\ Cardinality(upto(j)) \in Nat
    BY <1>3, FS_CardinalityType
  <2> QED BY <1>2, <2>5, <2>6
<1> HIDE DEF upto, place
<1>6. place \in [D -> D]
  BY <1>3 DEF place
<1>7. \A i, j \in D : place[i] = place[j] => i = j
  <2> SUFFICES ASSUME NEW i \in D, NEW j \in D, place[i] = place[j], i # j PROVE FALSE
    OBVIOUS
  <2>1. place[i] \in Nat /\ place[j] \in Nat
    BY <1>1, <1>3
  <2>2. Upto(i, j) \/ Upto(j, i)
    BY <1>4
  <2> QED BY <1>5, <2>1, <2>2
<1>8. place \in Injection(D, D)
  BY <1>6, <1>7 DEF Injection, IsInjective
<1>9. place \in Surjection(D, D)
  BY <1>1, <1>8, FS_Injection
<1>10. \A k \in D : \E i \in D : place[i] = k
  BY <1>9 DEF Surjection
<1>11. \A k \in D : \E i \in D : place[i] = k /\ Sorted(db)[k] = db[i]
  <2> TAKE k \in D
  <2>1. PICK i \in D : place[i] = k
    BY <1>10
  <2>2. \A j \in D : Place(db, j) = k <=> j = i
    BY <1>7, <2>1 DEF place
  <2>3. (CHOOSE j \in D : Place(db, j) = k) = i
    BY <2>2
  <2>4. Sorted(db)[k] = db[i]
    BY <1>1, <2>3 DEF Sorted
  <2> QED BY <2>1, <2>4
<1>12. /\ Sorted(db) \in [D -> S] /\ Sorted(db) \in Seq(S) /\ Len(Sorted(db)) = n
       /\ DOMAIN Sorted(db) = D
  <2>1. Sorted(db) = [k \in D |-> Sorted(db)[k]]
    BY <1>1 DEF Sorted
  <2>2. \A k \in D : Sorted(db)[k] \in S
    BY <1>1, <1>11
  <2>3. Sorted(db) \in [D -> S]
    BY <2>1, <2>2
  <2> QED BY <1>1, <2>3, SeqDef, LenProperties
<1>13. \A i \in D : \E k \in D : Sorted(db)[k] = db[i]
  <2> TAKE i \in D
  <2>1. place[i] \in D
    BY <1>6
  <2>2. PICK j \in D : place[j] = place[i] /\ Sorted(db)[place[i]] = db[j]
    BY <1>11, <2>1
  <2> QED BY <1>7, <2>1, <2>2
<1>14. Range(Sorted(db)) = Range(db)
  <2> DEFINE t == Sorted(db)
  <2>1. \A k \in D : \E i \in D : t[k] = db[i]
    BY <1>11
  <2>2. \A i \in D : \E k \in D : t[k] = db[i]
    BY <1>13
  <2>3. DOMAIN t = D
    BY <1>12
  <2> HIDE DEF t, D
  <2>5. \A x \in Range(t) : x \in Range(db)
    BY <1>1, <2>1, <2>3 DEF Range
  <2>6. \A x \in Range(db) : x \in Range(t)
    BY <1>1, <2>2, <2>3 DEF Range
  <2>4. Range(t) = Range(db)
    BY <2>5, <2>6
  <2> QED BY <2>4 DEF t
<1>15. ASSUME NEW i \in D, NEW j \in D, i < j PROVE ~Below(Sorted(db)[j], Sorted(db)[i])
  <2>1. PICK a \in D : place[a] = i /\ Sorted(db)[i] = db[a]
    BY <1>11
  <2>2. PICK b \in D : place[b] = j /\ Sorted(db)[j] = db[b]
    BY <1>11
  <2>3. a # b /\ ~Upto(b, a)
    <3>1. a # b
      BY <1>15, <2>1, <2>2
    <3>2. Upto(b, a) => j < i
      BY <1>5, <2>1, <2>2, <3>1
    <3> QED BY <1>1, <1>15, <3>1, <3>2
  <2> QED BY <2>1, <2>2, <2>3
<1> QED BY <1>1, <1>12, <1>14, <1>15

(***************************************************************************)
(* The first hole.                                                         *)
(***************************************************************************)
\* Some of finitely many numbers, and one more, have a largest one.
LEMMA LargestOf ==
  ASSUME NEW n \in Nat, NEW g, NEW at \in SUBSET (1 .. n), \A i \in at : g[i] \in Int, NEW a \in Int
  PROVE  LET S == {a} \cup {g[i] : i \in at}
         IN  Max(S) \in S /\ \A x \in S : x <= Max(S)
<1> DEFINE S(k) == {a} \cup {g[i] : i \in {j \in at : j <= k}}
           Bounded(k) == \E m \in S(k) : \A x \in S(k) : x <= m
           bad == {k \in 0 .. n : ~Bounded(k)}
<1>1. \A k \in 0 .. n : S(k) \subseteq Int
  OBVIOUS
<1>2. Bounded(0)
  <2>1. S(0) = {a}
    OBVIOUS
  <2> QED BY <2>1
<1>3. ASSUME NEW k \in 1 .. n, Bounded(k - 1) PROVE Bounded(k)
  <2>1. PICK m \in S(k - 1) : \A x \in S(k - 1) : x <= m
    BY <1>3
  <2>2. m \in Int
    BY <1>1, <2>1
  <2>3. CASE k \notin at
    <3>1. S(k) = S(k - 1)
      BY <2>3
    <3> QED BY <2>1, <3>1
  <2>4. CASE k \in at
    <3>1. S(k) = S(k - 1) \cup {g[k]}
      <4>1. \A x \in S(k) : x \in S(k - 1) \cup {g[k]}
        OBVIOUS
      <4>2. \A x \in S(k - 1) : x \in S(k)
        OBVIOUS
      <4>3. g[k] \in S(k)
        BY <2>4
      <4> HIDE DEF S
      <4> QED BY <4>1, <4>2, <4>3
    <3>2. g[k] \in Int
      BY <2>4
    <3> HIDE DEF S
    <3>3. CASE g[k] <= m
      BY <2>1, <3>1, <3>3
    <3>4. CASE m < g[k]
      <4>1. \A x \in S(k - 1) : x <= g[k]
        BY <1>1, <2>1, <2>2, <3>2, <3>4
      <4>2. \A x \in S(k) : x <= g[k]
        BY <3>1, <3>2, <4>1
      <4>3. g[k] \in S(k)
        BY <3>1
      <4> QED BY <4>2, <4>3
    <3> QED BY <2>2, <3>2, <3>3, <3>4
  <2> QED BY <2>3, <2>4
<1>4. bad = {}
  <2> SUFFICES ASSUME bad # {} PROVE FALSE
    OBVIOUS
  <2>1. bad \in SUBSET Nat
    OBVIOUS
  <2>2. PICK k \in bad : \A i \in bad : k <= i
    <3> HIDE DEF bad
    <3> QED BY <2>1, LeastOf
  <2>3. k # 0
    BY <1>2, <2>2
  <2>4. k \in 1 .. n /\ k - 1 \in 0 .. n /\ ~(k <= k - 1)
    BY <2>2, <2>3
  <2>5. k - 1 \notin bad
    BY <2>2, <2>4
  <2>6. Bounded(k - 1)
    BY <2>4, <2>5
  <2> QED BY <1>3, <2>2, <2>4, <2>6
<1>5. Bounded(n)
  BY <1>4
<1>6. S(n) = {a} \cup {g[i] : i \in at}
  <2>1. \A j \in at : j <= n
    OBVIOUS
  <2>2. \A x \in S(n) : x \in {a} \cup {g[i] : i \in at}
    OBVIOUS
  <2>3. \A x \in {a} \cup {g[i] : i \in at} : x \in S(n)
    BY <2>1
  <2> HIDE DEF S
  <2> QED BY <2>2, <2>3
<1> QED BY <1>5, <1>6, <1>1 DEF Max

\* What it is to be the first window of free identifiers.
Free(db, min, max, count) ==
  {s \in min .. max - count + 1 : s .. s + count - 1 \cap AllIds(db) = {}}
FirstIn(starts) == {s \in starts : \A t \in starts : s <= t}

\* Ranges in the order that find_free_range needs.
InOrder(db) == \A i, j \in DOMAIN db : i < j => db[i].start <= db[j].start

\* The identifiers of a range that is not empty, and of a sequence of ranges.
LEMMA IdsAre ==
  ASSUME NEW S, NEW db \in Seq(S), \A r \in S : IsRange(r)
  PROVE  /\ \A r \in S : IdsOf(r) \subseteq Nat
         /\ \A r \in S : \A x : x \in IdsOf(r) <=> x \in Nat /\ r.start <= x /\ x < r.start + r.count
         /\ \A x : x \in AllIds(db) <=> \E i \in DOMAIN db : x \in IdsOf(db[i])
         /\ AllIds(db) \subseteq Nat
<1>1. \A r \in S : r.start \in Nat /\ r.count \in Nat
  BY DEF IsRange
<1>2. \A r \in S : \A x : x \in IdsOf(r) <=> x \in Nat /\ r.start <= x /\ x < r.start + r.count
  <2> SUFFICES ASSUME NEW r \in S, NEW x
               PROVE  x \in IdsOf(r) <=> x \in Nat /\ r.start <= x /\ x < r.start + r.count
    OBVIOUS
  <2> QED BY <1>1 DEF IdsOf, LastOf
<1>3. \A r \in S : IdsOf(r) \subseteq Nat
  BY <1>2
<1>4. \A x : x \in AllIds(db) <=> \E i \in DOMAIN db : x \in IdsOf(db[i])
  BY DEF AllIds, Range
<1>5. \A i \in DOMAIN db : db[i] \in S
  BY LenProperties
<1>6. AllIds(db) \subseteq Nat
  <2>1. \A x \in AllIds(db) : x \in Nat
    BY <1>3, <1>4, <1>5
  <2> QED BY <2>1
<1> QED BY <1>2, <1>3, <1>4, <1>6

\* What the loop of find_free_range ends with is the first window that is free.
LEMMA FirstHoleFact ==
  ASSUME NEW S, \A r \in S : IsRange(r), NEW db \in Seq(S), InOrder(db),
         NEW min \in Nat, NEW max \in Nat, NEW count \in Nat
  PROVE  FirstHole(db, min, max, count) =
           IF count = 0 THEN {} ELSE FirstIn(Free(db, min, max, count))
<1> DEFINE n == Len(db)
           used == {i \in DOMAIN db : db[i].count # 0}
           ends(i) == {min} \cup {LastOf(db[j]) + 1 : j \in {k \in used : k < i}}
           low(i) == Max(ends(i))
           high(i) == IF db[i].start > max + 1 THEN max + 1 ELSE db[i].start
           wide == {i \in used : high(i) - low(i) >= count}
           end == low(n + 1)
           least == {low(i) : i \in {j \in wide : \A k \in wide : j <= k}}
           free == Free(db, min, max, count)
<1>1. /\ n \in Nat /\ DOMAIN db = 1 .. n
      /\ \A i \in 1 .. n : db[i] \in S /\ db[i].start \in Nat /\ db[i].count \in Nat
  BY LenProperties DEF IsRange
<1>2. used \in SUBSET (1 .. n) /\ used \subseteq Nat
  BY <1>1
<1>3. ASSUME NEW i \in 1 .. n + 1
      PROVE  /\ low(i) \in Nat /\ low(i) >= min
             /\ \A j \in used : j < i => db[j].start + db[j].count <= low(i)
             /\ low(i) = min \/ \E j \in used : j < i /\ low(i) = db[j].start + db[j].count
  <2> DEFINE g == [j \in 1 .. n |-> LastOf(db[j]) + 1]
             at == {k \in used : k < i}
  <2>1. \A j \in 1 .. n : g[j] = db[j].start + db[j].count /\ g[j] \in Nat
    BY <1>1 DEF LastOf
  <2>2. at \in SUBSET (1 .. n) /\ \A j \in at : g[j] \in Int
    BY <1>2, <2>1
  <2>3. ends(i) = {min} \cup {g[j] : j \in at}
    BY <1>2
  <2> DEFINE T == {min} \cup {g[j] : j \in at}
  <2>4. Max(T) \in T /\ \A x \in T : x <= Max(T)
    <3>1. min \in Int
      OBVIOUS
    <3> HIDE DEF g, at
    <3> QED BY <1>1, <2>2, <3>1, LargestOf
  <2>5. low(i) = Max(T)
    BY <2>3
  <2> DEFINE m == Max(T)
  <2>6. m \in T /\ \A x \in T : x <= m
    BY <2>4
  <2> HIDE DEF m
  <2>7. m = min \/ \E j \in at : m = g[j]
    BY <2>6
  <2>8. min <= m /\ \A j \in at : g[j] <= m
    BY <2>6
  <2>9. m \in Nat
    BY <2>1, <2>2, <2>7
  <2> HIDE DEF g, low, ends
  <2>10. \A j \in used : j < i => db[j].start + db[j].count <= m
    BY <1>2, <2>1, <2>8
  <2>11. m = min \/ \E j \in used : j < i /\ m = db[j].start + db[j].count
    BY <1>2, <2>1, <2>7
  <2> QED BY <2>5, <2>8, <2>9, <2>10, <2>11 DEF m
<1> HIDE DEF low, ends
<1>4. ASSUME NEW s \in free
      PROVE  /\ s \in Nat /\ min <= s /\ s + count <= max + 1
             /\ \A i \in used : db[i].start + db[i].count <= s \/ s + count <= db[i].start \/ count = 0
  <2>1. s \in Nat /\ min <= s /\ s + count <= max + 1
    BY DEF Free
  <2>2. s .. s + count - 1 \cap AllIds(db) = {}
    BY DEF Free
  <2>3. ASSUME NEW i \in used, s < db[i].start + db[i].count, db[i].start < s + count, count # 0
        PROVE  FALSE
    <3> DEFINE x == IF s < db[i].start THEN db[i].start ELSE s
    <3>0. i \in 1 .. n /\ db[i].count # 0
      BY <1>1
    <3>1. x \in s .. s + count - 1 /\ x \in Nat /\ db[i].start <= x /\ x < db[i].start + db[i].count
      BY <1>1, <2>1, <2>3, <3>0
    <3>2. x \in IdsOf(db[i])
      BY <1>1, <3>0, <3>1, IdsAre
    <3>3. x \in AllIds(db)
      BY <1>1, <3>0, <3>2, IdsAre
    <3> QED BY <2>2, <3>1, <3>3
  <2>4. \A i \in used : db[i].start \in Nat /\ db[i].count \in Nat
    BY <1>1
  <2> QED BY <2>1, <2>3, <2>4
<1>5. ASSUME NEW s \in Nat, min <= s, s + count <= max + 1,
             \A i \in used : db[i].start + db[i].count <= s \/ s + count <= db[i].start
      PROVE  s \in free
  <2>1. s \in min .. max - count + 1
    BY <1>5
  <2>2. ASSUME NEW x \in s .. s + count - 1, x \in AllIds(db) PROVE FALSE
    <3>1. PICK i \in 1 .. n : x \in IdsOf(db[i])
      BY <1>1, <2>2, IdsAre
    <3>2. x \in Nat /\ db[i].start <= x /\ x < db[i].start + db[i].count
      BY <1>1, <3>1, IdsAre
    <3>3. i \in used
      BY <1>1, <3>2
    <3> QED BY <1>1, <1>5, <3>2, <3>3
  <2> QED BY <2>1, <2>2 DEF Free
<1> HIDE DEF free
<1>6. ASSUME NEW i \in 1 .. n + 1, NEW s \in free, s < low(i), count # 0
      PROVE  \E j \in wide : j < i
  <2> DEFINE beyond == {j \in used : j < i /\ s < db[j].start + db[j].count}
  <2>1. low(i) # min
    BY <1>3, <1>4, <1>6
  <2>2. beyond # {}
    BY <1>3, <1>6, <2>1
  <2>3. beyond \in SUBSET Nat
    BY <1>2
  <2>4. PICK j \in beyond : \A k \in beyond : j <= k
    <3> HIDE DEF beyond
    <3> QED BY <2>2, <2>3, LeastOf
  <2>5. j \in used /\ j \in 1 .. n /\ j < i /\ s < db[j].start + db[j].count
    BY <1>2, <2>4
  <2>6. \A k \in used : k < j => db[k].start + db[k].count <= s
    <3> TAKE k \in used
    <3> HAVE k < j
    <3>1. k \in 1 .. n /\ db[k].start \in Nat /\ db[k].count \in Nat /\ s \in Nat
      BY <1>1, <1>2, <1>4
    <3>2. k \notin beyond
      BY <2>4, <2>5, <3>1
    <3>3. k < i
      BY <2>5, <3>1
    <3> QED BY <3>1, <3>2, <3>3
  <2>7. low(j) <= s /\ low(j) \in Nat
    <3>1. j \in 1 .. n + 1
      BY <1>1, <2>5
    <3> QED BY <1>3, <1>4, <2>6, <3>1
  <2>8. s + count <= db[j].start /\ s + count <= max + 1
    BY <1>1, <1>4, <1>6, <2>5
  <2>9. high(j) - low(j) >= count
    BY <1>1, <1>4, <2>5, <2>7, <2>8
  <2> QED BY <2>5, <2>9
<1>7. ASSUME NEW i \in wide, \A k \in wide : i <= k, count # 0, min <= max, count <= max - min + 1
      PROVE  low(i) \in free
  <2>1. i \in used /\ i \in 1 .. n /\ i \in 1 .. n + 1 /\ high(i) - low(i) >= count
    BY <1>1, <1>2
  <2>2. low(i) \in Nat /\ low(i) >= min
    BY <1>3, <2>1
  <2>3. low(i) + count <= db[i].start /\ low(i) + count <= max + 1
    BY <1>1, <2>1, <2>2
  <2>4. ASSUME NEW j \in used
        PROVE  db[j].start + db[j].count <= low(i) \/ low(i) + count <= db[j].start
    <3>1. j \in 1 .. n /\ db[j].start \in Nat
      BY <1>1, <1>2
    <3>2. CASE j < i
      BY <1>3, <2>1, <3>2
    <3>3. CASE i = j
      BY <2>3, <3>3
    <3>4. CASE i < j
      <4>1. db[i].start <= db[j].start
        BY <1>1, <2>1, <3>1, <3>4 DEF InOrder
      <4> QED BY <1>1, <2>1, <2>2, <2>3, <3>1, <4>1
    <3> QED BY <2>1, <3>1, <3>2, <3>3, <3>4
  <2> QED BY <1>5, <2>2, <2>3, <2>4
<1>8. ASSUME max - end >= count - 1
      PROVE  end \in free
  <2>1. n + 1 \in 1 .. n + 1 /\ \A j \in used : j < n + 1
    BY <1>1, <1>2
  <2>2. end \in Nat /\ end >= min /\ \A j \in used : db[j].start + db[j].count <= end
    BY <1>3, <2>1
  <2> HIDE DEF end
  <2>3. end + count <= max + 1
    BY <1>8, <2>2
  <2> QED BY <1>5, <2>2, <2>3
<1>9. FirstHole(db, min, max, count) =
        IF count = 0 \/ max < min \/ count > max - min + 1 THEN {}
        ELSE IF wide # {} THEN least
        ELSE {l \in {end} : max - l >= count - 1}
  BY <1>1 DEF FirstHole, low, ends
<1>10. CASE count = 0
  BY <1>9, <1>10
<1>11. CASE count # 0 /\ (max < min \/ count > max - min + 1)
  <2>1. free = {}
    BY <1>4, <1>11
  <2> QED BY <1>9, <1>11, <2>1 DEF FirstIn, free
<1>12. CASE count # 0 /\ min <= max /\ count <= max - min + 1 /\ wide # {}
  <2>1. wide \in SUBSET Nat
    BY <1>2
  <2> HIDE DEF wide
  <2>2. PICK i \in wide : \A k \in wide : i <= k
    BY <1>12, <2>1, LeastOf
  <2>3. {j \in wide : \A k \in wide : j <= k} = {i}
    <3>1. \A j \in wide : (\A k \in wide : j <= k) => j = i
      <4> SUFFICES ASSUME NEW j \in wide, \A k \in wide : j <= k PROVE j = i
        OBVIOUS
      <4>1. j <= i /\ i <= j /\ i \in Nat /\ j \in Nat
        BY <2>1, <2>2
      <4> QED BY <4>1
    <3> QED BY <2>2, <3>1
  <2>4. least = {low(i)}
    BY <2>3
  <2>5. low(i) \in free
    BY <1>7, <1>12, <2>2
  <2>6. i \in 1 .. n + 1
    BY <1>1, <2>2 DEF wide
  <2>7. \A s \in free : low(i) <= s
    <3> TAKE s \in free
    <3>1. s \in Nat /\ low(i) \in Nat
      BY <1>3, <1>4, <2>6
    <3>2. ~(s < low(i))
      <4>1. \A j \in wide : ~(j < i)
        BY <2>1, <2>2
      <4> QED BY <1>6, <1>12, <2>6, <4>1
    <3> QED BY <3>1, <3>2
  <2>8. FirstIn(free) = {low(i)}
    <3>1. \A s \in free : s \in Nat
      BY <1>4
    <3> DEFINE l == low(i)
    <3> HIDE DEF l
    <3>2. l \in free /\ \A s \in free : l <= s
      BY <2>5, <2>7 DEF l
    <3>3. FirstIn(free) = {l}
      BY <3>1, <3>2 DEF FirstIn
    <3> QED BY <3>3 DEF l
  <2>9. FirstHole(db, min, max, count) = least
    BY <1>9, <1>12
  <2> HIDE DEF least
  <2> QED BY <1>12, <2>4, <2>8, <2>9 DEF free
<1>13. CASE count # 0 /\ min <= max /\ count <= max - min + 1 /\ wide = {}
  <2>1. n + 1 \in 1 .. n + 1
    BY <1>1
  <2>2. end \in Nat
    BY <1>3, <2>1
  <2>3. ASSUME NEW s \in free PROVE end <= s /\ max - end >= count - 1
    <3>1. s \in Nat /\ s + count <= max + 1
      BY <1>4
    <3>2. ~(s < end)
      BY <1>6, <1>13, <2>1
    <3> HIDE DEF end
    <3> QED BY <2>2, <3>1, <3>2
  <2>4. FirstHole(db, min, max, count) = {l \in {end} : max - l >= count - 1}
    BY <1>9, <1>13
  <2> HIDE DEF end
  <2>5. CASE max - end >= count - 1
    <3>1. end \in free
      BY <1>8, <2>5 DEF end
    <3>2. \A s \in free : s \in Nat
      BY <1>4
    <3>3. \A s \in free : end <= s
      BY <2>3
    <3>4. \A s \in FirstIn(free) : s = end
      <4> SUFFICES ASSUME NEW s \in FirstIn(free) PROVE s = end
        OBVIOUS
      <4>1. s \in free /\ s <= end /\ end <= s /\ s \in Nat
        BY <3>1, <3>2, <3>3 DEF FirstIn
      <4> QED BY <2>2, <4>1
    <3>5. end \in FirstIn(free)
      BY <3>1, <3>3 DEF FirstIn
    <3>6. FirstIn(free) = {end}
      BY <3>4, <3>5
    <3> QED BY <1>13, <2>4, <2>5, <3>6 DEF free
  <2>6. CASE ~(max - end >= count - 1)
    <3>1. free = {}
      BY <2>3, <2>6
    <3>2. FirstIn(free) = {}
      BY <3>1 DEF FirstIn
    <3> QED BY <1>13, <2>4, <2>6, <3>2 DEF free
  <2> QED BY <2>5, <2>6
<1> QED BY <1>10, <1>11, <1>12, <1>13, <1>1

\* What a search sorts and looks at.
LEMMA SubRangeIsRange == \A r \in SubRange : IsRange(r) /\ r.owner \in OwnerNames
BY DEF SubRange, IsRange

\* What find_free_range sorts are the same ranges, and the same identifiers.
LEMMA SortedSub ==
  ASSUME NEW db \in Seq(SubRange)
  PROVE  /\ Sorted(db) \in Seq(SubRange) /\ InOrder(Sorted(db))
         /\ Range(Sorted(db)) = Range(db) /\ AllIds(Sorted(db)) = AllIds(db)
<1>1. /\ Sorted(db) \in Seq(SubRange) /\ Len(Sorted(db)) = Len(db)
      /\ Range(Sorted(db)) = Range(db)
      /\ \A i, j \in DOMAIN db : i < j => ~Below(Sorted(db)[j], Sorted(db)[i])
  BY SortedFact, SubRangeIsRange
<1> DEFINE t == Sorted(db)
<1> HIDE DEF t
<1>2. t \in Seq(SubRange) /\ Len(t) = Len(db) /\ Range(t) = Range(db)
      /\ \A i, j \in DOMAIN db : i < j => ~Below(t[j], t[i])
  BY <1>1 DEF t
<1>3. DOMAIN t = DOMAIN db /\ \A i \in DOMAIN t : t[i] \in SubRange
  BY <1>2, LenProperties
<1>4. InOrder(t)
  <2> SUFFICES ASSUME NEW i \in DOMAIN t, NEW j \in DOMAIN t, i < j PROVE t[i].start <= t[j].start
    BY DEF InOrder
  <2>1. IsRange(t[i]) /\ IsRange(t[j]) /\ ~Below(t[j], t[i])
    BY <1>2, <1>3, SubRangeIsRange
  <2> QED BY <2>1 DEF Below, IsRange
<1>5. AllIds(t) = AllIds(db)
  BY <1>2 DEF AllIds
<1> QED BY <1>2, <1>4, <1>5 DEF t

\* What a search finds is free.
LEMMA FoundIsFree ==
  ASSUME NEW db \in Seq(SubRange), NEW min \in Nat, NEW max \in Nat, NEW count \in Nat,
         NEW s \in FindFreeRange(db, min, max, count)
  PROVE  /\ s \in Nat /\ min <= s /\ s + count <= max + 1 /\ count # 0
         /\ s .. s + count - 1 \cap AllIds(db) = {}
<1> DEFINE t == Sorted(db)
<1>1. t \in Seq(SubRange) /\ InOrder(t) /\ AllIds(t) = AllIds(db)
  BY SortedSub
<1>2. s \in FirstHole(t, min, max, count)
  BY DEF FindFreeRange
<1> HIDE DEF t
<1>3. FirstHole(t, min, max, count) = IF count = 0 THEN {} ELSE FirstIn(Free(t, min, max, count))
  BY <1>1, FirstHoleFact, SubRangeIsRange
<1>4. count # 0 /\ s \in Free(t, min, max, count)
  BY <1>2, <1>3 DEF FirstIn
<1> QED BY <1>1, <1>4 DEF Free

(***************************************************************************)
(* Users and what they own.                                                *)
(***************************************************************************)
\* The tables that passwd can be.
Tables == UNION {[D -> Nat] : D \in SUBSET (UserNames \ DOMAIN NumberOf)}

\* passwd, as a function from names to numbers.
LEMMA TableFact ==
  ASSUME NEW t
  PROVE  t \in Tables <=>
           /\ t \in [DOMAIN t -> Nat] /\ DOMAIN t \subseteq UserNames
           /\ DOMAIN t \cap DOMAIN NumberOf = {}
BY DEF Tables

\* A name stands for one number at most, and that is a user's.
LEMMA KnownFact ==
  ASSUME NEW t \in Tables, NEW o
  PROVE  /\ \A x \in KnownUid(t, o) : x \in Range(t)
         /\ \A x, y \in KnownUid(t, o) : x = y
         /\ o \in DOMAIN t => KnownUid(t, o) = {t[o]}
         /\ o \notin DOMAIN NumberOf => KnownUid(t, o) = {t[n] : n \in {o} \cap DOMAIN t}
         /\ \A u \in DOMAIN t : IsSameUser(t, o, u) <=> t[u] \in KnownUid(t, o)
<1>1. t \in [DOMAIN t -> Nat] /\ DOMAIN t \cap DOMAIN NumberOf = {}
  BY TableFact
<1>2. /\ \A x \in KnownUid(t, o) : x \in Range(t)
      /\ \A x, y \in KnownUid(t, o) : x = y
  <2>1. CASE o \in DOMAIN NumberOf
    BY <2>1 DEF KnownUid
  <2>2. CASE o \notin DOMAIN NumberOf
    BY <2>2 DEF KnownUid, Range
  <2> QED BY <2>1, <2>2
<1>3. \A u \in DOMAIN t : KnownUid(t, u) = {t[u]}
  BY <1>1 DEF KnownUid
<1>4. o \notin DOMAIN NumberOf => KnownUid(t, o) = {t[n] : n \in {o} \cap DOMAIN t}
  BY DEF KnownUid
<1>5. \A u \in DOMAIN t : IsSameUser(t, o, u) <=> t[u] \in KnownUid(t, o)
  BY <1>3 DEF IsSameUser
<1> QED BY <1>2, <1>3, <1>4, <1>5

\* The identifiers of an owner.
LEMMA OwnedAre ==
  ASSUME NEW t, NEW db, NEW o, NEW x
  PROVE  x \in OwnedBy(t, db, o) <=>
           \E i \in DOMAIN db : /\ x \in IdsOf(db[i])
                                /\ db[i].owner = o \/ IsSameUser(t, db[i].owner, o)
BY DEF OwnedBy, Range

(***************************************************************************)
(* have_range.                                                             *)
(***************************************************************************)
\* find_range finds a range of the owner that holds the identifier, when there
\* is one.
LEMMA FindRangeFact ==
  ASSUME NEW t, NEW db \in Seq(SubRange), NEW o, NEW x
  PROVE  /\ \A r \in FindRange(t, db, o, x) :
              r \in SubRange /\ x \in IdsOf(r) /\ \A y \in IdsOf(r) : y \in OwnedBy(t, db, o)
         /\ x \in OwnedBy(t, db, o) => FindRange(t, db, o, x) # {}
<1> DEFINE holds == {i \in DOMAIN db : x \in IdsOf(db[i])}
           named == {i \in holds : db[i].owner = o}
           same == {i \in holds : IsSameUser(t, db[i].owner, o)}
           at == IF named # {} THEN named ELSE same
<1>1. DOMAIN db \subseteq Nat /\ \A i \in DOMAIN db : db[i] \in SubRange
  BY LenProperties
<1>2. FindRange(t, db, o, x) = FirstAt(db, at)
  BY DEF FindRange
<1>3. \A i \in at : /\ i \in DOMAIN db /\ x \in IdsOf(db[i])
                    /\ db[i].owner = o \/ IsSameUser(t, db[i].owner, o)
  OBVIOUS
<1>4. x \in OwnedBy(t, db, o) => at # {}
  BY OwnedAre
<1> HIDE DEF at
<1>5. at \in SUBSET Nat
  BY <1>1, <1>3
<1>6. \A r \in FirstAt(db, at) : \E i \in at : r = db[i]
  BY DEF FirstAt
<1>7. at # {} => FirstAt(db, at) # {}
  <2> SUFFICES ASSUME at # {} PROVE FirstAt(db, at) # {}
    OBVIOUS
  <2>1. PICK i \in at : \A k \in at : i <= k
    BY <1>5, LeastOf
  <2> QED BY <2>1 DEF FirstAt
<1>8. ASSUME NEW r \in FindRange(t, db, o, x)
      PROVE  r \in SubRange /\ x \in IdsOf(r) /\ \A y \in IdsOf(r) : y \in OwnedBy(t, db, o)
  <2>1. PICK i \in at : r = db[i]
    BY <1>2, <1>6
  <2>2. r \in SubRange /\ x \in IdsOf(r)
    BY <1>1, <1>3, <2>1
  <2>3. ASSUME NEW y \in IdsOf(r) PROVE y \in OwnedBy(t, db, o)
    BY <1>3, <2>1, OwnedAre
  <2> QED BY <2>2, <2>3
<1>9. x \in OwnedBy(t, db, o) => FindRange(t, db, o, x) # {}
  BY <1>2, <1>4, <1>7
<1> QED BY <1>8, <1>9

\* have_range says yes exactly when each identifier is the owner's.
LEMMA HaveRangeFact ==
  ASSUME NEW t, NEW db \in Seq(SubRange), NEW o, NEW start \in Nat, NEW count \in Nat
  PROVE  HaveRange(t, db, o, start, count) <=>
           count > 0 /\ \A x \in start .. start + count - 1 : x \in OwnedBy(t, db, o)
<1> DEFINE mine == OwnedBy(t, db, o)
           found(s) == FindRange(t, db, o, s)
           end == start + count - 1
           D == start .. end
           E(f, s) == \E r \in found(s) : LastOf(r) >= end \/ f[LastOf(r) + 1]
           reach == CHOOSE f : f = [s \in D |-> E(f, s)]
           g == [s \in D |-> \A x \in s .. end : x \in mine]
<1>1. \A s : \A r \in found(s) :
         r \in SubRange /\ s \in IdsOf(r) /\ \A y \in IdsOf(r) : y \in mine
  BY FindRangeFact
<1>2. \A s : s \in mine => found(s) # {}
  BY FindRangeFact
<1>3. \A s \in D : \A r \in found(s) :
         /\ r.start \in Nat /\ LastOf(r) \in Int /\ r.start <= s /\ s <= LastOf(r)
         /\ \A y \in r.start .. LastOf(r) : y \in mine
  <2> SUFFICES ASSUME NEW s \in D, NEW r \in found(s)
               PROVE  /\ r.start \in Nat /\ LastOf(r) \in Int /\ r.start <= s /\ s <= LastOf(r)
                      /\ \A y \in r.start .. LastOf(r) : y \in mine
    OBVIOUS
  <2>1. r.start \in Nat /\ r.count \in Nat /\ s \in IdsOf(r) /\ \A y \in IdsOf(r) : y \in mine
    BY <1>1 DEF SubRange
  <2>2. s \in r.start .. LastOf(r) /\ \A y \in r.start .. LastOf(r) : y \in mine
    BY <2>1 DEF IdsOf
  <2>3. LastOf(r) \in Int
    BY <2>1 DEF LastOf
  <2> QED BY <2>1, <2>2, <2>3
<1>0. HaveRange(t, db, o, start, count) <=> count > 0 /\ reach[start]
  BY DEF HaveRange
<1> HIDE DEF mine, found
<1>4. \A s \in D : g[s] <=> E(g, s)
  <2> SUFFICES ASSUME NEW s \in D PROVE g[s] <=> E(g, s)
    OBVIOUS
  <2>1. ASSUME g[s] PROVE E(g, s)
    <3>1. \A x \in s .. end : x \in mine
      BY <2>1
    <3>2. s \in mine
      BY <3>1
    <3>3. PICK r \in found(s) : TRUE
      BY <1>2, <3>2
    <3>4. LastOf(r) \in Int /\ s <= LastOf(r)
      BY <1>3, <3>3
    <3>5. CASE LastOf(r) >= end
      BY <3>3, <3>5
    <3>6. CASE ~(LastOf(r) >= end)
      <4>1. LastOf(r) + 1 \in D /\ s <= LastOf(r) + 1
        BY <3>4, <3>6
      <4>2. \A x \in LastOf(r) + 1 .. end : x \in mine
        BY <3>1, <3>4
      <4>3. g[LastOf(r) + 1]
        BY <4>1, <4>2
      <4> QED BY <3>3, <4>3
    <3> QED BY <3>5, <3>6
  <2>2. ASSUME E(g, s) PROVE g[s]
    <3>1. PICK r \in found(s) : LastOf(r) >= end \/ g[LastOf(r) + 1]
      BY <2>2
    <3>2. /\ r.start \in Nat /\ LastOf(r) \in Int /\ r.start <= s /\ s <= LastOf(r)
          /\ \A y \in r.start .. LastOf(r) : y \in mine
      BY <1>3, <3>1
    <3>3. LastOf(r) < end => \A x \in LastOf(r) + 1 .. end : x \in mine
      <4> SUFFICES ASSUME LastOf(r) < end PROVE \A x \in LastOf(r) + 1 .. end : x \in mine
        OBVIOUS
      <4>1. LastOf(r) + 1 \in D
        BY <3>2
      <4>2. g[LastOf(r) + 1]
        BY <3>1, <3>2
      <4> QED BY <4>1, <4>2
    <3>4. ASSUME NEW x \in s .. end PROVE x \in mine
      BY <3>2, <3>3
    <3> QED BY <3>4
  <2> QED BY <2>1, <2>2
<1>5. g = [s \in D |-> E(g, s)]
  <2> DEFINE h == [s \in D |-> E(g, s)]
  <2>1. \A s \in D : g[s] \in BOOLEAN /\ h[s] \in BOOLEAN
    OBVIOUS
  <2>2. \A s \in D : h[s] <=> E(g, s)
    OBVIOUS
  <2>3. \A s \in D : g[s] <=> h[s]
    BY <1>4, <2>2
  <2>4. \A s \in D : g[s] = h[s]
    <3> HIDE DEF g, h
    <3> QED BY <2>1, <2>3
  <2> QED BY <2>4
<1>6. reach = [s \in D |-> E(reach, s)]
  <2> HIDE DEF g
  <2>1. \E f : f = [s \in D |-> E(f, s)]
    BY <1>5
  <2> QED BY <2>1
<1> HIDE DEF reach
<1>7. \A s \in D : reach[s] <=> E(reach, s)
  BY <1>6
<1>8. \A s \in D : reach[s] <=> g[s]
  <2> DEFINE bad == {s \in D : ~(reach[s] <=> g[s])}
             far == {end - s : s \in bad}
  <2> SUFFICES ASSUME bad # {} PROVE FALSE
    OBVIOUS
  <2>1. far # {} /\ far \in SUBSET Nat
    <3>1. PICK s \in bad : TRUE
      OBVIOUS
    <3>2. \A u \in bad : u \in D
      OBVIOUS
    <3>3. \A u \in D : end - u \in Nat
      OBVIOUS
    <3> HIDE DEF bad
    <3>4. end - s \in far
      OBVIOUS
    <3>5. \A e \in far : e \in Nat
      BY <3>2, <3>3
    <3> QED BY <3>4, <3>5
  <2>2. PICK d \in far : \A e \in far : d <= e
    <3> HIDE DEF far
    <3> QED BY <2>1, LeastOf
  <2>3. PICK s \in bad : d = end - s
    BY <2>2
  <2>4. s \in D /\ ~(reach[s] <=> g[s])
    BY <2>3
  <2>5. \A u \in D : u > s => (reach[u] <=> g[u])
    <3> SUFFICES ASSUME NEW u \in D, u > s, ~(reach[u] <=> g[u]) PROVE FALSE
      OBVIOUS
    <3>1. u \in bad
      OBVIOUS
    <3>2. end - u \in far
      BY <3>1
    <3>3. d <= end - u
      BY <2>2, <3>2
    <3> QED BY <2>3, <2>4, <3>3
  <2> HIDE DEF bad, far, g
  <2>6. \A r \in found(s) : (LastOf(r) >= end \/ reach[LastOf(r) + 1]) <=> (LastOf(r) >= end \/ g[LastOf(r) + 1])
    <3> SUFFICES ASSUME NEW r \in found(s), ~(LastOf(r) >= end)
                 PROVE  reach[LastOf(r) + 1] <=> g[LastOf(r) + 1]
      OBVIOUS
    <3>1. LastOf(r) \in Int /\ s <= LastOf(r)
      BY <1>3, <2>4
    <3>2. LastOf(r) + 1 \in D /\ LastOf(r) + 1 > s
      BY <2>4, <3>1
    <3> QED BY <2>5, <3>2
  <2>7. E(reach, s) <=> E(g, s)
    BY <2>6
  <2> QED BY <1>4, <1>7, <2>4, <2>7
<1>9. count > 0 => start \in D
  OBVIOUS
<1>10. count > 0 => (reach[start] <=> \A x \in start .. end : x \in mine)
  BY <1>8, <1>9
<1> QED BY <1>0, <1>10 DEF mine

(***************************************************************************)
(* What the edits leave of the file.                                       *)
(***************************************************************************)
\* remove_range gives ranges of the file, or parts of them.
LEMMA RemoveFact ==
  ASSUME NEW t, NEW db \in Seq(SubRange), NEW o, NEW start \in Nat, NEW count \in Nat
  PROVE  /\ RemoveRange(t, db, o, start, count) \in Seq(SubRange)
         /\ \A r \in Range(RemoveRange(t, db, o, start, count)) :
              \E s \in Range(db) : r.owner = s.owner /\ IdsOf(r) \subseteq IdsOf(s)
<1> DEFINE end == start + count - 1
           touched(r) == IsSameUser(t, r.owner, o) /\ start <= LastOf(r) /\ end >= r.start
           after(r) == RangeOf(r.owner, end + 1, LastOf(r) - end)
           cut(r) == IF ~touched(r) THEN r
                     ELSE IF start > r.start THEN RangeOf(r.owner, r.start, start - r.start) ELSE after(r)
           keptAt == {i \in DOMAIN db : ~touched(db[i]) \/ start > db[i].start \/ end < LastOf(db[i])}
           splitAt == {i \in DOMAIN db : touched(db[i]) /\ start > db[i].start /\ end < LastOf(db[i])}
           kept == EntriesAt(db, keptAt)
           split == EntriesAt(db, splitAt)
           left == [i \in DOMAIN kept |-> cut(kept[i])]
           new == [i \in DOMAIN split |-> after(split[i])]
           Part(r, s) == r \in SubRange /\ r.owner = s.owner /\ IdsOf(r) \subseteq IdsOf(s)
<1>1. RemoveRange(t, db, o, start, count) = IF count = 0 THEN db ELSE left \o new
  BY DEF RemoveRange
<1>2. /\ kept \in Seq(SubRange) /\ Range(kept) = {db[i] : i \in keptAt}
      /\ split \in Seq(SubRange) /\ Range(split) = {db[i] : i \in splitAt}
  <2>1. keptAt \in SUBSET DOMAIN db /\ splitAt \in SUBSET DOMAIN db
    OBVIOUS
  <2> HIDE DEF keptAt, splitAt
  <2> QED BY <2>1, EntriesAtRange
<1>3. /\ \A i \in DOMAIN kept : kept[i] \in Range(db) /\ kept[i] \in SubRange
            /\ (~touched(kept[i]) \/ start > kept[i].start \/ end < LastOf(kept[i]))
      /\ \A i \in DOMAIN split : split[i] \in Range(db) /\ split[i] \in SubRange
            /\ touched(split[i]) /\ start > split[i].start /\ end < LastOf(split[i])
  <2>1. \A i \in DOMAIN db : db[i] \in Range(db) /\ db[i] \in SubRange
    BY LenProperties DEF Range
  <2>2. \A i \in DOMAIN kept : \E j \in keptAt : kept[i] = db[j]
    <3>1. \A i \in DOMAIN kept : kept[i] \in Range(kept)
      BY DEF Range
    <3> QED BY <1>2, <3>1
  <2>3. \A i \in DOMAIN split : \E j \in splitAt : split[i] = db[j]
    <3>1. \A i \in DOMAIN split : split[i] \in Range(split)
      BY DEF Range
    <3> QED BY <1>2, <3>1
  <2> HIDE DEF kept, split
  <2>4. ASSUME NEW i \in DOMAIN kept
        PROVE  /\ kept[i] \in Range(db) /\ kept[i] \in SubRange
               /\ (~touched(kept[i]) \/ start > kept[i].start \/ end < LastOf(kept[i]))
    BY <2>1, <2>2
  <2>5. ASSUME NEW i \in DOMAIN split
        PROVE  /\ split[i] \in Range(db) /\ split[i] \in SubRange
               /\ touched(split[i]) /\ start > split[i].start /\ end < LastOf(split[i])
    BY <2>1, <2>3
  <2> QED BY <2>4, <2>5
<1>4. ASSUME NEW s \in SubRange, count # 0, end < LastOf(s), start > s.start \/ touched(s)
      PROVE  Part(after(s), s)
  <2>1. s.start \in Nat /\ s.count \in Nat /\ s.owner \in OwnerNames
    BY DEF SubRange
  <2>2. LastOf(s) = s.start + s.count - 1 /\ end + 1 \in Nat /\ LastOf(s) - end \in Nat /\ s.start <= end + 1
    BY <1>4, <2>1 DEF LastOf
  <2>3. after(s) \in SubRange
    BY <2>1, <2>2 DEF RangeOf, SubRange
  <2>4. IdsOf(after(s)) \subseteq IdsOf(s)
    <3>1. LastOf(after(s)) = LastOf(s)
      BY <2>1, <2>2 DEF RangeOf, LastOf
    <3>2. after(s).start = end + 1
      BY DEF RangeOf
    <3>3. IdsOf(after(s)) = end + 1 .. LastOf(s)
      BY <3>1, <3>2 DEF IdsOf
    <3>4. LastOf(s) \in Int
      BY <2>1, <2>2
    <3> HIDE DEF after, end
    <3>5. \A x \in IdsOf(after(s)) : x \in IdsOf(s)
      <4> SUFFICES ASSUME NEW x \in end + 1 .. LastOf(s) PROVE x \in s.start .. LastOf(s)
        BY <3>3 DEF IdsOf
      <4> QED BY <2>1, <2>2, <3>4
    <3> QED BY <3>5
  <2> QED BY <2>3, <2>4 DEF RangeOf
<1>5. ASSUME NEW s \in SubRange, count # 0, ~touched(s) \/ start > s.start \/ end < LastOf(s)
      PROVE  Part(cut(s), s)
  <2>1. s.start \in Nat /\ s.count \in Nat /\ s.owner \in OwnerNames
    BY DEF SubRange
  <2>2. CASE ~touched(s)
    BY <2>2
  <2>3. CASE touched(s) /\ start > s.start
    <3> DEFINE c == RangeOf(s.owner, s.start, start - s.start)
    <3>1. cut(s) = c
      BY <2>3
    <3>2. c \in SubRange
      BY <2>1, <2>3 DEF RangeOf, SubRange
    <3>3. IdsOf(c) = s.start .. start - 1
      BY <2>1 DEF IdsOf, RangeOf, LastOf
    <3>4. start <= LastOf(s) /\ LastOf(s) \in Int
      BY <2>1, <2>3 DEF LastOf
    <3>6. \A x \in IdsOf(c) : x \in IdsOf(s)
      <4> SUFFICES ASSUME NEW x \in s.start .. start - 1 PROVE x \in s.start .. LastOf(s)
        BY <3>3 DEF IdsOf
      <4> QED BY <2>1, <3>4
    <3>5. IdsOf(c) \subseteq IdsOf(s)
      BY <3>6
    <3> QED BY <3>1, <3>2, <3>5 DEF RangeOf
  <2>4. CASE touched(s) /\ ~(start > s.start)
    <3>1. end < LastOf(s)
      BY <1>5, <2>4
    <3>2. cut(s) = after(s)
      BY <2>4
    <3>3. Part(after(s), s)
      BY <1>4, <1>5, <2>4, <3>1
    <3> HIDE DEF Part, cut, after
    <3> QED BY <3>2, <3>3
  <2> QED BY <2>2, <2>3, <2>4
<1> HIDE DEF kept, split, keptAt, splitAt, cut, after
<1>6. ASSUME count # 0
      PROVE  /\ left \in Seq(SubRange) /\ new \in Seq(SubRange)
             /\ \A i \in DOMAIN left : \E s \in Range(db) : Part(left[i], s)
             /\ \A i \in DOMAIN new : \E s \in Range(db) : Part(new[i], s)
  <2>1. \A i \in DOMAIN kept : Part(cut(kept[i]), kept[i])
    BY <1>3, <1>5, <1>6
  <2>2. \A i \in DOMAIN split : Part(after(split[i]), split[i])
    BY <1>3, <1>4, <1>6
  <2>3. DOMAIN left = DOMAIN kept /\ DOMAIN new = DOMAIN split
    OBVIOUS
  <2>4. \A i \in DOMAIN left : \E s \in Range(db) : Part(left[i], s)
    BY <1>3, <2>1, <2>3
  <2>5. \A i \in DOMAIN new : \E s \in Range(db) : Part(new[i], s)
    BY <1>3, <2>2, <2>3
  <2>6. Len(kept) \in Nat /\ DOMAIN kept = 1 .. Len(kept) /\ Len(split) \in Nat /\ DOMAIN split = 1 .. Len(split)
    BY <1>2, LenProperties
  <2>7. left \in [1 .. Len(kept) -> SubRange]
    BY <2>3, <2>4, <2>6
  <2>8. new \in [1 .. Len(split) -> SubRange]
    BY <2>3, <2>5, <2>6
  <2>9. left \in Seq(SubRange) /\ new \in Seq(SubRange)
    BY <2>6, <2>7, <2>8, SeqDef
  <2> QED BY <2>4, <2>5, <2>9
<1> HIDE DEF left, new
<1>7. CASE count = 0
  <2>1. RemoveRange(t, db, o, start, count) = db
    BY <1>1, <1>7
  <2> QED BY <2>1
<1>8. CASE count # 0
  <2> DEFINE both == left \o new
  <2>1. both \in Seq(SubRange)
    BY <1>6, <1>8, ConcatProperties
  <2>2. \A r \in Range(both) : (\E i \in DOMAIN left : r = left[i]) \/ (\E i \in DOMAIN new : r = new[i])
    <3>1. Len(both) = Len(left) + Len(new) /\ Len(left) \in Nat /\ Len(new) \in Nat
      BY <1>6, <1>8, ConcatProperties, LenProperties
    <3>2. DOMAIN left = 1 .. Len(left) /\ DOMAIN new = 1 .. Len(new) /\ DOMAIN both = 1 .. Len(both)
      BY <1>6, <1>8, <2>1, LenProperties
    <3>3. \A i \in 1 .. Len(left) + Len(new) :
             both[i] = IF i <= Len(left) THEN left[i] ELSE new[i - Len(left)]
      BY <1>6, <1>8, ConcatProperties
    <3> HIDE DEF both
    <3>4. SUFFICES ASSUME NEW i \in DOMAIN both
                   PROVE  (\E k \in DOMAIN left : both[i] = left[k]) \/ (\E k \in DOMAIN new : both[i] = new[k])
      BY DEF Range
    <3>5. CASE i <= Len(left)
      BY <3>1, <3>2, <3>3, <3>5
    <3>6. CASE ~(i <= Len(left))
      <4>1. i - Len(left) \in DOMAIN new
        BY <3>1, <3>2, <3>6
      <4> QED BY <3>1, <3>2, <3>3, <3>6, <4>1
    <3> QED BY <3>5, <3>6
  <2>3. RemoveRange(t, db, o, start, count) = both
    BY <1>1, <1>8
  <2> HIDE DEF both
  <2>4. \A r \in Range(both) : \E s \in Range(db) : Part(r, s)
    <3> HIDE DEF Part
    <3> QED BY <1>6, <1>8, <2>2
  <2> QED BY <2>1, <2>3, <2>4
<1> QED BY <1>7, <1>8

\* An identifier that two names have is one of those that are shared.
LEMMA SharedFact ==
  ASSUME NEW db, NEW ids
  PROVE  SharedIds(db) \subseteq ids <=>
           \A m, n, x : m # n /\ x \in IdsNamed(db, m) /\ x \in IdsNamed(db, n) => x \in ids
<1> DEFINE names == {r.owner : r \in Range(db)}
<1>1. \A n, x : x \in IdsNamed(db, n) => n \in names
  BY DEF IdsNamed
<1>2. \A x : x \in SharedIds(db) <=>
        \E m \in names : \E n \in names \ {m} : x \in IdsNamed(db, m) /\ x \in IdsNamed(db, n)
  <2> HIDE DEF names
  <2>1. SharedIds(db) = UNION {UNION {IdsNamed(db, m) \cap IdsNamed(db, n) : n \in names \ {m}} : m \in names}
    BY DEF SharedIds, names
  <2> QED BY <2>1
<1> HIDE DEF names
<1>3. ASSUME SharedIds(db) \subseteq ids, NEW m, NEW n, NEW x, m # n,
             x \in IdsNamed(db, m), x \in IdsNamed(db, n)
      PROVE  x \in ids
  <2>1. m \in names /\ n \in names \ {m}
    BY <1>1, <1>3
  <2>2. x \in SharedIds(db)
    BY <1>2, <1>3, <2>1
  <2> QED BY <1>3, <2>2
<1>4. ASSUME \A m, n, x : m # n /\ x \in IdsNamed(db, m) /\ x \in IdsNamed(db, n) => x \in ids,
             NEW x \in SharedIds(db)
      PROVE  x \in ids
  <2>1. PICK m \in names : \E n \in names \ {m} : x \in IdsNamed(db, m) /\ x \in IdsNamed(db, n)
    BY <1>2, <1>4
  <2>2. PICK n \in names \ {m} : x \in IdsNamed(db, m) /\ x \in IdsNamed(db, n)
    BY <2>1
  <2>3. m # n
    BY <2>2
  <2> QED BY <1>4, <2>2, <2>3
<1> QED BY <1>3, <1>4

\* Where no name has more than before nothing more is shared.
LEMMA SharedLess ==
  ASSUME NEW db, NEW other, \A n : IdsNamed(other, n) \subseteq IdsNamed(db, n),
         NEW ids, SharedIds(db) \subseteq ids
  PROVE  SharedIds(other) \subseteq ids
BY SharedFact

\* remove_range gives nothing to anybody.
LEMMA RemoveNamed ==
  ASSUME NEW t, NEW db \in Seq(SubRange), NEW o, NEW start \in Nat, NEW count \in Nat, NEW n
  PROVE  IdsNamed(RemoveRange(t, db, o, start, count), n) \subseteq IdsNamed(db, n)
<1> DEFINE other == RemoveRange(t, db, o, start, count)
<1>1. \A r \in Range(other) : \E s \in Range(db) : r.owner = s.owner /\ IdsOf(r) \subseteq IdsOf(s)
  BY RemoveFact
<1> HIDE DEF other
<1>2. ASSUME NEW x \in IdsNamed(other, n) PROVE x \in IdsNamed(db, n)
  <2>1. PICK r \in Range(other) : r.owner = n /\ x \in IdsOf(r)
    BY <1>2 DEF IdsNamed
  <2>2. PICK s \in Range(db) : s.owner = n /\ IdsOf(r) \subseteq IdsOf(s)
    BY <1>1, <2>1
  <2> QED BY <2>1, <2>2 DEF IdsNamed
<1> QED BY <1>2 DEF other

\* add_range gives no more than the range, and that to the name it is for.
LEMMA AddFact ==
  ASSUME NEW t, NEW db \in Seq(SubRange), NEW o \in OwnerNames, NEW start \in Nat, NEW count \in Nat
  PROVE  /\ AddRange(t, db, o, start, count) \in Seq(SubRange)
         /\ \A n : IdsNamed(AddRange(t, db, o, start, count), n) \subseteq
                     IdsNamed(db, n) \cup (IF n = o THEN start .. start + count - 1 ELSE {})
<1> DEFINE r == RangeOf(o, start, count)
           new == AddRange(t, db, o, start, count)
<1>1. r \in SubRange /\ r.owner = o /\ IdsOf(r) = start .. start + count - 1
  BY DEF RangeOf, SubRange, IdsOf, LastOf
<1>2. new = db \/ new = Append(db, r)
  BY DEF AddRange
<1> HIDE DEF r, new
<1>3. Append(db, r) \in Seq(SubRange) /\ \A s \in Range(Append(db, r)) : s \in Range(db) \/ s = r
  <2>1. /\ Append(db, r) \in Seq(SubRange) /\ Len(Append(db, r)) = Len(db) + 1
        /\ \A i \in 1 .. Len(db) : Append(db, r)[i] = db[i]
        /\ Append(db, r)[Len(db) + 1] = r
    BY <1>1, AppendProperties
  <2>2. Len(db) \in Nat /\ DOMAIN db = 1 .. Len(db) /\ DOMAIN Append(db, r) = 1 .. Len(db) + 1
    BY <2>1, LenProperties
  <2> DEFINE a == Append(db, r)
  <2> HIDE DEF a
  <2>3. \A i \in DOMAIN a : a[i] \in Range(db) \/ a[i] = r
    BY <2>1, <2>2 DEF a, Range
  <2>4. \A s \in Range(a) : s \in Range(db) \/ s = r
    BY <2>3 DEF Range
  <2> QED BY <2>1, <2>4 DEF a
<1>4. new \in Seq(SubRange) /\ \A s \in Range(new) : s \in Range(db) \/ s = r
  BY <1>2, <1>3
<1>5. ASSUME NEW n, NEW x \in IdsNamed(new, n)
      PROVE  x \in IdsNamed(db, n) \/ (n = o /\ x \in start .. start + count - 1)
  <2>1. PICK s \in Range(new) : s.owner = n /\ x \in IdsOf(s)
    BY <1>5 DEF IdsNamed
  <2>2. CASE s \in Range(db)
    BY <2>1, <2>2 DEF IdsNamed
  <2>3. CASE s = r
    BY <1>1, <2>1, <2>3
  <2> QED BY <1>4, <2>2, <2>3
<1>6. \A n : IdsNamed(new, n) \subseteq
               IdsNamed(db, n) \cup (IF n = o THEN start .. start + count - 1 ELSE {})
  BY <1>5
<1> QED BY <1>4, <1>6 DEF new

\* A range of identifiers that nobody has makes nothing shared.
LEMMA AddFree ==
  ASSUME NEW t, NEW db \in Seq(SubRange), NEW o \in OwnerNames, NEW start \in Nat, NEW count \in Nat,
         start .. start + count - 1 \cap AllIds(db) = {}, NEW ids, SharedIds(db) \subseteq ids
  PROVE  SharedIds(AddRange(t, db, o, start, count)) \subseteq ids
<1> DEFINE new == AddRange(t, db, o, start, count)
           span == start .. start + count - 1
<1>1. \A n : IdsNamed(new, n) \subseteq IdsNamed(db, n) \cup (IF n = o THEN span ELSE {})
  BY AddFact
<1>2. \A n, x : x \in IdsNamed(db, n) => x \notin span
  <2> SUFFICES ASSUME NEW n, NEW x \in IdsNamed(db, n) PROVE x \in AllIds(db)
    OBVIOUS
  <2> QED BY DEF IdsNamed, AllIds
<1> HIDE DEF new, span
<1>3. ASSUME NEW m, NEW n, NEW x, m # n, x \in IdsNamed(new, m), x \in IdsNamed(new, n)
      PROVE  x \in ids
  <2>1. x \in IdsNamed(db, m) \/ (m = o /\ x \in span)
    BY <1>1, <1>3
  <2>2. x \in IdsNamed(db, n) \/ (n = o /\ x \in span)
    BY <1>1, <1>3
  <2>3. x \in IdsNamed(db, m) /\ x \in IdsNamed(db, n)
    BY <1>2, <1>3, <2>1, <2>2
  <2> QED BY <1>3, <2>3, SharedFact
<1>4. SharedIds(new) \subseteq ids
  BY <1>3, SharedFact
<1> QED BY <1>4 DEF new

\* Sorting changes nothing that anybody has.
LEMMA AfterFindFact ==
  ASSUME NEW c, NEW db \in Seq(SubRange)
  PROVE  /\ AfterFind(c, db) \in Seq(SubRange) /\ AllIds(AfterFind(c, db)) = AllIds(db)
         /\ Range(AfterFind(c, db)) = Range(db)
         /\ \A n : IdsNamed(AfterFind(c, db), n) = IdsNamed(db, n)
         /\ SharedIds(AfterFind(c, db)) = SharedIds(db)
<1> DEFINE a == AfterFind(c, db)
<1>1. a \in Seq(SubRange) /\ AllIds(a) = AllIds(db) /\ Range(a) = Range(db)
  BY SortedSub DEF AfterFind
<1> HIDE DEF a
<1>2. \A n : IdsNamed(a, n) = IdsNamed(db, n)
  BY <1>1 DEF IdsNamed
<1>3. SharedIds(a) = SharedIds(db)
  BY <1>1 DEF SharedIds, IdsNamed
<1> QED BY <1>1, <1>2, <1>3 DEF a

\* Where the new identifiers of a user begin.
LEMMA NewIdsFact ==
  ASSUME SubIdsAssumption, NEW c, NEW db \in Seq(SubRange), NEW uid \in Nat,
         NEW s \in FindNewSubIds(c, db, uid)
  PROVE  /\ s \in Nat
         /\ ~c.deterministic => s .. s + SubIdCount - 1 \cap AllIds(db) = {}
<1>1. /\ UidMin \in Nat /\ SubIdMin \in Nat /\ SubIdMax \in Nat /\ SubIdCount \in Nat
  BY DEF SubIdsAssumption
<1>2. CASE c.deterministic
  <2> DEFINE space == SubIdMax - SubIdMin + 1
             slots == space \div SubIdCount
             offset == uid - UidMin
             slot == IF offset >= slots THEN offset % slots ELSE offset
  <2>1. s \in FindNewSubIdsDeterministic(uid, c.wrap)
    BY <1>2 DEF FindNewSubIds
  <2>2. uid >= UidMin /\ SubIdMin <= SubIdMax /\ SubIdCount # 0 /\ SubIdCount <= space
        /\ s = SubIdMin + slot * SubIdCount
    BY <1>1, <2>1 DEF FindNewSubIdsDeterministic
  <2>4. offset \in Nat /\ space \in Nat
    BY <1>1, <2>2
  <2>3. slots \in Nat /\ slots >= 1
    <3> HIDE DEF space
    <3> QED BY <1>1, <2>2, <2>4, AtLeastOne
  <2> HIDE DEF slots, offset, space
  <2>5. slot \in Nat
    <3>1. offset % slots \in Nat
      BY <2>3, <2>4
    <3> QED BY <2>4, <3>1
  <2> HIDE DEF slot
  <2>6. slot * SubIdCount \in Nat
    BY <1>1, <2>5
  <2> QED BY <1>1, <1>2, <2>2, <2>6
<1>3. CASE ~c.deterministic
  <2>1. s \in FindFreeRange(db, SubIdMin, SubIdMax, SubIdCount)
    BY <1>3 DEF FindNewSubIds, FindNewSubIdsLinear
  <2> QED BY <1>1, <2>1, FoundIsFree
<1> QED BY <1>2, <1>3

\* What sub_uid_add may leave.
LEMMA SubIdAddFact ==
  ASSUME SubIdsAssumption, NEW c, NEW t, NEW db \in Seq(SubRange), NEW o \in OwnerNames,
         NEW start \in Nat, NEW count \in Nat, NEW d \in SubIdAdd(c, t, db, o, start, count)
  PROVE  \E n \in OwnerNames : d = AddRange(t, db, n, start, count)
<1>1. DOMAIN NumberOf \subseteq OwnerNames
  BY DEF OwnerNames
<1>2. CASE c.storeByUid
  <2>1. PICK n \in DOMAIN NumberOf : d = AddRange(t, db, n, start, count)
    BY <1>2 DEF SubIdAdd
  <2> QED BY <1>1, <2>1
<1>3. CASE ~c.storeByUid
  BY <1>3 DEF SubIdAdd
<1> QED BY <1>2, <1>3

(***************************************************************************)
(* The removals and additions of usermod, one after the other.             *)
(***************************************************************************)
\* What holds first, and is carried on by each step, holds all along.
LEMMA Carried ==
  ASSUME NEW n \in Nat, NEW S, NEW f, f[0] \in S,
         \A i \in 1 .. n : f[i - 1] \in S => f[i] \in S
  PROVE  \A i \in 0 .. n : f[i] \in S
<1> DEFINE bad == {i \in 0 .. n : f[i] \notin S}
<1> SUFFICES ASSUME bad # {} PROVE FALSE
  OBVIOUS
<1>1. bad \in SUBSET Nat
  OBVIOUS
<1>2. PICK k \in bad : \A i \in bad : k <= i
  <2> HIDE DEF bad
  <2> QED BY <1>1, LeastOf
<1>3. k \in 0 .. n /\ f[k] \notin S
  BY <1>2
<1>4. k # 0
  BY <1>3
<1>5. k \in 1 .. n /\ k - 1 \in 0 .. n /\ ~(k <= k - 1)
  BY <1>3, <1>4
<1>6. k - 1 \notin bad
  BY <1>2, <1>5
<1>7. f[k - 1] \in S
  BY <1>5, <1>6
<1> QED BY <1>3, <1>5, <1>7

\* Each step leads from one member of a set to another.
Steps(S, n, step) == \A i \in 1 .. n : \A x \in S : step[i][x] \in S

\* There is a function that begins with a and goes on by steps.
LEMMA Iterated ==
  ASSUME NEW S, NEW a \in S, NEW n \in Nat, NEW step, Steps(S, n, step)
  PROVE  \E f \in [0 .. n -> S] : f[0] = a /\ \A i \in 1 .. n : f[i] = step[i][f[i - 1]]
<1> DEFINE good(k) == \E f \in [0 .. k -> S] :
                        f[0] = a /\ \A i \in 1 .. k : f[i] = step[i][f[i - 1]]
           bad == {k \in 0 .. n : ~good(k)}
<1>0. \A i \in 1 .. n : \A x \in S : step[i][x] \in S
  BY DEF Steps
<1>1. good(0)
  <2> DEFINE f == [i \in 0 .. 0 |-> a]
  <2>1. f \in [0 .. 0 -> S] /\ f[0] = a /\ \A i \in 1 .. 0 : f[i] = step[i][f[i - 1]]
    OBVIOUS
  <2> QED BY <2>1
<1>2. ASSUME NEW k \in 1 .. n, good(k - 1) PROVE good(k)
  <2>1. PICK f \in [0 .. k - 1 -> S] :
          f[0] = a /\ \A i \in 1 .. k - 1 : f[i] = step[i][f[i - 1]]
    BY <1>2
  <2> DEFINE last == step[k][f[k - 1]]
             h == [i \in 0 .. k |-> IF i = k THEN last ELSE f[i]]
  <2>2. f[k - 1] \in S
    BY <2>1
  <2>3. last \in S
    BY <1>0, <2>2
  <2> HIDE DEF last
  <2>4. h \in [0 .. k -> S]
    BY <2>1, <2>3
  <2>5. h[0] = a /\ h[k] = last /\ \A i \in 0 .. k - 1 : h[i] = f[i]
    BY <2>1
  <2> HIDE DEF h
  <2>6. ASSUME NEW i \in 1 .. k PROVE h[i] = step[i][h[i - 1]]
    <3>1. h[i - 1] = f[i - 1]
      BY <2>5
    <3>2. CASE i = k
      BY <2>5, <3>1, <3>2 DEF last
    <3>3. CASE i # k
      <4>1. i \in 1 .. k - 1 /\ i \in 0 .. k - 1
        BY <3>3
      <4> QED BY <2>1, <2>5, <3>1, <4>1
    <3> QED BY <3>2, <3>3
  <2> QED BY <2>4, <2>5, <2>6
<1> HIDE DEF good
<1>3. bad = {}
  <2> SUFFICES ASSUME bad # {} PROVE FALSE
    OBVIOUS
  <2>1. bad \in SUBSET Nat
    OBVIOUS
  <2>2. PICK k \in bad : \A i \in bad : k <= i
    <3> HIDE DEF bad
    <3> QED BY <2>1, LeastOf
  <2>3. k \in 0 .. n /\ ~good(k)
    BY <2>2
  <2>4. k # 0
    BY <1>1, <2>3
  <2>5. k \in 1 .. n /\ k - 1 \in 0 .. n /\ ~(k <= k - 1)
    BY <2>3, <2>4
  <2>6. k - 1 \notin bad
    BY <2>2, <2>5
  <2> QED BY <1>2, <2>3, <2>5, <2>6
<1>4. good(n)
  BY <1>3
<1> QED BY <1>4 DEF good

\* The equations of the copies after each removal, and of the copies that there
\* may be after each addition.
Removals(t, o, db, del, m, f) ==
  [i \in 0 .. m |-> IF i = 0 THEN db ELSE RemoveRange(t, f[i - 1], o, del[i].start, del[i].count)]
Additions(c, t, o, dbs, ranges, m, f) ==
  [i \in 0 .. m |-> IF i = 0 THEN dbs
                    ELSE UNION {SubIdAdd(c, t, d, o, ranges[i].start, ranges[i].count) : d \in f[i - 1]}]

\* After the removals the copy is a file still.
LEMMA RemovedFact ==
  ASSUME NEW t, NEW o, NEW db \in Seq(SubRange), NEW m \in Nat, NEW del,
         \A i \in 1 .. m : del[i].start \in Nat /\ del[i].count \in Nat
  PROVE  /\ \E f : f = Removals(t, o, db, del, m, f)
         /\ \A f : f = Removals(t, o, db, del, m, f) => f[m] \in Seq(SubRange)
<1> DEFINE Db == Seq(SubRange)
           R(d, i) == RemoveRange(t, d, o, del[i].start, del[i].count)
<1>1. \A d \in Db : \A i \in 1 .. m : R(d, i) \in Db
  BY RemoveFact
<1>0. db \in Db
  OBVIOUS
<1>2. \A f : Removals(t, o, db, del, m, f) = [i \in 0 .. m |-> IF i = 0 THEN db ELSE R(f[i - 1], i)]
  BY DEF Removals
<1> HIDE DEF R, Db
<1> DEFINE step == [i \in 1 .. m |-> [d \in Db |-> R(d, i)]]
<1>3. \A i \in 1 .. m : \A d \in Db : step[i][d] = R(d, i)
  OBVIOUS
<1> HIDE DEF step
<1>4. PICK f \in [0 .. m -> Db] : f[0] = db /\ \A i \in 1 .. m : f[i] = step[i][f[i - 1]]
  <2>1. \A i \in 1 .. m : \A d \in Db : step[i][d] \in Db
    BY <1>1, <1>3
  <2>3. Steps(Db, m, step)
    BY <2>1 DEF Steps
  <2>2. \E f \in [0 .. m -> Db] : f[0] = db /\ \A i \in 1 .. m : f[i] = step[i][f[i - 1]]
    BY <1>0, <2>3, Iterated
  <2> QED BY <2>2
<1>5. \A i \in 0 .. m : f[i] = IF i = 0 THEN db ELSE R(f[i - 1], i)
  <2> TAKE i \in 0 .. m
  <2>1. CASE i = 0
    BY <1>4, <2>1
  <2>2. CASE i # 0
    <3>1. i \in 1 .. m /\ i - 1 \in 0 .. m
      BY <2>2
    <3>2. f[i - 1] \in Db
      BY <3>1
    <3> QED BY <1>3, <1>4, <2>2, <3>1, <3>2
  <2> QED BY <2>1, <2>2
<1>6. f = [i \in 0 .. m |-> IF i = 0 THEN db ELSE R(f[i - 1], i)]
  BY <1>5
<1>7. ASSUME NEW h, h = Removals(t, o, db, del, m, h) PROVE h[m] \in Db
  <2>1. h = [i \in 0 .. m |-> IF i = 0 THEN db ELSE R(h[i - 1], i)]
    BY <1>2, <1>7
  <2>2. \A i \in 0 .. m : h[i] = IF i = 0 THEN db ELSE R(h[i - 1], i)
    BY <2>1
  <2>3. h[0] \in Db
    <3>1. 0 \in 0 .. m
      OBVIOUS
    <3> QED BY <1>0, <2>2, <3>1
  <2>4. \A i \in 1 .. m : h[i - 1] \in Db => h[i] \in Db
    <3> TAKE i \in 1 .. m
    <3>1. i \in 0 .. m /\ i # 0
      OBVIOUS
    <3>2. h[i] = R(h[i - 1], i)
      BY <2>2, <3>1
    <3> QED BY <1>1, <3>2
  <2>5. \A i \in 0 .. m : h[i] \in Db
    BY <2>3, <2>4, Carried
  <2> QED BY <2>5
<1>8. \E h : h = Removals(t, o, db, del, m, h)
  <2>1. Removals(t, o, db, del, m, f) = f
    BY <1>2, <1>6
  <2> QED BY <2>1
<1>9. \A h : h = Removals(t, o, db, del, m, h) => h[m] \in Seq(SubRange)
  BY <1>7 DEF Db
<1> QED BY <1>8, <1>9

\* And after the additions each copy that there may be.
LEMMA AddedFact ==
  ASSUME SubIdsAssumption, NEW c, NEW t, NEW o \in OwnerNames, NEW dbs \in SUBSET Seq(SubRange), NEW m \in Nat, NEW ranges,
         \A i \in 1 .. m : ranges[i].start \in Nat /\ ranges[i].count \in Nat
  PROVE  /\ \E f : f = Additions(c, t, o, dbs, ranges, m, f)
         /\ \A f : f = Additions(c, t, o, dbs, ranges, m, f) => f[m] \in SUBSET Seq(SubRange)
<1> DEFINE Db == SUBSET Seq(SubRange)
           R(D, i) == UNION {SubIdAdd(c, t, d, o, ranges[i].start, ranges[i].count) : d \in D}
<1>1. \A d \in Db : \A i \in 1 .. m : R(d, i) \in Db
  <2> SUFFICES ASSUME NEW D \in Db, NEW i \in 1 .. m, NEW d \in D,
                      NEW e \in SubIdAdd(c, t, d, o, ranges[i].start, ranges[i].count)
               PROVE  e \in Seq(SubRange)
    OBVIOUS
  <2> DEFINE s == ranges[i].start
             k == ranges[i].count
  <2>1. s \in Nat /\ k \in Nat /\ d \in Seq(SubRange) /\ e \in SubIdAdd(c, t, d, o, s, k)
    OBVIOUS
  <2> HIDE DEF s, k
  <2>2. \E n \in OwnerNames : e = AddRange(t, d, n, s, k)
    BY <2>1, SubIdAddFact
  <2>3. PICK n \in OwnerNames : e = AddRange(t, d, n, s, k)
    BY <2>2
  <2> QED BY <2>1, <2>3, AddFact
<1>0. dbs \in Db
  OBVIOUS
<1>2. \A f : Additions(c, t, o, dbs, ranges, m, f) = [i \in 0 .. m |-> IF i = 0 THEN dbs ELSE R(f[i - 1], i)]
  BY DEF Additions
<1> HIDE DEF R, Db
<1> DEFINE step == [i \in 1 .. m |-> [d \in Db |-> R(d, i)]]
<1>3. \A i \in 1 .. m : \A d \in Db : step[i][d] = R(d, i)
  OBVIOUS
<1> HIDE DEF step
<1>4. PICK f \in [0 .. m -> Db] : f[0] = dbs /\ \A i \in 1 .. m : f[i] = step[i][f[i - 1]]
  <2>1. \A i \in 1 .. m : \A d \in Db : step[i][d] \in Db
    BY <1>1, <1>3
  <2>3. Steps(Db, m, step)
    BY <2>1 DEF Steps
  <2>2. \E f \in [0 .. m -> Db] : f[0] = dbs /\ \A i \in 1 .. m : f[i] = step[i][f[i - 1]]
    BY <1>0, <2>3, Iterated
  <2> QED BY <2>2
<1>5. \A i \in 0 .. m : f[i] = IF i = 0 THEN dbs ELSE R(f[i - 1], i)
  <2> TAKE i \in 0 .. m
  <2>1. CASE i = 0
    BY <1>4, <2>1
  <2>2. CASE i # 0
    <3>1. i \in 1 .. m /\ i - 1 \in 0 .. m
      BY <2>2
    <3>2. f[i - 1] \in Db
      BY <3>1
    <3> QED BY <1>3, <1>4, <2>2, <3>1, <3>2
  <2> QED BY <2>1, <2>2
<1>6. f = [i \in 0 .. m |-> IF i = 0 THEN dbs ELSE R(f[i - 1], i)]
  BY <1>5
<1>7. ASSUME NEW h, h = Additions(c, t, o, dbs, ranges, m, h) PROVE h[m] \in Db
  <2>1. h = [i \in 0 .. m |-> IF i = 0 THEN dbs ELSE R(h[i - 1], i)]
    BY <1>2, <1>7
  <2>2. \A i \in 0 .. m : h[i] = IF i = 0 THEN dbs ELSE R(h[i - 1], i)
    BY <2>1
  <2>3. h[0] \in Db
    <3>1. 0 \in 0 .. m
      OBVIOUS
    <3> QED BY <1>0, <2>2, <3>1
  <2>4. \A i \in 1 .. m : h[i - 1] \in Db => h[i] \in Db
    <3> TAKE i \in 1 .. m
    <3>1. i \in 0 .. m /\ i # 0
      OBVIOUS
    <3>2. h[i] = R(h[i - 1], i)
      BY <2>2, <3>1
    <3> QED BY <1>1, <3>2
  <2>5. \A i \in 0 .. m : h[i] \in Db
    BY <2>3, <2>4, Carried
  <2> QED BY <2>5
<1>8. \E h : h = Additions(c, t, o, dbs, ranges, m, h)
  <2>1. Additions(c, t, o, dbs, ranges, m, f) = f
    BY <1>2, <1>6
  <2> QED BY <2>1
<1>9. \A h : h = Additions(c, t, o, dbs, ranges, m, h) => h[m] \in SUBSET Seq(SubRange)
  BY <1>7 DEF Db
<1> QED BY <1>8, <1>9

\* What usermod may leave of the file is a file again.
LEMMA UsermodSubFact ==
  ASSUME SubIdsAssumption, NEW job \in Jobs, job.name \in OwnerNames,
         NEW db \in Seq(SubRange), NEW found \in Seq(Stretch)
  PROVE  UsermodSub(job, db, found) \subseteq Seq(SubRange)
<1> DEFINE searched == IF "S" \in job.flags THEN AfterFind(config, db) ELSE db
           del == job.del
           ranges == found \o job.add
           m == Len(del)
           n == Len(ranges)
           removed == CHOOSE f : f = Removals(passwd, job.name, searched, del, m, f)
           first == {removed[m]}
           added == CHOOSE f : f = Additions(config, passwd, job.name, first, ranges, n, f)
<1>1. UsermodSub(job, db, found) = added[n]
  BY DEF UsermodSub, Removals, Additions
<1>2. job.add \in Seq(Stretch) /\ del \in Seq(Stretch)
  BY DEF SubIdsAssumption
<1>3. ranges \in Seq(Stretch)
  BY <1>2, ConcatProperties
<1>4. searched \in Seq(SubRange)
  BY AfterFindFact
<1> DEFINE name == job.name
<1>0. name \in OwnerNames
  OBVIOUS
<1> HIDE DEF name, searched, del, ranges
<1>5. m \in Nat /\ \A i \in 1 .. m : del[i].start \in Nat /\ del[i].count \in Nat
  <2>1. m \in Nat /\ \A i \in 1 .. m : del[i] \in Stretch
    BY <1>2, LenProperties
  <2> QED BY <2>1 DEF Stretch
<1>6. n \in Nat /\ \A i \in 1 .. n : ranges[i].start \in Nat /\ ranges[i].count \in Nat
  <2>1. n \in Nat /\ \A i \in 1 .. n : ranges[i] \in Stretch
    BY <1>3, LenProperties
  <2> QED BY <2>1 DEF Stretch
<1> HIDE DEF m, n
<1>10. removed[m] \in Seq(SubRange)
  <2>1. /\ \E f : f = Removals(passwd, name, searched, del, m, f)
        /\ \A f : f = Removals(passwd, name, searched, del, m, f) => f[m] \in Seq(SubRange)
    BY <1>4, <1>5, RemovedFact
  <2>2. removed = Removals(passwd, name, searched, del, m, removed)
    BY <2>1 DEF name
  <2> HIDE DEF removed
  <2> QED BY <2>1, <2>2
<1> HIDE DEF removed
<1>11. first \in SUBSET Seq(SubRange)
  BY <1>10
<1> HIDE DEF first
<1>12. added[n] \in SUBSET Seq(SubRange)
  <2>1. /\ \E f : f = Additions(config, passwd, name, first, ranges, n, f)
        /\ \A f : f = Additions(config, passwd, name, first, ranges, n, f) => f[n] \in SUBSET Seq(SubRange)
    BY <1>0, <1>6, <1>11, AddedFact
  <2>2. added = Additions(config, passwd, name, first, ranges, n, added)
    BY <2>1 DEF name
  <2> HIDE DEF added
  <2> QED BY <2>1, <2>2
<1> QED BY <1>1, <1>12

(***************************************************************************)
(* The inductive invariant.                                                *)
(***************************************************************************)
Maps == {"newuidmap", "newgidmap"}

\* What each tool does, and what it needs to have open for it.
DosOf(tool) ==
  IF tool \in Maps THEN {"check", "read", "verify", "setgroups", "map"}
  ELSE IF tool \in {"grant", "ungrant"} THEN {"lock", "open", "edit", "close", "unlock"}
  ELSE {"check", "test", "lock", "open", "edit", "close", "unlock"}

Needs(tool) ==
  IF tool \in {"useradd", "newusers", "userdel", "usermod"} THEN {"passwd"} ELSE {"sub"}

\* The calls that open a file, and those that use what is open.
Opens == {"open", "read"}
Uses  == {"edit", "verify", "setgroups", "map"}
Calls == [do : {"test", "lock", "open", "read", "close", "unlock"}, file : Files]
           \cup [do : {"check"} \cup Uses, file : {None}]

\* The files are open when they are used, and they are edited once, before any
\* of them is closed.
Ready(s, mem, needs) ==
  \A i \in DOMAIN s : s[i].do \in Uses =>
    /\ \A j \in DOMAIN s : j < i => s[j].do \notin {"close", "unlock", "edit"}
    /\ \A f \in needs : \/ mem[f] # Closed
                        \/ \E j \in DOMAIN s : j < i /\ s[j].do \in Opens /\ s[j].file = f

Mems  == [passwd : Tables \cup {Closed}, sub : Seq(SubRange) \cup {Closed}]
Works == [job : Jobs \cup {None}, script : Seq(Calls), kept : BOOLEAN, uid : Nat,
          allow : BOOLEAN, mem : Mems]

FilesOK ==
  /\ passwd \in Tables
  /\ sub \in Seq(SubRange) \cup {Absent}
  /\ owner \in [Files -> Procs \cup {None}]
  /\ work \in [Procs -> Works]

\* A process that has a job does what the job is, and has what it needs.
ScriptOK(w) ==
  /\ w.script = <<>> /\ ~w.kept => w = Idle
  /\ w.kept => w.script = <<>> /\ w.job \in Jobs /\ w.job.tool \notin Maps /\ w.mem.sub # Closed
  /\ w.script # <<>> => /\ w.job \in Jobs
                        /\ \A i \in DOMAIN w.script : w.script[i].do \in DosOf(w.job.tool)
                        /\ Ready(w.script, w.mem, Needs(w.job.tool))

IsMap(w) == w.job \in Jobs /\ w.job.tool \in Maps

\* What is open for writing is locked, and it is what the file holds as long as
\* it is to be edited.
LockedOK(p) ==
  ~IsMap(work[p]) => \A f \in Files : work[p].mem[f] # Closed => owner[f] = p
FreshOK(p) ==
  ~IsMap(work[p]) /\ (\E i \in DOMAIN work[p].script : work[p].script[i].do = "edit") =>
    \A f \in Files : work[p].mem[f] # Closed => work[p].mem[f] = Content(f)

SubIdsInv ==
  /\ FilesOK
  /\ \A p \in Procs : ScriptOK(work[p]) /\ LockedOK(p) /\ FreshOK(p)

\* What two names share was shared before, or somebody asked for it.
SharedOK ==
  ~config.deterministic =>
    /\ sub # Absent => SharedIds(sub) \subseteq manual
    /\ \A p \in Procs : work[p].mem.sub # Closed => SharedIds(work[p].mem.sub) \subseteq manual

(***************************************************************************)
(* The scripts.                                                            *)
(***************************************************************************)
\* A script that makes these calls only.
Does(s, dos) == s \in Seq(Calls) /\ \A i \in DOMAIN s : s[i].do \in dos

\* What the calls of a script do, by position and as a set.
LEMMA DoesRange ==
  ASSUME NEW s \in Seq(Calls), NEW dos, \A c \in Range(s) : c.do \in dos
  PROVE  Does(s, dos)
BY DEF Does, Range

\* One script and then another.
LEMMA Joined ==
  ASSUME NEW S, NEW a \in Seq(S), NEW b \in Seq(S)
  PROVE  /\ a \o b \in Seq(S)
         /\ DOMAIN a = 1 .. Len(a) /\ DOMAIN b = 1 .. Len(b) /\ DOMAIN (a \o b) = 1 .. Len(a) + Len(b)
         /\ Len(a) \in Nat /\ Len(b) \in Nat
         /\ \A i \in 1 .. Len(a) : (a \o b)[i] = a[i]
         /\ \A i \in 1 .. Len(b) : (a \o b)[Len(a) + i] = b[i]
         /\ \A i \in 1 .. Len(a) + Len(b) : i \in 1 .. Len(a) \/ i - Len(a) \in 1 .. Len(b)
<1>1. /\ a \o b \in Seq(S) /\ Len(a \o b) = Len(a) + Len(b)
      /\ \A i \in 1 .. Len(a) + Len(b) : (a \o b)[i] = IF i <= Len(a) THEN a[i] ELSE b[i - Len(a)]
  BY ConcatProperties
<1>2. /\ Len(a) \in Nat /\ Len(b) \in Nat /\ DOMAIN a = 1 .. Len(a) /\ DOMAIN b = 1 .. Len(b)
  BY LenProperties
<1>3. DOMAIN (a \o b) = 1 .. Len(a) + Len(b)
  BY <1>1, LenProperties
<1> DEFINE s == a \o b
<1> HIDE DEF s
<1>4. \A i \in 1 .. Len(a) + Len(b) : s[i] = IF i <= Len(a) THEN a[i] ELSE b[i - Len(a)]
  BY <1>1 DEF s
<1>5. \A i \in 1 .. Len(a) : s[i] = a[i]
  BY <1>2, <1>4
<1>6. \A i \in 1 .. Len(b) : s[Len(a) + i] = b[i]
  <2> TAKE i \in 1 .. Len(b)
  <2>1. Len(a) + i \in 1 .. Len(a) + Len(b) /\ ~(Len(a) + i <= Len(a)) /\ (Len(a) + i) - Len(a) = i
    BY <1>2
  <2> QED BY <1>4, <2>1
<1>7. \A i \in 1 .. Len(a) + Len(b) : i \in 1 .. Len(a) \/ i - Len(a) \in 1 .. Len(b)
  BY <1>2
<1> QED BY <1>1, <1>2, <1>3, <1>5, <1>6, <1>7 DEF s

\* What one script does and another does, both do one after the other.
LEMMA DoesBoth ==
  ASSUME NEW dos, NEW a, NEW b, Does(a, dos), Does(b, dos)
  PROVE  /\ Does(a \o b, dos)
         /\ \A c : c \in Range(a) \/ c \in Range(b) => c \in Range(a \o b)
<1> DEFINE s == a \o b
<1>1. a \in Seq(Calls) /\ b \in Seq(Calls)
      /\ (\A i \in DOMAIN a : a[i].do \in dos) /\ (\A i \in DOMAIN b : b[i].do \in dos)
  BY DEF Does
<1>2. /\ s \in Seq(Calls)
      /\ DOMAIN a = 1 .. Len(a) /\ DOMAIN b = 1 .. Len(b) /\ DOMAIN s = 1 .. Len(a) + Len(b)
      /\ Len(a) \in Nat /\ Len(b) \in Nat
      /\ \A i \in 1 .. Len(a) : s[i] = a[i]
      /\ \A i \in 1 .. Len(b) : s[Len(a) + i] = b[i]
      /\ \A i \in 1 .. Len(a) + Len(b) : i \in 1 .. Len(a) \/ i - Len(a) \in 1 .. Len(b)
  BY <1>1, Joined
<1> HIDE DEF s
<1>3. \A i \in DOMAIN s : s[i].do \in dos
  <2> TAKE i \in DOMAIN s
  <2>1. CASE i \in 1 .. Len(a)
    BY <1>1, <1>2, <2>1
  <2>2. CASE i - Len(a) \in 1 .. Len(b)
    <3>1. i = Len(a) + (i - Len(a))
      BY <1>2, <2>2
    <3>2. s[i] = b[i - Len(a)]
      BY <1>2, <2>2, <3>1
    <3> QED BY <1>1, <1>2, <2>2, <3>2
  <2> QED BY <1>2, <2>1, <2>2
<1>4. \A c \in Range(a) : c \in Range(s)
  <2>1. \A i \in 1 .. Len(a) : i \in DOMAIN s /\ a[i] = s[i]
    BY <1>2
  <2> QED BY <1>2, <2>1 DEF Range
<1>5. \A c \in Range(b) : c \in Range(s)
  <2>1. \A i \in 1 .. Len(b) : Len(a) + i \in DOMAIN s /\ b[i] = s[Len(a) + i]
    BY <1>2
  <2> QED BY <1>2, <2>1 DEF Range
<1>6. Does(s, dos)
  BY <1>2, <1>3 DEF Does
<1> QED BY <1>4, <1>5, <1>6 DEF s

\* A script does no more than a larger set allows.
LEMMA DoesMore ==
  ASSUME NEW s, NEW dos, NEW more, Does(s, dos), dos \subseteq more
  PROVE  Does(s, more)
BY DEF Does

Locking == {"lock", "open"}
Going == {"check", "test", "lock", "open"}
Leaving == {"close", "unlock"}

\* The calls on lists of files.
LEMMA CallsOn ==
  ASSUME NEW list \in Seq(Files)
  PROVE  /\ Does(LockAndOpen(list), Locking) /\ Does(LockAndOpen(list), Going)
         /\ \A f \in Range(list) : Call("open", f) \in Range(LockAndOpen(list))
         /\ Does(CloseAndUnlock(list), Leaving)
         /\ \A do \in Locking : Does(Each(do, list), Going)
         /\ \A f \in Range(list) : Call("open", f) \in Range(Each("open", list))
         /\ \A do \in Leaving : Does(Each(do, list), Leaving)
<1>1. \A f \in Files : \A do \in Locking \cup Leaving : Call(do, f) \in Calls
  BY DEF Call, Calls, Locking, Leaving
<1>2. \A do, f : Call(do, f).do = do
  BY DEF Call
<1>3. Does(LockAndOpen(list), Locking) /\ \A f \in Range(list) : Call("open", f) \in Range(LockAndOpen(list))
  <2> DEFINE one == "lock"
             other == "open"
             s == EachTwo(one, other, list)
  <2>1. \A f \in Files : Call(one, f) \in Calls /\ Call(other, f) \in Calls
    BY <1>1 DEF Locking
  <2>2. s = LockAndOpen(list) /\ one \in Locking /\ other \in Locking /\ other = "open"
    BY DEF LockAndOpen, Locking
  <2> HIDE DEF one, other
  <2>3. /\ s \in Seq(Calls)
        /\ \A c : c \in Range(s) <=> \E f \in Range(list) : c = Call(one, f) \/ c = Call(other, f)
    BY <2>1, EachTwoCalls
  <2> HIDE DEF s
  <2>4. \A c \in Range(s) : c.do \in Locking
    BY <1>2, <2>2, <2>3
  <2> QED BY <2>2, <2>3, <2>4, DoesRange
<1>4. Does(CloseAndUnlock(list), Leaving)
  <2> DEFINE one == "close"
             other == "unlock"
             s == EachTwo(one, other, list)
  <2>1. \A f \in Files : Call(one, f) \in Calls /\ Call(other, f) \in Calls
    BY <1>1 DEF Leaving
  <2>2. s = CloseAndUnlock(list) /\ one \in Leaving /\ other \in Leaving
    BY DEF CloseAndUnlock, Leaving
  <2> HIDE DEF one, other
  <2>3. /\ s \in Seq(Calls)
        /\ \A c : c \in Range(s) <=> \E f \in Range(list) : c = Call(one, f) \/ c = Call(other, f)
    BY <2>1, EachTwoCalls
  <2> HIDE DEF s
  <2>4. \A c \in Range(s) : c.do \in Leaving
    BY <1>2, <2>2, <2>3
  <2> QED BY <2>2, <2>3, <2>4, DoesRange
<1>5. ASSUME NEW do \in Locking \cup Leaving
      PROVE  Each(do, list) \in Seq(Calls) /\ Range(Each(do, list)) = {Call(do, f) : f \in Range(list)}
  BY <1>1, EachCalls
<1>6. \A do \in Locking : Does(Each(do, list), Going)
  <2> TAKE do \in Locking
  <2>1. Each(do, list) \in Seq(Calls) /\ Range(Each(do, list)) = {Call(do, f) : f \in Range(list)}
    BY <1>5
  <2>2. \A c \in Range(Each(do, list)) : c.do \in Going
    BY <1>2, <2>1 DEF Locking, Going
  <2> QED BY <2>1, <2>2, DoesRange
<1>7. \A do \in Leaving : Does(Each(do, list), Leaving)
  <2> TAKE do \in Leaving
  <2>1. Each(do, list) \in Seq(Calls) /\ Range(Each(do, list)) = {Call(do, f) : f \in Range(list)}
    BY <1>5
  <2>2. \A c \in Range(Each(do, list)) : c.do \in Leaving
    BY <1>2, <2>1
  <2> QED BY <2>1, <2>2, DoesRange
<1>8. \A f \in Range(list) : Call("open", f) \in Range(Each("open", list))
  <2> DEFINE do == "open"
  <2>1. do \in Locking \cup Leaving
    BY DEF Locking
  <2> HIDE DEF do
  <2>2. Range(Each(do, list)) = {Call(do, f) : f \in Range(list)}
    BY <1>5, <2>1
  <2> QED BY <2>2 DEF do
<1>9. Does(LockAndOpen(list), Going)
  BY <1>3, DoesMore DEF Locking, Going
<1> QED BY <1>3, <1>4, <1>6, <1>7, <1>8, <1>9

\* A script that uses nothing needs nothing.
LEMMA ReadyLeaving ==
  ASSUME NEW s, NEW mem, NEW needs, \A i \in DOMAIN s : s[i].do \notin Uses
  PROVE  Ready(s, mem, needs)
BY DEF Ready

\* A script that opens what it needs, edits, and leaves.
LEMMA ReadyEdit ==
  ASSUME NEW front, Does(front, Going), NEW needs, \A f \in needs : Call("open", f) \in Range(front),
         NEW mem
  PROVE  /\ Does(front \o Edit, Going \cup {"edit"})
         /\ Ready(front \o Edit, mem, needs)
<1> DEFINE s == front \o Edit
<1>1. front \in Seq(Calls) /\ \A i \in DOMAIN front : front[i].do \in Going
  BY DEF Does
<1>2. /\ Edit \in Seq(Calls) /\ Len(Edit) = 1 /\ Edit[1].do = "edit" /\ DOMAIN Edit = 1 .. 1
      /\ Edit[1].file = None
  <2>1. Call("edit", None) \in Calls
    BY DEF Call, Calls, Uses
  <2>2. <<Call("edit", None)>> \in Seq(Calls)
    BY <2>1, Single
  <2> QED BY <2>2 DEF Edit, Call
<1>3. /\ s \in Seq(Calls)
      /\ DOMAIN front = 1 .. Len(front) /\ DOMAIN s = 1 .. Len(front) + Len(Edit)
      /\ Len(front) \in Nat
      /\ \A i \in 1 .. Len(front) : s[i] = front[i]
      /\ \A i \in 1 .. Len(Edit) : s[Len(front) + i] = Edit[i]
  <2>1. Edit \in Seq(Calls)
    BY <1>2
  <2> DEFINE e == Edit
  <2> HIDE DEF e
  <2>2. e \in Seq(Calls)
    BY <2>1 DEF e
  <2>3. /\ front \o e \in Seq(Calls)
        /\ DOMAIN front = 1 .. Len(front) /\ DOMAIN (front \o e) = 1 .. Len(front) + Len(e)
        /\ Len(front) \in Nat
        /\ \A i \in 1 .. Len(front) : (front \o e)[i] = front[i]
        /\ \A i \in 1 .. Len(e) : (front \o e)[Len(front) + i] = e[i]
    BY <1>1, <2>2, Joined
  <2> QED BY <2>3 DEF e
<1>4. DOMAIN s = 1 .. Len(front) + 1 /\ s[Len(front) + 1].do = "edit"
  BY <1>2, <1>3
<1> HIDE DEF s
<1>5. \A i \in 1 .. Len(front) : s[i].do \in Going
  BY <1>1, <1>3
<1>6. \A i \in DOMAIN s : s[i].do \in Going \/ i = Len(front) + 1
  BY <1>3, <1>4, <1>5
<1>7. Does(s, Going \cup {"edit"})
  BY <1>3, <1>4, <1>6 DEF Does
<1>8. ASSUME NEW i \in DOMAIN s, s[i].do \in Uses
      PROVE  /\ \A j \in DOMAIN s : j < i => s[j].do \notin {"close", "unlock", "edit"}
             /\ \A f \in needs : \E j \in DOMAIN s : j < i /\ s[j].do \in Opens /\ s[j].file = f
  <2>1. i = Len(front) + 1
    BY <1>6, <1>8 DEF Going, Uses
  <2>2. \A j \in DOMAIN s : j < i => s[j].do \notin {"close", "unlock", "edit"}
    BY <1>3, <1>4, <1>5, <2>1 DEF Going
  <2>3. ASSUME NEW f \in needs
        PROVE  \E j \in DOMAIN s : j < i /\ s[j].do \in Opens /\ s[j].file = f
    <3>1. PICK j \in 1 .. Len(front) : front[j] = Call("open", f)
      BY <1>3 DEF Range
    <3>2. s[j].do \in Opens /\ s[j].file = f
      BY <1>3, <3>1 DEF Call, Opens
    <3> QED BY <1>3, <1>4, <2>1, <3>2
  <2> QED BY <2>2, <2>3
<1>9. Ready(s, mem, needs)
  BY <1>8 DEF Ready
<1> QED BY <1>7, <1>9 DEF s

\* What it does to leave changes nothing.
LEMMA ReadyThen ==
  ASSUME NEW dos, NEW s, Does(s, dos), NEW back, Does(back, Leaving), Leaving \subseteq dos,
         NEW mem, NEW needs, Ready(s, mem, needs)
  PROVE  Does(s \o back, dos) /\ Ready(s \o back, mem, needs)
<1> DEFINE t == s \o back
<1>0. s \in Seq(Calls) /\ back \in Seq(Calls) /\ \A i \in DOMAIN back : back[i].do \in Leaving
  BY DEF Does
<1>1. /\ DOMAIN s = 1 .. Len(s) /\ DOMAIN back = 1 .. Len(back) /\ DOMAIN t = 1 .. Len(s) + Len(back)
      /\ Len(s) \in Nat /\ Len(back) \in Nat
      /\ \A i \in 1 .. Len(s) : t[i] = s[i]
      /\ \A i \in 1 .. Len(back) : t[Len(s) + i] = back[i]
      /\ \A i \in 1 .. Len(s) + Len(back) : i \in 1 .. Len(s) \/ i - Len(s) \in 1 .. Len(back)
  BY <1>0, Joined
<1>2. Does(t, dos)
  <2>1. Does(back, dos)
    BY DoesMore
  <2> QED BY <2>1, DoesBoth
<1> HIDE DEF t
<1>3. ASSUME NEW i \in DOMAIN t, t[i].do \in Uses PROVE i \in DOMAIN s
  <2> SUFFICES ASSUME i - Len(s) \in 1 .. Len(back) PROVE FALSE
    BY <1>1
  <2>1. i = Len(s) + (i - Len(s))
    BY <1>1
  <2>2. t[i] = back[i - Len(s)]
    BY <1>1, <2>1
  <2>3. t[i].do \in Leaving
    BY <1>0, <1>1, <2>2
  <2> QED BY <1>3, <2>3 DEF Leaving, Uses
<1>4. ASSUME NEW i \in DOMAIN t, t[i].do \in Uses
      PROVE  /\ \A j \in DOMAIN t : j < i => t[j].do \notin {"close", "unlock", "edit"}
             /\ \A f \in needs : \/ mem[f] # Closed
                                 \/ \E j \in DOMAIN t : j < i /\ t[j].do \in Opens /\ t[j].file = f
  <2>1. i \in DOMAIN s /\ s[i].do \in Uses
    BY <1>1, <1>3, <1>4
  <2>2. \A j \in DOMAIN t : j < i => j \in DOMAIN s
    BY <1>1, <2>1
  <2>3. \A j \in DOMAIN s : j \in DOMAIN t /\ t[j] = s[j]
    BY <1>1
  <2>4. /\ \A j \in DOMAIN s : j < i => s[j].do \notin {"close", "unlock", "edit"}
        /\ \A f \in needs : \/ mem[f] # Closed
                            \/ \E j \in DOMAIN s : j < i /\ s[j].do \in Opens /\ s[j].file = f
    BY <2>1 DEF Ready
  <2>5. ASSUME NEW f \in needs, mem[f] = Closed
        PROVE  \E j \in DOMAIN t : j < i /\ t[j].do \in Opens /\ t[j].file = f
    <3>1. PICK j \in DOMAIN s : j < i /\ s[j].do \in Opens /\ s[j].file = f
      BY <2>4, <2>5
    <3> QED BY <2>3, <3>1
  <2>6. \A j \in DOMAIN t : j < i => t[j].do \notin {"close", "unlock", "edit"}
    BY <2>2, <2>3, <2>4
  <2> QED BY <2>5, <2>6
<1>5. Ready(t, mem, needs)
  BY <1>4 DEF Ready
<1> QED BY <1>2, <1>5 DEF t

\* The rest of a script, when the head has been done.
LEMMA ReadyTail ==
  ASSUME NEW s \in Seq(Calls), s # <<>>, NEW mem, NEW needs, Ready(s, mem, needs),
         NEW new, \A f \in Files : mem[f] # Closed => new[f] # Closed \/ Head(s).do \in {"close", "unlock", "edit"},
         Head(s).do \in Opens => new[Head(s).file] # Closed, needs \subseteq Files
  PROVE  Ready(Tail(s), new, needs)
<1> DEFINE t == Tail(s)
<1>1. /\ t \in Seq(Calls) /\ Len(s) \in Nat /\ Len(s) # 0 /\ DOMAIN s = 1 .. Len(s)
      /\ DOMAIN t = 1 .. Len(s) - 1 /\ \A i \in 1 .. Len(s) - 1 : t[i] = s[i + 1]
      /\ Head(s) = s[1]
  <2>1. t \in Seq(Calls) /\ Len(t) = Len(s) - 1 /\ \A i \in 1 .. Len(t) : t[i] = s[i + 1]
    BY HeadTailProperties
  <2>2. Len(s) \in Nat /\ Len(s) # 0 /\ DOMAIN s = 1 .. Len(s) /\ DOMAIN t = 1 .. Len(t)
    BY <2>1, LenProperties, EmptySeq
  <2> QED BY <2>1, <2>2, HeadTailProperties
<1> HIDE DEF t
<1>2. ASSUME NEW i \in DOMAIN t, t[i].do \in Uses
      PROVE  /\ \A j \in DOMAIN t : j < i => t[j].do \notin {"close", "unlock", "edit"}
             /\ \A f \in needs : \/ new[f] # Closed
                                 \/ \E j \in DOMAIN t : j < i /\ t[j].do \in Opens /\ t[j].file = f
  <2>1. i + 1 \in DOMAIN s /\ s[i + 1].do \in Uses /\ i \in Nat /\ i > 0
    BY <1>1, <1>2
  <2>2. /\ \A j \in DOMAIN s : j < i + 1 => s[j].do \notin {"close", "unlock", "edit"}
        /\ \A f \in needs : \/ mem[f] # Closed
                            \/ \E j \in DOMAIN s : j < i + 1 /\ s[j].do \in Opens /\ s[j].file = f
    BY <2>1 DEF Ready
  <2>3. \A j \in DOMAIN t : j < i => t[j].do \notin {"close", "unlock", "edit"}
    <3> SUFFICES ASSUME NEW j \in DOMAIN t, j < i PROVE t[j].do \notin {"close", "unlock", "edit"}
      OBVIOUS
    <3>1. j + 1 \in DOMAIN s /\ j + 1 < i + 1 /\ t[j] = s[j + 1]
      BY <1>1, <2>1
    <3> QED BY <2>2, <3>1
  <2>4. Head(s).do \notin {"close", "unlock", "edit"}
    <3>1. 1 \in DOMAIN s /\ 1 < i + 1
      BY <1>1, <2>1
    <3> QED BY <1>1, <2>2, <3>1
  <2>5. ASSUME NEW f \in needs, new[f] = Closed
        PROVE  \E j \in DOMAIN t : j < i /\ t[j].do \in Opens /\ t[j].file = f
    <3>1. mem[f] = Closed
      BY <2>4, <2>5
    <3>2. PICK j \in DOMAIN s : j < i + 1 /\ s[j].do \in Opens /\ s[j].file = f
      BY <2>2, <3>1
    <3>3. j # 1
      BY <1>1, <2>5, <3>2
    <3>4. j - 1 \in DOMAIN t /\ j - 1 < i /\ t[j - 1] = s[j]
      <4>1. j \in Nat /\ j >= 2 /\ j <= Len(s)
        BY <1>1, <3>2, <3>3
      <4>2. j - 1 \in 1 .. Len(s) - 1 /\ (j - 1) + 1 = j /\ j - 1 < i
        BY <1>1, <2>1, <3>2, <4>1
      <4> QED BY <1>1, <4>2
    <3> QED BY <3>2, <3>4
  <2> QED BY <2>3, <2>5
<1>3. Ready(t, new, needs)
  BY <1>2 DEF Ready
<1> QED BY <1>3 DEF t

\* Without the calls on a file that is not needed.
LEMMA ReadyWithout ==
  ASSUME NEW s \in Seq(Calls), NEW f, NEW mem, NEW needs, f \notin needs, Ready(s, mem, needs)
  PROVE  Ready(Without(s, f), mem, needs)
<1> DEFINE at == {i \in 1 .. Len(s) : s[i].file # f}
           t  == Without(s, f)
<1>0. PICK rank : Ranks(rank, s, at, t)
  BY WithoutCalls
<1>2. t \in Seq(Calls)
  BY WithoutCalls
<1>9. at \subseteq 1 .. Len(s) /\ \A i \in 1 .. Len(s) : s[i].file # f => i \in at
  OBVIOUS
<1> HIDE DEF t, at
<1>1. /\ rank \in [at -> 1 .. Len(t)]
      /\ \A i, j \in at : i < j => rank[i] < rank[j]
      /\ \A k \in 1 .. Len(t) : \E i \in at : rank[i] = k
      /\ \A i \in at : t[rank[i]] = s[i]
  BY <1>0, <1>2, RankFacts
<1>3. Len(s) \in Nat /\ Len(t) \in Nat /\ DOMAIN s = 1 .. Len(s) /\ DOMAIN t = 1 .. Len(t)
  BY <1>2, LenProperties
<1>4. ASSUME NEW k \in DOMAIN t, t[k].do \in Uses
      PROVE  /\ \A l \in DOMAIN t : l < k => t[l].do \notin {"close", "unlock", "edit"}
             /\ \A g \in needs : \/ mem[g] # Closed
                                 \/ \E l \in DOMAIN t : l < k /\ t[l].do \in Opens /\ t[l].file = g
  <2>1. PICK i \in at : rank[i] = k /\ t[k] = s[i]
    BY <1>1, <1>3
  <2>2. i \in DOMAIN s /\ s[i].do \in Uses
    BY <1>3, <1>4, <1>9, <2>1
  <2>3. /\ \A j \in DOMAIN s : j < i => s[j].do \notin {"close", "unlock", "edit"}
        /\ \A g \in needs : \/ mem[g] # Closed
                            \/ \E j \in DOMAIN s : j < i /\ s[j].do \in Opens /\ s[j].file = g
    BY <2>2 DEF Ready
  <2>4. ASSUME NEW l \in DOMAIN t, l < k PROVE t[l].do \notin {"close", "unlock", "edit"}
    <3>1. PICK j \in at : rank[j] = l /\ t[l] = s[j]
      BY <1>1, <1>3
    <3>2. j \in 1 .. Len(s) /\ i \in 1 .. Len(s) /\ l \in 1 .. Len(t) /\ k \in 1 .. Len(t)
      BY <1>3, <1>9
    <3>3. j < i
      <4> SUFFICES ASSUME ~(j < i) PROVE FALSE
        OBVIOUS
      <4>1. j = i \/ i < j
        BY <3>2
      <4>2. i < j => rank[i] < rank[j]
        BY <1>1
      <4> QED BY <2>1, <2>4, <3>1, <3>2, <4>1, <4>2
    <3> QED BY <1>3, <2>3, <3>1, <3>2, <3>3
  <2>5. ASSUME NEW g \in needs, mem[g] = Closed
        PROVE  \E l \in DOMAIN t : l < k /\ t[l].do \in Opens /\ t[l].file = g
    <3>1. PICK j \in DOMAIN s : j < i /\ s[j].do \in Opens /\ s[j].file = g
      BY <2>3, <2>5
    <3>2. j \in at
      BY <1>3, <1>9, <3>1
    <3>3. rank[j] \in DOMAIN t /\ rank[j] < k /\ t[rank[j]] = s[j]
      BY <1>1, <1>3, <2>1, <3>1, <3>2
    <3> QED BY <3>1, <3>3
  <2> QED BY <2>4, <2>5
<1>5. Ready(t, mem, needs)
  BY <1>4 DEF Ready
<1> QED BY <1>5 DEF t

\* Every tool has what it needs open when it uses it, and edits once.
LEMMA ScriptFact ==
  ASSUME SubIdsAssumption, NEW job \in Jobs, NEW mem
  PROVE  /\ Does(Script(job), DosOf(job.tool)) /\ Script(job) # <<>>
         /\ Ready(Script(job), mem, Needs(job.tool))
<1> DEFINE Changing == {"check", "test", "lock", "open", "edit", "close", "unlock"}
           Good(s, needs) == Does(s, Changing) /\ Ready(s, mem, needs) /\ s # <<>>
           P == <<"passwd">>
           U == <<"sub">>
           PU == <<"passwd", "sub">>
           UP == <<"sub", "passwd">>
<1>0. job.tool \in Tools
  BY DEF SubIdsAssumption
<1>1. /\ P \in Seq(Files) /\ U \in Seq(Files) /\ PU \in Seq(Files) /\ UP \in Seq(Files)
      /\ Range(P) = {"passwd"} /\ Range(U) = {"sub"} /\ Range(PU) = Files /\ Range(UP) = Files
  <2>1. "passwd" \in Files /\ "sub" \in Files
    BY DEF Files
  <2>2. P \in Seq(Files) /\ Range(P) = {"passwd"}
    BY <2>1, Single
  <2>3. U \in Seq(Files) /\ Range(U) = {"sub"}
    BY <2>1, Single
  <2>4. PU \in Seq(Files) /\ Range(PU) = {"passwd", "sub"}
    BY <2>1, Pair
  <2>5. UP \in Seq(Files) /\ Range(UP) = {"sub", "passwd"}
    BY <2>1, Pair
  <2> HIDE DEF P, U, PU, UP
  <2> QED BY <2>2, <2>3, <2>4, <2>5 DEF Files
<1> HIDE DEF P, U, PU, UP
<1>2. Does(Test, Going) /\ Does(Check, Going)
  <2>1. Call("test", "sub") \in Calls /\ Call("check", None) \in Calls
    BY DEF Call, Calls, Files
  <2>2. /\ Test \in Seq(Calls) /\ Range(Test) = {Call("test", "sub")}
        /\ Check \in Seq(Calls) /\ Range(Check) = {Call("check", None)}
    BY <2>1, Single DEF Test, Check
  <2>3. \A c \in Range(Test) \cup Range(Check) : c.do \in Going
    BY <2>2 DEF Call, Going
  <2> QED BY <2>2, <2>3, DoesRange
<1>3. /\ Going \cup {"edit"} \subseteq Changing /\ Leaving \subseteq Changing
      /\ \A s : Does(s, Going \cup {"edit"}) => Does(s, Changing)
  <2>1. Going \cup {"edit"} \subseteq Changing /\ Leaving \subseteq Changing
    BY DEF Going, Leaving
  <2> QED BY <2>1, DoesMore
<1> HIDE DEF Changing
<1>4. ASSUME NEW front, Does(front, Going), NEW needs, \A f \in needs : Call("open", f) \in Range(front)
      PROVE  Good(front \o Edit, needs)
  <2> DEFINE s == front \o Edit
  <2>1. Does(s, Changing) /\ Ready(s, mem, needs)
    BY <1>3, <1>4, ReadyEdit
  <2>2. s # <<>>
    <3>1. front \in Seq(Calls)
      BY <1>4 DEF Does
    <3>2. Call("edit", None) \in Calls
      BY DEF Call, Calls, Uses
    <3>3. s = Append(front, Call("edit", None))
      BY <3>1, <3>2 DEF Edit
    <3> QED BY <3>1, <3>2, <3>3, AppendProperties
  <2> QED BY <2>1, <2>2
<1>5. ASSUME NEW s, NEW needs, Good(s, needs), NEW back, Does(back, Leaving)
      PROVE  Good(s \o back, needs)
  <2>1. Does(s \o back, Changing) /\ Ready(s \o back, mem, needs)
    BY <1>3, <1>5, ReadyThen
  <2>2. s \in Seq(Calls) /\ back \in Seq(Calls) /\ s # <<>>
    BY <1>5 DEF Does
  <2>3. s \o back # <<>>
    BY <2>2, ConcatProperties, EmptySeq, LenProperties
  <2> QED BY <2>1, <2>3
<1> HIDE DEF Good
<1>6. ASSUME NEW f \in {"passwd", "sub"}
      PROVE  /\ Does(LockAndOpen(PU), Going) /\ Call("open", f) \in Range(LockAndOpen(PU))
             /\ Does(Each("open", PU), Going) /\ Call("open", f) \in Range(Each("open", PU))
  <2>1. f \in Range(PU) /\ "open" \in Locking
    BY <1>1 DEF Files, Locking
  <2> QED BY <1>1, <2>1, CallsOn
<1>8. /\ Does(LockAndOpen(P), Going) /\ Call("open", "passwd") \in Range(LockAndOpen(P))
      /\ Does(LockAndOpen(U), Going) /\ Call("open", "sub") \in Range(LockAndOpen(U))
      /\ Does(LockAndOpen(U), Locking) /\ Does(Each("lock", PU), Going)
  <2>1. "passwd" \in Range(P) /\ "sub" \in Range(U) /\ "lock" \in Locking
    BY <1>1 DEF Locking
  <2> QED BY <1>1, <2>1, CallsOn
<1>9. /\ Does(CloseAndUnlock(PU), Leaving) /\ Does(CloseAndUnlock(UP), Leaving)
      /\ Does(CloseAndUnlock(U), Leaving) /\ Does(CloseAndUnlock(P), Leaving)
      /\ Does(Each("close", PU), Leaving) /\ Does(Each("unlock", PU), Leaving)
  BY <1>1, CallsOn DEF Leaving
<1>10. job.tool \notin Maps \cup {"grant", "ungrant"} => DosOf(job.tool) = Changing
  BY DEF DosOf, Changing
<1>11. CASE job.tool = "useradd"
  <2> DEFINE front0 == Check \o LockAndOpen(P)
             front1 == front0 \o Test
             front == front1 \o LockAndOpen(U)
             s1 == front \o Edit
             s2 == s1 \o Each("close", PU)
             s == s2 \o Each("unlock", PU)
             needs == {"passwd"}
  <2>1. Script(job) = s /\ needs = Needs(job.tool) /\ job.tool \notin Maps \cup {"grant", "ungrant"}
    BY <1>11 DEF Script, UseraddScript, P, U, PU, Needs, Maps
  <2>8. Does(front0, Going) /\ Call("open", "passwd") \in Range(front0)
    BY <1>2, <1>8, DoesBoth
  <2> HIDE DEF front0
  <2>2. Does(front1, Going) /\ Call("open", "passwd") \in Range(front1)
    BY <1>2, <2>8, DoesBoth
  <2> HIDE DEF front1
  <2>3. Does(front, Going) /\ Call("open", "passwd") \in Range(front)
    BY <1>8, <2>2, DoesBoth
  <2> HIDE DEF front
  <2>4. \A f \in needs : Call("open", f) \in Range(front)
    BY <2>3
  <2> HIDE DEF needs
  <2>5. Good(s1, needs)
    BY <1>4, <2>3, <2>4
  <2> HIDE DEF s1
  <2>6. Good(s2, needs)
    BY <1>5, <1>9, <2>5
  <2> HIDE DEF s2
  <2>7. Good(s, needs)
    BY <1>5, <1>9, <2>6
  <2> HIDE DEF s
  <2> QED BY <1>10, <2>1, <2>7 DEF Good
<1>12. CASE job.tool = "newusers"
  <2> DEFINE front1 == Test \o Each("lock", PU)
             front == front1 \o Each("open", PU)
             s1 == front \o Edit
             s == s1 \o CloseAndUnlock(PU)
             needs == {"passwd"}
  <2>1. Script(job) = s /\ needs = Needs(job.tool) /\ job.tool \notin Maps \cup {"grant", "ungrant"}
    BY <1>12 DEF Script, NewusersScript, PU, Needs, Maps
  <2>2. Does(front1, Going)
    BY <1>2, <1>8, DoesBoth
  <2> HIDE DEF front1
  <2>3. Does(front, Going) /\ Call("open", "passwd") \in Range(front)
    BY <1>6, <2>2, DoesBoth
  <2> HIDE DEF front
  <2>4. \A f \in needs : Call("open", f) \in Range(front)
    BY <2>3
  <2> HIDE DEF needs
  <2>5. Good(s1, needs)
    BY <1>4, <2>3, <2>4
  <2> HIDE DEF s1
  <2>6. Good(s, needs)
    BY <1>5, <1>9, <2>5
  <2> HIDE DEF s
  <2> QED BY <1>10, <2>1, <2>6 DEF Good
<1>13. CASE job.tool \in {"userdel", "usermod"}
  <2> DEFINE needs == {"passwd"}
  <2>1. needs = Needs(job.tool) /\ job.tool \notin Maps \cup {"grant", "ungrant"}
    BY <1>13 DEF Needs, Maps
  <2>2. ASSUME NEW front, Does(front, Going), Call("open", "passwd") \in Range(front),
               NEW back, Does(back, Leaving)
        PROVE  Good(front \o Edit \o back, needs)
    <3> DEFINE s1 == front \o Edit
    <3>1. Good(s1, needs)
      BY <1>4, <2>2
    <3> HIDE DEF s1, needs
    <3>2. Good(s1 \o back, needs)
      BY <1>5, <2>2, <3>1
    <3> QED BY <3>2 DEF s1
  <2> HIDE DEF needs
  <2>3. Does(Test \o LockAndOpen(PU), Going) /\ Call("open", "passwd") \in Range(Test \o LockAndOpen(PU))
    BY <1>2, <1>6, DoesBoth
  <2>4. Does(Check \o LockAndOpen(P), Going) /\ Call("open", "passwd") \in Range(Check \o LockAndOpen(P))
    BY <1>2, <1>8, DoesBoth
  <2>5. /\ Does((Test \o Check) \o LockAndOpen(PU), Going)
        /\ Call("open", "passwd") \in Range((Test \o Check) \o LockAndOpen(PU))
    <3>1. Does(Test \o Check, Going)
      BY <1>2, DoesBoth
    <3> QED BY <1>6, <3>1, DoesBoth
  <2>6. \/ Script(job) = (Test \o LockAndOpen(PU)) \o Edit \o CloseAndUnlock(PU)
        \/ Script(job) = ((Test \o Check) \o LockAndOpen(PU)) \o Edit \o CloseAndUnlock(UP)
        \/ Script(job) = (Check \o LockAndOpen(P)) \o Edit \o CloseAndUnlock(P)
    BY <1>13 DEF Script, UserdelScript, UsermodScript, P, PU, UP, Maps
  <2>7. Good(Script(job), needs)
    <3>1. Good((Test \o LockAndOpen(PU)) \o Edit \o CloseAndUnlock(PU), needs)
      <4> DEFINE front == Test \o LockAndOpen(PU)
                 back  == CloseAndUnlock(PU)
      <4>1. Does(front, Going) /\ Call("open", "passwd") \in Range(front) /\ Does(back, Leaving)
        BY <1>9, <2>3
      <4> HIDE DEF front, back
      <4>2. Good(front \o Edit \o back, needs)
        BY <2>2, <4>1
      <4> QED BY <4>2 DEF front, back
    <3>2. Good(((Test \o Check) \o LockAndOpen(PU)) \o Edit \o CloseAndUnlock(UP), needs)
      <4> DEFINE front == (Test \o Check) \o LockAndOpen(PU)
                 back  == CloseAndUnlock(UP)
      <4>1. Does(front, Going) /\ Call("open", "passwd") \in Range(front) /\ Does(back, Leaving)
        BY <1>9, <2>5
      <4> HIDE DEF front, back
      <4>2. Good(front \o Edit \o back, needs)
        BY <2>2, <4>1
      <4> QED BY <4>2 DEF front, back
    <3>3. Good((Check \o LockAndOpen(P)) \o Edit \o CloseAndUnlock(P), needs)
      <4> DEFINE front == Check \o LockAndOpen(P)
                 back  == CloseAndUnlock(P)
      <4>1. Does(front, Going) /\ Call("open", "passwd") \in Range(front) /\ Does(back, Leaving)
        BY <1>9, <2>4
      <4> HIDE DEF front, back
      <4>2. Good(front \o Edit \o back, needs)
        BY <2>2, <4>1
      <4> QED BY <4>2 DEF front, back
    <3> QED BY <2>6, <3>1, <3>2, <3>3
  <2> QED BY <1>10, <2>1, <2>7 DEF Good
<1>14. CASE job.tool \in {"grant", "ungrant"}
  <2> DEFINE front == LockAndOpen(U)
             s1 == front \o Edit
             s == s1 \o CloseAndUnlock(U)
             needs == {"sub"}
             L == {"lock", "open", "edit", "close", "unlock"}
  <2>1. Script(job) = s /\ needs = Needs(job.tool) /\ DosOf(job.tool) = L
    BY <1>14 DEF Script, LibraryScript, U, Needs, Maps, DosOf
  <2>2. \A f \in needs : Call("open", f) \in Range(front)
    BY <1>8
  <2>3. Does(front, L) /\ Does(Edit, L) /\ Does(CloseAndUnlock(U), L)
    <3>1. Locking \subseteq L /\ Leaving \subseteq L
      BY DEF Locking, Leaving
    <3>2. Does(Edit, L)
      <4>1. Call("edit", None) \in Calls
        BY DEF Call, Calls, Uses
      <4>2. Edit \in Seq(Calls) /\ Range(Edit) = {Call("edit", None)}
        BY <4>1, Single DEF Edit
      <4>3. \A c \in Range(Edit) : c.do \in L
        BY <4>2 DEF Call
      <4> QED BY <4>2, <4>3, DoesRange
    <3> HIDE DEF L
    <3> QED BY <1>8, <1>9, <3>1, <3>2, DoesMore
  <2> HIDE DEF needs, L
  <2>4. Does(s1, L)
    BY <2>3, DoesBoth
  <2>5. Good(s1, needs)
    BY <1>4, <1>8, <2>2
  <2> HIDE DEF s1
  <2>6. Does(s, L) /\ Good(s, needs)
    BY <1>5, <1>9, <2>3, <2>4, <2>5, DoesBoth
  <2> HIDE DEF s
  <2> QED BY <2>1, <2>6 DEF Good
<1>15. CASE job.tool \in Maps
  <2>1. /\ Call("check", None) \in Calls /\ Call("read", "sub") \in Calls /\ Call("verify", None) \in Calls
        /\ Call("setgroups", None) \in Calls /\ Call("map", None) \in Calls
    BY DEF Call, Calls, Files, Uses
  <2>2. Needs(job.tool) = {"sub"} /\ DosOf(job.tool) = {"check", "read", "verify", "setgroups", "map"}
    BY <1>15 DEF Needs, DosOf, Maps
  <2>3. CASE job.tool = "newuidmap"
    <3> DEFINE s == <<Call("check", None), Call("read", "sub"), Call("verify", None), Call("map", None)>>
    <3>1. Script(job) = s
      BY <2>3 DEF Script, UidMapScript, Check
    <3>2. s \in Seq(Calls) /\ DOMAIN s = 1 .. 4 /\ s # <<>>
      BY <2>1
    <3>3. /\ s[1].do = "check" /\ s[2].do = "read" /\ s[2].file = "sub" /\ s[3].do = "verify"
          /\ s[4].do = "map"
      BY DEF Call
    <3> HIDE DEF s
    <3>4. Does(s, DosOf(job.tool))
      BY <2>2, <3>2, <3>3 DEF Does
    <3>5. Ready(s, mem, {"sub"})
      BY <3>2, <3>3 DEF Ready, Uses, Opens
    <3> QED BY <2>2, <3>1, <3>2, <3>4, <3>5
  <2>4. CASE job.tool = "newgidmap"
    <3> DEFINE s == <<Call("check", None), Call("read", "sub"), Call("verify", None), Call("setgroups", None), Call("map", None)>>
    <3>1. Script(job) = s
      BY <2>4 DEF Script, GidMapScript
    <3>2. s \in Seq(Calls) /\ DOMAIN s = 1 .. 5 /\ s # <<>>
      BY <2>1
    <3>3. /\ s[1].do = "check" /\ s[2].do = "read" /\ s[2].file = "sub" /\ s[3].do = "verify"
          /\ s[4].do = "setgroups" /\ s[5].do = "map"
      BY DEF Call
    <3> HIDE DEF s
    <3>4. Does(s, DosOf(job.tool))
      BY <2>2, <3>2, <3>3 DEF Does
    <3>5. Ready(s, mem, {"sub"})
      BY <3>2, <3>3 DEF Ready, Uses, Opens
    <3> QED BY <2>2, <3>1, <3>2, <3>4, <3>5
  <2> QED BY <1>15, <2>3, <2>4 DEF Maps
<1> QED BY <1>0, <1>11, <1>12, <1>13, <1>14, <1>15 DEF Tools, Maps

(***************************************************************************)
(* The edits.                                                              *)
(***************************************************************************)
\* A user is added to passwd, or changed.
LEMMA PutTable ==
  ASSUME NEW t \in Tables, NEW n \in UserNames, n \notin DOMAIN NumberOf, NEW u \in Nat
  PROVE  Put(t, n, u) \in Tables
<1> DEFINE new == Put(t, n, u)
<1>1. t \in [DOMAIN t -> Nat] /\ DOMAIN t \subseteq UserNames /\ DOMAIN t \cap DOMAIN NumberOf = {}
  BY TableFact
<1>2. new \in [DOMAIN t \cup {n} -> Nat]
  BY <1>1 DEF Put
<1>3. DOMAIN new = DOMAIN t \cup {n}
  BY <1>2
<1> HIDE DEF new
<1> QED BY <1>1, <1>2, <1>3, TableFact DEF new

\* A user is removed from passwd.
LEMMA DropTable ==
  ASSUME NEW t \in Tables, NEW n
  PROVE  Drop(t, n) \in Tables
<1> DEFINE new == Drop(t, n)
<1>1. t \in [DOMAIN t -> Nat] /\ DOMAIN t \subseteq UserNames /\ DOMAIN t \cap DOMAIN NumberOf = {}
  BY TableFact
<1>2. new \in [DOMAIN t \ {n} -> Nat]
  BY <1>1 DEF Drop
<1>3. DOMAIN new = DOMAIN t \ {n}
  BY <1>2
<1> HIDE DEF new
<1> QED BY <1>1, <1>2, <1>3, TableFact DEF new

\* What the assumption says of a job.
LEMMA JobFact ==
  ASSUME SubIdsAssumption, NEW job \in Jobs
  PROVE  /\ job.tool \in Tools /\ job.uid \in Nat /\ job.start \in Nat /\ job.count \in Nat
         /\ job.name \in UserNames /\ job.name \in OwnerNames /\ job.newName \in UserNames
         /\ job.tool \in {"useradd", "newusers"} => job.name \notin DOMAIN NumberOf
         /\ job.tool = "usermod" => job.newName \notin DOMAIN NumberOf
         /\ SubIdCount \in Nat /\ MaxId \in Nat
<1>1. /\ job.tool \in Tools /\ job.uid \in Nat /\ job.start \in Nat /\ job.count \in Nat
      /\ job.tool \in {"useradd", "newusers"} => job.name \notin DOMAIN NumberOf
      /\ job.tool = "usermod" => job.newName \notin DOMAIN NumberOf
  BY DEF SubIdsAssumption
<1>2. job.name \in UserNames /\ job.newName \in UserNames
  BY DEF UserNames
<1>3. UserNames \subseteq OwnerNames
  BY DEF OwnerNames
<1>4. SubIdCount \in Nat /\ MaxId \in Nat
  BY DEF SubIdsAssumption
<1> QED BY <1>1, <1>2, <1>3, <1>4

\* A file that nobody shares more of than before.
Kept(db, new) ==
  /\ new \in Seq(SubRange)
  /\ ~config.deterministic => \A ids : SharedIds(db) \subseteq ids => SharedIds(new) \subseteq ids

\* add_range and sub_uid_add, of identifiers that are nobody's.
LEMMA KeptAdd ==
  ASSUME SubIdsAssumption, NEW db \in Seq(SubRange), NEW old, Kept(old, db),
         NEW o \in OwnerNames, NEW s \in Nat, NEW count \in Nat,
         ~config.deterministic => s .. s + count - 1 \cap AllIds(db) = {}
  PROVE  /\ Kept(old, AddRange(passwd, db, o, s, count))
         /\ \A d \in SubIdAdd(config, passwd, db, o, s, count) : Kept(old, d)
<1>1. ASSUME NEW n \in OwnerNames PROVE Kept(old, AddRange(passwd, db, n, s, count))
  <2> DEFINE d == AddRange(passwd, db, n, s, count)
  <2>1. d \in Seq(SubRange)
    BY AddFact
  <2>2. ASSUME ~config.deterministic, NEW ids, SharedIds(old) \subseteq ids
        PROVE  SharedIds(d) \subseteq ids
    <3>1. SharedIds(db) \subseteq ids
      BY <2>2 DEF Kept
    <3> QED BY <2>2, <3>1, AddFree
  <2> HIDE DEF d
  <2>3. Kept(old, d)
    BY <2>1, <2>2 DEF Kept
  <2> QED BY <2>3 DEF d
<1>2. ASSUME NEW d \in SubIdAdd(config, passwd, db, o, s, count) PROVE Kept(old, d)
  <2>1. PICK n \in OwnerNames : d = AddRange(passwd, db, n, s, count)
    BY <1>2, SubIdAddFact
  <2> QED BY <1>1, <2>1
<1> QED BY <1>1, <1>2

\* remove_range gives nobody an identifier.
LEMMA KeptRemove ==
  ASSUME NEW db \in Seq(SubRange), NEW o, NEW s \in Nat, NEW count \in Nat
  PROVE  Kept(db, RemoveRange(passwd, db, o, s, count))
<1> DEFINE d == RemoveRange(passwd, db, o, s, count)
<1>1. d \in Seq(SubRange)
  BY RemoveFact
<1>2. \A n : IdsNamed(d, n) \subseteq IdsNamed(db, n)
  BY RemoveNamed
<1> HIDE DEF d
<1>3. \A ids : SharedIds(db) \subseteq ids => SharedIds(d) \subseteq ids
  BY <1>2, SharedLess
<1>4. Kept(db, d)
  BY <1>1, <1>3 DEF Kept
<1> QED BY <1>4 DEF d

\* The file after a search.
LEMMA KeptFind ==
  ASSUME NEW db \in Seq(SubRange)
  PROVE  /\ Kept(db, db) /\ Kept(db, AfterFind(config, db)) /\ Kept(db, Sorted(db))
<1>1. AfterFind(config, db) \in Seq(SubRange) /\ SharedIds(AfterFind(config, db)) = SharedIds(db)
  BY AfterFindFact
<1>2. Sorted(db) \in Seq(SubRange) /\ SharedIds(Sorted(db)) = SharedIds(db)
  <2>1. Sorted(db) \in Seq(SubRange) /\ Range(Sorted(db)) = Range(db)
    BY SortedSub
  <2> DEFINE d == Sorted(db)
  <2> HIDE DEF d
  <2>2. SharedIds(d) = SharedIds(db)
    BY <2>1 DEF SharedIds, IdsNamed, d
  <2> QED BY <2>1, <2>2 DEF d
<1> QED BY <1>1, <1>2 DEF Kept

\* What is assigned to a user.
LEMMA AssignedFact ==
  ASSUME SubIdsAssumption, NEW mem \in Mems, NEW name \in OwnerNames, NEW uid \in Nat,
         NEW s \in Assigned(mem, name, uid)
  PROVE  /\ mem.sub = Closed => s = Closed
         /\ mem.sub # Closed => Kept(mem.sub, s)
<1>1. CASE mem.sub = Closed
  BY <1>1 DEF Assigned
<1>2. CASE mem.sub # Closed
  <2> DEFINE db == mem.sub
             a == AfterFind(config, db)
  <2>1. db \in Seq(SubRange)
    BY <1>2 DEF Mems
  <2>2. PICK start \in FindNewSubIds(config, db, uid) :
          s \in IF RangeExists(passwd, db, name) THEN {a}
                ELSE SubIdAdd(config, passwd, a, name, start, SubIdCount)
    BY <1>2 DEF Assigned
  <2> HIDE DEF db
  <2>3. a \in Seq(SubRange) /\ AllIds(a) = AllIds(db) /\ Kept(db, a)
    BY <2>1, AfterFindFact, KeptFind
  <2>4. /\ start \in Nat
        /\ ~config.deterministic => start .. start + SubIdCount - 1 \cap AllIds(a) = {}
    BY <2>1, <2>3, NewIdsFact
  <2>5. SubIdCount \in Nat
    BY DEF SubIdsAssumption
  <2> HIDE DEF a
  <2>6. \A d \in SubIdAdd(config, passwd, a, name, start, SubIdCount) : Kept(db, d)
    BY <2>3, <2>4, <2>5, KeptAdd
  <2>7. s = a \/ s \in SubIdAdd(config, passwd, a, name, start, SubIdCount)
    BY <2>2
  <2> QED BY <1>2, <2>3, <2>6, <2>7 DEF db
<1> QED BY <1>1, <1>2

\* What usermod -S finds.
LEMMA FoundFact ==
  ASSUME SubIdsAssumption, NEW job, NEW db \in Seq(SubRange), NEW uid \in Nat,
         NEW found \in FoundForUsermod(job, db, uid)
  PROVE  /\ found \in Seq(Stretch)
         /\ "S" \notin job.flags => found = <<>>
<1>1. CASE found = <<>>
  BY <1>1
<1>2. CASE found # <<>>
  <2>1. PICK b \in FindNewSubIds(config, db, uid) :
          found = <<[start |-> b, count |-> SubIdCount + 1]>>
    BY <1>2 DEF FoundForUsermod
  <2>2. b \in Nat /\ SubIdCount \in Nat
    BY <2>1, NewIdsFact DEF SubIdsAssumption
  <2>3. [start |-> b, count |-> SubIdCount + 1] \in Stretch
    BY <2>2 DEF Stretch
  <2>4. PICK r : r = [start |-> b, count |-> SubIdCount + 1]
    OBVIOUS
  <2>5. found = <<r>> /\ <<r>> \in Seq(Stretch)
    BY <2>1, <2>3, <2>4
  <2>6. "S" \in job.flags
    BY <1>2 DEF FoundForUsermod
  <2> QED BY <2>5, <2>6
<1> QED BY <1>1, <1>2

\* An edit leaves copies that may be written.
LEMMA EditFact ==
  ASSUME SubIdsAssumption, NEW job \in Jobs, job.tool \notin Maps, NEW mem \in Mems, NEW uid \in Nat,
         \A f \in Needs(job.tool) : mem[f] # Closed,
         NEW new \in EditsOf(job, mem, uid)
  PROVE  /\ new \in Mems
         /\ mem.passwd = Closed => new.passwd = Closed
         /\ mem.sub = Closed => new.sub = Closed
         /\ mem.sub # Closed => new.sub \in Seq(SubRange)
         /\ mem.sub # Closed /\ job.tool # "usermod" => Kept(mem.sub, new.sub)
<1> DEFINE name == job.name
           db == mem.sub
           Result(t, s) == new = [passwd |-> t, sub |-> s]
<1>1. /\ mem = [passwd |-> mem.passwd, sub |-> mem.sub]
      /\ mem.passwd \in Tables \cup {Closed} /\ db \in Seq(SubRange) \cup {Closed}
  BY DEF Mems
<1>2. /\ job.tool \in Tools /\ job.uid \in Nat /\ job.start \in Nat /\ job.count \in Nat
      /\ name \in UserNames /\ name \in OwnerNames /\ job.newName \in UserNames
      /\ job.tool \in {"useradd", "newusers"} => name \notin DOMAIN NumberOf
      /\ job.tool = "usermod" => job.newName \notin DOMAIN NumberOf
      /\ SubIdCount \in Nat /\ MaxId \in Nat
  BY JobFact
<1>3. Closed \notin Seq(SubRange)
  BY DEF SubIdsAssumption
<1>4. /\ job.tool \in {"useradd", "newusers", "userdel", "usermod"} => mem.passwd \in Tables /\ mem.passwd # Closed
      /\ job.tool \in {"grant", "ungrant"} => db \in Seq(SubRange) /\ db # Closed
  BY <1>1 DEF Needs, Files
<1>5. ASSUME NEW t, NEW s, new = [passwd |-> t, sub |-> s],
             t \in Tables \/ t = mem.passwd,
             mem.passwd = Closed => t = Closed,
             db = Closed => s = Closed,
             db # Closed => s \in Seq(SubRange) /\ (job.tool # "usermod" => Kept(db, s))
      PROVE  /\ new \in Mems
             /\ mem.passwd = Closed => new.passwd = Closed
             /\ mem.sub = Closed => new.sub = Closed
             /\ mem.sub # Closed => new.sub \in Seq(SubRange)
             /\ mem.sub # Closed /\ job.tool # "usermod" => Kept(mem.sub, new.sub)
  <2>1. new.passwd = t /\ new.sub = s
    BY <1>5
  <2>2. t \in Tables \cup {Closed} /\ s \in Seq(SubRange) \cup {Closed}
    BY <1>1, <1>5
  <2>3. new \in Mems
    BY <1>5, <2>2 DEF Mems
  <2> QED BY <1>5, <2>1, <2>3
<1> HIDE DEF name, db
<1>6. CASE job.tool = "useradd"
  <2>1. PICK s \in Assigned(mem, name, job.uid) :
          new = [passwd |-> Put(mem.passwd, name, job.uid), sub |-> s]
    BY <1>6 DEF EditsOf, UseraddEdit, name
  <2>2. (db = Closed => s = Closed) /\ (db # Closed => Kept(db, s))
    BY <1>2, <2>1, AssignedFact DEF db
  <2>3. Put(mem.passwd, name, job.uid) \in Tables
    BY <1>2, <1>4, <1>6, PutTable
  <2> QED BY <1>4, <1>5, <1>6, <2>1, <2>2, <2>3 DEF Kept
<1>7. CASE job.tool = "newusers"
  <2> DEFINE id == IF name \in DOMAIN mem.passwd THEN mem.passwd[name] ELSE job.uid
  <2>1. PICK s : /\ s = mem.sub \/ s \in Assigned(mem, name, id)
                 /\ new = [passwd |-> Put(mem.passwd, name, id), sub |-> s]
    BY <1>7 DEF EditsOf, NewusersEdit, name
  <2>0. id \in Nat
    BY <1>2, <1>4, <1>7, TableFact
  <2> HIDE DEF id
  <2>2. (db = Closed => s = Closed) /\ (db # Closed => Kept(db, s))
    <3>1. CASE s = mem.sub
      BY <1>1, <3>1, KeptFind DEF db
    <3>2. CASE s \in Assigned(mem, name, id)
      BY <1>2, <2>0, <3>2, AssignedFact DEF db
    <3> QED BY <2>1, <3>1, <3>2
  <2>3. Put(mem.passwd, name, id) \in Tables
    BY <1>2, <1>4, <1>7, <2>0, PutTable
  <2> QED BY <1>4, <1>5, <1>7, <2>1, <2>2, <2>3 DEF Kept
<1>8. CASE job.tool = "userdel"
  <2> DEFINE s(n) == IF db = Closed THEN Closed ELSE RemoveRange(passwd, db, n, 0, MaxId + 2)
  <2>1. PICK n : new = [passwd |-> Drop(mem.passwd, n), sub |-> s(n)]
    BY <1>8 DEF EditsOf, UserdelEdit, db
  <2>2. db # Closed => Kept(db, s(n))
    <3>1. MaxId + 2 \in Nat
      BY <1>2
    <3> QED BY <1>1, <3>1, KeptRemove DEF db
  <2>3. db = Closed => s(n) = Closed
    OBVIOUS
  <2> HIDE DEF s
  <2>4. Drop(mem.passwd, n) \in Tables
    BY <1>4, <1>8, DropTable
  <2> QED BY <1>4, <1>5, <1>8, <2>1, <2>2, <2>3, <2>4 DEF Kept
<1>9. CASE job.tool = "usermod"
  <2> DEFINE users == IF job.newName # Unset
                      THEN Put(Drop(mem.passwd, name), job.newName, mem.passwd[name]) ELSE mem.passwd
             Found(f) == UsermodSub(job, mem.sub, f)
             subs == IF mem.sub = Closed THEN {Closed}
                     ELSE UNION {Found(f) : f \in FoundForUsermod(job, mem.sub, uid)}
  <2>1. /\ job.newName # Unset => name \in DOMAIN mem.passwd
        /\ \E s \in subs : new = [passwd |-> users, sub |-> s]
    BY <1>9 DEF EditsOf, UsermodEdit, name
  <2>2. PICK s \in subs : new = [passwd |-> users, sub |-> s]
    BY <2>1
  <2>4. users \in Tables
    <3> SUFFICES ASSUME job.newName # Unset PROVE users \in Tables
      BY <1>4, <1>9
    <3>1. Drop(mem.passwd, name) \in Tables
      BY <1>4, <1>9, DropTable
    <3>2. mem.passwd[name] \in Nat
      BY <1>4, <1>9, <2>1, TableFact
    <3>3. Put(Drop(mem.passwd, name), job.newName, mem.passwd[name]) \in Tables
      <4> DEFINE d == Drop(mem.passwd, name)
                 u == mem.passwd[name]
                 newName == job.newName
      <4>1. d \in Tables /\ u \in Nat /\ newName \in UserNames /\ newName \notin DOMAIN NumberOf
        BY <1>2, <1>9, <3>1, <3>2
      <4> HIDE DEF d, u, newName
      <4>2. Put(d, newName, u) \in Tables
        BY <4>1, PutTable
      <4> QED BY <4>2 DEF d, u, newName
    <3> QED BY <3>3
  <2>5. db = Closed => s = Closed
    BY DEF db
  <2>6. db # Closed => s \in Seq(SubRange)
    <3> SUFFICES ASSUME db # Closed PROVE s \in Seq(SubRange)
      OBVIOUS
    <3>1. PICK found \in FoundForUsermod(job, mem.sub, uid) : s \in Found(found)
      BY DEF db
    <3>2. mem.sub \in Seq(SubRange) /\ job.name \in OwnerNames
      BY <1>1, <1>2 DEF db, name
    <3>3. found \in Seq(Stretch)
      BY <1>9, <3>2, FoundFact
    <3>4. UsermodSub(job, mem.sub, found) \subseteq Seq(SubRange)
      BY <3>2, <3>3, UsermodSubFact
    <3> QED BY <3>1, <3>4
  <2> HIDE DEF users, subs
  <2> QED BY <1>4, <1>5, <1>9, <2>2, <2>4, <2>5, <2>6
<1>10. CASE job.tool = "grant"
  <2>1. PICK start \in FindFreeRange(db, job.start, MaxId, job.count) :
          new = [mem EXCEPT !.sub = AddRange(passwd, Sorted(@), name, start, job.count)]
    BY <1>10 DEF EditsOf, GrantEdit, db, name
  <2> DEFINE s == AddRange(passwd, Sorted(db), name, start, job.count)
  <2>2. new = [passwd |-> mem.passwd, sub |-> s]
    BY <1>1, <2>1 DEF db
  <2>3. /\ start \in Nat /\ start .. start + job.count - 1 \cap AllIds(db) = {}
    BY <1>2, <1>4, <1>10, <2>1, FoundIsFree
  <2>4. Sorted(db) \in Seq(SubRange) /\ AllIds(Sorted(db)) = AllIds(db) /\ Kept(db, Sorted(db))
    BY <1>4, <1>10, SortedSub, KeptFind
  <2> DEFINE d == Sorted(db)
             count == job.count
  <2> HIDE DEF d, count
  <2>5. d \in Seq(SubRange) /\ Kept(db, d) /\ start .. start + count - 1 \cap AllIds(d) = {}
        /\ count \in Nat /\ start \in Nat
    BY <1>2, <2>3, <2>4 DEF d, count
  <2>6. Kept(db, AddRange(passwd, d, name, start, count))
    BY <1>2, <2>5, KeptAdd
  <2>7. Kept(db, s)
    BY <2>6 DEF d, count
  <2> HIDE DEF s
  <2> QED BY <1>1, <1>4, <1>5, <1>10, <2>2, <2>7 DEF Kept
<1>11. CASE job.tool = "ungrant"
  <2> DEFINE s == RemoveRange(passwd, db, name, job.start, job.count)
  <2>1. new = [mem EXCEPT !.sub = s]
    BY <1>11 DEF EditsOf, UngrantEdit, db, name
  <2>2. new = [passwd |-> mem.passwd, sub |-> s]
    BY <1>1, <2>1
  <2>3. Kept(db, s)
    BY <1>2, <1>4, <1>11, KeptRemove
  <2> HIDE DEF s
  <2> QED BY <1>1, <1>4, <1>5, <1>11, <2>2, <2>3 DEF Kept
<1> QED BY <1>2, <1>6, <1>7, <1>8, <1>9, <1>10, <1>11 DEF Tools, Maps

(***************************************************************************)
(* The invariant: steps of one process.                                    *)
(***************************************************************************)
\* A process that does nothing has nothing open and no script.
LEMMA IdleFact ==
  ASSUME SubIdsAssumption
  PROVE  /\ Idle \in Works /\ ScriptOK(Idle) /\ Idle.script = <<>> /\ Idle.kept = FALSE
         /\ Idle.mem.sub = Closed /\ \A f \in Files : Idle.mem[f] = Closed
<1>1. Idle.script = <<>> /\ Idle.kept = FALSE /\ Idle.mem = [passwd |-> Closed, sub |-> Closed]
      /\ Idle.job = None
  BY DEF Idle
<1>2. Idle.mem.sub = Closed /\ \A f \in Files : Idle.mem[f] = Closed
  BY <1>1 DEF Files
<1>3. [passwd |-> Closed, sub |-> Closed] \in Mems
  BY DEF Mems
<1>4. Idle \in Works
  BY <1>3 DEF Idle, Works
<1>5. ScriptOK(Idle)
  BY <1>1 DEF ScriptOK
<1> QED BY <1>1, <1>2, <1>4, <1>5

\* What a step of one process leaves the others.
Alone(p) ==
  /\ passwd' \in Tables /\ sub' \in Seq(SubRange) \cup {Absent}
  /\ owner' \in [Files -> Procs \cup {None}]
  /\ \A q \in Procs \ {p} : \A f \in Files : owner[f] = q => owner'[f] = q /\ Content(f)' = Content(f)

\* A process that is in order keeps the whole in order.
LEMMA StepOf ==
  ASSUME SubIdsInv, NEW p \in Procs, Alone(p),
         NEW v \in Works, ScriptOK(v), work' = [work EXCEPT ![p] = v],
         ~IsMap(v) => \A f \in Files : v.mem[f] # Closed => owner'[f] = p,
         ~IsMap(v) /\ (\E i \in DOMAIN v.script : v.script[i].do = "edit") =>
            \A f \in Files : v.mem[f] # Closed => v.mem[f] = Content(f)'
  PROVE  SubIdsInv'
<1>1. work \in [Procs -> Works]
  BY DEF SubIdsInv, FilesOK
<1>2. work' \in [Procs -> Works] /\ work'[p] = v /\ \A q \in Procs : q # p => work'[q] = work[q]
  BY <1>1
<1>3. FilesOK'
  BY <1>2 DEF FilesOK, Alone
<1>4. ASSUME NEW q \in Procs PROVE ScriptOK(work'[q]) /\ LockedOK(q)' /\ FreshOK(q)'
  <2>1. CASE q = p
    BY <1>2, <2>1 DEF LockedOK, FreshOK
  <2>2. CASE q # p
    <3>1. work'[q] = work[q] /\ ScriptOK(work[q]) /\ LockedOK(q) /\ FreshOK(q)
      BY <1>2, <2>2 DEF SubIdsInv
    <3>2. \A f \in Files : owner[f] = q => owner'[f] = q /\ Content(f)' = Content(f)
      BY <2>2 DEF Alone
    <3>3. LockedOK(q)'
      BY <3>1, <3>2 DEF LockedOK
    <3>4. FreshOK(q)'
      <4> SUFFICES ASSUME ~IsMap(work'[q]), \E i \in DOMAIN work'[q].script : work'[q].script[i].do = "edit",
                          NEW f \in Files, work'[q].mem[f] # Closed
                   PROVE  work'[q].mem[f] = Content(f)'
        BY DEF FreshOK
      <4>1. work[q].mem[f] = Content(f)
        BY <3>1 DEF FreshOK
      <4>2. owner[f] = q
        BY <3>1 DEF LockedOK
      <4> QED BY <3>1, <3>2, <4>1, <4>2
    <3> QED BY <3>1, <3>3, <3>4
  <2> QED BY <2>1, <2>2
<1>5. \A q \in Procs : ScriptOK(work'[q]) /\ LockedOK(q)' /\ FreshOK(q)'
  BY <1>4
<1>6. \A q \in Procs : (ScriptOK(work[q]) /\ LockedOK(q) /\ FreshOK(q))'
  BY <1>5 DEF ScriptOK
<1> QED BY <1>3, <1>6 DEF SubIdsInv

\* A process that ends, or is killed.
LEMMA Stops ==
  ASSUME SubIdsAssumption, SubIdsInv, NEW p \in Procs, Alone(p), work' = [work EXCEPT ![p] = Idle]
  PROVE  SubIdsInv'
<1>1. Idle \in Works /\ ScriptOK(Idle) /\ \A f \in Files : Idle.mem[f] = Closed
  BY IdleFact
<1> QED BY <1>1, StepOf

\* A process that goes on.
LEMMA GoesOn ==
  ASSUME SubIdsAssumption, SubIdsInv, NEW p \in Procs, Alone(p),
         NEW w \in Works, ~w.kept, Becomes(p, w), w.job \in Jobs,
         \A i \in DOMAIN w.script : w.script[i].do \in DosOf(w.job.tool),
         Ready(w.script, w.mem, Needs(w.job.tool)),
         ~IsMap(w) => \A f \in Files : w.mem[f] # Closed => owner'[f] = p,
         ~IsMap(w) /\ (\E i \in DOMAIN w.script : w.script[i].do = "edit") =>
            \A f \in Files : w.mem[f] # Closed => w.mem[f] = Content(f)'
  PROVE  SubIdsInv'
<1>1. CASE w.script = <<>>
  <2>1. work' = [work EXCEPT ![p] = Idle]
    BY <1>1 DEF Becomes
  <2> QED BY <2>1, Stops
<1>2. CASE w.script # <<>>
  <2>1. work' = [work EXCEPT ![p] = w]
    BY <1>2 DEF Becomes
  <2>2. ScriptOK(w)
    BY <1>2 DEF ScriptOK
  <2> QED BY <2>1, <2>2, StepOf
<1> QED BY <1>1, <1>2

\* The tools need nothing but files.
LEMMA NeedsFiles == \A tool : Needs(tool) \subseteq Files
BY DEF Needs, Files

\* What is known of a process that is doing something.
LEMMA DoingFact ==
  ASSUME SubIdsInv, NEW p \in Procs, NEW do, Doing(p, do)
  PROVE  LET w == work[p]
         IN  /\ w \in Works /\ w.script \in Seq(Calls) /\ w.script # <<>> /\ w.kept = FALSE
             /\ w.job \in Jobs /\ w.mem \in Mems
             /\ Head(w.script).do = do /\ do \in DosOf(w.job.tool)
             /\ Head(w.script) \in Calls /\ Now(p) = Head(w.script).file
             /\ Tail(w.script) \in Seq(Calls)
             /\ \A i \in DOMAIN Tail(w.script) : Tail(w.script)[i].do \in DosOf(w.job.tool)
             /\ \A a : (\E i \in DOMAIN Tail(w.script) : Tail(w.script)[i].do = a)
                         => \E i \in DOMAIN w.script : w.script[i].do = a
             /\ do \in {"close", "unlock", "edit"} =>
                  \A i \in DOMAIN Tail(w.script) : Tail(w.script)[i].do \notin Uses
             /\ do \in Uses => \A f \in Needs(w.job.tool) : w.mem[f] # Closed
             /\ Ready(w.script, w.mem, Needs(w.job.tool))
             /\ do = "edit" => \E i \in DOMAIN w.script : w.script[i].do = "edit"
<1> DEFINE w == work[p]
           s == w.script
           t == Tail(s)
           needs == Needs(w.job.tool)
<1>1. w \in Works /\ ScriptOK(w)
  BY DEF SubIdsInv, FilesOK
<1>2. s \in Seq(Calls) /\ w.kept \in BOOLEAN /\ w.mem \in Mems
  BY <1>1 DEF Works
<1>3. s # <<>> /\ Head(s).do = do /\ Now(p) = Head(s).file
  BY DEF Doing, Now
<1>4. w.kept = FALSE
  BY <1>1, <1>2, <1>3 DEF ScriptOK
<1>5. w.job \in Jobs /\ (\A i \in DOMAIN s : s[i].do \in DosOf(w.job.tool)) /\ Ready(s, w.mem, needs)
  BY <1>1, <1>3 DEF ScriptOK
<1> HIDE DEF w, s, needs
<1>6. /\ t \in Seq(Calls) /\ Len(s) \in Nat /\ Len(s) # 0 /\ DOMAIN s = 1 .. Len(s)
      /\ DOMAIN t = 1 .. Len(s) - 1 /\ \A i \in 1 .. Len(s) - 1 : t[i] = s[i + 1]
      /\ Head(s) = s[1]
  <2>1. t \in Seq(Calls) /\ Len(t) = Len(s) - 1 /\ \A i \in 1 .. Len(t) : t[i] = s[i + 1]
    BY <1>2, <1>3, HeadTailProperties
  <2>2. Len(s) \in Nat /\ Len(s) # 0 /\ DOMAIN s = 1 .. Len(s) /\ DOMAIN t = 1 .. Len(t)
    BY <1>2, <1>3, <2>1, LenProperties, EmptySeq
  <2> QED BY <1>2, <1>3, <2>1, <2>2, HeadTailProperties
<1> HIDE DEF t
<1>7. 1 \in DOMAIN s /\ Head(s) \in Calls
  BY <1>2, <1>6
<1>8. \A i \in DOMAIN t : i + 1 \in DOMAIN s /\ t[i] = s[i + 1] /\ 1 < i + 1
  BY <1>6
<1>9. do \in {"close", "unlock", "edit"} => \A i \in DOMAIN t : t[i].do \notin Uses
  <2> SUFFICES ASSUME do \in {"close", "unlock", "edit"}, NEW i \in DOMAIN t, t[i].do \in Uses PROVE FALSE
    OBVIOUS
  <2>1. i + 1 \in DOMAIN s /\ s[i + 1].do \in Uses /\ 1 < i + 1
    BY <1>8
  <2>2. \A j \in DOMAIN s : j < i + 1 => s[j].do \notin {"close", "unlock", "edit"}
    BY <1>5, <2>1 DEF Ready
  <2> QED BY <1>3, <1>6, <1>7, <2>1, <2>2
<1>10. do \in Uses => \A f \in needs : w.mem[f] # Closed
  <2> SUFFICES ASSUME do \in Uses, NEW f \in needs PROVE w.mem[f] # Closed
    OBVIOUS
  <2>1. 1 \in DOMAIN s /\ s[1].do \in Uses
    BY <1>3, <1>6, <1>7
  <2>2. w.mem[f] # Closed \/ \E j \in DOMAIN s : j < 1 /\ s[j].do \in Opens /\ s[j].file = f
    BY <1>5, <2>1 DEF Ready
  <2>3. \A j \in DOMAIN s : ~(j < 1)
    BY <1>6
  <2> QED BY <2>2, <2>3
<1>11. \A i \in DOMAIN t : t[i].do \in DosOf(w.job.tool)
  BY <1>5, <1>8
<1>12. \A a : (\E i \in DOMAIN t : t[i].do = a) => \E i \in DOMAIN s : s[i].do = a
  BY <1>8
<1>13. do \in DosOf(w.job.tool) /\ (do = "edit" => \E i \in DOMAIN s : s[i].do = "edit")
  BY <1>3, <1>5, <1>6, <1>7
<1> QED BY <1>1, <1>2, <1>3, <1>4, <1>5, <1>6, <1>7, <1>9, <1>10, <1>11, <1>12, <1>13 DEF w, s, t, needs

\* What a process may write down beside its copies.
Noted(w, v) ==
  /\ v \in Works /\ v.job = w.job /\ v.script = w.script /\ v.kept = w.kept

\* Copies that a process may have when it has done the head of its script.
Fits(p, do, mem) ==
  /\ \A f \in Files : work[p].mem[f] # Closed => mem[f] # Closed \/ do \in {"close", "unlock", "edit"}
  /\ do \in Opens => mem[Now(p)] # Closed
  /\ ~IsMap(work[p]) => \A f \in Files : mem[f] # Closed => owner'[f] = p
  /\ /\ ~IsMap(work[p]) /\ do \notin {"close", "unlock", "edit"}
     /\ \E i \in DOMAIN work[p].script : work[p].script[i].do = "edit"
     => \A f \in Files : mem[f] # Closed => mem[f] = Content(f)'

\* A process that has done the head of its script, and noted something.
LEMMA ProceedsNoting ==
  ASSUME SubIdsAssumption, SubIdsInv, NEW p \in Procs, Alone(p), NEW do, Doing(p, do),
         NEW u, Noted(work[p], u), NEW mem, u.mem = mem, Proceed(p, u),
         Fits(p, do, mem)
  PROVE  SubIdsInv'
<1>0. /\ \A f \in Files : work[p].mem[f] # Closed => mem[f] # Closed \/ do \in {"close", "unlock", "edit"}
      /\ do \in Opens => mem[Now(p)] # Closed
      /\ ~IsMap(work[p]) => \A f \in Files : mem[f] # Closed => owner'[f] = p
      /\ /\ ~IsMap(work[p]) /\ do \notin {"close", "unlock", "edit"}
         /\ \E i \in DOMAIN work[p].script : work[p].script[i].do = "edit"
         => \A f \in Files : mem[f] # Closed => mem[f] = Content(f)'
  BY DEF Fits
<1> DEFINE w == work[p]
           t == Tail(w.script)
           v == [u EXCEPT !.script = t]
<1>1. /\ w \in Works /\ w.script \in Seq(Calls) /\ w.script # <<>> /\ w.kept = FALSE
      /\ w.job \in Jobs /\ Head(w.script).do = do /\ Now(p) = Head(w.script).file /\ t \in Seq(Calls)
      /\ \A i \in DOMAIN t : t[i].do \in DosOf(w.job.tool)
      /\ Ready(w.script, w.mem, Needs(w.job.tool))
  BY DoingFact
<1>2. /\ (\E i \in DOMAIN t : t[i].do = "edit") => \E i \in DOMAIN w.script : w.script[i].do = "edit"
      /\ do \in {"close", "unlock", "edit"} => \A i \in DOMAIN t : t[i].do # "edit"
  <2>1. do \in {"close", "unlock", "edit"} => \A i \in DOMAIN t : t[i].do \notin Uses
    BY DoingFact
  <2>2. \A a : (\E i \in DOMAIN t : t[i].do = a) => \E i \in DOMAIN w.script : w.script[i].do = a
    BY DoingFact
  <2> QED BY <2>1, <2>2 DEF Uses
<1>3. Becomes(p, v)
  <2>1. [u EXCEPT !.script = Tail(@)] = v
    BY DEF Noted
  <2> QED BY <2>1 DEF Proceed
<1> HIDE DEF w
<1>4. v.job = w.job /\ v.kept = FALSE /\ v.mem = mem /\ v.script = t /\ v \in Works
  BY <1>1 DEF Works, Noted, w
<1>5. Ready(t, mem, Needs(w.job.tool))
  <2>1. Needs(w.job.tool) \subseteq Files
    BY NeedsFiles
  <2>2. \A f \in Files : w.mem[f] # Closed => mem[f] # Closed \/ Head(w.script).do \in {"close", "unlock", "edit"}
    BY <1>0, <1>1 DEF w
  <2>3. Head(w.script).do \in Opens => mem[Head(w.script).file] # Closed
    BY <1>0, <1>1
  <2> QED BY <1>1, <2>1, <2>2, <2>3, ReadyTail
<1> HIDE DEF v, t
<1>6. ~IsMap(v) => \A f \in Files : v.mem[f] # Closed => owner'[f] = p
  BY <1>0, <1>4 DEF IsMap, w
<1>7. ~IsMap(v) /\ (\E i \in DOMAIN v.script : v.script[i].do = "edit") =>
         \A f \in Files : v.mem[f] # Closed => v.mem[f] = Content(f)'
  BY <1>0, <1>2, <1>4 DEF IsMap, w
<1>8. /\ v.job \in Jobs /\ \A i \in DOMAIN v.script : v.script[i].do \in DosOf(v.job.tool)
      /\ Ready(v.script, v.mem, Needs(v.job.tool)) /\ ~v.kept /\ v \in Works
  BY <1>1, <1>4, <1>5
<1> QED BY <1>3, <1>6, <1>7, <1>8, GoesOn

\* A process that has done the head of its script.
LEMMA Proceeds ==
  ASSUME SubIdsAssumption, SubIdsInv, NEW p \in Procs, Alone(p), NEW do, Doing(p, do),
         NEW mem \in Mems, Proceed(p, [work[p] EXCEPT !.mem = mem]),
         \A f \in Files : work[p].mem[f] # Closed => mem[f] # Closed \/ do \in {"close", "unlock", "edit"},
         do \in Opens => mem[Now(p)] # Closed,
         ~IsMap(work[p]) => \A f \in Files : mem[f] # Closed => owner'[f] = p,
         /\ ~IsMap(work[p]) /\ do \notin {"close", "unlock", "edit"}
         /\ \E i \in DOMAIN work[p].script : work[p].script[i].do = "edit"
         => \A f \in Files : mem[f] # Closed => mem[f] = Content(f)'
  PROVE  SubIdsInv'
<1> DEFINE u == [work[p] EXCEPT !.mem = mem]
<1>1. work[p] \in Works
  BY DoingFact
<1>2. Noted(work[p], u) /\ u.mem = mem
  BY <1>1 DEF Works, Noted
<1>3. Proceed(p, u)
  OBVIOUS
<1> HIDE DEF u
<1>4. Fits(p, do, mem)
  BY DEF Fits
<1> QED BY <1>2, <1>3, <1>4, ProceedsNoting

(***************************************************************************)
(* The invariant: each action.                                             *)
(***************************************************************************)
\* In the beginning nobody does anything, and what is shared is known.
LEMMA InitFact ==
  ASSUME SubIdsAssumption, Init
  PROVE  SubIdsInv /\ SharedOK
<1>1. passwd \in Tables
  <2>1. Passwd0 \in [DOMAIN Passwd0 -> Nat] /\ DOMAIN Passwd0 \cap DOMAIN NumberOf = {}
    BY DEF SubIdsAssumption
  <2>2. DOMAIN Passwd0 \subseteq UserNames
    BY DEF UserNames
  <2>3. Passwd0 \in Tables
    BY <2>1, <2>2, TableFact
  <2> QED BY <2>3 DEF Init
<1>2. sub \in Seq(SubRange) \cup {Absent}
  BY DEF Init, SubIdsAssumption
<1>3. /\ Idle \in Works /\ ScriptOK(Idle) /\ Idle.mem.sub = Closed
      /\ Idle.script = <<>> /\ \A f \in Files : Idle.mem[f] = Closed
  BY IdleFact
<1>4. \A p \in Procs : work[p] = Idle
  BY DEF Init
<1>5. work \in [Procs -> Works] /\ owner \in [Files -> Procs \cup {None}]
  BY <1>3 DEF Init
<1>6. \A p \in Procs : ScriptOK(work[p]) /\ LockedOK(p) /\ FreshOK(p)
  BY <1>3, <1>4 DEF LockedOK, FreshOK
<1>7. SubIdsInv
  BY <1>1, <1>2, <1>5, <1>6 DEF SubIdsInv, FilesOK
<1>8. sub # Absent => manual = SharedIds(sub)
  BY DEF Init
<1>9. SharedOK
  BY <1>3, <1>4, <1>8 DEF SharedOK
<1> QED BY <1>7, <1>9

\* What is in a file when nothing is written.
LEMMA SameContent == ASSUME UNCHANGED <<passwd, sub>> PROVE \A f : Content(f)' = Content(f)
BY DEF Content

\* A step that leaves the files and the locks alone disturbs nobody else.
LEMMA AloneSame ==
  ASSUME SubIdsInv, NEW p \in Procs, UNCHANGED <<passwd, sub, owner>>
  PROVE  Alone(p)
<1>1. \A f : Content(f)' = Content(f)
  BY SameContent
<1>2. passwd' \in Tables /\ sub' \in Seq(SubRange) \cup {Absent} /\ owner' \in [Files -> Procs \cup {None}]
  BY DEF SubIdsInv, FilesOK
<1> QED BY <1>1, <1>2 DEF Alone

\* The calls of the tools that take locks.
LEMMA NotMap ==
  ASSUME NEW tool, NEW do \in DosOf(tool), do \in {"test", "lock", "open", "edit", "close", "unlock"}
  PROVE  /\ tool \notin Maps /\ "unlock" \in DosOf(tool)
         /\ do = "test" => tool \notin {"grant", "ungrant"}
<1>1. do \notin {"read", "verify", "setgroups", "map"}
  BY DEF DosOf
<1>2. tool \notin Maps
  BY <1>1 DEF DosOf
<1> QED BY <1>2 DEF DosOf

\* What a process that takes locks has open is locked, and fresh before the edit.
LEMMA LockedFact ==
  ASSUME SubIdsInv, NEW p \in Procs, ~IsMap(work[p])
  PROVE  /\ \A f \in Files : work[p].mem[f] # Closed => owner[f] = p
         /\ (\E i \in DOMAIN work[p].script : work[p].script[i].do = "edit") =>
               \A f \in Files : work[p].mem[f] # Closed => work[p].mem[f] = Content(f)
BY DEF SubIdsInv, LockedOK, FreshOK

\* A tool that gives up unlocks what it has.
LEMMA GivesUp ==
  ASSUME SubIdsAssumption, SubIdsInv, NEW p \in Procs, NEW do, Doing(p, do),
         do \in {"lock", "open", "edit", "close"}, FailExit(p), UNCHANGED <<passwd, sub, owner>>
  PROVE  SubIdsInv'
<1> DEFINE w == work[p]
           order == <<"sub", "passwd">>
<1>1. /\ w \in Works /\ w.kept = FALSE /\ w.job \in Jobs /\ do \in DosOf(w.job.tool)
  BY DoingFact
<1>2. w.job.tool \notin Maps /\ "unlock" \in DosOf(w.job.tool)
  BY <1>1, NotMap
<1>3. order \in Seq(Files)
  <2>1. "sub" \in Files /\ "passwd" \in Files
    BY DEF Files
  <2> QED BY <2>1, Pair
<1>4. PICK s : s = UnlockHeld(order, owner, p)
  OBVIOUS
<1>5. Becomes(p, [w EXCEPT !.script = s])
  BY <1>4 DEF FailExit
<1> HIDE DEF order
<1>6. \A f \in Files : Call("unlock", f) \in Calls
  BY DEF Call, Calls
<1>7. s \in Seq(Calls) /\ \A c \in Range(s) : c.do = "unlock"
  <2> DEFINE quits == {}
  <2>1. "unlock" \notin quits
    OBVIOUS
  <2> HIDE DEF quits
  <2> QED BY <1>3, <1>4, <1>6, <2>1, UnlockHeldCalls
<1>8. \A i \in DOMAIN s : s[i].do = "unlock"
  BY <1>7 DEF Range
<1> DEFINE v == [w EXCEPT !.script = s]
<1>9. v \in Works /\ v.job = w.job /\ v.mem = w.mem /\ v.kept = FALSE /\ v.script = s
  BY <1>1, <1>7 DEF Works
<1>10. Ready(s, w.mem, Needs(w.job.tool))
  BY <1>8 DEF Ready, Uses
<1>11. Alone(p)
  BY AloneSame
<1>12. \A f \in Files : w.mem[f] # Closed => owner'[f] = p
  <2>1. ~IsMap(work[p])
    BY <1>2 DEF IsMap
  <2> QED BY <2>1, LockedFact
<1>13. Becomes(p, v)
  BY <1>5
<1> HIDE DEF w, v
<1>14. \A i \in DOMAIN v.script : v.script[i].do \in DosOf(v.job.tool)
  BY <1>2, <1>8, <1>9
<1>15. ~(\E i \in DOMAIN v.script : v.script[i].do = "edit")
  BY <1>8, <1>9
<1>16. Ready(v.script, v.mem, Needs(v.job.tool)) /\ v.job \in Jobs /\ ~v.kept
  BY <1>1, <1>9, <1>10
<1>17. ~IsMap(v) => \A f \in Files : v.mem[f] # Closed => owner'[f] = p
  BY <1>9, <1>12
<1> QED BY <1>9, <1>11, <1>13, <1>14, <1>15, <1>16, <1>17, GoesOn

\* A tool is started.
LEMMA StartKeeps ==
  ASSUME SubIdsAssumption, SubIdsInv, NEW p \in Procs, Start(p)
  PROVE  SubIdsInv'
<1>1. PICK job \in Jobs : Becomes(p, [Idle EXCEPT !.job = job, !.script = Script(job)])
  BY DEF Start
<1> DEFINE v == [Idle EXCEPT !.job = job, !.script = Script(job)]
<1>2. /\ Does(Script(job), DosOf(job.tool)) /\ Script(job) # <<>>
      /\ Ready(Script(job), Idle.mem, Needs(job.tool))
  BY ScriptFact
<1>3. Idle \in Works /\ Idle.kept = FALSE /\ \A f \in Files : Idle.mem[f] = Closed
  BY IdleFact
<1>4. PICK s : s = Script(job)
  OBVIOUS
<1>5. s \in Seq(Calls) /\ \A i \in DOMAIN s : s[i].do \in DosOf(job.tool)
  BY <1>2, <1>4 DEF Does
<1>6. v.job = job /\ v.script = s /\ v.kept = FALSE /\ v.mem = Idle.mem /\ v \in Works
  BY <1>3, <1>4, <1>5 DEF Works
<1>7. Alone(p)
  BY AloneSame DEF Start
<1>8. \A f \in Files : v.mem[f] = Closed
  BY <1>3, <1>6
<1>9. Becomes(p, v)
  BY <1>1
<1> HIDE DEF v
<1>10. Ready(v.script, v.mem, Needs(v.job.tool)) /\ v.job \in Jobs /\ ~v.kept
  BY <1>2, <1>4, <1>6
<1>11. \A i \in DOMAIN v.script : v.script[i].do \in DosOf(v.job.tool)
  BY <1>5, <1>6
<1> QED BY <1>6, <1>7, <1>8, <1>9, <1>10, <1>11, GoesOn

\* The head of the script has no effect on the copies, but something is noted.
LEMMA NotesSame ==
  ASSUME SubIdsAssumption, SubIdsInv, NEW p \in Procs, NEW do, Doing(p, do), do \notin Opens,
         NEW u, Noted(work[p], u), u.mem = work[p].mem,
         Proceed(p, u), UNCHANGED <<passwd, sub>>, Alone(p),
         ~IsMap(work[p]) => \A f \in Files : work[p].mem[f] # Closed => owner'[f] = p
  PROVE  SubIdsInv'
<1>1. ~IsMap(work[p]) /\ (\E i \in DOMAIN work[p].script : work[p].script[i].do = "edit")
        => \A f \in Files : work[p].mem[f] # Closed => work[p].mem[f] = Content(f)'
  BY LockedFact, SameContent
<1>2. PICK m : m = work[p].mem
  OBVIOUS
<1>3. Fits(p, do, m)
  BY <1>1, <1>2 DEF Fits
<1> QED BY <1>2, <1>3, ProceedsNoting

\* The head of the script has no effect on what the process has.
LEMMA ProceedsSame ==
  ASSUME SubIdsAssumption, SubIdsInv, NEW p \in Procs, NEW do, Doing(p, do), do \notin Opens,
         Proceed(p, work[p]), UNCHANGED <<passwd, sub>>, Alone(p),
         ~IsMap(work[p]) => \A f \in Files : work[p].mem[f] # Closed => owner'[f] = p
  PROVE  SubIdsInv'
<1>1. work[p] \in Works
  BY DoingFact
<1>2. PICK u : u = work[p]
  OBVIOUS
<1>3. Noted(work[p], u) /\ u.mem = work[p].mem /\ Proceed(p, u)
  BY <1>1, <1>2 DEF Noted
<1> QED BY <1>3, NotesSame

\* Who is asked for is looked up, before anything is locked.
LEMMA CheckKeeps ==
  ASSUME SubIdsAssumption, SubIdsInv, NEW p \in Procs, CheckUser(p)
  PROVE  SubIdsInv'
<1> DEFINE w == work[p]
           uid == IF w.job.tool = "usermod" THEN passwd[w.job.name] ELSE w.uid
           u == [w EXCEPT !.uid = uid]
<1>1. Doing(p, "check") /\ UNCHANGED <<passwd, sub, owner>>
  BY DEF CheckUser
<1>2. w \in Works /\ w.job \in Jobs
  BY <1>1, DoingFact
<1>3. Alone(p)
  BY <1>1, AloneSame
<1>4. CASE Becomes(p, Idle)
  <2>1. work' = [work EXCEPT ![p] = Idle]
    BY <1>4 DEF Becomes, Idle
  <2> QED BY <1>3, <2>1, Stops
<1>5. CASE (w.job.tool = "usermod" => w.job.name \in DOMAIN passwd) /\ Proceed(p, u)
  <2>1. uid \in Nat
    <3>1. passwd \in Tables
      BY DEF SubIdsInv, FilesOK
    <3>2. passwd \in [DOMAIN passwd -> Nat]
      BY <3>1, TableFact
    <3>3. w.uid \in Nat
      BY <1>2 DEF Works
    <3> QED BY <1>5, <3>2, <3>3
  <2> HIDE DEF uid
  <2>2. Noted(w, u) /\ u.mem = w.mem
    BY <1>2, <2>1 DEF Works, Noted
  <2> DEFINE do == "check"
  <2>3. Doing(p, do) /\ do \notin Opens /\ UNCHANGED <<passwd, sub>>
    BY <1>1 DEF Opens
  <2>4. ~IsMap(work[p]) => \A f \in Files : work[p].mem[f] # Closed => owner'[f] = p
    BY <1>1, LockedFact
  <2>5. Noted(work[p], u) /\ u.mem = work[p].mem /\ Proceed(p, u)
    BY <1>5, <2>2
  <2> HIDE DEF do, u, w
  <2> QED BY <1>3, <2>3, <2>4, <2>5, NotesSame
<1>6. Becomes(p, Idle) \/ ((w.job.tool = "usermod" => w.job.name \in DOMAIN passwd) /\ Proceed(p, u))
  BY DEF CheckUser
<1> QED BY <1>4, <1>5, <1>6

\* The subordinate file is not needed when it is not there.
LEMMA TestKeeps ==
  ASSUME SubIdsAssumption, SubIdsInv, NEW p \in Procs, TestFile(p)
  PROVE  SubIdsInv'
<1> DEFINE w == work[p]
           t == Tail(w.script)
           s == Without(t, "sub")
           v == [w EXCEPT !.script = s]
<1>1. Doing(p, "test") /\ UNCHANGED <<passwd, sub, owner>>
  BY DEF TestFile
<1>2. /\ w \in Works /\ w.script \in Seq(Calls) /\ w.script # <<>> /\ w.kept = FALSE
      /\ w.job \in Jobs /\ Head(w.script).do = "test" /\ "test" \in DosOf(w.job.tool)
      /\ t \in Seq(Calls) /\ Ready(w.script, w.mem, Needs(w.job.tool)) /\ w.mem \in Mems
      /\ \A i \in DOMAIN t : t[i].do \in DosOf(w.job.tool)
  BY <1>1, DoingFact
<1>3. (\E i \in DOMAIN t : t[i].do = "edit") => \E i \in DOMAIN w.script : w.script[i].do = "edit"
  <2>1. \A a : (\E i \in DOMAIN t : t[i].do = a) => \E i \in DOMAIN w.script : w.script[i].do = a
    BY <1>1, DoingFact
  <2> QED BY <2>1
<1>4. Alone(p)
  BY <1>1, AloneSame
<1>5. w.job.tool \notin Maps /\ w.job.tool \notin {"grant", "ungrant"}
  BY <1>2, NotMap
<1>6. /\ \A f \in Files : w.mem[f] # Closed => owner'[f] = p
      /\ (\E i \in DOMAIN w.script : w.script[i].do = "edit") =>
            \A f \in Files : w.mem[f] # Closed => w.mem[f] = Content(f)'
  <2>1. ~IsMap(work[p])
    BY <1>5 DEF IsMap
  <2>2. \A f : Content(f)' = Content(f)
    BY <1>1, SameContent
  <2> QED BY <1>1, <2>1, <2>2, LockedFact
<1>7. CASE Proceed(p, w)
  BY <1>1, <1>4, <1>6, <1>7, ProceedsSame DEF Opens
<1>8. CASE Becomes(p, Idle)
  <2>1. work' = [work EXCEPT ![p] = Idle]
    BY <1>8 DEF Becomes, Idle
  <2> QED BY <1>4, <2>1, Stops
<1>9. CASE w.job.tool # "usermod" /\ Becomes(p, [w EXCEPT !.script = Without(Tail(@), "sub")])
  <2>1. [w EXCEPT !.script = Without(Tail(@), "sub")] = v
    BY <1>2 DEF Works
  <2>2. w.job.tool \in {"useradd", "newusers", "userdel"}
    <3>1. w.job.tool \in Tools
      BY <1>2, JobFact
    <3> QED BY <1>5, <1>9, <3>1 DEF Tools, Maps
  <2>3. Needs(w.job.tool) = {"passwd"}
    BY <2>2 DEF Needs
  <2>4. Ready(t, w.mem, Needs(w.job.tool))
    <3>1. Needs(w.job.tool) \subseteq Files /\ Head(w.script).do \notin Opens
      BY <1>2, NeedsFiles DEF Opens
    <3> DEFINE mem == w.mem
               needs == Needs(w.job.tool)
               script == w.script
    <3>2. /\ script \in Seq(Calls) /\ script # <<>> /\ Ready(script, mem, needs) /\ needs \subseteq Files
          /\ Head(script).do \notin Opens /\ t = Tail(script)
      BY <1>2, <3>1
    <3> HIDE DEF mem, needs, script, t
    <3>3. Ready(t, mem, needs)
      BY <3>2, ReadyTail
    <3> QED BY <3>3 DEF mem, needs
  <2> HIDE DEF t
  <2>5. PICK file : file = "sub"
    OBVIOUS
  <2>6. s \in Seq(Calls) /\ Range(s) \subseteq Range(t)
    <3>1. Without(t, file) \in Seq(Calls) /\ Range(Without(t, file)) \subseteq Range(t)
      BY <1>2, WithoutCalls
    <3> QED BY <2>5, <3>1
  <2>7. Ready(s, w.mem, Needs(w.job.tool))
    <3> DEFINE mem == w.mem
               needs == {"passwd"}
    <3>1. file \notin needs /\ Ready(t, mem, needs)
      BY <2>3, <2>4, <2>5
    <3> HIDE DEF mem, needs
    <3>2. Ready(Without(t, file), mem, needs)
      BY <1>2, <3>1, ReadyWithout
    <3> QED BY <2>3, <2>5, <3>2 DEF mem, needs
  <2> HIDE DEF s
  <2>8. \A a : (\E i \in DOMAIN s : s[i].do = a) => \E i \in DOMAIN t : t[i].do = a
    BY <2>6 DEF Range
  <2>9. v.job = w.job /\ v.script = s /\ v.kept = FALSE /\ v.mem = w.mem /\ v \in Works
    BY <1>2, <2>6 DEF Works
  <2> HIDE DEF v, w
  <2>10. \A i \in DOMAIN v.script : v.script[i].do \in DosOf(v.job.tool)
    BY <1>2, <2>8, <2>9
  <2>11. Ready(v.script, v.mem, Needs(v.job.tool)) /\ v.job \in Jobs /\ ~v.kept /\ Becomes(p, v)
    BY <1>2, <1>9, <2>1, <2>7, <2>9
  <2>12. /\ \A f \in Files : v.mem[f] # Closed => owner'[f] = p
         /\ (\E i \in DOMAIN v.script : v.script[i].do = "edit") =>
              \A f \in Files : v.mem[f] # Closed => v.mem[f] = Content(f)'
    BY <1>3, <1>6, <2>8, <2>9
  <2> QED BY <1>4, <2>9, <2>10, <2>11, <2>12, GoesOn
<1> QED BY <1>7, <1>8, <1>9 DEF TestFile

\* A lock is taken that nobody has.
LEMMA LockKeeps ==
  ASSUME SubIdsAssumption, SubIdsInv, NEW p \in Procs, LockFile(p)
  PROVE  SubIdsInv'
<1> DEFINE f == Now(p)
<1>1. Doing(p, "lock") /\ owner[f] = None /\ owner' = [owner EXCEPT ![f] = p] /\ Proceed(p, work[p])
      /\ UNCHANGED <<passwd, sub>>
  BY DEF LockFile
<1>2. /\ work[p].job \in Jobs /\ Head(work[p].script).do = "lock" /\ "lock" \in DosOf(work[p].job.tool)
      /\ Head(work[p].script) \in Calls /\ f = Head(work[p].script).file
  BY <1>1, DoingFact
<1>3. f \in Files
  BY <1>2 DEF Calls, Uses
<1>4. None \notin Procs
  BY DEF SubIdsAssumption
<1> HIDE DEF f
<1>5. owner \in [Files -> Procs \cup {None}] /\ passwd \in Tables /\ sub \in Seq(SubRange) \cup {Absent}
  BY DEF SubIdsInv, FilesOK
<1>6. owner' \in [Files -> Procs \cup {None}] /\ owner'[f] = p /\ \A g \in Files : g # f => owner'[g] = owner[g]
  BY <1>1, <1>3, <1>5
<1>7. Alone(p)
  <2>1. \A g : Content(g)' = Content(g)
    BY <1>1, SameContent
  <2>2. \A q \in Procs \ {p} : \A g \in Files : owner[g] = q => owner'[g] = q
    BY <1>1, <1>4, <1>6
  <2> QED BY <1>1, <1>5, <1>6, <2>1, <2>2 DEF Alone
<1>8. ~IsMap(work[p])
  BY <1>2, NotMap DEF IsMap
<1>9. \A g \in Files : work[p].mem[g] # Closed => owner'[g] = p
  BY <1>6, <1>8, LockedFact
<1> QED BY <1>1, <1>7, <1>9, ProceedsSame DEF Opens

\* A file is read, and it is there.
LEMMA OpenKeeps ==
  ASSUME SubIdsAssumption, SubIdsInv, NEW p \in Procs, OpenFile(p)
  PROVE  SubIdsInv'
<1> DEFINE f == Now(p)
           w == work[p]
           m == [w.mem EXCEPT ![f] = Content(f)]
<1>1. PICK do \in {"read", "open"} : Doing(p, do) /\ (do = "open" => owner[Now(p)] = p)
  BY DEF OpenFile
<1>2. /\ w \in Works /\ w.job \in Jobs /\ w.mem \in Mems /\ do \in DosOf(w.job.tool)
      /\ Head(w.script) \in Calls /\ f = Head(w.script).file /\ Head(w.script).do = do
  BY <1>1, DoingFact
<1>3. f \in Files
  BY <1>1, <1>2 DEF Calls, Uses
<1>4. UNCHANGED <<passwd, sub, owner>> /\ Proceed(p, [w EXCEPT !.mem[f] = Content(f)])
  BY DEF OpenFile
<1>5. Alone(p) /\ \A g : Content(g)' = Content(g)
  BY <1>4, AloneSame, SameContent
<1>6. /\ Content("passwd") \in Tables /\ Content("sub") \in Seq(SubRange)
      /\ Content("passwd") # Closed /\ Content("sub") # Closed
  <2>1. passwd \in Tables /\ sub \in Seq(SubRange) \cup {Absent}
    BY DEF SubIdsInv, FilesOK
  <2>2. passwd # Closed /\ Closed \notin Seq(SubRange)
    <3>1. passwd \in [DOMAIN passwd -> Nat] /\ DOMAIN passwd \subseteq UserNames
      BY <2>1, TableFact
    <3> QED BY <3>1 DEF SubIdsAssumption
  <2>3. Content("sub") \in Seq(SubRange)
    BY <2>1 DEF Content
  <2> QED BY <2>1, <2>2, <2>3 DEF Content
<1>7. /\ w.mem = [passwd |-> w.mem.passwd, sub |-> w.mem.sub]
      /\ w.mem.passwd \in Tables \cup {Closed} /\ w.mem.sub \in Seq(SubRange) \cup {Closed}
  BY <1>2 DEF Mems
<1> HIDE DEF w, f
<1>8. m \in Mems /\ m[f] = Content(f) /\ Content(f) # Closed /\ \A g \in Files : g # f => m[g] = w.mem[g]
  <2>1. CASE f = "passwd"
    <3>1. m = [passwd |-> Content("passwd"), sub |-> w.mem.sub]
      BY <1>7, <2>1
    <3>2. m \in Mems
      BY <1>6, <1>7, <3>1 DEF Mems
    <3> QED BY <1>6, <1>7, <2>1, <3>1, <3>2 DEF Files
  <2>2. CASE f = "sub"
    <3>1. m = [passwd |-> w.mem.passwd, sub |-> Content("sub")]
      BY <1>7, <2>2
    <3>2. m \in Mems
      BY <1>6, <1>7, <3>1 DEF Mems
    <3> QED BY <1>6, <1>7, <2>2, <3>1, <3>2 DEF Files
  <2> QED BY <1>3, <2>1, <2>2 DEF Files
<1>9. Proceed(p, [w EXCEPT !.mem = m])
  <2>1. [w EXCEPT !.mem[f] = Content(f)] = [w EXCEPT !.mem = m]
    OBVIOUS
  <2> QED BY <1>4, <2>1
<1> HIDE DEF m
<1>10. ~IsMap(w) => owner[f] = p
  <2> SUFFICES ASSUME ~IsMap(w) PROVE owner[f] = p
    OBVIOUS
  <2>1. do # "read"
    BY <1>2 DEF DosOf, IsMap
  <2> QED BY <1>1, <2>1 DEF f
<1>11. ~IsMap(w) => \A g \in Files : m[g] # Closed => owner'[g] = p
  BY <1>4, <1>8, <1>10, LockedFact DEF w
<1>12. ~IsMap(w) /\ (\E i \in DOMAIN w.script : w.script[i].do = "edit") =>
         \A g \in Files : m[g] # Closed => m[g] = Content(g)'
  BY <1>5, <1>8, LockedFact DEF w
<1>13. \A g \in Files : w.mem[g] # Closed => m[g] # Closed
  BY <1>8
<1>14. /\ Proceed(p, [work[p] EXCEPT !.mem = m]) /\ m[Now(p)] # Closed
       /\ \A g \in Files : work[p].mem[g] # Closed => m[g] # Closed \/ do \in {"close", "unlock", "edit"}
       /\ ~IsMap(work[p]) => \A g \in Files : m[g] # Closed => owner'[g] = p
  BY <1>8, <1>9, <1>11, <1>13 DEF w, f
<1>15. /\ ~IsMap(work[p]) /\ do \notin {"close", "unlock", "edit"}
       /\ \E i \in DOMAIN work[p].script : work[p].script[i].do = "edit"
       => \A g \in Files : m[g] # Closed => m[g] = Content(g)'
  BY <1>12 DEF w
<1>16. do \in Opens => m[Now(p)] # Closed
  BY <1>14
<1> DEFINE call == do
<1>17. /\ Doing(p, call) /\ (call \in Opens => m[Now(p)] # Closed)
       /\ \A g \in Files : work[p].mem[g] # Closed => m[g] # Closed \/ call \in {"close", "unlock", "edit"}
  BY <1>1, <1>14, <1>16
<1>18. /\ ~IsMap(work[p]) /\ call \notin {"close", "unlock", "edit"}
       /\ \E i \in DOMAIN work[p].script : work[p].script[i].do = "edit"
       => \A g \in Files : m[g] # Closed => m[g] = Content(g)'
  BY <1>15
<1> HIDE DEF call
<1> QED BY <1>5, <1>8, <1>14, <1>17, <1>18, Proceeds

\* new_subid_range keeps the file open.
LEMMA ReuseKeeps ==
  ASSUME SubIdsAssumption, SubIdsInv, NEW p \in Procs, ReuseRange(p)
  PROVE  SubIdsInv'
<1> DEFINE w == work[p]
           v == [w EXCEPT !.script = <<>>, !.kept = TRUE]
<1>1. Doing(p, "edit") /\ w.job.tool = "grant" /\ Becomes(p, v) /\ UNCHANGED <<passwd, sub, owner>>
  BY DEF ReuseRange
<1>2. /\ w \in Works /\ w.job \in Jobs /\ w.mem \in Mems
      /\ \A f \in Needs(w.job.tool) : w.mem[f] # Closed
  <2>1. "edit" \in Uses
    BY DEF Uses
  <2> QED BY <1>1, <2>1, DoingFact
<1>3. w.mem.sub # Closed /\ w.job.tool \notin Maps
  BY <1>1, <1>2 DEF Needs, Maps
<1>4. v.job = w.job /\ v.mem = w.mem /\ v.script = <<>> /\ v.kept = TRUE /\ v \in Works
  <2>1. PICK yes \in BOOLEAN : yes = TRUE
    OBVIOUS
  <2>11. <<>> \in Seq(Calls)
    BY EmptySeq
  <2>10. PICK none \in Seq(Calls) : none = <<>>
    BY <2>11
  <2> DEFINE u == [w EXCEPT !.script = none, !.kept = yes]
  <2>2. u.job = w.job /\ u.mem = w.mem /\ u.script = none /\ u.kept = yes /\ u \in Works
    BY <1>2 DEF Works
  <2>3. u = v
    BY <2>1, <2>10
  <2> HIDE DEF u, v
  <2> QED BY <2>1, <2>2, <2>3, <2>10
<1>5. Alone(p)
  BY <1>1, AloneSame
<1>6. \A f \in Files : w.mem[f] # Closed => owner'[f] = p
  <2>1. ~IsMap(work[p])
    BY <1>3 DEF IsMap
  <2> QED BY <1>1, <2>1, LockedFact
<1> HIDE DEF v
<1>7. work' = [work EXCEPT ![p] = v]
  BY <1>1, <1>4 DEF Becomes
<1>8. ScriptOK(v)
  BY <1>2, <1>3, <1>4 DEF ScriptOK
<1> HIDE DEF w
<1>9. \A f \in Files : v.mem[f] # Closed => owner'[f] = p
  BY <1>4, <1>6
<1>10. ~(\E i \in DOMAIN v.script : v.script[i].do = "edit")
  BY <1>4
<1> QED BY <1>4, <1>5, <1>7, <1>8, <1>9, <1>10, StepOf

\* The copies are changed.
LEMMA EditKeeps ==
  ASSUME SubIdsAssumption, SubIdsInv, NEW p \in Procs, EditFiles(p)
  PROVE  SubIdsInv'
<1> DEFINE w == work[p]
<1>1. Doing(p, "edit") /\ UNCHANGED <<passwd, sub, owner>>
  BY DEF EditFiles
<1>2. CASE FailExit(p)
  BY <1>1, <1>2, GivesUp
<1>3. ASSUME NEW mem \in EditsOf(w.job, w.mem, w.uid), Proceed(p, [w EXCEPT !.mem = mem])
      PROVE  SubIdsInv'
  <2>1. /\ w \in Works /\ w.job \in Jobs /\ w.mem \in Mems /\ "edit" \in DosOf(w.job.tool)
        /\ \A f \in Needs(w.job.tool) : w.mem[f] # Closed
        /\ \E i \in DOMAIN w.script : w.script[i].do = "edit"
    <3>1. "edit" \in Uses
      BY DEF Uses
    <3> QED BY <1>1, <3>1, DoingFact
  <2>2. w.job.tool \notin Maps
    BY <2>1, NotMap
  <2>3. /\ \A f \in Files : w.mem[f] # Closed => owner[f] = p
        /\ \A f \in Files : w.mem[f] # Closed => w.mem[f] = Content(f)
    <3>1. ~IsMap(work[p])
      BY <2>2 DEF IsMap
    <3> QED BY <2>1, <3>1, LockedFact
  <2>4. w.uid \in Nat
    BY <2>1 DEF Works
  <2>6. /\ mem \in Mems /\ (w.mem.passwd = Closed => mem.passwd = Closed)
        /\ w.mem.sub = Closed => mem.sub = Closed
    <3> DEFINE job == w.job
               m == w.mem
               uid == w.uid
    <3>1. /\ job \in Jobs /\ job.tool \notin Maps /\ m \in Mems /\ mem \in EditsOf(job, m, uid)
          /\ uid \in Nat /\ \A f \in Needs(job.tool) : m[f] # Closed
      BY <1>3, <2>1, <2>2, <2>4
    <3> HIDE DEF job, m, uid
    <3>2. mem \in Mems /\ (m.passwd = Closed => mem.passwd = Closed) /\ (m.sub = Closed => mem.sub = Closed)
      BY <3>1, EditFact
    <3> QED BY <3>2 DEF m
  <2>7. \A f \in Files : mem[f] # Closed => owner'[f] = p
    BY <1>1, <2>3, <2>6 DEF Files
  <2>8. Alone(p)
    BY <1>1, AloneSame
  <2>9. "edit" \notin Opens
    BY DEF Opens
  <2> QED BY <1>1, <1>3, <2>6, <2>7, <2>8, <2>9, Proceeds
<1> QED BY <1>2, <1>3 DEF EditFiles

\* The copies with one of them closed.
LEMMA ClosedOne ==
  ASSUME NEW m \in Mems, NEW f \in Files
  PROVE  /\ [m EXCEPT ![f] = Closed] \in Mems
         /\ \A g \in Files : [m EXCEPT ![f] = Closed][g] # Closed => g # f /\ [m EXCEPT ![f] = Closed][g] = m[g]
<1>0. /\ m = [passwd |-> m.passwd, sub |-> m.sub]
      /\ m.passwd \in Tables \cup {Closed} /\ m.sub \in Seq(SubRange) \cup {Closed}
  BY DEF Mems
<1>1. PICK t \in Tables \cup {Closed}, s \in Seq(SubRange) \cup {Closed} : m = [passwd |-> t, sub |-> s]
  BY <1>0
<1>2. CASE f = "passwd"
  <2>1. [m EXCEPT !["passwd"] = Closed] = [passwd |-> Closed, sub |-> s]
    BY <1>1
  <2>2. [passwd |-> Closed, sub |-> s] \in Mems
    BY <1>1 DEF Mems
  <2> QED BY <1>1, <1>2, <2>1, <2>2 DEF Files
<1>3. CASE f = "sub"
  <2>1. [m EXCEPT !["sub"] = Closed] = [passwd |-> t, sub |-> Closed]
    BY <1>1
  <2>2. [passwd |-> t, sub |-> Closed] \in Mems
    BY <1>1 DEF Mems
  <2> QED BY <1>1, <1>3, <2>1, <2>2 DEF Files
<1> QED BY <1>2, <1>3 DEF Files

\* A file is closed or unlocked: its copy is dropped.
LEMMA DropsCopy ==
  ASSUME SubIdsAssumption, SubIdsInv, NEW p \in Procs, NEW do \in {"close", "unlock"}, Doing(p, do),
         Proceed(p, [work[p] EXCEPT !.mem[Now(p)] = Closed]), Alone(p),
         \A g \in Files : g # Now(p) => owner'[g] = owner[g]
  PROVE  SubIdsInv'
<1> DEFINE f == Now(p)
           w == work[p]
           m == [w.mem EXCEPT ![f] = Closed]
<1>1. /\ w \in Works /\ w.mem \in Mems /\ Head(w.script) \in Calls /\ f = Head(w.script).file
      /\ Head(w.script).do = do
  BY DoingFact
<1>2. f \in Files
  BY <1>1 DEF Calls, Uses
<1>3. Proceed(p, [w EXCEPT !.mem = m])
  <2>1. [w EXCEPT !.mem[f] = Closed] = [w EXCEPT !.mem = m]
    OBVIOUS
  <2> QED BY <2>1
<1> DEFINE c == w.mem
<1>4. c \in Mems /\ m = [c EXCEPT ![f] = Closed]
  BY <1>1
<1> HIDE DEF c, f
<1>5. m \in Mems /\ \A g \in Files : m[g] # Closed => g # f /\ m[g] = c[g]
  <2>1. /\ [c EXCEPT ![f] = Closed] \in Mems
        /\ \A g \in Files : [c EXCEPT ![f] = Closed][g] # Closed => g # f /\ [c EXCEPT ![f] = Closed][g] = c[g]
    BY <1>2, <1>4, ClosedOne
  <2> HIDE DEF m
  <2> QED BY <1>4, <2>1
<1> HIDE DEF m
<1>6. ~IsMap(work[p]) => \A g \in Files : m[g] # Closed => owner'[g] = p
  <2>1. \A g \in Files : m[g] # Closed => g # Now(p) /\ work[p].mem[g] # Closed
    BY <1>5 DEF c, f
  <2> QED BY <2>1, LockedFact
<1>7. do \notin Opens
  BY DEF Opens
<1>8. Proceed(p, [work[p] EXCEPT !.mem = m])
  BY <1>3
<1> DEFINE call == do
<1>9. /\ Doing(p, call) /\ call \notin Opens /\ call \in {"close", "unlock", "edit"}
  BY <1>7
<1> HIDE DEF call
<1> QED BY <1>5, <1>6, <1>8, <1>9, Proceeds

\* A file is written, by the process that has it locked: no other has a copy
\* to edit.
LEMMA CloseKeeps ==
  ASSUME SubIdsAssumption, SubIdsInv, NEW p \in Procs, CloseFile(p)
  PROVE  SubIdsInv'
<1> DEFINE f == Now(p)
           new == work[p].mem[f]
<1>1. /\ Doing(p, "close") /\ new # Closed /\ UNCHANGED owner
      /\ Proceed(p, [work[p] EXCEPT !.mem[f] = Closed])
      /\ f = "passwd" => passwd' = new /\ UNCHANGED sub
      /\ f # "passwd" => sub' = (IF sub = Absent /\ new = <<>> THEN Absent ELSE new) /\ UNCHANGED passwd
  BY DEF CloseFile
<1>2. /\ work[p].job \in Jobs /\ work[p].mem \in Mems /\ Head(work[p].script) \in Calls
      /\ f = Head(work[p].script).file /\ Head(work[p].script).do = "close" /\ "close" \in DosOf(work[p].job.tool)
  BY <1>1, DoingFact
<1>3. f \in Files
  BY <1>2 DEF Calls, Uses
<1>4. owner[f] = p
  <2>1. ~IsMap(work[p])
    BY <1>2, NotMap DEF IsMap
  <2> QED BY <1>1, <1>3, <2>1, LockedFact
<1>5. /\ f = "passwd" => new \in Tables
      /\ f = "sub" => new \in Seq(SubRange)
  BY <1>1, <1>2 DEF Mems
<1> HIDE DEF f
<1>6. f = "passwd" \/ f = "sub"
  BY <1>3 DEF Files
<1>7. passwd \in Tables /\ sub \in Seq(SubRange) \cup {Absent} /\ owner \in [Files -> Procs \cup {None}]
  BY DEF SubIdsInv, FilesOK
<1>8. passwd' \in Tables /\ sub' \in Seq(SubRange) \cup {Absent}
  BY <1>1, <1>5, <1>6, <1>7
<1>9. \A g \in Files : g # f => Content(g)' = Content(g)
  BY <1>1, <1>6 DEF Content, Files
<1>10. \A q \in Procs \ {p} : \A g \in Files : owner[g] = q => owner'[g] = q /\ Content(g)' = Content(g)
  BY <1>1, <1>4, <1>9
<1>11. Alone(p)
  BY <1>1, <1>7, <1>8, <1>10 DEF Alone
<1>12. \A g \in Files : g # Now(p) => owner'[g] = owner[g]
  BY <1>1
<1> QED BY <1>1, <1>11, <1>12, DropsCopy DEF f

\* A file that is unlocked is closed.
LEMMA UnlockKeeps ==
  ASSUME SubIdsAssumption, SubIdsInv, NEW p \in Procs, UnlockFile(p)
  PROVE  SubIdsInv'
<1> DEFINE f == Now(p)
<1>1. /\ Doing(p, "unlock") /\ owner' = [owner EXCEPT ![f] = IF @ = p THEN None ELSE @]
      /\ Proceed(p, [work[p] EXCEPT !.mem[f] = Closed]) /\ UNCHANGED <<passwd, sub>>
  BY DEF UnlockFile
<1>2. Head(work[p].script) \in Calls /\ f = Head(work[p].script).file /\ Head(work[p].script).do = "unlock"
  BY <1>1, DoingFact
<1>3. f \in Files
  BY <1>2 DEF Calls, Uses
<1> HIDE DEF f
<1>4. passwd \in Tables /\ sub \in Seq(SubRange) \cup {Absent} /\ owner \in [Files -> Procs \cup {None}]
  BY DEF SubIdsInv, FilesOK
<1>5. PICK o \in Procs \cup {None} : o = IF owner[f] = p THEN None ELSE owner[f]
  BY <1>3, <1>4
<1>6. owner' = [owner EXCEPT ![f] = o]
  BY <1>1, <1>5
<1>7. owner' \in [Files -> Procs \cup {None}] /\ owner'[f] = o /\ \A g \in Files : g # f => owner'[g] = owner[g]
  BY <1>3, <1>4, <1>6
<1>8. \A g : Content(g)' = Content(g)
  BY <1>1, SameContent
<1>9. \A q \in Procs \ {p} : \A g \in Files : owner[g] = q => owner'[g] = q /\ Content(g)' = Content(g)
  BY <1>5, <1>7, <1>8
<1>10. Alone(p)
  BY <1>1, <1>4, <1>7, <1>9 DEF Alone
<1> QED BY <1>1, <1>7, <1>10, DropsCopy DEF f

\* The steps of the map tools.
LEMMA MapKeeps ==
  ASSUME SubIdsAssumption, SubIdsInv, NEW p \in Procs, VerifyMap(p) \/ WriteSetgroups(p) \/ WriteMapping(p)
  PROVE  SubIdsInv'
<1>1. UNCHANGED <<passwd, sub, owner>>
  BY DEF VerifyMap, WriteSetgroups, WriteMapping
<1>2. Alone(p)
  BY <1>1, AloneSame
<1>3. CASE Becomes(p, Idle)
  <2>1. work' = [work EXCEPT ![p] = Idle]
    BY <1>3 DEF Becomes, Idle
  <2> QED BY <1>2, <2>1, Stops
<1>4. ASSUME NEW do \in {"verify", "setgroups"}, Doing(p, do),
             NEW u, Noted(work[p], u), u.mem = work[p].mem, Proceed(p, u)
      PROVE  SubIdsInv'
  <2>1. work[p].job \in Jobs /\ do \in DosOf(work[p].job.tool)
    BY <1>4, DoingFact
  <2>2. work[p].job.tool \in Maps
    BY <2>1 DEF DosOf
  <2>3. IsMap(work[p]) /\ do \notin Opens
    BY <2>1, <2>2 DEF IsMap, Opens
  <2> QED BY <1>1, <1>2, <1>4, <2>3, NotesSame
<1>5. CASE Doing(p, "verify") /\ \E allow \in BOOLEAN : Proceed(p, [work[p] EXCEPT !.allow = allow])
  <2>1. PICK allow \in BOOLEAN : Proceed(p, [work[p] EXCEPT !.allow = allow])
    BY <1>5
  <2>2. work[p] \in Works
    BY <1>5, DoingFact
  <2> DEFINE u == [work[p] EXCEPT !.allow = allow]
  <2>3. Noted(work[p], u) /\ u.mem = work[p].mem
    BY <2>2 DEF Works, Noted
  <2>4. Proceed(p, u)
    BY <2>1
  <2> HIDE DEF u
  <2> QED BY <1>4, <1>5, <2>3, <2>4
<1>6. CASE Doing(p, "setgroups") /\ Proceed(p, work[p])
  <2>1. work[p] \in Works
    BY <1>6, DoingFact
  <2>2. Noted(work[p], work[p])
    BY <2>1 DEF Noted
  <2> QED BY <1>4, <1>6, <2>2
<1>7. CASE VerifyMap(p)
  <2>1. PICK allow : allow = AllowSetgroups(passwd, work[p].mem.sub, work[p].job.name, work[p].job.add)
    OBVIOUS
  <2>2. allow \in BOOLEAN
    BY <2>1 DEF AllowSetgroups
  <2>3. Doing(p, "verify") /\ (Becomes(p, Idle) \/ Proceed(p, [work[p] EXCEPT !.allow = allow]))
    BY <1>7, <2>1 DEF VerifyMap
  <2> QED BY <1>3, <1>5, <2>2, <2>3
<1> QED BY <1>3, <1>6, <1>7 DEF WriteSetgroups, WriteMapping

\* The next call of a program that kept the file.
LEMMA AgainKeeps ==
  ASSUME SubIdsAssumption, SubIdsInv, NEW p \in Procs, CallAgain(p)
  PROVE  SubIdsInv'
<1>1. work[p].kept /\ owner' = [owner EXCEPT !["sub"] = None] /\ UNCHANGED <<passwd, sub>>
      /\ work' = [work EXCEPT ![p] = Idle]
  BY DEF CallAgain
<1>2. work[p].job.tool \notin Maps /\ work[p].mem.sub # Closed
  BY <1>1 DEF SubIdsInv, ScriptOK
<1>3. "sub" \in Files
  BY DEF Files
<1>4. owner["sub"] = p
  <2>1. ~IsMap(work[p]) /\ work[p].mem["sub"] # Closed
    BY <1>2 DEF IsMap
  <2> QED BY <1>3, <2>1, LockedFact
<1>5. passwd \in Tables /\ sub \in Seq(SubRange) \cup {Absent} /\ owner \in [Files -> Procs \cup {None}]
  BY DEF SubIdsInv, FilesOK
<1>6. owner' \in [Files -> Procs \cup {None}] /\ \A g \in Files : g # "sub" => owner'[g] = owner[g]
  BY <1>1, <1>3, <1>5
<1>7. \A g : Content(g)' = Content(g)
  BY <1>1, SameContent
<1>8. \A q \in Procs \ {p} : \A g \in Files : owner[g] = q => owner'[g] = q /\ Content(g)' = Content(g)
  BY <1>4, <1>6, <1>7
<1>9. Alone(p)
  BY <1>1, <1>5, <1>6, <1>8 DEF Alone
<1> QED BY <1>1, <1>9, Stops

\* A call fails, and the tool unlocks what it has.
LEMMA FailsKeeps ==
  ASSUME SubIdsAssumption, SubIdsInv, NEW p \in Procs, CallFails(p)
  PROVE  SubIdsInv'
<1>1. UNCHANGED <<passwd, sub, owner>>
  BY DEF CallFails
<1>2. PICK do \in {"lock", "open", "close"} : Doing(p, do)
  BY DEF CallFails
<1>3. CASE FailExit(p)
  BY <1>1, <1>2, <1>3, GivesUp
<1>4. CASE Doing(p, "close") /\ Proceed(p, work[p])
  <2>1. work[p].job \in Jobs /\ "close" \in DosOf(work[p].job.tool)
    BY <1>4, DoingFact
  <2>2. ~IsMap(work[p]) /\ "close" \notin Opens
    BY <2>1, NotMap DEF IsMap, Opens
  <2>3. \A f \in Files : work[p].mem[f] # Closed => owner'[f] = p
    BY <1>1, <2>2, LockedFact
  <2>4. Alone(p)
    BY <1>1, AloneSame
  <2> QED BY <1>1, <1>4, <2>2, <2>3, <2>4, ProceedsSame
<1> QED BY <1>3, <1>4 DEF CallFails

\* A process is killed: its locks are free, its copies gone.
LEMMA KilledKeeps ==
  ASSUME SubIdsAssumption, SubIdsInv, NEW p \in Procs, Killed(p)
  PROVE  SubIdsInv'
<1>1. /\ work' = [work EXCEPT ![p] = Idle] /\ UNCHANGED <<passwd, sub>>
      /\ owner' = [f \in Files |-> IF owner[f] = p THEN None ELSE owner[f]]
  BY DEF Killed
<1>2. passwd \in Tables /\ sub \in Seq(SubRange) \cup {Absent} /\ owner \in [Files -> Procs \cup {None}]
  BY DEF SubIdsInv, FilesOK
<1>3. owner' \in [Files -> Procs \cup {None}]
  BY <1>1, <1>2
<1>4. \A g : Content(g)' = Content(g)
  BY <1>1, SameContent
<1>5. \A q \in Procs \ {p} : \A g \in Files : owner[g] = q => owner'[g] = q /\ Content(g)' = Content(g)
  BY <1>1, <1>4
<1>6. Alone(p)
  BY <1>1, <1>2, <1>3, <1>5 DEF Alone
<1> QED BY <1>1, <1>6, Stops

\* Every step keeps the invariant.
LEMMA NextKeeps ==
  ASSUME SubIdsAssumption, SubIdsInv, [Next]_vars
  PROVE  SubIdsInv'
<1>1. ASSUME NEW p \in Procs, Start(p) PROVE SubIdsInv'
  BY <1>1, StartKeeps
<1>2. ASSUME NEW p \in Procs, Killed(p) PROVE SubIdsInv'
  BY <1>2, KilledKeeps
<1>3. ASSUME NEW p \in Procs, Step(p) PROVE SubIdsInv'
  <2>1. CASE TestFile(p)
    BY <2>1, TestKeeps
  <2>2. CASE LockFile(p)
    BY <2>2, LockKeeps
  <2>3. CASE OpenFile(p)
    BY <2>3, OpenKeeps
  <2>4. CASE ReuseRange(p)
    BY <2>4, ReuseKeeps
  <2>5. CASE EditFiles(p)
    BY <2>5, EditKeeps
  <2>6. CASE CloseFile(p)
    BY <2>6, CloseKeeps
  <2>7. CASE UnlockFile(p)
    BY <2>7, UnlockKeeps
  <2>8. CASE VerifyMap(p) \/ WriteSetgroups(p) \/ WriteMapping(p)
    BY <2>8, MapKeeps
  <2>9. CASE CallAgain(p)
    BY <2>9, AgainKeeps
  <2>10. CASE CallFails(p)
    BY <2>10, FailsKeeps
  <2>11. CASE CheckUser(p)
    BY <2>11, CheckKeeps
  <2> QED BY <1>3, <2>1, <2>2, <2>3, <2>4, <2>5, <2>6, <2>7, <2>8, <2>9, <2>10, <2>11 DEF Step
<1>4. CASE UNCHANGED vars
  <2>1. UNCHANGED <<passwd, sub, owner, work>>
    BY <1>4 DEF vars
  <2> QED BY <2>1 DEF SubIdsInv, FilesOK, ScriptOK, LockedOK, FreshOK, Content
<1> QED BY <1>1, <1>2, <1>3, <1>4 DEF Next

\* Whatever the tools do at the same time: what a process has open for writing
\* it has locked, nobody else writes it until it is closed, and its copies are
\* still what the files hold when they are edited.
THEOREM SubIdsTypesAndLocks == Spec => []SubIdsInv
<1>1. Init => SubIdsInv
  BY InitFact, SubIdsAssumption
<1>2. SubIdsInv /\ [Next]_vars => SubIdsInv'
  BY NextKeeps, SubIdsAssumption
<1> QED BY <1>1, <1>2, PTL DEF Spec

(***************************************************************************)
(* Nobody has the identifiers of somebody else.                            *)
(***************************************************************************)
\* What a process becomes.
LEMMA BecomesFact ==
  ASSUME SubIdsInv, NEW p \in Procs, NEW w, Becomes(p, w)
  PROVE  /\ \A q \in Procs : q # p => work'[q] = work[q]
         /\ work'[p] = Idle \/ work'[p] = w
<1>1. work \in [Procs -> Works]
  BY DEF SubIdsInv, FilesOK
<1> DEFINE v == IF w.script = <<>> /\ ~w.kept THEN Idle ELSE w
<1>2. work' = [work EXCEPT ![p] = v] /\ (v = Idle \/ v = w)
  BY DEF Becomes
<1> HIDE DEF v
<1> QED BY <1>1, <1>2

\* One process writes what it has, or changes its copy.
LEMMA SharedStep ==
  ASSUME SharedOK, NEW p \in Procs, config' = config, manual \subseteq manual',
         \A q \in Procs : q # p => work'[q] = work[q],
         sub' \in {sub, Absent} \/ (work[p].mem.sub # Closed /\ sub' = work[p].mem.sub),
         ~config.deterministic /\ work'[p].mem.sub # Closed => SharedIds(work'[p].mem.sub) \subseteq manual'
  PROVE  SharedOK'
<1> SUFFICES ASSUME ~config.deterministic
             PROVE  /\ sub' # Absent => SharedIds(sub') \subseteq manual'
                    /\ \A q \in Procs : work'[q].mem.sub # Closed => SharedIds(work'[q].mem.sub) \subseteq manual'
  BY DEF SharedOK
<1>1. /\ sub # Absent => SharedIds(sub) \subseteq manual
      /\ \A q \in Procs : work[q].mem.sub # Closed => SharedIds(work[q].mem.sub) \subseteq manual
  BY DEF SharedOK
<1>2. sub' # Absent => SharedIds(sub') \subseteq manual'
  BY <1>1
<1>3. \A q \in Procs : work'[q].mem.sub # Closed => SharedIds(work'[q].mem.sub) \subseteq manual'
  BY <1>1
<1> QED BY <1>2, <1>3

\* A copy that is not changed.
LEMMA SharedSame ==
  ASSUME SubIdsAssumption, SubIdsInv, SharedOK, NEW p \in Procs, UNCHANGED <<sub, config, manual>>,
         NEW w, Becomes(p, w), w.mem.sub \in {work[p].mem.sub, Closed}
  PROVE  SharedOK'
<1>1. Idle.mem.sub = Closed
  BY IdleFact
<1>2. work'[p].mem.sub \in {work[p].mem.sub, Closed} /\ \A q \in Procs : q # p => work'[q] = work[q]
  BY <1>1, BecomesFact
<1>3. ~config.deterministic /\ work'[p].mem.sub # Closed => SharedIds(work'[p].mem.sub) \subseteq manual'
  BY <1>2 DEF SharedOK
<1> QED BY <1>2, <1>3, SharedStep

\* A step that leaves the file alone, and of the copies changes none but closes
\* one, gives nobody an identifier.
LEMMA SharedProceed ==
  ASSUME SubIdsAssumption, SubIdsInv, SharedOK, NEW p \in Procs, UNCHANGED <<sub, config, manual>>,
         NEW w \in Works, Proceed(p, w), w.mem.sub \in {work[p].mem.sub, Closed}
  PROVE  SharedOK'
<1> DEFINE v == [w EXCEPT !.script = Tail(@)]
<1>1. v.mem = w.mem /\ Becomes(p, v)
  BY DEF Works, Proceed
<1> HIDE DEF v
<1>2. v.mem.sub \in {work[p].mem.sub, Closed}
  BY <1>1
<1> QED BY <1>1, <1>2, SharedSame

\* What somebody asked for is known afterwards.
LEMMA SharedByHand ==
  ASSUME NEW job, NEW before, NEW after, job.tool = "usermod", before # Closed,
         SharedIds(before) \subseteq manual
  PROVE  SharedIds(after) \subseteq manual \cup ByHand(job, before, after)
<1> DEFINE ids == manual \cup ByHand(job, before, after)
<1>1. ASSUME NEW n, NEW x, x \in IdsNamed(after, n), x \notin IdsNamed(before, n)
      PROVE  x \in ids
  <2>1. n \in {r.owner : r \in Range(after)}
    BY <1>1 DEF IdsNamed
  <2> QED BY <1>1, <2>1 DEF ByHand
<1>2. ASSUME NEW m, NEW n, NEW x, m # n, x \in IdsNamed(after, m), x \in IdsNamed(after, n)
      PROVE  x \in ids
  <2>1. \A i, j, y : i # j /\ y \in IdsNamed(before, i) /\ y \in IdsNamed(before, j) => y \in manual
    BY SharedFact
  <2>2. CASE x \in IdsNamed(before, m) /\ x \in IdsNamed(before, n)
    BY <1>2, <2>1, <2>2
  <2>3. CASE ~(x \in IdsNamed(before, m) /\ x \in IdsNamed(before, n))
    BY <1>1, <1>2, <2>3
  <2> QED BY <2>2, <2>3
<1> HIDE DEF ids
<1>3. SharedIds(after) \subseteq ids
  BY <1>2, SharedFact
<1> QED BY <1>3 DEF ids

\* An edit gives nobody what another has, unless it was asked for.
LEMMA SharedEdit ==
  ASSUME SubIdsAssumption, SubIdsInv, SharedOK, NEW p \in Procs, EditFiles(p)
  PROVE  SharedOK'
<1> DEFINE w == work[p]
<1>1. Doing(p, "edit") /\ UNCHANGED <<passwd, sub, config, owner>>
  BY DEF EditFiles
<1>2. w \in Works /\ w.job \in Jobs /\ w.mem \in Mems /\ "edit" \in DosOf(w.job.tool)
      /\ (\A f \in Needs(w.job.tool) : w.mem[f] # Closed)
      /\ \E i \in DOMAIN w.script : w.script[i].do = "edit"
  <2>1. "edit" \in Uses
    BY DEF Uses
  <2> QED BY <1>1, <2>1, DoingFact
<1>3. CASE FailExit(p) /\ UNCHANGED manual
  <2>1. PICK s : s = UnlockHeld(<<"sub", "passwd">>, owner, p)
    OBVIOUS
  <2> DEFINE v == [w EXCEPT !.script = s]
  <2>2. Becomes(p, v)
    BY <1>3, <2>1 DEF FailExit
  <2>3. v.mem = w.mem
    BY <1>2 DEF Works
  <2> HIDE DEF v
  <2>4. v.mem.sub \in {work[p].mem.sub, Closed}
    BY <2>3
  <2> QED BY <1>1, <1>3, <2>2, <2>4, SharedSame
<1>4. ASSUME NEW mem \in EditsOf(w.job, w.mem, w.uid), Proceed(p, [w EXCEPT !.mem = mem]),
             manual' = manual \cup ByHand(w.job, w.mem.sub, mem.sub)
      PROVE  SharedOK'
  <2>1. w.job.tool \notin Maps
    BY <1>2, NotMap
  <2>2. w.uid \in Nat
    BY <1>2 DEF Works
  <2>4. /\ mem \in Mems
        /\ w.mem.sub = Closed => mem.sub = Closed
        /\ w.mem.sub # Closed /\ w.job.tool # "usermod" => Kept(w.mem.sub, mem.sub)
    <3> DEFINE job == w.job
               m == w.mem
               uid == w.uid
    <3>1. /\ job \in Jobs /\ job.tool \notin Maps /\ m \in Mems /\ mem \in EditsOf(job, m, uid)
          /\ uid \in Nat /\ \A f \in Needs(job.tool) : m[f] # Closed
      BY <1>2, <1>4, <2>1, <2>2
    <3> HIDE DEF job, m, uid
    <3>2. mem \in Mems /\ (m.sub = Closed => mem.sub = Closed)
      BY <3>1, EditFact
    <3>3. m.sub # Closed /\ job.tool # "usermod" => Kept(m.sub, mem.sub)
      BY <3>1, EditFact
    <3> QED BY <3>2, <3>3 DEF m, job
  <2>5. ASSUME ~config.deterministic, w.mem.sub # Closed
        PROVE  SharedIds(mem.sub) \subseteq manual'
    <3>1. SharedIds(w.mem.sub) \subseteq manual
      BY <2>5 DEF SharedOK
    <3>2. CASE w.job.tool = "usermod"
      BY <1>4, <2>5, <3>1, <3>2, SharedByHand
    <3>3. CASE w.job.tool # "usermod"
      <4>1. SharedIds(mem.sub) \subseteq manual
        BY <2>4, <2>5, <3>1, <3>3 DEF Kept
      <4> QED BY <1>4, <4>1
    <3> QED BY <3>2, <3>3
  <2> DEFINE v == [[w EXCEPT !.mem = mem] EXCEPT !.script = Tail(@)]
  <2>6. Becomes(p, v)
    BY <1>4 DEF Proceed
  <2>7. v.mem = mem
    BY <1>2, <2>4 DEF Works
  <2>8. Idle.mem.sub = Closed
    BY IdleFact
  <2> HIDE DEF v
  <2>9. work'[p].mem.sub \in {mem.sub, Closed} /\ \A q \in Procs : q # p => work'[q] = work[q]
    BY <2>6, <2>7, <2>8, BecomesFact
  <2>10. ~config.deterministic /\ work'[p].mem.sub # Closed => SharedIds(work'[p].mem.sub) \subseteq manual'
    BY <2>4, <2>5, <2>9
  <2>11. manual \subseteq manual'
    BY <1>4
  <2> QED BY <1>1, <2>9, <2>10, <2>11, SharedStep
<1> QED BY <1>3, <1>4 DEF EditFiles

\* Nobody shares anything in an empty file.
LEMMA EmptyShares == SharedIds(<<>>) = {}
<1>1. Range(<<>>) = {}
  BY DEF Range
<1> QED BY <1>1 DEF SharedIds

\* Every step keeps what is shared known.
LEMMA SharedNext ==
  ASSUME SubIdsAssumption, SubIdsInv, SharedOK, [Next]_vars
  PROVE  SharedOK'
<1>1. ASSUME NEW p \in Procs, Start(p) PROVE SharedOK'
  <2>1. PICK job \in Jobs : Becomes(p, [Idle EXCEPT !.job = job, !.script = Script(job)])
    BY <1>1 DEF Start
  <2> DEFINE v == [Idle EXCEPT !.job = job, !.script = Script(job)]
  <2>2. v.mem = Idle.mem /\ Idle.mem.sub = Closed
    <3>1. Idle \in Works /\ Idle.mem.sub = Closed
      BY IdleFact
    <3> QED BY <3>1 DEF Works
  <2>3. Becomes(p, v)
    BY <2>1
  <2> HIDE DEF v
  <2>4. v.mem.sub \in {work[p].mem.sub, Closed}
    BY <2>2
  <2>5. UNCHANGED <<sub, config, manual>>
    BY <1>1 DEF Start
  <2> QED BY <2>3, <2>4, <2>5, SharedSame
<1>2. ASSUME NEW p \in Procs, Killed(p) \/ CallAgain(p) PROVE SharedOK'
  <2>1. work' = [work EXCEPT ![p] = Idle] /\ UNCHANGED <<sub, config, manual>>
    BY <1>2 DEF Killed, CallAgain
  <2>2. Idle.mem.sub = Closed
    BY IdleFact
  <2>3. work'[p] = Idle /\ \A q \in Procs : q # p => work'[q] = work[q]
    BY <2>1 DEF SubIdsInv, FilesOK
  <2>4. sub' \in {sub, Absent} /\ manual \subseteq manual'
        /\ (~config.deterministic /\ work'[p].mem.sub # Closed => SharedIds(work'[p].mem.sub) \subseteq manual')
    BY <2>1, <2>2, <2>3
  <2> QED BY <2>1, <2>3, <2>4, SharedStep
<1>3. ASSUME NEW p \in Procs, UNCHANGED <<sub, config, manual>>, Proceed(p, work[p]) PROVE SharedOK'
  <2>1. work[p] \in Works
    BY DEF SubIdsInv, FilesOK
  <2> DEFINE w == work[p]
  <2>2. w \in Works /\ Proceed(p, w) /\ w.mem.sub \in {work[p].mem.sub, Closed}
    BY <1>3, <2>1
  <2> HIDE DEF w
  <2> QED BY <1>3, <2>2, SharedProceed
<1>4. ASSUME NEW p \in Procs, UNCHANGED <<sub, config, manual>>, Becomes(p, Idle) PROVE SharedOK'
  <2>1. Idle.mem.sub = Closed
    BY IdleFact
  <2> QED BY <1>4, <2>1, SharedSame
<1>5. ASSUME NEW p \in Procs, NEW s, UNCHANGED <<sub, config, manual>>,
             Becomes(p, [work[p] EXCEPT !.script = s]) PROVE SharedOK'
  <2> DEFINE v == [work[p] EXCEPT !.script = s]
  <2>1. v.mem = work[p].mem /\ Becomes(p, v)
    BY <1>5 DEF SubIdsInv, FilesOK, Works
  <2> HIDE DEF v
  <2> QED BY <1>5, <2>1, SharedSame
<1>6. ASSUME NEW p \in Procs, TestFile(p) PROVE SharedOK'
  <2>1. UNCHANGED <<sub, config, manual>>
    BY <1>6 DEF TestFile
  <2>2. CASE Proceed(p, work[p])
    BY <1>3, <2>1, <2>2
  <2>3. CASE Becomes(p, Idle)
    BY <1>4, <2>1, <2>3
  <2>4. CASE Becomes(p, [work[p] EXCEPT !.script = Without(Tail(@), "sub")])
    BY <1>5, <2>1, <2>4
  <2> QED BY <1>6, <2>2, <2>3, <2>4 DEF TestFile
<1>7. ASSUME NEW p \in Procs, LockFile(p) \/ WriteSetgroups(p) PROVE SharedOK'
  BY <1>3, <1>7 DEF LockFile, WriteSetgroups
<1>8. ASSUME NEW p \in Procs, WriteMapping(p) PROVE SharedOK'
  BY <1>4, <1>8 DEF WriteMapping
<1>16. ASSUME NEW p \in Procs, VerifyMap(p) PROVE SharedOK'
  <2>1. PICK allow : allow = AllowSetgroups(passwd, work[p].mem.sub, work[p].job.name, work[p].job.add)
    OBVIOUS
  <2>2. allow \in BOOLEAN
    BY <2>1 DEF AllowSetgroups
  <2> DEFINE u == [work[p] EXCEPT !.allow = allow]
  <2>3. UNCHANGED <<sub, config, manual>> /\ (Becomes(p, Idle) \/ Proceed(p, u))
    BY <1>16, <2>1 DEF VerifyMap
  <2>4. u \in Works /\ u.mem = work[p].mem
    BY <2>2 DEF SubIdsInv, FilesOK, Works
  <2> HIDE DEF u
  <2>5. CASE Proceed(p, u)
    BY <2>3, <2>4, <2>5, SharedProceed
  <2> QED BY <1>4, <2>3, <2>5
<1>17. ASSUME NEW p \in Procs, CheckUser(p) PROVE SharedOK'
  <2> DEFINE w == work[p]
             uid == IF w.job.tool = "usermod" THEN passwd[w.job.name] ELSE w.uid
             u == [w EXCEPT !.uid = uid]
  <2>1. /\ UNCHANGED <<sub, config, manual>>
        /\ Becomes(p, Idle) \/ ((w.job.tool = "usermod" => w.job.name \in DOMAIN passwd) /\ Proceed(p, u))
    BY <1>17 DEF CheckUser
  <2>2. CASE (w.job.tool = "usermod" => w.job.name \in DOMAIN passwd) /\ Proceed(p, u)
    <3>1. w \in Works /\ passwd \in Tables
      BY DEF SubIdsInv, FilesOK
    <3>2. passwd \in [DOMAIN passwd -> Nat]
      BY <3>1, TableFact
    <3>3. uid \in Nat
      BY <2>2, <3>1, <3>2 DEF Works
    <3> HIDE DEF uid
    <3>4. u \in Works /\ u.mem = work[p].mem
      BY <3>1, <3>3 DEF Works
    <3> HIDE DEF u, w
    <3> QED BY <2>1, <2>2, <3>4, SharedProceed
  <2> QED BY <1>4, <2>1, <2>2
<1>9. ASSUME NEW p \in Procs, ReuseRange(p) PROVE SharedOK'
  <2> DEFINE v == [work[p] EXCEPT !.script = <<>>, !.kept = TRUE]
  <2>1. Becomes(p, v) /\ UNCHANGED <<sub, config, manual>>
    BY <1>9 DEF ReuseRange
  <2>2. v.mem = work[p].mem
    BY DEF SubIdsInv, FilesOK, Works
  <2> HIDE DEF v
  <2> QED BY <2>1, <2>2, SharedSame
<1>10. ASSUME NEW p \in Procs, CallFails(p) PROVE SharedOK'
  <2>1. UNCHANGED <<sub, config, manual>>
    BY <1>10 DEF CallFails
  <2>2. CASE FailExit(p)
    BY <1>5, <2>1, <2>2 DEF FailExit
  <2>3. CASE Proceed(p, work[p])
    BY <1>3, <2>1, <2>3
  <2> QED BY <1>10, <2>2, <2>3 DEF CallFails
<1>11. ASSUME NEW p \in Procs, NEW do, Doing(p, do), NEW copy,
              Proceed(p, [work[p] EXCEPT !.mem[Now(p)] = copy]),
              config' = config, manual' = manual,
              sub' \in {sub, Absent} \/ (work[p].mem.sub # Closed /\ sub' = work[p].mem.sub),
              Now(p) = "sub" /\ copy # Closed => (sub # Absent /\ copy = sub) \/ SharedIds(copy) = {}
       PROVE  SharedOK'
  <2> DEFINE w == work[p]
             f == Now(p)
             m == [w.mem EXCEPT ![f] = copy]
             v == [[w EXCEPT !.mem[f] = copy] EXCEPT !.script = Tail(@)]
  <2>1. w \in Works /\ w.mem \in Mems /\ Head(w.script) \in Calls /\ f = Head(w.script).file
    BY <1>11, DoingFact
  <2>2. v.mem = m /\ Becomes(p, v)
    <3>1. v.mem = m
      BY <2>1 DEF Works
    <3> QED BY <1>11, <3>1 DEF Proceed
  <2>3. w.mem = [passwd |-> w.mem.passwd, sub |-> w.mem.sub]
    BY <2>1 DEF Mems
  <2> HIDE DEF v
  <2>4. m.sub = w.mem.sub \/ (f = "sub" /\ m.sub = copy)
    <3>1. PICK a, b : w.mem = [passwd |-> a, sub |-> b]
      BY <2>3
    <3> HIDE DEF f
    <3>2. CASE f = "sub"
      BY <3>1, <3>2
    <3>3. CASE f # "sub"
      BY <3>1, <3>3
    <3> QED BY <3>2, <3>3
  <2> HIDE DEF m
  <2>5. ASSUME ~config.deterministic, m.sub # Closed PROVE SharedIds(m.sub) \subseteq manual'
    BY <1>11, <2>4, <2>5 DEF SharedOK
  <2>6. Idle.mem.sub = Closed
    BY IdleFact
  <2>7. work'[p].mem.sub \in {m.sub, Closed} /\ \A q \in Procs : q # p => work'[q] = work[q]
    BY <2>2, <2>6, BecomesFact
  <2>8. ~config.deterministic /\ work'[p].mem.sub # Closed => SharedIds(work'[p].mem.sub) \subseteq manual'
    BY <2>5, <2>7
  <2> QED BY <1>11, <2>7, <2>8, SharedStep
<1>12. ASSUME NEW p \in Procs, OpenFile(p) PROVE SharedOK'
  <2>1. PICK do \in {"read", "open"} : Doing(p, do)
    BY <1>12 DEF OpenFile
  <2>2. Proceed(p, [work[p] EXCEPT !.mem[Now(p)] = Content(Now(p))]) /\ UNCHANGED <<sub, config, manual>>
    BY <1>12 DEF OpenFile
  <2>3. SharedIds(<<>>) = {}
    BY EmptyShares
  <2> DEFINE copy == Content(Now(p))
  <2>4. Now(p) = "sub" /\ copy # Closed => (sub # Absent /\ copy = sub) \/ SharedIds(copy) = {}
    BY <2>3 DEF Content
  <2>5. Proceed(p, [work[p] EXCEPT !.mem[Now(p)] = copy])
    BY <2>2
  <2> HIDE DEF copy
  <2> QED BY <1>11, <2>1, <2>2, <2>4, <2>5
<1>13. ASSUME NEW p \in Procs, CloseFile(p) \/ UnlockFile(p) PROVE SharedOK'
  <2>1. PICK do \in {"close", "unlock"} : Doing(p, do)
    BY <1>13 DEF CloseFile, UnlockFile
  <2>2. /\ Proceed(p, [work[p] EXCEPT !.mem[Now(p)] = Closed]) /\ UNCHANGED <<config, manual>>
        /\ sub' \in {sub, Absent} \/ (work[p].mem.sub # Closed /\ sub' = work[p].mem.sub)
    <3>1. CASE UnlockFile(p)
      BY <3>1 DEF UnlockFile
    <3>2. CASE CloseFile(p) /\ Now(p) = "passwd"
      BY <3>2 DEF CloseFile
    <3>3. CASE CloseFile(p) /\ Now(p) # "passwd"
      <4>1. Now(p) = "sub"
        <5>1. /\ Head(work[p].script) \in Calls /\ Now(p) = Head(work[p].script).file
              /\ Head(work[p].script).do = do
          BY <2>1, DoingFact
        <5> QED BY <3>3, <5>1 DEF Calls, Uses, Files
      <4> QED BY <3>3, <4>1 DEF CloseFile
    <3> QED BY <1>13, <3>1, <3>2, <3>3
  <2> DEFINE copy == Closed
  <2>3. Proceed(p, [work[p] EXCEPT !.mem[Now(p)] = copy]) /\ copy = Closed
    BY <2>2
  <2> HIDE DEF copy
  <2> QED BY <1>11, <2>1, <2>2, <2>3
<1>14. ASSUME NEW p \in Procs, EditFiles(p) PROVE SharedOK'
  BY <1>14, SharedEdit
<1>15. CASE UNCHANGED vars
  BY <1>15 DEF vars, SharedOK
<1> QED BY <1>1, <1>2, <1>6, <1>7, <1>8, <1>9, <1>10, <1>12, <1>13, <1>14, <1>15, <1>16, <1>17 DEF Next, Step

\* Two users, by their number, never have an identifier in common that a search
\* has given.
LEMMA SharedMeans ==
  ASSUME SubIdsAssumption, SubIdsInv, SharedOK
  PROVE  NobodyShares
<1> SUFFICES ASSUME sub # Absent, ~config.deterministic, NEW a \in DOMAIN passwd, NEW b \in DOMAIN passwd,
                    passwd[a] # passwd[b], NEW x,
                    x \in OwnedBy(passwd, sub, a), x \in OwnedBy(passwd, sub, b)
             PROVE  x \in manual
  BY DEF NobodyShares
<1>1. passwd \in Tables
  BY DEF SubIdsInv, FilesOK
<1>2. PICK i \in DOMAIN sub : x \in IdsOf(sub[i]) /\ (sub[i].owner = a \/ IsSameUser(passwd, sub[i].owner, a))
  BY OwnedAre
<1>3. PICK j \in DOMAIN sub : x \in IdsOf(sub[j]) /\ (sub[j].owner = b \/ IsSameUser(passwd, sub[j].owner, b))
  BY OwnedAre
<1> DEFINE m == sub[i].owner
           n == sub[j].owner
<1>4. x \in IdsNamed(sub, m) /\ x \in IdsNamed(sub, n)
  BY <1>2, <1>3 DEF IdsNamed, Range
<1> HIDE DEF m, n
<1>5. m # n
  <2> SUFFICES ASSUME m = n PROVE FALSE
    OBVIOUS
  <2>1. m = a \/ IsSameUser(passwd, m, a)
    BY <1>2 DEF m
  <2>2. m = b \/ IsSameUser(passwd, m, b)
    BY <1>3 DEF m, n
  <2>3. passwd[a] \in KnownUid(passwd, m)
    BY <1>1, <2>1, KnownFact
  <2>4. passwd[b] \in KnownUid(passwd, m)
    BY <1>1, <2>2, KnownFact
  <2> QED BY <1>1, <2>3, <2>4, KnownFact
<1>6. SharedIds(sub) \subseteq manual
  BY DEF SharedOK
<1> QED BY <1>4, <1>5, <1>6, SharedFact

\* Nobody shares an identifier that a search has given, whoever searches at the
\* same time, whoever is killed, and whatever users come and go.
THEOREM SearchesGiveToOne == Spec => []NobodyShares
<1>1. Init => SubIdsInv /\ SharedOK
  BY InitFact, SubIdsAssumption
<1>2. SubIdsInv /\ SharedOK /\ [Next]_vars => SubIdsInv' /\ SharedOK'
  BY NextKeeps, SharedNext, SubIdsAssumption
<1>3. SubIdsInv /\ SharedOK => NobodyShares
  BY SharedMeans, SubIdsAssumption
<1> QED BY <1>1, <1>2, <1>3, PTL DEF Spec

(***************************************************************************)
(* Looking up.                                                             *)
(***************************************************************************)
\* The hole that a search takes is the first one that is wide enough.
LEMMA FirstFreeMeans ==
  ASSUME SubIdsAssumption, SubIdsInv
  PROVE  FirstFreeFound
<1> SUFFICES ASSUME NEW p \in Procs, Doing(p, "edit"), work[p].mem.sub # Closed
             PROVE  LET db == work[p].mem.sub
                        sorted == Sorted(db)
                        used == AllIds(db)
                        free(min, max, count) ==
                          {s \in min .. max - count + 1 : s .. s + count - 1 \cap used = {}}
                        first(starts) == {s \in starts : \A t \in starts : s <= t}
                    IN  \A min \in 0 .. MaxId : \A max \in {SubIdMax, MaxId} : \A count \in 1 .. MaxId :
                          FirstHole(sorted, min, max, count) = first(free(min, max, count))
  BY DEF FirstFreeFound
<1> DEFINE db == work[p].mem.sub
           sorted == Sorted(db)
           used == AllIds(db)
<1>1. db \in Seq(SubRange)
  BY DEF SubIdsInv, FilesOK, Works, Mems
<1>2. MaxId \in Nat /\ SubIdMax \in Nat
  BY DEF SubIdsAssumption
<1> HIDE DEF db
<1>3. sorted \in Seq(SubRange) /\ InOrder(sorted) /\ AllIds(sorted) = used
  BY <1>1, SortedSub
<1> HIDE DEF sorted, used
<1>4. ASSUME NEW min \in 0 .. MaxId, NEW max \in {SubIdMax, MaxId}, NEW count \in 1 .. MaxId
      PROVE  FirstHole(sorted, min, max, count) =
               {s \in {s \in min .. max - count + 1 : s .. s + count - 1 \cap used = {}} :
                  \A t \in {s1 \in min .. max - count + 1 : s1 .. s1 + count - 1 \cap used = {}} : s <= t}
  <2>1. min \in Nat /\ max \in Nat /\ count \in Nat /\ count # 0
    BY <1>2
  <2>2. FirstHole(sorted, min, max, count) = FirstIn(Free(sorted, min, max, count))
    BY <1>3, <2>1, FirstHoleFact, SubRangeIsRange
  <2>3. Free(sorted, min, max, count) = {s \in min .. max - count + 1 : s .. s + count - 1 \cap used = {}}
    BY <1>3 DEF Free
  <2> QED BY <2>2, <2>3 DEF FirstIn
<1> QED BY <1>4 DEF db, sorted, used

\* Whose an identifier is, from the one side and from the other.
LEMMA OwnersMean ==
  ASSUME SubIdsAssumption, SubIdsInv
  PROVE  OwnersAgree
<1> SUFFICES ASSUME sub # Absent, NEW id \in AllIds(sub)
             PROVE  LET listed == {u \in DOMAIN passwd :
                                     \E r \in Range(ListOwnerRanges(passwd, sub, u)) : id \in IdsOf(r)}
                        named == {r.owner : r \in {s \in Range(sub) : id \in IdsOf(s)}} \ DOMAIN NumberOf
                        found == FindSubidOwners(passwd, sub, id)
                    IN  IF named \subseteq DOMAIN passwd
                        THEN \E uids \in found : uids \cap Range(passwd) = {passwd[u] : u \in listed}
                        ELSE found = {}
  BY DEF OwnersAgree
<1> DEFINE listed == {u \in DOMAIN passwd :
                        \E r \in Range(ListOwnerRanges(passwd, sub, u)) : id \in IdsOf(r)}
           holds == {s \in Range(sub) : id \in IdsOf(s)}
           named == {r.owner : r \in holds} \ DOMAIN NumberOf
           found == FindSubidOwners(passwd, sub, id)
           uids == {OwnerUid(passwd, r.owner) : r \in holds}
<1>1. passwd \in Tables /\ sub \in Seq(SubRange)
  BY DEF SubIdsInv, FilesOK
<1>2. found = IF {} \in uids THEN {} ELSE {UNION uids}
  BY DEF FindSubidOwners
<1>3. \A u : Range(ListOwnerRanges(passwd, sub, u)) = {r \in Range(sub) : IsSameUser(passwd, r.owner, u)}
  <2> TAKE u
  <2> DEFINE at == {i \in DOMAIN sub : IsSameUser(passwd, sub[i].owner, u)}
  <2>1. ListOwnerRanges(passwd, sub, u) = EntriesAt(sub, at)
    BY DEF ListOwnerRanges
  <2>2. at \in SUBSET DOMAIN sub
    OBVIOUS
  <2> HIDE DEF at
  <2>3. Range(EntriesAt(sub, at)) = {sub[i] : i \in at}
    BY <1>1, <2>2, EntriesAtRange
  <2>4. {sub[i] : i \in at} = {r \in Range(sub) : IsSameUser(passwd, r.owner, u)}
    BY DEF Range, at
  <2> QED BY <2>1, <2>3, <2>4
<1>4. \A o : OwnerUid(passwd, o) = {} <=> o \notin DOMAIN NumberOf /\ o \notin DOMAIN passwd
  <2> TAKE o
  <2>1. CASE o \in DOMAIN NumberOf
    BY <2>1 DEF OwnerUid
  <2>2. CASE o \notin DOMAIN NumberOf
    <3>1. OwnerUid(passwd, o) = {passwd[n] : n \in {o} \cap DOMAIN passwd}
      BY <2>2 DEF OwnerUid, KnownUid
    <3>2. o \in DOMAIN passwd => passwd[o] \in OwnerUid(passwd, o)
      BY <3>1
    <3>3. o \notin DOMAIN passwd => OwnerUid(passwd, o) = {}
      BY <3>1
    <3> QED BY <2>2, <3>2, <3>3
  <2> QED BY <2>1, <2>2
<1>5. {} \in uids <=> ~(named \subseteq DOMAIN passwd)
  <2>1. ASSUME {} \in uids PROVE ~(named \subseteq DOMAIN passwd)
    BY <1>4, <2>1
  <2>2. ASSUME ~(named \subseteq DOMAIN passwd) PROVE {} \in uids
    <3>1. PICK r \in holds : r.owner \notin DOMAIN NumberOf /\ r.owner \notin DOMAIN passwd
      BY <2>2
    <3>2. OwnerUid(passwd, r.owner) = {}
      BY <1>4, <3>1
    <3> QED BY <3>2
  <2> QED BY <2>1, <2>2
<1>6. \A o, y : y \in OwnerUid(passwd, o) /\ y \in Range(passwd) <=> y \in KnownUid(passwd, o)
  <2> TAKE o, y
  <2>1. y \in KnownUid(passwd, o) => y \in Range(passwd)
    BY <1>1, KnownFact
  <2> QED BY <2>1 DEF OwnerUid, KnownUid
<1>7. \A y : y \in {passwd[u] : u \in listed} <=> \E r \in holds : y \in KnownUid(passwd, r.owner)
  <2> TAKE y
  <2>1. ASSUME NEW u \in listed, y = passwd[u] PROVE \E r \in holds : y \in KnownUid(passwd, r.owner)
    <3>1. PICK r \in Range(sub) : IsSameUser(passwd, r.owner, u) /\ id \in IdsOf(r)
      BY <1>3, <2>1
    <3>2. y \in KnownUid(passwd, r.owner)
      <4> DEFINE o == r.owner
      <4>1. u \in DOMAIN passwd /\ IsSameUser(passwd, o, u)
        BY <3>1
      <4> HIDE DEF o
      <4>2. y \in KnownUid(passwd, o)
        BY <1>1, <2>1, <4>1, KnownFact
      <4> QED BY <4>2 DEF o
    <3> QED BY <3>1, <3>2
  <2>2. ASSUME NEW r \in holds, y \in KnownUid(passwd, r.owner) PROVE y \in {passwd[u] : u \in listed}
    <3> DEFINE o == r.owner
    <3>1. y \in KnownUid(passwd, o)
      BY <2>2
    <3> HIDE DEF o
    <3>2. PICK u \in DOMAIN passwd : y = passwd[u]
      <4>1. y \in Range(passwd)
        BY <1>1, <3>1, KnownFact
      <4> QED BY <4>1 DEF Range
    <3>3. IsSameUser(passwd, o, u)
      BY <1>1, <3>1, <3>2, KnownFact
    <3>4. u \in listed
      BY <1>3, <3>3 DEF o
    <3> QED BY <3>2, <3>4
  <2> QED BY <2>1, <2>2
<1>8. (UNION uids) \cap Range(passwd) = {passwd[u] : u \in listed}
  <2> DEFINE mine == {passwd[u] : u \in listed}
  <2>1. \A y : y \in UNION uids <=> \E r \in holds : y \in OwnerUid(passwd, r.owner)
    OBVIOUS
  <2>2. \A y : y \in mine <=> \E r \in holds : y \in KnownUid(passwd, r.owner)
    BY <1>7
  <2> HIDE DEF mine, uids, holds
  <2>3. \A y : y \in (UNION uids) \cap Range(passwd) <=> y \in mine
    BY <1>6, <2>1, <2>2
  <2>4. (UNION uids) \cap Range(passwd) = mine
    BY <2>3
  <2> QED BY <2>4 DEF mine
<1> HIDE DEF listed, named, uids, found
<1>9. IF named \subseteq DOMAIN passwd
      THEN \E x \in found : x \cap Range(passwd) = {passwd[u] : u \in listed}
      ELSE found = {}
  BY <1>2, <1>5, <1>8
<1> QED BY <1>9 DEF listed, named, found

\* Searches take the first free hole, and the owners of an identifier are those
\* in whose list it is.
THEOREM LookupsAreExact == Spec => []LookupsExact
<1>1. SubIdsInv => LookupsExact
  BY FirstFreeMeans, OwnersMean, SubIdsAssumption DEF LookupsExact
<1> QED BY <1>1, SubIdsTypesAndLocks, PTL

(***************************************************************************)
(* The maps of user namespaces.                                            *)
(***************************************************************************)
CheckIt  == Call("check", None)
ReadIt   == Call("read", "sub")
VerifyIt == Call("verify", None)
GroupsIt == Call("setgroups", None)
MapIt    == Call("map", None)

\* What is left of the script of a tool that writes a map.
Rest(tool) ==
  IF tool = "newgidmap"
  THEN {<<CheckIt, ReadIt, VerifyIt, GroupsIt, MapIt>>, <<ReadIt, VerifyIt, GroupsIt, MapIt>>,
        <<VerifyIt, GroupsIt, MapIt>>, <<GroupsIt, MapIt>>, <<MapIt>>}
  ELSE {<<CheckIt, ReadIt, VerifyIt, MapIt>>, <<ReadIt, VerifyIt, MapIt>>, <<VerifyIt, MapIt>>, <<MapIt>>}

\* What is left when a call has been done, and the call that is next.
Then(tool, s, do) == Tail(s) \in Rest(tool) /\ Tail(s) # <<>> /\ Head(Tail(s)).do = do

\* A range of the map is one of subgid.
SomeRange(w) == \E r \in Range(w.job.add) : r.count > 0 /\ IdsOf(r) \subseteq AllIds(w.mem.sub)

\* It has been decided of the groups when a range is one of subgid; when the
\* group map is to be written, that is so or the process can not change its
\* groups.
MapOK(w, groups) ==
  w.script # <<>> /\ w.job.tool \in Maps =>
    /\ w.script \in Rest(w.job.tool)
    /\ Head(w.script).do \in {"setgroups", "map"} => (w.allow => SomeRange(w))
    /\ w.job.tool = "newgidmap" /\ Head(w.script).do = "map" => groups = "deny" \/ w.allow

MapInv ==
  /\ setgroups \in [Procs -> {"allow", "deny"}]
  /\ \A p \in Procs : MapOK(work[p], setgroups[p])

\* The calls are done one after the other.
LEMMA RestFact ==
  ASSUME NEW tool \in Maps, NEW s \in Rest(tool)
  PROVE  /\ s # <<>> /\ Head(s).do \in {"check", "read", "verify", "setgroups", "map"}
         /\ Head(s).do = "check" => Then(tool, s, "read")
         /\ Head(s).do = "read" => Then(tool, s, "verify")
         /\ Head(s).do = "verify" =>
              Then(tool, s, "setgroups") \/ (tool # "newgidmap" /\ Then(tool, s, "map"))
         /\ Head(s).do = "setgroups" => Then(tool, s, "map")
<1>1. /\ CheckIt.do = "check" /\ ReadIt.do = "read" /\ VerifyIt.do = "verify"
      /\ GroupsIt.do = "setgroups" /\ MapIt.do = "map"
  BY DEF CheckIt, ReadIt, VerifyIt, GroupsIt, MapIt, Call
<1>2. \A a, b, c, d, e :
         /\ Tail(<<a, b, c, d, e>>) = <<b, c, d, e>> /\ Head(<<a, b, c, d, e>>) = a /\ <<a, b, c, d, e>> # <<>>
         /\ Tail(<<a, b, c, d>>) = <<b, c, d>> /\ Head(<<a, b, c, d>>) = a /\ <<a, b, c, d>> # <<>>
         /\ Tail(<<a, b, c>>) = <<b, c>> /\ Head(<<a, b, c>>) = a /\ <<a, b, c>> # <<>>
         /\ Tail(<<a, b>>) = <<b>> /\ Head(<<a, b>>) = a /\ <<a, b>> # <<>>
         /\ Head(<<a>>) = a /\ <<a>> # <<>>
  OBVIOUS
<1>3. CASE tool = "newgidmap"
  <2>1. CASE s = <<CheckIt, ReadIt, VerifyIt, GroupsIt, MapIt>>
    <3>1. /\ s # <<>> /\ Head(s) = CheckIt /\ Tail(s) = <<ReadIt, VerifyIt, GroupsIt, MapIt>>
          /\ Tail(s) # <<>> /\ Head(Tail(s)) = ReadIt
      BY <1>2, <2>1
    <3>2. Tail(s) \in Rest(tool)
      BY <1>3, <3>1 DEF Rest
    <3> QED BY <1>1, <3>1, <3>2 DEF Then
  <2>2. CASE s = <<ReadIt, VerifyIt, GroupsIt, MapIt>>
    <3>1. /\ s # <<>> /\ Head(s) = ReadIt /\ Tail(s) = <<VerifyIt, GroupsIt, MapIt>>
          /\ Tail(s) # <<>> /\ Head(Tail(s)) = VerifyIt
      BY <1>2, <2>2
    <3>2. Tail(s) \in Rest(tool)
      BY <1>3, <3>1 DEF Rest
    <3> QED BY <1>1, <3>1, <3>2 DEF Then
  <2>3. CASE s = <<VerifyIt, GroupsIt, MapIt>>
    <3>1. /\ s # <<>> /\ Head(s) = VerifyIt /\ Tail(s) = <<GroupsIt, MapIt>>
          /\ Tail(s) # <<>> /\ Head(Tail(s)) = GroupsIt
      BY <1>2, <2>3
    <3>2. Tail(s) \in Rest(tool)
      BY <1>3, <3>1 DEF Rest
    <3> QED BY <1>1, <3>1, <3>2 DEF Then
  <2>4. CASE s = <<GroupsIt, MapIt>>
    <3>1. /\ s # <<>> /\ Head(s) = GroupsIt /\ Tail(s) = <<MapIt>>
          /\ Tail(s) # <<>> /\ Head(Tail(s)) = MapIt
      BY <1>2, <2>4
    <3>2. Tail(s) \in Rest(tool)
      BY <1>3, <3>1 DEF Rest
    <3> QED BY <1>1, <3>1, <3>2 DEF Then
  <2>5. CASE s = <<MapIt>>
    <3>1. Head(s) = MapIt /\ s # <<>>
      BY <1>2, <2>5
    <3> QED BY <1>1, <3>1
  <2> QED BY <1>3, <2>1, <2>2, <2>3, <2>4, <2>5 DEF Rest
<1>4. CASE tool # "newgidmap"
  <2>1. CASE s = <<CheckIt, ReadIt, VerifyIt, MapIt>>
    <3>1. /\ s # <<>> /\ Head(s) = CheckIt /\ Tail(s) = <<ReadIt, VerifyIt, MapIt>>
          /\ Tail(s) # <<>> /\ Head(Tail(s)) = ReadIt
      BY <1>2, <2>1
    <3>2. Tail(s) \in Rest(tool)
      BY <1>4, <3>1 DEF Rest
    <3> QED BY <1>1, <3>1, <3>2 DEF Then
  <2>2. CASE s = <<ReadIt, VerifyIt, MapIt>>
    <3>1. /\ s # <<>> /\ Head(s) = ReadIt /\ Tail(s) = <<VerifyIt, MapIt>>
          /\ Tail(s) # <<>> /\ Head(Tail(s)) = VerifyIt
      BY <1>2, <2>2
    <3>2. Tail(s) \in Rest(tool)
      BY <1>4, <3>1 DEF Rest
    <3> QED BY <1>1, <3>1, <3>2 DEF Then
  <2>3. CASE s = <<VerifyIt, MapIt>>
    <3>1. /\ s # <<>> /\ Head(s) = VerifyIt /\ Tail(s) = <<MapIt>>
          /\ Tail(s) # <<>> /\ Head(Tail(s)) = MapIt
      BY <1>2, <2>3
    <3>2. Tail(s) \in Rest(tool)
      BY <1>4, <3>1 DEF Rest
    <3> QED BY <1>1, <1>4, <3>1, <3>2 DEF Then
  <2>4. CASE s = <<MapIt>>
    <3>1. Head(s) = MapIt /\ s # <<>>
      BY <1>2, <2>4
    <3> QED BY <1>1, <3>1
  <2> QED BY <1>4, <2>1, <2>2, <2>3, <2>4 DEF Rest
<1> QED BY <1>3, <1>4

\* A process that becomes something that is in order.
LEMMA MapBecomes ==
  ASSUME SubIdsAssumption, SubIdsInv, MapInv, NEW p \in Procs, NEW w, Becomes(p, w),
         setgroups' \in [Procs -> {"allow", "deny"}],
         \A q \in Procs : q # p => setgroups'[q] = setgroups[q],
         MapOK(w, setgroups'[p])
  PROVE  MapInv'
<1>1. MapOK(Idle, setgroups'[p])
  BY IdleFact DEF MapOK
<1>2. (\A q \in Procs : q # p => work'[q] = work[q]) /\ (work'[p] = Idle \/ work'[p] = w)
  BY BecomesFact
<1>3. \A q \in Procs : MapOK(work'[q], setgroups'[q])
  BY <1>1, <1>2 DEF MapInv
<1> QED BY <1>3 DEF MapInv, MapOK

\* The tools that change the files are no matter here.
LEMMA MapOther ==
  ASSUME SubIdsAssumption, SubIdsInv, MapInv, NEW p \in Procs, NEW w, Becomes(p, w), UNCHANGED setgroups,
         w.job.tool \notin Maps \/ w.script = <<>>
  PROVE  MapInv'
<1>1. MapOK(w, setgroups'[p])
  BY DEF MapOK
<1>2. setgroups' \in [Procs -> {"allow", "deny"}] /\ \A q \in Procs : q # p => setgroups'[q] = setgroups[q]
  BY DEF MapInv
<1> QED BY <1>1, <1>2, MapBecomes

\* Whose identifiers a range has.
LEMMA CoveredFact ==
  ASSUME SubIdsAssumption, NEW t, NEW db \in Seq(SubRange), NEW job \in Jobs, NEW o,
         NEW r \in Range(job.add)
  PROVE  /\ r \in Stretch
         /\ HaveRange(t, db, o, r.start, r.count) <=> r.count > 0 /\ IdsOf(r) \subseteq OwnedBy(t, db, o)
         /\ OwnedBy(t, db, o) \subseteq AllIds(db)
<1>1. r \in Stretch
  <2>1. job.add \in Seq(Stretch)
    BY DEF SubIdsAssumption
  <2> QED BY <2>1 DEF Range
<1>2. r.start \in Nat /\ r.count \in Nat
  BY <1>1 DEF Stretch
<1> DEFINE b == r.start
           c == r.count
           owned == OwnedBy(t, db, o)
<1> HIDE DEF b, c, owned
<1>3. b \in Nat /\ c \in Nat
  BY <1>2 DEF b, c
<1>4. HaveRange(t, db, o, b, c) <=> c > 0 /\ \A x \in b .. b + c - 1 : x \in owned
  BY <1>3, HaveRangeFact DEF owned
<1>5. IdsOf(r) = b .. b + c - 1
  BY DEF IdsOf, LastOf, b, c
<1>6. HaveRange(t, db, o, b, c) <=> c > 0 /\ IdsOf(r) \subseteq owned
  BY <1>4, <1>5
<1>7. owned \subseteq AllIds(db)
  BY DEF owned, OwnedBy, AllIds
<1> QED BY <1>1, <1>6, <1>7 DEF b, c, owned

\* The steps of a process that writes a map.
LEMMA MapDoing ==
  ASSUME SubIdsInv, MapInv, NEW p \in Procs, NEW do, Doing(p, do), do \in {"read", "verify", "setgroups", "map"}
  PROVE  LET w == work[p]
         IN  /\ w \in Works /\ w.job \in Jobs /\ w.job.tool \in Maps /\ w.script \in Rest(w.job.tool)
             /\ Head(w.script).do = do
             /\ do # "read" => w.mem.sub \in Seq(SubRange)
             /\ do # "map" => Tail(w.script) # <<>>
<1> DEFINE w == work[p]
<1>1. w \in Works /\ w.job \in Jobs /\ w.script # <<>> /\ Head(w.script).do = do /\ do \in DosOf(w.job.tool)
      /\ w.mem \in Mems
  BY DoingFact
<1>2. w.job.tool \in Maps
  BY <1>1 DEF DosOf
<1>3. w.script \in Rest(w.job.tool)
  BY <1>1, <1>2 DEF MapInv, MapOK
<1>4. do # "read" => w.mem.sub \in Seq(SubRange)
  <2> SUFFICES ASSUME do # "read" PROVE w.mem.sub \in Seq(SubRange)
    OBVIOUS
  <2>1. do \in Uses
    BY DEF Uses
  <2>2. \A f \in Needs(w.job.tool) : w.mem[f] # Closed
    BY <2>1, DoingFact
  <2>3. "sub" \in Needs(w.job.tool)
    BY <1>2 DEF Needs, Maps
  <2> QED BY <1>1, <2>2, <2>3 DEF Mems
<1>5. do # "map" => Tail(w.script) # <<>>
  BY <1>1, <1>2, <1>3, RestFact DEF Then
<1> QED BY <1>1, <1>2, <1>3, <1>4, <1>5

\* Every step keeps the maps in order.
LEMMA MapNext ==
  ASSUME SubIdsAssumption, SubIdsInv, MapInv, [Next]_vars
  PROVE  MapInv'
<1>0. /\ setgroups \in [Procs -> {"allow", "deny"}]
      /\ \A p \in Procs : work[p] \in Works
  BY DEF SubIdsInv, FilesOK, MapInv
<1>1. ASSUME NEW p \in Procs, Start(p) PROVE MapInv'
  <2>1. PICK job \in Jobs : Becomes(p, [Idle EXCEPT !.job = job, !.script = Script(job)])
    BY <1>1 DEF Start
  <2>2. PICK s : s = Script(job)
    OBVIOUS
  <2> DEFINE v == [Idle EXCEPT !.job = job, !.script = s]
  <2>3. v.job = job /\ v.script = s /\ Becomes(p, v)
    <3>1. Idle \in Works
      BY IdleFact
    <3>2. v.job = job /\ v.script = s
      BY <3>1 DEF Works
    <3> QED BY <2>1, <2>2, <3>2
  <2> HIDE DEF v
  <2>4. job.tool \in Maps => s \in Rest(job.tool) /\ Head(s).do = "check"
    <3>1. \A a, b, c, d, e : Head(<<a, b, c, d>>) = a /\ Head(<<a, b, c, d, e>>) = a
      OBVIOUS
    <3>2. CheckIt.do = "check"
      BY DEF CheckIt, Call
    <3>3. CASE job.tool = "newuidmap"
      <4>1. s = <<CheckIt, ReadIt, VerifyIt, MapIt>>
        BY <2>2, <3>3 DEF Script, UidMapScript, CheckIt, ReadIt, VerifyIt, MapIt
      <4>2. Head(s) = CheckIt
        BY <3>1, <4>1
      <4> QED BY <3>2, <3>3, <4>1, <4>2 DEF Rest
    <3>4. CASE job.tool = "newgidmap"
      <4>1. s = <<CheckIt, ReadIt, VerifyIt, GroupsIt, MapIt>>
        BY <2>2, <3>4 DEF Script, GidMapScript, CheckIt, ReadIt, VerifyIt, GroupsIt, MapIt
      <4>2. Head(s) = CheckIt
        BY <3>1, <4>1
      <4> QED BY <3>2, <3>4, <4>1, <4>2 DEF Rest
    <3> QED BY <3>3, <3>4 DEF Maps
  <2>5. MapOK(v, setgroups'[p])
    BY <2>3, <2>4 DEF MapOK
  <2>6. setgroups' = [setgroups EXCEPT ![p] = "allow"]
    BY <1>1 DEF Start
  <2>7. setgroups' \in [Procs -> {"allow", "deny"}] /\ \A q \in Procs : q # p => setgroups'[q] = setgroups[q]
    BY <1>0, <2>6
  <2> QED BY <2>3, <2>5, <2>7, MapBecomes
<1>2. ASSUME NEW p \in Procs, Killed(p) \/ CallAgain(p) PROVE MapInv'
  <2>1. work' = [work EXCEPT ![p] = Idle] /\ UNCHANGED setgroups
    BY <1>2 DEF Killed, CallAgain
  <2>2. Becomes(p, Idle) /\ Idle.script = <<>>
    BY <2>1, IdleFact DEF Becomes
  <2> QED BY <2>1, <2>2, MapOther
<1>3. ASSUME NEW p \in Procs, NEW do, Doing(p, do), do \in {"test", "lock", "open", "edit", "close", "unlock"},
             UNCHANGED setgroups, NEW w, Becomes(p, w), w.job = work[p].job \/ w.script = <<>>
      PROVE  MapInv'
  <2>1. work[p].job.tool \notin Maps
    <3>1. do \in DosOf(work[p].job.tool)
      BY <1>3, DoingFact
    <3> QED BY <1>3, <3>1, NotMap
  <2>2. w.job.tool \notin Maps \/ w.script = <<>>
    BY <1>3, <2>1
  <2> QED BY <1>3, <2>2, MapOther
<1>4. ASSUME NEW p \in Procs, NEW do, Doing(p, do), do \in {"test", "lock", "open", "edit", "close", "unlock"},
             UNCHANGED setgroups, NEW w \in Works, Proceed(p, [w EXCEPT !.mem = w.mem]) \/ Proceed(p, w),
             w.job = work[p].job
      PROVE  MapInv'
  <2>1. [w EXCEPT !.mem = w.mem] = w
    BY DEF Works
  <2> DEFINE v == [w EXCEPT !.script = Tail(@)]
  <2>2. Becomes(p, v) /\ v.job = w.job
    BY <1>4, <2>1 DEF Proceed, Works
  <2> HIDE DEF v
  <2>3. v.job = work[p].job
    BY <1>4, <2>2
  <2> QED BY <1>3, <1>4, <2>2, <2>3
<1>5. ASSUME NEW p \in Procs, NEW do, Doing(p, do), do \in {"test", "lock", "open", "edit", "close", "unlock"},
             UNCHANGED setgroups, NEW s, Becomes(p, [work[p] EXCEPT !.script = s])
      PROVE  MapInv'
  <2> DEFINE v == [work[p] EXCEPT !.script = s]
  <2>1. Becomes(p, v) /\ v.job = work[p].job
    BY <1>0, <1>5 DEF Works
  <2> HIDE DEF v
  <2> QED BY <1>3, <1>5, <2>1
<1>6. ASSUME NEW p \in Procs, NEW do, Doing(p, do), do \in {"test", "lock", "open", "edit", "close", "unlock"},
             UNCHANGED setgroups, NEW m, Proceed(p, [work[p] EXCEPT !.mem = m])
      PROVE  MapInv'
  <2> DEFINE v == [[work[p] EXCEPT !.mem = m] EXCEPT !.script = Tail(@)]
  <2>1. Becomes(p, v)
    BY <1>6 DEF Proceed
  <2>2. v.job = work[p].job
    BY <1>0 DEF Works
  <2> HIDE DEF v
  <2> QED BY <1>3, <1>6, <2>1, <2>2
<1>7. ASSUME NEW p \in Procs, NEW do, Doing(p, do), do \in {"test", "lock", "open", "edit", "close", "unlock"},
             UNCHANGED setgroups, Proceed(p, work[p])
      PROVE  MapInv'
  <2> DEFINE w == work[p]
  <2>1. w \in Works /\ Proceed(p, w) /\ w.job = work[p].job
    BY <1>0, <1>7
  <2> HIDE DEF w
  <2> QED BY <1>4, <1>7, <2>1
<1>8. ASSUME NEW p \in Procs, NEW do, Doing(p, do), do \in {"test", "lock", "open", "edit", "close", "unlock"},
             UNCHANGED setgroups, NEW f, NEW c, Proceed(p, [work[p] EXCEPT !.mem[f] = c])
      PROVE  MapInv'
  <2> DEFINE m == [work[p].mem EXCEPT ![f] = c]
  <2>1. [work[p] EXCEPT !.mem[f] = c] = [work[p] EXCEPT !.mem = m]
    OBVIOUS
  <2>2. Proceed(p, [work[p] EXCEPT !.mem = m])
    BY <1>8, <2>1
  <2> HIDE DEF m
  <2> QED BY <1>6, <1>8, <2>2
<1>9. ASSUME NEW p \in Procs, TestFile(p) PROVE MapInv'
  <2>1. Doing(p, "test") /\ UNCHANGED setgroups
    BY <1>9 DEF TestFile
  <2>2. CASE Proceed(p, work[p])
    BY <1>7, <2>1, <2>2
  <2>3. CASE Becomes(p, Idle)
    <3>1. Idle.script = <<>>
      BY IdleFact
    <3> QED BY <1>3, <2>1, <2>3, <3>1
  <2>4. CASE Becomes(p, [work[p] EXCEPT !.script = Without(Tail(@), "sub")])
    BY <1>5, <2>1, <2>4
  <2> QED BY <1>9, <2>2, <2>3, <2>4 DEF TestFile
<1>10. ASSUME NEW p \in Procs, LockFile(p) PROVE MapInv'
  BY <1>7, <1>10 DEF LockFile
<1>11. ASSUME NEW p \in Procs, ReuseRange(p) PROVE MapInv'
  <2> DEFINE v == [work[p] EXCEPT !.script = <<>>, !.kept = TRUE]
  <2>1. Becomes(p, v) /\ UNCHANGED setgroups /\ Doing(p, "edit")
    BY <1>11 DEF ReuseRange
  <2>2. v.job = work[p].job
    BY <1>0 DEF Works
  <2> HIDE DEF v
  <2> QED BY <1>3, <2>1, <2>2
<1>12. ASSUME NEW p \in Procs, EditFiles(p) PROVE MapInv'
  <2>1. Doing(p, "edit") /\ UNCHANGED setgroups
    BY <1>12 DEF EditFiles
  <2>2. CASE FailExit(p)
    BY <1>5, <2>1, <2>2 DEF FailExit
  <2>3. ASSUME NEW m, Proceed(p, [work[p] EXCEPT !.mem = m]) PROVE MapInv'
    BY <1>6, <2>1, <2>3
  <2> QED BY <1>12, <2>2, <2>3 DEF EditFiles
<1>13. ASSUME NEW p \in Procs, CloseFile(p) \/ UnlockFile(p) PROVE MapInv'
  <2>1. PICK do \in {"close", "unlock"} : Doing(p, do)
    BY <1>13 DEF CloseFile, UnlockFile
  <2>2. Proceed(p, [work[p] EXCEPT !.mem[Now(p)] = Closed]) /\ UNCHANGED setgroups
    BY <1>13 DEF CloseFile, UnlockFile
  <2> QED BY <1>8, <2>1, <2>2
<1>14. ASSUME NEW p \in Procs, CallFails(p) PROVE MapInv'
  <2>1. PICK do \in {"lock", "open", "close"} : Doing(p, do)
    BY <1>14 DEF CallFails
  <2>2. UNCHANGED setgroups
    BY <1>14 DEF CallFails
  <2>3. CASE FailExit(p)
    BY <1>5, <2>1, <2>2, <2>3 DEF FailExit
  <2>4. CASE Proceed(p, work[p])
    BY <1>7, <2>1, <2>2, <2>4
  <2> QED BY <1>14, <2>3, <2>4 DEF CallFails
<1>15. ASSUME NEW p \in Procs, OpenFile(p) PROVE MapInv'
  <2>1. Proceed(p, [work[p] EXCEPT !.mem[Now(p)] = Content(Now(p))]) /\ UNCHANGED setgroups
    BY <1>15 DEF OpenFile
  <2>2. CASE Doing(p, "open")
    BY <1>8, <2>1, <2>2
  <2>3. CASE Doing(p, "read")
    <3> DEFINE w == work[p]
               f == Now(p)
               c == Content(f)
               v == [[w EXCEPT !.mem[f] = c] EXCEPT !.script = Tail(@)]
    <3>1. Becomes(p, v)
      BY <2>1 DEF Proceed
    <3>2. v.job = w.job /\ v.script = Tail(w.script)
      BY <1>0 DEF Works
    <3> HIDE DEF v
    <3>3. w.job.tool \in Maps /\ w.script \in Rest(w.job.tool) /\ Head(w.script).do = "read"
      BY <2>3, MapDoing
    <3>4. Tail(w.script) \in Rest(w.job.tool) /\ Head(Tail(w.script)).do = "verify"
      BY <3>3, RestFact DEF Then
    <3>5. MapOK(v, setgroups'[p])
      BY <3>2, <3>4 DEF MapOK
    <3> QED BY <1>0, <2>1, <3>1, <3>5, MapBecomes
  <2> QED BY <1>15, <2>2, <2>3 DEF OpenFile
<1>16. ASSUME NEW p \in Procs, VerifyMap(p) PROVE MapInv'
  <2> DEFINE w == work[p]
  <2>1. PICK allow : allow = AllowSetgroups(passwd, w.mem.sub, w.job.name, w.job.add)
    OBVIOUS
  <2> DEFINE v == [[w EXCEPT !.allow = allow] EXCEPT !.script = Tail(@)]
  <2>2. UNCHANGED setgroups /\ Doing(p, "verify") /\ (Becomes(p, Idle) \/ Becomes(p, v))
    BY <1>16, <2>1 DEF VerifyMap, Proceed
  <2>3. v.job = w.job /\ v.script = Tail(w.script) /\ v.mem = w.mem /\ v.allow = allow
    BY <1>0 DEF Works
  <2> HIDE DEF v
  <2>4. /\ w.job \in Jobs /\ w.job.tool \in Maps /\ w.script \in Rest(w.job.tool) /\ Head(w.script).do = "verify"
        /\ w.mem.sub \in Seq(SubRange)
    BY <2>2, MapDoing
  <2>5. Then(w.job.tool, w.script, "setgroups")
          \/ (w.job.tool # "newgidmap" /\ Then(w.job.tool, w.script, "map"))
    BY <2>4, RestFact
  <2>6. allow => SomeRange(v)
    <3> SUFFICES ASSUME allow PROVE SomeRange(v)
      OBVIOUS
    <3>1. PICK r \in Range(w.job.add) : HaveRange(passwd, w.mem.sub, w.job.name, r.start, r.count)
      BY <2>1 DEF AllowSetgroups
    <3> DEFINE job == w.job
               db == w.mem.sub
               o == w.job.name
    <3>2. job \in Jobs /\ db \in Seq(SubRange) /\ r \in Range(job.add) /\ HaveRange(passwd, db, o, r.start, r.count)
      BY <2>4, <3>1
    <3> HIDE DEF job, db, o
    <3>3. r.count > 0 /\ IdsOf(r) \subseteq OwnedBy(passwd, db, o) /\ OwnedBy(passwd, db, o) \subseteq AllIds(db)
      BY <3>2, CoveredFact
    <3>4. v.job = job /\ v.mem.sub = db
      BY <2>3 DEF job, db
    <3> QED BY <3>2, <3>3, <3>4 DEF SomeRange
  <2>7. MapOK(v, setgroups'[p])
    BY <2>3, <2>5, <2>6 DEF MapOK, Then
  <2>8. Idle.script = <<>>
    BY IdleFact
  <2> QED BY <1>0, <2>2, <2>7, <2>8, MapBecomes, MapOther
<1>17. ASSUME NEW p \in Procs, WriteSetgroups(p) PROVE MapInv'
  <2> DEFINE w == work[p]
             v == [w EXCEPT !.script = Tail(@)]
             g == IF w.allow THEN setgroups[p] ELSE "deny"
  <2>1. Doing(p, "setgroups") /\ Becomes(p, v) /\ setgroups' = [setgroups EXCEPT ![p] = g]
    BY <1>17 DEF WriteSetgroups, Proceed
  <2>2. v.job = w.job /\ v.script = Tail(w.script) /\ v.mem = w.mem /\ v.allow = w.allow
    BY <1>0 DEF Works
  <2> HIDE DEF v
  <2>3. /\ w.job \in Jobs /\ w.job.tool \in Maps /\ w.script \in Rest(w.job.tool)
        /\ Head(w.script).do = "setgroups"
    BY <2>1, MapDoing
  <2>4. Tail(w.script) \in Rest(w.job.tool) /\ Head(Tail(w.script)).do = "map"
    BY <2>3, RestFact DEF Then
  <2>5. g \in {"allow", "deny"} /\ (g = "deny" \/ w.allow)
    BY <1>0
  <2> HIDE DEF g
  <2>6. /\ setgroups' \in [Procs -> {"allow", "deny"}] /\ \A q \in Procs : q # p => setgroups'[q] = setgroups[q]
        /\ setgroups'[p] = "deny" \/ w.allow
    BY <1>0, <2>1, <2>5
  <2>7. w.allow => SomeRange(w)
    <3>1. MapOK(w, setgroups[p]) /\ w.script # <<>>
      BY <2>1 DEF MapInv, Doing
    <3> QED BY <2>3, <3>1 DEF MapOK
  <2>8. v.allow => SomeRange(v)
    BY <2>2, <2>7 DEF SomeRange
  <2>9. MapOK(v, setgroups'[p])
    BY <2>2, <2>4, <2>6, <2>8 DEF MapOK
  <2> QED BY <2>1, <2>6, <2>9, MapBecomes
<1>20. ASSUME NEW p \in Procs, CheckUser(p) PROVE MapInv'
  <2> DEFINE w == work[p]
             uid == IF w.job.tool = "usermod" THEN passwd[w.job.name] ELSE w.uid
             v == [[w EXCEPT !.uid = uid] EXCEPT !.script = Tail(@)]
  <2>1. UNCHANGED setgroups /\ Doing(p, "check") /\ (Becomes(p, Idle) \/ Becomes(p, v))
    BY <1>20 DEF CheckUser, Proceed
  <2>2. v.job = w.job /\ v.script = Tail(w.script)
    BY <1>0 DEF Works
  <2> HIDE DEF v
  <2>3. CASE Becomes(p, Idle)
    <3>1. Idle.script = <<>>
      BY IdleFact
    <3> QED BY <2>1, <2>3, <3>1, MapOther
  <2>4. CASE Becomes(p, v) /\ w.job.tool \notin Maps
    BY <2>1, <2>2, <2>4, MapOther
  <2>5. CASE Becomes(p, v) /\ w.job.tool \in Maps
    <3>1. w.script # <<>> /\ Head(w.script).do = "check"
      BY <2>1 DEF Doing
    <3>2. w.script \in Rest(w.job.tool)
      BY <2>5, <3>1 DEF MapInv, MapOK
    <3>3. Tail(w.script) \in Rest(w.job.tool) /\ Head(Tail(w.script)).do = "read"
      BY <2>5, <3>1, <3>2, RestFact DEF Then
    <3>4. MapOK(v, setgroups'[p])
      BY <2>2, <3>3 DEF MapOK
    <3> QED BY <1>0, <2>1, <2>5, <3>4, MapBecomes
  <2> QED BY <2>1, <2>3, <2>4, <2>5
<1>18. ASSUME NEW p \in Procs, WriteMapping(p) PROVE MapInv'
  <2>1. Becomes(p, Idle) /\ UNCHANGED setgroups
    BY <1>18 DEF WriteMapping
  <2>2. Idle.script = <<>>
    BY IdleFact
  <2> QED BY <2>1, <2>2, MapOther
<1>19. CASE UNCHANGED vars
  BY <1>19 DEF vars, MapInv, MapOK, SomeRange
<1> QED BY <1>1, <1>2, <1>9, <1>10, <1>11, <1>12, <1>13, <1>14, <1>15, <1>16, <1>17, <1>18, <1>19, <1>20 DEF Next, Step

\* A script that changes is not its own tail when nothing is done.
LEMMA TailDiffers ==
  ASSUME NEW s \in Seq(Calls), s # <<>>
  PROVE  Tail(s) # s
<1>1. Len(Tail(s)) = Len(s) - 1 /\ Len(s) \in Nat
  BY HeadTailProperties, LenProperties
<1> DEFINE t == Tail(s)
<1>2. Len(t) = Len(s) - 1
  BY <1>1
<1> HIDE DEF t
<1>3. t # s
  <2> SUFFICES ASSUME t = s PROVE FALSE
    OBVIOUS
  <2>1. Len(s) = Len(s) - 1
    BY <1>2
  <2> QED BY <1>1, <2>1
<1> QED BY <1>3 DEF t

\* A process that goes on from the check of the ranges has checked them.
LEMMA MapSteps ==
  ASSUME SubIdsAssumption, SubIdsInv, MapInv, Next, NEW p \in Procs, Doing(p, "verify"),
         work'[p].script = Tail(work[p].script)
  PROVE  VerifyMap(p) /\ ~Becomes(p, Idle)
<1> DEFINE w == work[p]
           do == "verify"
<1>1. /\ w \in Works /\ w.job \in Jobs /\ w.job.tool \in Maps /\ w.script \in Rest(w.job.tool)
      /\ Head(w.script).do = do /\ Tail(w.script) # <<>>
  BY MapDoing
<1>2. Idle.script = <<>>
  BY IdleFact
<1>3. work'[p] # Idle /\ w # Idle
  <2>1. w.script # <<>>
    BY DEF Doing
  <2> QED BY <1>1, <1>2, <2>1
<1>4. \A a : a # do => ~Doing(p, a)
  BY <1>1 DEF Doing
<1>5. PICK q \in Procs : Start(q) \/ Step(q) \/ Killed(q)
  BY DEF Next
<1>6. work \in [Procs -> Works] /\ w.script \in Seq(Calls) /\ w.script # <<>>
  <2>1. w.script \in Seq(Calls) /\ w.script # <<>>
    BY DoingFact
  <2> QED BY <2>1 DEF SubIdsInv, FilesOK
<1>7. Tail(w.script) # w.script
  BY <1>6, TailDiffers
<1>8. q = p
  <2> SUFFICES ASSUME q # p PROVE FALSE
    OBVIOUS
  <2>1. work'[p] = work[p]
    <3>1. \E v : work' = [work EXCEPT ![q] = v]
      BY <1>5 DEF Start, Step, Killed, CheckUser, TestFile, LockFile, OpenFile, ReuseRange, EditFiles, CloseFile,
                  UnlockFile, VerifyMap, WriteSetgroups, WriteMapping, CallAgain, CallFails, FailExit,
                  Proceed, Becomes
    <3>2. PICK v : work' = [work EXCEPT ![q] = v]
      BY <3>1
    <3> QED BY <1>6, <3>2
  <2> QED BY <1>7, <2>1
<1>9. ~Start(p)
  BY <1>3 DEF Start
<1>10. ~Killed(p) /\ ~CallAgain(p)
  BY <1>3, <1>6 DEF Killed, CallAgain
<1>11. Step(p)
  BY <1>5, <1>8, <1>9, <1>10
<1>12. VerifyMap(p)
  BY <1>4, <1>10, <1>11 DEF Step, CheckUser, TestFile, LockFile, OpenFile, ReuseRange, EditFiles, CloseFile,
                     UnlockFile, WriteSetgroups, WriteMapping, CallFails
<1>13. ~Becomes(p, Idle)
  <2> SUFFICES ASSUME Becomes(p, Idle) PROVE FALSE
    OBVIOUS
  <2>1. work' = [work EXCEPT ![p] = Idle]
    BY DEF Becomes
  <2> QED BY <1>3, <1>6, <2>1
<1> QED BY <1>12, <1>13

\* What have_range and verify_ranges let through, and what a group map is
\* written with.
LEMMA MapsMean ==
  ASSUME SubIdsAssumption, SubIdsInv, MapInv, Next
  PROVE  \A p \in Procs :
           LET w == work[p]
               mine == OwnedBy(passwd, w.mem.sub, w.job.name)
               covered(r) == r.count > 0 /\ IdsOf(r) \subseteq mine
               own(r) == r.count = 1 /\ r.start = w.job.uid
               allowed == \A r \in Range(w.job.add) : covered(r) \/ own(r)
           IN  /\ Doing(p, "verify") =>
                    /\ allowed <=> VerifyRanges(passwd, w.mem.sub, w.job.name, w.job.uid, w.job.add)
                    /\ work'[p].script = Tail(w.script) =>
                         allowed /\ (work'[p].allow <=> \E r \in Range(w.job.add) : covered(r))
               /\ Doing(p, "map") /\ w.job.tool = "newgidmap" =>
                    \/ setgroups[p] = "deny"
                    \/ /\ w.allow
                       /\ \E r \in Range(w.job.add) :
                            r.count > 0 /\ IdsOf(r) \subseteq AllIds(w.mem.sub)
<1> TAKE p \in Procs
<1> DEFINE w == work[p]
           name == w.job.name
           db == w.mem.sub
           mine == OwnedBy(passwd, db, name)
           covered(r) == r.count > 0 /\ IdsOf(r) \subseteq mine
           own(r) == r.count = 1 /\ r.start = w.job.uid
           allowed == \A r \in Range(w.job.add) : covered(r) \/ own(r)
           verified == VerifyRanges(passwd, db, name, w.job.uid, w.job.add)
<1>1. ASSUME NEW do \in {"verify", "map"}, Doing(p, do)
      PROVE  /\ w \in Works /\ w.job \in Jobs /\ w.job.tool \in Maps /\ w.script \in Rest(w.job.tool)
             /\ Head(w.script).do = do /\ db \in Seq(SubRange)
             /\ do # "map" => Tail(w.script) # <<>>
  BY <1>1, MapDoing
<1>2. ASSUME Doing(p, "verify")
      PROVE  \A r \in Range(w.job.add) : HaveRange(passwd, db, name, r.start, r.count) <=> covered(r)
  <2> DEFINE job == w.job
  <2>1. job \in Jobs /\ db \in Seq(SubRange)
    BY <1>1, <1>2
  <2> HIDE DEF job, db, name
  <2> SUFFICES ASSUME NEW r \in Range(job.add)
               PROVE  HaveRange(passwd, db, name, r.start, r.count) <=> r.count > 0 /\ IdsOf(r) \subseteq mine
    BY DEF job
  <2> QED BY <2>1, CoveredFact
<1>3. Doing(p, "verify") => (allowed <=> verified)
  <2> SUFFICES ASSUME Doing(p, "verify") PROVE allowed <=> verified
    OBVIOUS
  <2>1. \A r \in Range(w.job.add) :
          VerifyRange(passwd, db, name, w.job.uid, r) <=> covered(r) \/ own(r)
    <3> SUFFICES ASSUME NEW r \in Range(w.job.add)
                 PROVE  VerifyRange(passwd, db, name, w.job.uid, r) <=> covered(r) \/ own(r)
      OBVIOUS
    <3>1. HaveRange(passwd, db, name, r.start, r.count) <=> covered(r)
      BY <1>2
    <3>2. r.count \in Nat
      <4>1. w.job \in Jobs
        BY <1>1
      <4> DEFINE add == w.job.add
      <4>2. add \in Seq(Stretch) /\ r \in Range(add)
        BY <4>1 DEF SubIdsAssumption
      <4> HIDE DEF add
      <4>3. r \in Stretch
        BY <4>2 DEF Range
      <4> QED BY <4>3 DEF Stretch
    <3>3. VerifyRange(passwd, db, name, w.job.uid, r) <=> r.count > 0 /\ (covered(r) \/ own(r))
      BY <3>1 DEF VerifyRange
    <3>4. covered(r) \/ own(r) => r.count > 0
      BY <3>2
    <3> HIDE DEF covered, own
    <3> QED BY <3>3, <3>4
  <2> HIDE DEF covered, own
  <2> QED BY <2>1 DEF VerifyRanges
<1>4. Doing(p, "verify") /\ work'[p].script = Tail(w.script) =>
        allowed /\ (work'[p].allow <=> \E r \in Range(w.job.add) : covered(r))
  <2> SUFFICES ASSUME Doing(p, "verify"), work'[p].script = Tail(w.script)
               PROVE  allowed /\ (work'[p].allow <=> \E r \in Range(w.job.add) : covered(r))
    OBVIOUS
  <2>1. VerifyMap(p) /\ ~Becomes(p, Idle)
    BY MapSteps
  <2>2. PICK allow : allow = AllowSetgroups(passwd, w.mem.sub, w.job.name, w.job.add)
    OBVIOUS
  <2> DEFINE v == [[w EXCEPT !.allow = allow] EXCEPT !.script = Tail(@)]
  <2>3. verified /\ Becomes(p, v)
    BY <2>1, <2>2 DEF VerifyMap, Proceed
  <2>4. w \in Works /\ Tail(w.script) # <<>>
    BY <1>1
  <2>5. v.allow = allow /\ v.script = Tail(w.script)
    BY <2>4 DEF Works
  <2> HIDE DEF v
  <2>6. work'[p] = v
    <3>1. work'[p] = Idle \/ work'[p] = v
      BY <2>3, BecomesFact
    <3>2. work'[p] # Idle
      BY <2>4, IdleFact
    <3> QED BY <3>1, <3>2
  <2>7. allow <=> \E r \in Range(w.job.add) : HaveRange(passwd, db, name, r.start, r.count)
    BY <2>2 DEF AllowSetgroups
  <2> HIDE DEF covered, verified, allowed
  <2>8. allow <=> \E r \in Range(w.job.add) : covered(r)
    BY <1>2, <2>7
  <2> QED BY <1>3, <2>3, <2>5, <2>6, <2>8
<1>6. Doing(p, "map") /\ w.job.tool = "newgidmap" => setgroups[p] = "deny" \/ (w.allow /\ SomeRange(w))
  <2> SUFFICES ASSUME Doing(p, "map"), w.job.tool = "newgidmap"
               PROVE  setgroups[p] = "deny" \/ (w.allow /\ SomeRange(w))
    OBVIOUS
  <2>1. w.job.tool \in Maps /\ Head(w.script).do = "map" /\ w.script # <<>>
    BY <1>1 DEF Doing
  <2>2. MapOK(w, setgroups[p])
    BY DEF MapInv
  <2> QED BY <2>1, <2>2 DEF MapOK
<1>7. Doing(p, "map") /\ w.job.tool = "newgidmap" =>
        \/ setgroups[p] = "deny"
        \/ w.allow /\ \E r \in Range(w.job.add) : r.count > 0 /\ IdsOf(r) \subseteq AllIds(w.mem.sub)
  BY <1>6 DEF SomeRange
<1> HIDE DEF allowed, verified, covered
<1> QED BY <1>3, <1>4, <1>7 DEF allowed, verified, covered

\* A map is let through exactly when its ranges are those of the caller, and a
\* group map of the caller's own group only when the process can no longer
\* change its groups.
THEOREM MapsAreOwned == Spec => MapsOwned
<1>1. Init => SubIdsInv /\ MapInv
  <2>1. ASSUME Init PROVE MapInv
    <3>1. Idle.script = <<>>
      BY IdleFact, SubIdsAssumption
    <3> QED BY <2>1, <3>1 DEF Init, MapInv, MapOK
  <2> QED BY <2>1, InitFact, SubIdsAssumption
<1>2. SubIdsInv /\ MapInv /\ [Next]_vars => SubIdsInv' /\ MapInv'
  BY NextKeeps, MapNext, SubIdsAssumption
<1> DEFINE A ==
      \A p \in Procs :
       LET w == work[p]
           mine == OwnedBy(passwd, w.mem.sub, w.job.name)
           covered(r) == r.count > 0 /\ IdsOf(r) \subseteq mine
           own(r) == r.count = 1 /\ r.start = w.job.uid
           allowed == \A r \in Range(w.job.add) : covered(r) \/ own(r)
       IN  /\ Doing(p, "verify") =>
                /\ allowed <=> VerifyRanges(passwd, w.mem.sub, w.job.name, w.job.uid, w.job.add)
                /\ work'[p].script = Tail(w.script) =>
                     allowed /\ (work'[p].allow <=> \E r \in Range(w.job.add) : covered(r))
           /\ Doing(p, "map") /\ w.job.tool = "newgidmap" =>
                \/ setgroups[p] = "deny"
                \/ /\ w.allow
                   /\ \E r \in Range(w.job.add) :
                        r.count > 0 /\ IdsOf(r) \subseteq AllIds(w.mem.sub)
<1>3. SubIdsInv /\ MapInv /\ [Next]_vars => [A]_vars
  BY MapsMean, SubIdsAssumption
<1>4. SubIdsInv /\ MapInv /\ [][Next]_vars => [][A]_vars
  <2> HIDE DEF A
  <2> QED BY <1>2, <1>3, PTL
<1>5. Spec => [][A]_vars
  <2> HIDE DEF A
  <2> QED BY <1>1, <1>4, PTL DEF Spec
<1> QED BY <1>5 DEF MapsOwned

(***************************************************************************)
(* What an edit changes.                                                   *)
(***************************************************************************)
\* What is left of a range when start .. end is removed: nothing, or the part
\* before, or the part after, or both.
Pieces(same, start, end, s) ==
  IF ~(same /\ start <= LastOf(s) /\ end >= s.start) THEN {s}
  ELSE (IF start > s.start THEN {RangeOf(s.owner, s.start, start - s.start)} ELSE {})
         \cup (IF end < LastOf(s) THEN {RangeOf(s.owner, end + 1, LastOf(s) - end)} ELSE {})

\* The pieces are of the same owner, and have the other identifiers.
LEMMA PiecesFact ==
  ASSUME NEW s \in SubRange, NEW start \in Nat, NEW end \in Int, start <= end, NEW same
  PROVE  /\ \A r \in Pieces(same, start, end, s) : r.owner = s.owner
         /\ \A x : (\E r \in Pieces(same, start, end, s) : x \in IdsOf(r))
                     <=> x \in IdsOf(s) /\ ~(same /\ x \in start .. end)
<1> DEFINE last == LastOf(s)
           first == s.start
           before == RangeOf(s.owner, first, start - first)
           after == RangeOf(s.owner, end + 1, last - end)
           all == Pieces(same, start, end, s)
<1>1. first \in Nat /\ last \in Int /\ first <= last + 1 /\ IdsOf(s) = first .. last
  BY DEF SubRange, LastOf, IdsOf
<1>2. before.owner = s.owner /\ after.owner = s.owner
  BY DEF RangeOf
<1>3. IdsOf(after) = end + 1 .. last
  <2>1. LastOf(after) = (end + 1) + (last - end) - 1 /\ after.start = end + 1
    BY DEF LastOf, RangeOf
  <2>2. LastOf(after) = last
    <3> HIDE DEF last, after
    <3> QED BY <1>1, <2>1
  <2> QED BY <2>1, <2>2 DEF IdsOf
<1>4. IdsOf(before) = first .. start - 1
  <2>1. LastOf(before) = first + (start - first) - 1 /\ before.start = first
    BY DEF LastOf, RangeOf
  <2>2. LastOf(before) = start - 1
    <3> HIDE DEF first, before
    <3> QED BY <1>1, <2>1
  <2> QED BY <2>1, <2>2 DEF IdsOf
<1>5. all = IF ~(same /\ start <= last /\ end >= first) THEN {s}
            ELSE (IF start > first THEN {before} ELSE {}) \cup (IF end < last THEN {after} ELSE {})
  BY DEF Pieces
<1> HIDE DEF all, last, first, before, after
<1>6. \A r \in all : r.owner = s.owner
  BY <1>2, <1>5
<1>7. CASE ~(same /\ start <= last /\ end >= first)
  <2>1. all = {s}
    BY <1>5, <1>7
  <2>2. \A x \in first .. last : ~(same /\ x \in start .. end)
    BY <1>1, <1>7
  <2>3. ASSUME NEW x, \E r \in all : x \in IdsOf(r) PROVE x \in IdsOf(s) /\ ~(same /\ x \in start .. end)
    BY <1>1, <2>1, <2>2, <2>3
  <2>4. ASSUME NEW x \in IdsOf(s) PROVE \E r \in all : x \in IdsOf(r)
    BY <2>1
  <2> QED BY <1>6, <2>3, <2>4 DEF all
<1>8. CASE same /\ start <= last /\ end >= first
  <2>1. all = (IF start > first THEN {before} ELSE {}) \cup (IF end < last THEN {after} ELSE {})
    BY <1>5, <1>8
  <2>2. \A r \in all : (r = before /\ start > first) \/ (r = after /\ end < last)
    BY <2>1
  <2>3. /\ start > first => before \in all
        /\ end < last => after \in all
    BY <2>1
  <2>4. ASSUME NEW x, NEW r \in all, x \in IdsOf(r) PROVE x \in IdsOf(s) /\ ~(x \in start .. end)
    <3>1. CASE r = before
      BY <1>1, <1>4, <1>8, <2>4, <3>1
    <3>2. CASE r = after
      BY <1>1, <1>3, <1>8, <2>4, <3>2
    <3> QED BY <2>2, <3>1, <3>2
  <2>5. ASSUME NEW x \in IdsOf(s), ~(x \in start .. end) PROVE \E r \in all : x \in IdsOf(r)
    <3>1. x \in Int /\ first <= x /\ x <= last
      BY <1>1
    <3>2. CASE x < start
      <4>1. x \in IdsOf(before) /\ start > first
        BY <1>1, <1>4, <3>1, <3>2
      <4> QED BY <2>3, <4>1
    <3>3. CASE end < x
      <4>1. x \in IdsOf(after) /\ end < last
        BY <1>1, <1>3, <3>1, <3>3
      <4> QED BY <2>3, <4>1
    <3> QED BY <2>5, <3>1, <3>2, <3>3
  <2>6. same
    BY <1>8
  <2> QED BY <1>6, <2>4, <2>5, <2>6 DEF all
<1> QED BY <1>7, <1>8

\* remove_range leaves of each range the pieces.
LEMMA RemovedRanges ==
  ASSUME NEW t, NEW db \in Seq(SubRange), NEW o, NEW start \in Nat, NEW count \in Nat, count # 0, NEW r
  PROVE  r \in Range(RemoveRange(t, db, o, start, count)) <=>
           \E s \in Range(db) : r \in Pieces(IsSameUser(t, s.owner, o), start, start + count - 1, s)
<1> DEFINE end == start + count - 1
           touched(s) == IsSameUser(t, s.owner, o) /\ start <= LastOf(s) /\ end >= s.start
           before(s) == RangeOf(s.owner, s.start, start - s.start)
           after(s) == RangeOf(s.owner, end + 1, LastOf(s) - end)
           cut(s) == IF ~touched(s) THEN s ELSE IF start > s.start THEN before(s) ELSE after(s)
           keeps(s) == ~touched(s) \/ start > s.start \/ end < LastOf(s)
           splits(s) == touched(s) /\ start > s.start /\ end < LastOf(s)
           keptAt == {i \in DOMAIN db : keeps(db[i])}
           splitAt == {i \in DOMAIN db : splits(db[i])}
           kept == EntriesAt(db, keptAt)
           split == EntriesAt(db, splitAt)
           left == [i \in DOMAIN kept |-> cut(kept[i])]
           new == [i \in DOMAIN split |-> after(split[i])]
<1>1. RemoveRange(t, db, o, start, count) = left \o new
  BY DEF RemoveRange
<1>2. /\ kept \in Seq(SubRange) /\ Range(kept) = {db[i] : i \in keptAt}
      /\ split \in Seq(SubRange) /\ Range(split) = {db[i] : i \in splitAt}
  <2>1. keptAt \in SUBSET DOMAIN db /\ splitAt \in SUBSET DOMAIN db
    OBVIOUS
  <2> HIDE DEF keptAt, splitAt
  <2> QED BY <2>1, EntriesAtRange
<1>3. \A s : s \in Range(kept) <=> s \in Range(db) /\ keeps(s)
  <2> HIDE DEF keeps, kept
  <2> QED BY <1>2 DEF Range
<1>4. \A s : s \in Range(split) <=> s \in Range(db) /\ splits(s)
  <2> HIDE DEF splits, split
  <2> QED BY <1>2 DEF Range
<1> HIDE DEF kept, split
<1>5. /\ \A k : k \in Range(left) <=> \E s \in Range(kept) : k = cut(s)
      /\ \A k : k \in Range(new) <=> \E s \in Range(split) : k = after(s)
  <2> HIDE DEF cut, after
  <2> QED BY DEF Range
<1>6. Range(left \o new) = Range(left) \cup Range(new)
  <2>1. left \in Seq(Range(left)) /\ new \in Seq(Range(new))
    <3>1. /\ DOMAIN kept = 1 .. Len(kept) /\ Len(kept) \in Nat
          /\ DOMAIN split = 1 .. Len(split) /\ Len(split) \in Nat
      BY <1>2, LenProperties
    <3>2. /\ left \in [1 .. Len(kept) -> Range(left)]
          /\ new \in [1 .. Len(split) -> Range(new)]
      <4> HIDE DEF cut, after
      <4> QED BY <3>1 DEF Range
    <3> HIDE DEF left, new
    <3> QED BY <3>1, <3>2, SeqDef
  <2> HIDE DEF left, new
  <2> DEFINE S == Range(left) \cup Range(new)
  <2>2. left \in Seq(S) /\ new \in Seq(S)
    BY <2>1
  <2> HIDE DEF S
  <2> QED BY <2>2, RangeConcatenation
<1>7. ASSUME NEW s
      PROVE  (keeps(s) /\ r = cut(s)) \/ (splits(s) /\ r = after(s)) <=>
             r \in Pieces(IsSameUser(t, s.owner, o), start, end, s)
  <2>1. Pieces(IsSameUser(t, s.owner, o), start, end, s) =
          IF ~touched(s) THEN {s}
          ELSE (IF start > s.start THEN {before(s)} ELSE {}) \cup (IF end < LastOf(s) THEN {after(s)} ELSE {})
    BY DEF Pieces
  <2> HIDE DEF touched, before, after
  <2>2. CASE ~touched(s)
    BY <2>1, <2>2
  <2>3. CASE touched(s)
    BY <2>1, <2>3
  <2> QED BY <2>2, <2>3
<1> HIDE DEF left, new, keeps, splits, cut, after, end
<1>8. r \in Range(left \o new) <=> \E s \in Range(db) : (keeps(s) /\ r = cut(s)) \/ (splits(s) /\ r = after(s))
  BY <1>3, <1>4, <1>5, <1>6
<1>9. r \in Range(left \o new) <=>
        \E s \in Range(db) : r \in Pieces(IsSameUser(t, s.owner, o), start, end, s)
  BY <1>7, <1>8
<1> QED BY <1>1, <1>9 DEF end

\* Who is the same user.
LEMMA SameFact ==
  ASSUME NEW t \in Tables, NEW a, NEW b, NEW c
  PROVE  /\ IsSameUser(t, a, b) <=> IsSameUser(t, b, a)
         /\ IsSameUser(t, a, b) /\ IsSameUser(t, b, c) => IsSameUser(t, a, c)
         /\ IsSameUser(t, a, a) <=> KnownUid(t, a) # {}
         /\ IsSameUser(t, a, b) => KnownUid(t, a) # {} /\ KnownUid(t, b) # {}
<1>1. \A x, y \in KnownUid(t, b) : x = y
  BY KnownFact
<1> QED BY <1>1 DEF IsSameUser

\* What an edit leaves: the user has lost some identifiers and been given some,
\* and users who are somebody else have what they had.
Exact(db, d, name, lost, given) ==
  /\ \A x : x \in OwnedBy(passwd, d, name) <=>
              (x \in OwnedBy(passwd, db, name) /\ x \notin lost) \/ x \in given
  /\ \A u : u # name /\ ~IsSameUser(passwd, u, name) =>
              \A x : x \in OwnedBy(passwd, d, u) <=> x \in OwnedBy(passwd, db, u)

\* The same ranges in another order are nobody's loss.
LEMMA ExactSame ==
  ASSUME NEW db, NEW d, Range(d) = Range(db), NEW name
  PROVE  Exact(db, d, name, {}, {})
<1>1. \A u : OwnedBy(passwd, d, u) = OwnedBy(passwd, db, u)
  BY DEF OwnedBy
<1> QED BY <1>1 DEF Exact

\* remove_range takes the identifiers from the user, when it is one.
LEMMA ExactRemove ==
  ASSUME passwd \in Tables, NEW db \in Seq(SubRange), NEW o, NEW start \in Nat, NEW count \in Nat
  PROVE  Exact(db, RemoveRange(passwd, db, o, start, count), o,
               IF KnownUid(passwd, o) = {} THEN {} ELSE start .. start + count - 1, {})
<1> DEFINE end == start + count - 1
           d == RemoveRange(passwd, db, o, start, count)
           same(n) == IsSameUser(passwd, n, o)
           of(n, u) == n = u \/ IsSameUser(passwd, n, u)
           known == KnownUid(passwd, o) # {}
<1>1. CASE count = 0
  <2>1. d = db
    BY <1>1 DEF RemoveRange
  <2>2. start .. end = {}
    BY <1>1
  <2>3. \A x : x \notin (IF KnownUid(passwd, o) = {} THEN {} ELSE start .. end)
    BY <2>2
  <2> HIDE DEF d, end
  <2> QED BY <2>1, <2>3 DEF Exact, d, end
<1>2. CASE count # 0
  <2> DEFINE pieces(s) == Pieces(same(s.owner), start, end, s)
  <2>1. \A r : r \in Range(d) <=> \E s \in Range(db) : r \in pieces(s)
    BY <1>2, RemovedRanges
  <2>2. \A s \in Range(db) :
          /\ \A r \in pieces(s) : r.owner = s.owner
          /\ \A x : (\E r \in pieces(s) : x \in IdsOf(r))
                      <=> x \in IdsOf(s) /\ ~(same(s.owner) /\ x \in start .. end)
    <3>1. end \in Int /\ start <= end
      BY <1>2
    <3>2. \A s \in Range(db) : s \in SubRange
      BY LenProperties DEF Range
    <3> HIDE DEF end, same
    <3> QED BY <3>1, <3>2, PiecesFact
  <2>3. \A e, u, x : x \in OwnedBy(passwd, e, u) <=>
          \E r \in Range(e) : of(r.owner, u) /\ x \in IdsOf(r)
    BY DEF OwnedBy
  <2> HIDE DEF pieces, d, of
  <2>4. \A u, x : x \in OwnedBy(passwd, d, u) <=>
          \E s \in Range(db) : /\ of(s.owner, u) /\ x \in IdsOf(s)
                               /\ ~(same(s.owner) /\ x \in start .. end)
    <3> SUFFICES ASSUME NEW u, NEW x
                 PROVE  x \in OwnedBy(passwd, d, u) <=>
                          \E s \in Range(db) : /\ of(s.owner, u) /\ x \in IdsOf(s)
                                               /\ ~(same(s.owner) /\ x \in start .. end)
      OBVIOUS
    <3> HIDE DEF same, end
    <3>1. ASSUME x \in OwnedBy(passwd, d, u)
          PROVE  \E s \in Range(db) : /\ of(s.owner, u) /\ x \in IdsOf(s)
                                      /\ ~(same(s.owner) /\ x \in start .. end)
      <4>1. PICK r \in Range(d) : of(r.owner, u) /\ x \in IdsOf(r)
        BY <2>3, <3>1
      <4>2. PICK s \in Range(db) : r \in pieces(s)
        BY <2>1, <4>1
      <4>3. r.owner = s.owner /\ x \in IdsOf(s) /\ ~(same(s.owner) /\ x \in start .. end)
        BY <2>2, <4>1, <4>2
      <4> QED BY <4>1, <4>3
    <3>2. ASSUME NEW s \in Range(db), of(s.owner, u), x \in IdsOf(s),
                 ~(same(s.owner) /\ x \in start .. end)
          PROVE  x \in OwnedBy(passwd, d, u)
      <4>1. PICK r \in pieces(s) : x \in IdsOf(r)
        BY <2>2, <3>2
      <4>2. r \in Range(d) /\ r.owner = s.owner
        BY <2>1, <2>2
      <4> QED BY <2>3, <3>2, <4>1, <4>2
    <3> QED BY <3>1, <3>2
  <2> DEFINE lost == IF KnownUid(passwd, o) = {} THEN {} ELSE start .. end
  <2>5. \A n : of(n, o) => (same(n) <=> known)
    BY SameFact DEF of
  <2>6. ASSUME NEW u, u # o, ~IsSameUser(passwd, u, o), NEW n, of(n, u)
        PROVE  ~same(n)
    BY <2>6, SameFact DEF of
  <2>7. \A x : x \in lost <=> known /\ x \in start .. end
    OBVIOUS
  <2> HIDE DEF same, known, lost, end
  <2>8. \A x : x \in OwnedBy(passwd, d, o) <=> x \in OwnedBy(passwd, db, o) /\ x \notin lost
    BY <2>3, <2>4, <2>5, <2>7
  <2>9. \A u : u # o /\ ~IsSameUser(passwd, u, o) =>
           \A x : x \in OwnedBy(passwd, d, u) <=> x \in OwnedBy(passwd, db, u)
    BY <2>3, <2>4, <2>6
  <2>10. Exact(db, d, o, lost, {})
    BY <2>8, <2>9 DEF Exact
  <2> QED BY <2>10 DEF lost, d, end
<1> QED BY <1>1, <1>2

\* add_range gives the identifiers to the name it is for, and so to all names
\* of the user.
LEMMA ExactAdd ==
  ASSUME passwd \in Tables, NEW db \in Seq(SubRange), NEW o \in OwnerNames, NEW start \in Nat, NEW count \in Nat,
         NEW name, o = name \/ IsSameUser(passwd, o, name)
  PROVE  Exact(db, AddRange(passwd, db, o, start, count), name, {}, start .. start + count - 1)
<1> DEFINE span == start .. start + count - 1
           d == AddRange(passwd, db, o, start, count)
           new == RangeOf(o, start, count)
           of(n, u) == n = u \/ IsSameUser(passwd, n, u)
<1>1. \A e, u, x : x \in OwnedBy(passwd, e, u) <=>
        \E r \in Range(e) : of(r.owner, u) /\ x \in IdsOf(r)
  BY DEF OwnedBy
<1>2. new \in SubRange /\ new.owner = o /\ IdsOf(new) = span
  BY DEF RangeOf, SubRange, IdsOf, LastOf
<1>3. of(o, name)
  OBVIOUS
<1>4. \A n : of(n, o) => of(n, name)
  BY SameFact
<1>5. \A u : u # name /\ ~IsSameUser(passwd, u, name) => ~of(o, u)
  BY SameFact
<1> HIDE DEF of, new
<1>6. CASE HaveRange(passwd, db, o, start, count)
  <2>1. d = db
    BY <1>6 DEF AddRange
  <2>2. \A x \in span : x \in OwnedBy(passwd, db, o)
    BY <1>6, HaveRangeFact
  <2>3. \A x \in OwnedBy(passwd, db, o) : x \in OwnedBy(passwd, db, name)
    BY <1>1, <1>4
  <2> HIDE DEF span, d
  <2> QED BY <2>1, <2>2, <2>3 DEF Exact, span, d
<1>7. CASE ~HaveRange(passwd, db, o, start, count)
  <2>1. d = Append(db, new)
    BY <1>7 DEF AddRange, new
  <2>2. \A r : r \in Range(d) <=> r \in Range(db) \/ r = new
    <3>1. /\ Append(db, new) \in Seq(SubRange) /\ Len(Append(db, new)) = Len(db) + 1
          /\ \A i \in 1 .. Len(db) : Append(db, new)[i] = db[i]
          /\ Append(db, new)[Len(db) + 1] = new
      BY <1>2, AppendProperties
    <3> HIDE DEF d
    <3>2. Len(db) \in Nat /\ DOMAIN db = 1 .. Len(db) /\ DOMAIN d = 1 .. Len(db) + 1
      BY <2>1, <3>1, LenProperties
    <3>3. \A i \in DOMAIN d : d[i] \in Range(db) \/ d[i] = new
      BY <2>1, <3>1, <3>2 DEF Range
    <3>4. \A i \in DOMAIN db : i \in DOMAIN d /\ d[i] = db[i]
      BY <2>1, <3>1, <3>2
    <3>5. Len(db) + 1 \in DOMAIN d /\ d[Len(db) + 1] = new
      BY <2>1, <3>1, <3>2
    <3>6. \A r \in Range(d) : r \in Range(db) \/ r = new
      BY <3>3 DEF Range
    <3>7. \A r \in Range(db) : r \in Range(d)
      BY <3>4 DEF Range
    <3>8. new \in Range(d)
      BY <3>5 DEF Range
    <3> QED BY <3>6, <3>7, <3>8
  <2> HIDE DEF d, span
  <2>3. \A u, x : x \in OwnedBy(passwd, d, u) <=>
          x \in OwnedBy(passwd, db, u) \/ (of(o, u) /\ x \in span)
    <3> SUFFICES ASSUME NEW u, NEW x
                 PROVE  x \in OwnedBy(passwd, d, u) <=>
                          x \in OwnedBy(passwd, db, u) \/ (of(o, u) /\ x \in span)
      OBVIOUS
    <3>1. of(new.owner, u) /\ x \in IdsOf(new) <=> of(o, u) /\ x \in span
      BY <1>2
    <3> QED BY <1>1, <2>2, <3>1
  <2> QED BY <1>3, <1>5, <2>3 DEF Exact, span, d
<1> QED BY <1>6, <1>7

\* sub_uid_add, to the name of the user or to its number.
LEMMA ExactSubIdAdd ==
  ASSUME SubIdsAssumption, passwd \in Tables, NEW db \in Seq(SubRange), NEW o \in OwnerNames,
         NEW start \in Nat, NEW count \in Nat, NEW d \in SubIdAdd(config, passwd, db, o, start, count)
  PROVE  d \in Seq(SubRange) /\ Exact(db, d, o, {}, start .. start + count - 1)
<1>1. \E n \in OwnerNames : /\ n = o \/ IsSameUser(passwd, n, o)
                            /\ d = AddRange(passwd, db, n, start, count)
  <2>1. CASE config.storeByUid
    <3>1. PICK n \in DOMAIN NumberOf : NumberOf[n] \in KnownUid(passwd, o) /\ d = AddRange(passwd, db, n, start, count)
      BY <2>1 DEF SubIdAdd
    <3>2. n \in OwnerNames
      BY DEF OwnerNames
    <3>3. NumberOf[n] \in Range(passwd)
      BY <3>1, KnownFact
    <3>4. NumberOf[n] \in KnownUid(passwd, n)
      BY <3>3 DEF KnownUid
    <3>5. IsSameUser(passwd, n, o)
      BY <3>1, <3>4 DEF IsSameUser
    <3> QED BY <3>1, <3>2, <3>5
  <2>2. CASE ~config.storeByUid
    BY <2>2 DEF SubIdAdd
  <2> QED BY <2>1, <2>2
<1>2. PICK n \in OwnerNames : /\ n = o \/ IsSameUser(passwd, n, o)
                              /\ d = AddRange(passwd, db, n, start, count)
  BY <1>1
<1> QED BY <1>2, AddFact, ExactAdd

\* One edit after another.
LEMMA ExactThen ==
  ASSUME NEW a, NEW b, NEW c, NEW name, NEW lost, NEW given, NEW more, NEW gift,
         Exact(a, b, name, lost, given), Exact(b, c, name, more, gift)
  PROVE  Exact(a, c, name, lost \cup more, (given \ more) \cup gift)
BY DEF Exact

\* What holds first, and is carried on by each step to what holds next.
LEMMA CarriedOn ==
  ASSUME NEW n \in Nat, NEW S, NEW f, f[0] \in S[0],
         \A i \in 1 .. n : f[i - 1] \in S[i - 1] => f[i] \in S[i]
  PROVE  f[n] \in S[n]
<1> DEFINE good == {i \in 0 .. n : f[i] \in S[i]}
           in == [i \in 0 .. n |-> IF i \in good THEN 1 ELSE 0]
           T == {1}
<1>1. in[0] \in T
  BY DEF T
<1>2. \A i \in 1 .. n : in[i - 1] \in T => in[i] \in T
  <2> SUFFICES ASSUME NEW i \in 1 .. n, in[i - 1] \in T PROVE in[i] \in T
    OBVIOUS
  <2>1. i - 1 \in 0 .. n /\ i \in 0 .. n
    OBVIOUS
  <2>2. i - 1 \in good
    BY <2>1
  <2>3. i \in good
    BY <2>1, <2>2
  <2> QED BY <2>1, <2>3
<1>3. \A i \in 0 .. n : in[i] \in T
  <2> HIDE DEF in, T
  <2> QED BY <1>1, <1>2, Carried
<1>4. n \in good
  BY <1>3
<1> QED BY <1>4

\* The identifiers of some ranges.
Span(r) == r.start .. r.start + r.count - 1
Spans(ranges, n) == UNION {Span(ranges[j]) : j \in 1 .. n}

\* The identifiers of the first ranges, one range more at a time.
LEMMA SpansFact ==
  ASSUME NEW ranges
  PROVE  /\ Spans(ranges, 0) = {}
         /\ \A i \in Nat \ {0} : Spans(ranges, i) = Spans(ranges, i - 1) \cup Span(ranges[i])
<1>1. Spans(ranges, 0) = {}
  BY DEF Spans
<1>2. ASSUME NEW i \in Nat \ {0} PROVE Spans(ranges, i) = Spans(ranges, i - 1) \cup Span(ranges[i])
  <2>1. \A j : j \in 1 .. i <=> j \in 1 .. i - 1 \/ j = i
    OBVIOUS
  <2> QED BY <2>1 DEF Spans
<1> QED BY <1>1, <1>2

\* Nothing is taken from a user who is not known.
Lost(o, ids) == IF KnownUid(passwd, o) = {} THEN {} ELSE ids

LEMMA LostFact ==
  ASSUME NEW o, NEW a, NEW b
  PROVE  Lost(o, {}) = {} /\ Lost(o, a \cup b) = Lost(o, a) \cup Lost(o, b)
BY DEF Lost

\* The removals of usermod take all those identifiers.
LEMMA ExactRemovals ==
  ASSUME passwd \in Tables, NEW o, NEW db \in Seq(SubRange), NEW m \in Nat, NEW del,
         \A i \in 1 .. m : del[i].start \in Nat /\ del[i].count \in Nat,
         NEW f, f = Removals(passwd, o, db, del, m, f)
  PROVE  f[m] \in Seq(SubRange) /\ Exact(db, f[m], o, Lost(o, Spans(del, m)), {})
<1> DEFINE S == [i \in 0 .. m |-> {d \in Seq(SubRange) : Exact(db, d, o, Lost(o, Spans(del, i)), {})}]
<1>1. /\ 0 \in 0 .. m /\ f[0] = db
      /\ \A i \in 1 .. m : i \in 0 .. m /\ i - 1 \in 0 .. m
                           /\ f[i] = RemoveRange(passwd, f[i - 1], o, del[i].start, del[i].count)
  <2>1. f = [i \in 0 .. m |-> IF i = 0 THEN db ELSE RemoveRange(passwd, f[i - 1], o, del[i].start, del[i].count)]
    BY DEF Removals
  <2>2. \A i \in 0 .. m : f[i] = IF i = 0 THEN db ELSE RemoveRange(passwd, f[i - 1], o, del[i].start, del[i].count)
    BY <2>1
  <2>3. 0 \in 0 .. m
    OBVIOUS
  <2>4. \A i \in 1 .. m : i \in 0 .. m /\ i - 1 \in 0 .. m /\ i # 0
    OBVIOUS
  <2> QED BY <2>2, <2>3, <2>4
<1>2. f[0] \in S[0]
  <2>1. Exact(db, db, o, {}, {})
    BY ExactSame
  <2>2. Exact(db, db, o, Lost(o, Spans(del, 0)), {})
    BY <2>1, SpansFact, LostFact
  <2> QED BY <1>1, <2>2
<1>3. ASSUME NEW i \in 1 .. m, f[i - 1] \in S[i - 1] PROVE f[i] \in S[i]
  <2> DEFINE d == f[i - 1]
             s == del[i].start
             k == del[i].count
  <2>1. d \in Seq(SubRange) /\ Exact(db, d, o, Lost(o, Spans(del, i - 1)), {})
    BY <1>1, <1>3
  <2>2. s \in Nat /\ k \in Nat /\ f[i] = RemoveRange(passwd, d, o, s, k)
    BY <1>1
  <2>3. Span(del[i]) = s .. s + k - 1
    BY DEF Span
  <2> HIDE DEF d, s, k
  <2>4. f[i] \in Seq(SubRange) /\ Exact(d, f[i], o, Lost(o, Span(del[i])), {})
    <3> DEFINE e == RemoveRange(passwd, d, o, s, k)
    <3>1. e \in Seq(SubRange)
      BY <2>1, <2>2, RemoveFact
    <3>2. Exact(d, e, o, IF KnownUid(passwd, o) = {} THEN {} ELSE s .. s + k - 1, {})
      BY <2>1, <2>2, ExactRemove
    <3> HIDE DEF e
    <3>3. Exact(d, e, o, Lost(o, Span(del[i])), {})
      BY <2>3, <3>2 DEF Lost
    <3>4. f[i] = e
      BY <2>2 DEF e
    <3> QED BY <3>1, <3>3, <3>4
  <2> DEFINE more == Lost(o, Span(del[i]))
             lost == Lost(o, Spans(del, i - 1))
  <2>5. Exact(db, f[i], o, lost \cup more, ({} \ more) \cup {})
    <3> HIDE DEF lost, more
    <3>1. Exact(db, d, o, lost, {}) /\ Exact(d, f[i], o, more, {})
      BY <2>1, <2>4 DEF lost, more
    <3> QED BY <3>1, ExactThen
  <2>6. Exact(db, f[i], o, Lost(o, Spans(del, i)), {})
    <3>1. ({} \ more) \cup {} = {}
      OBVIOUS
    <3>2. Spans(del, i) = Spans(del, i - 1) \cup Span(del[i])
      BY SpansFact
    <3>3. Lost(o, Spans(del, i)) = lost \cup more
      BY <3>2, LostFact
    <3> QED BY <2>5, <3>1, <3>3
  <2> QED BY <1>1, <2>4, <2>6
<1>4. f[m] \in S[m]
  <2> HIDE DEF S
  <2> QED BY <1>2, <1>3, CarriedOn
<1>5. m \in 0 .. m
  OBVIOUS
<1> QED BY <1>4, <1>5

\* And the additions give all of theirs, in each copy that there may be.
LEMMA ExactAdditions ==
  ASSUME SubIdsAssumption, passwd \in Tables, NEW o \in OwnerNames,
         NEW old, NEW lost, NEW db \in Seq(SubRange), Exact(old, db, o, lost, {}),
         NEW m \in Nat, NEW ranges, \A i \in 1 .. m : ranges[i].start \in Nat /\ ranges[i].count \in Nat,
         NEW f, f = Additions(config, passwd, o, {db}, ranges, m, f)
  PROVE  \A d \in f[m] : Exact(old, d, o, lost, Spans(ranges, m))
<1> DEFINE Good(i) == {d \in Seq(SubRange) : Exact(old, d, o, lost, Spans(ranges, i))}
           S == [i \in 0 .. m |-> SUBSET Good(i)]
           next(d, i) == SubIdAdd(config, passwd, d, o, ranges[i].start, ranges[i].count)
<1>1. /\ 0 \in 0 .. m /\ f[0] = {db}
      /\ \A i \in 1 .. m : i \in 0 .. m /\ i - 1 \in 0 .. m /\ f[i] = UNION {next(d, i) : d \in f[i - 1]}
  <2>1. f = [i \in 0 .. m |-> IF i = 0 THEN {db} ELSE UNION {next(d, i) : d \in f[i - 1]}]
    BY DEF Additions
  <2> HIDE DEF next
  <2>2. \A i \in 0 .. m : f[i] = IF i = 0 THEN {db} ELSE UNION {next(d, i) : d \in f[i - 1]}
    BY <2>1
  <2>3. 0 \in 0 .. m
    OBVIOUS
  <2>4. \A i \in 1 .. m : i \in 0 .. m /\ i - 1 \in 0 .. m /\ i # 0
    OBVIOUS
  <2> QED BY <2>2, <2>3, <2>4
<1>2. f[0] \in S[0]
  <2>1. Exact(old, db, o, lost, Spans(ranges, 0))
    BY SpansFact
  <2>2. {db} \subseteq Good(0)
    BY <2>1
  <2> HIDE DEF Good
  <2> QED BY <1>1, <2>2
<1>3. ASSUME NEW i \in 1 .. m, f[i - 1] \in S[i - 1] PROVE f[i] \in S[i]
  <2>1. \A d \in f[i - 1] : d \in Good(i - 1)
    <3> HIDE DEF Good
    <3> QED BY <1>1, <1>3
  <2>2. ASSUME NEW d \in f[i - 1], NEW e \in next(d, i) PROVE e \in Good(i)
    <3> DEFINE s == ranges[i].start
               k == ranges[i].count
    <3>1. d \in Seq(SubRange) /\ Exact(old, d, o, lost, Spans(ranges, i - 1))
      BY <2>1
    <3>2. s \in Nat /\ k \in Nat /\ e \in SubIdAdd(config, passwd, d, o, s, k)
      BY <2>2
    <3>3. Span(ranges[i]) = s .. s + k - 1
      BY DEF Span
    <3> HIDE DEF s, k
    <3>4. e \in Seq(SubRange) /\ Exact(d, e, o, {}, Span(ranges[i]))
      <4>1. e \in Seq(SubRange) /\ Exact(d, e, o, {}, s .. s + k - 1)
        BY <3>1, <3>2, ExactSubIdAdd
      <4> QED BY <3>3, <4>1
    <3>5. Exact(old, e, o, lost \cup {}, (Spans(ranges, i - 1) \ {}) \cup Span(ranges[i]))
      BY <3>1, <3>4, ExactThen
    <3>6. Exact(old, e, o, lost, Spans(ranges, i))
      <4>1. lost \cup {} = lost
        OBVIOUS
      <4>2. Spans(ranges, i) = (Spans(ranges, i - 1) \ {}) \cup Span(ranges[i])
        BY SpansFact
      <4> QED BY <3>5, <4>1, <4>2
    <3> QED BY <3>4, <3>6
  <2> HIDE DEF Good, next
  <2> QED BY <1>1, <2>2
<1>4. f[m] \in S[m]
  <2> HIDE DEF S
  <2> QED BY <1>2, <1>3, CarriedOn
<1>5. m \in 0 .. m
  OBVIOUS
<1>6. f[m] \subseteq Good(m)
  <2> HIDE DEF Good
  <2> QED BY <1>4, <1>5
<1> QED BY <1>6

\* So usermod takes from its user what is asked, and gives what is asked and
\* what the search has found.
LEMMA ExactUsermod ==
  ASSUME SubIdsAssumption, NEW job \in Jobs, job.name \in OwnerNames, passwd \in Tables,
         NEW db \in Seq(SubRange), NEW found \in Seq(Stretch), NEW d \in UsermodSub(job, db, found)
  PROVE  LET ranges == found \o job.add
         IN  Exact(db, d, job.name, Lost(job.name, Spans(job.del, Len(job.del))), Spans(ranges, Len(ranges)))
<1> DEFINE searched == IF "S" \in job.flags THEN AfterFind(config, db) ELSE db
           del == job.del
           ranges == found \o job.add
           m == Len(del)
           n == Len(ranges)
           removed == CHOOSE f : f = Removals(passwd, job.name, searched, del, m, f)
           first == {removed[m]}
           added == CHOOSE f : f = Additions(config, passwd, job.name, first, ranges, n, f)
<1>1. UsermodSub(job, db, found) = added[n]
  BY DEF UsermodSub, Removals, Additions
<1>2. job.add \in Seq(Stretch) /\ del \in Seq(Stretch)
  BY DEF SubIdsAssumption
<1>3. ranges \in Seq(Stretch)
  BY <1>2, ConcatProperties
<1> DEFINE name == job.name
<1>4. searched \in Seq(SubRange) /\ Exact(db, searched, name, {}, {})
  <2>1. searched \in Seq(SubRange) /\ Range(searched) = Range(db)
    BY AfterFindFact
  <2> HIDE DEF searched, name
  <2> QED BY <2>1, ExactSame
<1>0. name \in OwnerNames
  OBVIOUS
<1> HIDE DEF name, searched, del, ranges
<1>5. m \in Nat /\ \A i \in 1 .. m : del[i].start \in Nat /\ del[i].count \in Nat
  <2>1. m \in Nat /\ \A i \in 1 .. m : del[i] \in Stretch
    BY <1>2, LenProperties
  <2> QED BY <2>1 DEF Stretch
<1>6. n \in Nat /\ \A i \in 1 .. n : ranges[i].start \in Nat /\ ranges[i].count \in Nat
  <2>1. n \in Nat /\ \A i \in 1 .. n : ranges[i] \in Stretch
    BY <1>3, LenProperties
  <2> QED BY <2>1 DEF Stretch
<1> HIDE DEF m, n
<1> DEFINE lost == Lost(name, Spans(del, m))
<1>7. removed[m] \in Seq(SubRange) /\ Exact(db, removed[m], name, lost, {})
  <2>1. \E f : f = Removals(passwd, name, searched, del, m, f)
    BY <1>4, <1>5, RemovedFact
  <2>2. removed = Removals(passwd, name, searched, del, m, removed)
    BY <2>1 DEF name
  <2> HIDE DEF removed
  <2>3. removed[m] \in Seq(SubRange) /\ Exact(searched, removed[m], name, lost, {})
    BY <1>4, <1>5, <2>2, ExactRemovals
  <2> HIDE DEF lost
  <2>4. Exact(db, removed[m], name, {} \cup lost, ({} \ lost) \cup {})
    BY <1>4, <2>3, ExactThen
  <2>5. {} \cup lost = lost /\ ({} \ lost) \cup {} = {}
    OBVIOUS
  <2> QED BY <2>3, <2>4, <2>5
<1> HIDE DEF removed, lost
<1>8. first \in SUBSET Seq(SubRange)
  BY <1>7
<1> HIDE DEF first
<1>9. d \in added[n]
  BY <1>1
<1>10. Exact(db, d, name, lost, Spans(ranges, n))
  <2>1. /\ \E f : f = Additions(config, passwd, name, first, ranges, n, f)
        /\ \A f : f = Additions(config, passwd, name, first, ranges, n, f) => f[n] \in SUBSET Seq(SubRange)
    BY <1>0, <1>6, <1>8, AddedFact
  <2>2. added = Additions(config, passwd, name, first, ranges, n, added)
    BY <2>1 DEF name
  <2> HIDE DEF added
  <2>3. added = Additions(config, passwd, name, {removed[m]}, ranges, n, added)
    BY <2>2 DEF first
  <2> QED BY <1>0, <1>6, <1>7, <1>9, <2>3, ExactAdditions
<1> QED BY <1>10 DEF name, del, ranges, m, n, lost

\* What a search has given: so many identifiers from somewhere on, that nobody
\* had when the search was the linear one.
Searched(db, ids, count) ==
  ids # {} => \E start \in Nat :
                /\ ids = start .. start + count - 1
                /\ ~config.deterministic => ids \cap AllIds(db) = {}

\* What is assigned to a new user.
LEMMA ExactAssigned ==
  ASSUME SubIdsAssumption, passwd \in Tables, NEW mem, mem.sub \in Seq(SubRange),
         NEW name \in OwnerNames, NEW uid \in Nat, NEW s \in Assigned(mem, name, uid)
  PROVE  \E ids : Exact(mem.sub, s, name, {}, ids) /\ Searched(mem.sub, ids, SubIdCount)
<1> DEFINE db == mem.sub
           d == AfterFind(config, db)
<1>0. db # Closed
  BY DEF SubIdsAssumption
<1>1. PICK start \in FindNewSubIds(config, db, uid) :
        s \in IF RangeExists(passwd, db, name) THEN {d}
              ELSE SubIdAdd(config, passwd, d, name, start, SubIdCount)
  BY <1>0 DEF Assigned
<1>2. d \in Seq(SubRange) /\ Exact(db, d, name, {}, {})
  <2>1. d \in Seq(SubRange) /\ Range(d) = Range(db)
    BY AfterFindFact
  <2> HIDE DEF d, db
  <2> QED BY <2>1, ExactSame
<1>3. /\ start \in Nat /\ SubIdCount \in Nat
      /\ ~config.deterministic => start .. start + SubIdCount - 1 \cap AllIds(db) = {}
  <2>1. SubIdCount \in Nat
    BY DEF SubIdsAssumption
  <2> QED BY <2>1, NewIdsFact
<1> HIDE DEF db, d
<1>4. CASE s = d
  <2>1. Searched(db, {}, SubIdCount)
    BY DEF Searched
  <2> QED BY <1>2, <1>4, <2>1 DEF db
<1>5. CASE s # d
  <2> DEFINE ids == start .. start + SubIdCount - 1
  <2>1. s \in SubIdAdd(config, passwd, d, name, start, SubIdCount)
    BY <1>1, <1>5
  <2>2. Exact(d, s, name, {}, ids)
    BY <1>2, <1>3, <2>1, ExactSubIdAdd
  <2>3. Exact(db, s, name, {} \cup {}, ({} \ {}) \cup ids)
    <3> HIDE DEF ids
    <3> QED BY <1>2, <2>2, ExactThen
  <2>4. {} \cup {} = {} /\ ({} \ {}) \cup ids = ids
    OBVIOUS
  <2>5. Searched(db, ids, SubIdCount)
    BY <1>3 DEF Searched
  <2> HIDE DEF ids
  <2>6. Exact(db, s, name, {}, ids)
    BY <2>3, <2>4
  <2> QED BY <2>5, <2>6 DEF db
<1> QED BY <1>4, <1>5

\* What an edit is asked to take, and to give.
RangesSpan(ranges) == UNION {r.start .. r.start + r.count - 1 : r \in Range(ranges)}

LostBy(job) ==
  IF KnownUid(passwd, job.name) = {} THEN {}
  ELSE CASE job.tool = "userdel" -> 0 .. MaxId + 1
         [] job.tool = "ungrant" -> job.start .. job.start + job.count - 1
         [] job.tool = "usermod" -> RangesSpan(job.del)
         [] OTHER -> {}

GivenBy(job) == IF job.tool = "usermod" THEN RangesSpan(job.add) ELSE {}

Searching == {"useradd", "newusers", "grant"}
WantedBy(job) == IF job.tool = "grant" THEN job.count ELSE SubIdCount

\* An edit does what it is asked, and more when it searches.
ExactEdit(job, before, after, ids) ==
  /\ Exact(before, after, job.name, LostBy(job), GivenBy(job) \cup ids)
  /\ ids # {} => job.tool \in Searching \/ (job.tool = "usermod" /\ "S" \in job.flags)
  /\ job.tool \in Searching => Searched(before, ids, WantedBy(job))

\* The identifiers of all the ranges of a sequence.
LEMMA RangesSpanFact ==
  ASSUME NEW S, NEW ranges \in Seq(S)
  PROVE  Spans(ranges, Len(ranges)) = RangesSpan(ranges)
<1>1. DOMAIN ranges = 1 .. Len(ranges)
  BY LenProperties
<1> QED BY <1>1 DEF Spans, Span, RangesSpan, Range

\* The tools that search.
LEMMA ExactSearches ==
  ASSUME SubIdsAssumption, NEW job \in Jobs, job.tool \in Searching, NEW mem \in Mems, passwd \in Tables,
         mem.sub \in Seq(SubRange), job.tool # "grant" => mem.passwd \in Tables,
         NEW asked, NEW new \in EditsOf(job, mem, asked)
  PROVE  \E ids : ExactEdit(job, mem.sub, new.sub, ids)
<1> DEFINE name == job.name
           db == mem.sub
           tool == job.tool
<1>1. /\ job.uid \in Nat /\ job.start \in Nat /\ job.count \in Nat
      /\ name \in UserNames /\ name \in OwnerNames /\ SubIdCount \in Nat /\ MaxId \in Nat
  BY JobFact
<1>2. LostBy(job) = {} /\ GivenBy(job) = {}
  BY DEF LostBy, GivenBy, Searching
<1>3. ASSUME NEW ids, Exact(db, new.sub, name, {}, ids), Searched(db, ids, WantedBy(job))
      PROVE  ExactEdit(job, mem.sub, new.sub, ids)
  <2>1. {} \cup ids = ids
    OBVIOUS
  <2>2. Exact(db, new.sub, name, LostBy(job), GivenBy(job) \cup ids)
    BY <1>2, <1>3, <2>1
  <2> QED BY <1>3, <2>2 DEF ExactEdit, name, db
<1>4. CASE tool = "useradd"
  <2>1. PICK s \in Assigned(mem, name, job.uid) :
          new = [passwd |-> Put(mem.passwd, name, job.uid), sub |-> s]
    BY <1>4 DEF EditsOf, UseraddEdit, name, tool
  <2>2. \E ids : Exact(db, s, name, {}, ids) /\ Searched(db, ids, SubIdCount)
    <3> HIDE DEF name
    <3> QED BY <1>1, ExactAssigned
  <2>3. new.sub = s /\ WantedBy(job) = SubIdCount
    BY <1>4, <2>1 DEF WantedBy
  <2> QED BY <1>3, <2>2, <2>3
<1>5. CASE tool = "newusers"
  <2> DEFINE uid == IF name \in DOMAIN mem.passwd THEN mem.passwd[name] ELSE job.uid
  <2>1. PICK s : /\ s = mem.sub \/ s \in Assigned(mem, name, uid)
                 /\ new = [passwd |-> Put(mem.passwd, name, uid), sub |-> s]
    BY <1>5 DEF EditsOf, NewusersEdit, name, tool
  <2>2. uid \in Nat
    BY <1>1, <1>5, TableFact
  <2> HIDE DEF uid
  <2>3. new.sub = s /\ WantedBy(job) = SubIdCount
    BY <1>5, <2>1 DEF WantedBy
  <2>4. CASE s = mem.sub
    <3>1. Exact(db, s, name, {}, {})
      BY <2>4, ExactSame
    <3>2. Searched(db, {}, SubIdCount)
      BY DEF Searched
    <3> QED BY <1>3, <2>3, <3>1, <3>2
  <2>5. CASE s \in Assigned(mem, name, uid)
    <3>1. \E ids : Exact(db, s, name, {}, ids) /\ Searched(db, ids, SubIdCount)
      <4> HIDE DEF name
      <4> QED BY <1>1, <2>2, <2>5, ExactAssigned
    <3> QED BY <1>3, <2>3, <3>1
  <2> QED BY <2>1, <2>4, <2>5
<1>6. CASE tool = "grant"
  <2> DEFINE d == Sorted(db)
             count == job.count
  <2>1. PICK start \in FindFreeRange(db, job.start, MaxId, count) :
          new = [mem EXCEPT !.sub = AddRange(passwd, d, name, start, count)]
    BY <1>6 DEF EditsOf, GrantEdit, name, tool
  <2> DEFINE ids == start .. start + count - 1
             s == AddRange(passwd, d, name, start, count)
  <2>2. /\ mem = [passwd |-> mem.passwd, sub |-> mem.sub]
    BY DEF Mems
  <2>3. new.sub = s
    <3> HIDE DEF s
    <3> QED BY <2>1, <2>2 DEF s
  <2>4. start \in Nat /\ ids \cap AllIds(db) = {} /\ count \in Nat
    BY <1>1, <2>1, FoundIsFree
  <2>5. d \in Seq(SubRange) /\ Exact(db, d, name, {}, {})
    <3>1. d \in Seq(SubRange) /\ Range(d) = Range(db)
      BY SortedSub
    <3> HIDE DEF d, db, name
    <3> QED BY <3>1, ExactSame
  <2> HIDE DEF d, count, name
  <2>6. Exact(d, s, name, {}, ids)
    BY <1>1, <2>4, <2>5, ExactAdd
  <2>7. Exact(db, s, name, {} \cup {}, ({} \ {}) \cup ids)
    <3> HIDE DEF ids, s
    <3> QED BY <2>5, <2>6, ExactThen
  <2>8. {} \cup {} = {} /\ ({} \ {}) \cup ids = ids
    OBVIOUS
  <2>9. Searched(db, ids, count)
    BY <2>4 DEF Searched
  <2>10. WantedBy(job) = count
    BY <1>6 DEF WantedBy, count
  <2> HIDE DEF ids, s
  <2>11. Exact(db, new.sub, name, {}, ids)
    BY <2>3, <2>7, <2>8
  <2> QED BY <1>3, <2>9, <2>10, <2>11 DEF name
<1> QED BY <1>4, <1>5, <1>6 DEF Searching

\* The tools that remove.
LEMMA ExactTakes ==
  ASSUME SubIdsAssumption, NEW job \in Jobs, job.tool \in {"userdel", "ungrant"}, NEW mem \in Mems,
         passwd \in Tables, mem.sub \in Seq(SubRange), NEW uid, NEW new \in EditsOf(job, mem, uid)
  PROVE  ExactEdit(job, mem.sub, new.sub, {})
<1> DEFINE name == job.name
           db == mem.sub
<1>1. /\ job.start \in Nat /\ job.count \in Nat /\ MaxId \in Nat
      /\ name \in UserNames /\ name \in OwnerNames
  BY JobFact
<1>2. GivenBy(job) \cup {} = {} /\ job.tool \notin Searching
  BY DEF GivenBy, Searching
<1>3. ASSUME NEW s, s = new.sub, NEW lost, lost = LostBy(job), Exact(db, s, name, lost, {})
      PROVE  ExactEdit(job, mem.sub, new.sub, {})
  <2>1. Exact(db, new.sub, name, LostBy(job), GivenBy(job) \cup {})
    BY <1>2, <1>3
  <2> QED BY <1>2, <2>1 DEF ExactEdit
<1>4. CASE job.tool = "userdel"
  <2>1. db # Closed
    BY DEF SubIdsAssumption
  <2> DEFINE s == RemoveRange(passwd, db, name, 0, MaxId + 2)
             lost == IF KnownUid(passwd, name) = {} THEN {} ELSE 0 .. 0 + (MaxId + 2) - 1
  <2>2. \E t : new = [passwd |-> t, sub |-> s]
    BY <1>4, <2>1 DEF EditsOf, UserdelEdit
  <2>3. new.sub = s
    <3> HIDE DEF s
    <3> QED BY <2>2
  <2>4. Exact(db, s, name, lost, {})
    <3>1. MaxId + 2 \in Nat /\ 0 \in Nat
      BY <1>1
    <3> HIDE DEF db, name
    <3> QED BY <3>1, ExactRemove DEF db
  <2>5. lost = LostBy(job)
    <3>1. 0 + (MaxId + 2) - 1 = MaxId + 1
      BY <1>1
    <3>2. CASE KnownUid(passwd, name) = {}
      BY <3>2 DEF LostBy
    <3>3. CASE KnownUid(passwd, name) # {}
      <4>1. LostBy(job) = 0 .. MaxId + 1
        BY <1>4, <3>3 DEF LostBy
      <4> QED BY <3>1, <3>3, <4>1
    <3> QED BY <3>2, <3>3
  <2> HIDE DEF s, lost
  <2> QED BY <1>3, <2>3, <2>4, <2>5
<1>5. CASE job.tool = "ungrant"
  <2> DEFINE s == RemoveRange(passwd, db, name, job.start, job.count)
             lost == IF KnownUid(passwd, name) = {} THEN {} ELSE job.start .. job.start + job.count - 1
  <2>1. mem = [passwd |-> mem.passwd, sub |-> mem.sub]
    BY DEF Mems
  <2>2. new = [mem EXCEPT !.sub = s]
    BY <1>5 DEF EditsOf, UngrantEdit
  <2>3. new.sub = s
    <3> HIDE DEF s
    <3> QED BY <2>1, <2>2
  <2>4. Exact(db, s, name, lost, {})
    <3> DEFINE start == job.start
               count == job.count
    <3>1. start \in Nat /\ count \in Nat /\ db \in Seq(SubRange)
      BY <1>1
    <3> HIDE DEF db, name, start, count
    <3>2. Exact(db, RemoveRange(passwd, db, name, start, count), name,
                IF KnownUid(passwd, name) = {} THEN {} ELSE start .. start + count - 1, {})
      BY <3>1, ExactRemove
    <3> QED BY <3>2 DEF start, count
  <2>5. lost = LostBy(job)
    <3>1. CASE KnownUid(passwd, name) = {}
      BY <3>1 DEF LostBy
    <3>2. CASE KnownUid(passwd, name) # {}
      BY <1>5, <3>2 DEF LostBy
    <3> QED BY <3>1, <3>2
  <2> HIDE DEF s, lost
  <2> QED BY <1>3, <2>3, <2>4, <2>5
<1> QED BY <1>4, <1>5

\* usermod, which may search and may be asked.
LEMMA ExactChanges ==
  ASSUME SubIdsAssumption, NEW job \in Jobs, job.tool = "usermod", NEW mem \in Mems,
         passwd \in Tables, mem.sub \in Seq(SubRange), NEW uid \in Nat, NEW new \in EditsOf(job, mem, uid)
  PROVE  \E ids : ExactEdit(job, mem.sub, new.sub, ids)
<1> DEFINE name == job.name
           db == mem.sub
           renamed == IF job.newName # Unset
                      THEN Put(Drop(mem.passwd, name), job.newName, mem.passwd[name])
                      ELSE mem.passwd
<1>1. name \in OwnerNames
  BY JobFact
<1>2. db # Closed
  BY DEF SubIdsAssumption
<1>3. PICK found \in FoundForUsermod(job, db, uid) : \E s \in UsermodSub(job, db, found) :
             new = [passwd |-> renamed, sub |-> s]
  <2> DEFINE gives(f) == UsermodSub(job, db, f)
             subs == UNION {gives(f) : f \in FoundForUsermod(job, db, uid)}
  <2>1. \E s \in subs : new = [passwd |-> renamed, sub |-> s]
    BY <1>2 DEF EditsOf, UsermodEdit
  <2> HIDE DEF gives
  <2>2. \E f \in FoundForUsermod(job, db, uid) : \E s \in gives(f) : new = [passwd |-> renamed, sub |-> s]
    BY <2>1
  <2> QED BY <2>2 DEF gives
<1> HIDE DEF renamed
<1>4. PICK s \in UsermodSub(job, db, found) : new = [passwd |-> renamed, sub |-> s]
  BY <1>3
<1>5. new.sub = s
  BY <1>4
<1>7. found \in Seq(Stretch) /\ ("S" \notin job.flags => found = <<>>)
  BY FoundFact
<1> DEFINE add == job.add
           del == job.del
           ranges == found \o add
           ids == RangesSpan(found)
<1>8. add \in Seq(Stretch) /\ del \in Seq(Stretch)
  BY DEF SubIdsAssumption
<1>9. Exact(db, s, name, Lost(name, Spans(del, Len(del))), Spans(ranges, Len(ranges)))
  BY <1>1, <1>7, ExactUsermod
<1>10. LostBy(job) = Lost(name, RangesSpan(del)) /\ GivenBy(job) = RangesSpan(add)
  BY DEF LostBy, GivenBy, Lost
<1> HIDE DEF add, del, name, db
<1>11. Lost(name, Spans(del, Len(del))) = LostBy(job)
  BY <1>8, <1>10, RangesSpanFact
<1>12. Spans(ranges, Len(ranges)) = GivenBy(job) \cup ids
  <2>1. ranges \in Seq(Stretch) /\ Range(ranges) = Range(found) \cup Range(add)
    BY <1>7, <1>8, ConcatProperties, RangeConcatenation
  <2> HIDE DEF ranges
  <2>2. Spans(ranges, Len(ranges)) = RangesSpan(ranges)
    BY <2>1, RangesSpanFact
  <2>3. RangesSpan(ranges) = RangesSpan(found) \cup RangesSpan(add)
    BY <2>1 DEF RangesSpan
  <2> QED BY <1>10, <2>2, <2>3
<1>13. ids # {} => "S" \in job.flags
  <2> SUFFICES ASSUME "S" \notin job.flags PROVE ids = {}
    OBVIOUS
  <2>1. found = <<>> /\ Range(<<>>) = {}
    BY <1>7 DEF Range
  <2> QED BY <2>1 DEF RangesSpan
<1> HIDE DEF ranges, ids
<1>14. Exact(db, new.sub, name, LostBy(job), GivenBy(job) \cup ids)
  BY <1>5, <1>9, <1>11, <1>12
<1>15. job.tool \notin Searching
  BY DEF Searching
<1> QED BY <1>13, <1>14, <1>15 DEF ExactEdit, db, name

\* Every edit does what it is asked.
LEMMA ExactEdits ==
  ASSUME SubIdsAssumption, NEW job \in Jobs, job.tool \notin Maps, NEW mem \in Mems, passwd \in Tables,
         mem.sub \in Seq(SubRange), job.tool \notin {"grant", "ungrant"} => mem.passwd \in Tables,
         NEW uid \in Nat, NEW new \in EditsOf(job, mem, uid)
  PROVE  \E ids : ExactEdit(job, mem.sub, new.sub, ids)
<1>1. job.tool \in Tools
  BY JobFact
<1>2. CASE job.tool \in Searching
  <2>1. job.tool # "grant" => mem.passwd \in Tables
    BY <1>2 DEF Searching
  <2> QED BY <1>2, <2>1, ExactSearches
<1>3. CASE job.tool \in {"userdel", "ungrant"}
  <2>1. ExactEdit(job, mem.sub, new.sub, {})
    BY <1>3, ExactTakes
  <2> QED BY <2>1
<1>4. CASE job.tool = "usermod"
  BY <1>4, ExactChanges
<1> QED BY <1>1, <1>2, <1>3, <1>4 DEF Tools, Maps, Searching

(***************************************************************************)
(* What is edited is closed: after an edit the script still has a call     *)
(* that writes.                                                            *)
(***************************************************************************)
EditIt == Call("edit", None)
CloseIt(tool) == Call("close", IF tool \in {"grant", "ungrant"} THEN "sub" ELSE "passwd")

CloseOK(w) == EditIt \in Range(w.script) => CloseIt(w.job.tool) \in Range(w.script)
CloseInv == \A p \in Procs : CloseOK(work[p])

\* A script has no calls but its parts'.
LEMMA CallsBoth ==
  ASSUME NEW a \in Seq(Calls), NEW b \in Seq(Calls)
  PROVE  a \o b \in Seq(Calls) /\ Range(a \o b) = Range(a) \cup Range(b)
BY ConcatProperties, RangeConcatenation

\* The files of a list are closed by the calls that close it.
LEMMA ClosesOn ==
  ASSUME NEW list \in Seq(Files)
  PROVE  /\ \A f \in Range(list) : Call("close", f) \in Range(CloseAndUnlock(list))
         /\ \A f \in Range(list) : Call("close", f) \in Range(Each("close", list))
<1>1. \A f \in Files : \A do \in Leaving : Call(do, f) \in Calls
  BY DEF Call, Calls, Leaving
<1>2. \A f \in Range(list) : Call("close", f) \in Range(CloseAndUnlock(list))
  <2> DEFINE one == "close"
             other == "unlock"
             s == EachTwo(one, other, list)
  <2>1. \A f \in Files : Call(one, f) \in Calls /\ Call(other, f) \in Calls
    BY <1>1 DEF Leaving
  <2>2. s = CloseAndUnlock(list) /\ one = "close"
    BY DEF CloseAndUnlock
  <2> HIDE DEF one, other
  <2>3. /\ s \in Seq(Calls)
        /\ \A c : c \in Range(s) <=> \E f \in Range(list) : c = Call(one, f) \/ c = Call(other, f)
    BY <2>1, EachTwoCalls
  <2> HIDE DEF s
  <2> QED BY <2>2, <2>3
<1>3. \A f \in Range(list) : Call("close", f) \in Range(Each("close", list))
  <2> DEFINE s == Each("close", list)
  <2>1. \A i \in DOMAIN list : i \in DOMAIN s /\ s[i] = Call("close", list[i])
    BY DEF Each
  <2> HIDE DEF s
  <2>2. \A i \in DOMAIN list : Call("close", list[i]) \in Range(s)
    BY <2>1 DEF Range
  <2> QED BY <2>2 DEF Range, s
<1> QED BY <1>2, <1>3

\* Every script that edits closes.
LEMMA CloseScript ==
  ASSUME SubIdsAssumption, NEW job \in Jobs
  PROVE  EditIt \in Range(Script(job)) => CloseIt(job.tool) \in Range(Script(job))
<1> DEFINE P == <<"passwd">>
           U == <<"sub">>
           PU == <<"passwd", "sub">>
           UP == <<"sub", "passwd">>
           tool == job.tool
<1>0. tool \in Tools
  BY DEF SubIdsAssumption
<1>1. /\ P \in Seq(Files) /\ U \in Seq(Files) /\ PU \in Seq(Files) /\ UP \in Seq(Files)
      /\ "passwd" \in Range(P) /\ "sub" \in Range(U) /\ "passwd" \in Range(PU) /\ "passwd" \in Range(UP)
  <2>1. "passwd" \in Files /\ "sub" \in Files
    BY DEF Files
  <2>2. P \in Seq(Files) /\ Range(P) = {"passwd"}
    BY <2>1, Single
  <2>3. U \in Seq(Files) /\ Range(U) = {"sub"}
    BY <2>1, Single
  <2>4. PU \in Seq(Files) /\ Range(PU) = {"passwd", "sub"}
    BY <2>1, Pair
  <2>5. UP \in Seq(Files) /\ Range(UP) = {"sub", "passwd"}
    BY <2>1, Pair
  <2> HIDE DEF P, U, PU, UP
  <2> QED BY <2>2, <2>3, <2>4, <2>5
<1> HIDE DEF P, U, PU, UP
<1>2. /\ \A l \in {P, U, PU, UP} : LockAndOpen(l) \in Seq(Calls) /\ CloseAndUnlock(l) \in Seq(Calls)
      /\ Each("lock", PU) \in Seq(Calls) /\ Each("open", PU) \in Seq(Calls)
      /\ Each("close", PU) \in Seq(Calls) /\ Each("unlock", PU) \in Seq(Calls)
  <2>1. "lock" \in Locking /\ "open" \in Locking /\ "close" \in Leaving /\ "unlock" \in Leaving
    BY DEF Locking, Leaving
  <2>2. \A l \in {P, U, PU, UP} : l \in Seq(Files)
    BY <1>1
  <2>3. \A l \in Seq(Files) : /\ Does(LockAndOpen(l), Going) /\ Does(CloseAndUnlock(l), Leaving)
                              /\ Does(Each("lock", l), Going) /\ Does(Each("open", l), Going)
                              /\ Does(Each("close", l), Leaving) /\ Does(Each("unlock", l), Leaving)
    BY <2>1, CallsOn
  <2> QED BY <1>1, <2>2, <2>3 DEF Does
<1>3. Test \in Seq(Calls) /\ Edit \in Seq(Calls) /\ Check \in Seq(Calls)
  <2>1. Call("test", "sub") \in Calls /\ Call("edit", None) \in Calls /\ Call("check", None) \in Calls
    BY DEF Call, Calls, Files, Uses
  <2> QED BY <2>1 DEF Test, Edit, Check
<1>4. /\ Call("close", "passwd") \in Range(Each("close", PU))
      /\ Call("close", "passwd") \in Range(CloseAndUnlock(P))
      /\ Call("close", "passwd") \in Range(CloseAndUnlock(PU))
      /\ Call("close", "passwd") \in Range(CloseAndUnlock(UP))
      /\ Call("close", "sub") \in Range(CloseAndUnlock(U))
  BY <1>1, ClosesOn
<1>5. CASE tool = "useradd"
  <2> DEFINE s0 == Check \o LockAndOpen(P)
             s1 == s0 \o Test
             s2 == s1 \o LockAndOpen(U)
             s3 == s2 \o Edit
             s4 == s3 \o Each("close", PU)
             s == s4 \o Each("unlock", PU)
  <2>1. Script(job) = s /\ CloseIt(tool) = Call("close", "passwd")
    BY <1>5 DEF Script, UseraddScript, P, U, PU, UP, CloseIt
  <2>2. s3 \in Seq(Calls)
    BY <1>2, <1>3, CallsBoth
  <2> HIDE DEF s3
  <2>3. s4 \in Seq(Calls) /\ Call("close", "passwd") \in Range(s4)
    BY <1>2, <1>4, <2>2, CallsBoth
  <2> HIDE DEF s4
  <2>4. Call("close", "passwd") \in Range(s)
    BY <1>2, <2>3, CallsBoth
  <2> QED BY <2>1, <2>4
<1>6. CASE tool = "newusers"
  <2> DEFINE s1 == Test \o Each("lock", PU)
             s2 == s1 \o Each("open", PU)
             s3 == s2 \o Edit
             s == s3 \o CloseAndUnlock(PU)
  <2>1. Script(job) = s /\ CloseIt(tool) = Call("close", "passwd")
    BY <1>6 DEF Script, NewusersScript, PU, CloseIt
  <2>2. s3 \in Seq(Calls)
    BY <1>2, <1>3, CallsBoth
  <2> HIDE DEF s3
  <2>3. Call("close", "passwd") \in Range(s)
    BY <1>2, <1>4, <2>2, CallsBoth
  <2> QED BY <2>1, <2>3
<1>7. CASE tool = "userdel"
  <2> DEFINE s1 == Test \o LockAndOpen(PU)
             s3 == s1 \o Edit
             s == s3 \o CloseAndUnlock(PU)
  <2>1. Script(job) = s /\ CloseIt(tool) = Call("close", "passwd")
    BY <1>7 DEF Script, UserdelScript, PU, CloseIt
  <2>2. s3 \in Seq(Calls)
    BY <1>2, <1>3, CallsBoth
  <2> HIDE DEF s3
  <2>3. Call("close", "passwd") \in Range(s)
    BY <1>2, <1>4, <2>2, CallsBoth
  <2> QED BY <2>1, <2>3
<1>10. CASE tool = "usermod" /\ AsksForRanges(job)
  <2> DEFINE s1 == Test \o Check
             s2 == s1 \o LockAndOpen(PU)
             s3 == s2 \o Edit
             s == s3 \o CloseAndUnlock(UP)
  <2>1. Script(job) = s /\ CloseIt(tool) = Call("close", "passwd")
    BY <1>10 DEF Script, UsermodScript, PU, UP, CloseIt
  <2>2. s3 \in Seq(Calls)
    BY <1>2, <1>3, CallsBoth
  <2> HIDE DEF s3
  <2>3. Call("close", "passwd") \in Range(s)
    BY <1>2, <1>4, <2>2, CallsBoth
  <2> QED BY <2>1, <2>3
<1>11. CASE tool = "usermod" /\ ~AsksForRanges(job)
  <2> DEFINE s1 == Check \o LockAndOpen(P)
             s3 == s1 \o Edit
             s == s3 \o CloseAndUnlock(P)
  <2>1. Script(job) = s /\ CloseIt(tool) = Call("close", "passwd")
    BY <1>11 DEF Script, UsermodScript, P, CloseIt
  <2>2. s3 \in Seq(Calls)
    BY <1>2, <1>3, CallsBoth
  <2> HIDE DEF s3
  <2>3. Call("close", "passwd") \in Range(s)
    BY <1>2, <1>4, <2>2, CallsBoth
  <2> QED BY <2>1, <2>3
<1>8. CASE tool \in {"grant", "ungrant"}
  <2> DEFINE s3 == LockAndOpen(U) \o Edit
             s == s3 \o CloseAndUnlock(U)
  <2>1. Script(job) = s /\ CloseIt(tool) = Call("close", "sub")
    BY <1>8 DEF Script, LibraryScript, U, CloseIt
  <2>2. s3 \in Seq(Calls)
    BY <1>2, <1>3, CallsBoth
  <2> HIDE DEF s3
  <2>3. Call("close", "sub") \in Range(s)
    BY <1>2, <1>4, <2>2, CallsBoth
  <2> QED BY <2>1, <2>3
<1>9. CASE tool \in Maps
  <2> DEFINE s == Script(job)
  <2>1. Does(s, DosOf(tool))
    <3> DEFINE mem == <<>>
    <3> QED BY ScriptFact
  <2> HIDE DEF s
  <2>2. \A c \in Range(s) : c.do \in DosOf(tool)
    BY <2>1 DEF Does, Range
  <2>3. "edit" \notin DosOf(tool) /\ EditIt.do = "edit"
    BY <1>9 DEF DosOf, EditIt, Call
  <2>4. EditIt \notin Range(s)
    BY <2>2, <2>3
  <2> QED BY <2>4 DEF s
<1> QED BY <1>0, <1>5, <1>6, <1>7, <1>8, <1>9, <1>10, <1>11 DEF Tools, Maps

\* A process that becomes something that closes what it edits.
LEMMA CloseBecomes ==
  ASSUME SubIdsAssumption, SubIdsInv, CloseInv, NEW p \in Procs, NEW w, Becomes(p, w), CloseOK(w)
  PROVE  CloseInv'
<1>1. Idle.script = <<>>
  BY IdleFact
<1>2. CloseOK(Idle)
  <2>1. \A c : c \notin Range(<<>>)
    BY DEF Range
  <2> QED BY <1>1, <2>1 DEF CloseOK
<1>3. \A q \in Procs : q # p => work'[q] = work[q]
  BY BecomesFact
<1>4. work'[p] = Idle \/ work'[p] = w
  BY BecomesFact
<1>5. \A q \in Procs : CloseOK(work'[q])
  BY <1>2, <1>3, <1>4 DEF CloseInv
<1> QED BY <1>5 DEF CloseInv, CloseOK

\* What is left when the first call has been made.
LEMMA CloseTail ==
  ASSUME SubIdsAssumption, SubIdsInv, CloseInv, NEW p \in Procs, NEW do, Doing(p, do)
  PROVE  LET w == work[p]
             t == Tail(w.script)
         IN  /\ t \in Seq(Calls)
             /\ EditIt \in Range(t) => CloseIt(w.job.tool) \in Range(t)
             /\ do = "edit" => CloseIt(w.job.tool) \in Range(t)
<1> DEFINE w == work[p]
           s == w.script
           t == Tail(s)
           close == CloseIt(w.job.tool)
<1>1. /\ s \in Seq(Calls) /\ s # <<>> /\ Head(s).do = do /\ Head(s) \in Calls /\ t \in Seq(Calls)
      /\ do \in {"close", "unlock", "edit"} => \A i \in DOMAIN t : t[i].do \notin Uses
  BY DoingFact
<1>2. Head(s) \in Range(s) /\ Range(s) = {Head(s)} \cup Range(t)
  BY <1>1, HeadAndTail
<1>3. EditIt \in Range(s) => close \in Range(s)
  BY DEF CloseInv, CloseOK
<1>4. close.do = "close" /\ EditIt.do = "edit"
  BY DEF CloseIt, EditIt, Call
<1>5. do = "edit" => Head(s) = EditIt
  BY <1>1 DEF Calls, EditIt, Call, Uses
<1> HIDE DEF s, t, close
<1>6. do = "close" => EditIt \notin Range(t)
  <2>1. \A i \in DOMAIN t : do = "close" => t[i].do \notin Uses
    BY <1>1
  <2> QED BY <1>4, <2>1 DEF Range, Uses
<1>7. EditIt \in Range(t) => close \in Range(t)
  BY <1>1, <1>2, <1>3, <1>4, <1>6
<1>8. do = "edit" => close \in Range(t)
  BY <1>1, <1>2, <1>3, <1>4, <1>5
<1> QED BY <1>1, <1>7, <1>8 DEF s, t, close

\* Every step keeps it so.
LEMMA CloseNext ==
  ASSUME SubIdsAssumption, SubIdsInv, CloseInv, [Next]_vars
  PROVE  CloseInv'
<1>0. \A p \in Procs : work[p] \in Works
  BY DEF SubIdsInv, FilesOK
<1>1. \A c : c \notin Range(<<>>)
  BY DEF Range
<1>2. ASSUME NEW p \in Procs, Becomes(p, Idle) PROVE CloseInv'
  <2>1. CloseOK(Idle)
    <3>1. Idle.script = <<>>
      BY IdleFact
    <3> QED BY <1>1, <3>1 DEF CloseOK
  <2> QED BY <1>2, <2>1, CloseBecomes
<1>3. ASSUME NEW p \in Procs, NEW do, Doing(p, do), NEW m, Proceed(p, [work[p] EXCEPT !.mem = m]) PROVE CloseInv'
  <2> DEFINE v == [[work[p] EXCEPT !.mem = m] EXCEPT !.script = Tail(@)]
  <2>1. Becomes(p, v)
    BY <1>3 DEF Proceed
  <2>2. v.job = work[p].job /\ v.script = Tail(work[p].script)
    BY <1>0 DEF Works
  <2> HIDE DEF v
  <2>3. EditIt \in Range(Tail(work[p].script)) => CloseIt(work[p].job.tool) \in Range(Tail(work[p].script))
    BY <1>3, CloseTail
  <2>4. CloseOK(v)
    BY <2>2, <2>3 DEF CloseOK
  <2> QED BY <2>1, <2>4, CloseBecomes
<1>4. ASSUME NEW p \in Procs, NEW do, Doing(p, do), Proceed(p, work[p]) PROVE CloseInv'
  <2> DEFINE m == work[p].mem
  <2>1. [work[p] EXCEPT !.mem = m] = work[p]
    BY <1>0 DEF Works
  <2>2. Proceed(p, [work[p] EXCEPT !.mem = m])
    BY <1>4, <2>1
  <2> HIDE DEF m
  <2> QED BY <1>3, <1>4, <2>2
<1>5. ASSUME NEW p \in Procs, NEW do, Doing(p, do), NEW f, NEW c, Proceed(p, [work[p] EXCEPT !.mem[f] = c])
      PROVE  CloseInv'
  <2> DEFINE m == [work[p].mem EXCEPT ![f] = c]
  <2>1. [work[p] EXCEPT !.mem[f] = c] = [work[p] EXCEPT !.mem = m]
    OBVIOUS
  <2>2. Proceed(p, [work[p] EXCEPT !.mem = m])
    BY <1>5, <2>1
  <2> HIDE DEF m
  <2> QED BY <1>3, <1>5, <2>2
<1>6. ASSUME NEW p \in Procs, NEW s, EditIt \notin Range(s), Becomes(p, [work[p] EXCEPT !.script = s])
      PROVE  CloseInv'
  <2> DEFINE v == [work[p] EXCEPT !.script = s]
  <2>1. Becomes(p, v) /\ v.script = s
    BY <1>0, <1>6 DEF Works
  <2> HIDE DEF v
  <2>2. CloseOK(v)
    BY <1>6, <2>1 DEF CloseOK
  <2> QED BY <2>1, <2>2, CloseBecomes
<1>7. ASSUME NEW p \in Procs, FailExit(p) PROVE CloseInv'
  <2> DEFINE order == <<"sub", "passwd">>
             quits == {}
  <2>1. PICK s : s = UnlockHeld(order, owner, p)
    OBVIOUS
  <2>2. Becomes(p, [work[p] EXCEPT !.script = s])
    BY <1>7, <2>1 DEF FailExit
  <2>3. order \in Seq(Files)
    <3>1. "sub" \in Files /\ "passwd" \in Files
      BY DEF Files
    <3> QED BY <3>1, Pair
  <2>4. \A f \in Files : Call("unlock", f) \in Calls
    BY DEF Call, Calls
  <2>5. "unlock" \notin quits
    OBVIOUS
  <2> HIDE DEF order, quits
  <2>6. \A c \in Range(s) : c.do = "unlock"
    BY <2>1, <2>3, <2>4, <2>5, UnlockHeldCalls
  <2>7. EditIt.do = "edit"
    BY DEF EditIt, Call
  <2>8. EditIt \notin Range(s)
    BY <2>6, <2>7
  <2> QED BY <1>6, <2>2, <2>8
<1>8. ASSUME NEW p \in Procs, Start(p) PROVE CloseInv'
  <2>1. PICK job \in Jobs : Becomes(p, [Idle EXCEPT !.job = job, !.script = Script(job)])
    BY <1>8 DEF Start
  <2>2. PICK s : s = Script(job)
    OBVIOUS
  <2> DEFINE v == [Idle EXCEPT !.job = job, !.script = s]
  <2>3. v.job = job /\ v.script = s /\ Becomes(p, v)
    <3>1. Idle \in Works
      BY IdleFact
    <3>2. v.job = job /\ v.script = s
      BY <3>1 DEF Works
    <3> QED BY <2>1, <2>2, <3>2
  <2> HIDE DEF v
  <2>4. EditIt \in Range(s) => CloseIt(job.tool) \in Range(s)
    BY <2>2, CloseScript
  <2>5. CloseOK(v)
    BY <2>3, <2>4 DEF CloseOK
  <2> QED BY <2>3, <2>5, CloseBecomes
<1>9. ASSUME NEW p \in Procs, Killed(p) \/ CallAgain(p) PROVE CloseInv'
  <2>1. work' = [work EXCEPT ![p] = Idle]
    BY <1>9 DEF Killed, CallAgain
  <2>2. Becomes(p, Idle)
    BY <2>1 DEF Becomes
  <2> QED BY <1>2, <2>2
<1>10. ASSUME NEW p \in Procs, TestFile(p) PROVE CloseInv'
  <2>1. Doing(p, "test")
    BY <1>10 DEF TestFile
  <2>2. CASE Proceed(p, work[p])
    BY <1>4, <2>1, <2>2
  <2>3. CASE Becomes(p, Idle)
    BY <1>2, <2>3
  <2>4. CASE Becomes(p, [work[p] EXCEPT !.script = Without(Tail(@), "sub")])
    <3> DEFINE w == work[p]
               t == Tail(w.script)
               at == {i \in DOMAIN t : t[i].file # "sub"}
               s == Without(t, "sub")
               v == [w EXCEPT !.script = s]
    <3>1. /\ w.job \in Jobs /\ t \in Seq(Calls) /\ "test" \in DosOf(w.job.tool)
          /\ EditIt \in Range(t) => CloseIt(w.job.tool) \in Range(t)
      BY <2>1, DoingFact, CloseTail
    <3>2. w.job.tool \notin {"grant", "ungrant"}
      BY <3>1, NotMap
    <3>3. CloseIt(w.job.tool) = Call("close", "passwd")
      BY <3>2 DEF CloseIt
    <3> HIDE DEF t
    <3>4. Range(s) = {t[i] : i \in at}
      <4>1. at \in SUBSET DOMAIN t
        OBVIOUS
      <4>2. s = EntriesAt(t, at)
        BY DEF Without
      <4> HIDE DEF at, s
      <4> QED BY <3>1, <4>1, <4>2, EntriesAtRange
    <3>5. \A c : c \in Range(s) <=> c \in Range(t) /\ c.file # "sub"
      BY <3>4 DEF Range
    <3>6. Becomes(p, v) /\ v.job = w.job /\ v.script = s
      BY <1>0, <2>4 DEF Works, t
    <3>7. Call("close", "passwd").file # "sub"
      BY DEF Call
    <3> HIDE DEF s, v
    <3>8. EditIt \in Range(s) => CloseIt(w.job.tool) \in Range(s)
      BY <3>1, <3>3, <3>5, <3>7
    <3>9. CloseOK(v)
      BY <3>6, <3>8 DEF CloseOK
    <3> QED BY <3>6, <3>9, CloseBecomes
  <2> QED BY <1>10, <2>2, <2>3, <2>4 DEF TestFile
<1>11. ASSUME NEW p \in Procs, LockFile(p) PROVE CloseInv'
  BY <1>4, <1>11 DEF LockFile
<1>12. ASSUME NEW p \in Procs, OpenFile(p) PROVE CloseInv'
  <2>1. Proceed(p, [work[p] EXCEPT !.mem[Now(p)] = Content(Now(p))])
    BY <1>12 DEF OpenFile
  <2>2. \E do : Doing(p, do)
    BY <1>12 DEF OpenFile
  <2> QED BY <1>5, <2>1, <2>2
<1>13. ASSUME NEW p \in Procs, ReuseRange(p) PROVE CloseInv'
  <2> DEFINE v == [work[p] EXCEPT !.script = <<>>, !.kept = TRUE]
  <2>1. Becomes(p, v)
    BY <1>13 DEF ReuseRange
  <2>2. v.script = <<>>
    BY <1>0 DEF Works
  <2> HIDE DEF v
  <2>3. CloseOK(v)
    BY <1>1, <2>2 DEF CloseOK
  <2> QED BY <2>1, <2>3, CloseBecomes
<1>14. ASSUME NEW p \in Procs, EditFiles(p) PROVE CloseInv'
  <2>1. Doing(p, "edit")
    BY <1>14 DEF EditFiles
  <2>2. ASSUME NEW m, Proceed(p, [work[p] EXCEPT !.mem = m]) PROVE CloseInv'
    BY <1>3, <2>1, <2>2
  <2> QED BY <1>7, <1>14, <2>2 DEF EditFiles
<1>15. ASSUME NEW p \in Procs, CloseFile(p) \/ UnlockFile(p) PROVE CloseInv'
  <2>1. PICK do \in {"close", "unlock"} : Doing(p, do)
    BY <1>15 DEF CloseFile, UnlockFile
  <2>2. Proceed(p, [work[p] EXCEPT !.mem[Now(p)] = Closed])
    BY <1>15 DEF CloseFile, UnlockFile
  <2> QED BY <1>5, <2>1, <2>2
<1>16. ASSUME NEW p \in Procs, VerifyMap(p) PROVE CloseInv'
  <2>1. PICK a : a = AllowSetgroups(passwd, work[p].mem.sub, work[p].job.name, work[p].job.add)
    OBVIOUS
  <2> DEFINE v == [[work[p] EXCEPT !.allow = a] EXCEPT !.script = Tail(@)]
  <2>2. Doing(p, "verify") /\ (Becomes(p, Idle) \/ Becomes(p, v))
    BY <1>16, <2>1 DEF VerifyMap, Proceed
  <2>3. v.job = work[p].job /\ v.script = Tail(work[p].script)
    BY <1>0 DEF Works
  <2> HIDE DEF v
  <2>4. CloseOK(v)
    BY <2>2, <2>3, CloseTail DEF CloseOK
  <2> QED BY <1>2, <2>2, <2>4, CloseBecomes
<1>21. ASSUME NEW p \in Procs, CheckUser(p) PROVE CloseInv'
  <2> DEFINE uid == IF work[p].job.tool = "usermod" THEN passwd[work[p].job.name] ELSE work[p].uid
             v == [[work[p] EXCEPT !.uid = uid] EXCEPT !.script = Tail(@)]
  <2>1. Doing(p, "check") /\ (Becomes(p, Idle) \/ Becomes(p, v))
    BY <1>21 DEF CheckUser, Proceed
  <2>2. v.job = work[p].job /\ v.script = Tail(work[p].script)
    BY <1>0 DEF Works
  <2> HIDE DEF v
  <2>3. CloseOK(v)
    BY <2>1, <2>2, CloseTail DEF CloseOK
  <2> QED BY <1>2, <2>1, <2>3, CloseBecomes
<1>17. ASSUME NEW p \in Procs, WriteSetgroups(p) PROVE CloseInv'
  BY <1>4, <1>17 DEF WriteSetgroups
<1>18. ASSUME NEW p \in Procs, WriteMapping(p) PROVE CloseInv'
  BY <1>2, <1>18 DEF WriteMapping
<1>19. ASSUME NEW p \in Procs, CallFails(p) PROVE CloseInv'
  BY <1>4, <1>7, <1>19 DEF CallFails
<1>20. CASE UNCHANGED vars
  BY <1>20 DEF vars, CloseInv, CloseOK
<1> QED BY <1>8, <1>9, <1>10, <1>11, <1>12, <1>13, <1>14, <1>15, <1>16, <1>17, <1>18, <1>19, <1>20, <1>21 DEF Next, Step

\* An edit that goes on has left one of the copies that the tool may leave.
LEMMA EditSteps ==
  ASSUME SubIdsAssumption, SubIdsInv, CloseInv, Next, NEW p \in Procs, Doing(p, "edit"),
         work'[p].script = Tail(work[p].script)
  PROVE  work'[p].mem \in EditsOf(work[p].job, work[p].mem, work[p].uid)
<1> DEFINE w == work[p]
           t == Tail(w.script)
           close == CloseIt(w.job.tool)
<1>1. /\ w \in Works /\ w.script \in Seq(Calls) /\ w.script # <<>> /\ Head(w.script).do = "edit"
      /\ close \in Range(t) /\ close.do = "close"
  <2>1. close.do = "close"
    BY DEF CloseIt, Call
  <2>2. close \in Range(t)
    BY CloseTail
  <2> HIDE DEF close, t
  <2> QED BY <2>1, <2>2, DoingFact
<1>2. Idle.script = <<>> /\ \A c : c \notin Range(<<>>)
  <2>1. \A c : c \notin Range(<<>>)
    BY DEF Range
  <2> QED BY <2>1, IdleFact
<1>3. t # <<>> /\ work'[p] # Idle /\ w # Idle
  BY <1>1, <1>2
<1>4. \A a : a # "edit" => ~Doing(p, a)
  BY <1>1 DEF Doing
<1>5. PICK q \in Procs : Start(q) \/ Step(q) \/ Killed(q)
  BY DEF Next
<1>6. work \in [Procs -> Works]
  BY DEF SubIdsInv, FilesOK
<1>7. Tail(w.script) # w.script
  BY <1>1, TailDiffers
<1>8. q = p
  <2> SUFFICES ASSUME q # p PROVE FALSE
    OBVIOUS
  <2>1. work'[p] = work[p]
    <3>1. \E v : work' = [work EXCEPT ![q] = v]
      BY <1>5 DEF Start, Step, Killed, CheckUser, TestFile, LockFile, OpenFile, ReuseRange, EditFiles, CloseFile,
                  UnlockFile, VerifyMap, WriteSetgroups, WriteMapping, CallAgain, CallFails, FailExit,
                  Proceed, Becomes
    <3>2. PICK v : work' = [work EXCEPT ![q] = v]
      BY <3>1
    <3> QED BY <1>6, <3>2
  <2> QED BY <1>7, <2>1
<1>9. ~Start(p)
  BY <1>3 DEF Start
<1>10. ~Killed(p) /\ ~CallAgain(p)
  BY <1>3, <1>6 DEF Killed, CallAgain
<1>11. Step(p)
  BY <1>5, <1>8, <1>9, <1>10
<1>12. ReuseRange(p) \/ EditFiles(p)
  BY <1>4, <1>10, <1>11 DEF Step, CheckUser, TestFile, LockFile, OpenFile, CloseFile,
                     UnlockFile, VerifyMap, WriteSetgroups, WriteMapping, CallFails
<1>13. ~ReuseRange(p)
  <2> SUFFICES ASSUME ReuseRange(p) PROVE FALSE
    OBVIOUS
  <2> DEFINE v == [work[p] EXCEPT !.script = <<>>, !.kept = TRUE]
  <2>1. Becomes(p, v)
    BY DEF ReuseRange
  <2>2. v.script = <<>>
    BY <1>1 DEF Works
  <2> HIDE DEF v
  <2>3. work'[p] = v
    BY <1>3, <2>1, BecomesFact
  <2> QED BY <1>3, <2>2, <2>3
<1>14. ~FailExit(p)
  <2> SUFFICES ASSUME FailExit(p) PROVE FALSE
    OBVIOUS
  <2> DEFINE order == <<"sub", "passwd">>
             quits == {}
  <2>1. PICK s : s = UnlockHeld(order, owner, p)
    OBVIOUS
  <2>2. Becomes(p, [work[p] EXCEPT !.script = s])
    BY <2>1 DEF FailExit
  <2>3. order \in Seq(Files)
    <3>1. "sub" \in Files /\ "passwd" \in Files
      BY DEF Files
    <3> QED BY <3>1, Pair
  <2>4. \A f \in Files : Call("unlock", f) \in Calls
    BY DEF Call, Calls
  <2>5. "unlock" \notin quits
    OBVIOUS
  <2> HIDE DEF order, quits
  <2>6. \A c \in Range(s) : c.do = "unlock"
    BY <2>1, <2>3, <2>4, <2>5, UnlockHeldCalls
  <2> DEFINE v == [work[p] EXCEPT !.script = s]
  <2>7. v.script = s
    BY <1>1 DEF Works
  <2>8. Becomes(p, v)
    BY <2>2
  <2> HIDE DEF v
  <2>9. work'[p] = v
    BY <1>3, <2>8, BecomesFact
  <2>10. close \in Range(s)
    BY <1>1, <2>7, <2>9
  <2> QED BY <1>1, <2>6, <2>10
<1>15. PICK mem \in EditsOf(w.job, w.mem, w.uid) : Proceed(p, [w EXCEPT !.mem = mem])
  BY <1>12, <1>13, <1>14 DEF EditFiles
<1> DEFINE v == [[w EXCEPT !.mem = mem] EXCEPT !.script = Tail(@)]
<1>16. Becomes(p, v)
  BY <1>15 DEF Proceed
<1>17. v.mem = mem
  BY <1>1 DEF Works
<1> HIDE DEF v
<1>18. work'[p] = v
  BY <1>3, <1>16, BecomesFact
<1> QED BY <1>15, <1>17, <1>18

\* What a process that edits has open.
LEMMA EditOpen ==
  ASSUME SubIdsAssumption, SubIdsInv, NEW p \in Procs, Doing(p, "edit")
  PROVE  LET w == work[p]
         IN  /\ w.job \in Jobs /\ w.job.tool \notin Maps /\ w.mem \in Mems
             /\ w.job.tool \notin {"grant", "ungrant"} => w.mem.passwd = passwd
<1> DEFINE w == work[p]
<1>1. /\ w.job \in Jobs /\ w.mem \in Mems /\ "edit" \in DosOf(w.job.tool)
      /\ \E i \in DOMAIN w.script : w.script[i].do = "edit"
  BY DoingFact
<1>2. w.job.tool \notin Maps
  BY <1>1, NotMap
<1>3. ~IsMap(w)
  BY <1>2 DEF IsMap
<1>4. \A f \in Needs(w.job.tool) : w.mem[f] # Closed
  <2>1. "edit" \in Uses
    BY DEF Uses
  <2> QED BY <2>1, DoingFact
<1>5. ASSUME w.job.tool \notin {"grant", "ungrant"} PROVE w.mem.passwd = passwd
  <2>1. w.job.tool \in Tools
    BY <1>1 DEF SubIdsAssumption
  <2>2. "passwd" \in Needs(w.job.tool) /\ "passwd" \in Files
    BY <1>2, <1>5, <2>1 DEF Needs, Tools, Maps, Files
  <2>3. w.mem["passwd"] = Content("passwd")
    BY <1>1, <1>3, <1>4, <2>2, LockedFact
  <2> QED BY <2>3 DEF Content
<1> QED BY <1>1, <1>2, <1>5

\* What an edit does, in terms of what each user has before and after.
LEMMA ExactMeans ==
  ASSUME SubIdsAssumption, NEW job \in Jobs, NEW before, NEW after, NEW ids,
         ExactEdit(job, before, after, ids)
  PROVE  LET name == job.name
             of(db, user) == OwnedBy(passwd, db, user)
             kept == (of(before, name) \ LostBy(job)) \cup GivenBy(job)
             found == of(after, name) \ kept
             searches == job.tool \in Searching
         IN  /\ \A user : user # name /\ ~IsSameUser(passwd, user, name) => of(after, user) = of(before, user)
             /\ kept \subseteq of(after, name)
             /\ found # {} => searches \/ (job.tool = "usermod" /\ "S" \in job.flags)
             /\ searches /\ found # {} /\ ~config.deterministic =>
                  Cardinality(found) = WantedBy(job) /\ found \cap AllIds(before) = {}
<1> DEFINE name == job.name
           lost == LostBy(job)
           given == GivenBy(job)
           old == OwnedBy(passwd, before, name)
           new == OwnedBy(passwd, after, name)
           kept == (old \ lost) \cup given
           found == new \ kept
           searches == job.tool \in Searching
           wanted == WantedBy(job)
<1>1. \A x : x \in new <=> (x \in old /\ x \notin lost) \/ x \in given \cup ids
  BY DEF ExactEdit, Exact
<1>2. \A user : user # name /\ ~IsSameUser(passwd, user, name) =>
        OwnedBy(passwd, after, user) = OwnedBy(passwd, before, user)
  <2> SUFFICES ASSUME NEW user, user # name, ~IsSameUser(passwd, user, name)
               PROVE  OwnedBy(passwd, after, user) = OwnedBy(passwd, before, user)
    OBVIOUS
  <2>1. \A x : x \in OwnedBy(passwd, after, user) <=> x \in OwnedBy(passwd, before, user)
    BY DEF ExactEdit, Exact
  <2> QED BY <2>1
<1>3. \A x \in old : x \in AllIds(before)
  BY DEF OwnedBy, AllIds
<1>4. /\ ids # {} => searches \/ (job.tool = "usermod" /\ "S" \in job.flags)
      /\ searches => Searched(before, ids, wanted)
  BY DEF ExactEdit
<1>5. searches => given = {}
  BY DEF GivenBy, Searching
<1>6. wanted \in Nat
  BY JobFact DEF WantedBy
<1> HIDE DEF name, lost, given, old, new, searches, wanted
<1>7. kept \subseteq new
  BY <1>1
<1>8. found \subseteq ids
  BY <1>1
<1>9. ASSUME searches, found # {}, ~config.deterministic
      PROVE  Cardinality(found) = wanted /\ found \cap AllIds(before) = {}
  <2>1. PICK start \in Nat : ids = start .. start + wanted - 1 /\ ids \cap AllIds(before) = {}
    BY <1>4, <1>8, <1>9 DEF Searched
  <2>2. found = ids
    BY <1>1, <1>3, <1>5, <1>8, <1>9, <2>1
  <2>3. Cardinality(ids) = wanted
    <3>1. start <= start + wanted - 1
      BY <1>6, <1>8, <1>9, <2>1
    <3>2. start + wanted - 1 \in Int /\ start \in Int
      BY <1>6
    <3> DEFINE end == start + wanted - 1
    <3>3. Cardinality(start .. end) = IF start > end THEN 0 ELSE end - start + 1
      <4> HIDE DEF end
      <4> QED BY <3>2, FS_Interval DEF end
    <3>4. ~(start > end) /\ end - start + 1 = wanted
      BY <1>6, <3>1, <3>2
    <3>5. ids = start .. end
      BY <2>1
    <3> HIDE DEF end
    <3>6. Cardinality(start .. end) = wanted
      BY <3>3, <3>4
    <3> QED BY <3>5, <3>6
  <2> QED BY <2>1, <2>2, <2>3
<1>10. found # {} => searches \/ (job.tool = "usermod" /\ "S" \in job.flags)
  BY <1>4, <1>8
<1> HIDE DEF kept, found
<1> QED BY <1>2, <1>7, <1>9, <1>10 DEF kept, found, name, lost, given, old, new, searches, wanted

\* So an edit changes nobody else, and takes and gives what is asked.
LEMMA EditsMean ==
  ASSUME SubIdsAssumption, SubIdsInv, CloseInv, Next
  PROVE  \A p \in Procs :
       LET w == work[p]
           before == w.mem.sub
           after == work'[p].mem.sub
           name == w.job.name
           of(db, user) == OwnedBy(passwd, db, user)
           span(ranges) == UNION {r.start .. r.start + r.count - 1 : r \in Range(ranges)}
           lost == IF KnownUid(passwd, name) = {} THEN {}
                   ELSE CASE w.job.tool = "userdel" -> 0 .. MaxId + 1
                          [] w.job.tool = "ungrant" -> w.job.start .. w.job.start + w.job.count - 1
                          [] w.job.tool = "usermod" -> span(w.job.del)
                          [] OTHER -> {}
           given == IF w.job.tool = "usermod" THEN span(w.job.add) ELSE {}
           kept == (of(before, name) \ lost) \cup given
           others == {user \in {r.owner : r \in Range(before)} :
                        user # name /\ ~IsSameUser(passwd, user, name)}
           wanted == IF w.job.tool = "grant" THEN w.job.count ELSE SubIdCount
           found == of(after, name) \ kept
           searches == w.job.tool \in {"useradd", "newusers", "grant"}
       IN  Doing(p, "edit") /\ work'[p].script = Tail(w.script) /\ before # Closed =>
             /\ \A user \in others : of(after, user) = of(before, user)
             /\ kept \subseteq of(after, name)
             /\ found # {} => searches \/ (w.job.tool = "usermod" /\ "S" \in w.job.flags)
             /\ searches /\ found # {} /\ ~config.deterministic =>
                  Cardinality(found) = wanted /\ found \cap AllIds(before) = {}
<1> TAKE p \in Procs
<1> DEFINE w == work[p]
           job == w.job
           before == w.mem.sub
           after == work'[p].mem.sub
           name == job.name
           of(db, user) == OwnedBy(passwd, db, user)
           span(ranges) == UNION {r.start .. r.start + r.count - 1 : r \in Range(ranges)}
           lost == IF KnownUid(passwd, name) = {} THEN {}
                   ELSE CASE job.tool = "userdel" -> 0 .. MaxId + 1
                          [] job.tool = "ungrant" -> job.start .. job.start + job.count - 1
                          [] job.tool = "usermod" -> span(job.del)
                          [] OTHER -> {}
           given == IF job.tool = "usermod" THEN span(job.add) ELSE {}
           kept == (of(before, name) \ lost) \cup given
           others == {user \in {r.owner : r \in Range(before)} :
                        user # name /\ ~IsSameUser(passwd, user, name)}
           wanted == IF job.tool = "grant" THEN job.count ELSE SubIdCount
           found == of(after, name) \ kept
           searches == job.tool \in {"useradd", "newusers", "grant"}
           A == /\ \A user \in others : of(after, user) = of(before, user)
                /\ kept \subseteq of(after, name)
                /\ found # {} => searches \/ (job.tool = "usermod" /\ "S" \in job.flags)
                /\ searches /\ found # {} /\ ~config.deterministic =>
                     Cardinality(found) = wanted /\ found \cap AllIds(before) = {}
<1>1. lost = LostBy(job) /\ given = GivenBy(job) /\ wanted = WantedBy(job)
      /\ (searches <=> job.tool \in Searching)
  BY DEF LostBy, GivenBy, WantedBy, Searching, RangesSpan
<1>2. ASSUME Doing(p, "edit"), work'[p].script = Tail(w.script), before # Closed
      PROVE  A
  <2>1. work'[p].mem \in EditsOf(job, w.mem, w.uid) /\ w.uid \in Nat
    <3>1. w.uid \in Nat
      BY DEF SubIdsInv, FilesOK, Works
    <3> QED BY <1>2, <3>1, EditSteps
  <2>2. /\ job \in Jobs /\ job.tool \notin Maps /\ w.mem \in Mems
        /\ job.tool \notin {"grant", "ungrant"} => w.mem.passwd = passwd
    BY <1>2, EditOpen
  <2>3. before \in Seq(SubRange)
    BY <1>2, <2>2 DEF Mems
  <2>4. passwd \in Tables
    BY DEF SubIdsInv, FilesOK
  <2>5. job.tool \notin {"grant", "ungrant"} => w.mem.passwd \in Tables
    BY <2>2, <2>4
  <2>6. \E ids : ExactEdit(job, before, after, ids)
    <3> DEFINE mem == w.mem
               new == work'[p].mem
               uid == w.uid
    <3>1. mem \in Mems /\ new \in EditsOf(job, mem, uid) /\ uid \in Nat /\ mem.sub \in Seq(SubRange)
          /\ (job.tool \notin {"grant", "ungrant"} => mem.passwd \in Tables)
      BY <2>1, <2>2, <2>3, <2>5
    <3> HIDE DEF mem, new, job, uid
    <3>2. \E ids : ExactEdit(job, mem.sub, new.sub, ids)
      BY <2>2, <2>4, <3>1, ExactEdits
    <3> QED BY <3>2 DEF mem, new
  <2>7. PICK ids : ExactEdit(job, before, after, ids)
    BY <2>6
  <2> HIDE DEF lost, given, wanted, searches, job, before, after
  <2>8. LET k == (of(before, name) \ LostBy(job)) \cup GivenBy(job)
            f == of(after, name) \ k
        IN  /\ \A user : user # name /\ ~IsSameUser(passwd, user, name) => of(after, user) = of(before, user)
            /\ k \subseteq of(after, name)
            /\ f # {} => job.tool \in Searching \/ (job.tool = "usermod" /\ "S" \in job.flags)
            /\ job.tool \in Searching /\ f # {} /\ ~config.deterministic =>
                 Cardinality(f) = WantedBy(job) /\ f \cap AllIds(before) = {}
    BY <2>2, <2>7, ExactMeans
  <2>9. \A user \in others : of(after, user) = of(before, user)
    BY <2>8
  <2>10. (of(before, name) \ LostBy(job)) \cup GivenBy(job) = kept
    BY <1>1
  <2> HIDE DEF kept
  <2>11. /\ kept \subseteq of(after, name)
         /\ found # {} => searches \/ (job.tool = "usermod" /\ "S" \in job.flags)
         /\ searches /\ found # {} /\ ~config.deterministic =>
              Cardinality(found) = wanted /\ found \cap AllIds(before) = {}
    BY <1>1, <2>8, <2>10
  <2> QED BY <2>9, <2>11
<1> HIDE DEF A
<1>3. Doing(p, "edit") /\ work'[p].script = Tail(w.script) /\ before # Closed => A
  BY <1>2
<1> QED BY <1>3 DEF A

\* An edit of any tool takes from its user what is asked, gives what is asked or
\* has been searched for, and leaves everybody else's identifiers alone.
THEOREM EditsAreExact == Spec => EditsExact
<1>1. Init => SubIdsInv /\ CloseInv
  <2>1. ASSUME Init PROVE CloseInv
    <3>1. Idle.script = <<>>
      BY IdleFact, SubIdsAssumption
    <3>2. \A c : c \notin Range(<<>>)
      BY DEF Range
    <3> QED BY <2>1, <3>1, <3>2 DEF Init, CloseInv, CloseOK
  <2> QED BY <2>1, InitFact, SubIdsAssumption
<1>2. SubIdsInv /\ CloseInv /\ [Next]_vars => SubIdsInv' /\ CloseInv'
  BY NextKeeps, CloseNext, SubIdsAssumption
<1> DEFINE A ==
      \A p \in Procs :
       LET w == work[p]
           before == w.mem.sub
           after == work'[p].mem.sub
           name == w.job.name
           of(db, user) == OwnedBy(passwd, db, user)
           span(ranges) == UNION {r.start .. r.start + r.count - 1 : r \in Range(ranges)}
           lost == IF KnownUid(passwd, name) = {} THEN {}
                   ELSE CASE w.job.tool = "userdel" -> 0 .. MaxId + 1
                          [] w.job.tool = "ungrant" -> w.job.start .. w.job.start + w.job.count - 1
                          [] w.job.tool = "usermod" -> span(w.job.del)
                          [] OTHER -> {}
           given == IF w.job.tool = "usermod" THEN span(w.job.add) ELSE {}
           kept == (of(before, name) \ lost) \cup given
           others == {user \in {r.owner : r \in Range(before)} :
                        user # name /\ ~IsSameUser(passwd, user, name)}
           wanted == IF w.job.tool = "grant" THEN w.job.count ELSE SubIdCount
           found == of(after, name) \ kept
           searches == w.job.tool \in {"useradd", "newusers", "grant"}
       IN  Doing(p, "edit") /\ work'[p].script = Tail(w.script) /\ before # Closed =>
             /\ \A user \in others : of(after, user) = of(before, user)
             /\ kept \subseteq of(after, name)
             /\ found # {} => searches \/ (w.job.tool = "usermod" /\ "S" \in w.job.flags)
             /\ searches /\ found # {} /\ ~config.deterministic =>
                  Cardinality(found) = wanted /\ found \cap AllIds(before) = {}
<1>3. SubIdsInv /\ CloseInv /\ [Next]_vars => [A]_vars
  BY EditsMean, SubIdsAssumption
<1>4. SubIdsInv /\ CloseInv /\ [][Next]_vars => [][A]_vars
  <2> HIDE DEF A
  <2> QED BY <1>2, <1>3, PTL
<1>5. Spec => [][A]_vars
  <2> HIDE DEF A
  <2> QED BY <1>1, <1>4, PTL DEF Spec
<1> QED BY <1>5, PTL DEF EditsExact
=============================================================================
