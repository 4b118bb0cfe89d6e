------------------------ MODULE StoredCommandProofs ------------------------
(***************************************************************************)
(* Theorems about StoredCommand for any number of sequences and any tables *)
(* of the mission's times: no ATS command goes out twice, early or out of  *)
(* order, a switch neither repeats nor misses one, no RTS command goes out *)
(* early, the limit of commands per second is kept, and the count of       *)
(* active RTS is right.  They rest on a theorem about the time index that  *)
(* SC builds when an ATS is loaded or appended to, which comes first.      *)
(***************************************************************************)
EXTENDS StoredCommand, FiniteSetTheorems, SequenceTheorems, TLAPS

----------------------------------------------------------------------------
(* Least and greatest elements.                                            *)

\* A non-empty set of naturals has a least element.
LEMMA LeastNat ==
  ASSUME NEW S \in SUBSET Nat, S # {}
  PROVE  \E m \in S : \A n \in S : m <= n
<1> DEFINE R == OpToRel(<, Nat)
<1>1. IsWellFoundedOn(R, Nat)
  BY NatLessThanWellFounded
<1>2. \E m \in S : \A n \in S : ~ (<<n, m>> \in R)
  <2> HIDE DEF R
  <2> QED BY <1>1, WFMin
<1>3. \A n, m \in Nat : n < m => <<n, m>> \in R
  BY DEF OpToRel
<1> HIDE DEF R
<1>4. PICK m \in S : \A n \in S : ~ (<<n, m>> \in R)
  BY <1>2
<1>5. ASSUME NEW n \in S PROVE m <= n
  <2>1. m \in Nat /\ n \in Nat /\ ~ (n < m)
    BY <1>3, <1>4
  <2> QED BY <2>1
<1> QED BY <1>5

\* Among numbers that each have a key, there is one of the least key, and the
\* lowest of those.
LEMMA LeastKey ==
  ASSUME NEW S \in SUBSET Nat, S # {}, NEW key \in [S -> Nat]
  PROVE  \E m \in S : \A n \in S :
           key[m] < key[n] \/ (key[m] = key[n] /\ m <= n)
<1> DEFINE Keys == {key[n] : n \in S}
<1>1. Keys \in SUBSET Nat /\ Keys # {}
  OBVIOUS
<1>2. PICK k \in Keys : \A l \in Keys : k <= l
  <2> HIDE DEF Keys
  <2> QED BY <1>1, LeastNat
<1> DEFINE First == {n \in S : key[n] = k}
<1>3. First \in SUBSET Nat /\ First # {}
  BY <1>2
<1>4. PICK m \in First : \A n \in First : m <= n
  <2> HIDE DEF First
  <2> QED BY <1>3, LeastNat
<1>5. ASSUME NEW n \in S
      PROVE  key[m] < key[n] \/ (key[m] = key[n] /\ m <= n)
  <2>1. m \in S /\ key[m] = k /\ key[m] \in Nat /\ key[n] \in Nat
    BY <1>4
  <2>2. k <= key[n]
    BY <1>2
  <2>3. key[n] = k => m <= n
    BY <1>4
  <2> QED BY <2>1, <2>2, <2>3
<1> QED BY <1>4, <1>5

\* A non-empty set of naturals below a bound has a greatest element.
LEMMA GreatestNat ==
  ASSUME NEW n \in Nat, NEW S \in SUBSET (0 .. n), S # {}
  PROVE  Max(S) \in S /\ \A x \in S : x <= Max(S)
<1> DEFINE T == {n - x : x \in S}
<1>1. T \in SUBSET Nat /\ T # {}
  <2>1. \A x \in S : n - x \in Nat
    OBVIOUS
  <2> QED  BY <2>1
<1>2. PICK m \in T : \A y \in T : m <= y
  <2> HIDE DEF T
  <2> QED  BY <1>1, LeastNat
<1>3. n - m \in S /\ \A x \in S : n - m >= x
  <2>1. PICK z \in S : m = n - z
    BY <1>2
  <2>2. ASSUME NEW x \in S PROVE z >= x
    <3>1. m <= n - x
      BY <1>2
    <3> QED  BY <2>1, <3>1
  <2>3. n - m = z
    BY <2>1
  <2> HIDE DEF T
  <2> QED  BY <2>2, <2>3
<1>4. Max(S) \in S /\ \A x \in S : Max(S) >= x
  BY <1>3 DEF Max
<1> QED  BY <1>4

----------------------------------------------------------------------------
(* The index as a recursive function.                                      *)

\* The index of the commands up to n, of those before.
Extend(tbl, f, n) ==
  IF n = 0 THEN <<>>
  ELSE IF n \in DOMAIN tbl THEN Insert(tbl, f[n - 1], n) ELSE f[n - 1]

\* f is the index of the commands up to each number to n.
Indexes(tbl, f, n) == f = [i \in 0 .. n |-> Extend(tbl, f, i)]

\* There is such a function for every n: it can be extended by one.
LEMMA IndexExists ==
  ASSUME NEW tbl, NEW n \in Nat
  PROVE  \E f : Indexes(tbl, f, n)
<1> DEFINE S == {i \in Nat : ~ \E f : Indexes(tbl, f, i)}
<1>1. SUFFICES ASSUME S # {} PROVE FALSE
  OBVIOUS
<1>2. PICK m \in S : \A i \in S : m <= i
  <2>1. S \in SUBSET Nat
    OBVIOUS
  <2> HIDE DEF S
  <2> QED  BY <1>1, <2>1, LeastNat
<1>3. m \in Nat /\ ~ \E f : Indexes(tbl, f, m)
  BY <1>2
<1>4. CASE m = 0
  <2> DEFINE f == [i \in 0 .. 0 |-> <<>>]
  <2>1. f = [i \in 0 .. 0 |-> Extend(tbl, f, i)]
    BY DEF Extend
  <2> QED  BY <1>3, <1>4, <2>1 DEF Indexes
<1>5. CASE m # 0
  <2>1. m - 1 \in Nat /\ m - 1 \notin S
    BY <1>2, <1>3, <1>5
  <2>2. PICK f : Indexes(tbl, f, m - 1)
    BY <2>1
  <2> DEFINE g == [i \in 0 .. m |-> IF i < m THEN f[i] ELSE Extend(tbl, f, m)]
  <2>3. ASSUME NEW i \in 0 .. m PROVE g[i] = Extend(tbl, g, i)
    <3>1. i # 0 => g[i - 1] = f[i - 1]
      BY <1>3
    <3>2. Extend(tbl, g, i) = Extend(tbl, f, i)
      <4> HIDE DEF g
      <4> QED  BY <3>1 DEF Extend
    <3>3. i < m => f[i] = Extend(tbl, f, i)
      BY <1>3, <2>2 DEF Indexes
    <3>4. g[i] = IF i < m THEN f[i] ELSE Extend(tbl, f, m)
      OBVIOUS
    <3>5. i < m \/ i = m
      BY <1>3
    <3> HIDE DEF g
    <3> QED  BY <3>2, <3>3, <3>4, <3>5, <1>3
  <2>4. g = [i \in 0 .. m |-> g[i]]
    OBVIOUS
  <2> HIDE DEF g
  <2>5. Indexes(tbl, g, m)
    BY <2>3, <2>4 DEF Indexes
  <2> QED  BY <1>3, <2>5
<1> QED  BY <1>4, <1>5

\* The time index is the last of the lists SC_BuildTimeIndexTable goes through.
LEMMA IndexIs ==
  ASSUME NEW tbl
  PROVE  \E f : Indexes(tbl, f, MaxAtsCmds) /\ BuildTimeIndexTable(tbl) = f[MaxAtsCmds]
<1> DEFINE F == CHOOSE f : Indexes(tbl, f, MaxAtsCmds)
<1>1. \E f : Indexes(tbl, f, MaxAtsCmds)
  BY IndexExists, MaxAtsCmdsAssumption
<1>2. Indexes(tbl, F, MaxAtsCmds)
  BY <1>1
<1>3. BuildTimeIndexTable(tbl) = F[MaxAtsCmds]
  BY DEF BuildTimeIndexTable, Indexes, Extend
<1> QED  BY <1>2, <1>3

----------------------------------------------------------------------------
(* What the index holds.                                                   *)

\* list has each element of S once.
Enumerates(list, S) ==
  /\ list \in Seq(S)
  /\ \A c \in S : \E i \in 1 .. Len(list) : list[i] = c
  /\ \A i, j \in 1 .. Len(list) : list[i] = list[j] => i = j

\* SC_Insert puts the new number behind one of the places of the list, or at
\* its head: behind the last entry that is not later.
InsertedAfter(k, S, tbl, list, c, new) ==
  /\ k > 0 => ~Later(tbl[list[k]].time, tbl[c].time)
  /\ \A i \in k + 1 .. Len(list) : Later(tbl[list[i]].time, tbl[c].time)
  /\ new \in Seq(S \cup {c}) /\ Len(new) = Len(list) + 1
  /\ \A i \in 1 .. Len(list) + 1 :
       new[i] = IF i <= k THEN list[i] ELSE IF i = k + 1 THEN c ELSE list[i - 1]

\* SC_Insert puts the number in behind the last entry that is not later.
LEMMA InsertIs ==
  ASSUME NEW S, NEW list \in Seq(S), NEW tbl, NEW c
  PROVE  \E k \in 0 .. Len(list) : InsertedAfter(k, S, tbl, list, c, Insert(tbl, list, c))
<1> DEFINE stops == {i \in 1 .. Len(list) : ~Later(tbl[list[i]].time, tbl[c].time)}
           T == stops \cup {0}
           k == Max(T)
           new == Insert(tbl, list, c)
<1>1. Len(list) \in Nat
  BY LenProperties
<1>2. k \in T /\ \A x \in T : x <= k
  <2>1. T \in SUBSET (0 .. Len(list)) /\ T # {}
    BY <1>1
  <2> HIDE DEF T
  <2> QED  BY <1>1, <2>1, GreatestNat
<1>3. k \in 0 .. Len(list)
  BY <1>1, <1>2
<1>4. k > 0 => ~Later(tbl[list[k]].time, tbl[c].time)
  BY <1>2, <1>3
<1>5. ASSUME NEW i \in k + 1 .. Len(list) PROVE Later(tbl[list[i]].time, tbl[c].time)
  <2>1. i \in 1 .. Len(list) /\ ~(i <= k)
    BY <1>1, <1>3
  <2>2. i \notin T
    BY <1>2, <2>1
  <2> QED  BY <2>1, <2>2
<1>6. new = SubSeq(list, 1, k) \o <<c>> \o SubSeq(list, k + 1, Len(list))
  <2>1. new = InsertAt(list, k + 1, c)
    BY DEF Insert
  <2>2. (k + 1) - 1 = k
    BY <1>3
  <2> HIDE DEF k, new
  <2> QED  BY <2>1, <2>2 DEF InsertAt
<1> HIDE DEF k, T, stops, new
<1> DEFINE A == SubSeq(list, 1, k)
           B == SubSeq(list, k + 1, Len(list))
<1>7. /\ A \in Seq(S \cup {c}) /\ Len(A) = k /\ \A i \in 1 .. k : A[i] = list[i]
      /\ B \in Seq(S \cup {c}) /\ Len(B) = Len(list) - k
      /\ \A i \in 1 .. Len(list) - k : B[i] = list[k + i]
  <2>1. \A i \in 1 .. Len(list) : list[i] \in S \cup {c}
    BY ElementOfSeq
  <2>2. /\ A \in Seq(S \cup {c}) /\ Len(A) = IF 1 <= k THEN k - 1 + 1 ELSE 0
        /\ \A i \in 1 .. k - 1 + 1 : A[i] = list[1 + i - 1]
    <3>1. \A i \in 1 .. k : list[i] \in S \cup {c}
      BY <1>1, <1>3, <2>1
    <3> QED  BY <1>3, <3>1, SubSeqProperties
  <2>3. /\ B \in Seq(S \cup {c})
        /\ Len(B) = IF k + 1 <= Len(list) THEN Len(list) - (k + 1) + 1 ELSE 0
        /\ \A i \in 1 .. Len(list) - (k + 1) + 1 : B[i] = list[k + 1 + i - 1]
    <3>1. \A i \in k + 1 .. Len(list) : list[i] \in S \cup {c}
      BY <1>1, <1>3, <2>1
    <3>2. k + 1 \in Int /\ Len(list) \in Int
      BY <1>1, <1>3
    <3> QED  BY <3>1, <3>2, SubSeqProperties
  <2> HIDE DEF A, B
  <2>4. Len(A) = k /\ \A i \in 1 .. k : A[i] = list[i]
    BY <1>1, <1>3, <2>2
  <2>5. Len(B) = Len(list) - k /\ \A i \in 1 .. Len(list) - k : B[i] = list[k + i]
    BY <1>1, <1>3, <2>3
  <2> QED  BY <2>2, <2>3, <2>4, <2>5
<1> HIDE DEF A, B
<1>8. <<c>> \in Seq(S \cup {c}) /\ Len(<<c>>) = 1 /\ <<c>>[1] = c
  OBVIOUS
<1> DEFINE C == A \o <<c>>
<1>9. /\ C \in Seq(S \cup {c}) /\ Len(C) = k + 1
      /\ \A i \in 1 .. k + 1 : C[i] = IF i <= k THEN list[i] ELSE c
  <2>1. /\ C \in Seq(S \cup {c}) /\ Len(C) = Len(A) + 1
        /\ \A i \in 1 .. Len(A) + 1 : C[i] = IF i <= Len(A) THEN A[i] ELSE <<c>>[i - Len(A)]
    BY <1>7, <1>8, ConcatProperties
  <2> HIDE DEF C
  <2> QED  BY <1>3, <1>7, <1>8, <2>1
<1> HIDE DEF C
<1>10. /\ C \o B \in Seq(S \cup {c}) /\ Len(C \o B) = Len(list) + 1
       /\ \A i \in 1 .. Len(list) + 1 :
            (C \o B)[i] = IF i <= k + 1 THEN C[i] ELSE B[i - (k + 1)]
  <2>1. /\ C \o B \in Seq(S \cup {c}) /\ Len(C \o B) = Len(C) + Len(B)
        /\ \A i \in 1 .. Len(C) + Len(B) :
             (C \o B)[i] = IF i <= Len(C) THEN C[i] ELSE B[i - Len(C)]
    BY <1>7, <1>9, ConcatProperties
  <2>2. Len(C) = k + 1 /\ Len(C) + Len(B) = Len(list) + 1
    BY <1>1, <1>3, <1>7, <1>9
  <2> QED  BY <2>1, <2>2
<1>11. new = C \o B
  BY <1>6 DEF A, B, C
<1>12. ASSUME NEW i \in 1 .. Len(list) + 1
       PROVE  new[i] = IF i <= k THEN list[i] ELSE IF i = k + 1 THEN c ELSE list[i - 1]
  <2>1. i > k + 1 => i - (k + 1) \in 1 .. Len(list) - k /\ k + (i - (k + 1)) = i - 1
    BY <1>1, <1>3
  <2>2. new[i] = IF i <= k + 1 THEN C[i] ELSE B[i - (k + 1)]
    BY <1>10, <1>11
  <2>3. CASE i <= k + 1
    <3>1. i \in 1 .. k + 1 /\ (i <= k \/ i = k + 1) /\ ~(k + 1 <= k)
      BY <1>3, <2>3
    <3> QED  BY <1>9, <2>2, <2>3, <3>1
  <2>4. CASE ~(i <= k + 1)
    <3>1. i > k + 1 /\ ~(i <= k) /\ i # k + 1
      BY <1>3, <2>4
    <3> QED  BY <1>7, <2>1, <2>2, <2>4, <3>1
  <2> QED  BY <2>3, <2>4
<1> QED  BY <1>3, <1>4, <1>5, <1>10, <1>11, <1>12 DEF new, InsertedAfter

\* SC_Insert loses no number and repeats none.
LEMMA InsertEnumerates ==
  ASSUME NEW S, NEW list, Enumerates(list, S), NEW tbl, NEW c, c \notin S
  PROVE  Enumerates(Insert(tbl, list, c), S \cup {c})
<1> DEFINE new == Insert(tbl, list, c)
<1>1. list \in Seq(S) /\ Len(list) \in Nat
  BY LenProperties DEF Enumerates
<1>a. PICK k \in 0 .. Len(list) : InsertedAfter(k, S, tbl, list, c, new)
  BY <1>1, InsertIs
<1> HIDE DEF new
<1>2. /\ new \in Seq(S \cup {c}) /\ Len(new) = Len(list) + 1
      /\ \A i \in 1 .. Len(list) + 1 :
           new[i] = IF i <= k THEN list[i] ELSE IF i = k + 1 THEN c ELSE list[i - 1]
  BY <1>a DEF InsertedAfter
\* Place i of the old list is place i or i + 1 of the new one.
<1>3. \A i \in 1 .. Len(list) : list[i] = new[IF i <= k THEN i ELSE i + 1]
  <2> TAKE i \in 1 .. Len(list)
  <2>1. CASE i <= k
    BY <1>1, <1>2, <2>1
  <2>2. CASE ~(i <= k)
    <3>1. i + 1 \in 1 .. Len(list) + 1 /\ ~(i + 1 <= k) /\ i + 1 # k + 1 /\ (i + 1) - 1 = i
      BY <1>1, <2>2
    <3> QED  BY <1>2, <2>2, <3>1
  <2> QED  BY <2>1, <2>2
<1>4. k + 1 \in 1 .. Len(list) + 1 /\ new[k + 1] = c
  BY <1>1, <1>2
<1>5. ASSUME NEW d \in S \cup {c} PROVE \E i \in 1 .. Len(new) : new[i] = d
  <2>1. CASE d \in S
    <3>1. PICK i \in 1 .. Len(list) : list[i] = d
      BY <2>1 DEF Enumerates
    <3>2. (IF i <= k THEN i ELSE i + 1) \in 1 .. Len(list) + 1
      BY <1>1
    <3> QED  BY <1>2, <1>3, <3>1, <3>2
  <2> QED  BY <1>2, <1>4, <2>1
\* Where an entry of the new list was, or that it is the new one.
<1> DEFINE Old(i) == IF i <= k THEN i ELSE i - 1
<1>6. ASSUME NEW i \in 1 .. Len(new)
      PROVE  IF i = k + 1 THEN new[i] = c
             ELSE /\ Old(i) \in 1 .. Len(list) /\ new[i] = list[Old(i)]
                  /\ new[i] \in S
  <2>1. i \in 1 .. Len(list) + 1
    BY <1>2
  <2>2. CASE i = k + 1
    BY <1>4, <2>2
  <2>3. CASE i # k + 1
    <3>1. Old(i) \in 1 .. Len(list)
      BY <1>1, <2>1, <2>3
    <3>2. new[i] = list[Old(i)]
      BY <1>2, <2>1, <2>3
    <3> QED  BY <1>1, <2>3, <3>1, <3>2, ElementOfSeq
  <2> QED  BY <2>2, <2>3
<1>7. ASSUME NEW i \in 1 .. Len(new), NEW j \in 1 .. Len(new), new[i] = new[j]
      PROVE  i = j
  <2>1. CASE i = k + 1 \/ j = k + 1
    BY <1>6, <1>7, <2>1
  <2>2. CASE i # k + 1 /\ j # k + 1
    <3>1. Old(i) \in 1 .. Len(list) /\ new[i] = list[Old(i)]
      BY <1>6, <2>2
    <3>2. Old(j) \in 1 .. Len(list) /\ new[j] = list[Old(j)]
      BY <1>6, <2>2
    <3>3. Old(i) = Old(j)
      <4> HIDE DEF Old
      <4> QED  BY <1>7, <3>1, <3>2 DEF Enumerates
    <3> QED  BY <1>1, <1>2, <2>2, <3>3
  <2> QED  BY <2>1, <2>2
<1> QED  BY <1>2, <1>5, <1>7 DEF Enumerates, new

----------------------------------------------------------------------------
(* The order of the index.                                                 *)

\* Command c goes before command d: by time, and by number within a second.
Before(tbl, c, d) ==
  tbl[c].time < tbl[d].time \/ (tbl[c].time = tbl[d].time /\ c < d)

Ordered(tbl, list) ==
  \A i, j \in 1 .. Len(list) : i < j => Before(tbl, list[i], list[j])

\* Where no times are more than half the range apart, SC_CompareAbsTime is the
\* plain comparison.
LEMMA LaterIs ==
  ASSUME NEW s \in Times, NEW t \in Times, s <= HalfRange, t <= HalfRange
  PROVE  Later(s, t) <=> s > t
<1>1. HalfRange \in Nat
  BY TimeAssumption
<1> QED  BY <1>1 DEF Later, Times

\* SC_Insert keeps the list in order when the number is the greatest so far.
LEMMA InsertOrdered ==
  ASSUME NEW tbl \in AtsTables, NearTimes(tbl), NEW S \in SUBSET DOMAIN tbl,
         NEW list, Enumerates(list, S), Ordered(tbl, list),
         NEW c \in DOMAIN tbl, \A d \in S : d < c
  PROVE  Ordered(tbl, Insert(tbl, list, c))
<1> DEFINE new == Insert(tbl, list, c)
<1>1. list \in Seq(S) /\ Len(list) \in Nat /\ \A i \in 1 .. Len(list) : list[i] \in S
  BY LenProperties, ElementOfSeq DEF Enumerates
<1>2. \A d \in DOMAIN tbl : tbl[d].time \in Times /\ tbl[d].time <= HalfRange
  BY DEF AtsTables, AtsEntries, NearTimes
<1>a. PICK k \in 0 .. Len(list) : InsertedAfter(k, S, tbl, list, c, new)
  BY <1>1, InsertIs
<1> HIDE DEF new
<1>3. /\ k > 0 => ~Later(tbl[list[k]].time, tbl[c].time)
      /\ \A i \in k + 1 .. Len(list) : Later(tbl[list[i]].time, tbl[c].time)
      /\ Len(new) = Len(list) + 1
      /\ \A i \in 1 .. Len(list) + 1 :
           new[i] = IF i <= k THEN list[i] ELSE IF i = k + 1 THEN c ELSE list[i - 1]
  BY <1>a DEF InsertedAfter
<1>4. \A d \in DOMAIN tbl : tbl[d].time \in Int /\ tbl[c].time \in Int
  BY <1>2 DEF Times
<1>5. ASSUME NEW i \in 1 .. k PROVE Before(tbl, list[i], c)
  <2>1. i \in 1 .. Len(list) /\ k \in 1 .. Len(list) /\ k > 0
    BY <1>1
  <2>2. list[i] \in DOMAIN tbl /\ list[k] \in DOMAIN tbl /\ list[i] < c
    BY <1>1, <2>1
  <2>3. ~(tbl[list[k]].time > tbl[c].time)
    BY <1>2, <1>3, <2>1, <2>2, LaterIs
  <2>4. i = k \/ Before(tbl, list[i], list[k])
    BY <2>1 DEF Ordered
  <2>5. tbl[list[i]].time <= tbl[list[k]].time
    BY <1>4, <2>2, <2>4 DEF Before
  <2>6. tbl[list[i]].time < tbl[c].time \/ tbl[list[i]].time = tbl[c].time
    BY <1>4, <2>2, <2>3, <2>5
  <2> QED  BY <2>2, <2>6 DEF Before
<1>6. ASSUME NEW i \in k + 1 .. Len(list) PROVE Before(tbl, c, list[i])
  <2>1. i \in 1 .. Len(list) /\ list[i] \in DOMAIN tbl
    BY <1>1
  <2>2. tbl[list[i]].time > tbl[c].time
    BY <1>2, <1>3, <2>1, LaterIs
  <2> QED  BY <1>4, <2>1, <2>2 DEF Before
<1>7. ASSUME NEW i \in 1 .. Len(new), NEW j \in 1 .. Len(new), i < j
      PROVE  Before(tbl, new[i], new[j])
  <2>1. i \in 1 .. Len(list) + 1 /\ j \in 1 .. Len(list) + 1
    BY <1>3
  <2>2. CASE j <= k
    <3>1. i <= k /\ i \in 1 .. Len(list) /\ j \in 1 .. Len(list)
      BY <1>1, <1>7, <2>1, <2>2
    <3>2. new[i] = list[i] /\ new[j] = list[j]
      BY <1>3, <2>1, <2>2, <3>1
    <3> QED  BY <1>7, <3>1, <3>2 DEF Ordered
  <2>3. CASE j = k + 1
    <3>1. i \in 1 .. k /\ i <= k /\ ~(j <= k)
      BY <1>1, <1>7, <2>1, <2>3
    <3>2. new[i] = list[i] /\ new[j] = c
      BY <1>3, <2>1, <2>3, <3>1
    <3> QED  BY <1>5, <3>1, <3>2
  <2>4. CASE ~(j <= k) /\ j # k + 1
    <3>1. new[j] = list[j - 1] /\ j - 1 \in k + 1 .. Len(list) /\ j - 1 \in 1 .. Len(list)
      BY <1>1, <1>3, <2>1, <2>4
    <3>2. CASE i <= k
      <4>1. new[i] = list[i] /\ i \in 1 .. Len(list) /\ i < j - 1
        BY <1>1, <1>3, <2>1, <2>4, <3>2
      <4> QED  BY <3>1, <4>1 DEF Ordered
    <3>3. CASE i = k + 1
      <4>1. new[i] = c
        BY <1>3, <2>1, <3>3
      <4> QED  BY <1>6, <3>1, <4>1
    <3>4. CASE ~(i <= k) /\ i # k + 1
      <4>1. new[i] = list[i - 1] /\ i - 1 \in 1 .. Len(list) /\ i - 1 < j - 1
        BY <1>1, <1>3, <1>7, <2>1, <3>4
      <4> QED  BY <3>1, <4>1 DEF Ordered
    <3> QED  BY <3>2, <3>3, <3>4
  <2> QED  BY <2>2, <2>3, <2>4
<1> QED  BY <1>7 DEF Ordered, new

----------------------------------------------------------------------------
(* The index of a table.                                                   *)

\* The commands of the table up to number n.
UpTo(tbl, n) == DOMAIN tbl \cap (1 .. n)

\* One more number: the list goes on enumerating the table, in order.
LEMMA IndexStep ==
  ASSUME NEW tbl \in AtsTables, NEW f, Indexes(tbl, f, MaxAtsCmds),
         NEW n \in 1 .. MaxAtsCmds, Enumerates(f[n - 1], UpTo(tbl, n - 1))
  PROVE  /\ Enumerates(f[n], UpTo(tbl, n))
         /\ NearTimes(tbl) /\ Ordered(tbl, f[n - 1]) => Ordered(tbl, f[n])
<1>1. f[n] = IF n \in DOMAIN tbl THEN Insert(tbl, f[n - 1], n) ELSE f[n - 1]
  BY MaxAtsCmdsAssumption DEF Indexes, Extend
<1>2. CASE n \in DOMAIN tbl
  <2>1. UpTo(tbl, n) = UpTo(tbl, n - 1) \cup {n} /\ n \notin UpTo(tbl, n - 1)
    BY <1>2 DEF UpTo
  <2>2. /\ UpTo(tbl, n - 1) \in SUBSET DOMAIN tbl
        /\ \A d \in UpTo(tbl, n - 1) : d < n
    BY DEF UpTo
  <2>3. Enumerates(f[n], UpTo(tbl, n))
    BY <1>1, <1>2, <2>1, InsertEnumerates
  <2> QED  BY <1>1, <1>2, <2>2, <2>3, InsertOrdered
<1>3. CASE n \notin DOMAIN tbl
  <2>1. UpTo(tbl, n) = UpTo(tbl, n - 1)
    BY <1>3 DEF UpTo
  <2> QED  BY <1>1, <1>3, <2>1
<1> QED  BY <1>2, <1>3

\* What holds of the empty index and is kept by each insertion holds of the
\* whole: otherwise there would be a first number at which it fails.
LEMMA IndexInduction ==
  ASSUME NEW tbl \in AtsTables, NEW f, Indexes(tbl, f, MaxAtsCmds)
  PROVE  /\ Enumerates(f[MaxAtsCmds], DOMAIN tbl)
         /\ NearTimes(tbl) => Ordered(tbl, f[MaxAtsCmds])
<1> DEFINE Holds(n) == /\ Enumerates(f[n], UpTo(tbl, n))
                       /\ NearTimes(tbl) => Ordered(tbl, f[n])
           S == {n \in 0 .. MaxAtsCmds : ~Holds(n)}
<1>1. Holds(0)
  <2>1. f[0] = <<>> /\ UpTo(tbl, 0) = {}
    BY MaxAtsCmdsAssumption DEF Indexes, Extend, UpTo
  <2>2. Len(<<>>) = 0 /\ 1 .. 0 = {}
    OBVIOUS
  <2> QED  BY <2>1, <2>2, EmptySeq DEF Enumerates, Ordered
<1>2. ASSUME NEW n \in 1 .. MaxAtsCmds, Holds(n - 1) PROVE Holds(n)
  BY <1>2, IndexStep
<1> HIDE DEF Holds
<1>3. S = {}
  <2> SUFFICES ASSUME S # {} PROVE FALSE
    OBVIOUS
  <2>1. S \in SUBSET Nat
    OBVIOUS
  <2>2. PICK m \in S : \A n \in S : m <= n
    <3> HIDE DEF S
    <3> QED  BY <2>1, LeastNat
  <2>3. m \in 1 .. MaxAtsCmds /\ ~Holds(m)
    BY <1>1, <2>2
  <2>4. m - 1 \in 0 .. MaxAtsCmds /\ ~(m <= m - 1)
    BY <2>3, MaxAtsCmdsAssumption
  <2>5. m - 1 \notin S
    <3> HIDE DEF S
    <3> QED  BY <2>2, <2>4
  <2> QED  BY <1>2, <2>3, <2>4, <2>5
<1>4. Holds(MaxAtsCmds)
  BY <1>3, MaxAtsCmdsAssumption
<1>5. UpTo(tbl, MaxAtsCmds) = DOMAIN tbl
  BY DEF UpTo, AtsTables, CmdNums
<1> QED  BY <1>4, <1>5 DEF Holds

\* SC_BuildTimeIndexTable lists each command of the table once; where its times
\* are near one another, in their order.
LEMMA TimeIndex ==
  ASSUME NEW tbl \in AtsTables
  PROVE  /\ Enumerates(BuildTimeIndexTable(tbl), DOMAIN tbl)
         /\ NearTimes(tbl) => Ordered(tbl, BuildTimeIndexTable(tbl))
  BY IndexIs, IndexInduction

\* A list of the elements of a set is as long as the set is large.
LEMMA EnumeratesLength ==
  ASSUME NEW list, NEW S, Enumerates(list, S)
  PROVE  IsFiniteSet(S) /\ Len(list) = Cardinality(S)
<1>1. Len(list) \in Nat /\ list \in [1 .. Len(list) -> S]
  BY LenProperties DEF Enumerates
<1>2. list \in Bijection(1 .. Len(list), S)
  BY <1>1 DEF Enumerates, Bijection, Injection, Surjection, IsInjective
<1>3. ExistsBijection(1 .. Len(list), S)
  BY <1>2 DEF ExistsBijection
<1> QED  BY <1>1, <1>3, FS_CountingElements, FS_NatBijection

\* The time index has a place for each command, and every place is taken.
LEMMA IndexLength ==
  ASSUME NEW tbl \in AtsTables
  PROVE  /\ NumCommands(tbl) \in Nat /\ Len(BuildTimeIndexTable(tbl)) = NumCommands(tbl)
         /\ \A i \in 1 .. NumCommands(tbl) : BuildTimeIndexTable(tbl)[i] \in DOMAIN tbl
<1> DEFINE list == BuildTimeIndexTable(tbl)
<1>1. Enumerates(list, DOMAIN tbl)
  BY TimeIndex
<1> HIDE DEF list
<1>2. Len(list) \in Nat /\ \A i \in 1 .. Len(list) : list[i] \in DOMAIN tbl
  BY <1>1, LenProperties, ElementOfSeq DEF Enumerates
<1>3. Len(list) = NumCommands(tbl)
  BY <1>1, EnumeratesLength DEF NumCommands
<1> QED  BY <1>2, <1>3 DEF list

\* The walk of SC_BeginAts stops at the first command that is not past.
LEMMA PassedIs ==
  ASSUME NEW tbl \in AtsTables, NEW t
  PROVE  LET list == BuildTimeIndexTable(tbl)
             n    == Passed(tbl, t)
         IN  /\ n \in 0 .. NumCommands(tbl)
             /\ n < NumCommands(tbl) => ~Later(t, tbl[list[n + 1]].time)
<1> DEFINE list == BuildTimeIndexTable(tbl)
           N == NumCommands(tbl)
           Stop(i) == i = N + 1 \/ ~Later(t, tbl[list[i]].time)
           S == {i \in 1 .. N + 1 : Stop(i)}
           IsPassed(n) == /\ \A i \in 1 .. n : Later(t, tbl[list[i]].time)
                          /\ n = Len(list) \/ ~Later(t, tbl[list[n + 1]].time)
<1>1. N \in Nat /\ Len(list) = N
  BY IndexLength
<1> HIDE DEF N, list
<1>2. PICK m \in S : \A i \in S : m <= i
  <2>1. S \in SUBSET Nat /\ N + 1 \in S
    BY <1>1
  <2> HIDE DEF S
  <2> QED  BY <2>1, LeastNat
<1>3. m \in 1 .. N + 1 /\ Stop(m)
  BY <1>2
<1>4. ASSUME NEW i \in 1 .. m - 1 PROVE Later(t, tbl[list[i]].time)
  <2>1. i \in 1 .. N + 1 /\ ~(m <= i) /\ i # N + 1
    BY <1>1, <1>3
  <2>2. i \notin S
    <3> HIDE DEF S
    <3> QED  BY <1>2, <2>1
  <2> QED  BY <2>1, <2>2
<1>5. m - 1 \in 0 .. N /\ (m - 1) + 1 = m
  BY <1>1, <1>3
<1>6. m - 1 = N \/ ~Later(t, tbl[list[(m - 1) + 1]].time)
  BY <1>1, <1>3, <1>5
<1>7. \E n \in 0 .. N : IsPassed(n)
  BY <1>1, <1>4, <1>5, <1>6
<1>8. Passed(tbl, t) = CHOOSE n \in 0 .. Len(list) : IsPassed(n)
  BY DEF Passed, list
<1> HIDE DEF IsPassed
<1>9. Passed(tbl, t) \in 0 .. N /\ IsPassed(Passed(tbl, t))
  BY <1>1, <1>7, <1>8
<1> QED  BY <1>1, <1>9 DEF IsPassed, list, N

\* A command that is not passed over is at the place where the walk stopped, or
\* behind it.
LEMMA NotPassed ==
  ASSUME NEW tbl \in AtsTables, NEW t, NEW c \in DOMAIN tbl, c \notin PassedCommands(tbl, t)
  PROVE  \E i \in Passed(tbl, t) + 1 .. NumCommands(tbl) : BuildTimeIndexTable(tbl)[i] = c
<1>1. PICK i \in 1 .. NumCommands(tbl) : BuildTimeIndexTable(tbl)[i] = c
  BY TimeIndex, IndexLength DEF Enumerates
<1>2. ~(i <= Passed(tbl, t)) /\ NumCommands(tbl) \in Nat /\ Passed(tbl, t) \in Nat
  BY <1>1, PassedIs, IndexLength DEF PassedCommands
<1> QED  BY <1>1, <1>2

\* What a start passes over are commands of the table.
LEMMA PassedInTable ==
  ASSUME NEW tbl \in AtsTables, NEW t
  PROVE  PassedCommands(tbl, t) \subseteq DOMAIN tbl /\ DOMAIN tbl \subseteq CmdNums
<1>1. Passed(tbl, t) \in 0 .. NumCommands(tbl) /\ NumCommands(tbl) \in Nat
  BY PassedIs, IndexLength
<1>2. \A i \in 1 .. Passed(tbl, t) : BuildTimeIndexTable(tbl)[i] \in DOMAIN tbl
  BY <1>1, IndexLength
<1> QED  BY <1>2 DEF PassedCommands, AtsTables

----------------------------------------------------------------------------
(* The limit of commands per second.                                       *)

\* Every message is counted, and a pass of the loop begins below the limit.
RateInv ==
  /\ numCmds \in Nat /\ burst \in Nat
  /\ burst <= numCmds
  /\ pc = "idle" => numCmds = 0
  /\ pc \in {"switch", "process"} => numCmds < MaxCmdsPerSec
  /\ pc = "update" => numCmds <= MaxCmdsPerSec
  /\ pc \in {"idle", "switch", "process", "update"}

\* The counter is zero between requests, and each pass of the loop adds one
\* to it at most before the limit is tested.
LEMMA RateStep == RateInv /\ [Next]_vars => RateInv'
<1> SUFFICES ASSUME RateInv, [Next]_vars PROVE RateInv'
  OBVIOUS
<1> USE ScAssumption DEF RateInv
<1>1. CASE Tick \/ UNCHANGED vars
  BY <1>1 DEF Tick, vars, loopVars
<1>2. CASE Reset
  BY <1>2 DEF Reset
<1>3. CASE Wakeup
  BY <1>3 DEF Wakeup
<1>4. CASE ServiceSwitchPend \/ DropSwitchPend \/ NoSwitch
  BY <1>4 DEF ServiceSwitchPend, DropSwitchPend, NoSwitch
<1>5. ASSUME NEW ok \in BOOLEAN, AtpSend(ok) \/ RtpSend(ok) PROVE RateInv'
  BY <1>5 DEF AtpSend, AtpDue, RtpSend, RtpDue
<1>6. CASE InlineSwitch
  BY <1>6 DEF InlineSwitch, AtpDue
<1>7. CASE AtpPassOver \/ NothingDue
  BY <1>7 DEF AtpPassOver, AtpDue, NothingDue
<1>8. CASE UpdateNextTime
  BY <1>8 DEF UpdateNextTime, LimitReached
<1>9. CASE AtsCommand
  <2>1. UNCHANGED loopVars
    BY <1>9 DEF AtsCommand, StartAts, AppendAts, LoadAts, UpdateAppend, JumpAts,
                StopAts, GroundSwitch, AtsRequest
  <2> QED BY <2>1 DEF loopVars
<1>10. CASE RtsCommand
  <2>1. UNCHANGED loopVars
    BY <1>10 DEF RtsCommand, StartRts, StartRtsGrp, BeginRts, StopRts, StopRtsGrp,
                 SetDisabled, LoadRts, SendHk, RtsRequest
  <2> QED BY <2>1 DEF loopVars
<1> QED BY <1>1, <1>2, <1>3, <1>4, <1>5, <1>6, <1>7, <1>8, <1>9, <1>10 DEF Next, Loop

\* SC_ProcessRequest never lets more than SC_MAX_CMDS_PER_SEC commands out
\* on one wakeup, whatever the limit is and whatever is due.
THEOREM RateLimited == Spec => []RateLimit
<1>1. Init => RateInv
  BY DEF Init, RateInv
<1>2. RateInv /\ [Next]_vars => RateInv'
  BY RateStep
<1>3. RateInv => RateLimit
  BY ScAssumption DEF RateInv, RateLimit
<1> QED BY <1>1, <1>2, <1>3, PTL DEF Spec

----------------------------------------------------------------------------
(* No command twice.                                                       *)

Counts == [AtsIds -> [CmdNums -> 0 .. 2]]

\* A command that is LOADED has not been sent since it was loaded.
SentInv ==
  /\ sent \in Counts
  /\ atsStatus \in [AtsIds -> [CmdNums -> Status]]
  /\ \A a \in AtsIds, c \in CmdNums :
       sent[a][c] <= 1 /\ (atsStatus[a][c] = "LOADED" => sent[a][c] = 0)

\* SC_BeginAts makes nothing LOADED.
LEMMA SkipPassedKeeps ==
  ASSUME NEW status \in [CmdNums -> Status], NEW tbl, NEW t
  PROVE  /\ SkipPassed(status, tbl, t) \in [CmdNums -> Status]
         /\ \A c \in CmdNums : SkipPassed(status, tbl, t)[c] = "LOADED"
                                 => status[c] = "LOADED"
  BY DEF SkipPassed, Status

\* A request that sends nothing and makes nothing LOADED.
Quiet ==
  /\ sent' = sent
  /\ atsStatus' \in [AtsIds -> [CmdNums -> Status]]
  /\ \A a \in AtsIds, c \in CmdNums :
       atsStatus'[a][c] = "LOADED" => atsStatus[a][c] = "LOADED"

\* Such a request preserves the invariant.
LEMMA QuietStep == SentInv /\ Quiet => SentInv'
  BY DEF SentInv, Quiet

\* A status table in which the commands of one ATS were skipped.
LEMMA SkipIsQuiet ==
  ASSUME SentInv, sent' = sent, NEW a \in AtsIds, NEW tbl, NEW t,
         atsStatus' = [atsStatus EXCEPT ![a] = SkipPassed(@, tbl, t)]
  PROVE  Quiet
<1>1. atsStatus[a] \in [CmdNums -> Status]
  BY DEF SentInv
<1> DEFINE new == SkipPassed(atsStatus[a], tbl, t)
<1>2. /\ new \in [CmdNums -> Status]
      /\ \A c \in CmdNums : new[c] = "LOADED" => atsStatus[a][c] = "LOADED"
  BY <1>1, SkipPassedKeeps
<1>3. atsStatus' = [atsStatus EXCEPT ![a] = new]
  OBVIOUS
<1> HIDE DEF new
<1> QED BY <1>2, <1>3 DEF Quiet, SentInv

\* SC_ProcessAtpCmd sends a command only while it is LOADED, and marks it.
LEMMA AtpSendSent ==
  ASSUME SentInv, NEW ok \in BOOLEAN, AtpSend(ok)
  PROVE  SentInv'
<1> DEFINE a == atp.ats
           c == atp.cmd
           mark == IF ok THEN "EXECUTED" ELSE "FAILED_DISTRIB"
<1>1. /\ atsStatus[a][c] = "LOADED"
      /\ atsStatus' = [atsStatus EXCEPT ![a][c] = mark]
      /\ sent' = [sent EXCEPT ![a][c] = IF @ = 0 THEN 1 ELSE 2]
  BY DEF AtpSend, AtpCmdLoaded
<1>2. mark \in Status /\ mark # "LOADED"
  BY DEF Status
<1> HIDE DEF a, c, mark
<1>3. CASE a \in AtsIds /\ c \in CmdNums
  <2>1. sent[a][c] = 0
    BY <1>1, <1>3 DEF SentInv
  <2>2. sent' = [sent EXCEPT ![a][c] = 1]
    BY <1>1, <1>3, <2>1 DEF SentInv, Counts
  <2>3. sent' \in Counts
    BY <1>3, <2>2 DEF SentInv, Counts
  <2>4. atsStatus' \in [AtsIds -> [CmdNums -> Status]]
    BY <1>1, <1>2, <1>3 DEF SentInv
  <2>5. ASSUME NEW b \in AtsIds, NEW d \in CmdNums
        PROVE  sent'[b][d] <= 1 /\ (atsStatus'[b][d] = "LOADED" => sent'[b][d] = 0)
    <3>1. CASE b = a /\ d = c
      BY <1>1, <1>2, <1>3, <2>2, <3>1 DEF SentInv, Counts
    <3>2. CASE ~(b = a /\ d = c)
      <4>1. sent'[b][d] = sent[b][d] /\ atsStatus'[b][d] = atsStatus[b][d]
        BY <1>1, <1>3, <2>2, <3>2 DEF SentInv, Counts
      <4> QED BY <4>1 DEF SentInv
    <3> QED BY <3>1, <3>2
  <2> QED BY <2>3, <2>4, <2>5 DEF SentInv
<1>4. CASE ~(a \in AtsIds /\ c \in CmdNums)
  <2>1. sent' = sent /\ atsStatus' = atsStatus
    BY <1>1, <1>4 DEF SentInv, Counts
  <2> QED BY <2>1 DEF SentInv
<1> QED BY <1>3, <1>4

\* SC_InlineSwitch skips commands of the new ATS and marks the switch
\* command itself.
LEMMA InlineSwitchSent == SentInv /\ InlineSwitch => SentInv'
<1> SUFFICES ASSUME SentInv, InlineSwitch PROVE SentInv'
  OBVIOUS
<1> DEFINE new    == OtherAts
           loaded == NumCommands(atsTbl[new]) > 0
           ok     == loaded /\ Begins(atsTbl[new], now)
           skip   == IF loaded THEN SkipPassed(atsStatus[new], atsTbl[new], now)
                               ELSE atsStatus[new]
           mark   == IF ok THEN "EXECUTED" ELSE "FAILED_DISTRIB"
           mid    == [atsStatus EXCEPT ![new] = skip]
           a      == atp.ats
           c      == atp.cmd
<1>1. atsStatus' = [mid EXCEPT ![a][c] = mark] /\ sent' = sent
  BY DEF InlineSwitch
<1>2. mark \in Status /\ mark # "LOADED"
  BY DEF Status
<1>3. new \in AtsIds => /\ skip \in [CmdNums -> Status]
                        /\ \A d \in CmdNums : skip[d] = "LOADED" => atsStatus[new][d] = "LOADED"
  BY SkipPassedKeeps DEF SentInv
<1> HIDE DEF new, skip, mark, a, c
<1>4. /\ mid \in [AtsIds -> [CmdNums -> Status]]
      /\ \A b \in AtsIds, d \in CmdNums : mid[b][d] = "LOADED" => atsStatus[b][d] = "LOADED"
  <2>1. CASE new \in AtsIds
    BY <1>3, <2>1 DEF SentInv
  <2>2. CASE new \notin AtsIds
    <3>1. mid = atsStatus
      BY <2>2 DEF SentInv
    <3> QED BY <3>1 DEF SentInv
  <2> QED BY <2>1, <2>2
<1> HIDE DEF mid
<1>5. Quiet
  BY <1>1, <1>2, <1>4 DEF Quiet
<1> QED BY <1>5, QuietStep

\* SC_JumpAtsCmd: a jump back does not make what was executed LOADED.
LEMMA JumpAtsSent == ASSUME NEW t, SentInv, JumpAts(t) PROVE SentInv'
<1> DEFINE a    == atp.ats
           tbl  == atsTbl[a]
           skip == [c \in CmdNums |->
                      IF c \in PassedCommands(tbl, t) /\ atsStatus[a][c] = "LOADED"
                      THEN "SKIPPED" ELSE atsStatus[a][c]]
<1>1. atsStatus' = [atsStatus EXCEPT ![a] = skip] /\ sent' = sent
  BY DEF JumpAts
<1>2. a \in AtsIds => /\ skip \in [CmdNums -> Status]
                      /\ \A d \in CmdNums : skip[d] = "LOADED" => atsStatus[a][d] = "LOADED"
  BY DEF SentInv, Status
<1> HIDE DEF a, skip
<1>3. Quiet
  BY <1>1, <1>2 DEF Quiet, SentInv
<1> QED BY <1>3, QuietStep

\* SC_ProcessAppend: a command that is replaced starts a new life, the
\* others keep theirs.
LEMMA AppendAtsSent == ASSUME NEW a \in AtsIds, SentInv, AppendAts(a) PROVE SentInv'
<1> DEFINE new    == DOMAIN appendTbl
           tbl    == [c \in new \cup DOMAIN atsTbl[a] |->
                        IF c \in new THEN appendTbl[c] ELSE atsTbl[a][c]]
           status == [c \in CmdNums |->
                        IF c \in new THEN "LOADED" ELSE atsStatus[a][c]]
           final  == IF Running(a) THEN SkipPassed(status, tbl, now) ELSE status
           count  == [c \in CmdNums |-> IF c \in new THEN 0 ELSE sent[a][c]]
<1>1. /\ atsStatus' = [atsStatus EXCEPT ![a] = final]
      /\ sent' = [sent EXCEPT ![a] = count]
  BY DEF AppendAts
<1>2. status \in [CmdNums -> Status] /\ count \in [CmdNums -> 0 .. 2]
  BY DEF SentInv, Status, Counts
<1>3. /\ final \in [CmdNums -> Status]
      /\ \A c \in CmdNums : final[c] = "LOADED" => status[c] = "LOADED"
  BY <1>2, SkipPassedKeeps
<1>4. \A c \in CmdNums : count[c] <= 1 /\ (status[c] = "LOADED" => count[c] = 0)
  BY DEF SentInv
<1> HIDE DEF final, count, status
<1> QED BY <1>1, <1>2, <1>3, <1>4 DEF SentInv, Counts

\* SC_LoadAts: every command of the table starts a new life.
LEMMA LoadAtsSent == ASSUME NEW a \in AtsIds, NEW tbl, SentInv, LoadAts(a, tbl) PROVE SentInv'
<1>1. /\ atsStatus' = [atsStatus EXCEPT ![a] =
           [c \in CmdNums |-> IF c \in DOMAIN tbl THEN "LOADED" ELSE "EMPTY"]]
      /\ sent' = [sent EXCEPT ![a] = [c \in CmdNums |-> 0]]
  BY DEF LoadAts
<1> QED BY <1>1 DEF SentInv, Counts, Status

\* Every other step leaves the counts and the status table alone.
LEMMA SentStep == SentInv /\ [Next]_vars => SentInv'
<1> SUFFICES ASSUME SentInv, [Next]_vars PROVE SentInv'
  OBVIOUS
<1>0. ASSUME UNCHANGED <<sent, atsStatus>> PROVE SentInv'
  BY <1>0 DEF SentInv
<1>1. CASE Tick \/ Wakeup \/ NoSwitch \/ DropSwitchPend \/ AtpPassOver \/ NothingDue
           \/ UpdateNextTime \/ UNCHANGED vars
  BY <1>0, <1>1 DEF Tick, Wakeup, NoSwitch, DropSwitchPend, AtpPassOver, NothingDue,
                    UpdateNextTime, vars, atsVars
<1>2. CASE Reset
  BY <1>2 DEF Reset, SentInv, Counts, Status, InitSent, InitStatus
<1>3. CASE ServiceSwitchPend
  <2> DEFINE new == OtherAts
  <2>1. /\ atsStatus' = [atsStatus EXCEPT ![new] =
             SkipPassed(@, atsTbl[new], ComputeAbsTime(now, 1))]
        /\ sent' = sent
    BY <1>3 DEF ServiceSwitchPend
  <2>2. CASE new \in AtsIds
    <3> HIDE DEF new
    <3>1. Quiet
      BY <2>1, <2>2, SkipIsQuiet
    <3> QED BY <3>1, QuietStep
  <2>3. CASE new \notin AtsIds
    <3> HIDE DEF new
    <3>1. atsStatus' = atsStatus
      BY <2>1, <2>3 DEF SentInv
    <3> QED BY <1>0, <2>1, <3>1
  <2> QED BY <2>2, <2>3
<1>4. ASSUME NEW ok \in BOOLEAN, AtpSend(ok) PROVE SentInv'
  BY <1>4, AtpSendSent
<1>5. ASSUME NEW ok \in BOOLEAN, RtpSend(ok) PROVE SentInv'
  BY <1>0, <1>5 DEF RtpSend, atsVars
<1>6. CASE InlineSwitch
  BY <1>6, InlineSwitchSent
<1>7. CASE AtsCommand
  <2>1. ASSUME NEW a \in AtsIds, StartAts(a) PROVE SentInv'
    <3>1. Quiet
      BY <2>1, SkipIsQuiet DEF StartAts
    <3> QED BY <3>1, QuietStep
  <2>2. ASSUME NEW a \in AtsIds, AppendAts(a) PROVE SentInv'
    BY <2>2, AppendAtsSent
  <2>3. ASSUME NEW a \in AtsIds, NEW tbl \in AtsLoads, LoadAts(a, tbl) PROVE SentInv'
    BY <2>3, LoadAtsSent
  <2>4. ASSUME NEW tbl \in AppendLoads, UpdateAppend(tbl) PROVE SentInv'
    BY <1>0, <2>4 DEF UpdateAppend
  <2>5. ASSUME NEW t \in JumpTimes, JumpAts(t) PROVE SentInv'
    BY <2>5, JumpAtsSent
  <2>6. CASE StopAts \/ GroundSwitch
    BY <1>0, <2>6 DEF StopAts, GroundSwitch
  <2> QED BY <1>7, <2>1, <2>2, <2>3, <2>4, <2>5, <2>6 DEF AtsCommand
<1>8. CASE RtsCommand
  <2>1. UNCHANGED atsVars
    BY <1>8 DEF RtsCommand, StartRts, StartRtsGrp, BeginRts, StopRts, StopRtsGrp,
                SetDisabled, LoadRts, SendHk, RtsRequest
  <2> QED BY <1>0, <2>1 DEF atsVars
<1> QED BY <1>1, <1>2, <1>3, <1>4, <1>5, <1>6, <1>7, <1>8 DEF Next, Loop

\* No ATS command is handed to the software bus twice for one load, with
\* any tables, any clock and any order of starts, stops, jumps, switches,
\* appends, loads and resets.
THEOREM NeverTwice == Spec => []AtMostOnce
<1>1. Init => SentInv
  BY DEF Init, SentInv, Counts, Status, InitSent, InitStatus
<1>2. SentInv /\ [Next]_vars => SentInv'
  BY SentStep
<1>3. SentInv => AtMostOnce
  BY DEF SentInv, AtMostOnce
<1> QED BY <1>1, <1>2, <1>3, PTL DEF Spec

----------------------------------------------------------------------------
(* The relative-time processor.                                            *)

RtsInfos == [status : RtsStates, disabled : BOOLEAN, next : Times, ptr : Nat]
Rtps     == [num : RtsIds \cup {0}, active : Nat, next : Times]

\* The part of TypeOK that the relative-time processor works on.
RtsType ==
  /\ now \in Times
  /\ rtsTbl \in [RtsIds -> Seq(Nat)]
  /\ rtsInfo \in [RtsIds -> RtsInfos]
  /\ rtp \in Rtps
  /\ autoStart \in RtsIds \cup {0}

\* The count of active RTS that SC_StartRtsCmd, SC_StartRtsGrpCmd and
\* SC_KillRts keep by hand.
Counted == ~ReloadExecuting => rtp.active = Cardinality(Executing)

\* SC_ComputeAbsTime stays within 32 bits.
LEMMA AbsTimeType ==
  ASSUME NEW t \in Times, NEW delay \in Nat
  PROVE  ComputeAbsTime(t, delay) \in Times
<1>1. t + delay \in Int /\ MaxTime + 1 \in Nat \ {0}
  BY TimeAssumption DEF Times
<1> DEFINE x == t + delay
           M == MaxTime + 1
<1>2. x % M \in 0 .. M - 1
  <2> HIDE DEF x, M
  <2> QED BY <1>1, SMT DEF x, M
<1> QED BY <1>2, TimeAssumption DEF ComputeAbsTime, Times

\* There are finitely many sequences, and as many executing.
LEMMA ExecutingFinite ==
  \A S : S \subseteq RtsIds => IsFiniteSet(S) /\ Cardinality(S) \in Nat
<1>1. IsFiniteSet(RtsIds)
  BY ScAssumption, FS_Interval DEF RtsIds
<1> QED BY <1>1, FS_Subset, FS_CardinalityType

\* SC_KillRts, one or a group: exactly the executing ones stop.
LEMMA KillRtsStep ==
  ASSUME RtsType, Counted, NEW R, KillRts(R)
  PROVE  /\ rtsInfo' \in [RtsIds -> RtsInfos] /\ rtp' \in Rtps
         /\ Executing' = Executing \ R
         /\ Counted'
<1> DEFINE K == R \cap Executing
           n == Cardinality(K)
<1>1. K \subseteq RtsIds /\ Executing \subseteq RtsIds
  BY DEF Executing
<1>2. n \in Nat /\ Cardinality(Executing) \in Nat /\ IsFiniteSet(K)
  BY <1>1, ExecutingFinite
<1>3. rtsInfo' = [r \in RtsIds |->
         IF r \in K THEN [rtsInfo[r] EXCEPT !.status = "LOADED", !.next = MaxTime]
                    ELSE rtsInfo[r]]
  BY DEF KillRts
<1>4. rtp' = [rtp EXCEPT !.active = IF @ > n THEN @ - n ELSE 0]
  BY DEF KillRts
<1>5. rtsInfo' \in [RtsIds -> RtsInfos]
  <2>1. MaxTime \in Times
    BY TimeAssumption DEF Times
  <2> HIDE DEF K
  <2> QED BY <1>3, <2>1 DEF RtsType, RtsInfos, RtsStates
<1>6. rtp' \in Rtps
  <2> DEFINE left == IF rtp.active > n THEN rtp.active - n ELSE 0
  <2>1. left \in Nat
    <3> HIDE DEF n
    <3> QED BY <1>2 DEF RtsType, Rtps
  <2>2. rtp' = [rtp EXCEPT !.active = left]
    BY <1>4
  <2> HIDE DEF left
  <2> QED BY <2>1, <2>2 DEF RtsType, Rtps
<1>7. Executing' = Executing \ R
  <2>1. \A r \in RtsIds : rtsInfo'[r].status =
          IF r \in K THEN "LOADED" ELSE rtsInfo[r].status
    BY <1>3 DEF RtsType, RtsInfos
  <2> QED BY <2>1 DEF Executing
<1>8. Counted'
  <2> SUFFICES ASSUME ~ReloadExecuting PROVE rtp'.active = Cardinality(Executing')
    BY DEF Counted
  <2>1. Executing = Executing' \cup K /\ Executing' \cap K = {}
    BY <1>7
  <2>2. IsFiniteSet(Executing') /\ Cardinality(Executing') \in Nat
    BY <1>1, <1>7, ExecutingFinite
  <2>3. Cardinality(Executing) = Cardinality(Executing') + n
    <3> HIDE DEF K
    <3>1. Cardinality(Executing) =
            Cardinality(Executing') + Cardinality(K) - Cardinality(Executing' \cap K)
      BY <1>2, <2>1, <2>2, FS_Union
    <3> QED BY <1>2, <2>1, <2>2, <3>1, FS_EmptySet
  <2>4. rtp'.active = IF rtp.active > n THEN rtp.active - n ELSE 0
    BY <1>4 DEF RtsType, Rtps
  <2> HIDE DEF n
  <2> QED BY <1>2, <2>2, <2>3, <2>4 DEF Counted
<1> QED BY <1>5, <1>6, <1>7, <1>8

\* What SC_GetNextRtsTime chooses is one of the executing sequences.
LEMMA NextRtsType ==
  ASSUME RtsType
  PROVE  /\ GetNextRtsTime \in Rtps
         /\ GetNextRtsTime.active = rtp.active
         /\ GetNextRtsTime.num # 0 =>
              /\ GetNextRtsTime.num \in Executing
              /\ GetNextRtsTime.next = rtsInfo[GetNextRtsTime.num].next
<1>1. MaxTime \in Times
  BY TimeAssumption DEF Times
<1>2. CASE Executing = {}
  BY <1>1, <1>2 DEF RtsType, Rtps, GetNextRtsTime
<1>3. CASE Executing # {}
  <2> DEFINE key == [r \in Executing |-> rtsInfo[r].next]
             Earliest(r) == \A q \in Executing :
               \/ rtsInfo[r].next < rtsInfo[q].next
               \/ rtsInfo[r].next = rtsInfo[q].next /\ r <= q
             first == CHOOSE r \in Executing : Earliest(r)
  <2>1. Executing \in SUBSET Nat /\ Executing \subseteq RtsIds
    BY ScAssumption DEF Executing, RtsIds
  <2>2. key \in [Executing -> Nat]
    BY <2>1, TimeAssumption DEF RtsType, RtsInfos, Times
  <2>3. \E r \in Executing : Earliest(r)
    <3>1. PICK r \in Executing : \A q \in Executing :
            key[r] < key[q] \/ (key[r] = key[q] /\ r <= q)
      <4> HIDE DEF key
      <4> QED BY <1>3, <2>1, <2>2, LeastKey
    <3> QED BY <3>1
  <2>4. first \in Executing
    <3> HIDE DEF Earliest
    <3> QED BY <2>3
  <2>5. GetNextRtsTime = [rtp EXCEPT !.num = first, !.next = rtsInfo[first].next]
    BY <1>3 DEF GetNextRtsTime
  <2> HIDE DEF first
  <2>6. rtsInfo[first].next \in Times
    BY <2>1, <2>4 DEF RtsType, RtsInfos
  <2> QED BY <2>1, <2>4, <2>5, <2>6 DEF RtsType, Rtps
<1> QED BY <1>2, <1>3

\* SC_StartRtsCmd, SC_StartRtsGrpCmd: what is started was not executing, so
\* it is counted once.
LEMMA BeginRtsStep ==
  ASSUME RtsType, Counted, NEW R \in SUBSET RtsIds, BeginRts(R)
  PROVE  RtsType' /\ Counted'
<1> DEFINE S == Startable(R)
           n == Cardinality(S)
<1>1. S \subseteq RtsIds /\ S \cap Executing = {}
  BY DEF Startable, Executing
<1>2. n \in Nat /\ IsFiniteSet(S) /\ IsFiniteSet(Executing)
      /\ Cardinality(Executing) \in Nat
  <2>1. Executing \subseteq RtsIds
    BY DEF Executing
  <2> QED BY <1>1, <2>1, ExecutingFinite
<1>3. \A r \in RtsIds : FirstDelay(r) \in Nat
  BY DEF RtsType, FirstDelay
<1>4. \A r \in RtsIds : ComputeAbsTime(now, FirstDelay(r)) \in Times
  <2> TAKE r \in RtsIds
  <2>1. now \in Times /\ FirstDelay(r) \in Nat
    BY <1>3 DEF RtsType
  <2> QED BY <2>1, AbsTimeType
<1>5. rtsInfo' = [r \in RtsIds |->
        IF r \in S
        THEN [rtsInfo[r] EXCEPT !.status = "EXECUTING", !.ptr = 1,
                                !.next = ComputeAbsTime(now, FirstDelay(r))]
        ELSE rtsInfo[r]]
  BY DEF BeginRts
<1>6. rtp' = [rtp EXCEPT !.active = rtp.active + n]
  BY DEF BeginRts
<1>7. UNCHANGED <<now, rtsTbl, autoStart>>
  BY DEF BeginRts, RtsRequest
<1> HIDE DEF S
<1>8. RtsType'
  <2>1. rtsInfo' \in [RtsIds -> RtsInfos]
    <3> DEFINE time(r) == ComputeAbsTime(now, FirstDelay(r))
    <3>1. \A r \in RtsIds : rtsInfo[r] \in RtsInfos /\ time(r) \in Times
      BY <1>4 DEF RtsType
    <3>2. rtsInfo' = [r \in RtsIds |->
            IF r \in S THEN [rtsInfo[r] EXCEPT !.status = "EXECUTING", !.ptr = 1,
                                               !.next = time(r)]
                       ELSE rtsInfo[r]]
      BY <1>5
    <3> HIDE DEF time
    <3> QED BY <3>1, <3>2 DEF RtsInfos, RtsStates
  <2>2. rtp' \in Rtps
    <3> DEFINE more == rtp.active + n
    <3>1. more \in Nat
      <4>1. n \in Nat /\ rtp.active \in Nat
        BY <1>2 DEF RtsType, Rtps
      <4> HIDE DEF n
      <4> QED BY <4>1
    <3>2. rtp' = [rtp EXCEPT !.active = more]
      BY <1>6
    <3> HIDE DEF more
    <3> QED BY <3>1, <3>2 DEF RtsType, Rtps
  <2> QED BY <1>7, <2>1, <2>2 DEF RtsType
<1>9. Executing' = Executing \cup S
  <2>1. \A r \in RtsIds : rtsInfo'[r].status =
          IF r \in S THEN "EXECUTING" ELSE rtsInfo[r].status
    BY <1>5 DEF RtsType, RtsInfos
  <2> QED BY <1>1, <2>1 DEF Executing
<1>10. Counted'
  <2> SUFFICES ASSUME ~ReloadExecuting PROVE rtp'.active = Cardinality(Executing')
    BY DEF Counted
  <2>1. Cardinality(Executing') = Cardinality(Executing) + n
    <3>1. Cardinality(Executing') =
            Cardinality(Executing) + n - Cardinality(Executing \cap S)
      BY <1>2, <1>9, FS_Union
    <3>2. Cardinality(Executing \cap S) = 0
      <4>1. Executing \cap S = {}
        BY <1>1
      <4> QED BY <4>1, FS_EmptySet
    <3>3. n \in Nat /\ Cardinality(Executing) \in Nat
      BY <1>2
    <3> HIDE DEF n
    <3> QED BY <3>1, <3>2, <3>3
  <2>2. rtp'.active = rtp.active + n
    <3> HIDE DEF n
    <3> QED BY <1>2, <1>6 DEF RtsType, Rtps
  <2> QED BY <2>1, <2>2 DEF Counted
<1> QED BY <1>8, <1>10

\* A step that leaves every status and the count alone.
LEMMA SameStatus ==
  ASSUME Counted, rtp'.active = rtp.active,
         \A r \in RtsIds : rtsInfo'[r].status = rtsInfo[r].status
  PROVE  Counted'
<1>1. Executing' = Executing
  BY DEF Executing
<1> QED BY <1>1 DEF Counted

\* SC_ProcessRtpCommand: on to the next command, or the end of the sequence.
LEMMA RtpSendStep ==
  ASSUME RtsType, Counted, NEW ok \in BOOLEAN, RtpSend(ok)
  PROVE  RtsType' /\ Counted'
<1> DEFINE r    == rtp.num
           next == rtsInfo[r].ptr + 1
           time == ComputeAbsTime(now, rtsTbl[r][next])
<1>1. r \in RtsIds /\ UNCHANGED <<now, rtsTbl, autoStart>>
  BY DEF RtpSend, RtpDue, Executing
<1>2. CASE ok /\ next \in DOMAIN rtsTbl[r]
  <2>1. rtsInfo' = [rtsInfo EXCEPT ![r].ptr = next, ![r].next = time]
        /\ UNCHANGED rtp
    BY <1>2 DEF RtpSend, GetNextRtsCommand
  <2>2. next \in Nat /\ time \in Times
    <3>1. rtsTbl[r] \in Seq(Nat)
      BY <1>1 DEF RtsType
    <3>2. next \in DOMAIN rtsTbl[r]
      BY <1>2
    <3>3. rtsTbl[r][next] \in Nat /\ next \in Nat
      <4> HIDE DEF r, next
      <4> QED BY <3>1, <3>2
    <3>4. now \in Times
      BY DEF RtsType
    <3> HIDE DEF next
    <3> QED BY <3>3, <3>4, AbsTimeType
  <2> HIDE DEF r, next, time
  <2>3. rtsInfo' \in [RtsIds -> RtsInfos]
    BY <1>1, <2>1, <2>2 DEF RtsType, RtsInfos
  <2>4. \A q \in RtsIds : rtsInfo'[q].status = rtsInfo[q].status
    BY <1>1, <2>1 DEF RtsType, RtsInfos
  <2>5. RtsType'
    BY <1>1, <2>1, <2>3 DEF RtsType
  <2> QED BY <2>1, <2>4, <2>5, SameStatus
<1>3. CASE ~(ok /\ next \in DOMAIN rtsTbl[r])
  <2>1. KillRts({r})
    BY <1>3 DEF RtpSend, GetNextRtsCommand
  <2> QED BY <1>1, <2>1, KillRtsStep DEF RtsType
<1> QED BY <1>2, <1>3

\* SC_LoadRts: a load over a sequence that is not executing.
LEMMA LoadRtsStep ==
  ASSUME RtsType, Counted, NEW r \in RtsIds, NEW tbl \in RtsLoads, LoadRts(r, tbl)
  PROVE  RtsType' /\ Counted'
<1> DEFINE new == [status |-> "LOADED", disabled |-> TRUE, next |-> 0, ptr |-> 1]
<1>1. /\ rtsTbl' = [rtsTbl EXCEPT ![r] = tbl]
      /\ rtsInfo' = [rtsInfo EXCEPT ![r] = new]
      /\ UNCHANGED <<now, rtp, autoStart>>
  BY DEF LoadRts, RtsRequest
<1>2. new \in RtsInfos /\ tbl \in Seq(Nat)
  BY TimeAssumption, LoadAssumption DEF RtsInfos, RtsStates, Times
<1>3. RtsType'
  <2> HIDE DEF new
  <2> QED BY <1>1, <1>2 DEF RtsType
<1>4. ASSUME ~ReloadExecuting PROVE Executing' = Executing
  <2>1. r \notin Executing
    BY <1>4 DEF LoadRts
  <2>2. \A q \in RtsIds : q # r => rtsInfo'[q] = rtsInfo[q]
    BY <1>1 DEF RtsType
  <2>3. rtsInfo'[r].status = "LOADED"
    BY <1>1 DEF RtsType
  <2> QED BY <2>1, <2>2, <2>3 DEF Executing
<1>5. Counted'
  BY <1>1, <1>4 DEF Counted
<1> QED BY <1>3, <1>5

\* Enabling and disabling, on request or by the automatic start.
LEMMA EnableStep ==
  ASSUME RtsType, Counted, NEW R, NEW d \in BOOLEAN, SetDisabled(R, d) \/ SendHk
  PROVE  RtsType' /\ Counted'
<1>1. /\ rtsInfo' \in [RtsIds -> RtsInfos]
      /\ \A r \in RtsIds : rtsInfo'[r].status = rtsInfo[r].status
  <2>1. CASE SetDisabled(R, d)
    BY <2>1 DEF SetDisabled, RtsType, RtsInfos
  <2>2. CASE SendHk
    BY <2>2 DEF SendHk, RtsType, RtsInfos
  <2> QED BY <2>1, <2>2
<1>2. UNCHANGED <<now, rtp, rtsTbl>> /\ autoStart' \in {autoStart, 0}
  BY DEF SetDisabled, SendHk, RtsRequest
<1>3. RtsType'
  BY <1>1, <1>2 DEF RtsType
<1> QED BY <1>1, <1>2, <1>3, SameStatus

\* Everything that does not touch the relative-time processor.
LEMMA NoRtsStep ==
  ASSUME RtsType, Counted, UNCHANGED rtsVars, now' \in Times
  PROVE  RtsType' /\ Counted'
BY DEF rtsVars, RtsType, Counted, Executing

CountInv == RtsType /\ Counted

\* SC_AppInit and SC_InitTables: no sequence executes and none is counted.
LEMMA ResetCounts ==
  ASSUME now' \in Times, rtp' = InitRtp, rtsTbl' = [r \in RtsIds |-> <<>>],
         rtsInfo' = [r \in RtsIds |-> InitRtsInfo], autoStart' = AutoStart
  PROVE  CountInv'
<1>1. MaxTime \in Times
  BY TimeAssumption DEF Times
<1>2. RtsType'
  BY <1>1, ScAssumption DEF RtsType, RtsInfos, RtsStates, Rtps, InitRtp, InitRtsInfo
<1>3. Executing' = {}
  BY DEF Executing, InitRtsInfo
<1>4. rtp'.active = Cardinality(Executing')
  BY <1>3, FS_EmptySet DEF InitRtp
<1> QED BY <1>2, <1>4 DEF CountInv, Counted

\* The same for the first state.
LEMMA InitCounts == Init => CountInv
<1> SUFFICES ASSUME Init PROVE CountInv
  OBVIOUS
<1>1. MaxTime \in Times /\ 0 \in Times
  BY TimeAssumption DEF Times
<1>2. RtsType
  BY <1>1, ScAssumption
  DEF Init, RtsType, RtsInfos, RtsStates, Rtps, InitRtp, InitRtsInfo
<1>3. Executing = {}
  BY DEF Init, Executing, InitRtsInfo
<1>4. rtp.active = Cardinality(Executing)
  BY <1>3, FS_EmptySet DEF Init, InitRtp
<1> QED BY <1>2, <1>4 DEF CountInv, Counted

\* Each request and each pass of the loop keeps the count.
LEMMA CountStep == CountInv /\ [Next]_vars => CountInv'
<1> SUFFICES ASSUME CountInv, [Next]_vars PROVE CountInv'
  OBVIOUS
<1> USE DEF CountInv
<1>1. now \in Times
  BY DEF RtsType
<1>2. CASE UNCHANGED <<now, rtsVars>>
  BY <1>1, <1>2, NoRtsStep
<1>3. CASE Tick
  <2>1. now' \in Times
    BY <1>1, <1>3, TimeAssumption, ScAssumption DEF Tick, Times
  <2> QED BY <1>3, <2>1, NoRtsStep DEF Tick
<1>4. CASE Reset
  BY <1>1, <1>4, ResetCounts DEF Reset
<1>5. CASE Wakeup \/ ServiceSwitchPend \/ DropSwitchPend \/ NoSwitch
           \/ InlineSwitch \/ AtpPassOver \/ NothingDue
  BY <1>2, <1>5 DEF Wakeup, ServiceSwitchPend, DropSwitchPend, NoSwitch,
                    InlineSwitch, AtpPassOver, NothingDue
<1>6. ASSUME NEW ok \in BOOLEAN, AtpSend(ok) PROVE CountInv'
  BY <1>2, <1>6 DEF AtpSend
<1>7. ASSUME NEW ok \in BOOLEAN, RtpSend(ok) PROVE CountInv'
  BY <1>7, RtpSendStep
<1>8. CASE UpdateNextTime
  <2>1. rtp' = GetNextRtsTime /\ UNCHANGED <<now, rtsTbl, rtsInfo, autoStart>>
    BY <1>8 DEF UpdateNextTime
  <2>2. rtp' \in Rtps /\ rtp'.active = rtp.active
    BY <2>1, NextRtsType
  <2>3. RtsType'
    BY <2>1, <2>2 DEF RtsType
  <2> QED BY <2>1, <2>2, <2>3, SameStatus
<1>9. CASE AtsCommand
  BY <1>2, <1>9 DEF AtsCommand, StartAts, AppendAts, LoadAts, UpdateAppend, JumpAts,
                    StopAts, GroundSwitch, AtsRequest
<1>10. ASSUME NEW R \in SUBSET RtsIds, BeginRts(R) PROVE CountInv'
  BY <1>10, BeginRtsStep
<1>11. ASSUME NEW R \in SUBSET RtsIds, RtsRequest, KillRts(R),
              UNCHANGED <<rtsTbl, autoStart>>
       PROVE  CountInv'
  BY <1>11, KillRtsStep DEF RtsRequest, RtsType
<1>12. CASE RtsCommand
  <2>1. \A f, l \in RtsIds : f .. l \in SUBSET RtsIds
    BY ScAssumption DEF RtsIds
  <2>2. ASSUME NEW r \in RtsIds, StartRts(r) \/ StopRts(r) PROVE CountInv'
    BY <1>10, <1>11, <2>2 DEF StartRts, StopRts
  <2>3. ASSUME NEW f \in RtsIds, NEW l \in RtsIds,
               StartRtsGrp(f, l) \/ StopRtsGrp(f, l)
        PROVE  CountInv'
    BY <1>10, <1>11, <2>1, <2>3 DEF StartRtsGrp, StopRtsGrp
  <2>4. ASSUME NEW f \in RtsIds, NEW l \in RtsIds, NEW d \in BOOLEAN,
               SetDisabled(f .. l, d)
        PROVE  CountInv'
    BY <2>4, EnableStep
  <2>5. ASSUME NEW r \in RtsIds, NEW tbl \in RtsLoads, LoadRts(r, tbl)
        PROVE  CountInv'
    BY <2>5, LoadRtsStep
  <2>6. CASE SendHk
    <3>1. TRUE \in BOOLEAN
      OBVIOUS
    <3> QED BY <2>6, <3>1, EnableStep
  <2> QED BY <1>12, <2>2, <2>3, <2>4, <2>5, <2>6 DEF RtsCommand
<1>13. CASE UNCHANGED vars
  BY <1>2, <1>13 DEF vars
<1> QED BY <1>3, <1>4, <1>5, <1>6, <1>7, <1>8, <1>9, <1>12, <1>13 DEF Next, Loop

\* NumRtsActive is the number of RTS that execute, whatever starts, stops,
\* group commands, completions, failures and resets happened, as long as
\* nothing is loaded over an executing RTS.
THEOREM ActiveCounted == Spec => []ActiveCount
<1>1. CountInv => ActiveCount
  BY DEF CountInv, Counted, ActiveCount
<1> QED BY <1>1, InitCounts, CountStep, PTL DEF Spec

----------------------------------------------------------------------------
(* The time cached for the relative-time processor.                        *)

\* When the loop looks at the RTP, the cached time is the time of the sequence
\* it was cached for, unless that sequence was started again since: then its
\* first command is next.
CachedTime ==
  pc \in {"idle", "switch", "process"} /\ rtp.num \in Executing
    /\ rtsInfo[rtp.num].ptr > 1
      => rtp.next = rtsInfo[rtp.num].next

\* What is sent is due, while it is remembered.
SentOnTime == out.proc = "RTP" /\ out.pos > 1 => out.due \in Times /\ out.due <= now

TimeInv == RtsType /\ CachedTime /\ SentOnTime

\* A request that leaves the cached time and the message of the loop alone,
\* and every sequence that executes or puts it at its first command.
LEMMA RequestTime ==
  ASSUME TimeInv, RtsRequest, RtsType',
         rtp'.num = rtp.num, rtp'.next = rtp.next,
         \A r \in RtsIds : rtsInfo'[r].status = "EXECUTING" =>
           \/ rtsInfo'[r].ptr = 1
           \/ /\ rtsInfo[r].status = "EXECUTING"
              /\ rtsInfo'[r].ptr = rtsInfo[r].ptr
              /\ rtsInfo'[r].next = rtsInfo[r].next
  PROVE  TimeInv'
<1>1. UNCHANGED <<pc, out, now>> /\ pc = "idle"
  BY DEF RtsRequest, loopVars
<1>2. CachedTime'
  BY <1>1 DEF TimeInv, CachedTime, Executing
<1>3. SentOnTime'
  BY <1>1 DEF TimeInv, SentOnTime
<1> QED BY <1>2, <1>3 DEF TimeInv

\* A step of the loop, or of the clock, that leaves the RTP alone.
LEMMA LoopTime ==
  ASSUME TimeInv, UNCHANGED rtsVars, now' \in Times, now <= now',
         pc' \in {"idle", "switch", "process"} => pc \in {"idle", "switch", "process"},
         out' = out \/ out'.proc # "RTP"
  PROVE  TimeInv'
<1>1. RtsType' /\ CachedTime'
  BY DEF TimeInv, RtsType, CachedTime, Executing, rtsVars
<1>2. now \in Int /\ now' \in Int /\ Times \subseteq Int
  BY DEF TimeInv, RtsType, Times
<1>3. SentOnTime'
  <2>1. CASE out' = out
    <3>1. \A d \in Times : d <= now => d <= now'
      BY <1>2
    <3> QED BY <2>1, <3>1 DEF TimeInv, SentOnTime
  <2>2. CASE out'.proc # "RTP"
    BY <2>2 DEF SentOnTime
  <2> QED BY <2>1, <2>2
<1> QED BY <1>1, <1>3 DEF TimeInv

\* SC_ProcessRtpCommand trusts the cached time, which is that of the command.
LEMMA RtpSendTime ==
  ASSUME TimeInv, RtsType', NEW ok \in BOOLEAN, RtpSend(ok)
  PROVE  TimeInv'
<1> DEFINE r == rtp.num
<1>1. /\ pc = "process" /\ pc' = "update" /\ now' = now
      /\ r \in Executing /\ r \in RtsIds /\ rtp.next <= now
      /\ out' = [proc |-> "RTP", kind |-> "rts", pos |-> rtsInfo[r].ptr,
                 due |-> rtsInfo[r].next]
  BY DEF RtpSend, RtpDue, Executing
<1>2. rtsInfo[r].ptr > 1 => rtsInfo[r].next <= now
  BY <1>1 DEF TimeInv, CachedTime
<1>3. rtsInfo[r].next \in Times
  BY <1>1 DEF TimeInv, RtsType, RtsInfos
<1>4. SentOnTime'
  BY <1>1, <1>2, <1>3 DEF SentOnTime
<1>5. CachedTime'
  BY <1>1 DEF CachedTime
<1> QED BY <1>4, <1>5 DEF TimeInv

\* The requests that start, stop, load, enable and disable sequences.
LEMMA RtsCommandTime ==
  ASSUME TimeInv, RtsCommand, RtsType'
  PROVE  TimeInv'
<1> USE DEF TimeInv, RtsType, RtsInfos, Rtps
<1>1. ASSUME NEW R \in SUBSET RtsIds, BeginRts(R) PROVE TimeInv'
  <2>1. \A r \in RtsIds : rtsInfo'[r].status = "EXECUTING" =>
          \/ rtsInfo'[r].ptr = 1
          \/ rtsInfo'[r] = rtsInfo[r]
    BY <1>1 DEF BeginRts
  <2>2. rtp'.num = rtp.num /\ rtp'.next = rtp.next /\ RtsRequest
    BY <1>1 DEF BeginRts
  <2> QED BY <2>1, <2>2, RequestTime
<1>2. ASSUME NEW R \in SUBSET RtsIds, RtsRequest, KillRts(R) PROVE TimeInv'
  <2>1. \A r \in RtsIds : rtsInfo'[r].status = "EXECUTING" => rtsInfo'[r] = rtsInfo[r]
    BY <1>2 DEF KillRts
  <2>2. rtp'.num = rtp.num /\ rtp'.next = rtp.next
    BY <1>2 DEF KillRts
  <2> QED BY <1>2, <2>1, <2>2, RequestTime
<1>3. ASSUME NEW R, NEW d \in BOOLEAN, SetDisabled(R, d) PROVE TimeInv'
  <2>1. \A r \in RtsIds : /\ rtsInfo'[r].status = rtsInfo[r].status
                          /\ rtsInfo'[r].ptr = rtsInfo[r].ptr
                          /\ rtsInfo'[r].next = rtsInfo[r].next
    BY <1>3 DEF SetDisabled
  <2> QED BY <1>3, <2>1, RequestTime DEF SetDisabled
<1>4. ASSUME NEW q \in RtsIds, NEW tbl \in RtsLoads, LoadRts(q, tbl) PROVE TimeInv'
  <2>1. \A r \in RtsIds : rtsInfo'[r].status = "EXECUTING" => rtsInfo'[r] = rtsInfo[r]
    BY <1>4 DEF LoadRts
  <2> QED BY <1>4, <2>1, RequestTime DEF LoadRts
<1>5. CASE SendHk
  <2>1. \A r \in RtsIds : /\ rtsInfo'[r].status = rtsInfo[r].status
                          /\ rtsInfo'[r].ptr = rtsInfo[r].ptr
                          /\ rtsInfo'[r].next = rtsInfo[r].next
    BY <1>5 DEF SendHk
  <2> QED BY <1>5, <2>1, RequestTime DEF SendHk
<1>6. \A f, l \in RtsIds : f .. l \in SUBSET RtsIds
  BY ScAssumption DEF RtsIds
<1>7. ASSUME NEW r \in RtsIds, StartRts(r) \/ StopRts(r) PROVE TimeInv'
  BY <1>1, <1>2, <1>7 DEF StartRts, StopRts
<1>8. ASSUME NEW f \in RtsIds, NEW l \in RtsIds, StartRtsGrp(f, l) \/ StopRtsGrp(f, l)
      PROVE  TimeInv'
  BY <1>1, <1>2, <1>6, <1>8 DEF StartRtsGrp, StopRtsGrp
<1> QED BY <1>3, <1>4, <1>5, <1>7, <1>8 DEF RtsCommand

\* Each step keeps the cached time and sends on time.
LEMMA TimeStep == TimeInv /\ RtsType' /\ [Next]_vars => TimeInv'
<1> SUFFICES ASSUME TimeInv, RtsType', [Next]_vars PROVE TimeInv'
  OBVIOUS
<1>1. now \in Times /\ now' \in Times /\ now <= now
  BY DEF TimeInv, RtsType, Times
<1>2. CASE Tick
  <2>1. now <= now' /\ UNCHANGED <<pc, out, rtsVars>>
    BY <1>1, <1>2 DEF Tick, Times, loopVars
  <2> QED BY <1>1, <2>1, LoopTime
<1>3. CASE Reset
  <2>1. rtp'.num = 0 /\ out'.proc = "NONE"
    BY <1>3 DEF Reset, InitRtp, NoMsg
  <2>2. 0 \notin Executing'
    BY ScAssumption DEF Executing, RtsIds
  <2> QED BY <2>1, <2>2 DEF TimeInv, CachedTime, SentOnTime
<1>4. CASE Wakeup \/ ServiceSwitchPend \/ DropSwitchPend \/ NoSwitch
           \/ InlineSwitch \/ AtpPassOver \/ NothingDue
  <2>1. UNCHANGED <<now, out, rtsVars>>
    BY <1>4 DEF Wakeup, ServiceSwitchPend, DropSwitchPend, NoSwitch,
                InlineSwitch, AtpPassOver, NothingDue
  <2>2. pc \in {"idle", "switch", "process"}
    BY <1>4 DEF Wakeup, ServiceSwitchPend, DropSwitchPend, NoSwitch,
                InlineSwitch, AtpPassOver, AtpDue, NothingDue
  <2> QED BY <1>1, <2>1, <2>2, LoopTime
<1>5. ASSUME NEW ok \in BOOLEAN, AtpSend(ok) PROVE TimeInv'
  <2>1. UNCHANGED <<now, rtsVars>> /\ out'.proc = "ATP" /\ pc' = "update"
    BY <1>5 DEF AtpSend
  <2> QED BY <1>1, <2>1, LoopTime
<1>6. ASSUME NEW ok \in BOOLEAN, RtpSend(ok) PROVE TimeInv'
  BY <1>6, RtpSendTime
<1>7. CASE UpdateNextTime
  <2>1. /\ rtp' = GetNextRtsTime /\ out'.proc = "NONE"
        /\ UNCHANGED <<now, rtsInfo>>
    BY <1>7 DEF UpdateNextTime, NoMsg
  <2>2. rtp'.num # 0 => rtp'.next = rtsInfo[rtp'.num].next
    BY <2>1, NextRtsType DEF TimeInv
  <2>3. 0 \notin Executing'
    BY ScAssumption DEF Executing, RtsIds
  <2>4. CachedTime'
    BY <2>1, <2>2, <2>3 DEF CachedTime
  <2> QED BY <2>1, <2>4 DEF TimeInv, SentOnTime
<1>8. CASE AtsCommand
  <2>1. UNCHANGED <<now, pc, out, rtsVars>>
    BY <1>8 DEF AtsCommand, StartAts, AppendAts, LoadAts, UpdateAppend, JumpAts,
                StopAts, GroundSwitch, AtsRequest, loopVars
  <2> QED BY <1>1, <2>1, LoopTime
<1>9. CASE RtsCommand
  BY <1>9, RtsCommandTime
<1>10. CASE UNCHANGED vars
  <2>1. UNCHANGED <<now, pc, out, rtsVars>>
    BY <1>10 DEF vars, loopVars
  <2> QED BY <1>1, <2>1, LoopTime
<1> QED BY <1>2, <1>3, <1>4, <1>5, <1>6, <1>7, <1>8, <1>9, <1>10 DEF Next, Loop

\* No RTS command after the first goes out before its time, although
\* SC_ProcessRtpCommand decides on what SC_UpdateNextTime cached at the last
\* wakeup and any request may have come since.
THEOREM RtsOnTime == Spec => []RtsNotEarly
<1>1. Init => CountInv /\ TimeInv
  <2> SUFFICES ASSUME Init PROVE CountInv /\ TimeInv
    OBVIOUS
  <2>1. CountInv /\ rtp.num = 0 /\ out.proc = "NONE"
    BY InitCounts DEF Init, InitRtp, NoMsg
  <2>2. 0 \notin Executing
    BY ScAssumption DEF Executing, RtsIds
  <2> QED BY <2>1, <2>2 DEF CountInv, TimeInv, CachedTime, SentOnTime
<1>2. CountInv /\ TimeInv /\ [Next]_vars => (CountInv /\ TimeInv)'
  BY CountStep, TimeStep DEF CountInv
<1>3. TimeInv => RtsNotEarly
  BY DEF TimeInv, SentOnTime, RtsNotEarly
<1> QED BY <1>1, <1>2, <1>3, PTL DEF Spec

----------------------------------------------------------------------------
(* The absolute-time processor: types.                                     *)

AtpStates == {"IDLE", "STARTING", "EXECUTING"}
Atps == [state : AtpStates, ats : AtsIds \cup {0}, cmd : CmdNums \cup {0},
         ptr : Nat, pend : BOOLEAN, next : Times]

\* A command that is LOADED is in its table.
InTable(status, tbl) == \A c \in CmdNums : status[c] = "LOADED" => c \in DOMAIN tbl

\* The control block of an ATS that runs points at a command.
Points(p) == p.state = "EXECUTING" => p.ats \in AtsIds /\ p.cmd \in CmdNums

\* The part of TypeOK that the absolute-time processor works on.
AtsType ==
  /\ atp \in Atps /\ atp.state # "STARTING" /\ Points(atp)
  /\ atsTbl \in [AtsIds -> AtsTables] /\ appendTbl \in AtsTables
  /\ atsStatus \in [AtsIds -> [CmdNums -> Status]]
  /\ \A a \in AtsIds : InTable(atsStatus[a], atsTbl[a])
  /\ atsSize \in [AtsIds -> 0 .. AtsBuffSize]

\* What SC_BeginAts makes of the control block: it points at the first command
\* that is not past, or the ATP is stopped.
Placed(p, tbl) ==
  /\ p.ptr \in 1 .. NumCommands(tbl)
  /\ p.cmd = BuildTimeIndexTable(tbl)[p.ptr] /\ p.cmd \in DOMAIN tbl
  /\ p.next = tbl[p.cmd].time

\* The control block pointed at a place of the time index.
LEMMA PointAtIs ==
  ASSUME NEW p \in Atps, NEW a \in AtsIds, NEW tbl \in AtsTables,
         NEW i \in 1 .. NumCommands(tbl)
  PROVE  LET q == PointAt(p, a, tbl, i)
         IN  /\ q \in Atps /\ q.state = p.state /\ q.pend = p.pend
             /\ q.ats = a /\ q.ptr = i /\ q.cmd \in CmdNums /\ Placed(q, tbl)
<1> DEFINE c == BuildTimeIndexTable(tbl)[i]
<1>1. c \in DOMAIN tbl /\ i \in Nat
  BY IndexLength
<1>2. c \in CmdNums /\ tbl[c].time \in Times
  BY <1>1 DEF AtsTables, AtsEntries
<1> DEFINE q == PointAt(p, a, tbl, i)
<1>3. q = [p EXCEPT !.ats = a, !.cmd = c, !.ptr = i, !.next = tbl[c].time]
  BY DEF PointAt
<1> HIDE DEF c, q
<1>4. /\ q \in Atps /\ q.state = p.state /\ q.pend = p.pend
      /\ q.ats = a /\ q.ptr = i /\ q.cmd = c /\ q.next = tbl[c].time
  BY <1>1, <1>2, <1>3 DEF Atps
<1> QED  BY <1>1, <1>2, <1>4 DEF Placed, c, q

\* SC_BeginAts begins at the first command that is not past, or stops the ATP.
LEMMA BeginAtsIs ==
  ASSUME NEW p \in Atps, NEW a \in AtsIds, NEW tbl \in AtsTables, NEW t,
         NEW state \in AtpStates
  PROVE  LET q == BeginAts(p, a, tbl, t, state)
         IN  /\ q \in Atps /\ q.pend = p.pend
             /\ \/ ~Begins(tbl, t) /\ q.state = "IDLE" /\ q.ats = p.ats
                \/ /\ Begins(tbl, t) /\ q.state = state
                   /\ q.ats = a /\ q.cmd \in CmdNums /\ Placed(q, tbl)
                   /\ q.ptr = Passed(tbl, t) + 1 /\ ~Later(t, q.next)
<1> DEFINE q == BeginAts(p, a, tbl, t, state)
           n == Passed(tbl, t)
           r == PointAt(p, a, tbl, n + 1)
<1>1. CASE Begins(tbl, t)
  <2>1. n \in 0 .. NumCommands(tbl) /\ NumCommands(tbl) \in Nat /\ n < NumCommands(tbl)
    BY <1>1, PassedIs, IndexLength DEF Begins
  <2>2. n + 1 \in 1 .. NumCommands(tbl)
    BY <2>1
  <2>3. ~Later(t, tbl[BuildTimeIndexTable(tbl)[n + 1]].time)
    BY <2>1, PassedIs
  <2> HIDE DEF n
  <2>4. /\ r \in Atps /\ r.pend = p.pend
        /\ r.ats = a /\ r.ptr = n + 1 /\ r.cmd \in CmdNums /\ Placed(r, tbl)
    BY <2>2, PointAtIs
  <2>5. q = [r EXCEPT !.state = state]
    BY <1>1 DEF BeginAts, n
  <2> HIDE DEF q, r
  <2>6. /\ q \in Atps /\ q.state = state /\ q.pend = r.pend /\ q.ats = r.ats
        /\ q.ptr = r.ptr /\ q.cmd = r.cmd /\ q.next = r.next
    BY <2>4, <2>5 DEF Atps
  <2>7. Placed(q, tbl) /\ ~Later(t, q.next)
    BY <2>3, <2>4, <2>6 DEF Placed
  <2> QED  BY <1>1, <2>4, <2>6, <2>7 DEF n, q
<1>2. CASE ~Begins(tbl, t)
  <2>1. q = [p EXCEPT !.state = "IDLE", !.next = MaxTime]
    BY <1>2 DEF BeginAts, KillAts
  <2>2. MaxTime \in Times
    BY TimeAssumption DEF Times
  <2> HIDE DEF q
  <2>3. q \in Atps /\ q.state = "IDLE" /\ q.ats = p.ats /\ q.pend = p.pend
    BY <2>1, <2>2 DEF Atps, AtpStates
  <2> QED  BY <1>2, <2>3 DEF q
<1> QED  BY <1>1, <1>2

\* SC_KillAts stops the ATP and leaves it at its ATS.
LEMMA KillAtsIs ==
  ASSUME NEW p \in Atps
  PROVE  /\ KillAts(p) \in Atps /\ KillAts(p).state = "IDLE"
         /\ KillAts(p).ats = p.ats /\ KillAts(p).pend = p.pend
         /\ CancelAts(p) \in Atps /\ CancelAts(p).state = "IDLE" /\ ~CancelAts(p).pend
         /\ CancelAts(p).ats = p.ats
<1>1. MaxTime \in Times
  BY TimeAssumption DEF Times
<1> QED  BY <1>1 DEF KillAts, CancelAts, Atps, AtpStates

\* SC_GetNextAtsCommand on an ATS that runs: the next command, or the end.
LEMMA GetNextIs ==
  ASSUME AtsType, NEW p \in Atps, p.state = "EXECUTING", p.ats \in AtsIds
  PROVE  LET q == GetNextAtsCommand(p)
         IN  /\ q \in Atps
             /\ \/ q.state = "IDLE"
                \/ /\ q.state = "EXECUTING" /\ q.ats = p.ats /\ q.cmd \in CmdNums
                   /\ Placed(q, atsTbl[p.ats]) /\ q.ptr = p.ptr + 1
<1> DEFINE q == GetNextAtsCommand(p)
           tbl == atsTbl[p.ats]
<1>1. tbl \in AtsTables
  BY DEF AtsType
<1>2. p.ptr \in Nat /\ NumCommands(tbl) \in Nat
  BY <1>1, IndexLength DEF Atps
<1>3. CASE p.ptr < NumCommands(tbl)
  <2>1. p.ptr + 1 \in 1 .. NumCommands(tbl)
    BY <1>2, <1>3
  <2>2. q = PointAt(p, p.ats, tbl, p.ptr + 1)
    BY <1>3 DEF GetNextAtsCommand
  <2> HIDE DEF q, tbl
  <2>3. /\ q \in Atps /\ q.state = p.state /\ q.ats = p.ats
        /\ q.ptr = p.ptr + 1 /\ q.cmd \in CmdNums /\ Placed(q, tbl)
    BY <1>1, <2>1, <2>2, PointAtIs
  <2> QED  BY <2>3 DEF q, tbl
<1>4. CASE ~(p.ptr < NumCommands(tbl))
  <2>1. q = CancelAts(p)
    BY <1>4 DEF GetNextAtsCommand
  <2> QED  BY <2>1, KillAtsIs
<1> QED  BY <1>3, <1>4

----------------------------------------------------------------------------
(* The absolute-time processor: order.                                     *)

\* Nothing that waits comes before the command that is next.
Waiting(p, tbl, status) ==
  \A c \in DOMAIN tbl : status[c] = "LOADED" =>
    tbl[c].time > p.next \/ (tbl[c].time = p.next /\ c >= p.cmd)

InOrder(p, tbls, statuses) ==
  p.state = "EXECUTING" =>
    Placed(p, tbls[p.ats]) /\ Waiting(p, tbls[p.ats], statuses[p.ats])

NearTables == (\A a \in AtsIds : NearTimes(atsTbl[a])) /\ NearTimes(appendTbl)

OrderInv ==
  /\ AtsType /\ NearTables
  /\ ~ReloadExecuting => InOrder(atp, atsTbl, atsStatus)

\* A command at the place of the control block or behind it comes no earlier; one
\* ahead of it comes earlier.
LEMMA PlaceOrder ==
  ASSUME NEW tbl \in AtsTables, NearTimes(tbl), NEW p, Placed(p, tbl),
         NEW i \in 1 .. NumCommands(tbl), NEW c, c = BuildTimeIndexTable(tbl)[i]
  PROVE  /\ i >= p.ptr =>
              tbl[c].time > p.next \/ (tbl[c].time = p.next /\ c >= p.cmd)
         /\ i < p.ptr =>
              ~(tbl[c].time > p.next \/ (tbl[c].time = p.next /\ c >= p.cmd))
         /\ i = p.ptr <=> c = p.cmd
<1> DEFINE list == BuildTimeIndexTable(tbl)
<1>1. Ordered(tbl, list) /\ Len(list) = NumCommands(tbl) /\ NumCommands(tbl) \in Nat
  BY TimeIndex, IndexLength
<1>2. /\ c = list[i] /\ c \in DOMAIN tbl
      /\ p.cmd = list[p.ptr] /\ p.cmd \in DOMAIN tbl /\ p.next = tbl[p.cmd].time
      /\ p.ptr \in 1 .. NumCommands(tbl)
  BY IndexLength DEF Placed
<1>3. \A j, k \in 1 .. NumCommands(tbl) : list[j] = list[k] => j = k
  BY <1>1, TimeIndex DEF Enumerates
<1>4. \A d \in DOMAIN tbl : d \in Int /\ tbl[d].time \in Int
  BY DEF AtsTables, AtsEntries, CmdNums, Times
<1> HIDE DEF list
<1>5. CASE i = p.ptr
  BY <1>2, <1>4, <1>5
<1>6. CASE i < p.ptr
  <2>1. Before(tbl, c, p.cmd) /\ i # p.ptr /\ ~(i >= p.ptr)
    BY <1>1, <1>2, <1>6 DEF Ordered
  <2> QED  BY <1>2, <1>3, <1>4, <1>6, <2>1 DEF Before
<1>7. CASE i > p.ptr
  <2>1. Before(tbl, p.cmd, c) /\ i # p.ptr /\ ~(i < p.ptr)
    BY <1>1, <1>2, <1>7 DEF Ordered
  <2> QED  BY <1>2, <1>3, <1>4, <1>7, <2>1 DEF Before
<1> QED  BY <1>2, <1>5, <1>6, <1>7

\* A start, a jump, an append or a switch: what it passes over is not LOADED.
LEMMA BeginWaiting ==
  ASSUME NEW tbl \in AtsTables, NearTimes(tbl), NEW p, Placed(p, tbl), NEW t,
         p.ptr = Passed(tbl, t) + 1, NEW status,
         \A c \in PassedCommands(tbl, t) : status[c] # "LOADED"
  PROVE  Waiting(p, tbl, status)
<1> SUFFICES ASSUME NEW c \in DOMAIN tbl, status[c] = "LOADED"
             PROVE  tbl[c].time > p.next \/ (tbl[c].time = p.next /\ c >= p.cmd)
  BY DEF Waiting
<1>1. PICK i \in Passed(tbl, t) + 1 .. NumCommands(tbl) : BuildTimeIndexTable(tbl)[i] = c
  BY NotPassed
<1>2. i \in 1 .. NumCommands(tbl) /\ i >= p.ptr
  BY PassedIs, IndexLength
<1> QED  BY <1>1, <1>2, PlaceOrder

\* The next command, when the one before no longer waits.
LEMMA NextWaiting ==
  ASSUME NEW tbl \in AtsTables, NearTimes(tbl), NEW p, Placed(p, tbl), NEW q, Placed(q, tbl),
         q.ptr = p.ptr + 1, NEW status, Waiting(p, tbl, status), NEW new,
         \A c \in DOMAIN tbl : new[c] = "LOADED" => status[c] = "LOADED" /\ c # p.cmd
  PROVE  Waiting(q, tbl, new)
<1> SUFFICES ASSUME NEW c \in DOMAIN tbl, new[c] = "LOADED"
             PROVE  tbl[c].time > q.next \/ (tbl[c].time = q.next /\ c >= q.cmd)
  BY DEF Waiting
<1>1. PICK i \in 1 .. NumCommands(tbl) : BuildTimeIndexTable(tbl)[i] = c
  BY TimeIndex, IndexLength DEF Enumerates
<1>2. /\ tbl[c].time > p.next \/ (tbl[c].time = p.next /\ c >= p.cmd)
      /\ c # p.cmd
  BY DEF Waiting
<1>3. ~(i < p.ptr) /\ i # p.ptr
  BY <1>1, <1>2, PlaceOrder
<1>4. i >= q.ptr
  <2>1. p.ptr \in Int
    BY IndexLength DEF Placed
  <2> QED  BY <1>3, <2>1
<1> QED  BY <1>1, <1>4, PlaceOrder

\* Statuses of which no more are LOADED than before.
NoneLoaded(new, old) ==
  /\ new \in [AtsIds -> [CmdNums -> Status]]
  /\ \A a \in AtsIds, c \in CmdNums : new[a][c] = "LOADED" => old[a][c] = "LOADED"

\* A step that loads nothing, and what has to be shown of it.
LEMMA OrderKept ==
  ASSUME OrderInv, UNCHANGED <<atsTbl, appendTbl, atsSize>>,
         NoneLoaded(atsStatus', atsStatus),
         atp' \in Atps, atp'.state # "STARTING", Points(atp'),
         ~ReloadExecuting => InOrder(atp', atsTbl, atsStatus')
  PROVE  OrderInv'
<1>1. AtsType'
  BY DEF OrderInv, AtsType, NoneLoaded, InTable
<1>2. NearTables'
  BY DEF OrderInv, NearTables
<1> QED  BY <1>1, <1>2 DEF OrderInv

\* A step that leaves the position and the statuses alone.
LEMMA OrderSame ==
  ASSUME OrderInv, UNCHANGED <<atsTbl, appendTbl, atsSize, atsStatus>>,
         NEW pend \in BOOLEAN, atp' = [atp EXCEPT !.pend = pend]
  PROVE  OrderInv'
<1>1. /\ atp' \in Atps /\ atp'.state = atp.state /\ atp'.ats = atp.ats /\ atp'.cmd = atp.cmd
      /\ atp'.ptr = atp.ptr /\ atp'.next = atp.next
  BY DEF OrderInv, AtsType, Atps
<1>2. NoneLoaded(atsStatus', atsStatus)
  BY DEF OrderInv, AtsType, NoneLoaded
<1>3. ~ReloadExecuting => InOrder(atp', atsTbl, atsStatus')
  BY <1>1 DEF OrderInv, InOrder, Placed, Waiting
<1> QED  BY <1>1, <1>2, <1>3, OrderKept DEF OrderInv, AtsType, Points

\* The command that was next no longer waits, and the ATP goes on.
LEMMA AdvanceKeeps ==
  ASSUME OrderInv, atp.state = "EXECUTING", UNCHANGED <<atsTbl, appendTbl, atsSize>>,
         NoneLoaded(atsStatus', atsStatus), atsStatus'[atp.ats][atp.cmd] # "LOADED",
         NEW pend \in BOOLEAN, atp' = GetNextAtsCommand([atp EXCEPT !.pend = pend])
  PROVE  OrderInv'
<1> DEFINE p == [atp EXCEPT !.pend = pend]
           tbl == atsTbl[atp.ats]
<1>1. /\ p \in Atps /\ p.state = atp.state /\ p.ats = atp.ats /\ p.cmd = atp.cmd
      /\ p.ptr = atp.ptr /\ p.next = atp.next
  BY DEF OrderInv, AtsType, Atps
<1>2. atp.ats \in AtsIds /\ tbl \in AtsTables /\ NearTimes(tbl)
  BY DEF OrderInv, AtsType, Points, NearTables
<1>3. atp' = GetNextAtsCommand(p)
  OBVIOUS
<1> HIDE DEF p
<1>4. /\ atp' \in Atps
      /\ \/ atp'.state = "IDLE"
         \/ /\ atp'.state = "EXECUTING" /\ atp'.ats = atp.ats /\ atp'.cmd \in CmdNums
            /\ Placed(atp', tbl) /\ atp'.ptr = atp.ptr + 1
  BY <1>1, <1>2, <1>3, GetNextIs DEF OrderInv
<1>5. ~ReloadExecuting => InOrder(atp', atsTbl, atsStatus')
  <2> SUFFICES ASSUME ~ReloadExecuting, atp'.state = "EXECUTING"
               PROVE  Waiting(atp', tbl, atsStatus'[atp.ats])
    BY <1>4 DEF InOrder
  <2>1. Placed(atp, tbl) /\ Waiting(atp, tbl, atsStatus[atp.ats])
    BY DEF OrderInv, InOrder
  <2>2. \A c \in DOMAIN tbl : atsStatus'[atp.ats][c] = "LOADED"
          => atsStatus[atp.ats][c] = "LOADED" /\ c # atp.cmd
    BY <1>2 DEF NoneLoaded, AtsTables
  <2>3. Placed(atp', tbl) /\ atp'.ptr = atp.ptr + 1
    BY <1>4
  <2> HIDE DEF tbl
  <2> QED  BY <1>2, <2>1, <2>2, <2>3, NextWaiting
<1>6. atp'.state # "STARTING" /\ Points(atp')
  BY <1>2, <1>4 DEF Points
<1> QED  BY <1>4, <1>5, <1>6, OrderKept

\* The ATP begins at time t in a table of which nothing that it passes over is
\* LOADED: a start, a jump, or a switch that begins.
Begun(q, a, tbl, t) ==
  /\ q \in Atps
  /\ \/ ~Begins(tbl, t) /\ q.state = "IDLE"
     \/ /\ Begins(tbl, t) /\ q.state = "EXECUTING" /\ q.ats = a /\ q.cmd \in CmdNums
        /\ Placed(q, tbl) /\ q.ptr = Passed(tbl, t) + 1 /\ ~Later(t, q.next)

\* Whatever begins an ATS that way keeps the order.
LEMMA BeginKeeps ==
  ASSUME OrderInv, UNCHANGED <<atsTbl, appendTbl, atsSize>>,
         NoneLoaded(atsStatus', atsStatus), NEW a \in AtsIds, NEW t,
         \A c \in PassedCommands(atsTbl[a], t) : atsStatus'[a][c] # "LOADED",
         Begun(atp', a, atsTbl[a], t)
  PROVE  OrderInv'
<1> DEFINE tbl == atsTbl[a]
<1>1. tbl \in AtsTables /\ NearTimes(tbl)
  BY DEF OrderInv, AtsType, NearTables
<1>2. ASSUME atp'.state = "EXECUTING"
      PROVE  atp'.ats = a /\ Placed(atp', tbl) /\ atp'.ptr = Passed(tbl, t) + 1
  BY <1>2 DEF Begun
<1>3. InOrder(atp', atsTbl, atsStatus')
  <2> HIDE DEF tbl
  <2> SUFFICES ASSUME atp'.state = "EXECUTING"
               PROVE  Placed(atp', tbl) /\ Waiting(atp', tbl, atsStatus'[a])
    BY <1>2 DEF InOrder, tbl
  <2>1. \A c \in PassedCommands(tbl, t) : atsStatus'[a][c] # "LOADED"
    BY DEF tbl
  <2> QED  BY <1>1, <1>2, <2>1, BeginWaiting
<1>4. atp' \in Atps /\ atp'.state # "STARTING" /\ Points(atp')
  BY DEF Begun, Points
<1> QED  BY <1>3, <1>4, OrderKept

\* The statuses after SC_BeginAts skipped what is past.
LEMMA SkipPassedIs ==
  ASSUME AtsType, NEW a \in AtsIds, NEW t,
         atsStatus' = [atsStatus EXCEPT ![a] = SkipPassed(@, atsTbl[a], t)]
  PROVE  /\ NoneLoaded(atsStatus', atsStatus)
         /\ \A c \in PassedCommands(atsTbl[a], t) : atsStatus'[a][c] # "LOADED"
<1> DEFINE new == SkipPassed(atsStatus[a], atsTbl[a], t)
<1>1. /\ new \in [CmdNums -> Status]
      /\ \A c \in CmdNums : new[c] = "LOADED" => atsStatus[a][c] = "LOADED"
  BY SkipPassedKeeps DEF AtsType
<1>2. \A c \in PassedCommands(atsTbl[a], t) : new[c] # "LOADED"
  <2>1. PassedCommands(atsTbl[a], t) \subseteq CmdNums
    BY PassedInTable DEF AtsType
  <2> QED  BY <2>1 DEF SkipPassed
<1>3. atsStatus' = [atsStatus EXCEPT ![a] = new]
  OBVIOUS
<1> HIDE DEF new
<1> QED  BY <1>1, <1>2, <1>3 DEF NoneLoaded, AtsType

\* SC_ProcessAtpCmd: the command sent no longer waits; an error ends the ATS.
LEMMA SendKeeps ==
  ASSUME OrderInv, NEW ok \in BOOLEAN, AtpSend(ok)
  PROVE  OrderInv'
<1> DEFINE mark == IF ok THEN "EXECUTED" ELSE "FAILED_DISTRIB"
<1>1. /\ atp.state = "EXECUTING" /\ atp.ats \in AtsIds /\ atp.cmd \in CmdNums
      /\ atsStatus' = [atsStatus EXCEPT ![atp.ats][atp.cmd] = mark]
      /\ UNCHANGED <<atsTbl, appendTbl, atsSize>>
      /\ atp' = IF ok THEN GetNextAtsCommand(atp) ELSE CancelAts(atp)
  BY DEF AtpSend, AtpDue, OrderInv, AtsType, Points
<1>2. mark \in Status /\ mark # "LOADED"
  BY DEF Status
<1> HIDE DEF mark
<1>3. NoneLoaded(atsStatus', atsStatus) /\ atsStatus'[atp.ats][atp.cmd] # "LOADED"
  BY <1>1, <1>2 DEF NoneLoaded, OrderInv, AtsType
<1>4. CASE ok
  <2>1. atp = [atp EXCEPT !.pend = atp.pend] /\ atp.pend \in BOOLEAN
    BY DEF OrderInv, AtsType, Atps
  <2>2. atp' = GetNextAtsCommand([atp EXCEPT !.pend = atp.pend])
    BY <1>1, <1>4, <2>1
  <2> QED  BY <1>1, <1>3, <2>1, <2>2, AdvanceKeeps
<1>5. CASE ~ok
  <2>1. atp' \in Atps /\ atp'.state = "IDLE"
    BY <1>1, <1>5, KillAtsIs DEF OrderInv, AtsType
  <2> QED  BY <1>1, <1>3, <2>1, OrderKept DEF Points, InOrder
<1> QED  BY <1>4, <1>5

\* SC_ProcessAtpCmd: the command passed over was not waiting.
LEMMA PassOverKeeps ==
  ASSUME OrderInv, AtpPassOver
  PROVE  OrderInv'
<1>1. /\ atp.state = "EXECUTING" /\ atp = [atp EXCEPT !.pend = atp.pend] /\ atp.pend \in BOOLEAN
      /\ UNCHANGED <<atsTbl, appendTbl, atsSize, atsStatus>>
      /\ atsStatus[atp.ats][atp.cmd] # "LOADED"
  BY DEF AtpPassOver, AtpDue, AtpCmdLoaded, OrderInv, AtsType, Atps
<1>2. atp' = GetNextAtsCommand([atp EXCEPT !.pend = atp.pend])
  BY <1>1 DEF AtpPassOver
<1>3. NoneLoaded(atsStatus', atsStatus)
  BY <1>1 DEF NoneLoaded, OrderInv, AtsType
<1> QED  BY <1>1, <1>2, <1>3, AdvanceKeeps

\* The other ATS.
LEMMA OtherIs == ASSUME atp.ats \in AtsIds PROVE OtherAts \in AtsIds /\ OtherAts # atp.ats
  BY DEF OtherAts, AtsIds

\* SC_InlineSwitch: the other ATS begins, or this one goes on.
LEMMA InlineKeeps ==
  ASSUME OrderInv, InlineSwitch
  PROVE  OrderInv'
<1> DEFINE new    == OtherAts
           loaded == NumCommands(atsTbl[new]) > 0
           ok     == loaded /\ Begins(atsTbl[new], now)
           mark   == IF ok THEN "EXECUTED" ELSE "FAILED_DISTRIB"
           begun  == BeginAts(KillAts(atp), new, atsTbl[new], now, "STARTING")
           skip   == SkipPassed(atsStatus[new], atsTbl[new], now)
<1>1. /\ atp.state = "EXECUTING" /\ atp.ats \in AtsIds /\ atp.cmd \in CmdNums
      /\ UNCHANGED <<atsTbl, appendTbl, atsSize>>
      /\ new \in AtsIds /\ new # atp.ats
  BY OtherIs DEF InlineSwitch, AtpDue, OrderInv, AtsType, Points
<1>2. atp \in Atps /\ atsTbl[new] \in AtsTables
  BY <1>1 DEF OrderInv, AtsType
<1>3. atp' = GetNextAtsCommand([IF loaded THEN begun ELSE atp EXCEPT !.pend = FALSE])
  BY DEF InlineSwitch
<1>4. /\ skip \in [CmdNums -> Status]
      /\ \A c \in CmdNums : skip[c] = "LOADED" => atsStatus[new][c] = "LOADED"
      /\ \A c \in PassedCommands(atsTbl[new], now) : skip[c] # "LOADED"
  <2>1. PassedCommands(atsTbl[new], now) \subseteq CmdNums
    BY <1>2, PassedInTable
  <2> QED  BY <1>1, <2>1, SkipPassedKeeps DEF SkipPassed, OrderInv, AtsType
<1>5. atsStatus' = [atsStatus EXCEPT ![new] = IF loaded THEN skip ELSE @,
                                     ![atp.ats][atp.cmd] = mark]
  BY DEF InlineSwitch
<1>6. mark \in Status /\ mark # "LOADED"
  BY DEF Status
<1> HIDE DEF new, loaded, ok, mark, begun, skip
<1>7. /\ NoneLoaded(atsStatus', atsStatus) /\ atsStatus'[atp.ats][atp.cmd] # "LOADED"
      /\ loaded => atsStatus'[new] = skip
  <2>1. atsStatus \in [AtsIds -> [CmdNums -> Status]]
    BY DEF OrderInv, AtsType
  <2> QED  BY <1>1, <1>4, <1>5, <1>6, <2>1 DEF NoneLoaded
<1>8. CASE ~loaded
  <2>1. atp' = GetNextAtsCommand([atp EXCEPT !.pend = FALSE])
    BY <1>3, <1>8
  <2> QED  BY <1>1, <1>7, <2>1, AdvanceKeeps
<1>9. CASE loaded
  <2> DEFINE p == [begun EXCEPT !.pend = FALSE]
  <2>1. /\ begun \in Atps
        /\ \/ ~Begins(atsTbl[new], now) /\ begun.state = "IDLE"
           \/ /\ Begins(atsTbl[new], now) /\ begun.state = "STARTING"
              /\ begun.ats = new /\ begun.cmd \in CmdNums /\ Placed(begun, atsTbl[new])
              /\ begun.ptr = Passed(atsTbl[new], now) + 1 /\ ~Later(now, begun.next)
    <3>1. KillAts(atp) \in Atps /\ "STARTING" \in AtpStates
      BY <1>2, KillAtsIs DEF AtpStates
    <3> QED  BY <1>1, <1>2, <3>1, BeginAtsIs DEF begun
  <2>2. /\ p \in Atps /\ p.state = begun.state /\ p.ats = begun.ats /\ p.cmd = begun.cmd
        /\ p.ptr = begun.ptr /\ p.next = begun.next
    BY <2>1 DEF Atps
  <2>3. atp' = GetNextAtsCommand(p)
    BY <1>3, <1>9
  <2> HIDE DEF p
  <2>4. CASE begun.state = "IDLE"
    <3>1. atp' = p
      BY <2>2, <2>3, <2>4 DEF GetNextAtsCommand
    <3> QED  BY <1>1, <1>7, <2>2, <2>4, <3>1, OrderKept DEF Points, InOrder
  <2>5. CASE begun.state = "STARTING"
    <3>1. atp' = [p EXCEPT !.state = "EXECUTING"]
      BY <2>2, <2>3, <2>5 DEF GetNextAtsCommand
    <3>2. /\ atp' \in Atps /\ atp'.state = "EXECUTING" /\ atp'.ats = begun.ats
          /\ atp'.cmd = begun.cmd /\ atp'.ptr = begun.ptr /\ atp'.next = begun.next
      BY <2>2, <3>1 DEF Atps, AtpStates
    <3>3. Begun(atp', new, atsTbl[new], now)
      BY <2>1, <2>5, <3>2 DEF Begun, Placed
    <3>4. \A c \in PassedCommands(atsTbl[new], now) : atsStatus'[new][c] # "LOADED"
      BY <1>4, <1>7, <1>9
    <3> QED  BY <1>1, <1>7, <3>3, <3>4, BeginKeeps
  <2> QED  BY <2>1, <2>4, <2>5
<1> QED  BY <1>8, <1>9

\* What a serviced switch makes of the control block.
LEMMA SwitchBegun ==
  ASSUME OrderInv, ServiceSwitchPend
  PROVE  /\ OtherAts \in AtsIds /\ OtherAts # atp.ats
         /\ Begun(atp', OtherAts, atsTbl[OtherAts], ComputeAbsTime(now, 1))
         /\ atp'.state = "IDLE" => atp'.ats = atp.ats
<1> DEFINE new   == OtherAts
           start == ComputeAbsTime(now, 1)
           begun == BeginAts(KillAts(atp), new, atsTbl[new], start, "EXECUTING")
<1>1. new \in AtsIds /\ new # atp.ats /\ atsTbl[new] \in AtsTables /\ atp \in Atps
  BY OtherIs DEF ServiceSwitchPend, CanSwitch, OrderInv, AtsType, Points
<1>2. atp' = [begun EXCEPT !.pend = FALSE]
  BY DEF ServiceSwitchPend
<1>3. /\ begun \in Atps
      /\ \/ ~Begins(atsTbl[new], start) /\ begun.state = "IDLE" /\ begun.ats = atp.ats
         \/ /\ Begins(atsTbl[new], start) /\ begun.state = "EXECUTING"
            /\ begun.ats = new /\ begun.cmd \in CmdNums /\ Placed(begun, atsTbl[new])
            /\ begun.ptr = Passed(atsTbl[new], start) + 1 /\ ~Later(start, begun.next)
  <2>1. KillAts(atp) \in Atps /\ KillAts(atp).ats = atp.ats /\ "EXECUTING" \in AtpStates
    BY <1>1, KillAtsIs DEF AtpStates
  <2> HIDE DEF start
  <2> QED  BY <1>1, <2>1, BeginAtsIs
<1> HIDE DEF begun, new, start
<1>4. /\ atp' \in Atps /\ atp'.state = begun.state /\ atp'.ats = begun.ats
      /\ atp'.cmd = begun.cmd /\ atp'.ptr = begun.ptr /\ atp'.next = begun.next
  BY <1>2, <1>3 DEF Atps
<1>5. Begun(atp', new, atsTbl[new], start) /\ (atp'.state = "IDLE" => atp'.ats = atp.ats)
  BY <1>3, <1>4 DEF Begun, Placed
<1> QED  BY <1>1, <1>5 DEF new, start

\* SC_ServiceSwitchPend.
LEMMA SwitchKeeps ==
  ASSUME OrderInv, ServiceSwitchPend
  PROVE  OrderInv'
<1> DEFINE start == ComputeAbsTime(now, 1)
<1>1. /\ UNCHANGED <<atsTbl, appendTbl, atsSize>>
      /\ atsStatus' = [atsStatus EXCEPT ![OtherAts] = SkipPassed(@, atsTbl[OtherAts], start)]
  BY DEF ServiceSwitchPend
<1>2. OtherAts \in AtsIds /\ Begun(atp', OtherAts, atsTbl[OtherAts], start)
  BY SwitchBegun
<1> HIDE DEF start
<1>3. /\ NoneLoaded(atsStatus', atsStatus)
      /\ \A c \in PassedCommands(atsTbl[OtherAts], start) : atsStatus'[OtherAts][c] # "LOADED"
  BY <1>1, <1>2, SkipPassedIs DEF OrderInv
<1> QED  BY <1>1, <1>2, <1>3, BeginKeeps

\* SC_StartAtsCmd.
LEMMA StartKeeps ==
  ASSUME OrderInv, NEW a \in AtsIds, StartAts(a)
  PROVE  OrderInv'
<1>1. /\ UNCHANGED <<atsTbl, appendTbl, atsSize>>
      /\ atsStatus' = [atsStatus EXCEPT ![a] = SkipPassed(@, atsTbl[a], now)]
      /\ atp' = BeginAts(atp, a, atsTbl[a], now, "EXECUTING")
  BY DEF StartAts
<1>2. NoneLoaded(atsStatus', atsStatus)
      /\ \A c \in PassedCommands(atsTbl[a], now) : atsStatus'[a][c] # "LOADED"
  BY <1>1, SkipPassedIs DEF OrderInv
<1>3. Begun(atp', a, atsTbl[a], now)
  BY <1>1, BeginAtsIs DEF Begun, OrderInv, AtsType, AtpStates
<1> QED  BY <1>1, <1>2, <1>3, BeginKeeps

\* SC_JumpAtsCmd: what it passes over is not LOADED any more.
LEMMA JumpKeeps ==
  ASSUME OrderInv, NEW t, JumpAts(t)
  PROVE  OrderInv'
<1> DEFINE a    == atp.ats
           tbl  == atsTbl[a]
           past == PassedCommands(tbl, t)
           new  == [c \in CmdNums |-> IF c \in past /\ atsStatus[a][c] = "LOADED"
                                     THEN "SKIPPED" ELSE atsStatus[a][c]]
<1>1. /\ UNCHANGED <<atsTbl, appendTbl, atsSize>>
      /\ atsStatus' = [atsStatus EXCEPT ![a] = new]
      /\ atp' = BeginAts(atp, a, tbl, t, "EXECUTING")
  BY DEF JumpAts
<1>2. a \in AtsIds /\ tbl \in AtsTables
  BY DEF JumpAts, OrderInv, AtsType, Points
<1>3. past \subseteq CmdNums
  <2> HIDE DEF tbl
  <2> QED  BY <1>2, PassedInTable
<1>4. Begun(atp', a, tbl, t)
  <2>1. atp \in Atps /\ "EXECUTING" \in AtpStates
    BY DEF OrderInv, AtsType, AtpStates
  <2> HIDE DEF a, tbl
  <2> QED  BY <1>1, <1>2, <2>1, BeginAtsIs DEF Begun
<1> HIDE DEF a, past
<1>5. /\ new \in [CmdNums -> Status]
      /\ \A c \in CmdNums : new[c] = "LOADED" => atsStatus[a][c] = "LOADED"
      /\ \A c \in past : new[c] # "LOADED"
  BY <1>2, <1>3 DEF OrderInv, AtsType, Status
<1> HIDE DEF new
<1>6. NoneLoaded(atsStatus', atsStatus) /\ atsStatus'[a] = new
  BY <1>1, <1>2, <1>5 DEF NoneLoaded, OrderInv, AtsType
<1>7. \A c \in PassedCommands(atsTbl[a], t) : atsStatus'[a][c] # "LOADED"
  BY <1>5, <1>6 DEF past
<1> QED  BY <1>1, <1>2, <1>4, <1>6, <1>7, BeginKeeps

\* A table of one ATS is replaced, with its statuses; if that ATS runs, it is
\* begun again or the order is not claimed.
LEMMA LoadKeeps ==
  ASSUME OrderInv, NEW a \in AtsIds, NEW tbl \in AtsTables, NearTimes(tbl),
         NEW status \in [CmdNums -> Status], InTable(status, tbl),
         atsTbl' = [atsTbl EXCEPT ![a] = tbl],
         atsStatus' = [atsStatus EXCEPT ![a] = status],
         atsSize' \in [AtsIds -> 0 .. AtsBuffSize], appendTbl' = appendTbl,
         NEW t,
         \/ atp' = atp /\ (Running(a) => ReloadExecuting)
         \/ /\ Begun(atp', a, tbl, t)
            /\ \A c \in PassedCommands(tbl, t) : status[c] # "LOADED"
  PROVE  OrderInv'
<1>1. /\ atsTbl' \in [AtsIds -> AtsTables] /\ atsTbl'[a] = tbl
      /\ atsStatus' \in [AtsIds -> [CmdNums -> Status]] /\ atsStatus'[a] = status
      /\ \A b \in AtsIds : b # a => atsTbl'[b] = atsTbl[b] /\ atsStatus'[b] = atsStatus[b]
  BY DEF OrderInv, AtsType
<1>2. \A b \in AtsIds : InTable(atsStatus'[b], atsTbl'[b]) /\ NearTimes(atsTbl'[b])
  BY <1>1 DEF OrderInv, AtsType, NearTables
<1>3. atp' \in Atps /\ atp'.state # "STARTING" /\ Points(atp')
  BY DEF Begun, Points, OrderInv, AtsType
<1>4. AtsType' /\ NearTables'
  BY <1>1, <1>2, <1>3 DEF OrderInv, AtsType, NearTables
<1>5. ASSUME ~ReloadExecuting, atp'.state = "EXECUTING"
      PROVE  Placed(atp', atsTbl'[atp'.ats]) /\ Waiting(atp', atsTbl'[atp'.ats], atsStatus'[atp'.ats])
  <2>1. CASE atp' = atp /\ (Running(a) => ReloadExecuting)
    <3>1. atp.ats \in AtsIds /\ atp.ats # a
      BY <1>5, <2>1 DEF Running, OrderInv, AtsType, Points
    <3> QED  BY <1>1, <1>5, <2>1, <3>1 DEF OrderInv, InOrder
  <2>2. CASE Begun(atp', a, tbl, t) /\ \A c \in PassedCommands(tbl, t) : status[c] # "LOADED"
    <3>1. atp'.ats = a /\ Placed(atp', tbl) /\ atp'.ptr = Passed(tbl, t) + 1
      BY <1>5, <2>2 DEF Begun
    <3>2. Waiting(atp', tbl, status)
      BY <2>2, <3>1, BeginWaiting
    <3> QED  BY <1>1, <3>1, <3>2
  <2> QED  BY <2>1, <2>2
<1> QED  BY <1>4, <1>5 DEF OrderInv, InOrder

\* SC_LoadAts: the ATS that is loaded does not run.
LEMMA LoadAtsKeeps ==
  ASSUME OrderInv, NEW a \in AtsIds, NEW tbl \in AtsLoads, LoadAts(a, tbl)
  PROVE  OrderInv'
<1> DEFINE status == [c \in CmdNums |-> IF c \in DOMAIN tbl THEN "LOADED" ELSE "EMPTY"]
<1>1. tbl \in AtsTables /\ NearTimes(tbl)
  BY LoadAssumption, NearAssumption
<1>2. /\ atsTbl' = [atsTbl EXCEPT ![a] = tbl] /\ atsStatus' = [atsStatus EXCEPT ![a] = status]
      /\ atp' = atp /\ (Running(a) => ReloadExecuting) /\ appendTbl' = appendTbl
      /\ atsSize' = [atsSize EXCEPT ![a] = NumCommands(tbl)] /\ NumCommands(tbl) <= AtsBuffSize
  BY DEF LoadAts
<1>3. status \in [CmdNums -> Status] /\ InTable(status, tbl)
  BY DEF Status, InTable
<1>4. atsSize' \in [AtsIds -> 0 .. AtsBuffSize]
  <2>1. NumCommands(tbl) \in 0 .. AtsBuffSize
    BY <1>1, <1>2, IndexLength, ScAssumption
  <2> QED  BY <1>2, <2>1 DEF OrderInv, AtsType
<1> HIDE DEF status
<1> QED  BY <1>1, <1>2, <1>3, <1>4, LoadKeeps

\* The table after an append.
LEMMA AppendKeeps ==
  ASSUME OrderInv, NEW a \in AtsIds, AppendAts(a)
  PROVE  OrderInv'
<1> DEFINE new    == DOMAIN appendTbl
           old    == atsTbl[a]
           tbl    == [c \in new \cup DOMAIN old |-> IF c \in new THEN appendTbl[c] ELSE old[c]]
           status == [c \in CmdNums |-> IF c \in new THEN "LOADED" ELSE atsStatus[a][c]]
           final  == IF Running(a) THEN SkipPassed(status, tbl, now) ELSE status
<1>1. /\ atsTbl' = [atsTbl EXCEPT ![a] = tbl]
      /\ atsStatus' = [atsStatus EXCEPT ![a] = final]
      /\ atp' = IF Running(a) THEN BeginAts(atp, a, tbl, now, "EXECUTING") ELSE atp
      /\ atsSize' = [atsSize EXCEPT ![a] = @ + NumCommands(appendTbl)]
      /\ atsSize[a] + NumCommands(appendTbl) <= AtsBuffSize
      /\ appendTbl' = appendTbl
  BY DEF AppendAts, AppendFits
<1>2. /\ appendTbl \in AtsTables /\ old \in AtsTables /\ NearTimes(appendTbl) /\ NearTimes(old)
      /\ new \subseteq CmdNums /\ DOMAIN old \subseteq CmdNums
      /\ InTable(atsStatus[a], old) /\ atsStatus[a] \in [CmdNums -> Status]
  BY DEF OrderInv, AtsType, NearTables, AtsTables
<1>3. \A c \in new \cup DOMAIN old : tbl[c] = IF c \in new THEN appendTbl[c] ELSE old[c]
  OBVIOUS
<1>4. tbl \in AtsTables /\ NearTimes(tbl) /\ DOMAIN tbl = new \cup DOMAIN old
  <2>1. \A c \in new : appendTbl[c] \in AtsEntries
    BY <1>2 DEF AtsTables
  <2>2. \A c \in DOMAIN old : old[c] \in AtsEntries
    BY <1>2 DEF AtsTables
  <2>3. DOMAIN tbl = new \cup DOMAIN old /\ DOMAIN tbl \in SUBSET CmdNums
    BY <1>2
  <2>4. \A c \in DOMAIN tbl : tbl[c] \in AtsEntries /\ tbl[c].time <= HalfRange
    BY <1>2, <1>3, <2>1, <2>2, <2>3 DEF NearTimes
  <2>5. tbl \in [DOMAIN tbl -> AtsEntries]
    BY <2>1, <2>2
  <2> HIDE DEF tbl
  <2> QED  BY <2>3, <2>4, <2>5 DEF AtsTables, NearTimes
<1> HIDE DEF tbl
<1>5. status \in [CmdNums -> Status] /\ InTable(status, tbl)
  BY <1>2, <1>4 DEF InTable, Status
<1> HIDE DEF status, new, old
<1>6. atsSize' \in [AtsIds -> 0 .. AtsBuffSize]
  <2>1. NumCommands(appendTbl) \in Nat /\ atsSize[a] \in 0 .. AtsBuffSize
    BY <1>2, IndexLength DEF OrderInv, AtsType
  <2>2. atsSize[a] + NumCommands(appendTbl) \in 0 .. AtsBuffSize
    BY <1>1, <2>1, ScAssumption
  <2> QED  BY <1>1, <2>2 DEF OrderInv, AtsType
<1>7. CASE Running(a)
  <2>1. Begun(atp', a, tbl, now)
    BY <1>1, <1>4, <1>7, BeginAtsIs DEF Begun, OrderInv, AtsType, AtpStates
  <2>2. /\ final \in [CmdNums -> Status]
        /\ \A c \in CmdNums : final[c] = "LOADED" => status[c] = "LOADED"
    BY <1>5, <1>7, SkipPassedKeeps
  <2>3. \A c \in PassedCommands(tbl, now) : final[c] # "LOADED"
    BY <1>4, <1>7, PassedInTable DEF SkipPassed
  <2> HIDE DEF final
  <2>4. InTable(final, tbl)
    BY <1>5, <2>2 DEF InTable
  <2> QED  BY <1>1, <1>4, <1>6, <2>1, <2>2, <2>3, <2>4, LoadKeeps
<1>8. CASE ~Running(a)
  <2>1. final = status /\ atp' = atp
    BY <1>1, <1>8
  <2> HIDE DEF final
  <2> QED  BY <1>1, <1>4, <1>5, <1>6, <1>8, <2>1, LoadKeeps
<1> QED  BY <1>7, <1>8

\* No table yet.
LEMMA NoTableIs == NoTable \in AtsTables /\ DOMAIN NoTable = {} /\ NearTimes(NoTable)
<1>1. NoTable \in [{} -> AtsEntries] /\ DOMAIN NoTable = {}
  BY DEF NoTable
<1> QED  BY <1>1 DEF AtsTables, NearTimes

\* The control block that SC_InitTables sets up.
LEMMA InitAtpIs == InitAtp \in Atps /\ InitAtp.state = "IDLE"
<1>1. MaxTime \in Times
  BY TimeAssumption DEF Times
<1> QED  BY <1>1 DEF InitAtp, Atps, AtpStates

\* SC_AppInit: nothing runs and nothing is loaded.
LEMMA OrderInit == Init => OrderInv
<1> SUFFICES ASSUME Init PROVE OrderInv
  OBVIOUS
<1>1. AtsType
  BY NoTableIs, InitAtpIs, ScAssumption
  DEF Init, AtsType, Points, InTable, InitStatus, Status
<1>2. NearTables
  BY NoTableIs DEF Init, NearTables
<1>3. InOrder(atp, atsTbl, atsStatus)
  BY InitAtpIs DEF Init, InOrder
<1> QED  BY <1>1, <1>2, <1>3 DEF OrderInv

\* The same after a reset.
LEMMA OrderReset == Reset => OrderInv'
<1> SUFFICES ASSUME Reset PROVE OrderInv'
  OBVIOUS
<1>1. AtsType'
  BY NoTableIs, InitAtpIs, ScAssumption
  DEF Reset, AtsType, Points, InTable, InitStatus, Status
<1>2. NearTables'
  BY NoTableIs DEF Reset, NearTables
<1>3. InOrder(atp', atsTbl', atsStatus')
  BY InitAtpIs DEF Reset, InOrder
<1> QED  BY <1>1, <1>2, <1>3 DEF OrderInv

\* Every request and every pass of the loop keeps the order.
LEMMA OrderStep == OrderInv /\ [Next]_vars => OrderInv'
<1> SUFFICES ASSUME OrderInv, [Next]_vars PROVE OrderInv'
  OBVIOUS
<1>1. ASSUME UNCHANGED atsVars PROVE OrderInv'
  BY <1>1 DEF atsVars, OrderInv, AtsType, NearTables, InTable
<1>2. CASE Tick \/ UNCHANGED vars \/ Wakeup \/ NoSwitch \/ NothingDue \/ UpdateNextTime
  BY <1>1, <1>2 DEF Tick, vars, Wakeup, NoSwitch, NothingDue, UpdateNextTime
<1>3. CASE Reset
  BY <1>3, OrderReset
<1>4. CASE ServiceSwitchPend
  BY <1>4, SwitchKeeps
<1>5. CASE DropSwitchPend
  BY <1>5, OrderSame DEF DropSwitchPend
<1>6. ASSUME NEW ok \in BOOLEAN, AtpSend(ok) PROVE OrderInv'
  BY <1>6, SendKeeps
<1>7. ASSUME NEW ok \in BOOLEAN, RtpSend(ok) PROVE OrderInv'
  BY <1>1, <1>7 DEF RtpSend
<1>8. CASE InlineSwitch
  BY <1>8, InlineKeeps
<1>9. CASE AtpPassOver
  BY <1>9, PassOverKeeps
<1>10. CASE RtsCommand
  BY <1>1, <1>10 DEF RtsCommand, StartRts, StartRtsGrp, BeginRts, StopRts, StopRtsGrp,
                     SetDisabled, LoadRts, SendHk, RtsRequest
<1>11. CASE StopAts
  <2>1. atp' \in Atps /\ atp'.state = "IDLE" /\ UNCHANGED <<atsTbl, atsStatus, appendTbl, atsSize>>
    BY <1>11, KillAtsIs DEF StopAts, OrderInv, AtsType
  <2>2. NoneLoaded(atsStatus', atsStatus)
    BY <2>1 DEF NoneLoaded, OrderInv, AtsType
  <2> QED  BY <2>1, <2>2, OrderKept DEF Points, InOrder
<1>12. CASE GroundSwitch
  <2>1. CanSwitch \in BOOLEAN
    BY DEF CanSwitch
  <2> QED  BY <1>12, <2>1, OrderSame DEF GroundSwitch
<1>13. ASSUME NEW tbl \in AppendLoads, UpdateAppend(tbl) PROVE OrderInv'
  <2>1. tbl \in AtsTables /\ NearTimes(tbl)
    BY LoadAssumption, NearAssumption
  <2>2. appendTbl' = tbl /\ UNCHANGED <<atp, atsTbl, atsStatus, atsSize>>
    BY <1>13 DEF UpdateAppend
  <2> QED  BY <2>1, <2>2 DEF OrderInv, AtsType, NearTables, InTable
<1>14. CASE AtsCommand
  BY <1>11, <1>12, <1>13, <1>14, StartKeeps, AppendKeeps, LoadAtsKeeps, JumpKeeps
  DEF AtsCommand
<1> QED  BY <1>2, <1>3, <1>4, <1>5, <1>6, <1>7, <1>8, <1>9, <1>10, <1>14 DEF Next, Loop

\* SC_ProcessAtpCmd and the requests in between keep the ATP's cached position
\* and time those of a command of the table, behind which everything waits.
THEOREM AtpOrdered == Spec => []AtpInOrder
<1>1. OrderInv => AtpInOrder
  BY DEF OrderInv, AtpInOrder, InOrder, Placed, Waiting
<1> QED  BY <1>1, OrderInit, OrderStep, PTL DEF Spec

----------------------------------------------------------------------------
(* The absolute-time processor: time.                                      *)

\* The clock stays within the horizon.
NowInv == now \in 0 .. Horizon

\* Only the tick moves the clock, and not past the horizon.
LEMMA NowStep == NowInv /\ [Next]_vars => NowInv'
<1> SUFFICES ASSUME NowInv, [Next]_vars PROVE NowInv'
  OBVIOUS
<1>1. CASE Tick
  BY <1>1, ScAssumption DEF Tick, NowInv, Times
<1>2. ASSUME UNCHANGED now PROVE NowInv'
  BY <1>2 DEF NowInv
<1>3. CASE Reset \/ Wakeup \/ UNCHANGED vars
  BY <1>2, <1>3 DEF Reset, Wakeup, vars
<1>4. CASE Loop
  BY <1>2, <1>4 DEF Loop, ServiceSwitchPend, DropSwitchPend, NoSwitch, AtpSend, RtpSend,
                    InlineSwitch, AtpPassOver, NothingDue, UpdateNextTime
<1>5. CASE AtsCommand
  BY <1>2, <1>5 DEF AtsCommand, StartAts, AppendAts, LoadAts, UpdateAppend, JumpAts,
                    StopAts, GroundSwitch, AtsRequest
<1>6. CASE RtsCommand
  BY <1>2, <1>6 DEF RtsCommand, StartRts, StartRtsGrp, BeginRts, StopRts, StopRtsGrp,
                    SetDisabled, LoadRts, SendHk, RtsRequest
<1> QED  BY <1>1, <1>3, <1>4, <1>5, <1>6 DEF Next

\* What the ATP sends is due: its time is the cached one, which is not later than
\* now.
LEMMA SendDue ==
  ASSUME OrderInv, NowInv, ~ReloadExecuting, NEW ok \in BOOLEAN, AtpSend(ok)
  PROVE  out'.due <= now
<1>1. atp.state = "EXECUTING" /\ atp.ats \in AtsIds /\ ~Later(atp.next, now)
  BY DEF AtpSend, AtpDue, OrderInv, AtsType, Points
<1> DEFINE tbl == atsTbl[atp.ats]
<1>2. tbl \in AtsTables /\ NearTimes(tbl) /\ Placed(atp, tbl)
  BY <1>1 DEF OrderInv, AtsType, NearTables, InOrder
<1>3. out'.due = tbl[atp.cmd].time
  BY DEF AtpSend, AtpEntry
<1> HIDE DEF tbl
<1>4. out'.due = atp.next /\ atp.next \in Times /\ atp.next <= HalfRange
  BY <1>2, <1>3 DEF Placed, AtsTables, AtsEntries, NearTimes
<1>5. now \in Times /\ now <= HalfRange
  BY ScAssumption, NearAssumption, TimeAssumption DEF NowInv, Times
<1>6. ~(atp.next > now)
  BY <1>1, <1>4, <1>5, LaterIs
<1> QED  BY <1>4, <1>5, <1>6 DEF Times

\* The part of TypeOK that only the loop works on.
Outs == [proc : {"NONE", "ATP", "RTP"}, kind : {"none", "cmd", "corrupt", "rts"},
         pos : Nat, due : Times]
LoopType == out \in Outs /\ nextProc \in {"NONE", "ATP", "RTP"}

\* A command that is sent is one of the table's, and no switch.
LEMMA AtpSendType ==
  ASSUME AtsType, LoopType, NEW ok \in BOOLEAN, AtpSend(ok)
  PROVE  LoopType'
<1>1. atp.ats \in AtsIds /\ atp.cmd \in CmdNums /\ atp.ptr \in Nat
  BY DEF AtpSend, AtpDue, AtsType, Points, Atps
<1>2. atp.cmd \in DOMAIN atsTbl[atp.ats]
  BY <1>1 DEF AtpSend, AtpCmdLoaded, AtsType, InTable
<1>3. AtpEntry \in AtsEntries
  BY <1>1, <1>2 DEF AtpEntry, AtsType, AtsTables
<1>4. AtpEntry.kind \in {"cmd", "corrupt"} /\ AtpEntry.time \in Times
  BY <1>3 DEF AtpSend, AtsEntries
<1>5. out' = [proc |-> "ATP", kind |-> AtpEntry.kind, pos |-> atp.ptr,
              due |-> AtpEntry.time]
      /\ nextProc' = nextProc
  BY DEF AtpSend
<1> QED  BY <1>1, <1>4, <1>5 DEF LoopType, Outs

\* What the RTP sends is taken from its RTS.
LEMMA RtpSendType ==
  ASSUME RtsType, LoopType, NEW ok \in BOOLEAN, RtpSend(ok)
  PROVE  LoopType'
<1>1. rtp.num \in RtsIds
  BY DEF RtpSend, RtpDue, Executing
<1>2. rtsInfo[rtp.num].ptr \in Nat /\ rtsInfo[rtp.num].next \in Times
  BY <1>1 DEF RtsType, RtsInfos
<1>3. out' = [proc |-> "RTP", kind |-> "rts", pos |-> rtsInfo[rtp.num].ptr,
              due |-> rtsInfo[rtp.num].next]
      /\ nextProc' = nextProc
  BY DEF RtpSend
<1> QED  BY <1>2, <1>3 DEF LoopType, Outs

\* The end of a pass forgets the message.
LEMMA NoMsgIs == NoMsg \in Outs /\ NoMsg.proc = "NONE"
<1>1. 0 \in Times
  BY TimeAssumption DEF Times
<1> QED  BY <1>1 DEF NoMsg, Outs

\* Only the two processors and the end of a pass write the message; the tick of
\* the clock is the only other step that could make it early.
EarlyInv == NowInv /\ LoopType /\ AtsNotEarly

\* No step leaves a message of the ATP before its time.
LEMMA EarlyStep == RtsType /\ OrderInv /\ EarlyInv /\ [Next]_vars => EarlyInv'
<1> SUFFICES ASSUME RtsType, OrderInv, EarlyInv, [Next]_vars
             PROVE  LoopType' /\ AtsNotEarly'
  BY NowStep DEF EarlyInv
<1> DEFINE Goal == LoopType' /\ AtsNotEarly'
<1>1. NowInv /\ LoopType /\ AtsNotEarly /\ AtsType
  BY DEF EarlyInv, OrderInv
<1>2. ASSUME UNCHANGED <<out, nextProc>>, now' = now PROVE Goal
  BY <1>1, <1>2 DEF LoopType, AtsNotEarly
<1>3. ASSUME Tick PROVE Goal
  <2>1. out' = out /\ nextProc' = nextProc /\ now' = now + 1 /\ now \in Int
    BY <1>1, <1>3 DEF Tick, loopVars, NowInv
  <2>2. out.due \in Int
    BY <1>1 DEF LoopType, Outs, Times
  <2> QED  BY <1>1, <2>1, <2>2 DEF AtsNotEarly, LoopType
<1>4. ASSUME Reset \/ UpdateNextTime PROVE Goal
  <2>1. out' = NoMsg /\ nextProc' \in {"NONE", "ATP", "RTP"}
    BY <1>4 DEF Reset, UpdateNextTime
  <2> QED  BY <2>1, NoMsgIs DEF LoopType, AtsNotEarly
<1>5. ASSUME NEW ok \in BOOLEAN, AtpSend(ok) PROVE Goal
  <2>1. now' = now
    BY <1>5 DEF AtpSend
  <2>2. ~ReloadExecuting => out'.due <= now
    BY <1>1, <1>5, SendDue
  <2>3. LoopType'
    BY <1>1, <1>5, AtpSendType
  <2> QED  BY <2>1, <2>2, <2>3 DEF AtsNotEarly
<1>6. ASSUME NEW ok \in BOOLEAN, RtpSend(ok) PROVE Goal
  <2>1. out'.proc = "RTP"
    BY <1>6 DEF RtpSend
  <2> QED  BY <1>1, <1>6, <2>1, RtpSendType DEF AtsNotEarly
<1>7. ASSUME Wakeup \/ UNCHANGED vars \/ ServiceSwitchPend \/ DropSwitchPend \/ NoSwitch
               \/ InlineSwitch \/ AtpPassOver \/ NothingDue
      PROVE  Goal
  <2>1. UNCHANGED <<out, nextProc>> /\ now' = now
    BY <1>7 DEF Wakeup, vars, loopVars, ServiceSwitchPend, DropSwitchPend, NoSwitch,
                InlineSwitch, AtpPassOver, NothingDue
  <2> QED  BY <1>2, <2>1
<1>8. ASSUME AtsCommand PROVE Goal
  <2>1. UNCHANGED <<out, nextProc>> /\ now' = now
    BY <1>8 DEF AtsCommand, StartAts, AppendAts, LoadAts, UpdateAppend, JumpAts,
                StopAts, GroundSwitch, AtsRequest, loopVars
  <2> QED  BY <1>2, <2>1
<1>9. ASSUME RtsCommand PROVE Goal
  <2>1. UNCHANGED <<out, nextProc>> /\ now' = now
    BY <1>9 DEF RtsCommand, StartRts, StartRtsGrp, BeginRts, StopRts, StopRtsGrp,
                SetDisabled, LoadRts, SendHk, RtsRequest, loopVars
  <2> QED  BY <1>2, <2>1
<1> HIDE DEF Goal
<1>10. Goal
  BY <1>2, <1>3, <1>4, <1>5, <1>6, <1>7, <1>8, <1>9 DEF Next, Loop
<1> QED  BY <1>10 DEF Goal

\* At the start there is no message.
LEMMA EarlyInit == Init => EarlyInv
  BY NoMsgIs, ScAssumption DEF Init, EarlyInv, NowInv, LoopType, AtsNotEarly, Times

\* SC_ProcessAtpCmd sends no command before its time, although it decides on the
\* time that was cached with the control block.
THEOREM AtsOnTime == Spec => []AtsNotEarly
<1>1. CountInv => RtsType
  BY DEF CountInv
<1>2. EarlyInv => AtsNotEarly
  BY DEF EarlyInv
<1> QED  BY <1>1, <1>2, InitCounts, CountStep, OrderInit, OrderStep, EarlyInit, EarlyStep,
            PTL DEF Spec

\* Every part of SC's state keeps its type.
THEOREM ScTypeOK == Spec => []TypeOK
<1>1. Init => RateInv /\ SentInv
  BY DEF Init, RateInv, SentInv, Counts, Status, InitSent, InitStatus
<1>2. CountInv => RtsType
  BY DEF CountInv
<1>3. RateInv /\ SentInv /\ CountInv /\ OrderInv /\ EarlyInv => TypeOK
  <2> SUFFICES ASSUME RateInv, SentInv, CountInv, OrderInv, EarlyInv PROVE TypeOK
    OBVIOUS
  <2>1. /\ pc \in {"idle", "switch", "process", "update"}
        /\ numCmds \in 0 .. MaxCmdsPerSec /\ burst \in Nat
    BY ScAssumption DEF RateInv
  <2>2. /\ now \in Times /\ rtp \in [num : RtsIds \cup {0}, active : Nat, next : Times]
        /\ rtsTbl \in [RtsIds -> Seq(Nat)]
        /\ rtsInfo \in [RtsIds -> [status : RtsStates, disabled : BOOLEAN,
                                   next : Times, ptr : Nat]]
        /\ autoStart \in RtsIds \cup {0}
    BY DEF CountInv, RtsType, RtsInfos, Rtps
  <2>3. atp \in [state : {"IDLE", "EXECUTING"}, ats : AtsIds \cup {0},
                 cmd : CmdNums \cup {0}, ptr : Nat, pend : BOOLEAN, next : Times]
    BY DEF OrderInv, AtsType, Atps, AtpStates
  <2>4. /\ atsTbl \in [AtsIds -> AtsTables] /\ appendTbl \in AtsTables
        /\ atsStatus \in [AtsIds -> [CmdNums -> Status]]
        /\ atsSize \in [AtsIds -> 0 .. AtsBuffSize]
    BY DEF OrderInv, AtsType
  <2>5. /\ out \in [proc : {"NONE", "ATP", "RTP"},
                    kind : {"none", "cmd", "corrupt", "rts"}, pos : Nat, due : Times]
        /\ nextProc \in {"NONE", "ATP", "RTP"}
    BY DEF EarlyInv, LoopType, Outs
  <2>6. sent \in [AtsIds -> [CmdNums -> 0 .. 2]]
    BY DEF SentInv, Counts
  <2> QED  BY <2>1, <2>2, <2>3, <2>4, <2>5, <2>6 DEF TypeOK
<1> QED  BY <1>1, <1>2, <1>3, RateStep, SentStep, InitCounts, CountStep, OrderInit, OrderStep,
            EarlyInit, EarlyStep, PTL DEF Spec

----------------------------------------------------------------------------
(* The absolute-time processor: the switch.                                *)

\* A pass that changes the ATS while the switch is serviced serviced it.
LEMMA SwitchingIs == AtsType /\ [Next]_vars /\ Switching => ServiceSwitchPend
<1> SUFFICES ASSUME AtsType, [Next]_vars, Switching, ~ServiceSwitchPend PROVE FALSE
  OBVIOUS
<1>1. CASE Tick \/ Reset \/ UNCHANGED vars \/ Wakeup
  BY <1>1 DEF Tick, Reset, vars, loopVars, Wakeup, Switching
<1>2. CASE Loop
  <2>1. CASE DropSwitchPend
    BY <2>1 DEF DropSwitchPend, Switching, AtsType, Atps
  <2>2. ASSUME NEW ok \in BOOLEAN, AtpSend(ok) \/ RtpSend(ok) PROVE FALSE
    BY <2>2 DEF AtpSend, RtpSend, AtpDue, RtpDue, Switching
  <2>3. CASE NoSwitch \/ InlineSwitch \/ AtpPassOver \/ NothingDue \/ UpdateNextTime
    BY <2>3 DEF NoSwitch, InlineSwitch, AtpPassOver, NothingDue, UpdateNextTime, AtpDue,
                Switching, atsVars
  <2> QED  BY <1>2, <2>1, <2>2, <2>3 DEF Loop
<1>3. CASE AtsCommand
  BY <1>3 DEF AtsCommand, StartAts, AppendAts, LoadAts, UpdateAppend, JumpAts,
              StopAts, GroundSwitch, AtsRequest, Switching
<1>4. CASE RtsCommand
  BY <1>4 DEF RtsCommand, StartRts, StartRtsGrp, BeginRts, StopRts, StopRtsGrp,
              SetDisabled, LoadRts, SendHk, RtsRequest, Switching
<1> QED  BY <1>1, <1>2, <1>3, <1>4 DEF Next

\* SC_ServiceSwitchPend: the ATS that is left waits for its next command, which is
\* due after now, and the other one is begun at the second after now.
LEMMA SwitchIsSafe ==
  ASSUME OrderInv, NowInv, ~ReloadExecuting, ServiceSwitchPend, atp'.ats # atp.ats
  PROVE  /\ \A c \in DOMAIN atsTbl[atp.ats] :
              atsStatus[atp.ats][c] = "LOADED" => atsTbl[atp.ats][c].time > now
         /\ atp'.next > now
<1> DEFINE old == atsTbl[atp.ats]
           new == atsTbl[OtherAts]
<1>1. /\ atp.state = "EXECUTING" /\ atp.ats \in AtsIds /\ Later(atp.next, now)
      /\ OtherAts \in AtsIds
  BY OtherIs DEF ServiceSwitchPend, SwitchDue, CanSwitch, OrderInv, AtsType, Points
<1>2. /\ old \in AtsTables /\ NearTimes(old) /\ Placed(atp, old)
      /\ Waiting(atp, old, atsStatus[atp.ats])
      /\ new \in AtsTables /\ NearTimes(new)
  BY <1>1 DEF OrderInv, AtsType, NearTables, InOrder
<1>3. atp'.state = "EXECUTING" /\ Begun(atp', OtherAts, new, ComputeAbsTime(now, 1))
  BY SwitchBegun DEF Begun
<1>4. Placed(atp', new) /\ ~Later(ComputeAbsTime(now, 1), atp'.next)
  BY <1>3 DEF Begun
<1> HIDE DEF old, new
<1>5. now \in Nat /\ now + 1 \in Times /\ now + 1 <= HalfRange /\ now \in Times
  BY ScAssumption, NearAssumption, TimeAssumption DEF NowInv, Times
<1>6. ComputeAbsTime(now, 1) = now + 1
  BY <1>5, TimeAssumption DEF ComputeAbsTime, Times
<1>7. atp.next \in Times /\ atp.next <= HalfRange
  BY <1>2 DEF Placed, AtsTables, AtsEntries, NearTimes
<1>8. atp'.next \in Times /\ atp'.next <= HalfRange
  BY <1>2, <1>4 DEF Placed, AtsTables, AtsEntries, NearTimes
<1>9. atp'.next > now
  <2>1. ~(now + 1 > atp'.next)
    BY <1>4, <1>5, <1>6, <1>8, LaterIs
  <2> QED  BY <1>5, <1>8, <2>1 DEF Times
<1>10. atp.next > now
  <2>1. now <= HalfRange
    BY <1>5, TimeAssumption
  <2> QED  BY <1>1, <1>5, <1>7, <2>1, LaterIs
<1>11. ASSUME NEW c \in DOMAIN old, atsStatus[atp.ats][c] = "LOADED"
       PROVE  old[c].time > now
  <2>1. old[c].time \in Times
    BY <1>2 DEF AtsTables, AtsEntries
  <2>2. old[c].time > atp.next \/ old[c].time = atp.next
    BY <1>2, <1>11 DEF Waiting
  <2> QED  BY <1>5, <1>7, <1>10, <2>1, <2>2 DEF Times
<1> QED  BY <1>9, <1>11 DEF old

\* A switch from one ATS to the other neither repeats nor misses what the two
\* have in common.
THEOREM SwitchSafe == Spec => SafeSwitch
<1> DEFINE Step == Switching /\ ~ReloadExecuting =>
              /\ \A c \in DOMAIN atsTbl[atp.ats] :
                   atsStatus[atp.ats][c] = "LOADED" => atsTbl[atp.ats][c].time > now
              /\ atp'.next > now
<1>1. OrderInv /\ NowInv /\ [Next]_vars => [Step]_vars
  BY SwitchingIs, SwitchIsSafe DEF Switching, OrderInv
<1>2. Init => NowInv
  BY ScAssumption DEF Init, NowInv, Times
<1>3. SafeSwitch <=> [][Step]_vars
  BY DEF SafeSwitch
<1> HIDE DEF Step
<1> QED  BY <1>1, <1>2, <1>3, OrderInit, OrderStep, NowStep, PTL DEF Spec
============================================================================
