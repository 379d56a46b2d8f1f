--------------------------- MODULE SchedulerProofs ---------------------------
(***************************************************************************)
(* Theorems about Scheduler, for any number of tasks, block lists,         *)
(* priorities and delays, and any width of the tick counter.               *)
(***************************************************************************)
EXTENDS Scheduler, SequenceTheorems, WellFoundedInduction, TLAPS

-----------------------------------------------------------------------------
(***************************************************************************)
(* What erase and push do to the lists, for lists of any length.           *)
(***************************************************************************)
\* The elements of a part of a sequence.
LEMMA SubSeqElements ==
    ASSUME NEW S, NEW s \in Seq(S),
           NEW m \in Nat \ {0}, NEW n \in Nat, n <= Len(s)
    PROVE  /\ SubSeq(s, m, n) \in Seq(S)
           /\ Len(SubSeq(s, m, n)) = IF m <= n THEN n - m + 1 ELSE 0
           /\ \A i \in 1 .. n - m + 1 : SubSeq(s, m, n)[i] = s[m + i - 1]
<1>1. \A i \in m .. n : s[i] \in S
  BY LenProperties
<1> QED
  BY <1>1, SubSeqProperties

\* r is s without the element at index i, and with the gap closed.
Removed(r, s, i) ==
    /\ Len(r) = Len(s) - 1
    /\ \A j \in 1 .. Len(s) - 1 : r[j] = IF j < i THEN s[j] ELSE s[j + 1]

\* RemoveAt drops the element at its index and closes the gap.
LEMMA RemoveAtElements ==
    ASSUME NEW S, NEW s \in Seq(S), NEW i \in 1 .. Len(s)
    PROVE  RemoveAt(s, i) \in Seq(S) /\ Removed(RemoveAt(s, i), s, i)
<1> DEFINE a == SubSeq(s, 1, i - 1)
           b == SubSeq(s, i + 1, Len(s))
<1>1. /\ a \in Seq(S) /\ Len(a) = i - 1
      /\ \A j \in 1 .. i - 1 : a[j] = s[j]
  BY SubSeqElements, LenProperties
<1>2. /\ b \in Seq(S) /\ Len(b) = Len(s) - i
      /\ \A j \in 1 .. Len(s) - i : b[j] = s[i + j]
  <2>1. i + 1 \in Nat \ {0} /\ Len(s) \in Nat
    BY LenProperties
  <2> QED
    BY <2>1, SubSeqElements
<1> HIDE DEF a, b
<1>3. Len(s) \in Nat /\ Len(a) + Len(b) = Len(s) - 1
  BY <1>1, <1>2, LenProperties
<1>4. /\ a \o b \in Seq(S) /\ Len(a \o b) = Len(a) + Len(b)
      /\ \A j \in 1 .. Len(a) + Len(b) :
           (a \o b)[j] = IF j <= Len(a) THEN a[j] ELSE b[j - Len(a)]
  BY <1>1, <1>2, ConcatProperties
<1>5. ASSUME NEW j \in 1 .. Len(s) - 1
      PROVE  (a \o b)[j] = IF j < i THEN s[j] ELSE s[j + 1]
  <2>1. CASE j < i
    BY <1>1, <1>3, <1>4, <2>1
  <2>2. CASE ~ (j < i)
    <3>1. j - (i - 1) \in 1 .. Len(s) - i /\ ~ (j <= i - 1)
      BY <1>3, <2>2
    <3>2. b[j - (i - 1)] = s[i + (j - (i - 1))]
      BY <1>2, <3>1
    <3>3. i + (j - (i - 1)) = j + 1
      OBVIOUS
    <3> QED
      BY <1>1, <1>3, <1>4, <2>2, <3>1, <3>2, <3>3
  <2> QED
    BY <2>1, <2>2
<1> QED
  BY <1>3, <1>4, <1>5 DEF RemoveAt, Removed, a, b

\* r is s with e put in at index i and the rest moved up.
Inserted(r, s, i, e) ==
    /\ Len(r) = Len(s) + 1
    /\ \A j \in 1 .. Len(s) + 1 :
         r[j] = IF j < i THEN s[j] ELSE IF j = i THEN e ELSE s[j - 1]

\* InsertAt puts the element at its index and moves the rest up.
LEMMA InsertAtElements ==
    ASSUME NEW S, NEW s \in Seq(S), NEW i \in 1 .. Len(s) + 1, NEW e \in S
    PROVE  InsertAt(s, i, e) \in Seq(S) /\ Inserted(InsertAt(s, i, e), s, i, e)
<1> DEFINE a == SubSeq(s, 1, i - 1)
           b == SubSeq(s, i, Len(s))
<1>1. /\ a \in Seq(S) /\ Len(a) = i - 1
      /\ \A j \in 1 .. i - 1 : a[j] = s[j]
  BY SubSeqElements, LenProperties
<1>2. /\ b \in Seq(S) /\ Len(b) = Len(s) - i + 1
      /\ \A j \in 1 .. Len(s) - i + 1 : b[j] = s[i + j - 1]
  <2>1. i \in Nat \ {0} /\ Len(s) \in Nat
    BY LenProperties
  <2> QED
    BY <2>1, SubSeqElements
<1> HIDE DEF a, b
<1>3. <<e>> \in Seq(S) /\ Len(<<e>>) = 1 /\ <<e>>[1] = e
  OBVIOUS
<1>4. /\ a \o <<e>> \in Seq(S) /\ Len(a \o <<e>>) = i
      /\ \A j \in 1 .. i : (a \o <<e>>)[j] = IF j < i THEN s[j] ELSE e
  BY <1>1, <1>3, ConcatProperties
<1> DEFINE c == a \o <<e>>
<1>5. c \in Seq(S) /\ Len(c) = i
      /\ \A j \in 1 .. i : c[j] = IF j < i THEN s[j] ELSE e
  BY <1>4
<1> HIDE DEF c
<1>6. Len(s) \in Nat /\ Len(c) + Len(b) = Len(s) + 1
  BY <1>2, <1>5, LenProperties
<1>7. /\ c \o b \in Seq(S) /\ Len(c \o b) = Len(c) + Len(b)
      /\ \A j \in 1 .. Len(c) + Len(b) :
           (c \o b)[j] = IF j <= Len(c) THEN c[j] ELSE b[j - Len(c)]
  BY <1>2, <1>5, ConcatProperties
<1>8. ASSUME NEW j \in 1 .. Len(s) + 1
      PROVE  (c \o b)[j] = IF j < i THEN s[j] ELSE IF j = i THEN e ELSE s[j - 1]
  <2>1. CASE j <= i
    BY <1>5, <1>6, <1>7, <2>1
  <2>2. CASE ~ (j <= i)
    <3>1. j - i \in 1 .. Len(s) - i + 1
      BY <1>6, <2>2
    <3>2. b[j - i] = s[i + (j - i) - 1]
      BY <1>2, <3>1
    <3>3. i + (j - i) - 1 = j - 1
      OBVIOUS
    <3> QED
      BY <1>5, <1>6, <1>7, <2>2, <3>1, <3>2, <3>3
  <2> QED
    BY <2>1, <2>2
<1> QED
  BY <1>6, <1>7, <1>8 DEF InsertAt, Inserted, a, b, c

-----------------------------------------------------------------------------
\* find_if always has a place to stop, and it is unique; so Link inserts at a
\* place with nothing more urgent, or as urgent, behind it.
LEMMA FirstGreaterStops ==
    ASSUME NEW S, NEW s \in Seq(S), NEW e \in S, NEW key \in [S -> Nat]
    PROVE  /\ FirstGreater(s, key, e) \in 1 .. Len(s) + 1
           /\ StopsAt(s, key, e, FirstGreater(s, key, e))
<1> DEFINE T == {i \in 1 .. Len(s) + 1 : i <= Len(s) => key[s[i]] > key[e]}
<1>1. Len(s) \in Nat /\ \A i \in 1 .. Len(s) : s[i] \in S
  BY LenProperties
<1>2. T \subseteq Nat /\ Len(s) + 1 \in T
  BY <1>1
<1>3. PICK i \in T : \A j \in T : ~ (<<j, i>> \in OpToRel(<, Nat))
  BY <1>2, WFMin, NatLessThanWellFounded
<1>4. \A j \in T : ~ (j < i)
  BY <1>2, <1>3 DEF OpToRel
<1>5. i \in 1 .. Len(s) + 1 /\ StopsAt(s, key, e, i)
  BY <1>1, <1>2, <1>4 DEF StopsAt
<1> QED
  BY <1>5 DEF FirstGreater

-----------------------------------------------------------------------------
\* Unlinking e leaves the other elements, once each, in the order they had.
LEMMA UnlinkElements ==
    ASSUME NEW S, NEW s \in Seq(S), NEW e \in S, Distinct(s)
    PROVE  /\ Unlink(s, e) \in Seq(S)
           /\ Distinct(Unlink(s, e))
           /\ \A x : Contains(Unlink(s, e), x) <=> Contains(s, x) /\ x # e
           /\ \A key \in [S -> Nat] : Ordered(s, key) => Ordered(Unlink(s, e), key)
<1> DEFINE r == Unlink(s, e)
<1>1. CASE ~ Contains(s, e)
  BY <1>1 DEF Unlink, Contains
<1>2. CASE Contains(s, e)
  <2> DEFINE i == Position(s, e)
  <2>1. i \in 1 .. Len(s) /\ s[i] = e
    BY <1>2 DEF Contains, Position
  <2>2. r = RemoveAt(s, i)
    BY <1>2 DEF Unlink
  <2> HIDE DEF i, r
  <2>3. /\ r \in Seq(S) /\ Len(s) \in Nat /\ Len(r) = Len(s) - 1
        /\ \A j \in 1 .. Len(s) - 1 : r[j] = IF j < i THEN s[j] ELSE s[j + 1]
    BY <2>1, <2>2, RemoveAtElements, LenProperties DEF Removed
  <2>4. Distinct(r)
    BY <2>1, <2>3 DEF Distinct
  <2>5. ASSUME NEW x PROVE Contains(r, x) <=> Contains(s, x) /\ x # e
    <3>1. ASSUME Contains(r, x) PROVE Contains(s, x) /\ x # e
      <4>1. PICK j \in 1 .. Len(s) - 1 : r[j] = x
        BY <2>3, <3>1 DEF Contains
      <4>2. CASE j < i
        BY <2>1, <2>3, <4>1, <4>2 DEF Contains, Distinct
      <4>3. CASE ~ (j < i)
        <5>1. j + 1 \in 1 .. Len(s) /\ j + 1 # i /\ s[j + 1] = x
          BY <2>1, <2>3, <4>1, <4>3
        <5> QED
          BY <2>1, <5>1 DEF Contains, Distinct
      <4> QED
        BY <4>2, <4>3
    <3>2. ASSUME Contains(s, x), x # e PROVE Contains(r, x)
      <4>1. PICK j \in 1 .. Len(s) : s[j] = x
        BY <3>2 DEF Contains
      <4>2. CASE j < i
        BY <2>1, <2>3, <4>1, <4>2 DEF Contains
      <4>3. CASE j > i
        <5>1. j - 1 \in 1 .. Len(s) - 1 /\ ~ (j - 1 < i) /\ (j - 1) + 1 = j
          BY <2>1, <2>3, <4>1, <4>3
        <5>2. r[j - 1] = x
          BY <2>3, <4>1, <5>1
        <5> QED
          BY <2>3, <5>1, <5>2 DEF Contains
      <4>4. j # i
        BY <2>1, <3>2, <4>1
      <4> QED
        BY <2>1, <4>2, <4>3, <4>4
    <3> QED
      BY <3>1, <3>2
  <2>6. ASSUME NEW key \in [S -> Nat], Ordered(s, key) PROVE Ordered(r, key)
    <3> DEFINE old(j) == IF j < i THEN j ELSE j + 1
    <3>1. ASSUME NEW j \in 1 .. Len(r)
          PROVE  old(j) \in 1 .. Len(s) /\ r[j] = s[old(j)]
      <4>1. j \in 1 .. Len(s) - 1 /\ i \in 1 .. Len(s)
        BY <2>1, <2>3
      <4>2. r[j] = IF j < i THEN s[j] ELSE s[j + 1]
        BY <2>3, <4>1
      <4>3. CASE j < i
        BY <2>3, <4>1, <4>2, <4>3
      <4>4. CASE ~ (j < i)
        BY <2>3, <4>1, <4>2, <4>4
      <4> QED
        BY <4>3, <4>4
    <3>2. \A j, k \in 1 .. Len(r) : j < k => old(j) < old(k)
      BY <2>1, <2>3
    <3> HIDE DEF old
    <3> QED
      BY <2>6, <3>1, <3>2 DEF Ordered
  <2> QED
    BY <2>3, <2>4, <2>5, <2>6 DEF r
<1> QED
  BY <1>1, <1>2

\* Linking e adds e, once, and keeps the order.
LEMMA LinkElements ==
    ASSUME NEW S, NEW s \in Seq(S), NEW e \in S, NEW key \in [S -> Nat]
    PROVE  /\ Link(s, key, e) \in Seq(S)
           /\ \A x : Contains(Link(s, key, e), x) <=> Contains(s, x) \/ x = e
           /\ Distinct(s) /\ ~ Contains(s, e) => Distinct(Link(s, key, e))
           /\ Ordered(s, key) => Ordered(Link(s, key, e), key)
<1> DEFINE r == Link(s, key, e)
           i == FirstGreater(s, key, e)
<1>1. i \in 1 .. Len(s) + 1 /\ StopsAt(s, key, e, i)
  BY FirstGreaterStops
<1>2. r = InsertAt(s, i, e)
  BY DEF Link
<1> HIDE DEF i, r
<1> DEFINE old(j) == IF j < i THEN j ELSE j - 1
           new(j) == IF j < i THEN j ELSE j + 1
<1>3. Len(s) \in Nat /\ \A j \in 1 .. Len(s) : s[j] \in S
  BY LenProperties
<1>4. /\ r \in Seq(S) /\ Len(r) = Len(s) + 1 /\ r[i] = e
      /\ \A j \in 1 .. Len(s) + 1 :
           j # i => old(j) \in 1 .. Len(s) /\ r[j] = s[old(j)]
  <2>1. /\ r \in Seq(S) /\ Len(r) = Len(s) + 1
        /\ \A j \in 1 .. Len(s) + 1 :
             r[j] = IF j < i THEN s[j] ELSE IF j = i THEN e ELSE s[j - 1]
    <3>1. r \in Seq(S) /\ Inserted(r, s, i, e)
      BY <1>1, <1>2, InsertAtElements
    <3> QED
      BY <3>1 DEF Inserted
  <2>2. r[i] = e
    BY <1>1, <1>3, <2>1
  <2>3. ASSUME NEW j \in 1 .. Len(s) + 1, j # i
        PROVE  old(j) \in 1 .. Len(s) /\ r[j] = s[old(j)]
    BY <1>1, <1>3, <2>1, <2>3
  <2> QED
    BY <2>1, <2>2, <2>3
<1>5. \A j \in 1 .. Len(s) :
        new(j) \in 1 .. Len(s) + 1 /\ new(j) # i /\ old(new(j)) = j
  BY <1>1, <1>3
<1>6. \A j, k \in 1 .. Len(s) + 1 : j # i /\ k # i =>
        /\ old(j) = old(k) => j = k
        /\ j < k => old(j) < old(k)
        /\ j < i <=> old(j) < i
  BY <1>1, <1>3
<1> HIDE DEF old, new
<1>7. ASSUME NEW x PROVE Contains(r, x) <=> Contains(s, x) \/ x = e
  <2>1. ASSUME Contains(r, x), x # e PROVE Contains(s, x)
    <3>1. PICK j \in 1 .. Len(s) + 1 : r[j] = x
      BY <1>4, <2>1 DEF Contains
    <3>2. j # i
      BY <1>4, <2>1, <3>1
    <3> QED
      BY <1>4, <3>1, <3>2 DEF Contains
  <2>2. ASSUME x = e PROVE Contains(r, x)
    BY <1>1, <1>4, <2>2 DEF Contains
  <2>3. ASSUME Contains(s, x) PROVE Contains(r, x)
    <3>1. PICK j \in 1 .. Len(s) : s[j] = x
      BY <2>3 DEF Contains
    <3>2. r[new(j)] = x
      BY <1>4, <1>5, <3>1
    <3> QED
      BY <1>4, <1>5, <3>2 DEF Contains
  <2> QED
    BY <2>1, <2>2, <2>3
<1>8. ASSUME Distinct(s), ~ Contains(s, e) PROVE Distinct(r)
  <2>1. \A j \in 1 .. Len(s) : s[j] # e
    BY <1>8 DEF Contains
  <2>2. SUFFICES ASSUME NEW j \in 1 .. Len(s) + 1, NEW k \in 1 .. Len(s) + 1,
                        r[j] = r[k]
                 PROVE  j = k
    BY <1>4 DEF Distinct
  <2>3. j = i <=> k = i
    BY <1>4, <2>1, <2>2
  <2>4. ASSUME j # i, k # i PROVE j = k
    <3>1. old(j) = old(k)
      BY <1>4, <1>8, <2>2, <2>4 DEF Distinct
    <3> QED
      BY <1>6, <2>4, <3>1
  <2> QED
    BY <2>3, <2>4
<1>9. ASSUME Ordered(s, key) PROVE Ordered(r, key)
  <2>1. \A j \in 1 .. Len(s) : key[s[j]] \in Nat
    BY <1>3
  <2>2. \A j \in 1 .. Len(s) : j < i => key[s[j]] <= key[e]
    BY <1>1 DEF StopsAt
  <2>3. \A j \in 1 .. Len(s) : i <= j => key[e] <= key[s[j]]
    <3>1. SUFFICES ASSUME NEW j \in 1 .. Len(s), i <= j
                   PROVE  key[e] <= key[s[j]]
      OBVIOUS
    <3>2. i \in 1 .. Len(s) /\ key[s[i]] > key[e]
      BY <1>1, <1>3, <3>1 DEF StopsAt
    <3>3. key[s[i]] <= key[s[j]]
      <4>1. CASE i = j
        BY <2>1, <3>2, <4>1
      <4>2. CASE i < j
        BY <1>9, <3>2, <4>2 DEF Ordered
      <4> QED
        BY <1>1, <3>1, <4>1, <4>2
    <3> QED
      BY <2>1, <3>2, <3>3
  <2>4. SUFFICES ASSUME NEW j \in 1 .. Len(s) + 1, NEW k \in 1 .. Len(s) + 1,
                        j < k
                 PROVE  key[r[j]] <= key[r[k]]
    BY <1>4 DEF Ordered
  <2>5. CASE j = i
    <3>1. k # i /\ ~ (k < i)
      BY <1>1, <2>4, <2>5
    <3>2. old(k) \in 1 .. Len(s) /\ r[k] = s[old(k)] /\ i <= old(k)
      BY <1>1, <1>4, <1>6, <3>1
    <3> QED
      BY <1>4, <2>3, <2>5, <3>2
  <2>6. CASE k = i
    <3>1. j # i /\ j < i
      BY <1>1, <2>4, <2>6
    <3>2. old(j) \in 1 .. Len(s) /\ r[j] = s[old(j)] /\ old(j) < i
      BY <1>1, <1>4, <1>6, <3>1
    <3> QED
      BY <1>4, <2>2, <2>6, <3>2
  <2>7. CASE j # i /\ k # i
    <3>1. /\ old(j) \in 1 .. Len(s) /\ old(k) \in 1 .. Len(s)
          /\ r[j] = s[old(j)] /\ r[k] = s[old(k)]
      BY <1>4, <2>7
    <3>2. old(j) < old(k)
      BY <1>6, <2>4, <2>7
    <3> QED
      BY <1>9, <3>1, <3>2 DEF Ordered
  <2> QED
    BY <2>5, <2>6, <2>7
<1> QED
  BY <1>4, <1>7, <1>8, <1>9 DEF r

-----------------------------------------------------------------------------
\* A push keeps the lists consistent, whatever list the element was on.
LEMMA PushedConsistent ==
    ASSUME NEW L, NEW S, NEW none, none \notin L,
           NEW q \in [L -> Seq(S)], NEW p \in [S -> L \cup {none}],
           NEW key \in [S -> Nat], NEW l \in L, NEW e \in S,
           Consistent(q, p)
    PROVE  /\ Pushed(q, p, key, l, e) \in [L -> Seq(S)]
           /\ Consistent(Pushed(q, p, key, l, e), [p EXCEPT ![e] = l])
<1> DEFINE q1 == Erased(q, p, e)
           q2 == Pushed(q, p, key, l, e)
           p2 == [p EXCEPT ![e] = l]
<1>1. DOMAIN q = L /\ DOMAIN p = S
  OBVIOUS
<1>2. ASSUME NEW k \in L
      PROVE  /\ q1[k] \in Seq(S) /\ Distinct(q1[k])
             /\ \A x : Contains(q1[k], x) <=> Contains(q[k], x) /\ x # e
  <2>1. q[k] \in Seq(S) /\ Distinct(q[k])
    BY <1>1 DEF Consistent
  <2>2. CASE p[e] = k
    BY <1>1, <2>1, <2>2, UnlinkElements DEF Erased
  <2>3. CASE p[e] # k
    <3>1. q1[k] = q[k]
      BY <1>1, <2>3 DEF Erased
    <3>2. ~ Contains(q[k], e)
      BY <1>1, <2>3 DEF Consistent
    <3> QED
      BY <2>1, <3>1, <3>2
  <2> QED
    BY <2>2, <2>3
<1>3. DOMAIN q1 = L
  BY <1>1 DEF Erased
<1> HIDE DEF q1
<1>4. q2 = [q1 EXCEPT ![l] = Link(q1[l], key, e)]
  BY DEF Pushed, q1
<1>5. /\ Link(q1[l], key, e) \in Seq(S)
      /\ Distinct(Link(q1[l], key, e))
      /\ \A x : Contains(Link(q1[l], key, e), x) <=> Contains(q1[l], x) \/ x = e
  BY <1>2, LinkElements
<1> HIDE DEF q2
<1>6. q2 \in [L -> Seq(S)]
  <2>1. q1 \in [L -> Seq(S)]
    <3>1. q1 = [k \in L |-> q1[k]]
      BY <1>1 DEF q1, Erased
    <3> QED
      BY <1>2, <3>1
  <2> QED
    BY <1>4, <1>5, <2>1
<1>7. ASSUME NEW k \in L
      PROVE  /\ Distinct(q2[k])
             /\ \A x \in S : p2[x] = k <=> Contains(q2[k], x)
  <2>1. \A x \in S : p[x] = k <=> Contains(q[k], x)
    BY <1>1 DEF Consistent
  <2>2. CASE k = l
    <3>1. q2[k] = Link(q1[l], key, e)
      BY <1>3, <1>4, <2>2
    <3> QED
      BY <1>2, <1>5, <2>1, <2>2, <3>1
  <2>3. CASE k # l
    <3>1. q2[k] = q1[k]
      BY <1>3, <1>4, <2>3
    <3> QED
      BY <1>2, <2>1, <2>3, <3>1
  <2> QED
    BY <2>2, <2>3
<1> QED
  BY <1>1, <1>6, <1>7 DEF Consistent, q2

\* A push keeps every list ordered.
LEMMA PushedOrdered ==
    ASSUME NEW L, NEW S, NEW none, none \notin L,
           NEW q \in [L -> Seq(S)], NEW p \in [S -> L \cup {none}],
           NEW key \in [S -> Nat], NEW l \in L, NEW e \in S,
           Consistent(q, p), \A k \in L : Ordered(q[k], key)
    PROVE  \A k \in L : Ordered(Pushed(q, p, key, l, e)[k], key)
<1> DEFINE q1 == Erased(q, p, e)
<1>1. DOMAIN q = L /\ DOMAIN q1 = L
  BY DEF Erased
<1>2. ASSUME NEW k \in L PROVE q1[k] \in Seq(S) /\ Ordered(q1[k], key)
  <2>1. q[k] \in Seq(S) /\ Distinct(q[k]) /\ Ordered(q[k], key)
    BY <1>1 DEF Consistent
  <2>2. Unlink(q[k], e) \in Seq(S) /\ Ordered(Unlink(q[k], e), key)
    BY <2>1, UnlinkElements
  <2> QED
    BY <1>1, <2>1, <2>2 DEF Erased
<1> HIDE DEF q1
<1>3. Pushed(q, p, key, l, e) = [q1 EXCEPT ![l] = Link(q1[l], key, e)]
  BY DEF Pushed, q1
<1>4. Ordered(Link(q1[l], key, e), key)
  BY <1>2, LinkElements
<1> QED
  BY <1>1, <1>2, <1>3, <1>4

-----------------------------------------------------------------------------
\* d is the last element of s.
EndsWith(s, d) == Len(s) # 0 /\ s[Len(s)] = d

\* Unlinking another element leaves the last one last.
LEMMA UnlinkKeepsLast ==
    ASSUME NEW S, NEW s \in Seq(S), NEW d \in S, NEW e \in S,
           EndsWith(s, d), e # d
    PROVE  EndsWith(Unlink(s, e), d)
<1>1. CASE ~ Contains(s, e)
  BY <1>1 DEF Unlink
<1>2. CASE Contains(s, e)
  <2> DEFINE i == Position(s, e)
             r == RemoveAt(s, i)
  <2>1. i \in 1 .. Len(s) /\ s[i] = e
    BY <1>2 DEF Contains, Position
  <2>2. Unlink(s, e) = r
    BY <1>2 DEF Unlink
  <2> HIDE DEF i
  <2>3. Removed(r, s, i)
    BY <2>1, RemoveAtElements
  <2> HIDE DEF r
  <2>4. Len(s) \in Nat /\ i \in Nat \ {0} /\ i < Len(s)
    BY <2>1, LenProperties DEF EndsWith
  <2>5. Len(r) = Len(s) - 1 /\ r[Len(s) - 1] = s[Len(s)]
    BY <2>1, <2>3, <2>4 DEF Removed
  <2> QED
    BY <2>2, <2>4, <2>5 DEF EndsWith
<1> QED
  BY <1>1, <1>2

\* Linking an element in front of a last one with a greater key.
LEMMA LinkKeepsLast ==
    ASSUME NEW S, NEW s \in Seq(S), NEW d \in S, NEW e \in S,
           NEW key \in [S -> Nat], EndsWith(s, d), key[e] < key[d]
    PROVE  EndsWith(Link(s, key, e), d)
<1> DEFINE i == FirstGreater(s, key, e)
           r == Link(s, key, e)
<1>1. i \in 1 .. Len(s) + 1 /\ StopsAt(s, key, e, i)
  BY FirstGreaterStops
<1> HIDE DEF i
<1>2. r = InsertAt(s, i, e)
  BY DEF Link, i
<1>3. Inserted(r, s, i, e)
  BY <1>1, <1>2, InsertAtElements
<1> HIDE DEF r
<1>4. Len(s) \in Nat /\ Len(s) # 0 /\ s[Len(s)] = d
  BY LenProperties DEF EndsWith
<1>5. i <= Len(s)
  BY <1>1, <1>4 DEF StopsAt
<1>6. Len(r) = Len(s) + 1 /\ r[Len(s) + 1] = s[Len(s)]
  BY <1>1, <1>3, <1>4, <1>5 DEF Inserted
<1> QED
  BY <1>4, <1>6 DEF EndsWith, r

\* A push of another element leaves the last element of every list last, if
\* its key is greater.
LEMMA PushedKeepsLast ==
    ASSUME NEW L, NEW S, NEW q \in [L -> Seq(S)], NEW p,
           NEW key \in [S -> Nat], NEW l \in L, NEW e \in S,
           NEW k \in L, NEW d \in S,
           Consistent(q, p), EndsWith(q[k], d), key[e] < key[d]
    PROVE  EndsWith(Pushed(q, p, key, l, e)[k], d)
<1> DEFINE q1 == Erased(q, p, e)
<1>1. e # d /\ DOMAIN q1 = L
  BY DEF Erased
<1>2. EndsWith(q1[k], d) /\ q1[k] \in Seq(S)
  <2>1. Distinct(q[k])
    BY DEF Consistent
  <2>2. EndsWith(Unlink(q[k], e), d) /\ Unlink(q[k], e) \in Seq(S)
    BY <1>1, <2>1, UnlinkKeepsLast, UnlinkElements
  <2> QED
    BY <2>2 DEF Erased
<1> HIDE DEF q1
<1>3. Pushed(q, p, key, l, e) = [q1 EXCEPT ![l] = Link(q1[l], key, e)]
  BY DEF Pushed, q1
<1>4. EndsWith(Link(q1[k], key, e), d)
  BY <1>2, LinkKeepsLast
<1> QED
  BY <1>1, <1>2, <1>3, <1>4

\* A push makes no list but its own longer: what was empty stays empty.
LEMMA PushedKeepsEmpty ==
    ASSUME NEW L, NEW S, NEW q \in [L -> Seq(S)], NEW p, NEW key,
           NEW l \in L, NEW e \in S, NEW k \in L, k # l, q[k] = <<>>
    PROVE  Pushed(q, p, key, l, e)[k] = <<>>
<1>1. Unlink(<<>>, e) = <<>>
  BY EmptySeq DEF Unlink, Contains
<1> QED
  BY <1>1 DEF Pushed, Erased

-----------------------------------------------------------------------------
\* Unlinking e leaves the other elements in the order they had.
LEMMA UnlinkKeepsPlaces ==
    ASSUME NEW S, NEW s \in Seq(S), NEW e, NEW a, NEW b, a # e, b # e
    PROVE  Precedes(Unlink(s, e), a, b) <=> Precedes(s, a, b)
<1> DEFINE r == Unlink(s, e)
<1>1. CASE ~ Contains(s, e)
  BY <1>1 DEF Unlink
<1>2. CASE Contains(s, e)
  <2> DEFINE i == Position(s, e)
             old(j) == IF j < i THEN j ELSE j + 1
             new(j) == IF j < i THEN j ELSE j - 1
  <2>1. i \in 1 .. Len(s) /\ s[i] = e
    BY <1>2 DEF Contains, Position
  <2>2. r = RemoveAt(s, i)
    BY <1>2 DEF Unlink
  <2> HIDE DEF i, r
  <2>3. /\ Len(s) \in Nat /\ Len(r) = Len(s) - 1
        /\ \A j \in 1 .. Len(r) : r[j] = s[old(j)]
    BY <2>1, <2>2, RemoveAtElements, LenProperties DEF Removed
  <2>4. /\ \A j \in 1 .. Len(r) : old(j) \in 1 .. Len(s)
        /\ \A j, k \in 1 .. Len(r) : j < k => old(j) < old(k)
    BY <2>1, <2>3
  <2>5. /\ \A j \in 1 .. Len(s) : j # i => new(j) \in 1 .. Len(r) /\ old(new(j)) = j
        /\ \A j, k \in 1 .. Len(s) : j # i /\ k # i /\ j < k => new(j) < new(k)
    BY <2>1, <2>3
  <2> HIDE DEF old, new
  <2>6. ASSUME Precedes(r, a, b) PROVE Precedes(s, a, b)
    BY <2>3, <2>4, <2>6 DEF Precedes
  <2>7. ASSUME Precedes(s, a, b) PROVE Precedes(r, a, b)
    <3>1. PICK j \in 1 .. Len(s), k \in 1 .. Len(s) : j < k /\ s[j] = a /\ s[k] = b
      BY <2>7 DEF Precedes
    <3>2. j # i /\ k # i
      BY <2>1, <3>1
    <3> QED
      BY <2>3, <2>5, <3>1, <3>2 DEF Precedes
  <2> QED
    BY <2>6, <2>7 DEF r
<1> QED
  BY <1>1, <1>2

\* Linking e leaves the other elements in the order they had, and puts e in
\* front of less urgent elements only.
LEMMA LinkKeepsPlaces ==
    ASSUME NEW S, NEW s \in Seq(S), NEW e \in S, NEW key \in [S -> Nat],
           NEW a, NEW b, a # e, b # e
    PROVE  /\ Precedes(Link(s, key, e), a, b) <=> Precedes(s, a, b)
           /\ Ordered(s, key) /\ ~ Contains(s, e)
              /\ Precedes(Link(s, key, e), e, b)
                => key[e] < key[b]
<1> DEFINE r == Link(s, key, e)
           i == FirstGreater(s, key, e)
           old(j) == IF j < i THEN j ELSE j - 1
           new(j) == IF j < i THEN j ELSE j + 1
<1>1. i \in 1 .. Len(s) + 1 /\ StopsAt(s, key, e, i)
  BY FirstGreaterStops
<1>2. r = InsertAt(s, i, e)
  BY DEF Link
<1> HIDE DEF i, r
<1>3. Inserted(r, s, i, e) /\ Len(s) \in Nat /\ \A j \in 1 .. Len(s) : s[j] \in S
  BY <1>1, <1>2, InsertAtElements, LenProperties
<1>4. /\ Len(r) = Len(s) + 1 /\ r[i] = e
      /\ \A j \in 1 .. Len(r) : j # i => old(j) \in 1 .. Len(s) /\ r[j] = s[old(j)]
  BY <1>1, <1>3 DEF Inserted
<1>5. /\ \A j \in 1 .. Len(s) :
           new(j) \in 1 .. Len(r) /\ new(j) # i /\ old(new(j)) = j
      /\ \A j, k \in 1 .. Len(s) : j < k => new(j) < new(k)
      /\ \A j, k \in 1 .. Len(r) : j # i /\ k # i /\ j < k => old(j) < old(k)
      /\ \A j \in 1 .. Len(r) : j > i => old(j) >= i
  BY <1>1, <1>3, <1>4
<1> HIDE DEF old, new
<1>6. ASSUME Precedes(r, a, b) PROVE Precedes(s, a, b)
  <2>1. PICK j \in 1 .. Len(r), k \in 1 .. Len(r) : j < k /\ r[j] = a /\ r[k] = b
    BY <1>6 DEF Precedes
  <2>2. j # i /\ k # i
    BY <1>4, <2>1
  <2> QED
    BY <1>4, <1>5, <2>1, <2>2 DEF Precedes
<1>7. ASSUME Precedes(s, a, b) PROVE Precedes(r, a, b)
  <2>1. PICK j \in 1 .. Len(s), k \in 1 .. Len(s) : j < k /\ s[j] = a /\ s[k] = b
    BY <1>7 DEF Precedes
  <2>2. r[new(j)] = a /\ r[new(k)] = b
    BY <1>4, <1>5, <2>1
  <2> QED
    BY <1>5, <2>1, <2>2 DEF Precedes
<1>8. ASSUME Ordered(s, key), ~ Contains(s, e), Precedes(r, e, b)
      PROVE  key[e] < key[b]
  <2>1. PICK j \in 1 .. Len(r), k \in 1 .. Len(r) : j < k /\ r[j] = e /\ r[k] = b
    BY <1>8 DEF Precedes
  <2>2. j = i
    BY <1>4, <1>8, <2>1 DEF Contains
  <2> DEFINE m == old(k)
  <2>3. m \in 1 .. Len(s) /\ s[m] = b /\ i <= m
    BY <1>1, <1>4, <1>5, <2>1, <2>2
  <2> HIDE DEF m
  <2>4. i \in 1 .. Len(s) /\ key[s[i]] > key[e]
    BY <1>1, <1>3, <2>3 DEF StopsAt
  <2>5. key[s[i]] <= key[s[m]]
    <3>1. CASE i = m
      BY <1>3, <2>3, <3>1
    <3>2. CASE i < m
      BY <1>8, <2>3, <2>4, <3>2 DEF Ordered
    <3> QED
      BY <2>3, <2>4, <3>1, <3>2
  <2>6. key[s[i]] \in Nat /\ key[s[m]] \in Nat /\ key[e] \in Nat
    BY <1>3, <2>3, <2>4
  <2> QED
    BY <2>3, <2>4, <2>5, <2>6
<1> QED
  BY <1>6, <1>7, <1>8 DEF r

\* A push leaves the elements it does not push in the order they had, on every
\* list, and overtakes less urgent elements only.
LEMMA PushedKeepsPlaces ==
    ASSUME NEW L, NEW S, NEW none,
           NEW q \in [L -> Seq(S)], NEW p \in [S -> L \cup {none}],
           NEW key \in [S -> Nat], NEW l \in L, NEW e \in S,
           Consistent(q, p), NEW k \in L
    PROVE  /\ \A a, b : a # e /\ b # e
                => (Precedes(Pushed(q, p, key, l, e)[k], a, b)
                      <=> Precedes(q[k], a, b))
           /\ \A b : /\ Ordered(q[l], key) /\ b # e
                     /\ Precedes(Pushed(q, p, key, l, e)[l], e, b)
                     => key[e] < key[b]
<1> DEFINE q1 == Erased(q, p, e)
<1>1. DOMAIN q = L /\ DOMAIN p = S /\ DOMAIN q1 = L
  BY DEF Erased
<1>2. ASSUME NEW j \in L
      PROVE  /\ q1[j] \in Seq(S) /\ ~ Contains(q1[j], e)
             /\ \A a, b : a # e /\ b # e
                  => (Precedes(q1[j], a, b) <=> Precedes(q[j], a, b))
             /\ Ordered(q[j], key) => Ordered(q1[j], key)
  <2>1. q[j] \in Seq(S) /\ Distinct(q[j]) /\ (p[e] = j <=> Contains(q[j], e))
    BY <1>1 DEF Consistent
  <2>2. CASE p[e] = j
    <3>1. q1[j] = Unlink(q[j], e)
      BY <1>1, <2>2 DEF Erased
    <3> QED
      BY <2>1, <3>1, UnlinkElements, UnlinkKeepsPlaces
  <2>3. CASE p[e] # j
    <3>1. q1[j] = q[j]
      BY <1>1, <2>3 DEF Erased
    <3> QED
      BY <2>1, <2>3, <3>1
  <2> QED
    BY <2>2, <2>3
<1> HIDE DEF q1
<1>3. Pushed(q, p, key, l, e) = [q1 EXCEPT ![l] = Link(q1[l], key, e)]
  BY DEF Pushed, q1
<1>4. ASSUME NEW a, NEW b, a # e, b # e
      PROVE  Precedes(Link(q1[l], key, e), a, b) <=> Precedes(q1[l], a, b)
  BY <1>2, <1>4, LinkKeepsPlaces
<1>5. ASSUME Ordered(q1[l], key), NEW b, b # e,
             Precedes(Link(q1[l], key, e), e, b)
      PROVE  key[e] < key[b]
  <2>1. PICK a : a # e
    BY <1>5
  <2> QED
    BY <1>2, <1>5, <2>1, LinkKeepsPlaces
<1> QED
  BY <1>1, <1>2, <1>3, <1>4, <1>5

\* In a list that links nothing twice, nothing precedes itself, two elements
\* do not precede each other, and nothing precedes the first.
LEMMA PlacesAreOrdered ==
    ASSUME NEW S, NEW s \in Seq(S), Distinct(s)
    PROVE  /\ \A a : ~ Precedes(s, a, a)
           /\ \A a, b : Precedes(s, a, b) => ~ Precedes(s, b, a)
           /\ s # <<>> => \A a : ~ Precedes(s, a, Head(s))
<1>1. Len(s) \in Nat
  BY LenProperties
<1>2. s # <<>> => 1 \in 1 .. Len(s) /\ Head(s) = s[1]
  BY <1>1, HeadTailProperties, EmptySeq
<1> QED
  BY <1>1, <1>2 DEF Precedes, Distinct

\* Only elements of a list have places in it.
LEMMA PlacesAreElements ==
    ASSUME NEW S, NEW s \in Seq(S)
    PROVE  \A a, b : Precedes(s, a, b)
             => a \in S /\ Contains(s, a) /\ b \in S /\ Contains(s, b)
  BY LenProperties DEF Precedes, Contains

-----------------------------------------------------------------------------
\* s is the end of q: what an iterator that stands in q has still to visit.
EndOf(s, q) ==
    /\ Len(s) <= Len(q)
    /\ \A i \in 1 .. Len(s) : s[i] = q[Len(q) - Len(s) + i]

\* That is what the community modules call a suffix.
LEMMA EndIsSuffix ==
    ASSUME NEW S, NEW s \in Seq(S), NEW q \in Seq(S), EndOf(s, q)
    PROVE  IsSuffix(s, q)
<1> DEFINE r == Reverse(s)
           w == Reverse(q)
<1>1. /\ Len(s) \in Nat /\ Len(q) \in Nat /\ Len(s) <= Len(q)
      /\ \A i \in 1 .. Len(s) : s[i] \in S
      /\ \A i \in 1 .. Len(q) : q[i] \in S
  BY LenProperties DEF EndOf
<1>2. /\ r \in Seq(S) /\ Len(r) = Len(s)
      /\ \A i \in 1 .. Len(s) : r[i] = s[Len(s) - i + 1]
  <2>1. r = [i \in 1 .. Len(s) |-> s[Len(s) - i + 1]]
    BY DEF Reverse
  <2>2. \A i \in 1 .. Len(s) : Len(s) - i + 1 \in 1 .. Len(s)
    BY <1>1
  <2> QED
    BY <1>1, <2>1, <2>2
<1>3. /\ w \in Seq(S) /\ Len(w) = Len(q)
      /\ \A i \in 1 .. Len(q) : w[i] = q[Len(q) - i + 1]
  <2>1. w = [i \in 1 .. Len(q) |-> q[Len(q) - i + 1]]
    BY DEF Reverse
  <2>2. \A i \in 1 .. Len(q) : Len(q) - i + 1 \in 1 .. Len(q)
    BY <1>1
  <2> QED
    BY <1>1, <2>1, <2>2
<1> HIDE DEF r, w
<1>4. \A i \in 1 .. Len(s) : r[i] = w[i]
  <2> SUFFICES ASSUME NEW i \in 1 .. Len(s) PROVE r[i] = w[i]
    OBVIOUS
  <2> DEFINE j == Len(s) - i + 1
  <2>1. j \in 1 .. Len(s) /\ Len(q) - Len(s) + j = Len(q) - i + 1
    BY <1>1
  <2>2. s[j] = q[Len(q) - Len(s) + j]
    BY <2>1 DEF EndOf
  <2>3. r[i] = s[j] /\ w[i] = q[Len(q) - i + 1]
    BY <1>1, <1>2, <1>3
  <2> QED
    BY <2>1, <2>2, <2>3
<1> DEFINE a == SubSeq(r, 1, Len(r))
           b == SubSeq(w, 1, Len(r))
<1>5. /\ a \in Seq(S) /\ Len(a) = Len(s)
      /\ \A i \in 1 .. Len(s) : a[i] = r[i]
  BY <1>1, <1>2, SubSeqElements
<1>6. /\ b \in Seq(S) /\ Len(b) = Len(s)
      /\ \A i \in 1 .. Len(s) : b[i] = w[i]
  BY <1>1, <1>2, <1>3, SubSeqElements
<1> HIDE DEF a, b
<1>7. a = b
  BY <1>4, <1>5, <1>6, SeqEqual
<1> QED
  BY <1>1, <1>2, <1>3, <1>7 DEF IsSuffix, IsPrefix, a, b, r, w

\* What is to be visited is linked, once each.
LEMMA EndIsLinked ==
    ASSUME NEW S, NEW s \in Seq(S), NEW q \in Seq(S), EndOf(s, q), Distinct(q)
    PROVE  Distinct(s) /\ \A i \in 1 .. Len(s) : Contains(q, s[i])
<1>1. Len(s) \in Nat /\ Len(q) \in Nat /\ Len(s) <= Len(q)
  BY LenProperties DEF EndOf
<1> DEFINE at(i) == Len(q) - Len(s) + i
<1>2. \A i \in 1 .. Len(s) : at(i) \in 1 .. Len(q) /\ s[i] = q[at(i)]
  BY <1>1 DEF EndOf
<1>3. \A i, j \in 1 .. Len(s) : at(i) = at(j) => i = j
  BY <1>1
<1> HIDE DEF at
<1> QED
  BY <1>2, <1>3 DEF Contains, Distinct

\* The iterator goes on to the next element, whether the one it stood at is
\* unlinked or not.
LEMMA EndGoesOn ==
    ASSUME NEW S, NEW s \in Seq(S), NEW q \in Seq(S), s # <<>>,
           EndOf(s, q), Distinct(q)
    PROVE  /\ EndOf(Tail(s), q)
           /\ EndOf(Tail(s), Unlink(q, Head(s)))
<1> DEFINE i == Len(q) - Len(s) + 1
           r == Tail(s)
<1>1. /\ Len(s) \in Nat \ {0} /\ Len(q) \in Nat /\ Len(s) <= Len(q)
      /\ Head(s) = s[1] /\ r \in Seq(S) /\ Len(r) = Len(s) - 1
      /\ \A j \in 1 .. Len(r) : r[j] = s[j + 1]
  BY LenProperties, HeadTailProperties, EmptySeq DEF EndOf
<1> HIDE DEF r
<1>2. i \in 1 .. Len(q) /\ q[i] = Head(s)
  BY <1>1 DEF EndOf
<1>3. ASSUME NEW j \in 1 .. Len(r) PROVE r[j] = q[i + j] /\ i + j \in 1 .. Len(q)
  <2>1. j + 1 \in 1 .. Len(s) /\ Len(q) - Len(s) + (j + 1) = i + j
    BY <1>1
  <2>2. s[j + 1] = q[Len(q) - Len(s) + (j + 1)]
    BY <2>1 DEF EndOf
  <2> QED
    BY <1>1, <2>1, <2>2
<1>4. EndOf(r, q)
  BY <1>1, <1>3 DEF EndOf
<1>5. EndOf(r, Unlink(q, Head(s)))
  <2> DEFINE u == Unlink(q, Head(s))
  <2>1. Contains(q, Head(s)) /\ Position(q, Head(s)) = i
    BY <1>2 DEF Contains, Position, Distinct
  <2>2. u = RemoveAt(q, i)
    BY <2>1 DEF Unlink
  <2> HIDE DEF i
  <2>3. Removed(u, q, i)
    BY <1>2, <2>2, RemoveAtElements
  <2> HIDE DEF u
  <2>4. ASSUME NEW j \in 1 .. Len(r) PROVE r[j] = u[Len(u) - Len(r) + j]
    <3>1. /\ Len(u) = Len(q) - 1 /\ i = Len(q) - Len(s) + 1
          /\ i + j - 1 \in 1 .. Len(q) - 1 /\ ~ (i + j - 1 < i)
          /\ Len(u) - Len(r) + j = i + j - 1
      BY <1>1, <1>2, <1>3, <2>3 DEF Removed, i
    <3>2. u[i + j - 1] = q[(i + j - 1) + 1]
      BY <2>3, <3>1 DEF Removed
    <3>3. (i + j - 1) + 1 = i + j
      BY <1>1, <3>1
    <3> QED
      BY <1>3, <3>1, <3>2, <3>3
  <2>5. Len(r) <= Len(u)
    BY <1>1, <2>3 DEF Removed
  <2> QED
    BY <2>4, <2>5 DEF EndOf, u
<1> QED
  BY <1>4, <1>5 DEF r

-----------------------------------------------------------------------------
(***************************************************************************)
(* The lists are always consistent.                                        *)
(***************************************************************************)

Lists == TypeOK /\ ListsConsistent

\* The lists are functions of the lists' names, and stay so.
LEMMA PushKeepsLists ==
    ASSUME Lists, NEW l \in List, NEW t \in Linkable, Push(l, t)
    PROVE  /\ queue' \in [List -> Seq(Linkable)]
           /\ parent' \in [Linkable -> List \cup {NoList}]
           /\ parent' = [parent EXCEPT ![t] = l]
           /\ ListsConsistent'
<1>1. /\ queue \in [List -> Seq(Linkable)]
      /\ parent \in [Linkable -> List \cup {NoList}]
      /\ priority \in [Linkable -> Nat]
      /\ Consistent(queue, parent)
      /\ NoList \notin List
  BY ListsAssumption DEF Lists, TypeOK, ListsConsistent
<1>2. /\ queue' = Pushed(queue, parent, priority, l, t)
      /\ parent' = [parent EXCEPT ![t] = l]
  BY DEF Push
<1>3. /\ Pushed(queue, parent, priority, l, t) \in [List -> Seq(Linkable)]
      /\ Consistent(Pushed(queue, parent, priority, l, t),
                    [parent EXCEPT ![t] = l])
  BY <1>1, PushedConsistent
<1> QED
  BY <1>1, <1>2, <1>3 DEF ListsConsistent

\* The head of a list is a TCB whose parentList names that list.
LEMMA HeadOfList ==
    ASSUME Lists, NEW l \in List, queue[l] # <<>>
    PROVE  Head(queue[l]) \in Linkable /\ parent[Head(queue[l])] = l
<1>1. queue[l] \in Seq(Linkable) /\ DOMAIN queue = List /\ DOMAIN parent = Linkable
  BY DEF Lists, TypeOK
<1>2. /\ Head(queue[l]) \in Linkable
      /\ Len(queue[l]) \in Nat \ {0}
      /\ Head(queue[l]) = queue[l][1]
  BY <1>1, HeadTailProperties, EmptySeq
<1>3. Contains(queue[l], Head(queue[l]))
  BY <1>2 DEF Contains
<1> QED
  BY <1>1, <1>2, <1>3 DEF Lists, ListsConsistent, Consistent

\* The sum of ticks is cut to the counter's width.
LEMMA TicksWrap ==
    ASSUME NEW a \in Nat, NEW b \in Nat
    PROVE  (a + b) % TickModulus \in 0 .. TickModulus - 1
  BY TimeAssumption

\* Application tasks and the idle task can be linked, all can be current.
LEMMA TaskIsLinkable == Task \subseteq Linkable /\ Idle \in Linkable
                        /\ Linkable \subseteq TCB /\ Main \in TCB
  BY DEF Linkable, TCB

\* What the lists are called.
LEMMA ListNames == /\ ReadyTasks \in List /\ DelayedTasks \in List
                   /\ BlockList \subseteq List
  BY DEF List

-----------------------------------------------------------------------------
\* The constructor leaves consistent lists, with only the idle task on one.
LEMMA ListsInit == Init => Lists
<1> SUFFICES ASSUME Init PROVE Lists
  OBVIOUS
<1> USE DEF Init
<1>1. queue \in [List -> Seq(Linkable)]
  BY TaskIsLinkable
<1>2. TypeOK
  <2>1. parent \in [Linkable -> List \cup {NoList}]
    BY ListNames
  <2>2. priority \in [Linkable -> Nat]
    BY PriorityAssumption DEF InitialPriority
  <2>3. systicks \in 0 .. TickModulus - 1
        /\ tickDelay \in [Linkable -> 0 .. TickModulus - 1]
    BY TimeAssumption
  <2>4. frame \in [Linkable -> Frame]
    BY DEF Frame
  <2>5. hook \in [Linkable -> BOOLEAN] /\ reason \in [Linkable -> Reason]
    BY DEF Reason
  <2>6. /\ pendSV \in BOOLEAN /\ held \in BOOLEAN /\ mustSwitch \in BOOLEAN
        /\ scan \in Seq(Linkable) /\ current \in TCB
    BY TaskIsLinkable, EmptySeq
  <2> QED
    BY <1>1, <2>1, <2>2, <2>3, <2>4, <2>5, <2>6 DEF TypeOK
<1>3. ListsConsistent
  <2>1. \A e \in Linkable, l \in List :
          parent[e] = l <=> Contains(queue[l], e)
    <3> TAKE e \in Linkable, l \in List
    <3>1. l # NoList
      BY ListsAssumption
    <3>2. CASE l = ReadyTasks
      <4>1. queue[l] = <<Idle>>
        BY <3>2
      <4>2. Contains(queue[l], e) <=> e = Idle
        BY <4>1 DEF Contains
      <4> QED
        BY <3>1, <3>2, <4>2
    <3>3. CASE l # ReadyTasks
      <4>1. queue[l] = <<>>
        BY <3>3
      <4> QED
        BY <3>1, <3>3, <4>1 DEF Contains
    <3> QED
      BY <3>2, <3>3
  <2>2. \A l \in List : Distinct(queue[l])
    BY DEF Distinct
  <2> QED
    BY <2>1, <2>2 DEF ListsConsistent, Consistent
<1> QED
  BY <1>2, <1>3 DEF Lists

-----------------------------------------------------------------------------
\* Every step keeps the types and the lists.
LEMMA ListsNext == Lists /\ [Next]_vars => Lists'
<1> SUFFICES ASSUME Lists, [Next]_vars PROVE Lists'
  OBVIOUS
<1> USE TaskIsLinkable, ListNames
<1>1. ASSUME NEW t \in Task, NEW n \in PriorityRange, SetPriority(t, n)
      PROVE  Lists'
  <2>1. priority' \in [Linkable -> Nat]
    BY <1>1, PriorityAssumption DEF Lists, TypeOK, SetPriority
  <2> QED
    BY <1>1, <2>1 DEF Lists, TypeOK, ListsConsistent, SetPriority, lists, tick, block
<1>2. ASSUME NEW t \in Task, Start(t) PROVE Lists'
  <2>1. frame' \in [Linkable -> Frame]
    BY <1>2 DEF Lists, TypeOK, Start, Frame
  <2> QED
    BY <1>2, <2>1, PushKeepsLists DEF Lists, TypeOK, Start, tick, block
<1>3. ASSUME NEW t \in Task, BlockReturn(t) PROVE Lists'
  <2>1. frame' \in [Linkable -> Frame]
    BY <1>3 DEF Lists, TypeOK, BlockReturn, Frame
  <2> QED
    BY <1>3, <2>1 DEF Lists, TypeOK, ListsConsistent, BlockReturn, lists, tick, block
<1>4. ASSUME NEW caller \in Task, NEW t \in Task, Yield(caller, t) PROVE Lists'
  BY <1>4, PushKeepsLists DEF Lists, TypeOK, Yield, tick, block
<1>5. ASSUME NEW t \in Task, NEW n \in Delays, PushDelayed(t, n)
      PROVE  /\ queue' \in [List -> Seq(Linkable)]
             /\ parent' \in [Linkable -> List \cup {NoList}]
             /\ ListsConsistent'
             /\ tickDelay' \in [Linkable -> 0 .. TickModulus - 1]
  <2>1. (systicks + n) % TickModulus \in 0 .. TickModulus - 1
    BY TimeAssumption, TicksWrap DEF Lists, TypeOK
  <2>2. tickDelay' \in [Linkable -> 0 .. TickModulus - 1]
    BY <1>5, <2>1 DEF Lists, TypeOK, PushDelayed
  <2> QED
    BY <1>5, <2>2, PushKeepsLists DEF PushDelayed
<1>6. ASSUME NEW t \in Task, NEW n \in Delays, Delay(t, n) PROVE Lists'
  BY <1>5, <1>6 DEF Lists, TypeOK, Delay, tick, block
<1>7. ASSUME NEW caller \in Task, NEW t \in Task, NEW n \in Delays,
             DelayOther(caller, t, n)
      PROVE  Lists'
  BY <1>5, <1>7 DEF Lists, TypeOK, DelayOther, tick, block
<1>8. ASSUME NEW t \in Task, NEW l \in BlockList, Block(t, l) PROVE Lists'
  <2>1. /\ frame' \in [Linkable -> Frame]
        /\ hook' \in [Linkable -> BOOLEAN]
        /\ reason' \in [Linkable -> Reason]
    BY <1>8 DEF Lists, TypeOK, Block, Frame, Reason
  <2> QED
    BY <1>8, <2>1, PushKeepsLists DEF Lists, TypeOK, Block, tick
<1>9. ASSUME NEW l \in BlockList, Unblock(l) PROVE Lists'
  <2> DEFINE t == Head(queue[l])
  <2>1. t \in Linkable /\ UnblockTask(t)
    BY <1>9, HeadOfList DEF Unblock
  <2> HIDE DEF t
  <2>2. /\ hook' \in [Linkable -> BOOLEAN]
        /\ reason' \in [Linkable -> Reason]
    BY <2>1 DEF Lists, TypeOK, UnblockTask, Reason
  <2> QED
    BY <1>9, <2>1, <2>2, PushKeepsLists
       DEF Lists, TypeOK, Unblock, UnblockTask, tick
<1>10. ASSUME Tick PROVE Lists'
  <2>1. systicks' \in 0 .. TickModulus - 1
    BY <1>10, TicksWrap DEF Lists, TypeOK, Tick
  <2>2. scan' \in Seq(Linkable) /\ pendSV' \in BOOLEAN
    BY <1>10 DEF Lists, TypeOK, Tick
  <2> QED
    BY <1>10, <2>1, <2>2 DEF Lists, TypeOK, ListsConsistent, Tick, lists, block
<1>11. ASSUME TickVisit PROVE Lists'
  <2> DEFINE t == Head(scan)
  <2>1. t \in Linkable /\ scan' \in Seq(Linkable)
    BY <1>11, HeadTailProperties DEF Lists, TypeOK, TickVisit
  <2>2. CASE Expired(t)
    <3>1. Push(ReadyTasks, t) /\ mustSwitch' = TRUE
      BY <1>11, <2>2 DEF TickVisit
    <3>2. tickDelay' \in [Linkable -> 0 .. TickModulus - 1]
      <4>1. Interval[t] \in Nat /\ systicks \in Nat
        BY <2>1, TimeAssumption DEF Lists, TypeOK
      <4>2. (systicks + Interval[t]) % TickModulus \in 0 .. TickModulus - 1
        BY <4>1, TicksWrap
      <4>3. 0 \in 0 .. TickModulus - 1
        BY TimeAssumption
      <4> QED
        BY <1>11, <2>2, <4>2, <4>3 DEF Lists, TypeOK, TickVisit
    <3>3. pendSV' \in BOOLEAN
      BY <1>11, <3>1 DEF TickVisit
    <3> HIDE DEF t
    <3> QED
      BY <1>11, <2>1, <3>1, <3>2, <3>3, PushKeepsLists
         DEF Lists, TypeOK, TickVisit, block
  <2>3. CASE ~ Expired(t)
    <3>1. UNCHANGED <<lists, tickDelay, mustSwitch>>
      BY <1>11, <2>3 DEF TickVisit
    <3>2. pendSV' \in BOOLEAN
      BY <1>11, <3>1 DEF Lists, TypeOK, TickVisit
    <3> QED
      BY <1>11, <2>1, <3>1, <3>2
         DEF Lists, TypeOK, ListsConsistent, TickVisit, lists, block
  <2> QED
    BY <2>2, <2>3
<1>12. ASSUME SwitchContext PROVE Lists'
  <2>1. current' \in Linkable
    BY <1>12, HeadOfList DEF SwitchContext
  <2>2. frame' \in [Linkable -> Frame]
    BY <1>12, <2>1 DEF Lists, TypeOK, SwitchContext, Frame
  <2> QED
    BY <1>12, <2>1, <2>2
       DEF Lists, TypeOK, ListsConsistent, SwitchContext, lists, tick, block
<1>13. ASSUME UNCHANGED vars PROVE Lists'
  BY <1>13 DEF Lists, TypeOK, ListsConsistent, vars
<1> QED
  BY <1>1, <1>2, <1>3, <1>4, <1>6, <1>7, <1>8, <1>9, <1>10, <1>11, <1>12, <1>13
     DEF Next

\* Every variable keeps its type, and every TCB is linked once on the list its
\* parentList names, whatever the operations and the tick handler do.
THEOREM ListsAreConsistent == Spec => [](TypeOK /\ ListsConsistent)
<1>1. Lists => TypeOK /\ ListsConsistent
  BY DEF Lists
<1> QED
  BY <1>1, ListsInit, ListsNext, PTL DEF Spec

\* The types alone.
THEOREM SchedulerIsTyped == Spec => []TypeOK
<1>1. TypeOK /\ ListsConsistent => TypeOK
  OBVIOUS
<1> QED
  BY <1>1, ListsAreConsistent, PTL

-----------------------------------------------------------------------------
(***************************************************************************)
(* The inductive invariant behind the safety properties.  A task the tick  *)
(* handler has still to visit is linked, so that visiting it links no task *)
(* that was never started; a switch is not pending while the handler runs, *)
(* and nothing else is held off, so that Tick and Unblock do not mix;      *)
(* and the idle task never leaves the ready list, so that SwitchContext    *)
(* takes a ready task.                                                     *)
(***************************************************************************)
ScanIsLinked == \A i \in 1 .. Len(scan) : parent[scan[i]] # NoList
NoSwitchInHandler == (scan # <<>> => ~pendSV) /\ (held => pendSV)
IdleIsReady == parent[Idle] = ReadyTasks

Safe ==
    /\ NoTaskLost
    /\ ScanIsLinked
    /\ NoSwitchInHandler
    /\ IdleIsReady
    /\ RunningTaskIsReady
    /\ HookPointsToLiveFrame
    /\ ListsOrdered

\* The idle task keeps the ready list from being empty.
LEMMA SomeoneIsReady ==
    ASSUME Lists, IdleIsReady
    PROVE  queue[ReadyTasks] # <<>>
<1>1. Contains(queue[ReadyTasks], Idle)
  BY TaskIsLinkable, ListNames
     DEF Lists, TypeOK, ListsConsistent, Consistent, IdleIsReady
<1> QED
  BY <1>1, EmptySeq DEF Contains

\* A step that pushes keeps every list ordered, if no priority changes.
LEMMA PushKeepsOrder ==
    ASSUME Lists, ListsOrdered, NEW l \in List, NEW t \in Linkable,
           Push(l, t), priority' = priority
    PROVE  ListsOrdered'
<1> SUFFICES ASSUME ~ LatePriority
             PROVE  \A k \in List : Ordered(queue'[k], priority)
  BY DEF ListsOrdered
<1>1. /\ queue \in [List -> Seq(Linkable)]
      /\ parent \in [Linkable -> List \cup {NoList}]
      /\ priority \in [Linkable -> Nat]
      /\ Consistent(queue, parent)
      /\ NoList \notin List
  BY ListsAssumption DEF Lists, TypeOK, ListsConsistent
<1>2. \A k \in List : Ordered(queue[k], priority)
  BY DEF ListsOrdered
<1>3. \A k \in List :
        Ordered(Pushed(queue, parent, priority, l, t)[k], priority)
  BY <1>1, <1>2, PushedOrdered
<1> QED
  BY <1>3 DEF Push

\* A list's elements are linked to it.
LEMMA ElementOfList ==
    ASSUME Lists, NEW l \in List, NEW i \in 1 .. Len(queue[l])
    PROVE  queue[l][i] \in Linkable /\ parent[queue[l][i]] = l
<1>1. queue[l] \in Seq(Linkable) /\ DOMAIN queue = List /\ DOMAIN parent = Linkable
  BY DEF Lists, TypeOK
<1>2. queue[l][i] \in Linkable /\ Contains(queue[l], queue[l][i])
  BY <1>1, LenProperties DEF Contains
<1> QED
  BY <1>1, <1>2 DEF Lists, ListsConsistent, Consistent

\* A step that pushes t keeps what the tick handler has still to visit linked.
LEMMA PushKeepsScan ==
    ASSUME Lists, ScanIsLinked, NEW l \in List, NEW t \in Linkable,
           Push(l, t), scan' = scan
    PROVE  ScanIsLinked'
<1>1. parent' = [parent EXCEPT ![t] = l] /\ parent \in [Linkable -> List \cup {NoList}]
  BY DEF Push, Lists, TypeOK
<1>2. \A i \in 1 .. Len(scan) : scan[i] \in Linkable
  BY LenProperties DEF Lists, TypeOK
<1> QED
  BY <1>1, <1>2, ListsAssumption DEF ScanIsLinked

\* The invariant holds when the constructor has run.
LEMMA SafeInit == Init => Safe
<1> SUFFICES ASSUME Init PROVE Safe
  OBVIOUS
<1> USE TaskIsLinkable, TasksAssumption, ListsAssumption, ListNames DEF Init
<1>1. NoTaskLost
  BY DEF NoTaskLost, Started
<1>2. ScanIsLinked /\ NoSwitchInHandler /\ IdleIsReady /\ RunningTaskIsReady
  BY EmptySeq DEF ScanIsLinked, NoSwitchInHandler, IdleIsReady, RunningTaskIsReady
<1>3. HookPointsToLiveFrame
  BY DEF HookPointsToLiveFrame, BlockStatus
<1>4. ListsOrdered
  BY DEF ListsOrdered, Ordered
<1> QED
  BY <1>1, <1>2, <1>3, <1>4 DEF Safe

\* Every step keeps the invariant.
LEMMA SafeNext == Lists /\ Lists' /\ Safe /\ [Next]_vars => Safe'
<1> SUFFICES ASSUME Lists, Lists', Safe, [Next]_vars PROVE Safe'
  OBVIOUS
<1> USE TaskIsLinkable, TasksAssumption, ListsAssumption, ListNames
<1>a. /\ parent \in [Linkable -> List \cup {NoList}]
      /\ frame \in [Linkable -> Frame] /\ hook \in [Linkable -> BOOLEAN]
      /\ reason \in [Linkable -> Reason] /\ current \in TCB
      /\ priority \in [Linkable -> Nat]
  BY DEF Lists, TypeOK
<1>b. /\ NoTaskLost /\ ScanIsLinked /\ NoSwitchInHandler /\ IdleIsReady
      /\ RunningTaskIsReady /\ HookPointsToLiveFrame /\ ListsOrdered
  BY DEF Safe
<1>c. ASSUME NEW l \in List, NEW t \in Linkable, Push(l, t)
      PROVE  parent' = [parent EXCEPT ![t] = l]
  BY <1>c DEF Push
<1>1. ASSUME NEW t \in Task, NEW n \in PriorityRange, SetPriority(t, n)
      PROVE  Safe'
  <2>1. ListsOrdered'
    <3> SUFFICES ASSUME ~ LatePriority, NEW l \in List,
                        NEW i \in 1 .. Len(queue[l]), NEW j \in 1 .. Len(queue[l]),
                        i < j
                 PROVE  priority'[queue[l][i]] <= priority'[queue[l][j]]
      BY <1>1 DEF SetPriority, lists, ListsOrdered, Ordered
    <3>1. parent[t] = NoList
      BY <1>1, <1>a, <1>b DEF SetPriority, NoTaskLost, Started
    <3>2. /\ queue[l][i] \in Linkable /\ queue[l][i] # t
          /\ queue[l][j] \in Linkable /\ queue[l][j] # t
      BY <3>1, ElementOfList
    <3>3. priority[queue[l][i]] <= priority[queue[l][j]]
      BY <1>b DEF ListsOrdered, Ordered
    <3> QED
      BY <1>1, <1>a, <3>2, <3>3 DEF SetPriority
  <2> QED
    BY <1>1, <1>a, <1>b, <2>1
       DEF SetPriority, lists, tick, block, Safe, NoTaskLost, Started,
           ScanIsLinked, NoSwitchInHandler, IdleIsReady, RunningTaskIsReady,
           HookPointsToLiveFrame, BlockStatus
<1>2. ASSUME NEW t \in Task, Start(t) PROVE Safe'
  <2>1. parent' = [parent EXCEPT ![t] = ReadyTasks]
    BY <1>2, <1>c DEF Start
  <2>2. parent[t] = NoList /\ frame' = [frame EXCEPT ![t] = "fresh"]
    BY <1>2, <1>a, <1>b DEF Start, NoTaskLost, Started
  <2>3. ScanIsLinked' /\ ListsOrdered'
    BY <1>2, <1>b, PushKeepsScan, PushKeepsOrder DEF Start, tick
  <2>4. NoTaskLost' /\ IdleIsReady'
    BY <1>a, <1>b, <2>1, <2>2 DEF NoTaskLost, Started, IdleIsReady, Frame
  <2>5. HookPointsToLiveFrame'
    BY <1>2, <1>a, <1>b, <2>1, <2>2
       DEF Start, block, HookPointsToLiveFrame, BlockStatus, List
  <2>6. RunningTaskIsReady' /\ NoSwitchInHandler'
    BY <1>2, <1>a, <1>b, <2>1
       DEF Start, tick, RunningTaskIsReady, NoSwitchInHandler, TCB
  <2> QED
    BY <2>3, <2>4, <2>5, <2>6 DEF Safe
<1>3. ASSUME NEW t \in Task, BlockReturn(t) PROVE Safe'
  <2>1. frame' = [frame EXCEPT ![t] = "running"] /\ frame[t] = "blocked"
    BY <1>3 DEF BlockReturn
  <2>2. parent[t] = ReadyTasks
    BY <1>3, <1>b DEF BlockReturn, NoException, RunningTaskIsReady, Linkable
  <2>3. NoTaskLost'
    BY <1>3, <1>a, <1>b, <2>1 DEF BlockReturn, lists, NoTaskLost, Started, Frame
  <2>4. HookPointsToLiveFrame'
    BY <1>3, <1>a, <1>b, <2>1, <2>2
       DEF BlockReturn, lists, block, HookPointsToLiveFrame, BlockStatus
  <2> QED
    BY <1>3, <1>b, <2>3, <2>4
       DEF BlockReturn, lists, tick, Safe, ScanIsLinked, NoSwitchInHandler,
           IdleIsReady, RunningTaskIsReady, ListsOrdered
<1>4. ASSUME NEW caller \in Task, NEW t \in Task, Yield(caller, t) PROVE Safe'
  <2>1. parent' = [parent EXCEPT ![t] = ReadyTasks]
    BY <1>4, <1>c DEF Yield
  <2>2. ScanIsLinked' /\ ListsOrdered'
    BY <1>4, <1>b, PushKeepsScan, PushKeepsOrder DEF Yield, tick
  <2>3. NoTaskLost' /\ IdleIsReady'
    BY <1>4, <1>a, <1>b, <2>1 DEF Yield, NoTaskLost, Started, IdleIsReady
  <2>4. HookPointsToLiveFrame'
    BY <1>4, <1>a, <1>b, <2>1
       DEF Yield, block, HookPointsToLiveFrame, BlockStatus, List
  <2>5. RunningTaskIsReady' /\ NoSwitchInHandler'
    BY <1>4 DEF Yield, InThread, NoException, tick, RunningTaskIsReady,
                NoSwitchInHandler
  <2> QED
    BY <2>2, <2>3, <2>4, <2>5 DEF Safe
<1>5. ASSUME NEW t \in Task, NEW n \in Delays, Delay(t, n) PROVE Safe'
  <2>1. parent' = [parent EXCEPT ![t] = DelayedTasks]
    BY <1>5, <1>c DEF Delay, PushDelayed
  <2>2. ScanIsLinked' /\ ListsOrdered'
    BY <1>5, <1>b, PushKeepsScan, PushKeepsOrder DEF Delay, PushDelayed, tick
  <2>3. NoTaskLost' /\ IdleIsReady'
    BY <1>5, <1>a, <1>b, <2>1
       DEF Delay, InThread, NoTaskLost, Started, IdleIsReady, Linkable
  <2>4. HookPointsToLiveFrame'
    BY <1>5, <1>a, <1>b, <2>1
       DEF Delay, block, HookPointsToLiveFrame, BlockStatus, List
  <2>5. RunningTaskIsReady' /\ NoSwitchInHandler'
    BY <1>5 DEF Delay, InThread, NoException, tick, RunningTaskIsReady,
                NoSwitchInHandler
  <2> QED
    BY <2>2, <2>3, <2>4, <2>5 DEF Safe
<1>6. ASSUME NEW caller \in Task, NEW t \in Task, NEW n \in Delays,
             DelayOther(caller, t, n)
      PROVE  Safe'
  <2>1. parent' = [parent EXCEPT ![t] = DelayedTasks]
    BY <1>6, <1>c DEF DelayOther, PushDelayed
  <2>2. ScanIsLinked' /\ ListsOrdered'
    BY <1>6, <1>b, PushKeepsScan, PushKeepsOrder DEF DelayOther, PushDelayed, tick
  <2>3. NoTaskLost' /\ IdleIsReady'
    BY <1>6, <1>a, <1>b, <2>1
       DEF DelayOther, NoTaskLost, Started, IdleIsReady, Linkable
  <2>4. HookPointsToLiveFrame'
    BY <1>6, <1>a, <1>b, <2>1
       DEF DelayOther, block, HookPointsToLiveFrame, BlockStatus, List
  <2>5. RunningTaskIsReady' /\ NoSwitchInHandler'
    BY <1>6, <1>a, <1>b, <2>1
       DEF DelayOther, InThread, NoException, tick, RunningTaskIsReady,
           NoSwitchInHandler
  <2> QED
    BY <2>2, <2>3, <2>4, <2>5 DEF Safe
<1>7. ASSUME NEW t \in Task, NEW l \in BlockList, Block(t, l) PROVE Safe'
  <2>1. parent' = [parent EXCEPT ![t] = l]
    BY <1>7, <1>c DEF Block
  <2>2. /\ frame' = [frame EXCEPT ![t] = "blocked"] /\ frame[t] = "running"
        /\ hook' = [hook EXCEPT ![t] = TRUE]
        /\ reason' = [reason EXCEPT ![t] = "Undefined"]
    BY <1>7 DEF Block, InThread
  <2>3. ScanIsLinked' /\ ListsOrdered'
    BY <1>7, <1>b, PushKeepsScan, PushKeepsOrder DEF Block, tick
  <2>4. NoTaskLost' /\ IdleIsReady'
    BY <1>a, <1>b, <2>1, <2>2 DEF NoTaskLost, Started, IdleIsReady, Linkable
  <2>5. HookPointsToLiveFrame'
    BY <1>a, <1>b, <2>1, <2>2 DEF HookPointsToLiveFrame, BlockStatus
  <2>6. RunningTaskIsReady' /\ NoSwitchInHandler'
    BY <1>7 DEF Block, InThread, NoException, tick, RunningTaskIsReady,
                NoSwitchInHandler
  <2> QED
    BY <2>3, <2>4, <2>5, <2>6 DEF Safe
<1>8. ASSUME NEW l \in BlockList, Unblock(l) PROVE Safe'
  <2> DEFINE t == Head(queue[l])
  <2>1. t \in Linkable /\ parent[t] = l /\ UnblockTask(t)
    BY <1>8, HeadOfList DEF Unblock
  <2> HIDE DEF t
  <2>2. parent' = [parent EXCEPT ![t] = ReadyTasks]
    BY <1>c, <2>1 DEF UnblockTask
  <2>3. hook[t] /\ frame[t] = "blocked" /\ reason[t] # "Request"
    BY <1>b, <2>1 DEF HookPointsToLiveFrame, BlockStatus
  <2>4. /\ hook' = [hook EXCEPT ![t] = FALSE]
        /\ reason' = [reason EXCEPT ![t] = "Request"]
        /\ frame' = frame
    BY <1>8, <2>1, <2>3 DEF UnblockTask, Unblock
  <2>5. ScanIsLinked' /\ ListsOrdered'
    BY <1>8, <1>b, <2>1, PushKeepsScan, PushKeepsOrder
       DEF Unblock, UnblockTask, tick
  <2>6. NoTaskLost' /\ IdleIsReady'
    BY <1>a, <1>b, <2>1, <2>2, <2>3, <2>4
       DEF NoTaskLost, Started, IdleIsReady
  <2>7. HookPointsToLiveFrame'
    BY <1>a, <1>b, <2>2, <2>4 DEF HookPointsToLiveFrame, BlockStatus, List
  <2>8. RunningTaskIsReady' /\ NoSwitchInHandler'
    BY <1>8, <1>b, <2>1 DEF Unblock, UnblockTask, NoException, tick,
                            RunningTaskIsReady, NoSwitchInHandler
  <2> QED
    BY <2>5, <2>6, <2>7, <2>8 DEF Safe
<1>9. ASSUME Tick PROVE Safe'
  <2>1. ScanIsLinked'
    BY <1>9, ElementOfList DEF Tick, lists, ScanIsLinked
  <2>2. NoSwitchInHandler' /\ RunningTaskIsReady'
    BY <1>9, <1>b DEF Tick, lists, NoException, NoSwitchInHandler,
                      RunningTaskIsReady
  <2> QED
    BY <1>9, <1>b, <2>1, <2>2
       DEF Tick, lists, block, Safe, NoTaskLost, Started, IdleIsReady,
           HookPointsToLiveFrame, BlockStatus, ListsOrdered
<1>10. ASSUME TickVisit PROVE Safe'
  <2> DEFINE t == Head(scan)
  <2>1. /\ scan \in Seq(Linkable) /\ scan # <<>> /\ scan' = Tail(scan)
        /\ pendSV' = (scan' = <<>> /\ mustSwitch')
        /\ current' = current /\ frame' = frame /\ priority' = priority
        /\ held' = held /\ hook' = hook /\ reason' = reason
    BY <1>10 DEF Lists, TypeOK, TickVisit, block
  <2>2. /\ t \in Linkable /\ t = scan[1] /\ 1 \in 1 .. Len(scan)
        /\ Len(scan') = Len(scan) - 1 /\ Len(scan) \in Nat
        /\ \A i \in 1 .. Len(scan') : scan'[i] = scan[i + 1]
        /\ \A i \in 1 .. Len(scan) : scan[i] \in Linkable
    BY <2>1, HeadTailProperties, EmptySeq, LenProperties
  <2>3. parent[t] # NoList /\ ~ pendSV /\ ~ held
    BY <1>b, <2>1, <2>2 DEF ScanIsLinked, NoSwitchInHandler
  <2>4. \/ Expired(t) /\ Push(ReadyTasks, t)
        \/ ~ Expired(t) /\ UNCHANGED lists
    BY <1>10 DEF TickVisit
  <2> HIDE DEF t
  <2>5. parent' = [parent EXCEPT ![t] = ReadyTasks] \/ parent' = parent
    BY <1>c, <2>2, <2>4 DEF lists
  <2>6. ListsOrdered'
    BY <1>b, <2>1, <2>2, <2>4, PushKeepsOrder DEF lists, ListsOrdered
  <2>7. ScanIsLinked'
    <3> SUFFICES ASSUME NEW i \in 1 .. Len(scan') PROVE parent'[scan'[i]] # NoList
      BY DEF ScanIsLinked
    <3>1. i + 1 \in 1 .. Len(scan) /\ scan'[i] = scan[i + 1]
      BY <2>2
    <3>2. scan[i + 1] \in Linkable /\ parent[scan[i + 1]] # NoList
      BY <1>b, <2>2, <3>1 DEF ScanIsLinked
    <3> QED
      BY <1>a, <2>5, <3>1, <3>2
  <2>8. NoTaskLost' /\ IdleIsReady'
    BY <1>a, <1>b, <2>1, <2>2, <2>3, <2>5 DEF NoTaskLost, Started, IdleIsReady
  <2>9. HookPointsToLiveFrame'
    BY <1>a, <1>b, <2>1, <2>5 DEF HookPointsToLiveFrame, BlockStatus, List
  <2>10. NoSwitchInHandler' /\ RunningTaskIsReady'
    BY <1>a, <1>b, <2>1, <2>2, <2>3, <2>5
       DEF NoSwitchInHandler, RunningTaskIsReady, TCB
  <2> QED
    BY <2>6, <2>7, <2>8, <2>9, <2>10 DEF Safe
<1>11. ASSUME SwitchContext PROVE Safe'
  <2>1. queue[ReadyTasks] # <<>>
    BY <1>b, SomeoneIsReady
  <2>2. current' \in Linkable /\ parent[current'] = ReadyTasks
    BY <1>11, <2>1, HeadOfList DEF SwitchContext
  <2>3. frame' = [frame EXCEPT ![current'] =
                    IF frame[current'] = "fresh" THEN "running"
                                                 ELSE frame[current']]
    BY <1>11 DEF SwitchContext
  <2>4. NoTaskLost'
    BY <1>11, <1>a, <1>b, <2>2, <2>3
       DEF SwitchContext, lists, NoTaskLost, Started, Frame
  <2>5. HookPointsToLiveFrame'
    BY <1>11, <1>a, <1>b, <2>2, <2>3
       DEF SwitchContext, lists, block, HookPointsToLiveFrame, BlockStatus
  <2>6. RunningTaskIsReady' /\ NoSwitchInHandler'
    BY <1>11, <1>b, <2>2
       DEF SwitchContext, lists, tick, RunningTaskIsReady, NoSwitchInHandler
  <2> QED
    BY <1>11, <1>b, <2>4, <2>5, <2>6
       DEF SwitchContext, lists, tick, Safe, ScanIsLinked, IdleIsReady,
           ListsOrdered
<1>12. ASSUME UNCHANGED vars PROVE Safe'
  BY <1>12, <1>b
     DEF vars, Safe, NoTaskLost, Started, ScanIsLinked, NoSwitchInHandler,
         IdleIsReady, RunningTaskIsReady, HookPointsToLiveFrame, BlockStatus,
         ListsOrdered
<1> QED
  BY <1>1, <1>2, <1>3, <1>4, <1>5, <1>6, <1>7, <1>8, <1>9, <1>10, <1>11, <1>12
     DEF Next

\* The invariant holds for ever.
LEMMA SafeAlways == Spec => [](Lists /\ Safe)
<1>1. Lists /\ [Next]_vars => Lists'
  BY ListsNext
<1>2. Lists /\ Lists' /\ Safe /\ [Next]_vars => Safe'
  BY SafeNext
<1> QED
  BY <1>1, <1>2, ListsInit, SafeInit, PTL DEF Spec

\* No sequence of operations, ticks and switches drops a started task.
THEOREM TasksAreNeverLost == Spec => []NoTaskLost
<1>1. Safe => NoTaskLost
  BY DEF Safe
<1> QED
  BY <1>1, SafeAlways, PTL

\* The task whose code runs is always a ready task.
THEOREM RunningTasksAreReady == Spec => []RunningTaskIsReady
<1>1. Safe => RunningTaskIsReady
  BY DEF Safe
<1> QED
  BY <1>1, SafeAlways, PTL

\* Unblock never calls a hook into a Block call that is over, and Block
\* returns Ok exactly to the tasks Unblock chose.
THEOREM HooksPointToLiveFrames == Spec => []HookPointsToLiveFrame
<1>1. Safe => HookPointsToLiveFrame
  BY DEF Safe
<1> QED
  BY <1>1, SafeAlways, PTL

\* If priorities are set before Start, every list is always in their order.
THEOREM ListsAreOrdered == Spec => []ListsOrdered
<1>1. Safe => ListsOrdered
  BY DEF Safe
<1> QED
  BY <1>1, SafeAlways, PTL

-----------------------------------------------------------------------------
(***************************************************************************)
(* The idle task is the last ready task, even when priorities of linked    *)
(* tasks change, because no application task's number reaches the idle     *)
(* task's.  The tick handler never moves the idle task.                    *)
(***************************************************************************)
IdleIsLast ==
    /\ EndsWith(queue[ReadyTasks], Idle)
    /\ \A i \in 1 .. Len(scan) : scan[i] # Idle

TasksPrecedeIdle ==
    priority[Idle] = IdlePriority /\ \A t \in Task : priority[t] < IdlePriority

\* A step that pushes an application task, or pushes none, keeps it.
LEMMA PushKeepsIdleLast ==
    ASSUME Lists, IdleIsLast, TasksPrecedeIdle,
           NEW l \in List, NEW t \in Task, Push(l, t), scan' = scan
    PROVE  IdleIsLast'
<1>1. /\ queue \in [List -> Seq(Linkable)] /\ priority \in [Linkable -> Nat]
      /\ Consistent(queue, parent)
  BY DEF Lists, TypeOK, ListsConsistent
<1>2. EndsWith(queue[ReadyTasks], Idle) /\ priority[t] < priority[Idle]
  BY DEF IdleIsLast, TasksPrecedeIdle
<1>3. EndsWith(Pushed(queue, parent, priority, l, t)[ReadyTasks], Idle)
  BY <1>1, <1>2, PushedKeepsLast, TaskIsLinkable, ListNames
<1> QED
  BY <1>3 DEF Push, IdleIsLast

\* The constructor leaves the idle task as the only ready one.
LEMMA IdleInit == Init => IdleIsLast /\ TasksPrecedeIdle
<1> SUFFICES ASSUME Init PROVE IdleIsLast /\ TasksPrecedeIdle
  OBVIOUS
<1>1. queue[ReadyTasks] = <<Idle>> /\ scan = <<>>
  BY ListNames DEF Init
<1>2. IdleIsLast
  BY <1>1, EmptySeq DEF IdleIsLast, EndsWith
<1>3. TasksPrecedeIdle
  BY TaskIsLinkable, TasksAssumption, PriorityAssumption
     DEF Init, InitialPriority, TasksPrecedeIdle
<1> QED
  BY <1>2, <1>3

\* Every step keeps the idle task last.
LEMMA IdleNext ==
    ASSUME Lists, Safe, IdleIsLast, TasksPrecedeIdle, [Next]_vars
    PROVE  IdleIsLast' /\ TasksPrecedeIdle'
<1> USE TaskIsLinkable, ListNames
<1>1. TasksPrecedeIdle'
  <2>1. ASSUME NEW t \in Task, NEW n \in PriorityRange, SetPriority(t, n)
        PROVE  TasksPrecedeIdle'
    <3>1. /\ priority \in [Linkable -> Nat]
          /\ priority' = [priority EXCEPT ![t] = n]
          /\ n < IdlePriority /\ t # Idle
      BY <2>1, PriorityAssumption, TasksAssumption
         DEF SetPriority, Lists, TypeOK
    <3> QED
      BY <3>1 DEF TasksPrecedeIdle
  <2>2. CASE priority' = priority
    BY <2>2 DEF TasksPrecedeIdle
  <2> QED
    BY <2>1, <2>2 DEF Next, Start, BlockReturn, Yield, Delay, DelayOther, Block,
                      Unblock, Tick, TickVisit, SwitchContext, vars
<1>2. ASSUME NEW t \in Task, NEW n \in PriorityRange, SetPriority(t, n)
      PROVE  IdleIsLast'
  BY <1>2 DEF SetPriority, lists, tick, IdleIsLast
<1>3. ASSUME NEW t \in Task, Start(t) PROVE IdleIsLast'
  BY <1>3, PushKeepsIdleLast DEF Start, tick
<1>4. ASSUME NEW t \in Task, BlockReturn(t) PROVE IdleIsLast'
  BY <1>4 DEF BlockReturn, lists, tick, IdleIsLast
<1>5. ASSUME NEW caller \in Task, NEW t \in Task, Yield(caller, t)
      PROVE  IdleIsLast'
  BY <1>5, PushKeepsIdleLast DEF Yield, tick
<1>6. ASSUME NEW t \in Task, NEW n \in Delays, Delay(t, n) PROVE IdleIsLast'
  BY <1>6, PushKeepsIdleLast DEF Delay, PushDelayed, tick
<1>7. ASSUME NEW caller \in Task, NEW t \in Task, NEW n \in Delays,
             DelayOther(caller, t, n)
      PROVE  IdleIsLast'
  BY <1>7, PushKeepsIdleLast DEF DelayOther, PushDelayed, tick
<1>8. ASSUME NEW t \in Task, NEW l \in BlockList, Block(t, l)
      PROVE  IdleIsLast'
  BY <1>8, PushKeepsIdleLast DEF Block, tick
<1>9. ASSUME NEW l \in BlockList, Unblock(l) PROVE IdleIsLast'
  <2> DEFINE t == Head(queue[l])
  <2>1. t \in Linkable /\ parent[t] = l /\ UnblockTask(t) /\ scan' = scan
    BY <1>9, HeadOfList DEF Unblock, tick
  <2>2. parent[Idle] = ReadyTasks /\ l # ReadyTasks
    BY ListsAssumption DEF Safe, IdleIsReady
  <2> HIDE DEF t
  <2>3. t \in Task /\ Push(ReadyTasks, t)
    BY <2>1, <2>2 DEF Linkable, UnblockTask
  <2> QED
    BY <2>1, <2>3, PushKeepsIdleLast
<1>10. ASSUME Tick PROVE IdleIsLast'
  <2>1. queue' = queue /\ scan' = queue[DelayedTasks]
    BY <1>10 DEF Tick, lists
  <2>2. parent[Idle] = ReadyTasks /\ ReadyTasks # DelayedTasks
    BY ListsAssumption DEF Safe, IdleIsReady
  <2>3. \A i \in 1 .. Len(scan') : scan'[i] # Idle
    BY <2>1, <2>2, ElementOfList
  <2> QED
    BY <2>1, <2>3 DEF IdleIsLast
<1>11. ASSUME TickVisit PROVE IdleIsLast'
  <2> DEFINE t == Head(scan)
  <2>1. scan \in Seq(Linkable) /\ scan # <<>> /\ scan' = Tail(scan)
    BY <1>11 DEF Lists, TypeOK, TickVisit
  <2>2. /\ t \in Linkable /\ t = scan[1] /\ 1 \in 1 .. Len(scan)
        /\ Len(scan') = Len(scan) - 1 /\ Len(scan) \in Nat
        /\ \A i \in 1 .. Len(scan') : scan'[i] = scan[i + 1]
    BY <2>1, HeadTailProperties, EmptySeq, LenProperties
  <2>3. t \in Task
    BY <2>2 DEF IdleIsLast, Linkable
  <2>4. Push(ReadyTasks, t) \/ queue' = queue
    BY <1>11 DEF TickVisit, lists
  <2>5. \A i \in 1 .. Len(scan') : scan'[i] # Idle
    <3> SUFFICES ASSUME NEW i \in 1 .. Len(scan') PROVE scan'[i] # Idle
      OBVIOUS
    <3>1. i + 1 \in 1 .. Len(scan) /\ scan'[i] = scan[i + 1]
      BY <2>2
    <3> QED
      BY <3>1 DEF IdleIsLast
  <2> HIDE DEF t
  <2>6. EndsWith(queue'[ReadyTasks], Idle)
    <3>1. CASE queue' = queue
      BY <3>1 DEF IdleIsLast
    <3>2. CASE Push(ReadyTasks, t)
      <4>1. /\ queue \in [List -> Seq(Linkable)]
            /\ priority \in [Linkable -> Nat] /\ Consistent(queue, parent)
        BY DEF Lists, TypeOK, ListsConsistent
      <4>2. EndsWith(queue[ReadyTasks], Idle) /\ priority[t] < priority[Idle]
        BY <2>3 DEF IdleIsLast, TasksPrecedeIdle
      <4>3. EndsWith(Pushed(queue, parent, priority, ReadyTasks, t)[ReadyTasks],
                     Idle)
        BY <2>3, <4>1, <4>2, PushedKeepsLast
      <4> QED
        BY <3>2, <4>3 DEF Push
    <3> QED
      BY <2>4, <3>1, <3>2
  <2> QED
    BY <2>5, <2>6 DEF IdleIsLast
<1>12. ASSUME SwitchContext PROVE IdleIsLast'
  BY <1>12 DEF SwitchContext, lists, tick, IdleIsLast
<1>13. ASSUME UNCHANGED vars PROVE IdleIsLast'
  BY <1>13 DEF vars, IdleIsLast
<1> QED
  BY <1>1, <1>2, <1>3, <1>4, <1>5, <1>6, <1>7, <1>8, <1>9, <1>10, <1>11, <1>12,
     <1>13 DEF Next

\* The idle task is always the last ready task, so a switch always finds one,
\* and idling means that no other task is ready.
THEOREM IdleIsAlwaysLastReady == Spec => []IdleIsLastReady
<1>1. Lists /\ Safe /\ IdleIsLast /\ TasksPrecedeIdle /\ [Next]_vars
        => IdleIsLast' /\ TasksPrecedeIdle'
  BY IdleNext
<1>2. Lists /\ IdleIsLast => IdleIsLastReady
  <2> SUFFICES ASSUME Lists, IdleIsLast PROVE IdleIsLastReady
    OBVIOUS
  <2>1. queue[ReadyTasks] \in Seq(Linkable)
    BY ListNames DEF Lists, TypeOK
  <2> QED
    BY <2>1, EmptySeq DEF IdleIsLast, EndsWith, IdleIsLastReady, Last
<1> QED
  BY <1>1, <1>2, IdleInit, SafeAlways, PTL DEF Spec

-----------------------------------------------------------------------------
(***************************************************************************)
(* The tick handler.  Nothing else runs while it does, so the only thing   *)
(* that moves under its iterator is the task it visits.  What it has still *)
(* to visit is the end of the delayed list, and the tasks in front of that *)
(* have been looked at in this very tick.                                  *)
(***************************************************************************)
VisitedHaveNotExpired ==
    scan # <<>> =>
        \A t \in Linkable : parent[t] = DelayedTasks /\ Expired(t)
                               => Contains(scan, t)

Iterating == EndOf(scan, queue[DelayedTasks]) /\ VisitedHaveNotExpired

\* While the tick handler runs, nothing else does.
LEMMA HandlerRunsAlone ==
    ASSUME Safe, [Next]_vars, scan # <<>>
    PROVE  TickVisit \/ UNCHANGED vars
<1>1. ~ pendSV /\ ~ held
  BY DEF Safe, NoSwitchInHandler
<1>2. ~ NoException
  BY DEF NoException
<1> QED
  BY <1>1, <1>2
     DEF Next, SetPriority, Start, BlockReturn, Yield, Delay, DelayOther, Block,
         Unblock, Tick, SwitchContext, InMainOrThread, InThread

\* One visit: the task at the iterator is a delayed one, it becomes ready if it
\* has expired, and the iterator stands at the next one.
LEMMA VisitMoves ==
    ASSUME Lists, Lists', Safe, EndOf(scan, queue[DelayedTasks]), TickVisit
    PROVE  LET t == Head(scan) IN
             /\ t \in Task /\ parent[t] = DelayedTasks
             /\ \/ Expired(t) /\ Push(ReadyTasks, t)
                \/ ~ Expired(t) /\ UNCHANGED <<lists, tickDelay>>
             /\ \A u \in Linkable :
                  u # t => tickDelay'[u] = tickDelay[u] /\ parent'[u] = parent[u]
             /\ \A u : Contains(scan', u) <=> Contains(scan, u) /\ u # t
             /\ EndOf(scan', queue'[DelayedTasks])
<1> USE TaskIsLinkable, ListNames
<1> DEFINE t == Head(scan)
           q == queue[DelayedTasks]
<1>1. /\ scan \in Seq(Linkable) /\ scan # <<>> /\ scan' = Tail(scan)
      /\ queue \in [List -> Seq(Linkable)]
      /\ parent \in [Linkable -> List \cup {NoList}]
      /\ tickDelay \in [Linkable -> 0 .. TickModulus - 1]
      /\ q \in Seq(Linkable) /\ Distinct(q)
      /\ \A u \in Linkable : parent[u] = DelayedTasks <=> Contains(q, u)
  BY DEF Lists, TypeOK, ListsConsistent, Consistent, TickVisit
<1>2. /\ t \in Linkable /\ t = scan[1] /\ 1 \in 1 .. Len(scan)
      /\ scan' \in Seq(Linkable)
      /\ Len(scan') = Len(scan) - 1 /\ Len(scan) \in Nat
      /\ \A i \in 1 .. Len(scan') : scan'[i] = scan[i + 1]
  BY <1>1, HeadTailProperties, EmptySeq, LenProperties
<1>3. Distinct(scan) /\ Contains(q, t)
  BY <1>1, <1>2, EndIsLinked
<1>4. t \in Task /\ parent[t] = DelayedTasks
  BY <1>1, <1>2, <1>3, ListsAssumption DEF Safe, IdleIsReady, Linkable
<1>5. \/ Expired(t) /\ Push(ReadyTasks, t)
      \/ ~ Expired(t) /\ UNCHANGED <<lists, tickDelay>>
  BY DEF TickVisit
<1>6. ASSUME NEW u \in Linkable, u # t
      PROVE  tickDelay'[u] = tickDelay[u] /\ parent'[u] = parent[u]
  <2>1. CASE Expired(t)
    <3>1. Push(ReadyTasks, t) /\ tickDelay'[u] = tickDelay[u]
      BY <1>1, <1>6, <2>1 DEF TickVisit
    <3> QED
      BY <1>1, <1>6, <3>1 DEF Push
  <2>2. CASE ~ Expired(t)
    BY <2>2, <1>5 DEF lists
  <2> QED
    BY <2>1, <2>2
<1>7. EndOf(scan', queue'[DelayedTasks])
  <2>1. EndOf(scan', q) /\ EndOf(scan', Unlink(q, t))
    BY <1>1, EndGoesOn
  <2>2. CASE Push(ReadyTasks, t)
    <3>1. queue'[DelayedTasks] = Unlink(q, t)
      BY <1>1, <1>4, <2>2, ListsAssumption DEF Push, Pushed, Erased
    <3> QED
      BY <2>1, <3>1
  <2>3. CASE UNCHANGED lists
    BY <2>1, <2>3 DEF lists
  <2> QED
    BY <1>5, <2>2, <2>3
<1> HIDE DEF t, q
<1>8. ASSUME NEW u PROVE Contains(scan', u) <=> Contains(scan, u) /\ u # t
  <2>1. ASSUME Contains(scan', u) PROVE Contains(scan, u) /\ u # t
    <3>1. PICK i \in 1 .. Len(scan') : scan'[i] = u
      BY <2>1 DEF Contains
    <3>2. i + 1 \in 1 .. Len(scan) /\ scan[i + 1] = u /\ i + 1 # 1
      BY <1>2, <3>1
    <3> QED
      BY <1>2, <1>3, <3>2 DEF Contains, Distinct
  <2>2. ASSUME Contains(scan, u), u # t PROVE Contains(scan', u)
    <3>1. PICK i \in 1 .. Len(scan) : scan[i] = u
      BY <2>2 DEF Contains
    <3>2. i - 1 \in 1 .. Len(scan') /\ (i - 1) + 1 = i
      BY <1>2, <2>2, <3>1
    <3> QED
      BY <1>2, <3>1, <3>2 DEF Contains
  <2> QED
    BY <2>1, <2>2
<1> QED
  BY <1>4, <1>5, <1>6, <1>7, <1>8 DEF t

\* Nothing is being visited when the constructor has run.
LEMMA IteratingInit == Init => Iterating
<1> SUFFICES ASSUME Init PROVE Iterating
  OBVIOUS
<1>1. scan = <<>> /\ queue[DelayedTasks] = <<>>
  BY ListNames, ListsAssumption DEF Init
<1> QED
  BY <1>1, EmptySeq DEF Iterating, EndOf, VisitedHaveNotExpired

\* Every step keeps the iterator valid.
LEMMA IteratingNext ==
    ASSUME Lists, Lists', Safe, Iterating, [Next]_vars
    PROVE  Iterating'
<1> USE ListNames
<1>1. CASE Tick
  <2>1. /\ scan' = queue[DelayedTasks] /\ queue' = queue /\ parent' = parent
        /\ queue[DelayedTasks] \in Seq(Linkable)
    BY <1>1 DEF Tick, lists, Lists, TypeOK
  <2>2. EndOf(scan', queue'[DelayedTasks])
    BY <2>1, LenProperties DEF EndOf
  <2>3. \A t \in Linkable : parent'[t] = DelayedTasks => Contains(scan', t)
    BY <2>1 DEF Lists, TypeOK, ListsConsistent, Consistent
  <2> QED
    BY <2>2, <2>3 DEF Iterating, VisitedHaveNotExpired
<1>2. CASE TickVisit
  <2> DEFINE t == Head(scan)
  <2>1. /\ t \in Linkable
        /\ \/ Expired(t) /\ Push(ReadyTasks, t)
           \/ ~ Expired(t) /\ UNCHANGED <<lists, tickDelay>>
        /\ \A u \in Linkable :
             u # t => tickDelay'[u] = tickDelay[u] /\ parent'[u] = parent[u]
        /\ \A u : Contains(scan', u) <=> Contains(scan, u) /\ u # t
        /\ EndOf(scan', queue'[DelayedTasks])
    BY <1>2, TaskIsLinkable, VisitMoves DEF Iterating
  <2>2. systicks' = systicks /\ scan # <<>>
    BY <1>2 DEF TickVisit
  <2> HIDE DEF t
  <2>3. ASSUME NEW u \in Linkable, parent'[u] = DelayedTasks, Expired(u)'
        PROVE  Contains(scan', u)
    <3>1. u # t
      BY <2>1, <2>2, <2>3, ListsAssumption
         DEF Push, Expired, lists, Lists, TypeOK
    <3> QED
      BY <2>1, <2>2, <2>3, <3>1
         DEF Iterating, VisitedHaveNotExpired, Expired
  <2> QED
    BY <2>1, <2>3 DEF Iterating, VisitedHaveNotExpired
<1>3. CASE UNCHANGED vars
  BY <1>3 DEF vars, Iterating, VisitedHaveNotExpired, Expired
<1>4. CASE scan = <<>> /\ scan' = <<>>
  <2>1. queue'[DelayedTasks] \in Seq(Linkable)
    BY DEF Lists, TypeOK
  <2>2. EndOf(<<>>, queue'[DelayedTasks])
    BY <2>1, EmptySeq, LenProperties DEF EndOf
  <2> QED
    BY <1>4, <2>2 DEF Iterating, VisitedHaveNotExpired
<1>5. CASE scan = <<>> /\ ~ Tick /\ ~ TickVisit
  <2>1. scan' = scan
    BY <1>5 DEF Next, SetPriority, Start, BlockReturn, Yield, Delay, DelayOther,
                Block, Unblock, SwitchContext, tick, vars
  <2> QED
    BY <1>4, <1>5, <2>1
<1> QED
  BY <1>1, <1>2, <1>3, <1>5, HandlerRunsAlone

\* The invariant with what the iterator has still to visit.
LEMMA IteratingAlways == Spec => [](Lists /\ Safe /\ Iterating)
<1>1. Lists /\ Lists' /\ Safe /\ Iterating /\ [Next]_vars => Iterating'
  BY IteratingNext
<1> QED
  BY <1>1, IteratingInit, SafeAlways, PTL DEF Spec

\* What the tick handler has still to visit is always the end of the delayed
\* list, although each visit may unlink the task it is at.
THEOREM IteratorIsAlwaysValid == Spec => []IteratorStaysValid
<1>1. Lists /\ Iterating => IteratorStaysValid
  BY ListNames, EndIsSuffix DEF Lists, TypeOK, Iterating, IteratorStaysValid
<1> QED
  BY <1>1, IteratingAlways, PTL

\* When the tick handler ends, no delayed task is left whose time has come.
THEOREM TicksWakeWhoExpired == Spec => TickLeavesNoneExpired
<1>1. ASSUME Lists, Lists', Safe, Iterating, [Next]_vars,
             scan # <<>>, scan' = <<>>, NEW u \in Linkable,
             parent'[u] = DelayedTasks
      PROVE  ~ Expired(u)'
  <2>1. TickVisit
    BY <1>1, HandlerRunsAlone DEF vars
  <2>2. Iterating'
    BY <1>1, IteratingNext
  <2> DEFINE t == Head(scan)
  <2>3. /\ t \in Linkable
        /\ \/ Expired(t) /\ Push(ReadyTasks, t)
           \/ ~ Expired(t) /\ UNCHANGED <<lists, tickDelay>>
        /\ \A v \in Linkable :
             v # t => tickDelay'[v] = tickDelay[v] /\ parent'[v] = parent[v]
        /\ \A v : Contains(scan', v) <=> Contains(scan, v) /\ v # t
    BY <1>1, <2>1, TaskIsLinkable, VisitMoves DEF Iterating
  <2>4. systicks' = systicks
    BY <2>1 DEF TickVisit
  <2> HIDE DEF t
  <2>5. CASE u = t
    BY <1>1, <2>3, <2>4, <2>5, ListsAssumption
       DEF Push, Expired, lists, Lists, TypeOK
  <2>6. CASE u # t
    <3>1. ~ Contains(scan', u)
      BY <1>1, EmptySeq DEF Contains
    <3>2. ~ Contains(scan, u) /\ parent[u] = DelayedTasks
      BY <1>1, <2>3, <2>6, <3>1
    <3> QED
      BY <1>1, <2>3, <2>4, <2>6, <3>2
         DEF Iterating, VisitedHaveNotExpired, Expired
  <2> QED
    BY <2>5, <2>6
<1>2. Lists /\ Lists' /\ Safe /\ Iterating /\ [Next]_vars
        => [scan # <<>> /\ scan' = <<>> =>
              \A t \in Linkable :
                parent'[t] = DelayedTasks => ~ Expired(t)']_vars
  BY <1>1
<1> QED
  BY <1>2, IteratingAlways, PTL DEF Spec, TickLeavesNoneExpired

-----------------------------------------------------------------------------
(***************************************************************************)
(* The order in which ready tasks get the core.                            *)
(***************************************************************************)
\* A push leaves the other tasks in the order they had, and overtakes less
\* urgent ones only.
LEMMA PushKeepsPlaces ==
    ASSUME Lists, NEW l \in List, NEW t \in Linkable, Push(l, t),
           NEW k \in List
    PROVE  /\ \A a, b : a # t /\ b # t
                => (Precedes(queue'[k], a, b) <=> Precedes(queue[k], a, b))
           /\ \A b : /\ Ordered(queue[l], priority) /\ b # t
                     /\ Precedes(queue'[l], t, b)
                     => priority[t] < priority[b]
<1>1. /\ queue \in [List -> Seq(Linkable)]
      /\ parent \in [Linkable -> List \cup {NoList}]
      /\ priority \in [Linkable -> Nat]
      /\ Consistent(queue, parent)
  BY DEF Lists, TypeOK, ListsConsistent
<1> DEFINE new == Pushed(queue, parent, priority, l, t)
<1>2. queue' = new
  BY DEF Push
<1>3. /\ \A a, b : a # t /\ b # t
           => (Precedes(new[k], a, b) <=> Precedes(queue[k], a, b))
      /\ \A b : /\ Ordered(queue[l], priority) /\ b # t
                /\ Precedes(new[l], t, b)
                => priority[t] < priority[b]
  BY <1>1, PushedKeepsPlaces
<1> HIDE DEF new
<1> QED
  BY <1>2, <1>3

\* Only tasks of a list have places in it, and no two each other's.
LEMMA PlacesInList ==
    ASSUME Lists, NEW l \in List
    PROVE  /\ \A a, b : Precedes(queue[l], a, b)
                => /\ a \in Linkable /\ parent[a] = l
                   /\ b \in Linkable /\ parent[b] = l
                   /\ a # b /\ ~ Precedes(queue[l], b, a)
           /\ queue[l] # <<>> => \A a : ~ Precedes(queue[l], a, Head(queue[l]))
<1>1. queue[l] \in Seq(Linkable) /\ Distinct(queue[l])
  BY DEF Lists, TypeOK, ListsConsistent, Consistent
<1>2. \A a, b : Precedes(queue[l], a, b)
        => /\ a \in Linkable /\ parent[a] = l
           /\ b \in Linkable /\ parent[b] = l
  <2>1. /\ queue[l] \in Seq(Linkable)
        /\ \A u \in Linkable :
             parent[u] = l <=> Contains(queue[l], u)
    BY DEF Lists, TypeOK, ListsConsistent, Consistent
  <2> QED
    BY <2>1, PlacesAreElements
<1>3. /\ \A a : ~ Precedes(queue[l], a, a)
      /\ \A a, b : Precedes(queue[l], a, b) => ~ Precedes(queue[l], b, a)
      /\ queue[l] # <<>> => \A a : ~ Precedes(queue[l], a, Head(queue[l]))
  BY <1>1, PlacesAreOrdered
<1> QED
  BY <1>2, <1>3

(***************************************************************************)
(* OnlyFreshTasksWait as it holds between the steps of the tick handler,   *)
(* too: as long as neither a switch is pending nor the handler has decided *)
(* to request one.                                                         *)
(***************************************************************************)
OnlyFreshAhead ==
    current # Main /\ ~ pendSV /\ (scan # <<>> => ~ mustSwitch) =>
        \A t \in Linkable : Precedes(queue[ReadyTasks], t, current)
                               => frame[t] = "fresh"

\* Every step keeps it.
LEMMA OnlyFreshAheadNext ==
    ASSUME Lists, Lists', Safe, OnlyFreshAhead, [Next]_vars
    PROVE  OnlyFreshAhead'
<1> USE TaskIsLinkable, ListNames
<1>a. /\ frame \in [Linkable -> Frame]
      /\ parent \in [Linkable -> List \cup {NoList}]
      /\ ~ pendSV /\ current # Main => parent[current] = ReadyTasks
      /\ held => pendSV
  BY DEF Lists, TypeOK, Safe, RunningTaskIsReady, NoSwitchInHandler
<1>b. current # Main /\ NoException =>
        \A u \in Linkable : Precedes(queue[ReadyTasks], u, current)
                               => frame[u] = "fresh"
  BY DEF OnlyFreshAhead, NoException
<1>1. ASSUME NEW t \in Task, Start(t) PROVE OnlyFreshAhead'
  <2>1. /\ Push(ReadyTasks, t) /\ frame[t] = "created" /\ NoException
        /\ frame' = [frame EXCEPT ![t] = "fresh"] /\ current' = current
    BY <1>1 DEF Start, InMainOrThread
  <2>2. parent[t] = NoList
    BY <2>1 DEF Safe, NoTaskLost, Started
  <2>3. ASSUME current # Main, NEW u \in Linkable,
               Precedes(queue'[ReadyTasks], u, current)
        PROVE  frame'[u] = "fresh"
    <3>1. current # t
      BY <1>a, <2>1, <2>2, <2>3, ListsAssumption DEF NoException
    <3>2. CASE u = t
      BY <1>a, <2>1, <3>2
    <3>3. CASE u # t
      BY <1>a, <1>b, <2>1, <2>3, <3>1, <3>3, PushKeepsPlaces
    <3> QED
      BY <3>2, <3>3
  <2> QED
    BY <2>1, <2>3 DEF OnlyFreshAhead
<1>2. ASSUME NEW t \in Task, BlockReturn(t) PROVE OnlyFreshAhead'
  <2>1. /\ NoException /\ current = t /\ current' = current
        /\ frame' = [frame EXCEPT ![t] = "running"] /\ queue' = queue
    BY <1>2 DEF BlockReturn, lists
  <2>2. ASSUME current # Main, NEW u \in Linkable,
               Precedes(queue[ReadyTasks], u, current)
        PROVE  frame'[u] = "fresh"
    <3>1. u # t
      BY <2>1, <2>2, PlacesInList
    <3> QED
      BY <1>a, <1>b, <2>1, <2>2, <3>1
  <2> QED
    BY <2>1, <2>2 DEF OnlyFreshAhead
<1>3. ASSUME NEW caller \in Task, NEW t \in Task, NEW n \in Delays,
             DelayOther(caller, t, n)
      PROVE  OnlyFreshAhead'
  <2>1. /\ NoException /\ current = caller /\ t # caller /\ current' = current
        /\ Push(DelayedTasks, t) /\ frame' = frame
    BY <1>3 DEF DelayOther, PushDelayed, InThread
  <2>2. parent'[t] # ReadyTasks
    BY <1>a, <2>1, ListsAssumption DEF Push
  <2>3. ASSUME current # Main, NEW u \in Linkable,
               Precedes(queue'[ReadyTasks], u, current)
        PROVE  frame'[u] = "fresh"
    <3>1. \A a, b : Precedes(queue'[ReadyTasks], a, b) => parent'[a] = ReadyTasks
      <4>1. /\ queue'[ReadyTasks] \in Seq(Linkable)
            /\ \A other \in Linkable :
                 parent'[other] = ReadyTasks <=> Contains(queue'[ReadyTasks], other)
        BY DEF Lists, TypeOK, ListsConsistent, Consistent
      <4> QED
        BY <4>1, PlacesAreElements
    <3>2. u # t
      BY <2>2, <2>3, <3>1
    <3> QED
      BY <1>b, <2>1, <2>3, <3>2, PushKeepsPlaces
  <2> QED
    BY <2>1, <2>3 DEF OnlyFreshAhead
<1>4. ASSUME Tick PROVE OnlyFreshAhead'
  BY <1>4, <1>b DEF Tick, lists, OnlyFreshAhead
<1>5. ASSUME TickVisit PROVE OnlyFreshAhead'
  <2>1. /\ scan # <<>> /\ ~ pendSV /\ pendSV' = (scan' = <<>> /\ mustSwitch')
        /\ current' = current /\ frame' = frame
    BY <1>5 DEF TickVisit, Safe, NoSwitchInHandler
  <2>4. mustSwitch' \/ (mustSwitch' = mustSwitch /\ queue' = queue)
    BY <1>5 DEF TickVisit, lists
  <2>2. CASE mustSwitch'
    BY <2>1, <2>2 DEF OnlyFreshAhead
  <2>3. CASE ~ mustSwitch'
    BY <2>1, <2>3, <2>4 DEF OnlyFreshAhead
  <2> QED
    BY <2>2, <2>3
<1>6. ASSUME SwitchContext PROVE OnlyFreshAhead'
  <2>1. queue[ReadyTasks] # <<>>
    BY SomeoneIsReady DEF Safe
  <2>2. current' = Head(queue[ReadyTasks]) /\ queue' = queue
    BY <1>6, <2>1 DEF SwitchContext, lists
  <2>3. \A u : ~ Precedes(queue'[ReadyTasks], u, current')
    BY <2>1, <2>2, PlacesInList
  <2> QED
    BY <2>3 DEF OnlyFreshAhead
<1>7. ASSUME NEW t \in Task, NEW n \in PriorityRange, SetPriority(t, n)
      PROVE  OnlyFreshAhead'
  BY <1>7 DEF SetPriority, lists, tick, OnlyFreshAhead
<1>8. CASE UNCHANGED vars
  BY <1>8 DEF vars, OnlyFreshAhead
<1>9. CASE pendSV'
  BY <1>9 DEF OnlyFreshAhead
<1> QED
  BY <1>1, <1>2, <1>3, <1>4, <1>5, <1>6, <1>7, <1>8, <1>9
     DEF Next, Yield, Delay, Block, Unblock, UnblockTask

\* While a task's code runs, only tasks that were started and never ran yet
\* are ahead of it in the ready list, also when priorities change later.
THEOREM OnlyFreshTasksEverWait == Spec => []OnlyFreshTasksWait
<1>1. Init => OnlyFreshAhead
  BY DEF Init, OnlyFreshAhead
<1>2. Lists /\ Lists' /\ Safe /\ OnlyFreshAhead /\ [Next]_vars => OnlyFreshAhead'
  BY OnlyFreshAheadNext
<1>3. OnlyFreshAhead => OnlyFreshTasksWait
  BY DEF OnlyFreshAhead, OnlyFreshTasksWait, NoException
<1> QED
  BY <1>1, <1>2, <1>3, SafeAlways, PTL DEF Spec

\* What may push a task that is ready already: being yielded.
LEMMA OnlyYieldPushesReady ==
    ASSUME Lists, Lists', Safe, EndOf(scan, queue[DelayedTasks]), [Next]_vars
    PROVE  \/ queue' = queue
           \/ \E t \in Linkable : Push(ReadyTasks, t) /\ parent[t] # ReadyTasks
           \/ \E t \in Linkable, l \in List :
                 Push(l, t) /\ l # ReadyTasks
           \/ \E caller, t \in Task :
                 Push(ReadyTasks, t) /\ Yield(caller, t) /\ pendSV'
<1> USE TaskIsLinkable, ListNames, ListsAssumption
<1>1. ASSUME NEW t \in Task, Start(t)
      PROVE  Push(ReadyTasks, t) /\ parent[t] # ReadyTasks
  BY <1>1 DEF Start, Safe, NoTaskLost, Started
<1>2. ASSUME NEW l \in BlockList, Unblock(l)
      PROVE  \E t \in Linkable : Push(ReadyTasks, t) /\ parent[t] # ReadyTasks
  BY <1>2, HeadOfList DEF Unblock, UnblockTask
<1>3. ASSUME TickVisit
      PROVE  \/ queue' = queue
             \/ \E t \in Linkable : Push(ReadyTasks, t) /\ parent[t] # ReadyTasks
  BY <1>3, VisitMoves DEF lists
<1>4. ASSUME NEW t \in Task,
             \/ \E n \in Delays : Delay(t, n)
             \/ \E caller \in Task, n \in Delays : DelayOther(caller, t, n)
             \/ \E l \in BlockList : Block(t, l)
      PROVE  \E l \in List : Push(l, t) /\ l # ReadyTasks
  BY <1>4 DEF Delay, DelayOther, PushDelayed, Block
<1>5. ASSUME NEW caller \in Task, NEW t \in Task, Yield(caller, t)
      PROVE  Push(ReadyTasks, t) /\ pendSV'
  BY <1>5 DEF Yield
<1>6. CASE queue' = queue
  BY <1>6
<1> QED
  BY <1>1, <1>2, <1>3, <1>4, <1>5, <1>6
     DEF Next, SetPriority, BlockReturn, Tick, SwitchContext, vars, lists

\* If priorities are set before Start, tasks of one priority get the core in
\* the order in which they became ready, but for the ones that are yielded.
THEOREM EqualsAreServedInOrder == Spec => FifoAmongEquals
<1>1. ASSUME Lists, Lists', Safe, Iterating, [Next]_vars, ~ LatePriority,
             NEW s \in Linkable, NEW t \in Linkable,
             Precedes(queue[ReadyTasks], s, t),
             Precedes(queue'[ReadyTasks], t, s)
      PROVE  pendSV' /\ \E caller \in Task : Yield(caller, s)
  <2> USE ListNames, TaskIsLinkable
  <2>1. /\ s # t /\ ~ Precedes(queue[ReadyTasks], t, s)
        /\ parent[s] = ReadyTasks /\ parent[t] = ReadyTasks
    BY <1>1, PlacesInList
  <2>2. parent'[s] = ReadyTasks /\ parent'[t] = ReadyTasks
    <3>1. \A a, b : Precedes(queue'[ReadyTasks], a, b)
                      => parent'[a] = ReadyTasks /\ parent'[b] = ReadyTasks
      <4>1. /\ queue'[ReadyTasks] \in Seq(Linkable)
            /\ \A u \in Linkable :
                 parent'[u] = ReadyTasks <=> Contains(queue'[ReadyTasks], u)
        BY <1>1 DEF Lists, TypeOK, ListsConsistent, Consistent
      <4> QED
        BY <4>1, PlacesAreElements
    <3> QED
      BY <1>1, <3>1
  <2>3. ASSUME NEW e \in Linkable, NEW l \in List, Push(l, e)
        PROVE  e = s \/ e = t
    BY <1>1, <2>1, <2>3, PushKeepsPlaces
  <2>4. ASSUME NEW l \in List, Push(l, t), l = ReadyTasks PROVE FALSE
    <3>1. Ordered(queue[ReadyTasks], priority) /\ priority \in [Linkable -> Nat]
      BY <1>1 DEF Lists, TypeOK, Safe, ListsOrdered
    <3>2. priority[t] < priority[s]
      BY <1>1, <2>1, <2>4, <3>1, PushKeepsPlaces
    <3>3. priority[s] <= priority[t]
      BY <1>1, <3>1 DEF Precedes, Ordered
    <3> QED
      BY <3>1, <3>2, <3>3
  <2>5. ASSUME NEW e \in Linkable, NEW l \in List, Push(l, e), l # ReadyTasks
        PROVE  FALSE
    BY <1>1, <2>2, <2>3, <2>5 DEF Push, Lists, TypeOK
  <2>6. queue' # queue
    BY <1>1, <2>1
  <2>7. PICK caller \in Task, e \in Task :
          Push(ReadyTasks, e) /\ Yield(caller, e) /\ pendSV'
    BY <1>1, <2>1, <2>3, <2>5, <2>6, OnlyYieldPushesReady DEF Iterating
  <2> QED
    BY <2>3, <2>4, <2>7
<1>2. Lists /\ Lists' /\ Safe /\ Iterating /\ [Next]_vars
        => [~ LatePriority =>
              \A s, t \in Linkable :
                 /\ Precedes(queue[ReadyTasks], s, t)
                 /\ Precedes(queue[ReadyTasks], t, s)'
                 => pendSV' /\ \E caller \in Task : Yield(caller, s)]_vars
  BY <1>1
<1> QED
  BY <1>2, IteratingAlways, PTL DEF Spec, FifoAmongEquals

-----------------------------------------------------------------------------
(***************************************************************************)
(* For the components that own block lists: what the operations other than *)
(* block and unblock do not do.                                            *)
(***************************************************************************)
\* A push to another list leaves an empty block list empty.
LEMMA PushKeepsEmpty ==
    ASSUME Lists, NEW l \in List, NEW t \in Linkable, Push(l, t),
           NEW k \in List, k # l, queue[k] = <<>>
    PROVE  queue'[k] = <<>>
<1>1. queue \in [List -> Seq(Linkable)]
  BY DEF Lists, TypeOK
<1> QED
  BY <1>1, PushedKeepsEmpty DEF Push

\* They put tasks on no list but the ready and the delayed list.
LEMMA PlainStepMoves ==
    ASSUME Lists, PlainStep
    PROVE  \/ lists' = lists
           \/ \E u \in Linkable, l \in {ReadyTasks, DelayedTasks} : Push(l, u)
<1> USE TaskIsLinkable
<1>1. ASSUME TickVisit
      PROVE  lists' = lists \/ \E u \in Linkable : Push(ReadyTasks, u)
  <2>1. Head(scan) \in Linkable
    BY <1>1, HeadTailProperties DEF TickVisit, Lists, TypeOK
  <2>2. Push(ReadyTasks, Head(scan)) \/ lists' = lists
    BY <1>1 DEF TickVisit
  <2> QED
    BY <2>1, <2>2
<1>2. ASSUME NEW t \in Task,
             \/ Start(t)
             \/ \E caller \in Task : Yield(caller, t)
             \/ \E n \in Delays : Delay(t, n)
             \/ \E caller \in Task, n \in Delays : DelayOther(caller, t, n)
      PROVE  Push(ReadyTasks, t) \/ Push(DelayedTasks, t)
  BY <1>2 DEF Start, Yield, Delay, DelayOther, PushDelayed
<1> QED
  BY <1>1, <1>2 DEF PlainStep, SetPriority, Tick, SwitchContext

\* They fill no empty block list.
LEMMA PlainStepKeepsEmpty ==
    ASSUME Lists, PlainStep, NEW s \in BlockList, queue[s] = <<>>
    PROVE  queue'[s] = <<>>
<1>1. s \in List /\ s # ReadyTasks /\ s # DelayedTasks
  BY ListNames, ListsAssumption
<1>2. ASSUME NEW t \in Linkable, NEW l \in {ReadyTasks, DelayedTasks}, Push(l, t)
      PROVE  queue'[s] = <<>>
  BY <1>1, <1>2, ListNames, PushKeepsEmpty
<1> QED
  BY <1>2, PlainStepMoves DEF lists

\* They put no task on a block list.
LEMMA PlainStepBlocksNobody ==
    ASSUME Lists, PlainStep, NEW t \in Linkable, parent'[t] \in BlockList
    PROVE  parent[t] = parent'[t]
<1>1. ASSUME NEW u \in Linkable, NEW l \in {ReadyTasks, DelayedTasks}, Push(l, u)
      PROVE  parent[t] = parent'[t]
  BY <1>1, ListsAssumption DEF Push, Lists, TypeOK
<1> QED
  BY <1>1, PlainStepMoves DEF lists

\* They neither start nor end a call of Block, and tell
\* nobody a reason.
LEMMA PlainStepKeepsCalls ==
    ASSUME Lists, PlainStep
    PROVE  /\ reason' = reason
           /\ \A t \in Linkable : frame'[t] = "blocked" <=> frame[t] = "blocked"
<1>1. frame \in [Linkable -> Frame] /\ Task \subseteq Linkable
  BY TaskIsLinkable DEF Lists, TypeOK
<1>2. ASSUME NEW t \in Task, Start(t)
      PROVE  /\ reason' = reason
             /\ \A u \in Linkable : frame'[u] = "blocked" <=> frame[u] = "blocked"
  BY <1>1, <1>2 DEF Start, block
<1>3. ASSUME SwitchContext
      PROVE  /\ reason' = reason
             /\ \A u \in Linkable : frame'[u] = "blocked" <=> frame[u] = "blocked"
  <2>1. frame' = [frame EXCEPT ![current'] = IF frame[current'] = "fresh"
                                             THEN "running" ELSE frame[current']]
    BY <1>3 DEF SwitchContext
  <2> QED
    BY <1>1, <1>3, <2>1 DEF SwitchContext, block
<1>4. CASE frame' = frame /\ reason' = reason
  BY <1>4
<1> QED
  BY <1>2, <1>3, <1>4
     DEF PlainStep, SetPriority, Yield, Delay, DelayOther, Tick, TickVisit,
         block

\* The front of a list is as urgent as every task on it.
LEMMA FrontIsMostUrgent ==
    ASSUME Lists, ListsOrdered, ~LatePriority, NEW l \in List,
           NEW u \in Linkable, parent[u] = l
    PROVE  queue[l] # <<>> /\ priority[Head(queue[l])] <= priority[u]
<1>1. queue[l] \in Seq(Linkable) /\ priority \in [Linkable -> Nat]
      /\ DOMAIN queue = List /\ DOMAIN parent = Linkable
  BY DEF Lists, TypeOK
<1>2. PICK i \in 1 .. Len(queue[l]) : queue[l][i] = u
  BY <1>1 DEF Lists, ListsConsistent, Consistent, Contains
<1>3. queue[l] # <<>> /\ Head(queue[l]) = queue[l][1] /\ 1 \in 1 .. Len(queue[l])
  BY <1>1, <1>2, HeadTailProperties, EmptySeq, LenProperties
<1> QED
  BY <1>1, <1>2, <1>3, LenProperties DEF ListsOrdered, Ordered

\* A task that waits on a block list is told the reason Request only by an
\* Unblock of that list, and then it is the one at the front.
LEMMA OnlyUnblockServes ==
    ASSUME Lists, Safe, [Next]_vars, NEW t \in Linkable,
           parent[t] \in BlockList, reason'[t] = "Request"
    PROVE  Unblock(parent[t]) /\ t = Head(queue[parent[t]])
<1>1. reason[t] # "Request" /\ frame[t] = "blocked"
  BY DEF Safe, HookPointsToLiveFrame, BlockStatus
<1>2. reason \in [Linkable -> Reason] /\ Task \subseteq Linkable
  BY TaskIsLinkable DEF Lists, TypeOK
<1>3. ASSUME NEW u \in Task, NEW l \in BlockList, Block(u, l) PROVE FALSE
  BY <1>1, <1>2, <1>3 DEF Block
<1>4. PICK l \in BlockList : Unblock(l)
  BY <1>1, <1>3
     DEF Next, vars, block, SetPriority, Start, BlockReturn, Yield, Delay,
         DelayOther, Tick, TickVisit, SwitchContext
<1>5. t = Head(queue[l])
  BY <1>1, <1>2, <1>4 DEF Unblock, UnblockTask
<1>6. parent[t] = l
  BY <1>4, <1>5, HeadOfList, ListNames DEF Unblock
<1> QED
  BY <1>4, <1>5, <1>6

\* Whoever waits at the front of a block list is an application task inside
\* Block that has not been told a reason.
LEMMA FrontWaits ==
    ASSUME Lists, Safe, NEW l \in BlockList, queue[l] # <<>>
    PROVE  LET t == Head(queue[l]) IN
             /\ t \in Task /\ parent[t] = l
             /\ frame[t] = "blocked" /\ hook[t] /\ reason[t] # "Request"
<1> DEFINE t == Head(queue[l])
<1>1. t \in Linkable /\ parent[t] = l
  BY HeadOfList, ListNames
<1> HIDE DEF t
<1>2. t \in Task /\ frame[t] = "blocked" /\ hook[t] /\ reason[t] # "Request"
  BY <1>1, ListNames, ListsAssumption
     DEF Safe, IdleIsReady, HookPointsToLiveFrame, BlockStatus, Linkable
<1> QED
  BY <1>1, <1>2 DEF t
=============================================================================
