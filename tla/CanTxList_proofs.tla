-------------------------- MODULE CanTxList_proofs --------------------------
(***************************************************************************)
(* Proofs about CanTxList, for any ids and any number of entries: the      *)
(* grid's rows and the entries belong together, ids differ until an entry  *)
(* is copied, and a single shot is kept until it is handed over.           *)
(***************************************************************************)
EXTENDS CanTxList, SequenceTheorems, FiniteSetTheorems, WellFoundedInduction, TLAPS

Members == [id : Ids, send : BOOLEAN, shot : BOOLEAN]
Row == [object : Objects, cell : Ids \cup {NoId}]

Distinct(s) == \A i, j \in 1 .. Len(s) : s[i] = s[j] => i = j
Lists == {s \in Seq(Objects) : Len(s) <= MaxEntries /\ Distinct(s)}

IdsUnique == \A o, p \in Alive : heap[o].id = heap[p].id => o = p

Flags == stale \in BOOLEAN /\ copied \in BOOLEAN /\ taken \in BOOLEAN

(* A single shot is collected before its flag is cleared.                  *)
TakenIsDue == taken => \E k \in DOMAIN due : due[k] = entries[scan]

IInv ==
  /\ TypeOK /\ Flags /\ Distinct(entries)
  /\ RowsAreEntries
  /\ copied \/ IdsUnique
  /\ ShotIsKept /\ TakenIsDue

-----------------------------------------------------------------------------
(* Sequences of objects.                                                   *)
LEMMA RangeIs ==
  ASSUME NEW S, NEW s \in Seq(S)
  PROVE  /\ Len(s) \in Nat /\ DOMAIN s = 1 .. Len(s)
         /\ Range(s) = {s[i] : i \in 1 .. Len(s)} /\ Range(s) \subseteq S
         /\ \A i \in 1 .. Len(s) : s[i] \in S /\ s[i] \in Range(s)
<1>1. Len(s) \in Nat /\ DOMAIN s = 1 .. Len(s) /\ \A i \in 1 .. Len(s) : s[i] \in S
  BY LenProperties, ElementOfSeq
<1>. QED
  BY <1>1 DEF Range

LEMMA Singleton ==
  ASSUME NEW S, NEW x \in S
  PROVE  <<x>> \in Seq(S) /\ Len(<<x>>) = 1 /\ <<x>>[1] = x
OBVIOUS

LEMMA FreshObjects ==
  ASSUME NEW n \in Nat, NEW s \in Fresh(n)
  PROVE  /\ s \in Seq(Objects) /\ Len(s) = n /\ Distinct(s)
         /\ \A i \in 1 .. n : s[i] \in Free
<1>1. /\ s \in [1 .. n -> Free]
      /\ \A i \in 1 .. n, o \in Free : o < s[i] <=> \E j \in 1 .. i - 1 : s[j] = o
  BY DEF Fresh
<1>2. Free \subseteq Objects /\ Free \subseteq Nat
  BY ListAssumption DEF Free, Objects
<1>3. s \in Seq(Objects) /\ Len(s) = n
  <2>1. s \in [1 .. n -> Objects]
    BY <1>1, <1>2
  <2>. QED
    BY <2>1
<1>4. ASSUME NEW i \in 1 .. n, NEW j \in 1 .. n, j < i PROVE s[i] # s[j]
  <2>1. j \in 1 .. i - 1 /\ s[i] \in Free /\ s[j] \in Free
    BY <1>1, <1>4
  <2>2. s[j] < s[i]
    BY <1>1, <2>1
  <2>3. s[i] \in Nat /\ s[j] \in Nat
    BY <1>2, <2>1
  <2>. QED
    BY <2>2, <2>3
<1>5. \A i, j \in 1 .. n : i = j \/ i < j \/ j < i
  OBVIOUS
<1>. QED
  BY <1>1, <1>3, <1>4, <1>5 DEF Distinct

(* The smallest position of an entry that has the id.                      *)
LEMMA FirstIsOne ==
  ASSUME NEW id, entries \in Seq(Objects), Having(id) # {}
  PROVE  FirstWith(id) \in 1 .. Len(entries)
<1>1. Having(id) \subseteq 1 .. Len(entries) /\ Having(id) \subseteq Nat
  BY RangeIs DEF Having
<1>2. PICK m \in Having(id) : \A k \in Having(id) : ~ (<<k, m>> \in OpToRel(<, Nat))
  BY <1>1, NatLessThanWellFounded, WFMin, Zenon
<1>3. \A k \in Having(id) : ~ (k < m)
  BY <1>1, <1>2 DEF OpToRel
<1>4. FirstWith(id) \in Having(id)
  <2>1. m \in Having(id) /\ \A k \in Having(id) : m <= k
    BY <1>1, <1>3
  <2>. QED
    BY <2>1 DEF FirstWith, Min
<1>. QED
  BY <1>1, <1>4

LEMMA Inserted ==
  ASSUME NEW s \in Seq(Objects), Distinct(s), NEW at \in 1 .. Len(s) + 1,
         NEW o \in Objects, o \notin Range(s)
  PROVE  /\ InsertAt(s, at, o) \in Seq(Objects) /\ Distinct(InsertAt(s, at, o))
         /\ Len(InsertAt(s, at, o)) = Len(s) + 1
         /\ Range(InsertAt(s, at, o)) \subseteq Range(s) \cup {o}
<1> DEFINE a == SubSeq(s, 1, at - 1)
           b == SubSeq(s, at, Len(s))
           t == InsertAt(s, at, o)
<1>1. /\ Len(s) \in Nat /\ at \in Nat
      /\ \A i \in 1 .. Len(s) : s[i] \in Objects /\ s[i] \in Range(s)
  BY RangeIs
<1>2. /\ a \in Seq(Objects) /\ Len(a) = at - 1
      /\ \A i \in 1 .. at - 1 : a[i] = s[i]
  BY <1>1, SubSeqProperties
<1>3. /\ b \in Seq(Objects) /\ Len(b) = Len(s) - at + 1
      /\ \A i \in 1 .. Len(s) - at + 1 : b[i] = s[at + i - 1]
  BY <1>1, SubSeqProperties
<1>4. /\ <<o>> \in Seq(Objects) /\ Len(<<o>>) = 1 /\ <<o>>[1] = o
  OBVIOUS
<1>5. t = (a \o <<o>>) \o b
  BY DEF InsertAt
<1> HIDE DEF a, b, t
<1>6. /\ a \o <<o>> \in Seq(Objects) /\ Len(a \o <<o>>) = at
      /\ \A i \in 1 .. at : (a \o <<o>>)[i] = IF i <= at - 1 THEN s[i] ELSE o
  <2>1. /\ a \o <<o>> \in Seq(Objects) /\ Len(a \o <<o>>) = Len(a) + 1
        /\ \A i \in 1 .. Len(a) + 1 : (a \o <<o>>)[i] =
              IF i <= Len(a) THEN a[i] ELSE <<o>>[i - Len(a)]
    BY <1>2, <1>4, ConcatProperties
  <2>. QED
    BY <1>1, <1>2, <1>4, <2>1
<1>7. /\ t \in Seq(Objects) /\ Len(t) = Len(s) + 1
      /\ \A i \in 1 .. Len(s) + 1 :
           t[i] = IF i < at THEN s[i] ELSE IF i = at THEN o ELSE s[i - 1]
  <2>1. /\ t \in Seq(Objects) /\ Len(t) = at + Len(b)
        /\ \A i \in 1 .. at + Len(b) :
             t[i] = IF i <= at THEN (a \o <<o>>)[i] ELSE b[i - at]
    BY <1>3, <1>5, <1>6, ConcatProperties
  <2>2. Len(t) = Len(s) + 1
    BY <1>1, <1>3, <2>1
  <2>3. ASSUME NEW i \in 1 .. Len(s) + 1
        PROVE  t[i] = IF i < at THEN s[i] ELSE IF i = at THEN o ELSE s[i - 1]
    <3>1. CASE i <= at
      BY <1>1, <1>3, <1>6, <2>1, <3>1
    <3>2. CASE i > at
      <4>1. i - at \in 1 .. Len(s) - at + 1 /\ at + (i - at) - 1 = i - 1
        BY <1>1, <3>2
      <4>2. b[i - at] = s[i - 1]
        BY <1>3, <4>1
      <4>3. t[i] = b[i - at]
        BY <1>1, <1>3, <2>1, <3>2
      <4>. QED
        BY <1>1, <3>2, <4>2, <4>3
    <3>. QED
      BY <1>1, <3>1, <3>2
  <2>. QED
    BY <2>1, <2>2, <2>3
<1>8. Distinct(t)
  <2> SUFFICES ASSUME NEW i \in 1 .. Len(s) + 1, NEW j \in 1 .. Len(s) + 1, t[i] = t[j]
               PROVE  i = j
    BY <1>7 DEF Distinct
  <2> DEFINE from(k) == IF k < at THEN k ELSE k - 1
  <2>1. \A k \in 1 .. Len(s) + 1 : k # at =>
          from(k) \in 1 .. Len(s) /\ t[k] = s[from(k)] /\ t[k] # o
    BY <1>1, <1>7
  <2>2. t[at] = o
    BY <1>1, <1>7
  <2>3. CASE i = at \/ j = at
    BY <2>1, <2>2, <2>3
  <2>4. CASE i # at /\ j # at
    <3>1. from(i) = from(j)
      BY <2>1, <2>4 DEF Distinct
    <3>. QED
      BY <1>1, <2>4, <3>1
  <2>. QED
    BY <2>3, <2>4
<1>9. Range(t) \subseteq Range(s) \cup {o}
  <2>1. \A i \in 1 .. Len(t) : t[i] = o \/ t[i] \in Range(s)
    <3> SUFFICES ASSUME NEW i \in 1 .. Len(s) + 1, i # at PROVE t[i] \in Range(s)
      BY <1>1, <1>7
    <3>1. CASE i < at
      BY <1>1, <1>7, <3>1
    <3>2. CASE i > at
      BY <1>1, <1>7, <3>2
    <3>. QED
      BY <1>1, <3>1, <3>2
  <2>. QED
    BY <1>7, <2>1, RangeIs
<1>. QED
  BY <1>7, <1>8, <1>9 DEF t

(* What can be made of the entries by choosing some of their positions,    *)
(* each once, in any order.                                                *)
Choice(t, n, s) ==
  /\ n \in Nat /\ n <= Len(entries)
  /\ s \in [1 .. n -> 1 .. Len(entries)]
  /\ \A k, l \in 1 .. n : s[k] = s[l] => k = l
  /\ t \in Seq(Objects) /\ Len(t) = n /\ \A k \in 1 .. n : t[k] = entries[s[k]]

LEMMA Chosen ==
  ASSUME entries \in Lists, NEW t, NEW n, NEW s, Choice(t, n, s)
  PROVE  t \in Lists /\ Range(t) \subseteq Alive
<1>0. /\ n \in Nat /\ n <= Len(entries) /\ s \in [1 .. n -> 1 .. Len(entries)]
      /\ \A k, l \in 1 .. n : s[k] = s[l] => k = l
      /\ t \in Seq(Objects) /\ Len(t) = n /\ \A k \in 1 .. n : t[k] = entries[s[k]]
  BY DEF Choice
<1>1. /\ entries \in Seq(Objects) /\ Len(entries) \in Nat /\ Distinct(entries)
      /\ Len(entries) <= MaxEntries
  BY RangeIs DEF Lists
<1>2. Distinct(t)
  <2> SUFFICES ASSUME NEW k \in 1 .. n, NEW l \in 1 .. n, t[k] = t[l] PROVE k = l
    BY <1>0 DEF Distinct
  <2>1. s[k] \in 1 .. Len(entries) /\ s[l] \in 1 .. Len(entries)
    BY <1>0
  <2>2. entries[s[k]] = entries[s[l]]
    BY <1>0
  <2>3. s[k] = s[l]
    BY <1>1, <2>1, <2>2 DEF Distinct
  <2>. QED
    BY <1>0, <2>3
<1>3. Range(t) \subseteq Alive
  <2>1. \A i \in 1 .. Len(entries) : entries[i] \in Range(entries)
    BY <1>1, RangeIs
  <2>2. \A k \in 1 .. n : t[k] \in Range(entries)
    BY <1>0, <2>1
  <2>3. Range(t) = {t[i] : i \in 1 .. n}
    BY <1>0, RangeIs
  <2>. QED
    BY <2>2, <2>3 DEF Alive
<1>. QED
  BY <1>0, <1>1, <1>2, <1>3, ListAssumption DEF Lists

LEMMA Deleted ==
  ASSUME entries \in Lists, NEW id, NEW rest \in Without(id)
  PROVE  rest \in Lists /\ Range(rest) \subseteq Alive
<1> DEFINE stay == DOMAIN entries \ Having(id)
           n == Cardinality(stay)
<1>1. entries \in Seq(Objects) /\ Len(entries) \in Nat /\ DOMAIN entries = 1 .. Len(entries)
  BY RangeIs DEF Lists
<1>2. /\ IsFiniteSet(1 .. Len(entries)) /\ Cardinality(1 .. Len(entries)) = Len(entries)
      /\ stay \subseteq 1 .. Len(entries)
  <2>1. 1 \in Int /\ Len(entries) \in Int
    BY <1>1
  <2>2. Cardinality(1 .. Len(entries)) = IF 1 > Len(entries) THEN 0 ELSE Len(entries) - 1 + 1
    BY <2>1, FS_Interval
  <2>3. IsFiniteSet(1 .. Len(entries))
    BY <2>1, FS_Interval
  <2>. QED
    BY <1>1, <2>2, <2>3
<1>3. n \in Nat /\ n <= Len(entries)
  BY <1>2, FS_Subset, FS_CardinalityType
<1>4. PICK s \in [1 .. n -> stay] :
        /\ \A k, l \in DOMAIN s : k < l => s[k] < s[l]
        /\ rest = [k \in DOMAIN s |-> entries[s[k]]]
  BY DEF Without
<1> HIDE DEF n
<1>5. /\ s \in [1 .. n -> 1 .. Len(entries)] /\ DOMAIN s = 1 .. n
      /\ \A k \in 1 .. n : s[k] \in Nat
  BY <1>1, <1>2, <1>4
<1>6. ASSUME NEW k \in 1 .. n, NEW l \in 1 .. n, s[k] = s[l] PROVE k = l
  <2>1. ~ (k < l) /\ ~ (l < k)
    BY <1>4, <1>5, <1>6
  <2>. QED
    BY <2>1
<1>7. rest \in Seq(Objects) /\ Len(rest) = n /\ \A k \in 1 .. n : rest[k] = entries[s[k]]
  <2>1. \A k \in 1 .. n : entries[s[k]] \in Objects
    BY <1>1, <1>5, RangeIs
  <2>2. rest \in [1 .. n -> Objects] /\ \A k \in 1 .. n : rest[k] = entries[s[k]]
    BY <1>4, <1>5, <2>1
  <2>. QED
    BY <1>3, <2>2
<1>. QED
  BY <1>3, <1>5, <1>6, <1>7, Chosen DEF Choice

LEMMA RotatedForward ==
  ASSUME entries \in Lists, entries # <<>>,
         NEW t, t = Tail(entries) \o <<Head(entries)>>
  PROVE  t \in Lists /\ Range(t) \subseteq Alive
<1> DEFINE n == Len(entries)
           s == [k \in 1 .. n |-> IF k < n THEN k + 1 ELSE 1]
<1>a. entries \in Seq(Objects) /\ n \in Nat /\ n >= 1
  BY RangeIs, EmptySeq DEF Lists
<1>b. /\ Tail(entries) \in Seq(Objects) /\ Len(Tail(entries)) = n - 1
      /\ \A k \in 1 .. Len(Tail(entries)) : Tail(entries)[k] = entries[k + 1]
      /\ Head(entries) \in Objects
  BY <1>a, HeadTailProperties
<1>c. Head(entries) = entries[1]
  BY <1>a
<1>1. /\ entries \in Seq(Objects) /\ n \in Nat /\ n >= 1
      /\ Tail(entries) \in Seq(Objects) /\ Len(Tail(entries)) = n - 1
      /\ \A k \in 1 .. n - 1 : Tail(entries)[k] = entries[k + 1]
      /\ Head(entries) \in Objects /\ Head(entries) = entries[1]
  BY <1>a, <1>b, <1>c
<1>2. <<Head(entries)>> \in Seq(Objects) /\ Len(<<Head(entries)>>) = 1
      /\ <<Head(entries)>>[1] = Head(entries)
  BY <1>b, Singleton
<1>3. n = Len(entries)
  OBVIOUS
<1> HIDE DEF n
<1>4. /\ t \in Seq(Objects) /\ Len(t) = n - 1 + 1
      /\ \A k \in 1 .. n - 1 + 1 :
           t[k] = IF k <= n - 1 THEN Tail(entries)[k] ELSE <<Head(entries)>>[k - (n - 1)]
  BY <1>1, <1>2, ConcatProperties
<1>5. /\ t \in Seq(Objects) /\ Len(t) = n
      /\ \A k \in 1 .. n : t[k] = entries[IF k < n THEN k + 1 ELSE 1]
  <2>1. ASSUME NEW k \in 1 .. n, k < n PROVE t[k] = entries[k + 1]
    BY <1>1, <1>4, <2>1
  <2>2. t[n] = entries[1]
    <3>1. n \in 1 .. n - 1 + 1 /\ ~ (n <= n - 1) /\ n - (n - 1) = 1
      BY <1>1
    <3>2. t[n] = <<Head(entries)>>[n - (n - 1)]
      BY <1>4, <3>1
    <3>. QED
      BY <1>1, <1>2, <3>1, <3>2
  <2>. QED
    BY <1>1, <1>4, <2>1, <2>2
<1>6. /\ s \in [1 .. n -> 1 .. n]
      /\ \A k, l \in 1 .. n : s[k] = s[l] => k = l
      /\ \A k \in 1 .. n : t[k] = entries[s[k]]
  <2>1. ASSUME NEW k \in 1 .. n
        PROVE  s[k] = (IF k < n THEN k + 1 ELSE 1) /\ s[k] \in 1 .. n
    BY <1>1
  <2>2. s \in [1 .. n -> 1 .. n]
    BY <2>1
  <2> HIDE DEF s
  <2>3. ASSUME NEW k \in 1 .. n, NEW l \in 1 .. n, s[k] = s[l] PROVE k = l
    <3>1. s[k] = (IF k < n THEN k + 1 ELSE 1) /\ s[l] = (IF l < n THEN l + 1 ELSE 1)
      BY <2>1, Zenon
    <3>2. (IF k < n THEN k + 1 ELSE 1) = (IF l < n THEN l + 1 ELSE 1)
      BY <2>3, <3>1, Zenon
    <3>3. n \in Nat
      BY <1>1
    <3>. QED
      BY <3>2, <3>3
  <2>4. ASSUME NEW k \in 1 .. n PROVE t[k] = entries[s[k]]
    BY <1>5, <2>1, Zenon
  <2>. QED
    BY <2>2, <2>3, <2>4
<1> HIDE DEF s
<1>7. Choice(t, n, s)
  <2>1. n \in Nat /\ n <= Len(entries)
    BY <1>a, <1>3
  <2>2. s \in [1 .. n -> 1 .. Len(entries)]
    BY <1>3, <1>6, Zenon
  <2>. QED
    BY <1>5, <1>6, <2>1, <2>2, Zenon DEF Choice
<1>. QED
  BY <1>7, Chosen

LEMMA RotatedBack ==
  ASSUME entries \in Lists, entries # <<>>,
         NEW t, t = <<Last(entries)>> \o Front(entries)
  PROVE  t \in Lists /\ Range(t) \subseteq Alive
<1> DEFINE n == Len(entries)
           s == [k \in 1 .. n |-> IF k = 1 THEN n ELSE k - 1]
<1>1. /\ entries \in Seq(Objects) /\ n \in Nat /\ n >= 1
      /\ \A k \in 1 .. n : entries[k] \in Objects
  BY RangeIs, EmptySeq DEF Lists
<1>2. /\ Front(entries) \in Seq(Objects) /\ Len(Front(entries)) = n - 1
      /\ \A k \in 1 .. n - 1 : Front(entries)[k] = entries[k]
  BY <1>1, SubSeqProperties DEF Front
<1>3. <<Last(entries)>> \in Seq(Objects) /\ Len(<<Last(entries)>>) = 1
      /\ <<Last(entries)>>[1] = entries[n]
  BY <1>1 DEF Last
<1>4. /\ t \in Seq(Objects) /\ Len(t) = 1 + (n - 1)
      /\ \A k \in 1 .. 1 + (n - 1) :
           t[k] = IF k <= 1 THEN <<Last(entries)>>[k] ELSE Front(entries)[k - 1]
  BY <1>2, <1>3, ConcatProperties
<1>5. /\ t \in Seq(Objects) /\ Len(t) = n
      /\ \A k \in 1 .. n : t[k] = entries[IF k = 1 THEN n ELSE k - 1]
  <2>1. ASSUME NEW k \in 1 .. n, k # 1 PROVE t[k] = entries[k - 1]
    BY <1>1, <1>2, <1>4, <2>1
  <2>2. t[1] = entries[n]
    BY <1>1, <1>3, <1>4
  <2>. QED
    BY <1>1, <1>4, <2>1, <2>2
<1>6. /\ s \in [1 .. n -> 1 .. n]
      /\ \A k, l \in 1 .. n : s[k] = s[l] => k = l
      /\ \A k \in 1 .. n : t[k] = entries[s[k]]
  <2>1. ASSUME NEW k \in 1 .. n
        PROVE  s[k] = (IF k = 1 THEN n ELSE k - 1) /\ s[k] \in 1 .. n
    BY <1>1
  <2>2. s \in [1 .. n -> 1 .. n]
    BY <2>1
  <2> HIDE DEF s
  <2>3. ASSUME NEW k \in 1 .. n, NEW l \in 1 .. n, s[k] = s[l] PROVE k = l
    <3>1. s[k] = (IF k = 1 THEN n ELSE k - 1) /\ s[l] = (IF l = 1 THEN n ELSE l - 1)
      BY <2>1, Zenon
    <3>2. (IF k = 1 THEN n ELSE k - 1) = (IF l = 1 THEN n ELSE l - 1)
      BY <2>3, <3>1, Zenon
    <3>3. n \in Nat
      BY <1>1
    <3>. QED
      BY <3>2, <3>3
  <2>4. ASSUME NEW k \in 1 .. n PROVE t[k] = entries[s[k]]
    BY <1>5, <2>1, Zenon
  <2>. QED
    BY <2>2, <2>3, <2>4
<1> HIDE DEF s
<1>7. Choice(t, Len(entries), s)
  BY <1>1, <1>5, <1>6 DEF Choice
<1>. QED
  BY <1>7, Chosen

LEMMA SwappedEntries ==
  ASSUME entries \in Lists, NEW id, NEW other
  PROVE  Swapped(id, other) \in Lists /\ Range(Swapped(id, other)) \subseteq Alive
<1>1. CASE Having(id) = {} \/ Having(other) = {}
  BY <1>1 DEF Swapped, Alive
<1>2. CASE Having(id) # {} /\ Having(other) # {}
  <2> DEFINE n == Len(entries)
             a == FirstWith(id)
             b == FirstWith(other)
             t == Swapped(id, other)
             s == [k \in 1 .. n |-> IF k = b THEN a ELSE IF k = a THEN b ELSE k]
  <2>1. entries \in Seq(Objects) /\ n \in Nat /\ DOMAIN entries = 1 .. n
        /\ \A k \in 1 .. n : entries[k] \in Objects
    BY RangeIs DEF Lists
  <2>2. a \in 1 .. n /\ b \in 1 .. n
    BY <1>2, <2>1, FirstIsOne
  <2>3. t = [entries EXCEPT ![a] = entries[b], ![b] = entries[a]]
    BY <1>2 DEF Swapped
  <2> HIDE DEF a, b, t
  <2>4. /\ t \in Seq(Objects) /\ Len(t) = n
        /\ \A k \in 1 .. n : t[k] = entries[IF k = b THEN a ELSE IF k = a THEN b ELSE k]
    <3>1. t \in [1 .. n -> Objects]
          /\ \A k \in 1 .. n : t[k] = entries[IF k = b THEN a ELSE IF k = a THEN b ELSE k]
      <4>1. entries \in [1 .. n -> Objects]
        BY <2>1, LenProperties
      <4>. QED
        BY <2>1, <2>2, <2>3, <4>1
    <3>. QED
      BY <2>1, <3>1
  <2>5. /\ s \in [1 .. n -> 1 .. n]
        /\ \A k, l \in 1 .. n : s[k] = s[l] => k = l
        /\ \A k \in 1 .. n : t[k] = entries[s[k]]
    <3>1. ASSUME NEW k \in 1 .. n
          PROVE  s[k] = (IF k = b THEN a ELSE IF k = a THEN b ELSE k) /\ s[k] \in 1 .. n
      BY <2>2
    <3>2. s \in [1 .. n -> 1 .. n]
      BY <3>1
    <3> HIDE DEF s
    <3>3. \A k, l \in 1 .. n : s[k] = s[l] => k = l
      BY <2>2, <3>1
    <3>. QED
      BY <2>4, <3>1, <3>2, <3>3
  <2> HIDE DEF s
  <2>6. t \in Lists /\ Range(t) \subseteq Alive
    <3>1. Choice(t, Len(entries), s)
      BY <2>1, <2>4, <2>5 DEF Choice
    <3>. QED
      BY <3>1, Chosen
  <2>. QED
    BY <2>6 DEF t
<1>. QED
  BY <1>1, <1>2

-----------------------------------------------------------------------------
(* What the handlers do to the list, the members and the grid.             *)
LEMMA Types ==
  ASSUME IInv
  PROVE  /\ entries \in Lists /\ entries \in Seq(Objects) /\ Len(entries) \in Nat
         /\ DOMAIN entries = 1 .. Len(entries)
         /\ \A i \in 1 .. Len(entries) : entries[i] \in Alive
         /\ Alive \subseteq Objects
         /\ heap \in [Objects -> Members]
         /\ \A o \in Objects : heap[o].id \in Ids
         /\ rows \in Seq(Row) /\ DOMAIN rows = 1 .. Len(rows) /\ Len(rows) \in Nat
         /\ \A r \in DOMAIN rows : rows[r] \in Row /\ rows[r].object \in Objects
         /\ due \in Seq(Objects) /\ DOMAIN due = 1 .. Len(due) /\ Len(due) \in Nat
<1>1. /\ entries \in Seq(Objects) /\ Len(entries) <= MaxEntries /\ Distinct(entries)
      /\ heap \in [Objects -> Members] /\ rows \in Seq(Row) /\ due \in Seq(Objects)
  BY DEF IInv, TypeOK, Members, Row
<1>2. /\ Len(entries) \in Nat /\ DOMAIN entries = 1 .. Len(entries)
      /\ \A i \in 1 .. Len(entries) : entries[i] \in Alive
      /\ Alive \subseteq Objects
  BY <1>1, RangeIs DEF Alive
<1>3. /\ DOMAIN rows = 1 .. Len(rows) /\ Len(rows) \in Nat
      /\ DOMAIN due = 1 .. Len(due) /\ Len(due) \in Nat
  BY <1>1, LenProperties
<1>4. \A r \in DOMAIN rows : rows[r] \in Row
  BY <1>1, <1>3, ElementOfSeq
<1>5. \A r \in DOMAIN rows : rows[r].object \in Objects
  BY <1>4 DEF Row
<1>6. \A o \in Objects : heap[o].id \in Ids
  BY <1>1 DEF Members
<1>. QED
  BY <1>1, <1>2, <1>3, <1>4, <1>5, <1>6 DEF Lists

LEMMA EntryType ==
  ASSUME NEW id \in Ids, NEW send \in BOOLEAN
  PROVE  Entry(id, send) \in Members
BY DEF Entry, Members

LEMMA Changed ==
  ASSUME NEW objects \in Lists, NEW members, \A o \in Range(objects) : members[o] \in Members,
         Change(objects, members)
  PROVE  /\ entries' = objects /\ Alive' = Range(objects)
         /\ heap' \in [Objects -> Members]
         /\ \A o \in Range(objects) : heap'[o] = members[o]
<1>1. /\ entries' = objects
      /\ heap' = [o \in Objects |-> IF o \in Range(objects) THEN members[o] ELSE Unused]
  BY DEF Change
<1>2. Range(objects) \subseteq Objects
  BY RangeIs DEF Lists
<1>3. Unused \in Members
  BY ListAssumption DEF Unused, Entry, Members, Ids
<1>4. Alive' = Range(objects)
  BY <1>1 DEF Alive
<1>. QED
  BY <1>1, <1>2, <1>3, <1>4

(* RefreshTx makes one row for every entry.                                *)
LEMMA Refreshed ==
  ASSUME NEW objects \in Lists, NEW members, \A o \in Range(objects) : members[o] \in Members,
         ChangeAndRefreshTx(objects, members)
  PROVE  /\ entries' = objects /\ Alive' = Range(objects)
         /\ heap' \in [Objects -> Members]
         /\ \A o \in Range(objects) : heap'[o] = members[o]
         /\ rows' \in Seq(Row) /\ stale' = FALSE /\ RowsAreEntries'
<1>1. /\ rows' = [r \in DOMAIN objects |-> [object |-> objects[r],
                                            cell |-> members[objects[r]].id]]
      /\ stale' = FALSE /\ Change(objects, members)
  BY DEF ChangeAndRefreshTx
<1>2. /\ entries' = objects /\ Alive' = Range(objects)
      /\ heap' \in [Objects -> Members]
      /\ \A o \in Range(objects) : heap'[o] = members[o]
  BY <1>1, Changed
<1>3. /\ DOMAIN objects = 1 .. Len(objects) /\ Len(objects) \in Nat /\ Distinct(objects)
      /\ \A r \in 1 .. Len(objects) : objects[r] \in Objects /\ objects[r] \in Range(objects)
  BY RangeIs DEF Lists
<1>4. \A o \in Range(objects) : members[o].id \in Ids
  BY DEF Members
<1>5. /\ DOMAIN rows' = 1 .. Len(objects)
      /\ \A r \in 1 .. Len(objects) : /\ rows'[r].object = objects[r]
                                      /\ rows'[r].cell = members[objects[r]].id
                                      /\ rows'[r] \in Row
  BY <1>1, <1>3, <1>4 DEF Row
<1>6. rows' \in Seq(Row)
  <2>1. rows' \in [1 .. Len(objects) -> Row]
    BY <1>1, <1>3, <1>5
  <2>. QED
    BY <1>3, <2>1
<1>7. RowsAreEntries'
  <2> SUFFICES ASSUME NEW r \in 1 .. Len(objects)
               PROVE  /\ rows'[r].object \in Alive'
                      /\ rows'[r].cell \in {heap'[rows'[r].object].id, NoId}
                      /\ \A other \in 1 .. Len(objects) \ {r} :
                           rows'[other].object # rows'[r].object
    BY <1>5 DEF RowsAreEntries
  <2>1. rows'[r].object = objects[r] /\ objects[r] \in Range(objects)
    BY <1>3, <1>5
  <2>2. rows'[r].cell = heap'[rows'[r].object].id
    BY <1>2, <1>5, <2>1
  <2>3. \A other \in 1 .. Len(objects) \ {r} : rows'[other].object # rows'[r].object
    BY <1>3, <1>5 DEF Distinct
  <2>. QED
    BY <1>2, <2>1, <2>2, <2>3
<1>. QED
  BY <1>1, <1>2, <1>6, <1>7

(* While the worker does not hold the lock it looks at no entry.           *)
LEMMA Unlocked ==
  ASSUME IInv, ~Locked
  PROVE  scan = 0 /\ ~taken
BY DEF IInv, TypeOK, Flags, Locked

(* What a handler of the panel leaves is of its type.                       *)
LEMMA TypesAfter ==
  ASSUME IInv, ~Locked, entries' \in Lists, heap' \in [Objects -> Members], rows' \in Seq(Row),
         UNCHANGED worker, owed' \subseteq Objects, stale' \in BOOLEAN, copied' \in BOOLEAN
  PROVE  TypeOK' /\ Flags' /\ Distinct(entries') /\ TakenIsDue'
<1>1. scan = 0 /\ ~taken /\ scan' = scan /\ taken' = taken /\ due' = due
  BY Unlocked DEF worker
<1>2. due \in Seq(Objects) /\ taken \in BOOLEAN
  BY DEF IInv, TypeOK, Flags
<1>3. entries' \in Seq(Objects) /\ Len(entries') <= MaxEntries /\ Distinct(entries')
  BY DEF Lists
<1>4. Flags'
  BY <1>1, <1>2, Zenon DEF Flags
<1>5. scan' \in 0 .. Len(entries')
  <2>1. Len(entries') \in Nat
    BY <1>3, LenProperties
  <2>. QED
    BY <1>1, <2>1
<1>6. TypeOK'
  <2>1. heap' \in [Objects -> [id : Ids, send : BOOLEAN, shot : BOOLEAN]]
        /\ rows' \in Seq([object : Objects, cell : Ids \cup {NoId}])
    BY Zenon DEF Members, Row
  <2>2. due' \in Seq(Objects) /\ ~taken'
    BY <1>1, <1>2, Zenon
  <2>. QED
    BY <1>3, <1>5, <2>1, <2>2, Zenon DEF TypeOK
<1>7. TakenIsDue'
  BY <1>1, Zenon DEF TakenIsDue
<1>. QED
  BY <1>3, <1>4, <1>6, <1>7

(* Deleting and moving entries keeps some of them as they are.             *)
LEMMA Selection ==
  ASSUME IInv, ~Locked, NEW objects \in Lists, Range(objects) \subseteq Alive,
         ChangeAndRefreshTx(objects, heap), owed' \subseteq owed, UNCHANGED <<copied, worker>>
  PROVE  IInv'
<1>1. \A o \in Alive : heap[o] \in Members
  BY Types
<1>2. /\ entries' = objects /\ Alive' = Range(objects)
      /\ heap' \in [Objects -> Members]
      /\ \A o \in Range(objects) : heap'[o] = heap[o]
      /\ rows' \in Seq(Row) /\ stale' = FALSE /\ RowsAreEntries'
  BY <1>1, Refreshed
<1>3. /\ scan' = 0 /\ ~taken' /\ taken' = taken /\ due' = due /\ copied' = copied
  BY Unlocked DEF worker
<1>4. objects \in Seq(Objects) /\ Len(objects) \in Nat
  BY RangeIs DEF Lists
<1>5. TypeOK' /\ Flags' /\ Distinct(entries') /\ TakenIsDue'
  <2>1. copied \in BOOLEAN /\ owed \subseteq Objects
    BY DEF IInv, Flags, TypeOK
  <2>. QED
    BY <1>2, <1>3, <2>1, TypesAfter
<1>6. copied' \/ IdsUnique'
  BY <1>2, <1>3 DEF IInv, IdsUnique
<1>7. ShotIsKept'
  BY <1>2, <1>3 DEF IInv, ShotIsKept
<1>. QED
  BY <1>2, <1>5, <1>6, <1>7 DEF IInv

LEMMA LoadStep ==
  ASSUME IInv, NEW ids \in Files, NEW whole \in BOOLEAN, NEW fromMenu \in BOOLEAN,
         LoadTxList(ids, whole, fromMenu)
  PROVE  IInv'
<1>1. PICK new \in Fresh(Len(ids)) :
        LET members == Loaded(new, ids, whole /\ autoSend)
        IN IF whole \/ ~fromMenu
           THEN ChangeAndRefreshTx(new, members)
           ELSE UNCHANGED rows /\ stale' = TRUE /\ Change(new, members)
  BY DEF LoadTxList
<1> DEFINE send == whole /\ autoSend
           members == Loaded(new, ids, send)
<1>2. /\ ids \in Seq(Ids) /\ Len(ids) \in Nat /\ Len(ids) <= MaxEntries
      /\ DOMAIN ids = 1 .. Len(ids)
      /\ \A i, j \in 1 .. Len(ids) : ids[i] = ids[j] => i = j
      /\ \A i \in 1 .. Len(ids) : ids[i] \in Ids
  <2>1. PICK n \in 0 .. MaxEntries : ids \in [1 .. n -> Ids]
    BY DEF Files
  <2>2. \A i, j \in DOMAIN ids : ids[i] = ids[j] => i = j
    BY DEF Files
  <2>3. ids \in Seq(Ids) /\ Len(ids) = n /\ DOMAIN ids = 1 .. n
    BY <2>1
  <2>. QED
    BY <2>1, <2>2, <2>3, ListAssumption
<1>3. /\ new \in Seq(Objects) /\ Len(new) = Len(ids) /\ Distinct(new)
      /\ DOMAIN new = 1 .. Len(new) /\ Range(new) = {new[i] : i \in 1 .. Len(new)}
      /\ Range(new) \subseteq Objects
  BY <1>2, FreshObjects, RangeIs
<1>4. new \in Lists
  BY <1>2, <1>3 DEF Lists
<1>5. send \in BOOLEAN
  BY DEF IInv, TypeOK, Flags
<1>6. ASSUME NEW i \in 1 .. Len(new) PROVE members[new[i]] = Entry(ids[i], send)
  <2>1. new[i] \in Range(new) /\ new[i] \in Objects
    BY <1>3
  <2>2. (CHOOSE k \in DOMAIN new : new[k] = new[i]) = i
    BY <1>3, <1>6 DEF Distinct
  <2>. QED
    BY <2>1, <2>2 DEF Loaded
<1> HIDE DEF members, send
<1>7. \A o \in Range(new) : members[o] \in Members
  <2> SUFFICES ASSUME NEW i \in 1 .. Len(new) PROVE members[new[i]] \in Members
    BY <1>3
  <2>1. ids[i] \in Ids
    BY <1>2, <1>3
  <2>2. Entry(ids[i], send) \in Members
    BY <1>5, <2>1, EntryType, Zenon
  <2>. QED
    BY <1>6, <2>2
<1>8. /\ \/ ChangeAndRefreshTx(new, members)
         \/ rows' = rows /\ stale' = TRUE /\ Change(new, members)
  BY <1>1 DEF members, send
<1>9. /\ entries' = new /\ Alive' = Range(new)
      /\ heap' \in [Objects -> Members]
      /\ \A o \in Range(new) : heap'[o] = members[o]
      /\ rows' \in Seq(Row) /\ stale' \in BOOLEAN /\ RowsAreEntries'
  <2>1. CASE ChangeAndRefreshTx(new, members)
    BY <1>4, <1>7, <2>1, Refreshed
  <2>2. CASE rows' = rows /\ stale' = TRUE /\ Change(new, members)
    BY <1>4, <1>7, <2>2, Changed, Types DEF RowsAreEntries
  <2>. QED
    BY <1>8, <2>1, <2>2
<1>10. /\ scan' = 0 /\ ~taken' /\ taken' = taken /\ due' = due /\ copied' = FALSE /\ owed' = {}
  BY Unlocked DEF LoadTxList, worker
<1>11. TypeOK' /\ Flags' /\ Distinct(entries') /\ TakenIsDue'
  <2>1. ~Locked /\ UNCHANGED worker /\ owed' \subseteq Objects /\ copied' \in BOOLEAN
    BY <1>10 DEF LoadTxList
  <2>. QED
    BY <1>4, <1>9, <2>1, TypesAfter
<1>12. IdsUnique'
  <2>1. ASSUME NEW i \in 1 .. Len(new) PROVE heap'[new[i]].id = ids[i]
    <3>1. new[i] \in Range(new)
      BY <1>3
    <3>2. heap'[new[i]] = Entry(ids[i], send)
      BY <1>6, <1>9, <3>1
    <3>. QED
      BY <3>2 DEF Entry
  <2>. QED
    BY <1>2, <1>3, <1>9, <2>1 DEF IdsUnique
<1>13. ShotIsKept'
  BY <1>10 DEF ShotIsKept
<1>. QED
  BY <1>9, <1>11, <1>12, <1>13 DEF IInv

LEMMA InsertStep ==
  ASSUME IInv, ~Locked, NEW at \in 1 .. Len(entries) + 1, NEW entry \in Members,
         Insert(at, entry), UNCHANGED worker, copied' \in BOOLEAN,
         copied' \/ (copied' = copied /\ entry.id \notin UsedIds)
  PROVE  IInv'
<1>1. PICK new \in Fresh(1) :
        /\ ChangeAndRefreshTx(InsertAt(entries, at, new[1]), [heap EXCEPT ![new[1]] = entry])
        /\ owed' = owed \ {new[1]}
  BY DEF Insert
<1> DEFINE o == new[1]
           t == InsertAt(entries, at, o)
           members == [heap EXCEPT ![o] = entry]
<1>2. o \in Objects /\ o \notin Alive
  <2>1. o \in Free
    BY FreshObjects
  <2>. QED
    BY <2>1 DEF Free, Pointed
<1>3. /\ t \in Seq(Objects) /\ Distinct(t) /\ Len(t) = Len(entries) + 1
      /\ Range(t) \subseteq Alive \cup {o} /\ Range(t) \subseteq Objects
  <2>1. entries \in Seq(Objects) /\ Distinct(entries) /\ o \notin Range(entries)
    BY <1>2, Types DEF IInv, Alive
  <2> HIDE DEF o
  <2>2. /\ t \in Seq(Objects) /\ Distinct(t) /\ Len(t) = Len(entries) + 1
        /\ Range(t) \subseteq Range(entries) \cup {o}
    BY <1>2, <2>1, Inserted
  <2>. QED
    BY <2>2, RangeIs DEF Alive
<1>4. t \in Lists
  BY <1>3, Types, ListAssumption DEF Lists, Insert
<1>5. /\ members[o] = entry
      /\ \A p \in Objects \ {o} : members[p] = heap[p]
      /\ \A p \in Objects : members[p] \in Members
  BY <1>2, Types
<1>6. ChangeAndRefreshTx(t, members) /\ owed' = owed \ {o}
  BY <1>1
<1> HIDE DEF o, t, members
<1>7. /\ entries' = t /\ Alive' = Range(t)
      /\ heap' \in [Objects -> Members]
      /\ \A p \in Range(t) : heap'[p] = members[p]
      /\ rows' \in Seq(Row) /\ stale' = FALSE /\ RowsAreEntries'
  BY <1>3, <1>4, <1>5, <1>6, Refreshed
<1>8. /\ scan' = 0 /\ ~taken' /\ taken' = taken /\ due' = due
  BY Unlocked DEF worker
<1>9. TypeOK' /\ Flags' /\ Distinct(entries') /\ TakenIsDue'
  <2>1. owed' \subseteq Objects
    BY <1>6 DEF IInv, TypeOK
  <2>. QED
    BY <1>4, <1>7, <2>1, TypesAfter
<1>10. copied' \/ IdsUnique'
  <2> SUFFICES ASSUME ~copied', NEW p \in Range(t), NEW q \in Range(t),
                      heap'[p].id = heap'[q].id
               PROVE  p = q
    BY <1>7 DEF IdsUnique
  <2>1. IdsUnique /\ entry.id \notin UsedIds
    BY DEF IInv
  <2>2. \A x \in Range(t) : /\ x # o => x \in Alive /\ heap'[x].id = heap[x].id
                            /\ x = o => heap'[x].id = entry.id
    BY <1>3, <1>5, <1>7
  <2>3. \A x \in Alive : heap[x].id # entry.id
    BY <2>1 DEF UsedIds
  <2>. QED
    BY <2>1, <2>2, <2>3 DEF IdsUnique
<1>11. ShotIsKept'
  <2> SUFFICES ASSUME NEW p \in owed', p \in Alive'
               PROVE  heap'[p].shot \/ \E k \in DOMAIN due : due[k] = p
    BY <1>8 DEF ShotIsKept
  <2>1. p \in owed /\ p \in Alive /\ heap'[p] = heap[p]
    BY <1>3, <1>5, <1>6, <1>7
  <2>. QED
    BY <2>1 DEF IInv, ShotIsKept
<1>. QED
  BY <1>7, <1>9, <1>10, <1>11 DEF IInv

LEMMA AddStep ==
  ASSUME IInv, NEW r \in DOMAIN rows, InsertDefaultTxEntryAfter(r)
  PROVE  IInv'
<1>1. PICK id \in DefaultId .. MaxId : id \notin UsedIds /\ Insert(After(r), Entry(id, FALSE))
  BY DEF InsertDefaultTxEntryAfter
<1>2. ~Locked /\ UNCHANGED worker /\ copied' = copied /\ copied \in BOOLEAN
  BY DEF InsertDefaultTxEntryAfter, Selected, IInv, Flags
<1>3. After(r) \in 1 .. Len(entries) + 1
  <2>1. r \in Nat /\ Len(entries) \in Nat
    BY Types
  <2>. QED
    BY <2>1 DEF After
<1>4. Entry(id, FALSE) \in Members /\ Entry(id, FALSE).id = id
  <2>1. id \in Ids
    BY ListAssumption DEF Ids
  <2>. QED
    BY <2>1, EntryType DEF Entry
<1> DEFINE entry == Entry(id, FALSE)
<1>5. entry \in Members /\ Insert(After(r), entry) /\ entry.id \notin UsedIds
  BY <1>1, <1>4
<1> HIDE DEF entry
<1>. QED
  BY <1>2, <1>3, <1>5, InsertStep

LEMMA CopyStep ==
  ASSUME IInv, NEW r \in DOMAIN rows, DuplicateFirstTxEntry(r)
  PROVE  IInv'
<1>1. ~Locked /\ UNCHANGED worker
  BY DEF DuplicateFirstTxEntry, Selected
<1>2. CASE rows[r].cell \in UsedIds
  <2> DEFINE id == rows[r].cell + 1
             entry == Entry(id, FALSE)
             end == Len(entries) + 1
  <2>1. rows[r].cell < MaxId /\ Insert(end, entry) /\ copied' = TRUE
    BY <1>2 DEF DuplicateFirstTxEntry
  <2>2. rows[r].cell \in Ids
    BY <1>2, Types DEF UsedIds
  <2>3. id \in Ids
    BY <2>1, <2>2, ListAssumption DEF Ids
  <2>4. entry \in Members
    BY <2>3, EntryType
  <2>5. end \in 1 .. Len(entries) + 1
    BY Types
  <2> HIDE DEF id, entry, end
  <2>. QED
    BY <1>1, <2>1, <2>4, <2>5, InsertStep
<1>3. CASE rows[r].cell \notin UsedIds
  <2>1. ChangeAndRefreshTx(entries, heap) /\ UNCHANGED <<copied, owed>>
    BY <1>3 DEF DuplicateFirstTxEntry
  <2>2. entries \in Lists /\ Range(entries) \subseteq Alive
    BY Types DEF Alive
  <2>. QED
    BY <1>1, <2>1, <2>2, Selection
<1>. QED
  BY <1>2, <1>3

LEMMA RemoveStep ==
  ASSUME IInv, NEW r \in DOMAIN rows, RemoveTxEntries(r)
  PROVE  IInv'
<1>1. PICK rest \in Without(rows[r].cell) : ChangeAndRefreshTx(rest, heap)
  BY DEF RemoveTxEntries
<1>2. rest \in Lists /\ Range(rest) \subseteq Alive
  BY Types, Deleted
<1>3. ~Locked /\ owed' \subseteq owed /\ UNCHANGED <<copied, worker>>
  BY DEF RemoveTxEntries, Selected
<1>. QED
  BY <1>1, <1>2, <1>3, Selection

LEMMA MoveStep ==
  ASSUME IInv, NEW r \in DOMAIN rows, NEW to \in {r - 1, r + 1}, Move(r, to)
  PROVE  IInv'
<1>1. PICK moved : /\ ChangeAndRefreshTx(moved, heap)
                   /\ \/ moved = entries
                      \/ entries # <<>> /\ moved = Tail(entries) \o <<Head(entries)>>
                      \/ entries # <<>> /\ moved = <<Last(entries)>> \o Front(entries)
                      \/ moved = Swapped(rows[r].cell, rows[to].cell)
  <2> DEFINE moved == IF entries = <<>> \/ rows[r].cell = NoId THEN entries
                      ELSE CASE to = 0 -> Tail(entries) \o <<Head(entries)>>
                             [] to = Len(rows) + 1 -> <<Last(entries)>> \o Front(entries)
                             [] OTHER -> Swapped(rows[r].cell, rows[to].cell)
  <2>1. ChangeAndRefreshTx(moved, heap)
    BY DEF Move
  <2>2. ~ (to = 0 /\ to = Len(rows) + 1)
    BY Types
  <2>3. \/ moved = entries
        \/ entries # <<>> /\ moved = Tail(entries) \o <<Head(entries)>>
        \/ entries # <<>> /\ moved = <<Last(entries)>> \o Front(entries)
        \/ moved = Swapped(rows[r].cell, rows[to].cell)
    BY <2>2
  <2>. QED
    BY <2>1, <2>3, Zenon
<1>2. moved \in Lists /\ Range(moved) \subseteq Alive
  <2>1. CASE moved = entries
    BY <2>1, Types DEF Alive
  <2>2. CASE entries # <<>> /\ moved = Tail(entries) \o <<Head(entries)>>
    BY <2>2, Types, RotatedForward
  <2>3. CASE entries # <<>> /\ moved = <<Last(entries)>> \o Front(entries)
    BY <2>3, Types, RotatedBack
  <2>4. CASE moved = Swapped(rows[r].cell, rows[to].cell)
    BY <2>4, Types, SwappedEntries
  <2>. QED
    BY <1>1, <2>1, <2>2, <2>3, <2>4
<1>3. ~Locked /\ owed' \subseteq owed /\ UNCHANGED <<copied, worker>>
  BY DEF Move, Selected
<1>. QED
  BY <1>1, <1>2, <1>3, Selection

LEMMA EditStep ==
  ASSUME IInv, NEW r \in DOMAIN rows, NEW id \in Ids \cup {NoId}, EditId(r, id)
  PROVE  IInv'
<1> DEFINE o == rows[r].object
           clash == \E other \in Alive \ {o} : heap[other].id = id
           cell == IF clash THEN heap[o].id ELSE id
<1>1. /\ heap' = (IF id = NoId \/ clash \/ o \notin Alive THEN heap
                  ELSE [heap EXCEPT ![o].id = id])
      /\ rows' = [rows EXCEPT ![r].cell = cell]
      /\ ~Locked /\ UNCHANGED <<list, worker, owed>>
  BY DEF EditId, Selected
<1>2. /\ o \in Objects /\ heap[o].id \in Ids /\ rows \in Seq(Row) /\ heap \in [Objects -> Members]
      /\ rows \in [1 .. Len(rows) -> Row] /\ Len(rows) \in Nat /\ DOMAIN rows = 1 .. Len(rows)
  BY Types
<1>3. cell \in Ids \cup {NoId}
  BY <1>2
<1>4. entries' = entries /\ Alive' = Alive /\ stale' = stale /\ copied' = copied
  BY <1>1 DEF list, Alive
<1>5. \/ clash /\ heap' = heap
      \/ id = NoId /\ heap' = heap
      \/ o \notin Alive /\ heap' = heap
      \/ /\ id \in Ids /\ ~clash /\ o \in Alive
         /\ heap' = [heap EXCEPT ![o].id = id]
  BY <1>1
<1>6. clash <=> \E other \in Alive \ {o} : heap[other].id = id
  OBVIOUS
<1>7. (clash => cell = heap[o].id) /\ (~clash => cell = id)
  OBVIOUS
<1> HIDE DEF o, clash, cell
<1>8. /\ heap' \in [Objects -> Members]
      /\ \A p \in Objects : p # o => heap'[p] = heap[p]
      /\ \A p \in Objects : heap'[p].shot = heap[p].shot
  <2>1. CASE heap' = heap
    BY <1>2, <2>1
  <2>2. CASE id \in Ids /\ heap' = [heap EXCEPT ![o].id = id]
    <3>1. /\ \A p \in Objects : p # o => heap'[p] = heap[p]
          /\ heap'[o] = [heap[o] EXCEPT !.id = id]
      BY <1>2, <2>2
    <3>2. heap[o] \in Members
      BY <1>2
    <3>3. heap'[o] \in Members /\ heap'[o].shot = heap[o].shot
      BY <2>2, <3>1, <3>2 DEF Members
    <3>4. heap' = [p \in Objects |-> heap'[p]]
      BY <1>2, <2>2
    <3>5. \A p \in Objects : heap'[p] \in Members
      BY <1>2, <3>1, <3>3
    <3>. QED
      BY <3>1, <3>3, <3>4, <3>5
  <2>. QED
    BY <1>5, <2>1, <2>2
<1>9. /\ rows' \in Seq(Row) /\ DOMAIN rows' = DOMAIN rows
      /\ \A q \in DOMAIN rows : q # r => rows'[q] = rows[q]
      /\ rows'[r].object = o /\ rows'[r].cell = cell
  <2>1. rows[r] \in Row
    BY <1>2
  <2>2. /\ DOMAIN rows' = DOMAIN rows
        /\ \A q \in DOMAIN rows : q # r => rows'[q] = rows[q]
        /\ rows'[r] = [rows[r] EXCEPT !.cell = cell]
    BY <1>1, <1>2
  <2>3. rows'[r].object = o /\ rows'[r].cell = cell /\ rows'[r] \in Row
    BY <1>3, <2>1, <2>2 DEF Row, o
  <2>4. rows' = [q \in 1 .. Len(rows) |-> rows'[q]]
    BY <1>1, <1>2
  <2>5. \A q \in 1 .. Len(rows) : rows'[q] \in Row
    BY <1>2, <2>2, <2>3
  <2>6. rows' \in [1 .. Len(rows) -> Row]
    BY <2>4, <2>5
  <2>7. rows' \in Seq(Row)
    BY <1>2, <2>6
  <2>. QED
    BY <2>2, <2>3, <2>7
<1>10. TypeOK' /\ Flags' /\ Distinct(entries') /\ TakenIsDue'
  <2>1. /\ entries' \in Lists /\ owed' \subseteq Objects /\ UNCHANGED worker
        /\ stale' \in BOOLEAN /\ copied' \in BOOLEAN
    BY <1>1, <1>4, Types DEF IInv, TypeOK, Flags
  <2>. QED
    BY <1>1, <1>8, <1>9, <2>1, TypesAfter
<1>11. RowsAreEntries'
  <2> SUFFICES ASSUME ~stale, NEW q \in DOMAIN rows
               PROVE  /\ rows'[q].object \in Alive
                      /\ rows'[q].cell \in {heap'[rows'[q].object].id, NoId}
                      /\ \A other \in DOMAIN rows \ {q} : rows'[other].object # rows'[q].object
    BY <1>4, <1>9 DEF RowsAreEntries
  <2>1. \A p \in DOMAIN rows :
          /\ rows[p].object \in Alive
          /\ rows[p].cell \in {heap[rows[p].object].id, NoId}
          /\ \A other \in DOMAIN rows \ {p} : rows[other].object # rows[p].object
    BY DEF IInv, RowsAreEntries
  <2>2. \A p \in DOMAIN rows : rows'[p].object = rows[p].object
    BY <1>9 DEF o
  <2>3. rows'[q].cell \in {heap'[rows'[q].object].id, NoId}
    <3>1. CASE q # r
      <4>1. rows[q].object # o /\ rows[q].object \in Objects
        BY <2>1, <3>1, Types DEF o
      <4>2. heap'[rows[q].object] = heap[rows[q].object] /\ rows'[q] = rows[q]
        BY <1>8, <1>9, <3>1, <4>1
      <4>. QED
        BY <2>1, <4>2
    <3>2. CASE q = r
      <4>1. o \in Alive
        BY <2>1 DEF o
      <4>2. cell \in {heap'[o].id, NoId}
        <5>1. CASE heap' = heap /\ (clash \/ id = NoId)
          BY <1>7, <5>1, Zenon
        <5>2. CASE ~clash /\ heap' = [heap EXCEPT ![o].id = id]
          <6>1. heap'[o].id = id
            BY <1>2, <5>2 DEF Members
          <6>. QED
            BY <1>7, <5>2, <6>1, Zenon
        <5>. QED
          BY <1>5, <4>1, <5>1, <5>2, Zenon
      <4>. QED
        BY <1>9, <3>2, <4>2
    <3>. QED
      BY <3>1, <3>2
  <2>. QED
    BY <2>1, <2>2, <2>3
<1>12. copied' \/ IdsUnique'
  <2> SUFFICES ASSUME ~copied, NEW p \in Alive, NEW q \in Alive, heap'[p].id = heap'[q].id
               PROVE  p = q
    BY <1>4 DEF IdsUnique
  <2>1. \A x, y \in Alive : heap[x].id = heap[y].id => x = y
    BY DEF IInv, IdsUnique
  <2>2. CASE heap' = heap
    BY <2>1, <2>2
  <2>3. CASE ~clash /\ heap' = [heap EXCEPT ![o].id = id]
    <3>1. ASSUME NEW x \in Alive, x # o PROVE heap'[x] = heap[x] /\ heap[x].id # id
      <4>1. x \in Objects /\ x \in Alive \ {o}
        BY <3>1, Types
      <4>2. heap[x].id # id
        BY <1>6, <2>3, <4>1, Zenon
      <4>3. heap'[x] = heap[x]
        BY <1>8, <3>1, <4>1
      <4>. QED
        BY <4>2, <4>3
    <3>2. heap'[o].id = id
      BY <1>2, <2>3 DEF Members
    <3>. QED
      BY <2>1, <3>1, <3>2
  <2>. QED
    BY <1>5, <2>2, <2>3
<1>13. ShotIsKept'
  <2> SUFFICES ASSUME NEW p \in owed \cap Alive
               PROVE  heap'[p].shot \/ \E k \in DOMAIN due : due[k] = p
    BY <1>1, <1>4 DEF ShotIsKept, worker
  <2>1. p \in Objects /\ (heap[p].shot \/ \E k \in DOMAIN due : due[k] = p)
    BY Types DEF IInv, ShotIsKept
  <2>. QED
    BY <1>8, <2>1
<1>. QED
  BY <1>10, <1>11, <1>12, <1>13 DEF IInv

-----------------------------------------------------------------------------
(* The flags, which are set and cleared without the lock, and the worker.  *)
LEMMA FlagsOnly ==
  ASSUME IInv, UNCHANGED <<list, rows>>,
         heap' \in [Objects -> Members], \A o \in Objects : heap'[o].id = heap[o].id,
         owed' \subseteq Objects, due' \in Seq(Objects),
         scan' \in 0 .. Len(entries), taken' \in BOOLEAN, taken' => scan' # 0,
         ShotIsKept', TakenIsDue'
  PROVE  IInv'
<1>1. entries' = entries /\ stale' = stale /\ copied' = copied /\ rows' = rows /\ Alive' = Alive
  BY DEF list, Alive
<1>2. /\ entries \in Seq(Objects) /\ Len(entries) <= MaxEntries
      /\ rows \in Seq([object : Objects, cell : Ids \cup {NoId}])
  BY DEF IInv, TypeOK
<1>3. TypeOK'
  <2>1. taken' => Locked'
    BY DEF Locked
  <2>2. heap' \in [Objects -> [id : Ids, send : BOOLEAN, shot : BOOLEAN]]
    BY Zenon DEF Members
  <2>. QED
    BY <1>1, <1>2, <2>1, <2>2, Zenon DEF TypeOK
<1>4. Flags' /\ Distinct(entries')
  BY <1>1, Zenon DEF IInv, Flags
<1>5. RowsAreEntries'
  <2> SUFFICES ASSUME ~stale, NEW r \in DOMAIN rows
               PROVE  /\ rows[r].object \in Alive
                      /\ rows[r].cell \in {heap'[rows[r].object].id, NoId}
                      /\ \A other \in DOMAIN rows \ {r} : rows[other].object # rows[r].object
    BY <1>1 DEF RowsAreEntries
  <2>1. /\ rows[r].object \in Alive
        /\ rows[r].cell \in {heap[rows[r].object].id, NoId}
        /\ \A other \in DOMAIN rows \ {r} : rows[other].object # rows[r].object
    BY DEF IInv, RowsAreEntries
  <2>2. rows[r].object \in Objects
    BY Types
  <2>. QED
    BY <2>1, <2>2
<1>6. copied' \/ IdsUnique'
  <2>1. Alive \subseteq Objects /\ (copied \/ IdsUnique)
    BY Types DEF IInv
  <2>. QED
    BY <1>1, <2>1 DEF IdsUnique
<1>. QED
  BY <1>3, <1>4, <1>5, <1>6 DEF IInv

(* ... where the worker does nothing.                                      *)
LEMMA ButtonStep ==
  ASSUME IInv, UNCHANGED <<list, rows, worker>>,
         heap' \in [Objects -> Members], \A o \in Objects : heap'[o].id = heap[o].id,
         owed' \subseteq Objects,
         \A o \in owed' : o \in owed /\ heap[o].shot => heap'[o].shot,
         \A o \in owed' : o \in owed \/ heap'[o].shot
  PROVE  IInv'
<1>1. scan' = scan /\ taken' = taken /\ due' = due /\ entries' = entries /\ Alive' = Alive
  BY DEF worker, list, Alive
<1>2. /\ due \in Seq(Objects) /\ scan \in 0 .. Len(entries) /\ taken \in BOOLEAN
      /\ (taken => scan # 0) /\ ShotIsKept /\ TakenIsDue
  BY DEF IInv, TypeOK, Flags, Locked
<1>3. ShotIsKept'
  BY <1>1, <1>2 DEF ShotIsKept
<1>4. TakenIsDue'
  BY <1>1, <1>2 DEF TakenIsDue
<1>5. due' \in Seq(Objects) /\ scan' \in 0 .. Len(entries) /\ taken' \in BOOLEAN
      /\ (taken' => scan' # 0)
  BY <1>1, <1>2, Zenon
<1>. QED
  BY <1>3, <1>4, <1>5, FlagsOnly, Zenon

LEMMA ShotStep ==
  ASSUME IInv, NEW r \in DOMAIN rows, OneShot(r)
  PROVE  IInv'
<1> DEFINE o == rows[r].object
<1>1. /\ heap' = [heap EXCEPT ![o].shot = TRUE] /\ owed' = owed \cup {o}
      /\ UNCHANGED <<list, rows, worker>>
  BY DEF OneShot
<1>2. o \in Objects /\ heap \in [Objects -> Members] /\ owed \subseteq Objects
  BY Types DEF IInv, TypeOK
<1> HIDE DEF o
<1>3. /\ \A p \in Objects : p # o => heap'[p] = heap[p]
      /\ heap'[o] = [heap[o] EXCEPT !.shot = TRUE] /\ heap[o] \in Members
      /\ heap' = [p \in Objects |-> heap'[p]]
  BY <1>1, <1>2
<1>4. heap'[o] \in Members /\ heap'[o].id = heap[o].id /\ heap'[o].shot
  BY <1>3 DEF Members
<1>5. heap' \in [Objects -> Members] /\ \A p \in Objects : heap'[p].id = heap[p].id
  <2>1. \A p \in Objects : heap'[p] \in Members
    BY <1>2, <1>3, <1>4
  <2>. QED
    BY <1>3, <1>4, <2>1
<1>6. owed' \subseteq Objects /\ (\A p \in owed' : p \in owed \/ heap'[p].shot)
      /\ \A p \in owed' : p \in owed /\ heap[p].shot => heap'[p].shot
  BY <1>1, <1>2, <1>3, <1>4
<1>. QED
  BY <1>1, <1>5, <1>6, ButtonStep, Zenon

LEMMA SetFlags ==
  ASSUME NEW member \in Members, NEW on \in BOOLEAN
  PROVE  /\ [member EXCEPT !.shot = FALSE, !.send = on] \in Members
         /\ [member EXCEPT !.shot = FALSE, !.send = on].id = member.id
<1> DEFINE quiet == [member EXCEPT !.shot = FALSE]
<1>1. quiet \in Members /\ quiet.id = member.id
  BY DEF Members
<1>2. [member EXCEPT !.shot = FALSE, !.send = on] = [quiet EXCEPT !.send = on]
  BY DEF Members
<1> HIDE DEF quiet
<1>3. [quiet EXCEPT !.send = on] \in Members /\ [quiet EXCEPT !.send = on].id = quiet.id
  BY <1>1 DEF Members
<1>. QED
  BY <1>1, <1>2, <1>3

LEMMA SendingStep ==
  ASSUME IInv, NEW chosen \in SUBSET DOMAIN rows, NEW on \in BOOLEAN, SetSending(chosen, on)
  PROVE  IInv'
<1> DEFINE objects == {rows[r].object : r \in chosen} \cap Alive
<1>1. /\ heap' = [o \in Objects |->
                    IF o \in objects THEN [heap[o] EXCEPT !.shot = FALSE, !.send = on]
                    ELSE heap[o]]
      /\ owed' = owed \ objects /\ UNCHANGED <<list, rows, worker>>
  BY DEF SetSending
<1>2. heap \in [Objects -> Members] /\ owed \subseteq Objects
  BY Types DEF IInv, TypeOK
<1> HIDE DEF objects
<1>3. ASSUME NEW o \in Objects
      PROVE  /\ heap'[o] \in Members /\ heap'[o].id = heap[o].id
             /\ o \notin objects => heap'[o] = heap[o]
  <2>1. heap[o] \in Members
    BY <1>2
  <2>2. CASE o \notin objects
    BY <1>1, <2>1, <2>2
  <2>3. CASE o \in objects
    <3>1. heap'[o] = [heap[o] EXCEPT !.shot = FALSE, !.send = on]
      BY <1>1, <2>3
    <3>. QED
      BY <2>1, <2>3, <3>1, SetFlags
  <2>. QED
    BY <2>2, <2>3
<1>4. heap' \in [Objects -> Members] /\ \A o \in Objects : heap'[o].id = heap[o].id
  <2>1. heap' = [o \in Objects |-> heap'[o]]
    BY <1>1
  <2>. QED
    BY <1>3, <2>1
<1>5. owed' \subseteq Objects /\ (\A o \in owed' : o \in owed \/ heap'[o].shot)
      /\ \A o \in owed' : o \in owed /\ heap[o].shot => heap'[o].shot
  BY <1>1, <1>2, <1>3
<1>. QED
  BY <1>1, <1>4, <1>5, ButtonStep, Zenon

LEMMA PassOnType ==
  ASSUME IInv, Locked, PassOn
  PROVE  scan' \in 0 .. Len(entries)
<1>1. scan \in 1 .. Len(entries) /\ Len(entries) \in Nat
  BY Types DEF IInv, TypeOK, Locked
<1>. QED
  BY <1>1 DEF PassOn

LEMMA PassStep ==
  ASSUME IInv, BeginPass
  PROVE  IInv'
<1>1. /\ ~taken /\ due \in Seq(Objects) /\ heap \in [Objects -> Members] /\ owed \subseteq Objects
      /\ ShotIsKept
  BY Unlocked, Types DEF IInv, TypeOK, BeginPass
<1>2. /\ UNCHANGED <<list, rows>> /\ heap' = heap /\ owed' = owed /\ due' = due
      /\ scan' = 1 /\ taken' = taken /\ entries' = entries /\ Alive' = Alive
  BY DEF BeginPass, list, Alive
<1>3. scan' \in 0 .. Len(entries) /\ scan' # 0
  <2>1. entries # <<>> /\ entries \in Seq(Objects) /\ Len(entries) \in Nat
    BY Types DEF BeginPass
  <2>2. Len(entries) # 0
    BY <2>1, EmptySeq
  <2>. QED
    BY <1>2, <2>1, <2>2
<1>4. taken' \in BOOLEAN /\ ~taken'
  BY <1>1, <1>2 DEF IInv, Flags
<1>5. ShotIsKept' /\ TakenIsDue'
  BY <1>1, <1>2, <1>4 DEF ShotIsKept, TakenIsDue
<1>. QED
  BY <1>1, <1>2, <1>3, <1>4, <1>5, FlagsOnly, Zenon

(* What the worker adds to the frames it has collected.                    *)
LEMMA Collected ==
  ASSUME NEW s \in Seq(Objects), NEW o \in Objects, NEW t, t = Append(s, o)
  PROVE  /\ t \in Seq(Objects)
         /\ \A p : (\E k \in DOMAIN s : s[k] = p) => \E k \in DOMAIN t : t[k] = p
         /\ \E k \in DOMAIN t : t[k] = o
<1>1. /\ t \in Seq(Objects) /\ Len(t) = Len(s) + 1 /\ Len(s) \in Nat
      /\ DOMAIN s = 1 .. Len(s) /\ DOMAIN t = 1 .. Len(t)
      /\ \A k \in 1 .. Len(s) : t[k] = s[k]
      /\ t[Len(s) + 1] = o
  BY AppendProperties, LenProperties
<1>. QED
  BY <1>1

LEMMA TakeStep ==
  ASSUME IInv, TakeShot
  PROVE  IInv'
<1>1. /\ heap \in [Objects -> Members] /\ owed \subseteq Objects /\ due \in Seq(Objects)
      /\ scan \in 0 .. Len(entries) /\ scan # 0 /\ Len(entries) \in Nat /\ ShotIsKept
  BY Types DEF IInv, TypeOK, TakeShot, Locked
<1>2. /\ UNCHANGED <<list, rows>> /\ heap' = heap /\ owed' = owed
      /\ due' = Append(due, entries[scan])
      /\ scan' = scan /\ taken' = TRUE /\ entries' = entries /\ Alive' = Alive
  BY DEF TakeShot, list, Alive
<1>3. entries[scan] \in Objects
  <2>1. scan \in 1 .. Len(entries)
    BY <1>1
  <2>. QED
    BY <2>1, Types
<1>4. /\ due' \in Seq(Objects)
      /\ \A p : (\E k \in DOMAIN due : due[k] = p) => \E k \in DOMAIN due' : due'[k] = p
      /\ \E k \in DOMAIN due' : due'[k] = entries[scan]
  BY <1>1, <1>2, <1>3, Collected
<1>5. ShotIsKept'
  BY <1>1, <1>2, <1>4, Zenon DEF ShotIsKept
<1>6. TakenIsDue'
  BY <1>2, <1>4, Zenon DEF TakenIsDue
<1>7. taken' \in BOOLEAN
  BY <1>2
<1>. QED
  BY <1>1, <1>2, <1>4, <1>5, <1>6, <1>7, FlagsOnly, Zenon

LEMMA ClearStep ==
  ASSUME IInv, ClearShot
  PROVE  IInv'
<1> DEFINE o == entries[scan]
<1>1. /\ heap \in [Objects -> Members] /\ owed \subseteq Objects /\ due \in Seq(Objects)
      /\ Locked /\ scan \in 1 .. Len(entries) /\ ShotIsKept
      /\ \E k \in DOMAIN due : due[k] = o
  BY Types DEF IInv, TypeOK, ClearShot, Locked, TakenIsDue
<1>2. /\ UNCHANGED <<list, rows>> /\ owed' = owed /\ due' = due
      /\ heap' = [heap EXCEPT ![o].shot = FALSE]
      /\ taken' = FALSE /\ entries' = entries /\ Alive' = Alive
  BY DEF ClearShot, list, Alive
<1>3. scan' \in 0 .. Len(entries)
  BY <1>1, PassOnType DEF ClearShot
<1>4. o \in Objects
  BY <1>1, Types
<1> HIDE DEF o
<1>5. /\ \A p \in Objects : p # o => heap'[p] = heap[p]
      /\ heap'[o] = [heap[o] EXCEPT !.shot = FALSE] /\ heap[o] \in Members
      /\ heap' = [p \in Objects |-> heap'[p]]
  BY <1>1, <1>2, <1>4
<1>6. heap'[o] \in Members /\ heap'[o].id = heap[o].id
  BY <1>5 DEF Members
<1>7. heap' \in [Objects -> Members] /\ \A p \in Objects : heap'[p].id = heap[p].id
  <2>1. \A p \in Objects : heap'[p] \in Members
    BY <1>1, <1>5, <1>6
  <2>. QED
    BY <1>5, <1>6, <2>1
<1>8. ShotIsKept'
  <2> SUFFICES ASSUME NEW p \in owed \cap Alive
               PROVE  heap'[p].shot \/ \E k \in DOMAIN due : due[k] = p
    BY <1>2 DEF ShotIsKept
  <2>1. heap[p].shot \/ \E k \in DOMAIN due : due[k] = p
    BY <1>1 DEF ShotIsKept
  <2>. QED
    BY <1>1, <1>5, <2>1
<1>9. taken' \in BOOLEAN /\ ~taken' /\ TakenIsDue'
  BY <1>2 DEF TakenIsDue
<1>. QED
  BY <1>1, <1>2, <1>3, <1>7, <1>8, <1>9, FlagsOnly, Zenon

LEMMA VisitStep ==
  ASSUME IInv, Visit
  PROVE  IInv'
<1>1. /\ heap \in [Objects -> Members] /\ owed \subseteq Objects /\ due \in Seq(Objects)
      /\ Locked /\ ~taken /\ scan \in 1 .. Len(entries) /\ ShotIsKept
  BY Types DEF IInv, TypeOK, Visit, Locked
<1>2. /\ UNCHANGED <<list, rows>> /\ heap' = heap /\ owed' = owed
      /\ taken' = taken /\ entries' = entries /\ Alive' = Alive
      /\ due' = due \/ due' = Append(due, entries[scan])
  BY DEF Visit, list, Alive
<1>3. scan' \in 0 .. Len(entries)
  BY <1>1, PassOnType DEF Visit
<1>4. /\ due' \in Seq(Objects)
      /\ \A p : (\E k \in DOMAIN due : due[k] = p) => \E k \in DOMAIN due' : due'[k] = p
  <2>1. CASE due' = due
    BY <1>1, <2>1
  <2>2. CASE due' = Append(due, entries[scan])
    <3>1. entries[scan] \in Objects
      BY <1>1, Types
    <3>. QED
      BY <1>1, <2>2, <3>1, Collected
  <2>. QED
    BY <1>2, <2>1, <2>2
<1>5. ShotIsKept'
  BY <1>1, <1>2, <1>4, Zenon DEF ShotIsKept
<1>6. taken' \in BOOLEAN /\ ~taken' /\ TakenIsDue'
  BY <1>1, <1>2 DEF TakenIsDue, IInv, Flags
<1>. QED
  BY <1>1, <1>2, <1>3, <1>4, <1>5, <1>6, FlagsOnly, Zenon

LEMMA SendStep ==
  ASSUME IInv, SendDue
  PROVE  IInv'
<1>1. /\ heap \in [Objects -> Members] /\ owed \subseteq Objects /\ due \in Seq(Objects)
      /\ due # <<>> /\ scan = 0 /\ ~taken /\ ShotIsKept /\ Len(entries) \in Nat
  BY Types, Unlocked DEF IInv, TypeOK, SendDue
<1>2. /\ UNCHANGED <<list, rows>> /\ heap' = heap
      /\ owed' = owed \ {Head(due)} /\ due' = Tail(due)
      /\ scan' = scan /\ taken' = taken /\ entries' = entries /\ Alive' = Alive
  BY DEF SendDue, list, Alive
<1>3. /\ due' \in Seq(Objects)
      /\ \A p : p # Head(due) /\ (\E k \in DOMAIN due : due[k] = p)
                  => \E k \in DOMAIN due' : due'[k] = p
  <2>1. /\ Tail(due) \in Seq(Objects) /\ Len(Tail(due)) = Len(due) - 1
        /\ \A k \in 1 .. Len(Tail(due)) : Tail(due)[k] = due[k + 1]
    BY <1>1, HeadTailProperties
  <2>2. /\ Len(due) \in Nat /\ DOMAIN due = 1 .. Len(due) /\ Head(due) = due[1]
        /\ DOMAIN Tail(due) = 1 .. Len(Tail(due))
    BY <1>1, <2>1, LenProperties
  <2>3. ASSUME NEW p, p # Head(due), NEW k \in DOMAIN due, due[k] = p
        PROVE  \E l \in DOMAIN Tail(due) : Tail(due)[l] = p
    <3>1. k # 1
      BY <2>2, <2>3
    <3>2. k - 1 \in 1 .. Len(Tail(due)) /\ (k - 1) + 1 = k
      BY <2>1, <2>2, <3>1
    <3>3. Tail(due)[k - 1] = due[k]
      BY <2>1, <3>2
    <3>. QED
      BY <2>2, <2>3, <3>2, <3>3
  <2>. QED
    BY <1>2, <2>1, <2>3
<1>4. ShotIsKept'
  <2> SUFFICES ASSUME NEW p \in owed, p # Head(due), p \in Alive
               PROVE  heap[p].shot \/ \E k \in DOMAIN due' : due'[k] = p
    BY <1>2 DEF ShotIsKept
  <2>. QED
    BY <1>1, <1>3, Zenon DEF ShotIsKept
<1>5. scan' \in 0 .. Len(entries)
  BY <1>1, <1>2
<1>6. taken' \in BOOLEAN /\ ~taken' /\ TakenIsDue'
  BY <1>1, <1>2 DEF TakenIsDue, IInv, Flags
<1>7. heap' \in [Objects -> Members] /\ owed' \subseteq Objects
  BY <1>1, <1>2
<1>. QED
  BY <1>2, <1>3, <1>4, <1>5, <1>6, <1>7, FlagsOnly, Zenon

-----------------------------------------------------------------------------
LEMMA IInvInit == Init => IInv
<1> SUFFICES ASSUME Init PROVE IInv
  OBVIOUS
<1>1. /\ entries = <<>> /\ rows = <<>> /\ due = <<>> /\ heap = [o \in Objects |-> Unused]
      /\ stale = FALSE /\ copied = FALSE /\ taken = FALSE /\ scan = 0 /\ owed = {}
  BY DEF Init
<1>2. Len(entries) = 0 /\ DOMAIN rows = {} /\ Alive = {}
  <2>1. entries \in Seq(Objects) /\ Len(entries) = 0
    BY <1>1
  <2>2. Alive = {entries[i] : i \in 1 .. 0}
    BY <2>1, RangeIs DEF Alive
  <2>. QED
    BY <1>1, <2>1, <2>2
<1>3. heap \in [Objects -> [id : Ids, send : BOOLEAN, shot : BOOLEAN]]
  <2>1. 1 \in Ids
    BY ListAssumption DEF Ids
  <2>2. Unused \in Members
    BY <2>1, EntryType DEF Unused
  <2>. QED
    BY <1>1, <2>2 DEF Members
<1>4. TypeOK
  BY <1>1, <1>2, <1>3, ListAssumption DEF TypeOK
<1>5. Flags /\ Distinct(entries) /\ RowsAreEntries
  <2>1. Flags
    BY <1>1 DEF Flags
  <2>2. Distinct(entries) /\ RowsAreEntries
    BY <1>2 DEF Distinct, RowsAreEntries
  <2>. QED
    BY <2>1, <2>2
<1>6. IdsUnique /\ ShotIsKept /\ TakenIsDue
  BY <1>1, <1>2 DEF IdsUnique, ShotIsKept, TakenIsDue
<1>. QED
  BY <1>4, <1>5, <1>6 DEF IInv

LEMMA IInvNext == IInv /\ [Next]_vars => IInv'
<1> SUFFICES ASSUME IInv, [Next]_vars PROVE IInv'
  OBVIOUS
<1>1. ASSUME NEW ids \in Files, NEW whole \in BOOLEAN, NEW fromMenu \in BOOLEAN,
             LoadTxList(ids, whole, fromMenu)
      PROVE  IInv'
  BY <1>1, LoadStep
<1>2. ASSUME NEW r \in DOMAIN rows, InsertDefaultTxEntryAfter(r) PROVE IInv'
  BY <1>2, AddStep
<1>3. ASSUME NEW r \in DOMAIN rows, DuplicateFirstTxEntry(r) PROVE IInv'
  BY <1>3, CopyStep
<1>4. ASSUME NEW r \in DOMAIN rows, RemoveTxEntries(r) PROVE IInv'
  BY <1>4, RemoveStep
<1>5. ASSUME NEW r \in DOMAIN rows, NEW to \in {r - 1, r + 1}, Move(r, to) PROVE IInv'
  BY <1>5, MoveStep
<1>6. ASSUME NEW r \in DOMAIN rows, NEW id \in Ids \cup {NoId}, EditId(r, id) PROVE IInv'
  BY <1>6, EditStep
<1>7. ASSUME NEW r \in DOMAIN rows, OneShot(r) PROVE IInv'
  BY <1>7, ShotStep
<1>8. ASSUME NEW chosen \in SUBSET DOMAIN rows, NEW on \in BOOLEAN, SetSending(chosen, on)
      PROVE  IInv'
  BY <1>8, SendingStep
<1>9. CASE Worker
  <2>1. CASE BeginPass
    BY <2>1, PassStep
  <2>2. CASE TakeShot
    BY <2>2, TakeStep
  <2>3. CASE ClearShot
    BY <2>3, ClearStep
  <2>4. CASE Visit
    BY <2>4, VisitStep
  <2>5. CASE SendDue
    BY <2>5, SendStep
  <2>. QED
    BY <1>9, <2>1, <2>2, <2>3, <2>4, <2>5 DEF Worker
<1>10. CASE UNCHANGED vars
  <2>1. /\ UNCHANGED <<entries, heap, rows, stale, copied, scan, taken, due, owed>>
    BY <1>10 DEF vars, list, worker
  <2>. QED
    BY <2>1 DEF IInv, TypeOK, Flags, Distinct, RowsAreEntries, IdsUnique, ShotIsKept, TakenIsDue,
                Alive, Locked
<1>11. CASE Panel
  <2>1. ASSUME NEW r \in DOMAIN rows, NEW on \in BOOLEAN, SetSending({r}, on) PROVE IInv'
    BY <1>8, <2>1
  <2>2. ASSUME NEW on \in BOOLEAN, SetSending(DOMAIN rows, on) PROVE IInv'
    BY <1>8, <2>2
  <2>. QED
    BY <1>1, <1>2, <1>3, <1>4, <1>5, <1>6, <1>7, <1>11, <2>1, <2>2, Zenon DEF Panel
<1>. QED
  BY <1>9, <1>10, <1>11 DEF Next

LEMMA Invariance == Spec => []IInv
BY IInvInit, IInvNext, PTL DEF Spec

-----------------------------------------------------------------------------
(* Every variable keeps its type, the list stays below its bound and the   *)
(* worker holds an entry's single shot only with the lock held.            *)
THEOREM TypeCorrect == Spec => []TypeOK
BY Invariance, PTL DEF IInv

(* Whatever the list, the panel and the worker do, a row of the grid points *)
(* to an entry of the list, which no other row does, and shows its id or    *)
(* what cannot be read; only a failed load from the menu breaks it, until   *)
(* the grid is filled again.                                                *)
THEOREM RowsPointToEntries == Spec => []RowsAreEntries
BY Invariance, PTL DEF IInv

(* Until an entry is copied the entries have different ids: neither a load, *)
(* nor Add, nor the edited cell makes two of them equal.                    *)
THEOREM IdsStayDifferent == Spec => []IdsDiffer
<1>1. IInv => IdsDiffer
  <2> SUFFICES ASSUME IInv, ~copied, NEW i \in 1 .. Len(entries), NEW j \in 1 .. Len(entries),
                      heap[entries[i]].id = heap[entries[j]].id
               PROVE  i = j
    BY Types DEF IdsDiffer
  <2>1. entries[i] \in Alive /\ entries[j] \in Alive /\ IdsUnique
    BY Types DEF IInv
  <2>2. entries[i] = entries[j]
    BY <2>1 DEF IdsUnique
  <2>. QED
    BY <2>2 DEF IInv, Distinct
<1>. QED
  BY <1>1, Invariance, PTL

(* The single shot that a button sets without the lock is never lost to the *)
(* worker's clearing of the flag: it is handed to the transport first.      *)
THEOREM NoShotForgotten == Spec => []ShotIsKept
BY Invariance, PTL DEF IInv
=============================================================================
