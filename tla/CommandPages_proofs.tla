------------------------- MODULE CommandPages_proofs -------------------------
(***************************************************************************)
(* Proofs about CommandPages, for any bounds and any names: types, that    *)
(* there are never fewer names than pages, and that names stay with their  *)
(* pages until Cmds.xml is loaded a second time.                           *)
(***************************************************************************)
EXTENDS CommandPages, SequenceTheorems, TLAPS

(* Before the first load there is nothing to edit.                         *)
Empty == loads = 0 => tabs = 0 /\ Len(pages) = 0 /\ Len(names) = 0

(* Each of these pages has a name.                                         *)
Covered(stored, called) ==
  /\ stored \in Seq(Names) /\ called \in Seq(Names)
  /\ Len(stored) <= Len(called)

(* ... which is its own.                                                   *)
Called(stored, called) == \A i \in 1 .. Len(stored) : called[i] = stored[i]

(* TypeOK in parts.                                                        *)
PagesType ==
  /\ pages \in Seq(Names) /\ names \in Seq(Names)
  /\ tabs \in Nat /\ loads \in 0 .. MaxLoads
FileType(d) ==
  /\ d \in [kind : {"pages", "missing", "malformed", "no pages"}, declared : Nat,
            named : Seq(Names), whole : Nat]
  /\ d.whole <= Len(d.named) /\ Len(d.named) <= d.declared

IInv == /\ PagesType /\ FileType(file) /\ SaveHasNames /\ Empty
        /\ loads <= 1 => Called(pages, names)

LEMMA Bounds == MaxPages \in Nat /\ MaxNames \in Nat /\ MaxLoads \in Nat
BY PagesAssumption

LEMMA KnownNames == NewPage \in Names /\ "Board" \in Names /\ "Linux VM" \in Names
BY PagesAssumption DEF NewPage

LEMMA FileParts ==
  ASSUME NEW d, FileType(d)
  PROVE  /\ d.named \in Seq(Names) /\ Len(d.named) \in Nat
         /\ d.whole \in 0 .. Len(d.named) /\ d.declared \in Nat
<1>1. d.named \in Seq(Names) /\ d.whole \in Nat /\ d.declared \in Nat
  BY DEF FileType
<1>2. Len(d.named) \in Nat
  BY <1>1, LenProperties
<1>3. d.whole <= Len(d.named)
  BY DEF FileType
<1>. QED
  BY <1>1, <1>2, <1>3

LEMMA DocumentType ==
  ASSUME NEW declared \in Nat, NEW named \in Seq(Names), NEW whole \in Nat,
         whole <= Len(named), Len(named) <= declared
  PROVE  FileType(Document(declared, named, whole))
BY DEF FileType, Document

LEMMA OtherFiles == FileType(NoFile) /\ FileType(Malformed) /\ FileType(NoPages)
<1>1. <<>> \in Seq(Names) /\ Len(<<>>) = 0
  BY EmptySeq
<1>. QED
  BY <1>1 DEF FileType, NoFile, Malformed, NoPages

LEMMA DefaultType == FileType(DefaultFile)
<1>1. \A a, b \in Names : <<a, b>> \in Seq(Names) /\ Len(<<a, b>>) = 2
  OBVIOUS
<1>2. DefaultPages \in Seq(Names) /\ Len(DefaultPages) = 2
  BY <1>1, KnownNames, Zenon DEF DefaultPages
<1>3. Len(DefaultPages) \in Nat /\ Len(DefaultPages) <= Len(DefaultPages)
  BY <1>2
<1>4. FileType(Document(Len(DefaultPages), DefaultPages, Len(DefaultPages)))
  BY <1>2, <1>3, DocumentType
<1>. QED
  BY <1>4, Zenon DEF DefaultFile, Written

-----------------------------------------------------------------------------
(* Sequences.                                                              *)
LEMMA PrefixFacts ==
  ASSUME NEW s \in Seq(Names), NEW n \in 0 .. Len(s)
  PROVE  /\ Prefix(s, n) \in Seq(Names) /\ Len(Prefix(s, n)) = n
         /\ \A i \in 1 .. n : Prefix(s, n)[i] = s[i]
<1>1. Len(s) \in Nat
  BY LenProperties
<1>3. \A i \in 1 .. n : s[i] \in Names
  BY <1>1, ElementOfSeq
<1>2. n \in Int /\ 1 \in Int /\ n >= 0
  BY <1>1
<1>. QED
  BY <1>1, <1>2, <1>3, SubSeqProperties DEF Prefix

LEMMA RestFacts ==
  ASSUME NEW s \in Seq(Names), NEW n \in 0 .. Len(s)
  PROVE  /\ SubSeq(s, n + 1, Len(s)) \in Seq(Names)
         /\ Len(SubSeq(s, n + 1, Len(s))) = Len(s) - n
         /\ \A i \in 1 .. Len(s) - n : SubSeq(s, n + 1, Len(s))[i] = s[n + i]
<1> DEFINE rest == SubSeq(s, n + 1, Len(s))
<1>1. Len(s) \in Nat /\ n \in Nat /\ n + 1 \in Int /\ Len(s) \in Int
  BY LenProperties
<1>2. \A i \in n + 1 .. Len(s) : s[i] \in Names
  BY <1>1, ElementOfSeq
<1>3. /\ rest \in Seq(Names)
      /\ Len(rest) = IF n + 1 <= Len(s) THEN Len(s) - (n + 1) + 1 ELSE 0
      /\ \A i \in 1 .. Len(s) - (n + 1) + 1 : rest[i] = s[n + 1 + i - 1]
  BY <1>1, <1>2, SubSeqProperties
<1>4. /\ Len(s) - (n + 1) + 1 = Len(s) - n
      /\ \A i \in 1 .. Len(s) - n : n + 1 + i - 1 = n + i
  BY <1>1
<1>5. /\ Len(rest) = Len(s) - n
      /\ \A i \in 1 .. Len(s) - n : rest[i] = s[n + i]
  <2> HIDE DEF rest
  <2>1. CASE n = Len(s)
    BY <1>1, <1>3, <2>1
  <2>2. CASE n # Len(s)
    <3>1. n + 1 <= Len(s)
      BY <1>1, <2>2
    <3>. QED
      BY <1>1, <1>3, <1>4, <3>1
  <2>. QED
    BY <2>1, <2>2
<1>. QED
  BY <1>3, <1>5

LEMMA InsertFacts ==
  ASSUME NEW s \in Seq(Names), NEW at \in 0 .. Len(s), NEW x \in Names
  PROVE  /\ Insert(s, at, x) \in Seq(Names) /\ Len(Insert(s, at, x)) = Len(s) + 1
         /\ \A i \in 1 .. Len(s) + 1 :
              Insert(s, at, x)[i] = IF i <= at THEN s[i]
                                    ELSE IF i = at + 1 THEN x ELSE s[i - 1]
<1> DEFINE front == SubSeq(s, 1, at)
           rest == SubSeq(s, at + 1, Len(s))
           head == front \o <<x>>
<1>1. Len(s) \in Nat /\ at \in Nat
  BY LenProperties
<1>2. front \in Seq(Names) /\ Len(front) = at /\ \A i \in 1 .. at : front[i] = s[i]
  BY PrefixFacts DEF Prefix
<1>3. rest \in Seq(Names) /\ Len(rest) = Len(s) - at
      /\ \A i \in 1 .. Len(s) - at : rest[i] = s[at + i]
  BY RestFacts
<1>4. <<x>> \in Seq(Names) /\ Len(<<x>>) = 1 /\ <<x>>[1] = x
  OBVIOUS
<1> HIDE DEF front, rest
<1>5. /\ head \in Seq(Names) /\ Len(head) = at + 1
      /\ \A i \in 1 .. at + 1 : head[i] = IF i <= at THEN s[i] ELSE x
  <2>1. /\ head \in Seq(Names) /\ Len(head) = Len(front) + Len(<<x>>)
        /\ \A i \in 1 .. Len(front) + Len(<<x>>) :
             head[i] = IF i <= Len(front) THEN front[i] ELSE <<x>>[i - Len(front)]
    BY <1>2, <1>4, ConcatProperties
  <2>2. ASSUME NEW i \in 1 .. at + 1
        PROVE  head[i] = IF i <= at THEN s[i] ELSE x
    <3>1. CASE i <= at
      BY <1>1, <1>2, <1>4, <2>1, <3>1
    <3>2. CASE ~(i <= at)
      <4>1. i = at + 1 /\ i - Len(front) = 1
        BY <1>1, <1>2, <3>2
      <4>2. head[i] = <<x>>[1]
        BY <1>1, <1>2, <1>4, <2>1, <3>2, <4>1
      <4>. QED
        BY <1>4, <3>2, <4>2
    <3>. QED
      BY <3>1, <3>2
  <2>. QED
    BY <1>2, <1>4, <2>1, <2>2
<1> HIDE DEF head
<1>6. Insert(s, at, x) = head \o rest
  BY DEF Insert, head, front, rest
<1>7. /\ head \o rest \in Seq(Names) /\ Len(head \o rest) = Len(head) + Len(rest)
      /\ \A i \in 1 .. Len(head) + Len(rest) :
           (head \o rest)[i] = IF i <= Len(head) THEN head[i] ELSE rest[i - Len(head)]
  BY <1>3, <1>5, ConcatProperties
<1>8. Len(head) + Len(rest) = Len(s) + 1
  BY <1>1, <1>3, <1>5
<1>9. ASSUME NEW i \in 1 .. Len(s) + 1
      PROVE  (head \o rest)[i] = IF i <= at THEN s[i]
                                 ELSE IF i = at + 1 THEN x ELSE s[i - 1]
  <2>1. CASE i <= at + 1
    BY <1>1, <1>5, <1>7, <1>8, <2>1
  <2>2. CASE ~(i <= at + 1)
    <3>1. (head \o rest)[i] = rest[i - (at + 1)] /\ i - (at + 1) \in 1 .. Len(s) - at
      BY <1>1, <1>5, <1>7, <1>8, <2>2
    <3>2. rest[i - (at + 1)] = s[at + (i - (at + 1))]
      BY <1>3, <3>1
    <3>3. at + (i - (at + 1)) = i - 1
      BY <1>1
    <3>. QED
      BY <1>1, <2>2, <3>1, <3>2, <3>3
  <2>. QED
    BY <2>1, <2>2
<1>. QED
  BY <1>6, <1>7, <1>8, <1>9

LEMMA EraseFacts ==
  ASSUME NEW s \in Seq(Names), NEW at \in 1 .. Len(s)
  PROVE  /\ Erase(s, at) \in Seq(Names) /\ Len(Erase(s, at)) = Len(s) - 1
         /\ \A i \in 1 .. Len(s) - 1 :
              Erase(s, at)[i] = IF i < at THEN s[i] ELSE s[i + 1]
<1> DEFINE front == SubSeq(s, 1, at - 1)
           rest == SubSeq(s, at + 1, Len(s))
<1>1. Len(s) \in Nat /\ at \in Nat /\ at - 1 \in 0 .. Len(s)
  BY LenProperties
<1>2. front \in Seq(Names) /\ Len(front) = at - 1 /\ \A i \in 1 .. at - 1 : front[i] = s[i]
  BY <1>1, PrefixFacts DEF Prefix
<1>3. rest \in Seq(Names) /\ Len(rest) = Len(s) - at
      /\ \A i \in 1 .. Len(s) - at : rest[i] = s[at + i]
  BY <1>1, RestFacts
<1> HIDE DEF front, rest
<1>4. Erase(s, at) = front \o rest
  BY DEF Erase, front, rest
<1>5. /\ front \o rest \in Seq(Names) /\ Len(front \o rest) = Len(front) + Len(rest)
      /\ \A i \in 1 .. Len(front) + Len(rest) :
           (front \o rest)[i] = IF i <= Len(front) THEN front[i] ELSE rest[i - Len(front)]
  BY <1>2, <1>3, ConcatProperties
<1>6. Len(front) + Len(rest) = Len(s) - 1
  BY <1>1, <1>2, <1>3
<1>7. ASSUME NEW i \in 1 .. Len(s) - 1
      PROVE  (front \o rest)[i] = IF i < at THEN s[i] ELSE s[i + 1]
  <2>1. CASE i < at
    BY <1>1, <1>2, <1>5, <1>6, <2>1
  <2>2. CASE ~(i < at)
    <3>1. (front \o rest)[i] = rest[i - (at - 1)] /\ i - (at - 1) \in 1 .. Len(s) - at
      BY <1>1, <1>2, <1>5, <1>6, <2>2
    <3>2. rest[i - (at - 1)] = s[at + (i - (at - 1))]
      BY <1>3, <3>1
    <3>3. at + (i - (at - 1)) = i + 1
      BY <1>1
    <3>. QED
      BY <1>1, <2>2, <3>1, <3>2, <3>3
  <2>. QED
    BY <2>1, <2>2
<1>. QED
  BY <1>4, <1>5, <1>6, <1>7

-----------------------------------------------------------------------------
(* Saving to the temporary file and loading it adds names at the end, where *)
(* they are nobody's.                                                       *)
LEMMA SaveToTempStep ==
  ASSUME IInv, loads # 0, NEW stored, NEW called, Covered(stored, called),
         loads <= 1 => Called(stored, called), SaveToTempAndReload(stored, called)
  PROVE  IInv'
<1>1. pages' = stored /\ file' = file /\ loads' = loads
  BY DEF SaveToTempAndReload
<1>2. /\ stored \in Seq(Names) /\ called \in Seq(Names) /\ Len(stored) <= Len(called)
      /\ Len(stored) \in Nat /\ Len(called) \in Nat
  BY LenProperties DEF Covered
<1>3. PagesType
  BY DEF IInv
<1>4. /\ names' \in Seq(Names) /\ Len(called) <= Len(names') /\ tabs' \in Nat
      /\ \A i \in 1 .. Len(called) : names'[i] = called[i]
  <2>1. CASE names' = called /\ tabs' = tabs
    BY <1>2, <1>3, <2>1 DEF PagesType
  <2>2. CASE names' = called \o SavedAs(stored, called) /\ tabs' = Len(stored)
    <3>1. SavedAs(stored, called) \in Seq(Names) /\ Len(SavedAs(stored, called)) = Len(stored)
      BY <1>2, PrefixFacts DEF SavedAs
    <3> DEFINE again == SavedAs(stored, called)
    <3> HIDE DEF again
    <3>2. again \in Seq(Names) /\ Len(again) = Len(stored) /\ names' = called \o again
      BY <2>2, <3>1 DEF again
    <3>3. /\ names' \in Seq(Names) /\ Len(names') = Len(called) + Len(again)
          /\ \A i \in 1 .. Len(called) + Len(again) :
               names'[i] = IF i <= Len(called) THEN called[i] ELSE again[i - Len(called)]
      BY <1>2, <3>2, ConcatProperties
    <3>. QED
      BY <1>2, <2>2, <3>2, <3>3
  <2>. QED
    BY <2>1, <2>2 DEF SaveToTempAndReload
<1>5. PagesType' /\ FileType(file)'
  BY <1>1, <1>2, <1>3, <1>4 DEF IInv, PagesType, FileType
<1>6. SaveHasNames'
  <2>1. Len(names') \in Nat
    BY <1>4, LenProperties
  <2>. QED
    BY <1>1, <1>2, <1>4, <2>1 DEF SaveHasNames
<1>7. Empty'
  BY <1>1 DEF Empty
<1>8. loads' <= 1 => Called(pages, names)'
  BY <1>1, <1>2, <1>4 DEF Called
<1>. QED
  BY <1>5, <1>6, <1>7, <1>8 DEF IInv

(* What the edits are applied to.                                          *)
LEMMA Present ==
  ASSUME IInv
  PROVE  /\ Covered(pages, names) /\ (loads <= 1 => Called(pages, names))
         /\ Len(pages) \in Nat /\ Len(names) \in Nat /\ tabs \in Nat
         /\ (tabs # 0 => loads # 0)
<1>1. PagesType /\ SaveHasNames /\ Empty /\ (loads <= 1 => Called(pages, names))
  BY DEF IInv
<1>2. pages \in Seq(Names) /\ names \in Seq(Names) /\ tabs \in Nat
  BY <1>1 DEF PagesType
<1>3. Len(pages) \in Nat /\ Len(names) \in Nat
  BY <1>2, LenProperties
<1>. QED
  BY <1>1, <1>2, <1>3 DEF SaveHasNames, Empty, Covered

LEMMA InsertBoth ==
  ASSUME NEW stored, NEW called, Covered(stored, called),
         NEW at \in 0 .. Len(stored), NEW page \in Names, NEW name \in Names
  PROVE  /\ Covered(Insert(stored, at, page), Insert(called, at, name))
         /\ (Called(stored, called) /\ page = name) =>
              Called(Insert(stored, at, page), Insert(called, at, name))
<1>1. /\ stored \in Seq(Names) /\ called \in Seq(Names) /\ Len(stored) <= Len(called)
      /\ Len(stored) \in Nat /\ Len(called) \in Nat /\ at \in 0 .. Len(called)
  BY LenProperties DEF Covered
<1> DEFINE s == Insert(stored, at, page)
           c == Insert(called, at, name)
<1>0. at \in 0 .. Len(stored)
  OBVIOUS
<1>2. /\ s \in Seq(Names) /\ Len(s) = Len(stored) + 1
      /\ \A i \in 1 .. Len(stored) + 1 :
           s[i] = IF i <= at THEN stored[i] ELSE IF i = at + 1 THEN page ELSE stored[i - 1]
  BY <1>1, InsertFacts
<1>3. /\ c \in Seq(Names) /\ Len(c) = Len(called) + 1
      /\ \A i \in 1 .. Len(called) + 1 :
           c[i] = IF i <= at THEN called[i] ELSE IF i = at + 1 THEN name ELSE called[i - 1]
  BY <1>1, InsertFacts
<1> HIDE DEF s, c
<1>4. Covered(s, c)
  BY <1>1, <1>2, <1>3 DEF Covered
<1>5. ASSUME Called(stored, called), page = name
      PROVE  Called(s, c)
  <2> SUFFICES ASSUME NEW i \in 1 .. Len(s) PROVE c[i] = s[i]
    BY DEF Called
  <2>1. i \in 1 .. Len(stored) + 1 /\ i \in 1 .. Len(called) + 1
    BY <1>1, <1>2
  <2>2. CASE i <= at
    <3>1. i \in 1 .. Len(stored) /\ c[i] = called[i] /\ s[i] = stored[i]
      BY <1>1, <1>2, <1>3, <2>1, <2>2
    <3>. QED
      BY <1>5, <3>1 DEF Called
  <2>3. CASE ~(i <= at) /\ i = at + 1
    <3>1. c[i] = name /\ s[i] = page
      BY <1>2, <1>3, <2>1, <2>3
    <3>. QED
      BY <1>5, <3>1
  <2>4. CASE ~(i <= at) /\ i # at + 1
    <3>1. i - 1 \in 1 .. Len(stored) /\ c[i] = called[i - 1] /\ s[i] = stored[i - 1]
      BY <1>1, <1>2, <1>3, <2>1, <2>4
    <3>. QED
      BY <1>5, <3>1 DEF Called
  <2>. QED
    BY <2>2, <2>3, <2>4
<1>. QED
  BY <1>4, <1>5 DEF s, c

LEMMA EraseBoth ==
  ASSUME NEW stored, NEW called, Covered(stored, called), NEW at \in 1 .. Len(stored)
  PROVE  /\ Covered(Erase(stored, at), Erase(called, at))
         /\ Called(stored, called) => Called(Erase(stored, at), Erase(called, at))
<1>1. /\ stored \in Seq(Names) /\ called \in Seq(Names) /\ Len(stored) <= Len(called)
      /\ Len(stored) \in Nat /\ Len(called) \in Nat /\ at \in 1 .. Len(called)
  BY LenProperties DEF Covered
<1> DEFINE s == Erase(stored, at)
           c == Erase(called, at)
<1>2. /\ s \in Seq(Names) /\ Len(s) = Len(stored) - 1
      /\ \A i \in 1 .. Len(stored) - 1 : s[i] = IF i < at THEN stored[i] ELSE stored[i + 1]
  BY <1>1, EraseFacts
<1>3. /\ c \in Seq(Names) /\ Len(c) = Len(called) - 1
      /\ \A i \in 1 .. Len(called) - 1 : c[i] = IF i < at THEN called[i] ELSE called[i + 1]
  BY <1>1, EraseFacts
<1> HIDE DEF s, c
<1>4. Covered(s, c)
  BY <1>1, <1>2, <1>3 DEF Covered
<1>5. ASSUME Called(stored, called) PROVE Called(s, c)
  <2> SUFFICES ASSUME NEW i \in 1 .. Len(s) PROVE c[i] = s[i]
    BY DEF Called
  <2>1. i \in 1 .. Len(stored) - 1 /\ i \in 1 .. Len(called) - 1
    BY <1>1, <1>2
  <2>2. CASE i < at
    <3>1. c[i] = called[i] /\ s[i] = stored[i]
      BY <1>2, <1>3, <2>1, <2>2
    <3>2. i \in 1 .. Len(stored)
      BY <1>1, <2>1
    <3>. QED
      BY <1>5, <3>1, <3>2 DEF Called
  <2>3. CASE ~(i < at)
    <3>1. i + 1 \in 1 .. Len(stored) /\ c[i] = called[i + 1] /\ s[i] = stored[i + 1]
      BY <1>1, <1>2, <1>3, <2>1, <2>3
    <3>. QED
      BY <1>5, <3>1 DEF Called
  <2>. QED
    BY <2>2, <2>3
<1>. QED
  BY <1>4, <1>5 DEF s, c

-----------------------------------------------------------------------------
(* The panel.                                                              *)
LEMMA AddPageStep ==
  ASSUME IInv, NEW i \in 1 .. tabs, AddPage(i)
  PROVE  IInv'
<1>1. loads # 0 /\ Covered(pages, names) /\ (loads <= 1 => Called(pages, names))
  BY Present
<1>2. CASE i <= Len(pages)
  <2>1. i \in 0 .. Len(pages)
    BY <1>2, Present
  <2>2. SaveToTempAndReload(Insert(pages, i, NewPage), Insert(names, i, NewPage))
    BY <1>2 DEF AddPage
  <2>. QED
    BY <1>1, <2>1, <2>2, KnownNames, InsertBoth, SaveToTempStep
<1>3. CASE ~(i <= Len(pages))
  BY <1>1, <1>3, SaveToTempStep DEF AddPage
<1>. QED
  BY <1>2, <1>3

LEMMA CopyPageStep ==
  ASSUME IInv, NEW i \in 1 .. tabs, NEW to \in {i - 1, i}, CopyPage(i, to)
  PROVE  IInv'
<1>1. loads # 0 /\ Covered(pages, names) /\ (loads <= 1 => Called(pages, names))
  BY Present
<1>2. CASE i <= Len(pages)
  <2>1. i \in 1 .. Len(pages) /\ to \in 0 .. Len(pages) /\ i \in 1 .. Len(names)
    BY <1>1, <1>2, Present DEF Covered
  <2>2. pages[i] \in Names /\ names[i] \in Names
    BY <1>1, <2>1, ElementOfSeq DEF Covered
  <2>3. loads <= 1 => pages[i] = names[i]
    BY <1>1, <2>1 DEF Called
  <2>4. SaveToTempAndReload(Insert(pages, to, pages[i]), Insert(names, to, names[i]))
    BY <1>2 DEF CopyPage
  <2>. QED
    BY <1>1, <2>1, <2>2, <2>3, <2>4, InsertBoth, SaveToTempStep
<1>3. CASE ~(i <= Len(pages))
  BY <1>1, <1>3, SaveToTempStep DEF CopyPage
<1>. QED
  BY <1>2, <1>3

LEMMA DeletePageStep ==
  ASSUME IInv, NEW i \in 1 .. tabs, DeletePage(i)
  PROVE  IInv'
<1>1. loads # 0 /\ Covered(pages, names) /\ (loads <= 1 => Called(pages, names))
  BY Present
<1>2. CASE i <= Len(pages)
  <2>1. i \in 1 .. Len(pages)
    BY <1>2, Present
  <2>2. SaveToTempAndReload(Erase(pages, i), Erase(names, i))
    BY <1>2 DEF DeletePage
  <2>. QED
    BY <1>1, <2>1, <2>2, EraseBoth, SaveToTempStep
<1>3. CASE ~(i <= Len(pages))
  BY <1>1, <1>3, SaveToTempStep DEF DeletePage
<1>. QED
  BY <1>2, <1>3

LEMMA RenamePageStep ==
  ASSUME IInv, NEW i \in 1 .. tabs, NEW name \in Names, RenamePage(i, name)
  PROVE  IInv'
<1>1. /\ loads # 0 /\ (loads <= 1 => Called(pages, names))
      /\ pages \in Seq(Names) /\ names \in Seq(Names) /\ Len(pages) <= Len(names)
      /\ Len(pages) \in Nat /\ Len(names) \in Nat /\ i \in 1 .. Len(names)
  BY Present DEF Covered, RenamePage
<1>2. /\ names' = [names EXCEPT ![i] = name] /\ tabs' = tabs /\ file' = file
      /\ loads' = loads
      /\ pages' = IF i <= Len(pages) THEN [pages EXCEPT ![i] = name] ELSE pages
  BY DEF RenamePage
<1>3. /\ names' \in Seq(Names) /\ Len(names') = Len(names)
      /\ \A j \in 1 .. Len(names) : names'[j] = IF j = i THEN name ELSE names[j]
  BY <1>1, <1>2, ExceptSeq
<1>4. /\ pages' \in Seq(Names) /\ Len(pages') = Len(pages)
      /\ \A j \in 1 .. Len(pages) : pages'[j] = IF j = i THEN name ELSE pages[j]
  <2>1. CASE i <= Len(pages)
    <3>1. i \in 1 .. Len(pages)
      BY <1>1, <2>1
    <3>. QED
      BY <1>1, <1>2, <2>1, <3>1, ExceptSeq
  <2>2. CASE ~(i <= Len(pages))
    <3>1. \A j \in 1 .. Len(pages) : j # i
      BY <1>1, <2>2
    <3>. QED
      BY <1>1, <1>2, <2>2, <3>1
  <2>. QED
    BY <2>1, <2>2
<1>5. PagesType' /\ FileType(file)' /\ SaveHasNames' /\ Empty'
  BY <1>1, <1>2, <1>3, <1>4 DEF IInv, PagesType, FileType, SaveHasNames, Empty
<1>6. loads' <= 1 => Called(pages, names)'
  BY <1>1, <1>2, <1>3, <1>4 DEF Called
<1>. QED
  BY <1>5, <1>6 DEF IInv

LEMMA EmptyStep ==
  ASSUME IInv, pages' = <<>>, names' = <<>>, tabs' = 0, loads' = 0, file' = file
  PROVE  IInv'
<1>1. /\ pages' \in Seq(Names) /\ names' \in Seq(Names)
      /\ Len(pages') = 0 /\ Len(names') = 0
  BY EmptySeq
<1>2. PagesType'
  BY <1>1, Bounds DEF PagesType
<1>3. FileType(file)'
  BY DEF IInv, FileType
<1>. QED
  BY <1>1, <1>2, <1>3 DEF IInv, SaveHasNames, Empty, Called

LEMMA PanelStep ==
  ASSUME IInv, Panel
  PROVE  IInv'
<1>1. CASE \E i \in 1 .. tabs : AddPage(i) \/ DeletePage(i) \/ RenameNothing(i)
  BY <1>1, AddPageStep, DeletePageStep, EmptyStep DEF RenameNothing
<1>2. CASE \E i \in 1 .. tabs : \E to \in {i - 1, i} : CopyPage(i, to)
  BY <1>2, CopyPageStep
<1>3. CASE \E i \in 1 .. tabs : \E name \in Names : RenamePage(i, name)
  BY <1>3, RenamePageStep
<1>4. CASE EditColumns
  <2>1. loads # 0 /\ SaveToTempAndReload(pages, names)
    BY <1>4, Present DEF EditColumns
  <2>. QED
    BY <2>1, Present, SaveToTempStep
<1>5. CASE CloseTab
  <2>1. tabs' \in Nat /\ tabs # 0 /\ UNCHANGED <<pages, names, file, loads>>
    BY <1>5, Present DEF CloseTab
  <2>. QED
    BY <2>1, Present DEF IInv, PagesType, FileType, SaveHasNames, Empty, Called
<1>6. CASE Save
  <2>1. /\ file' = Written(SavedAs(pages, names))
        /\ UNCHANGED <<pages, names, tabs, loads>>
    BY <1>6 DEF Save
  <2>2. SavedAs(pages, names) \in Seq(Names) /\ Len(SavedAs(pages, names)) = Len(pages)
    BY Present, PrefixFacts DEF SavedAs, Covered
  <2>3. FileType(Written(SavedAs(pages, names)))
    BY <2>2, Present, DocumentType DEF Written
  <2>4. FileType(file)'
    BY <2>1, <2>3 DEF FileType
  <2>. QED
    BY <2>1, <2>4 DEF IInv, PagesType, SaveHasNames, Empty, Called
<1>. QED
  BY <1>1, <1>2, <1>3, <1>4, <1>5, <1>6 DEF Panel

-----------------------------------------------------------------------------
(* Cmds.xml.                                                               *)
LEMMA ReloadStep ==
  ASSUME IInv, Reload
  PROVE  IInv'
<1> DEFINE d == IF file = NoFile THEN DefaultFile ELSE file
<1>1. /\ loads < MaxLoads /\ Load(d) /\ file' = d
      /\ loads' = IF d.kind = "malformed" THEN loads ELSE loads + 1
  BY DEF Reload
<1>2. FileType(d)
  BY DefaultType DEF IInv
<1> HIDE DEF d
<1>9. FileType(file)'
  BY <1>1, <1>2 DEF FileType
<1>3. PagesType /\ SaveHasNames /\ Empty
  BY DEF IInv
<1>4. loads \in Nat /\ MaxLoads \in Nat /\ loads \in 0 .. MaxLoads
  BY <1>3, Bounds DEF PagesType
<1>5. CASE d.kind = "malformed"
  <2>1. UNCHANGED <<pages, names, tabs, loads>>
    BY <1>1, <1>5 DEF Load
  <2>2. PagesType'
    BY <1>3, <2>1 DEF PagesType
  <2>. QED
    BY <1>9, <2>1, <2>2 DEF IInv, SaveHasNames, Empty, Called
<1>6. CASE d.kind = "no pages"
  <2>1. pages' = <<>> /\ names' = names /\ tabs' = tabs /\ loads' = loads + 1
    BY <1>1, <1>6 DEF Load
  <2>2. pages' \in Seq(Names) /\ Len(pages') = 0
    BY <2>1, EmptySeq
  <2>3. PagesType'
    BY <1>1, <1>3, <1>4, <2>1, <2>2 DEF PagesType
  <2>4. SaveHasNames' /\ Empty' /\ Called(pages, names)'
    BY <1>4, <2>1, <2>2, Present DEF SaveHasNames, Empty, Called
  <2>. QED
    BY <1>9, <2>3, <2>4 DEF IInv
<1>7. CASE d.kind \notin {"malformed", "no pages"}
  <2>1. /\ pages' = Prefix(d.named, d.whole) /\ names' = names \o d.named
        /\ tabs' = d.declared /\ loads' = loads + 1
    BY <1>1, <1>7 DEF Load
  <2>2. /\ d.named \in Seq(Names) /\ d.whole \in Nat /\ Len(d.named) \in Nat
        /\ d.whole \in 0 .. Len(d.named) /\ d.declared \in Nat
    BY <1>2, FileParts
  <2>3. /\ pages' \in Seq(Names) /\ Len(pages') = d.whole
        /\ \A i \in 1 .. d.whole : pages'[i] = d.named[i]
    BY <2>1, <2>2, PrefixFacts
  <2>4. names \in Seq(Names) /\ Len(names) \in Nat
    BY <1>3, LenProperties DEF PagesType
  <2>5. /\ names' \in Seq(Names) /\ Len(names') = Len(names) + Len(d.named)
        /\ \A i \in 1 .. Len(names) + Len(d.named) :
             names'[i] = IF i <= Len(names) THEN names[i] ELSE d.named[i - Len(names)]
    BY <2>1, <2>2, <2>4, ConcatProperties
  <2>6. PagesType'
    BY <1>1, <1>4, <2>1, <2>2, <2>3, <2>5 DEF PagesType
  <2>7. SaveHasNames' /\ Empty'
    BY <1>4, <2>1, <2>2, <2>3, <2>4, <2>5 DEF SaveHasNames, Empty
  <2>8. ASSUME loads' <= 1 PROVE Called(pages, names)'
    <3>1. loads = 0 /\ Len(names) = 0
      BY <1>3, <1>4, <2>1, <2>8 DEF Empty
    <3>2. \A i \in 1 .. Len(d.named) : names'[i] = d.named[i]
      BY <2>2, <2>5, <3>1
    <3>. QED
      BY <2>2, <2>3, <3>2 DEF Called
  <2>. QED
    BY <1>9, <2>6, <2>7, <2>8 DEF IInv
<1>. QED
  BY <1>5, <1>6, <1>7

LEMMA EditFileStep ==
  ASSUME IInv, EditFile
  PROVE  IInv'
<1>1. file' \in Edited /\ UNCHANGED <<pages, names, tabs, loads>>
  BY DEF EditFile
<1>2. FileType(file')
  <2>1. CASE file' \in {NoFile, Malformed, NoPages}
    BY <2>1, OtherFiles
  <2>2. CASE file' \notin {NoFile, Malformed, NoPages}
    <3>1. PICK declared \in 0 .. MaxPages,
               named \in UNION {[1 .. n -> Names] : n \in 0 .. MaxPages},
               whole \in 0 .. MaxPages :
            file' = Document(declared, named, whole)
      BY <1>1, <2>2 DEF Edited
    <3>2. /\ Len(file'.named) <= file'.declared
          /\ Len(file'.named) \in {file'.whole, file'.whole + 1}
      BY <1>1, <2>2 DEF Edited
    <3>3. named \in Seq(Names)
      <4>1. PICK n \in 0 .. MaxPages : named \in [1 .. n -> Names]
        OBVIOUS
      <4>2. n \in Nat
        BY Bounds
      <4>. QED
        BY <4>1, <4>2, SeqDef
    <3>4. Len(named) \in Nat /\ declared \in Nat /\ whole \in Nat
      BY <3>3, LenProperties, Bounds
    <3>5. file'.named = named /\ file'.declared = declared /\ file'.whole = whole
      BY <3>1 DEF Document
    <3>6. Len(named) <= declared /\ whole <= Len(named)
      BY <3>2, <3>4, <3>5
    <3>. QED
      BY <3>1, <3>3, <3>4, <3>6, DocumentType
  <2>. QED
    BY <2>1, <2>2
<1>3. FileType(file)'
  BY <1>2 DEF FileType
<1>. QED
  BY <1>1, <1>3 DEF IInv, PagesType, SaveHasNames, Empty, Called

LEMMA IInvInit == Init => IInv
<1> SUFFICES ASSUME Init PROVE IInv
  OBVIOUS
<1>1. /\ pages \in Seq(Names) /\ names \in Seq(Names)
      /\ Len(pages) = 0 /\ Len(names) = 0 /\ tabs = 0 /\ loads = 0
  BY EmptySeq DEF Init
<1>2. FileType(file)
  BY OtherFiles, DefaultType DEF Init
<1>3. PagesType
  BY <1>1, Bounds DEF PagesType
<1>. QED
  BY <1>1, <1>2, <1>3 DEF IInv, SaveHasNames, Empty, Called

LEMMA IInvNext == IInv /\ [Next]_vars => IInv'
<1> SUFFICES ASSUME IInv, [Next]_vars PROVE IInv'
  OBVIOUS
<1>1. CASE UNCHANGED vars
  BY <1>1 DEF vars, IInv, PagesType, FileType, SaveHasNames, Empty, Called
<1>2. CASE Restart
  BY <1>2, EmptyStep DEF Restart
<1>. QED
  BY <1>1, <1>2, ReloadStep, PanelStep, EditFileStep DEF Next

LEMMA Invariance == Spec => []IInv
<1>1. Init => IInv
  BY IInvInit
<1>2. IInv /\ [Next]_vars => IInv'
  BY IInvNext
<1>. QED
  BY <1>1, <1>2, PTL DEF Spec

-----------------------------------------------------------------------------
(* Every variable keeps its type, and what is saved can be loaded whole.   *)
THEOREM TypeCorrect == Spec => []TypeOK
<1>1. IInv => TypeOK
  BY DEF IInv, PagesType, FileType, TypeOK
<1>. QED
  BY <1>1, Invariance, PTL

(* Whatever is edited, saved and loaded, every page has a name for Save,   *)
(* CopyPage and DeletePage to take.                                        *)
THEOREM PagesHaveNames == Spec => []SaveHasNames
<1>1. IInv => SaveHasNames
  BY DEF IInv
<1>. QED
  BY <1>1, Invariance, PTL

(* As long as Cmds.xml has been loaded at most once, the name beside a     *)
(* page is its own after any adding, copying, deleting and renaming,       *)
(* though each of these loads the temporary file and adds names that       *)
(* belong to no page.                                                      *)
THEOREM NamesKept == Spec => []NamesFollowPages
<1>1. IInv => NamesFollowPages
  <2> SUFFICES ASSUME IInv, loads <= 1, NEW i \in DOMAIN pages PROVE names[i] = pages[i]
    BY DEF NamesFollowPages
  <2>1. i \in 1 .. Len(pages) /\ Called(pages, names)
    BY LenProperties DEF IInv, PagesType
  <2>. QED
    BY <2>1 DEF Called
<1>. QED
  BY <1>1, Invariance, PTL
=============================================================================
