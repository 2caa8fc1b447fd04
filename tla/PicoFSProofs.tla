----------------------------- MODULE PicoFSProofs ----------------------------
(***************************************************************************)
(* Theorems about PicoFS, for tables, sectors and files of every size, as  *)
(* long as nobody calls fs_compact: power may fail between any two flash   *)
(* operations of any call.                                                 *)
(***************************************************************************)
EXTENDS PicoFS, SequenceTheorems, WellFoundedInduction, TLAPS

-----------------------------------------------------------------------------
(* Sectors and pages                                                       *)

(***************************************************************************)
(* Division by the size of a sector.                                       *)
(***************************************************************************)
LEMMA Divides ==
    ASSUME NEW i \in Nat
    PROVE  /\ i \div SectorPages \in Nat
           /\ (i \div SectorPages) * SectorPages <= i
           /\ i < (i \div SectorPages) * SectorPages + SectorPages
<1>1. SectorPages \in Nat \ {0}
  BY PicoFSAssumption
<1>2. /\ i \div SectorPages \in Nat /\ i % SectorPages \in 0 .. SectorPages - 1
      /\ i = (i \div SectorPages) * SectorPages + (i % SectorPages)
  BY <1>1
<1> QED
  BY <1>1, <1>2

(***************************************************************************)
(* A page lies in one sector.                                              *)
(***************************************************************************)
LEMMA Quotient ==
    ASSUME NEW i \in Nat, NEW q \in Nat, q * SectorPages <= i, i < q * SectorPages + SectorPages
    PROVE  i \div SectorPages = q
<1> DEFINE r == i \div SectorPages
<1>1. r \in Nat /\ r * SectorPages <= i /\ i < r * SectorPages + SectorPages
  BY Divides
<1>2. SectorPages \in Nat \ {0}
  BY PicoFSAssumption
<1> HIDE DEF r
<1>3. ASSUME NEW x \in Nat, NEW y \in Nat, x < y
      PROVE  x * SectorPages + SectorPages <= y * SectorPages
  <2>1. PICK c \in Nat : y = x + 1 + c
    <3>1. y - x - 1 \in Nat /\ y = x + 1 + (y - x - 1)
      BY <1>3
    <3> QED
      BY <3>1
  <2>2. y * SectorPages = x * SectorPages + SectorPages + c * SectorPages
    BY <1>2, <2>1
  <2>3. c * SectorPages \in Nat /\ x * SectorPages \in Nat /\ y * SectorPages \in Nat
    BY <1>2
  <2> QED
    BY <1>2, <2>2, <2>3
<1>4. r * SectorPages \in Nat /\ q * SectorPages \in Nat
  BY <1>1, <1>2
<1>5. ~(r < q) /\ ~(q < r)
  BY <1>1, <1>2, <1>3, <1>4
<1>6. r = q
  BY <1>1, <1>5
<1> QED
  BY <1>6 DEF r

(***************************************************************************)
(* A product grows with its factors.                                       *)
(***************************************************************************)
LEMMA Times ==
    ASSUME NEW a \in Nat, NEW b \in Nat, NEW c \in Nat, a <= b
    PROVE  a * c \in Nat /\ b * c \in Nat /\ a * c <= b * c
<1>1. PICK d \in Nat : b = a + d
  <2>1. b - a \in Nat /\ b = a + (b - a)
    OBVIOUS
  <2> QED
    BY <2>1
<1>2. b * c = a * c + d * c
  BY <1>1
<1>3. a * c \in Nat /\ b * c \in Nat /\ d * c \in Nat
  OBVIOUS
<1> QED
  BY <1>2, <1>3

(***************************************************************************)
(* Pages of a file are in the sectors that are erased for it, and no file  *)
(* takes more sectors than a longer one.                                   *)
(***************************************************************************)
LEMMA SectorsForSize ==
    ASSUME NEW n \in Nat
    PROVE  /\ SectorsFor(n) \in Nat /\ n <= SectorsFor(n) * SectorPages
           /\ \A i \in 1 .. n : (i - 1) \div SectorPages \in 0 .. SectorsFor(n) - 1
           /\ \A i \in 1 .. SectorsFor(n) * SectorPages :
                  (i - 1) \div SectorPages \in 0 .. SectorsFor(n) - 1
           /\ n = 0 => SectorsFor(n) = 0
           /\ Reserved(n) \in Nat \ {0} /\ SectorsFor(n) <= Reserved(n)
           /\ \A m \in n .. MaxPages : /\ SectorsFor(n) <= SectorsFor(m)
                                       /\ Reserved(n) <= Reserved(m)
<1>1. SectorPages \in Nat \ {0} /\ MaxPages \in Nat
  BY PicoFSAssumption
<1>2. ASSUME NEW k \in Nat
      PROVE  /\ SectorsFor(k) \in Nat /\ k <= SectorsFor(k) * SectorPages
             /\ SectorsFor(k) * SectorPages <= k + SectorPages - 1
  <2>1. k + SectorPages - 1 \in Nat
    BY <1>1
  <2> DEFINE j == k + SectorPages - 1
  <2>2. /\ j \div SectorPages \in Nat /\ (j \div SectorPages) * SectorPages <= j
        /\ j < (j \div SectorPages) * SectorPages + SectorPages
    BY <2>1, Divides
  <2>3. SectorsFor(k) = j \div SectorPages
    BY DEF SectorsFor
  <2>4. SectorsFor(k) * SectorPages \in Nat
    BY <1>1, <2>2, <2>3
  <2> QED
    BY <1>1, <2>2, <2>3, <2>4
<1>3. ASSUME NEW i \in 1 .. SectorsFor(n) * SectorPages
      PROVE  (i - 1) \div SectorPages \in 0 .. SectorsFor(n) - 1
  <2> DEFINE q == (i - 1) \div SectorPages  s == SectorsFor(n)
  <2>1. i - 1 \in Nat /\ s \in Nat /\ s * SectorPages \in Nat
    BY <1>1, <1>2
  <2>2. q \in Nat /\ q * SectorPages <= i - 1
    BY <2>1, Divides
  <2>3. ~(s <= q)
    <3>1. s <= q => s * SectorPages <= q * SectorPages /\ q * SectorPages \in Nat
      BY <1>1, <2>1, <2>2, Times
    <3> QED
      BY <2>1, <2>2, <3>1
  <2> QED
    BY <2>1, <2>2, <2>3
<1>4. ASSUME NEW i \in 1 .. n PROVE i \in 1 .. SectorsFor(n) * SectorPages
  BY <1>1, <1>2
<1>5. n = 0 => SectorsFor(n) = 0
  <2>1. SectorPages - 1 \in Nat /\ 0 * SectorPages <= SectorPages - 1
        /\ SectorPages - 1 < 0 * SectorPages + SectorPages
    BY <1>1
  <2>2. (SectorPages - 1) \div SectorPages = 0
    BY <2>1, Quotient
  <2>3. 0 + SectorPages - 1 = SectorPages - 1
    BY <1>1
  <2> QED
    BY <2>2, <2>3 DEF SectorsFor
<1>6. ASSUME NEW k \in Nat, k # 0 PROVE SectorsFor(k) \in Nat \ {0}
  <2>1. SectorsFor(k) = 0 => SectorsFor(k) * SectorPages = 0
    BY <1>1
  <2> QED
    BY <1>2, <1>6, <2>1
<1>7. ASSUME NEW m \in n .. MaxPages PROVE SectorsFor(n) <= SectorsFor(m)
  <2> DEFINE a == SectorsFor(n)  b == SectorsFor(m)
  <2>1. /\ a \in Nat /\ b \in Nat /\ m \in Nat
        /\ a * SectorPages <= n + SectorPages - 1 /\ m <= b * SectorPages
    BY <1>1, <1>2
  <2>2. b + 1 <= a => (b + 1) * SectorPages <= a * SectorPages
    BY <1>1, <2>1, Times
  <2> HIDE DEF a, b
  <2>3. (b + 1) * SectorPages = b * SectorPages + SectorPages
        /\ b * SectorPages \in Nat /\ a * SectorPages \in Nat
    BY <1>1, <2>1
  <2>4. ~(b + 1 <= a)
    BY <1>1, <2>1, <2>2, <2>3
  <2>5. a <= b
    BY <2>1, <2>4
  <2> QED
    BY <2>5 DEF a, b
<1>8. Reserved(n) \in Nat \ {0} /\ SectorsFor(n) <= Reserved(n)
  BY <1>2, <1>5, <1>6 DEF Reserved
<1>9. ASSUME NEW m \in n .. MaxPages PROVE Reserved(n) <= Reserved(m)
  <2>1. m \in Nat /\ (n # 0 => m # 0)
    BY <1>1
  <2>2. n # 0 => SectorsFor(n) <= SectorsFor(m)
    BY <1>7
  <2>3. m # 0 => SectorsFor(m) \in Nat \ {0}
    BY <1>6, <2>1
  <2> QED
    BY <2>1, <2>2, <2>3 DEF Reserved
<1> QED
  BY <1>2, <1>3, <1>4, <1>5, <1>7, <1>8, <1>9

(***************************************************************************)
(* Page i - 1 of the sectors from s on.                                    *)
(***************************************************************************)
LEMMA PageAt ==
    ASSUME NEW s \in Nat, NEW i \in Nat \ {0}
    PROVE  /\ s * SectorPages + i - 1 \in Nat
           /\ (s * SectorPages + i - 1) \div SectorPages = s + (i - 1) \div SectorPages
           /\ \A m \in Nat : s + m <= FlashSectors /\ (i - 1) \div SectorPages < m
                  => s * SectorPages + i - 1 \in Pages
<1>1. SectorPages \in Nat \ {0} /\ FlashSectors \in Nat
  BY PicoFSAssumption
<1> DEFINE q == (i - 1) \div SectorPages  a == s * SectorPages + i - 1
<1>2. q \in Nat /\ q * SectorPages <= i - 1 /\ i - 1 < q * SectorPages + SectorPages
  BY Divides
<1> HIDE DEF q
<1>3. (s + q) * SectorPages = s * SectorPages + q * SectorPages
      /\ s * SectorPages \in Nat /\ q * SectorPages \in Nat /\ s + q \in Nat
  BY <1>1, <1>2
<1>4. a \in Nat
  BY <1>3
<1>5. (s + q) * SectorPages <= a /\ a < (s + q) * SectorPages + SectorPages
  BY <1>1, <1>2, <1>3
<1>6. a \div SectorPages = s + q
  BY <1>3, <1>4, <1>5, Quotient
<1>7. ASSUME NEW m \in Nat, s + m <= FlashSectors, q < m PROVE a \in Pages
  <2>1. (s + q + 1) * SectorPages <= FlashSectors * SectorPages
        /\ FlashSectors * SectorPages \in Nat
    BY <1>1, <1>2, <1>7, Times
  <2>2. (s + q + 1) * SectorPages = (s + q) * SectorPages + SectorPages
    BY <1>1, <1>2
  <2> HIDE DEF a
  <2> QED
    BY <1>1, <1>3, <1>4, <1>5, <2>1, <2>2 DEF Pages
<1> QED
  BY <1>4, <1>6, <1>7 DEF q

-----------------------------------------------------------------------------
(* The inductive invariant                                                 *)

Table == [magic : BOOLEAN, entries : [Entries -> Entry]]

Op ==
    [do : {"erase"}, at : 1 .. FlashSectors - 1]
        \cup [do : {"program"}, at : Pages, page : Data \cup {Blank, Mixed}]
        \cup [do : {"erase_table"}]
        \cup [do : {"program_table"}, half : {1, 2}, table : Table]

\* what the table will be when the call is done
Target ==
    IF todo # <<>> /\ todo[Len(todo)].do = "program_table" THEN todo[Len(todo)].table ELSE meta

Occupies(t, e) == t.entries[e].status = "OCCUPIED"
Home(t, e, i) == t.entries[e].offset * SectorPages + i - 1

OnData(c) == c.do \in {"erase", "program"}
ProgramsHalf(c, h) == c.do = "program_table" /\ c.half = h

\* The operations on the table come last, and how much of it is written is
\* known from how many of them are left.
Shape ==
    LET n == Len(todo)
    IN  \/ \A i \in 1 .. n : OnData(todo[i])
        \/ /\ n >= 3 /\ \A i \in 1 .. n - 3 : OnData(todo[i])
           /\ todo[n - 2].do = "erase_table"
           /\ ProgramsHalf(todo[n - 1], 1) /\ ProgramsHalf(todo[n], 2)
           /\ todo[n - 1].table = todo[n].table
        \/ /\ n = 2 /\ meta = ErasedTable
           /\ ProgramsHalf(todo[1], 1) /\ ProgramsHalf(todo[2], 2)
           /\ todo[1].table = todo[2].table
        \/ /\ n = 1 /\ meta.magic /\ ProgramsHalf(todo[1], 2)
           /\ \A e \in Entries :
                  meta.entries[e] = IF Half(e) = 1 THEN todo[1].table.entries[e] ELSE FreeEntry

\* Entries are used in their order, and have room before the next one.
TableOK(t) ==
    /\ ~t.magic => t = ErasedTable
    /\ \A e, o \in Entries :
           Occupies(t, e) /\ Occupies(t, o) /\ t.entries[e].name = t.entries[o].name => e = o
    /\ \A e \in Entries : Occupies(t, e) => t.entries[e].name \in Names
    /\ \A e \in Entries : t.entries[e].status # "FREE" =>
           /\ \A o \in 1 .. e - 1 : t.entries[o].status # "FREE"
           /\ t.entries[e].offset \in 1 .. 1 + (e - 1) * Reserved(MaxPages)

Touches(c, a) ==
    \/ c.do = "erase" /\ c.at = a \div SectorPages
    \/ c.do = "program" /\ c.at = a

Untouched(a) == \A i \in 1 .. Len(todo) : ~Touches(todo[i], a)

\* Between the last erasure of a page and its programming nothing else
\* touches it.
Planned ==
    \A i \in 1 .. Len(todo) : todo[i].do = "program" =>
        LET a == todo[i].at
        IN  \/ data[a] = Blank /\ \A k \in 1 .. i - 1 : ~Touches(todo[k], a)
            \/ \E j \in 1 .. i - 1 :
                   /\ todo[j].do = "erase" /\ Touches(todo[j], a)
                   /\ \A k \in j + 1 .. i - 1 : ~Touches(todo[k], a)

\* the page will hold v when the call is done
WillHold(a, v) ==
    \/ data[a] = v /\ Untouched(a)
    \/ \E i \in 1 .. Len(todo) :
           /\ todo[i].do = "program" /\ todo[i].at = a /\ todo[i].page = v
           /\ \A k \in i + 1 .. Len(todo) : ~Touches(todo[k], a)

\* the file of entry e is one that w knows and that nothing has damaged
Intact(t, w, e) ==
    LET f == t.entries[e].name
    IN  Occupies(t, e) /\ w[f] # Unknown /\ f \notin spoiled

SectorsOf(t, e) == Area(t.entries[e].offset, SectorsFor(t.entries[e].size))

\* The table t has the files that w has, and keeps intact ones apart.
Matches(t, w) ==
    /\ \A e \in Entries : Occupies(t, e) =>
           LET f == t.entries[e].name
           IN  w[f] = Unknown \/ (w[f] # Absent /\ Len(w[f]) = t.entries[e].size)
    /\ \A f \in Names : w[f] \notin {Absent, Unknown} =>
           \E e \in Entries : Occupies(t, e) /\ t.entries[e].name = f
    /\ \A e, o \in Entries : e # o /\ Intact(t, w, e) /\ Intact(t, w, o) =>
           SectorsOf(t, e) \cap SectorsOf(t, o) = {}

\* what intact files will hold when the call is done
Stored ==
    \A e \in Entries : Intact(Target, after, e) =>
        \A i \in 1 .. Target.entries[e].size :
            WillHold(Home(Target, e, i), after[Target.entries[e].name][i])

\* what they hold until then, if the call is on another file
Resting ==
    \A e \in Entries : Intact(meta, wanted, e) =>
        \A i \in 1 .. meta.entries[e].size :
            /\ data[Home(meta, e, i)] = wanted[meta.entries[e].name][i]
            /\ Untouched(Home(meta, e, i))

FSInv ==
    /\ FSTypeOK /\ todo \in Seq(Op)
    /\ Shape /\ Planned
    /\ TableOK(meta) /\ TableOK(Target)
    /\ ~up => todo = <<>>
    /\ up => Target.magic
    /\ todo = <<>> => after = wanted
    /\ Matches(Target, after) /\ Stored
    /\ todo # <<>> /\ ~TableAtRisk => Matches(meta, wanted) /\ Resting

(***************************************************************************)
(* What a flash operation has is known from what it does.                  *)
(***************************************************************************)
LEMMA OpFields ==
    ASSUME NEW c \in Op
    PROVE  /\ c.do \in {"erase", "program", "erase_table", "program_table"}
           /\ c.do = "erase" => c.at \in 1 .. FlashSectors - 1
           /\ c.do = "program" => c.at \in Pages /\ c.page \in Data \cup {Blank, Mixed}
           /\ c.do = "program_table" => c.half \in {1, 2} /\ c.table \in Table
BY DEF Op

(***************************************************************************)
(* Taking the head of a plan moves the others one place.                   *)
(***************************************************************************)
LEMMA Shifted ==
    ASSUME NEW s \in Seq(Op), s # <<>>
    PROVE  /\ Len(s) \in Nat \ {0} /\ Head(s) = s[1] /\ Tail(s) \in Seq(Op)
           /\ Len(Tail(s)) = Len(s) - 1 /\ \A i \in 1 .. Len(s) - 1 : Tail(s)[i] = s[i + 1]
           /\ \A i \in 1 .. Len(s) : s[i] \in Op
           /\ Tail(s) = <<>> <=> Len(s) = 1
<1>1. Len(s) \in Nat /\ Len(s) # 0
  BY LenProperties, EmptySeq
<1>2. /\ Head(s) = s[1] /\ Tail(s) \in Seq(Op) /\ Len(Tail(s)) = Len(s) - 1
      /\ \A i \in 1 .. Len(s) - 1 : Tail(s)[i] = s[i + 1]
  BY <1>1, HeadTailProperties
<1>3. \A i \in 1 .. Len(s) : s[i] \in Op
  BY ElementOfSeq
<1>4. Tail(s) = <<>> <=> Len(Tail(s)) = 0
  BY <1>2, EmptySeq
<1> QED
  BY <1>1, <1>2, <1>3, <1>4

(***************************************************************************)
(* The effect of the next operation on the data, when it is programmed     *)
(* where flash is erased.                                                  *)
(***************************************************************************)
LEMMA Effect ==
    ASSUME FSTypeOK, todo \in Seq(Op), Planned, FlashStep
    PROVE  LET c == Head(todo)
           IN  /\ data' \in [Pages -> Data \cup {Blank, Mixed}]
               /\ \A a \in Pages : ~Touches(c, a) => data'[a] = data[a]
               /\ c.do = "erase" => \A a \in Pages : Touches(c, a) => data'[a] = Blank
               /\ c.do = "program" => data[c.at] = Blank /\ data'[c.at] = c.page
<1> DEFINE c == Head(todo)
<1>1. /\ todo # <<>> /\ Apply(c) /\ data \in [Pages -> Data \cup {Blank, Mixed}]
  BY DEF FlashStep, FSTypeOK
<1>2. c = todo[1] /\ 1 \in 1 .. Len(todo) /\ c \in Op
  BY <1>1, Shifted
<1>3. /\ c.do \in {"erase", "program", "erase_table", "program_table"}
      /\ c.do = "program" => c.at \in Pages /\ c.page \in Data \cup {Blank, Mixed}
  BY <1>2, OpFields
<1> HIDE DEF c
<1>4. CASE c.do = "erase"
  <2>1. data' = [a \in Pages |-> IF a \div SectorPages = c.at THEN Blank ELSE data[a]]
    BY <1>1, <1>4 DEF Apply
  <2>2. \A a \in Pages : Touches(c, a) <=> a \div SectorPages = c.at
    BY <1>4 DEF Touches
  <2> QED
    BY <1>1, <1>4, <2>1, <2>2 DEF c
<1>5. CASE c.do = "program"
  <2>1. data' = [data EXCEPT ![c.at] = Programmed(c.at, c.page)]
    BY <1>1, <1>5 DEF Apply
  <2>2. data[c.at] = Blank
    <3>1. \/ data[c.at] = Blank
          \/ \E j \in 1 .. 1 - 1 : TRUE
      BY <1>2, <1>5 DEF Planned
    <3> QED
      BY <3>1
  <2>3. \A a \in Pages : Touches(c, a) <=> c.at = a
    BY <1>5 DEF Touches
  <2>4. Programmed(c.at, c.page) = c.page
    BY <2>2 DEF Programmed
  <2> QED
    BY <1>1, <1>3, <1>5, <2>1, <2>2, <2>3, <2>4 DEF c
<1>6. CASE c.do \in {"erase_table", "program_table"}
  <2>1. data' = data
    BY <1>1, <1>6 DEF Apply
  <2> QED
    BY <1>1, <1>6, <2>1 DEF c
<1> QED
  BY <1>3, <1>4, <1>5, <1>6

(***************************************************************************)
(* A step of the plan leaves a plan, does not change what a page will      *)
(* hold, and leaves alone the pages that the plan does not touch.          *)
(***************************************************************************)
LEMMA PlanStep ==
    ASSUME FSTypeOK, todo \in Seq(Op), Planned, FlashStep
    PROVE  /\ (Planned)'
           /\ \A a \in Pages : Untouched(a) => (Untouched(a))' /\ data'[a] = data[a]
           /\ \A a \in Pages : \A v : WillHold(a, v) => (WillHold(a, v))'
<1> DEFINE n == Len(todo)
<1>1. /\ todo # <<>> /\ todo' = Tail(todo) /\ n \in Nat \ {0} /\ Head(todo) = todo[1]
      /\ Len(todo') = n - 1 /\ \A i \in 1 .. n - 1 : todo'[i] = todo[i + 1]
      /\ \A i \in 1 .. n : todo[i] \in Op
  BY Shifted DEF FlashStep
<1>2. /\ \A a \in Pages : ~Touches(todo[1], a) => data'[a] = data[a]
      /\ todo[1].do = "erase" => \A a \in Pages : Touches(todo[1], a) => data'[a] = Blank
      /\ todo[1].do = "program" => data[todo[1].at] = Blank /\ data'[todo[1].at] = todo[1].page
  BY <1>1, Effect
<1> HIDE DEF n
<1>3. (Planned)'
  <2> SUFFICES ASSUME NEW i \in 1 .. n - 1, todo'[i].do = "program"
               PROVE  LET a == todo'[i].at
                      IN  \/ data'[a] = Blank /\ \A k \in 1 .. i - 1 : ~Touches(todo'[k], a)
                          \/ \E j \in 1 .. i - 1 :
                                 /\ todo'[j].do = "erase" /\ Touches(todo'[j], a)
                                 /\ \A k \in j + 1 .. i - 1 : ~Touches(todo'[k], a)
    BY <1>1 DEF Planned, Touches
  <2> DEFINE a == todo[i + 1].at
  <2>1. /\ i + 1 \in 1 .. n /\ todo'[i] = todo[i + 1]
        /\ \A k \in 1 .. i - 1 : k + 1 \in 2 .. i /\ todo'[k] = todo[k + 1]
    BY <1>1
  <2>2. a \in Pages
    BY <1>1, <2>1, OpFields
  <2> HIDE DEF a
  <2>3. \/ data[a] = Blank /\ \A k \in 1 .. i : ~Touches(todo[k], a)
        \/ \E j \in 1 .. i :
               /\ todo[j].do = "erase" /\ Touches(todo[j], a)
               /\ \A k \in j + 1 .. i : ~Touches(todo[k], a)
    <3>1. \/ data[a] = Blank /\ \A k \in 1 .. (i + 1) - 1 : ~Touches(todo[k], a)
          \/ \E j \in 1 .. (i + 1) - 1 :
                 /\ todo[j].do = "erase" /\ Touches(todo[j], a)
                 /\ \A k \in j + 1 .. (i + 1) - 1 : ~Touches(todo[k], a)
      BY <2>1 DEF Planned, a, n
    <3>2. (i + 1) - 1 = i
      BY <1>1
    <3> QED
      BY <3>1, <3>2
  <2>4. CASE data[a] = Blank /\ \A k \in 1 .. i : ~Touches(todo[k], a)
    <3>1. data'[a] = Blank
      BY <1>1, <1>2, <2>2, <2>4
    <3>2. \A k \in 1 .. i - 1 : ~Touches(todo'[k], a)
      BY <1>1, <2>1, <2>4
    <3> QED
      BY <2>1, <3>1, <3>2 DEF a
  <2>5. ASSUME NEW j \in 1 .. i, todo[j].do = "erase", Touches(todo[j], a),
               \A k \in j + 1 .. i : ~Touches(todo[k], a)
        PROVE  \/ data'[a] = Blank /\ \A k \in 1 .. i - 1 : ~Touches(todo'[k], a)
               \/ \E jj \in 1 .. i - 1 :
                      /\ todo'[jj].do = "erase" /\ Touches(todo'[jj], a)
                      /\ \A k \in jj + 1 .. i - 1 : ~Touches(todo'[k], a)
    <3>1. CASE j = 1
      <4>1. data'[a] = Blank
        BY <1>2, <2>2, <2>5, <3>1
      <4>2. \A k \in 1 .. i - 1 : ~Touches(todo'[k], a)
        BY <1>1, <2>1, <2>5, <3>1
      <4> QED
        BY <4>1, <4>2
    <3>2. CASE j # 1
      <4>1. j - 1 \in 1 .. i - 1 /\ j - 1 + 1 = j
        BY <1>1, <3>2
      <4>2. todo'[j - 1] = todo[j]
        BY <2>1, <4>1
      <4>3. \A k \in (j - 1) + 1 .. i - 1 : ~Touches(todo'[k], a)
        <5> TAKE k \in (j - 1) + 1 .. i - 1
        <5>1. k \in 1 .. i - 1 /\ k + 1 \in j + 1 .. i
          BY <1>1, <4>1
        <5> QED
          BY <2>1, <2>5, <5>1
      <4> QED
        BY <2>5, <4>1, <4>2, <4>3
    <3> QED
      BY <3>1, <3>2
  <2> QED
    BY <2>1, <2>3, <2>4, <2>5 DEF a
<1>4. ASSUME NEW a \in Pages, Untouched(a)
      PROVE  (Untouched(a))' /\ data'[a] = data[a]
  <2>1. \A i \in 1 .. n : ~Touches(todo[i], a)
    BY <1>4 DEF Untouched, n
  <2>2. \A i \in 1 .. n - 1 : ~Touches(todo'[i], a)
    BY <1>1, <2>1
  <2>3. (Untouched(a))'
    BY <1>1, <2>2 DEF Untouched, Touches
  <2>4. data'[a] = data[a]
    BY <1>1, <1>2, <2>1
  <2> QED
    BY <2>3, <2>4
<1>5. ASSUME NEW a \in Pages, NEW v, WillHold(a, v)
      PROVE  (WillHold(a, v))'
  <2>1. CASE data[a] = v /\ Untouched(a)
    BY <1>4, <2>1 DEF WillHold
  <2>2. ASSUME NEW i \in 1 .. n, todo[i].do = "program", todo[i].at = a, todo[i].page = v,
               \A k \in i + 1 .. n : ~Touches(todo[k], a)
        PROVE  (WillHold(a, v))'
    <3>1. CASE i = 1
      <4>1. data'[a] = v
        BY <1>2, <2>2, <3>1
      <4>2. \A k \in 1 .. n - 1 : ~Touches(todo'[k], a)
        BY <1>1, <2>2, <3>1
      <4>3. (Untouched(a))'
        BY <1>1, <4>2 DEF Untouched, Touches
      <4> QED
        BY <4>1, <4>3 DEF WillHold
    <3>2. CASE i # 1
      <4>1. i - 1 \in 1 .. n - 1 /\ todo'[i - 1] = todo[i]
        BY <1>1, <3>2
      <4>2. \A k \in (i - 1) + 1 .. n - 1 : ~Touches(todo'[k], a)
        <5> TAKE k \in (i - 1) + 1 .. n - 1
        <5>1. k \in 1 .. n - 1 /\ k + 1 \in i + 1 .. n
          BY <1>1, <3>2
        <5> QED
          BY <1>1, <2>2, <5>1
      <4>3. \E j \in 1 .. n - 1 :
                /\ todo'[j].do = "program" /\ todo'[j].at = a /\ todo'[j].page = v
                /\ \A k \in j + 1 .. n - 1 : ~Touches(todo'[k], a)
        BY <2>2, <4>1, <4>2
      <4> QED
        BY <1>1, <4>3 DEF WillHold, Touches
    <3> QED
      BY <3>1, <3>2
  <2> QED
    BY <1>5, <2>1, <2>2 DEF WillHold, n
<1> QED
  BY <1>3, <1>4, <1>5

(***************************************************************************)
(* An erased table is in order.                                            *)
(***************************************************************************)
LEMMA ErasedTableOK ==
    /\ ErasedTable \in Table /\ EmptyTable \in Table /\ EmptyTable.magic /\ ~ErasedTable.magic
    /\ \A e \in Entries : /\ ErasedTable.entries[e] = FreeEntry
                          /\ EmptyTable.entries[e] = FreeEntry
                          /\ FreeEntry.status = "FREE" /\ FreeEntry \in Entry
    /\ TableOK(ErasedTable) /\ TableOK(EmptyTable)
<1>1. FreeEntry \in Entry /\ FreeEntry.status = "FREE"
  BY PicoFSAssumption DEF FreeEntry, Entry, Statuses
<1>2. ErasedTable \in Table /\ ~ErasedTable.magic /\ \A e \in Entries : ErasedTable.entries[e] = FreeEntry
  BY <1>1 DEF ErasedTable, Table
<1>3. /\ EmptyTable \in Table /\ EmptyTable.magic
      /\ \A e \in Entries : EmptyTable.entries[e] = FreeEntry
  BY <1>2 DEF EmptyTable, Table
<1>4. TableOK(ErasedTable)
  BY <1>1, <1>2 DEF TableOK, Occupies
<1>5. TableOK(EmptyTable)
  BY <1>1, <1>3 DEF TableOK, Occupies
<1> QED
  BY <1>1, <1>2, <1>3, <1>4, <1>5

(***************************************************************************)
(* The table is rewritten in three operations, and never is what is left   *)
(* of it in disorder.  What programs a half of it finds that half erased.  *)
(***************************************************************************)
LEMMA TableStep ==
    ASSUME FSTypeOK, todo \in Seq(Op), Shape, TableOK(meta), TableOK(Target),
           FlashStep, Target.magic
    PROVE  /\ meta' \in Table /\ (Shape)' /\ (Target)' = Target /\ (TableOK(meta))'
           /\ todo' = <<>> => meta' = Target
           /\ todo' # <<>> /\ ~(TableAtRisk)' => meta' = meta /\ ~TableAtRisk
<1> DEFINE n == Len(todo)
<1>1. /\ todo # <<>> /\ todo' = Tail(todo) /\ n \in Nat \ {0} /\ Head(todo) = todo[1]
      /\ Len(todo') = n - 1 /\ \A i \in 1 .. n - 1 : todo'[i] = todo[i + 1]
      /\ \A i \in 1 .. n : todo[i] \in Op /\ todo' \in Seq(Op)
      /\ todo' = <<>> <=> n = 1
      /\ Apply(todo[1])
  BY Shifted DEF FlashStep
<1>2. meta \in Table
  BY DEF FSTypeOK, Table
<1>3. n # 1 => todo'[n - 1] = todo[n] /\ Head(todo') = todo[2] /\ todo' # <<>>
  <2>1. n # 1 => n - 1 \in 1 .. n - 1 /\ (n - 1) + 1 = n /\ 1 \in 1 .. n - 1
    BY <1>1
  <2>2. n # 1 => Head(todo') = todo'[1]
    BY <1>1, Shifted
  <2> QED
    BY <1>1, <2>1, <2>2
<1>4. TableAtRisk <=> todo[1].do = "program_table"
  BY <1>1 DEF TableAtRisk
<1>5. n # 1 => ((TableAtRisk)' <=> todo[2].do = "program_table")
  BY <1>3 DEF TableAtRisk
<1>6. Target = IF todo[n].do = "program_table" THEN todo[n].table ELSE meta
  BY <1>1 DEF Target
<1>7. (Target)' = IF n # 1 /\ todo[n].do = "program_table" THEN todo[n].table ELSE meta'
  BY <1>1, <1>3 DEF Target
<1> HIDE DEF n
<1>8. ASSUME OnData(todo[1])
      PROVE  meta' = meta /\ ~TableAtRisk
  BY <1>1, <1>4, <1>8 DEF OnData, Apply
<1>9. CASE \A i \in 1 .. n : OnData(todo[i])
  <2>1. OnData(todo[1]) /\ OnData(todo[n])
    BY <1>1, <1>9
  <2>2. (Shape)'
    <3>1. \A i \in 1 .. n - 1 : OnData(todo'[i])
      BY <1>1, <1>9
    <3> QED
      BY <1>1, <3>1 DEF Shape, OnData
  <2>3. meta' = meta /\ Target = meta /\ (Target)' = meta
    BY <1>6, <1>7, <1>8, <2>1 DEF OnData
  <2> QED
    BY <1>2, <1>8, <2>1, <2>2, <2>3
<1>10. CASE /\ n >= 3 /\ \A i \in 1 .. n - 3 : OnData(todo[i])
            /\ todo[n - 2].do = "erase_table"
            /\ ProgramsHalf(todo[n - 1], 1) /\ ProgramsHalf(todo[n], 2)
            /\ todo[n - 1].table = todo[n].table
  <2>1. todo[n].do = "program_table" /\ n # 1 /\ (Target)' = Target
    BY <1>6, <1>7, <1>10 DEF ProgramsHalf
  <2>2. CASE n > 3
    <3>1. OnData(todo[1])
      BY <1>1, <1>10, <2>2
    <3>2. /\ n - 1 >= 3 /\ (n - 1) - 2 \in 1 .. n - 1 /\ (n - 1) - 1 \in 1 .. n - 1
          /\ ((n - 1) - 2) + 1 = n - 2 /\ ((n - 1) - 1) + 1 = n - 1
      BY <1>1, <2>2
    <3>3. todo'[(n - 1) - 2] = todo[n - 2] /\ todo'[(n - 1) - 1] = todo[n - 1] /\ todo'[n - 1] = todo[n]
      BY <1>1, <1>3, <2>1, <3>2
    <3>4. \A i \in 1 .. (n - 1) - 3 : OnData(todo'[i])
      <4> TAKE i \in 1 .. (n - 1) - 3
      <4>1. i \in 1 .. n - 1 /\ i + 1 \in 1 .. n - 3
        BY <1>1, <2>2
      <4> QED
        BY <1>1, <1>10, <4>1
    <3>5. (Shape)'
      BY <1>1, <1>10, <3>2, <3>3, <3>4 DEF Shape, OnData, ProgramsHalf
    <3> QED
      BY <1>1, <1>2, <1>8, <2>1, <3>1, <3>5
  <2>3. CASE n = 3
    <3>1. todo[1].do = "erase_table" /\ ProgramsHalf(todo[2], 1) /\ ProgramsHalf(todo[3], 2)
          /\ todo[2].table = todo[3].table
      BY <1>10, <2>3
    <3>2. meta' = ErasedTable
      BY <1>1, <3>1 DEF Apply
    <3>3. todo'[1] = todo[2] /\ todo'[2] = todo[3] /\ Len(todo') = 2
      BY <1>1, <2>3
    <3>4. (Shape)'
      BY <3>1, <3>2, <3>3 DEF Shape, ProgramsHalf
    <3>5. (TableAtRisk)'
      BY <1>5, <2>1, <3>1 DEF ProgramsHalf
    <3>6. todo' # <<>>
      BY <1>1, <2>1
    <3>7. (TableOK(meta))' /\ meta' \in Table
      BY <3>2, ErasedTableOK DEF TableOK, Occupies
    <3> QED
      BY <2>1, <3>4, <3>5, <3>6, <3>7
  <2> QED
    BY <1>1, <1>10, <2>2, <2>3
<1>11. CASE /\ n = 2 /\ meta = ErasedTable
            /\ ProgramsHalf(todo[1], 1) /\ ProgramsHalf(todo[2], 2)
            /\ todo[1].table = todo[2].table
  <2> DEFINE t == todo[2].table
  <2>1. /\ todo[1].do = "program_table" /\ todo[1].half = 1 /\ todo[1].table = t
        /\ todo[2].do = "program_table" /\ todo[2].half = 2 /\ t \in Table
        /\ Target = t /\ (Target)' = t
    BY <1>1, <1>6, <1>7, <1>11, OpFields DEF ProgramsHalf
  <2>2. meta' = [magic |-> meta.magic \/ todo[1].half = 1,
                 entries |-> [e \in Entries |-> IF Half(e) = todo[1].half THEN todo[1].table.entries[e]
                                                ELSE meta.entries[e]]]
    BY <1>1, <2>1 DEF Apply
  <2> HIDE DEF t
  <2>3. /\ meta' \in Table /\ meta'.magic
        /\ \A e \in Entries : meta'.entries[e] = IF Half(e) = 1 THEN t.entries[e] ELSE FreeEntry
    BY <1>2, <1>11, <2>1, <2>2, ErasedTableOK DEF Table
  <2>4. (TableOK(meta))'
    <3>0. TableOK(t)
      BY <2>1
    <3>1. \A e \in Entries : /\ meta'.entries[e].status # "FREE" => meta'.entries[e] = t.entries[e]
                             /\ Half(e) = 1 => meta'.entries[e] = t.entries[e]
      BY <2>3, ErasedTableOK
    <3>2. ASSUME NEW e \in Entries, NEW o \in 1 .. e - 1, meta'.entries[e].status # "FREE"
          PROVE  meta'.entries[o].status # "FREE"
      <4>1. o \in Entries /\ (Half(e) = 1 => Half(o) = 1)
        BY PicoFSAssumption DEF Entries, Half
      <4>2. Half(e) = 1
        BY <2>3, <3>2, ErasedTableOK
      <4> QED
        BY <3>0, <3>1, <3>2, <4>1, <4>2 DEF TableOK
    <3> QED
      BY <2>3, <3>0, <3>1, <3>2 DEF TableOK, Occupies
  <2>5. (Shape)'
    <3>1. Len(todo') = 1 /\ todo'[1] = todo[2]
      BY <1>1, <1>11
    <3> QED
      BY <2>1, <2>3, <3>1 DEF Shape, ProgramsHalf, t
  <2>6. (TableAtRisk)' /\ todo' # <<>>
    BY <1>1, <1>3, <1>11, <2>1 DEF TableAtRisk
  <2> QED
    BY <2>1, <2>3, <2>4, <2>5, <2>6
<1>12. CASE /\ n = 1 /\ meta.magic /\ ProgramsHalf(todo[1], 2)
            /\ \A e \in Entries :
                   meta.entries[e] = IF Half(e) = 1 THEN todo[1].table.entries[e] ELSE FreeEntry
  <2> DEFINE t == todo[1].table
  <2>1. /\ todo[1].do = "program_table" /\ todo[1].half = 2 /\ t \in Table
        /\ Target = t /\ (Target)' = meta' /\ todo' = <<>>
    BY <1>1, <1>6, <1>7, <1>12, OpFields DEF ProgramsHalf
  <2>2. meta' = [magic |-> meta.magic \/ todo[1].half = 1,
                 entries |-> [e \in Entries |-> IF Half(e) = todo[1].half THEN todo[1].table.entries[e]
                                                ELSE meta.entries[e]]]
    BY <1>1, <2>1 DEF Apply
  <2>3. \A e \in Entries : (IF Half(e) = 2 THEN t.entries[e] ELSE meta.entries[e]) = t.entries[e]
    BY <1>12 DEF Half
  <2> HIDE DEF t
  <2>4. t.magic = TRUE
    BY <2>1 DEF Table
  <2>5. meta' = t
    <3>1. meta' = [magic |-> TRUE, entries |-> [e \in Entries |-> t.entries[e]]]
      BY <1>12, <2>1, <2>2, <2>3 DEF t
    <3>2. t = [magic |-> t.magic, entries |-> t.entries] /\ t.entries = [e \in Entries |-> t.entries[e]]
      BY <2>1 DEF Table
    <3> QED
      BY <2>4, <3>1, <3>2
  <2>6. (Shape)'
    BY <1>1, <1>12 DEF Shape
  <2>7. (TableOK(meta))'
    BY <2>1, <2>5 DEF TableOK, Occupies
  <2> QED
    BY <2>1, <2>5, <2>6, <2>7
<1> QED
  BY <1>9, <1>10, <1>11, <1>12 DEF Shape, n

(***************************************************************************)
(* A page of an occupied entry is a page of the region.                    *)
(***************************************************************************)
LEMMA HomeIsPage ==
    ASSUME NEW t \in Table, TableOK(t), NEW e \in Entries, t.entries[e].status # "FREE",
           NEW i \in 1 .. MaxPages
    PROVE  Home(t, e, i) \in Pages
<1> DEFINE s == t.entries[e].offset  R == Reserved(MaxPages)
<1>1. MaxPages \in Nat /\ MaxFiles \in Nat /\ FlashSectors \in Nat
  BY PicoFSAssumption
<1>2. s \in 1 .. 1 + (e - 1) * R /\ R \in Nat
  BY <1>1, SectorsForSize DEF TableOK
<1>3. (i - 1) \div SectorPages \in 0 .. SectorsFor(MaxPages) - 1 /\ SectorsFor(MaxPages) <= R
      /\ SectorsFor(MaxPages) \in Nat
  BY <1>1, SectorsForSize
<1> HIDE DEF R
<1>4. e \in Nat /\ e - 1 \in Nat /\ e <= MaxFiles
  BY <1>1 DEF Entries
<1>5. e * R <= MaxFiles * R /\ e * R \in Nat /\ MaxFiles * R \in Nat
  BY <1>1, <1>2, <1>4, Times
<1>6. (e - 1) * R + R = e * R /\ (e - 1) * R \in Nat
  BY <1>2, <1>4
<1>7. s + SectorsFor(MaxPages) <= FlashSectors
  BY <1>1, <1>2, <1>3, <1>5, <1>6, FlashBound DEF R
<1> QED
  BY <1>1, <1>2, <1>3, <1>7, PageAt DEF Home

(***************************************************************************)
(* What the table is, or will be, is a table.                              *)
(***************************************************************************)
LEMMA TargetIsTable ==
    ASSUME FSTypeOK, todo \in Seq(Op)
    PROVE  meta \in Table /\ Target \in Table
<1>1. meta \in Table
  BY DEF FSTypeOK, Table
<1>2. ASSUME todo # <<>>, todo[Len(todo)].do = "program_table"
      PROVE  todo[Len(todo)].table \in Table
  <2>1. Len(todo) \in 1 .. Len(todo) /\ todo[Len(todo)] \in Op
    BY <1>2, Shifted
  <2> QED
    BY <1>2, <2>1, OpFields
<1> QED
  BY <1>1, <1>2 DEF Target

(***************************************************************************)
(* The next flash operation of a call.                                     *)
(***************************************************************************)
LEMMA FlashStepKeeps ==
    ASSUME FSInv, FlashStep
    PROVE  (FSInv)'
<1>1. /\ FSTypeOK /\ todo \in Seq(Op) /\ Shape /\ Planned /\ TableOK(meta) /\ TableOK(Target)
      /\ todo # <<>> /\ up /\ Target.magic /\ Matches(Target, after) /\ Stored
      /\ ~TableAtRisk => Matches(meta, wanted) /\ Resting
  BY DEF FSInv, FlashStep, FSTypeOK
<1>2. /\ todo' = Tail(todo) /\ wanted' = (IF Tail(todo) = <<>> THEN after ELSE wanted)
      /\ UNCHANGED <<up, after, spoiled, calls, failures>>
  BY DEF FlashStep
<1>3. /\ (Planned)'
      /\ \A a \in Pages : Untouched(a) => (Untouched(a))' /\ data'[a] = data[a]
      /\ \A a \in Pages : \A v : WillHold(a, v) => (WillHold(a, v))'
  BY <1>1, PlanStep
<1>4. /\ meta' \in Table /\ (Shape)' /\ (Target)' = Target /\ (TableOK(meta))'
      /\ todo' = <<>> => meta' = Target
      /\ todo' # <<>> /\ ~(TableAtRisk)' => meta' = meta /\ ~TableAtRisk
  BY <1>1, TableStep
<1>5. data' \in [Pages -> Data \cup {Blank, Mixed}]
  BY <1>1, Effect
<1>6. todo' \in Seq(Op)
  BY <1>1, <1>2, Shifted
<1>7. meta \in Table /\ Target \in Table
  BY <1>1, TargetIsTable
<1>8. (FSTypeOK)'
  <2>1. wanted' \in [Names -> Contents] /\ after' \in [Names -> Contents]
    BY <1>1, <1>2 DEF FSTypeOK
  <2>2. meta' \in [magic : BOOLEAN, entries : [Entries -> Entry]]
    BY <1>4 DEF Table
  <2> QED
    BY <1>1, <1>2, <1>5, <2>1, <2>2 DEF FSTypeOK, Pages, Entries
<1>9. (TableOK(Target))'
  BY <1>1, <1>4 DEF TableOK, Occupies
<1>10. (Matches(Target, after))'
  BY <1>1, <1>2, <1>4 DEF Matches, Occupies, Intact, SectorsOf
<1>11. (Stored)'
  <2> SUFFICES ASSUME NEW e \in Entries, (Intact(Target, after, e))',
                      NEW i \in 1 .. Target.entries[e].size
               PROVE  (WillHold(Home(Target, e, i), after[Target.entries[e].name][i]))'
    BY <1>4 DEF Stored
  <2>1. Intact(Target, after, e)
    BY <1>2, <1>4 DEF Intact, Occupies
  <2>2. WillHold(Home(Target, e, i), after[Target.entries[e].name][i])
    BY <1>1, <2>1 DEF Stored
  <2>3. Home(Target, e, i) \in Pages
    <3>1. Target.entries[e].size \in 0 .. MaxPages /\ Target.entries[e].status # "FREE"
      BY <1>7, <2>1 DEF Intact, Occupies, Table, Entry
    <3>2. i \in 1 .. MaxPages
      BY <3>1, PicoFSAssumption
    <3> QED
      BY <1>1, <1>7, <3>1, <3>2, HomeIsPage
  <2>4. (Home(Target, e, i))' = Home(Target, e, i)
        /\ (after[Target.entries[e].name][i])' = after[Target.entries[e].name][i]
    BY <1>2, <1>4 DEF Home
  <2>5. PICK a \in Pages : a = Home(Target, e, i)
    BY <2>3
  <2>6. PICK v : v = after[Target.entries[e].name][i]
    OBVIOUS
  <2>7. (WillHold(a, v))'
    BY <1>3, <2>2, <2>5, <2>6
  <2>8. a = (Home(Target, e, i))' /\ v = (after[Target.entries[e].name][i])'
    BY <2>4, <2>5, <2>6
  <2> HIDE <2>4, <2>5, <2>6
  <2> QED
    BY <2>7, <2>8 DEF WillHold, Untouched
<1>12. ASSUME todo' # <<>>, ~(TableAtRisk)'
       PROVE  (Matches(meta, wanted))' /\ (Resting)'
  <2>1. meta' = meta /\ wanted' = wanted /\ Matches(meta, wanted) /\ Resting
    BY <1>1, <1>2, <1>4, <1>12
  <2>2. (Matches(meta, wanted))'
    BY <1>2, <2>1 DEF Matches, Occupies, Intact, SectorsOf
  <2>3. ASSUME NEW e \in Entries, (Intact(meta, wanted, e))', NEW i \in 1 .. meta.entries[e].size
        PROVE  (data[Home(meta, e, i)] = wanted[meta.entries[e].name][i] /\ Untouched(Home(meta, e, i)))'
    <3>1. Intact(meta, wanted, e)
      BY <1>2, <2>1, <2>3 DEF Intact, Occupies
    <3>2. data[Home(meta, e, i)] = wanted[meta.entries[e].name][i] /\ Untouched(Home(meta, e, i))
      BY <2>1, <3>1 DEF Resting
    <3>3. Home(meta, e, i) \in Pages
      <4>1. meta.entries[e].size \in 0 .. MaxPages /\ meta.entries[e].status # "FREE"
        BY <1>7, <3>1 DEF Intact, Occupies, Table, Entry
      <4>2. i \in 1 .. MaxPages
        BY <4>1, PicoFSAssumption
      <4> QED
        BY <1>1, <1>7, <4>1, <4>2, HomeIsPage
    <3>4. (Home(meta, e, i))' = Home(meta, e, i)
      BY <2>1 DEF Home
    <3> QED
      BY <1>3, <2>1, <3>2, <3>3, <3>4 DEF Untouched
  <2>4. (Resting)'
    BY <2>1, <2>3 DEF Resting
  <2> QED
    BY <2>2, <2>4
<1>13. (~up => todo = <<>>)' /\ (up => Target.magic)' /\ (todo = <<>> => after = wanted)'
  BY <1>1, <1>2, <1>4
<1> QED
  BY <1>3, <1>4, <1>6, <1>8, <1>9, <1>10, <1>11, <1>12, <1>13 DEF FSInv

-----------------------------------------------------------------------------
(* Power                                                                   *)

(***************************************************************************)
(* Between calls the files are what callers expect.                        *)
(***************************************************************************)
LEMMA AtRest ==
    ASSUME FSInv, todo = <<>>
    PROVE  /\ Target = meta /\ after = wanted /\ Matches(meta, wanted)
           /\ \A e \in Entries : Intact(meta, wanted, e) =>
                  \A i \in 1 .. meta.entries[e].size :
                      data[Home(meta, e, i)] = wanted[meta.entries[e].name][i]
<1>1. Target = meta /\ after = wanted /\ Matches(meta, wanted) /\ Stored
  BY DEF FSInv, Target
<1>2. \A a, v : WillHold(a, v) => data[a] = v
  <2>1. Len(todo) = 0
    BY EmptySeq
  <2>2. 1 .. Len(todo) = {}
    BY <2>1
  <2> QED
    BY <2>2 DEF WillHold
<1> QED
  BY <1>1, <1>2 DEF Stored

(***************************************************************************)
(* The same when nothing is left to do: what is expected will be held.     *)
(***************************************************************************)
LEMMA Rests ==
    ASSUME todo' = <<>>, FSTypeOK, todo \in Seq(Op), UNCHANGED <<meta, data>>,
           TableOK(meta), (up)' => meta.magic, wanted' \in [Names -> Contents], after' = wanted',
           up' \in BOOLEAN, spoiled' \subseteq Names, calls' \in 0 .. MaxCalls,
           failures' \in 0 .. MaxFailures, (Matches(meta, wanted))',
           \A e \in Entries : (Intact(meta, wanted, e))' =>
               \A i \in 1 .. meta.entries[e].size :
                   data[Home(meta, e, i)] = wanted'[meta.entries[e].name][i]
    PROVE  (FSInv)'
<1>1. Len(todo') = 0 /\ todo' \in Seq(Op) /\ 1 .. Len(todo') = {}
  BY EmptySeq
<1>2. (Target)' = meta
  BY DEF Target
<1>3. (FSTypeOK)'
  BY DEF FSTypeOK, Pages, Entries
<1>4. (Shape)' /\ (Planned)'
  BY <1>1 DEF Shape, Planned
<1>5. (TableOK(meta))' /\ (TableOK(Target))'
  BY <1>2 DEF TableOK, Occupies
<1>6. (Matches(Target, after))'
  BY <1>2 DEF Matches, Occupies, Intact, SectorsOf
<1>7. (Stored)'
  <2> SUFFICES ASSUME NEW e \in Entries, (Intact(Target, after, e))',
                      NEW i \in 1 .. meta.entries[e].size
               PROVE  (WillHold(Home(Target, e, i), after[Target.entries[e].name][i]))'
    BY <1>2 DEF Stored
  <2>1. (Intact(meta, wanted, e))'
    BY <1>2 DEF Intact, Occupies
  <2>2. data[Home(meta, e, i)] = wanted'[meta.entries[e].name][i]
    BY <2>1
  <2>3. (data[Home(Target, e, i)] = after[Target.entries[e].name][i])'
    BY <1>2, <2>2 DEF Home
  <2>4. (Untouched(Home(Target, e, i)))'
    BY <1>1 DEF Untouched
  <2> QED
    BY <2>3, <2>4 DEF WillHold
<1>8. (up => Target.magic)' /\ (~up => todo = <<>>)' /\ (todo = <<>> => after = wanted)'
  BY <1>2
<1>9. (todo # <<>> /\ ~TableAtRisk => Matches(meta, wanted) /\ Resting)'
  OBVIOUS
<1> QED
  BY <1>1, <1>3, <1>4, <1>5, <1>6, <1>7, <1>8, <1>9 DEF FSInv

(***************************************************************************)
(* Power fails.                                                            *)
(***************************************************************************)
LEMMA PowerFailsKeeps ==
    ASSUME FSInv, PowerFails
    PROVE  (FSInv)'
<1>1. /\ FSTypeOK /\ todo \in Seq(Op) /\ TableOK(meta)
      /\ todo # <<>> /\ ~TableAtRisk => Matches(meta, wanted) /\ Resting
  BY DEF FSInv
<1>2. /\ failures < MaxFailures /\ failures' = failures + 1
      /\ up' = FALSE /\ todo' = <<>> /\ after' = wanted' /\ UNCHANGED <<meta, data, spoiled, calls>>
      /\ wanted' = IF TableAtRisk THEN [f \in Names |-> Unknown] ELSE wanted
  BY DEF PowerFails
<1>3. failures' \in 0 .. MaxFailures /\ calls' \in 0 .. MaxCalls /\ spoiled' \subseteq Names
  BY <1>1, <1>2, PicoFSAssumption DEF FSTypeOK
<1>4. wanted' \in [Names -> Contents]
  BY <1>1, <1>2 DEF FSTypeOK, Contents
<1>5. CASE TableAtRisk
  <2>1. \A f \in Names : wanted'[f] = Unknown
    BY <1>2, <1>5
  <2>2. \A e \in Entries : Occupies(meta, e) => meta.entries[e].name \in Names
    BY <1>1 DEF TableOK
  <2>3. \A e \in Entries : ~(Intact(meta, wanted, e))'
    BY <1>2, <2>1, <2>2 DEF Intact, Occupies
  <2>4. (Matches(meta, wanted))'
    BY <1>2, <2>1, <2>2, <2>3 DEF Matches, Occupies
  <2> QED
    BY <1>1, <1>2, <1>3, <1>4, <2>3, <2>4, Rests
<1>6. CASE ~TableAtRisk
  <2>1. wanted' = wanted /\ meta' = meta /\ spoiled' = spoiled
    BY <1>2, <1>6
  <2>2. /\ Matches(meta, wanted)
        /\ \A e \in Entries : Intact(meta, wanted, e) =>
               \A i \in 1 .. meta.entries[e].size :
                   data[Home(meta, e, i)] = wanted[meta.entries[e].name][i]
    BY <1>1, <1>6, AtRest DEF Resting
  <2>3. \A e \in Entries : (Intact(meta, wanted, e))' <=> Intact(meta, wanted, e)
    BY <2>1 DEF Intact, Occupies
  <2>4. (Matches(meta, wanted))'
    BY <2>1, <2>2 DEF Matches, Occupies, Intact, SectorsOf
  <2> QED
    BY <1>1, <1>2, <1>3, <1>4, <2>1, <2>2, <2>3, <2>4, Rests
<1> QED
  BY <1>5, <1>6

-----------------------------------------------------------------------------
(* The plans of the calls                                                  *)

\* m sectors from s on hold this content
Fits(content, s, m) ==
    /\ s \in Nat \ {0} /\ m \in Nat /\ s + m <= FlashSectors
    /\ content \in Seq(Data \cup {Blank, Mixed})
    /\ \A p \in 1 .. Len(content) : (p - 1) \div SectorPages \in 0 .. m - 1

Stores(plan, content, s, m) ==
    /\ plan \in Seq(Op) /\ Len(plan) = m + Len(content) /\ Len(content) \in Nat
    /\ \A i \in 1 .. m : plan[i].do = "erase" /\ plan[i].at = s + i - 1
    /\ \A p \in 1 .. Len(content) :
           /\ plan[m + p].do = "program" /\ plan[m + p].at = s * SectorPages + p - 1
           /\ plan[m + p].page = content[p]

(***************************************************************************)
(* Erasing m sectors from s on and programming pages in them.              *)
(***************************************************************************)
LEMMA DataPlan ==
    ASSUME NEW s, NEW m, NEW content, Fits(content, s, m),
           NEW plan, plan = EraseSectors(s, m) \o ProgramPages(s, content)
    PROVE  Stores(plan, content, s, m)
<1>0. /\ s \in Nat \ {0} /\ m \in Nat /\ s + m <= FlashSectors
      /\ content \in Seq(Data \cup {Blank, Mixed})
      /\ \A p \in 1 .. Len(content) : (p - 1) \div SectorPages \in 0 .. m - 1
  BY DEF Fits
<1> DEFINE n == Len(content)  E == EraseSectors(s, m)  P == ProgramPages(s, content)
<1>1. n \in Nat /\ FlashSectors \in Nat /\ \A p \in 1 .. n : content[p] \in Data \cup {Blank, Mixed}
  BY <1>0, LenProperties, ElementOfSeq, PicoFSAssumption
<1>2. E = [i \in 1 .. m |-> [do |-> "erase", at |-> s + i - 1]]
      /\ P = [i \in 1 .. n |-> [do |-> "program", at |-> s * SectorPages + i - 1, page |-> content[i]]]
  BY DEF EraseSectors, ProgramPages
<1>3. \A i \in 1 .. m : [do |-> "erase", at |-> s + i - 1] \in Op
  <2> TAKE i \in 1 .. m
  <2>1. s + i - 1 \in 1 .. FlashSectors - 1
    BY <1>0, <1>1
  <2> QED
    BY <2>1 DEF Op
<1>4. \A p \in 1 .. n : [do |-> "program", at |-> s * SectorPages + p - 1, page |-> content[p]] \in Op
  <2> TAKE p \in 1 .. n
  <2>1. (p - 1) \div SectorPages \in 0 .. m - 1 /\ p \in Nat \ {0}
    BY <1>0, <1>1
  <2>2. s * SectorPages + p - 1 \in Pages
    BY <1>0, <2>1, PageAt
  <2> QED
    BY <1>1, <2>2 DEF Op
<1> HIDE DEF n, E, P
<1>5. E \in Seq(Op) /\ Len(E) = m
  <2>1. E \in [1 .. m -> Op]
    BY <1>2, <1>3
  <2> QED
    BY <1>0, <2>1
<1>6. P \in Seq(Op) /\ Len(P) = n
  BY <1>1, <1>2, <1>4
<1>7. /\ plan \in Seq(Op) /\ Len(plan) = m + n
      /\ \A i \in 1 .. m + n : plan[i] = IF i <= m THEN E[i] ELSE P[i - m]
  <2>1. /\ E \o P \in Seq(Op) /\ Len(E \o P) = m + n
        /\ \A i \in 1 .. m + n : (E \o P)[i] = IF i <= m THEN E[i] ELSE P[i - m]
    BY <1>0, <1>5, <1>6, ConcatProperties
  <2>2. plan = E \o P
    BY DEF E, P
  <2> QED
    BY <2>1, <2>2
<1>8. \A i \in 1 .. m : plan[i].do = "erase" /\ plan[i].at = s + i - 1
  <2> TAKE i \in 1 .. m
  <2>1. i \in 1 .. m + n /\ i <= m
    BY <1>0, <1>1
  <2>2. plan[i] = E[i]
    BY <1>7, <2>1
  <2> QED
    BY <1>2, <2>2
<1>9. \A p \in 1 .. n : /\ plan[m + p].do = "program" /\ plan[m + p].at = s * SectorPages + p - 1
                        /\ plan[m + p].page = content[p]
  <2> TAKE p \in 1 .. n
  <2>1. m + p \in 1 .. m + n /\ ~(m + p <= m) /\ (m + p) - m = p
    BY <1>0, <1>1
  <2>2. plan[m + p] = P[p]
    BY <1>7, <2>1
  <2> QED
    BY <1>2, <2>2
<1> QED
  BY <1>1, <1>7, <1>8, <1>9 DEF n, Stores

(***************************************************************************)
(* Rewriting the table.                                                    *)
(***************************************************************************)
LEMMA TablePlan ==
    ASSUME NEW t \in Table, NEW w, w = WriteTable(t)
    PROVE  /\ w \in Seq(Op) /\ Len(w) = 3
           /\ w[1].do = "erase_table" /\ ProgramsHalf(w[2], 1) /\ ProgramsHalf(w[3], 2)
           /\ w[2].table = t /\ w[3].table = t
<1> DEFINE a == [do |-> "erase_table"]
           b == [do |-> "program_table", half |-> 1, table |-> t]
           c == [do |-> "program_table", half |-> 2, table |-> t]
<1>1. a \in Op /\ b \in Op /\ c \in Op
  BY DEF Op
<1>2. a.do = "erase_table" /\ ProgramsHalf(b, 1) /\ ProgramsHalf(c, 2) /\ b.table = t /\ c.table = t
  BY DEF ProgramsHalf
<1>3. w = <<a, b, c>>
  BY DEF WriteTable
<1> HIDE DEF a, b, c
<1>4. w \in Seq(Op) /\ Len(w) = 3 /\ w[1] = a /\ w[2] = b /\ w[3] = c
  BY <1>1, <1>3
<1> QED
  BY <1>2, <1>4

(***************************************************************************)
(* A call that only rewrites the table.                                    *)
(***************************************************************************)
LEMMA TableCall ==
    ASSUME NEW t \in Table, todo' = WriteTable(t)
    PROVE  /\ todo' \in Seq(Op) /\ todo' # <<>> /\ (Shape)' /\ (Planned)' /\ (Target)' = t
           /\ ~(TableAtRisk)' /\ \A a : (Untouched(a))'
<1>1. /\ todo' \in Seq(Op) /\ Len(todo') = 3
      /\ todo'[1].do = "erase_table" /\ ProgramsHalf(todo'[2], 1) /\ ProgramsHalf(todo'[3], 2)
      /\ todo'[2].table = t /\ todo'[3].table = t
  BY TablePlan
<1>2. todo' # <<>> /\ Head(todo') = todo'[1]
  BY <1>1, EmptySeq, Shifted
<1>3. todo'[2].do = "program_table" /\ todo'[3].do = "program_table"
  BY <1>1 DEF ProgramsHalf
<1>4. (Shape)'
  BY <1>1 DEF Shape, ProgramsHalf, OnData
<1>5. \A i \in 1 .. Len(todo') : todo'[i].do \in {"erase_table", "program_table"}
  BY <1>1, <1>3
<1>6. (Planned)' /\ \A a : (Untouched(a))'
  BY <1>5 DEF Planned, Untouched, Touches
<1>7. (Target)' = t /\ ~(TableAtRisk)'
  BY <1>1, <1>2, <1>3 DEF Target, TableAtRisk
<1> QED
  BY <1>1, <1>2, <1>4, <1>6, <1>7

(***************************************************************************)
(* A call that writes pages, and the table if it changes.                  *)
(***************************************************************************)
LEMMA DataCall ==
    ASSUME NEW s, NEW m, m # 0, NEW content, Fits(content, s, m),
           NEW plan, plan = EraseSectors(s, m) \o ProgramPages(s, content),
           NEW t \in Table, NEW tail, (tail = <<>> /\ t = meta') \/ tail = WriteTable(t),
           todo' = plan \o tail
    PROVE  /\ todo' \in Seq(Op) /\ todo' # <<>> /\ (Shape)' /\ (Planned)' /\ (Target)' = t
           /\ ~(TableAtRisk)'
           /\ \A a \in Pages : a \div SectorPages \notin s .. s + m - 1 => (Untouched(a))'
           /\ \A p \in 1 .. Len(content) : (WillHold(s * SectorPages + p - 1, content[p]))'
<1>0. /\ s \in Nat \ {0} /\ m \in Nat \ {0} /\ s + m <= FlashSectors
      /\ content \in Seq(Data \cup {Blank, Mixed})
      /\ \A p \in 1 .. Len(content) : (p - 1) \div SectorPages \in 0 .. m - 1
  BY DEF Fits
<1> DEFINE n == Len(content)  l == Len(tail)
<1>1. /\ plan \in Seq(Op) /\ Len(plan) = m + n /\ n \in Nat
      /\ \A i \in 1 .. m : plan[i].do = "erase" /\ plan[i].at = s + i - 1
      /\ \A p \in 1 .. n : /\ plan[m + p].do = "program" /\ plan[m + p].at = s * SectorPages + p - 1
                           /\ plan[m + p].page = content[p]
  <2>1. Stores(plan, content, s, m)
    BY DataPlan
  <2> QED
    BY <2>1 DEF Stores
<1>2. /\ tail \in Seq(Op) /\ l \in {0, 3} /\ (l = 0 => t = meta')
      /\ l = 3 => /\ tail[1].do = "erase_table" /\ ProgramsHalf(tail[2], 1) /\ ProgramsHalf(tail[3], 2)
                  /\ tail[2].table = t /\ tail[3].table = t
  <2>1. CASE tail = <<>> /\ t = meta'
    BY <2>1, EmptySeq
  <2>2. CASE tail = WriteTable(t)
    BY <2>2, TablePlan
  <2> QED
    BY <2>1, <2>2
<1>3. plan \in Seq(Op) /\ tail \in Seq(Op) /\ todo' = plan \o tail
  BY <1>0, <1>1, <1>2
<1> HIDE DEF n
<1>4. /\ todo' \in Seq(Op) /\ Len(todo') = m + n + l
      /\ \A i \in 1 .. m + n + l : todo'[i] = IF i <= m + n THEN plan[i] ELSE tail[i - (m + n)]
  <2>1. /\ plan \o tail \in Seq(Op) /\ Len(plan \o tail) = Len(plan) + l
        /\ \A i \in 1 .. Len(plan) + l :
               (plan \o tail)[i] = IF i <= Len(plan) THEN plan[i] ELSE tail[i - Len(plan)]
    BY <1>3, ConcatProperties
  <2> QED
    BY <1>0, <1>1, <1>3, <2>1
<1> HIDE DEF l
<1>5. \A k \in 1 .. m : todo'[k].do = "erase" /\ todo'[k].at = s + k - 1
  <2> TAKE k \in 1 .. m
  <2>1. k \in 1 .. m + n + l /\ k <= m + n
    BY <1>0, <1>1, <1>2
  <2> QED
    BY <1>0, <1>1, <1>4, <2>1
<1>6. \A p \in 1 .. n : /\ todo'[m + p].do = "program" /\ todo'[m + p].at = s * SectorPages + p - 1
                        /\ todo'[m + p].page = content[p]
  <2> TAKE p \in 1 .. n
  <2>1. m + p \in 1 .. m + n + l /\ m + p <= m + n
    BY <1>0, <1>1, <1>2
  <2> QED
    BY <1>0, <1>1, <1>4, <2>1
<1>7. l = 3 => /\ todo'[m + n + 1].do = "erase_table"
               /\ ProgramsHalf(todo'[m + n + 2], 1) /\ ProgramsHalf(todo'[m + n + 3], 2)
               /\ todo'[m + n + 2].table = t /\ todo'[m + n + 3].table = t
  <2>1. ASSUME l = 3, NEW j \in 1 .. 3 PROVE todo'[m + n + j] = tail[j]
    <3>1. m + n + j \in 1 .. m + n + l /\ ~(m + n + j <= m + n) /\ (m + n + j) - (m + n) = j
      BY <1>0, <1>1, <2>1
    <3> QED
      BY <1>4, <3>1
  <2>2. 1 \in 1 .. 3 /\ 2 \in 1 .. 3 /\ 3 \in 1 .. 3
    OBVIOUS
  <2>3. l = 3 => /\ todo'[m + n + 1] = tail[1] /\ todo'[m + n + 2] = tail[2]
                 /\ todo'[m + n + 3] = tail[3]
    BY <2>1, <2>2, Zenon
  <2> QED
    BY <1>2, <2>3, Zenon
<1>8. \A k \in 1 .. m + n + l : \/ k \in 1 .. m
                                \/ \E p \in 1 .. n : k = m + p
                                \/ l = 3 /\ k \in {m + n + 1, m + n + 2, m + n + 3}
  <2> TAKE k \in 1 .. m + n + l
  <2>1. CASE k > m /\ k <= m + n
    <3>1. k - m \in 1 .. n /\ k = m + (k - m)
      BY <1>0, <1>1, <1>2, <2>1
    <3> QED
      BY <3>1
  <2>2. CASE k > m + n
    BY <1>0, <1>1, <1>2, <2>2
  <2> QED
    BY <1>0, <1>1, <1>2, <2>1, <2>2
<1>9. \A k \in 1 .. m + n + l : \A a : Touches(todo'[k], a) =>
          \/ k \in 1 .. m /\ a \div SectorPages = s + k - 1
          \/ \E p \in 1 .. n : k = m + p /\ a = s * SectorPages + p - 1
  <2> SUFFICES ASSUME NEW k \in 1 .. m + n + l, NEW a, Touches(todo'[k], a)
               PROVE  \/ k \in 1 .. m /\ a \div SectorPages = s + k - 1
                      \/ \E p \in 1 .. n : k = m + p /\ a = s * SectorPages + p - 1
    OBVIOUS
  <2>1. CASE k \in 1 .. m
    BY <1>5, <2>1 DEF Touches
  <2>2. CASE \E p \in 1 .. n : k = m + p
    <3>1. PICK p \in 1 .. n : k = m + p
      BY <2>2
    <3>2. todo'[k].do = "program" /\ todo'[k].at = s * SectorPages + p - 1
      BY <1>6, <3>1
    <3>3. a = s * SectorPages + p - 1
      BY <3>2 DEF Touches
    <3> QED
      BY <3>1, <3>3
  <2>3. CASE l = 3 /\ k \in {m + n + 1, m + n + 2, m + n + 3}
    BY <1>7, <2>3 DEF Touches, ProgramsHalf
  <2> QED
    BY <1>8, <2>1, <2>2, <2>3
<1>10. \A p \in 1 .. n : /\ (p - 1) \div SectorPages \in 0 .. m - 1
                         /\ (s * SectorPages + p - 1) \div SectorPages = s + (p - 1) \div SectorPages
  <2> TAKE p \in 1 .. n
  <2>1. p \in Nat \ {0}
    BY <1>0, <1>1
  <2> QED
    BY <1>0, <2>1, PageAt DEF n
<1>11. \A p, q \in 1 .. n : s * SectorPages + p - 1 = s * SectorPages + q - 1 => p = q
  <2>1. s * SectorPages \in Nat
    BY <1>0, PicoFSAssumption
  <2> QED
    BY <1>0, <1>1, <2>1
<1>12. (Shape)'
  <2> DEFINE N == m + n + l
  <2>1. \A k \in 1 .. m + n : OnData(todo'[k])
    <3> TAKE k \in 1 .. m + n
    <3>1. CASE k \in 1 .. m
      BY <1>5, <3>1 DEF OnData
    <3>2. CASE k \notin 1 .. m
      <4>1. PICK p \in 1 .. n : k = m + p
        <5>1. k - m \in 1 .. n /\ k = m + (k - m)
          BY <1>0, <1>1, <3>2
        <5> QED
          BY <5>1
      <4>2. todo'[m + p].do = "program"
        BY <1>6
      <4> QED
        BY <4>1, <4>2 DEF OnData
    <3> QED
      BY <3>1, <3>2
  <2>2. CASE l = 0
    <3>1. m + n + l = m + n
      BY <1>0, <1>1, <2>2
    <3> QED
      BY <1>4, <2>1, <3>1 DEF Shape, OnData
  <2>3. CASE l = 3
    <3>1. N >= 3 /\ N - 3 = m + n /\ N - 2 = m + n + 1 /\ N - 1 = m + n + 2 /\ N = m + n + 3
      BY <1>0, <1>1, <2>3
    <3> HIDE DEF N
    <3>2. /\ N >= 3 /\ \A i \in 1 .. N - 3 : OnData(todo'[i])
          /\ todo'[N - 2].do = "erase_table"
          /\ ProgramsHalf(todo'[N - 1], 1) /\ ProgramsHalf(todo'[N], 2)
          /\ todo'[N - 1].table = todo'[N].table
      BY <1>7, <2>1, <2>3, <3>1
    <3>3. Len(todo') = N
      BY <1>4 DEF N
    <3> QED
      BY <3>2, <3>3 DEF Shape, OnData, ProgramsHalf
  <2> QED
    BY <1>2, <2>2, <2>3
<1>13. (Planned)'
  <2> SUFFICES ASSUME NEW i \in 1 .. m + n + l, todo'[i].do = "program"
               PROVE  \E j \in 1 .. i - 1 :
                          /\ todo'[j].do = "erase" /\ Touches(todo'[j], todo'[i].at)
                          /\ \A k \in j + 1 .. i - 1 : ~Touches(todo'[k], todo'[i].at)
    <3>1. \A i \in 1 .. Len(todo') : todo'[i].do = "program" =>
              \E j \in 1 .. i - 1 :
                  /\ todo'[j].do = "erase" /\ Touches(todo'[j], todo'[i].at)
                  /\ \A k \in j + 1 .. i - 1 : ~Touches(todo'[k], todo'[i].at)
      BY <1>4, Zenon
    <3> QED
      BY <3>1 DEF Planned, Touches
  <2>1. PICK p \in 1 .. n : i = m + p
    <3>1. i \notin 1 .. m
      BY <1>5
    <3>2. ~(l = 3 /\ i \in {m + n + 1, m + n + 2, m + n + 3})
      BY <1>7 DEF ProgramsHalf
    <3> QED
      BY <1>8, <3>1, <3>2
  <2>2. PICK d \in 0 .. m - 1 : d = (p - 1) \div SectorPages
    BY <1>10
  <2> DEFINE a == s * SectorPages + p - 1  j == d + 1
  <2>3. todo'[i].at = a /\ a \div SectorPages = s + d
    BY <1>6, <1>10, <2>1, <2>2
  <2>4. j \in 1 .. m /\ s + j - 1 = s + d /\ j = d + 1
    BY <1>0
  <2> HIDE DEF a, j
  <2>5. todo'[j].do = "erase" /\ Touches(todo'[j], a)
    BY <1>5, <2>3, <2>4 DEF Touches
  <2>6. ASSUME NEW k \in j + 1 .. i - 1, Touches(todo'[k], a) PROVE FALSE
    <3>1. k \in 1 .. m + n + l /\ k > j /\ k < i
      BY <1>0, <1>1, <1>2, <2>1, <2>4
    <3>2. CASE k \in 1 .. m /\ a \div SectorPages = s + k - 1
      <4>1. s + d = s + k - 1
        BY <2>3, <3>2
      <4>2. s \in Nat /\ d \in Nat /\ k \in Nat
        BY <1>0, <1>1, <3>1
      <4> QED
        BY <2>4, <3>1, <4>1, <4>2
    <3>3. CASE \E q \in 1 .. n : k = m + q /\ a = s * SectorPages + q - 1
      <4>1. PICK q \in 1 .. n : k = m + q /\ a = s * SectorPages + q - 1
        BY <3>3
      <4>2. q = p
        BY <1>11, <4>1 DEF a
      <4> QED
        BY <2>1, <3>1, <4>1, <4>2
    <3>4. k \in 1 .. m + n + l
      BY <3>1
    <3>5. \A b : Touches(todo'[k], b) =>
               \/ k \in 1 .. m /\ b \div SectorPages = s + k - 1
               \/ \E q \in 1 .. n : k = m + q /\ b = s * SectorPages + q - 1
      BY <1>9, <3>4, Zenon
    <3>6. \/ k \in 1 .. m /\ a \div SectorPages = s + k - 1
          \/ \E q \in 1 .. n : k = m + q /\ a = s * SectorPages + q - 1
      BY <2>6, <3>5, Zenon
    <3> QED
      BY <3>2, <3>3, <3>6, Zenon
  <2>7. j \in 1 .. i - 1
    BY <1>0, <1>1, <2>1, <2>4
  <2> QED
    BY <2>3, <2>5, <2>6, <2>7
<1>14. ASSUME NEW a \in Pages, a \div SectorPages \notin s .. s + m - 1
       PROVE  (Untouched(a))'
  <2> SUFFICES ASSUME NEW k \in 1 .. m + n + l, Touches(todo'[k], a) PROVE FALSE
    BY <1>4 DEF Untouched, Touches
  <2>1. CASE k \in 1 .. m /\ a \div SectorPages = s + k - 1
    BY <1>0, <1>14, <2>1
  <2>2. CASE \E p \in 1 .. n : k = m + p /\ a = s * SectorPages + p - 1
    <3>1. PICK d \in 0 .. m - 1 : a \div SectorPages = s + d
      BY <1>10, <2>2
    <3> QED
      BY <1>0, <1>14, <3>1
  <2>3. \A b : Touches(todo'[k], b) =>
             \/ k \in 1 .. m /\ b \div SectorPages = s + k - 1
             \/ \E p \in 1 .. n : k = m + p /\ b = s * SectorPages + p - 1
    BY <1>9, Zenon
  <2>4. Touches(todo'[k], a)
    OBVIOUS
  <2>5. \/ k \in 1 .. m /\ a \div SectorPages = s + k - 1
        \/ \E p \in 1 .. n : k = m + p /\ a = s * SectorPages + p - 1
    BY <2>3, <2>4, Zenon
  <2> QED
    BY <2>5, <2>1, <2>2, Zenon
<1>15. ASSUME NEW p \in 1 .. n
       PROVE  (WillHold(s * SectorPages + p - 1, content[p]))'
  <2> DEFINE a == s * SectorPages + p - 1
  <2>1. m + p \in 1 .. m + n + l
    BY <1>0, <1>1, <1>2
  <2>2. ASSUME NEW k \in (m + p) + 1 .. m + n + l, Touches(todo'[k], a) PROVE FALSE
    <3>1. k \in 1 .. m + n + l /\ k > m + p
      BY <1>0, <1>1
    <3>2. k \notin 1 .. m
      BY <1>0, <1>1, <3>1
    <3>3. PICK q \in 1 .. n : k = m + q /\ a = s * SectorPages + q - 1
      <4>1. k \in 1 .. m + n + l
        BY <3>1
      <4>2. \A b : Touches(todo'[k], b) =>
                 \/ k \in 1 .. m /\ b \div SectorPages = s + k - 1
                 \/ \E q \in 1 .. n : k = m + q /\ b = s * SectorPages + q - 1
        BY <1>9, <4>1, Zenon
      <4> QED
        BY <2>2, <3>2, <4>2, Zenon
    <3>4. q = p
      BY <1>11, <3>3
    <3> QED
      BY <3>1, <3>3, <3>4
  <2>3. todo'[m + p].do = "program" /\ todo'[m + p].at = a /\ todo'[m + p].page = content[p]
    BY <1>6
  <2> HIDE DEF a
  <2>4. \E i \in 1 .. m + n + l :
            /\ todo'[i].do = "program" /\ todo'[i].at = a /\ todo'[i].page = content[p]
            /\ \A k \in i + 1 .. m + n + l : ~Touches(todo'[k], a)
    BY <2>1, <2>2, <2>3
  <2>5. (WillHold(a, content[p]))'
    BY <1>4, <2>4 DEF WillHold, Touches
  <2> QED
    BY <2>5 DEF a
<1>16. todo' # <<>> /\ Head(todo') = todo'[1] /\ todo'[1].do = "erase"
  <2>1. Len(todo') # 0 /\ 1 \in 1 .. m
    BY <1>0, <1>1, <1>2, <1>4
  <2>2. todo' # <<>>
    BY <2>1, EmptySeq
  <2> QED
    BY <1>4, <1>5, <2>1, <2>2, Shifted
<1>17. ~(TableAtRisk)'
  BY <1>16 DEF TableAtRisk
<1>18. (Target)' = t
  <2>1. CASE l = 0
    <3>1. m + n + l \in 1 .. m + n /\ m + n \in 1 .. m + n /\ m + n + l = m + n
      BY <1>0, <1>1, <2>1
    <3>2. todo'[m + n].do # "program_table"
      <4>1. (n = 0 /\ m + n = m /\ m \in 1 .. m) \/ n \in 1 .. n
        BY <1>0, <1>1
      <4> QED
        BY <1>5, <1>6, <4>1
    <3> QED
      BY <1>2, <1>4, <2>1, <3>1, <3>2 DEF Target
  <2>2. CASE l = 3
    <3>1. Len(todo') = m + n + 3
      BY <1>4, <2>2
    <3> QED
      BY <1>7, <1>16, <2>2, <3>1 DEF Target, ProgramsHalf
  <2> QED
    BY <1>2, <2>1, <2>2
<1> QED
  BY <1>4, <1>12, <1>13, <1>14, <1>15, <1>16, <1>17, <1>18 DEF n

(***************************************************************************)
(* No file reaches beyond the flash: entries are used in their order.      *)
(***************************************************************************)
LEMMA RoomForFile ==
    ASSUME NEW t \in Table, TableOK(t), NEW e \in Entries, t.entries[e].status # "FREE",
           NEW n \in 0 .. MaxPages
    PROVE  /\ t.entries[e].offset \in Nat \ {0} /\ SectorsFor(n) \in Nat
           /\ t.entries[e].offset + SectorsFor(n) <= FlashSectors
<1> DEFINE s == t.entries[e].offset  R == Reserved(MaxPages)
<1>1. MaxPages \in Nat /\ MaxFiles \in Nat /\ FlashSectors \in Nat /\ n \in Nat
      /\ MaxPages \in n .. MaxPages
  BY PicoFSAssumption
<1>2. s \in 1 .. 1 + (e - 1) * R /\ R \in Nat
  BY <1>1, SectorsForSize DEF TableOK
<1>3. SectorsFor(n) \in Nat /\ SectorsFor(n) <= SectorsFor(MaxPages) /\ SectorsFor(MaxPages) <= R
      /\ SectorsFor(MaxPages) \in Nat
  BY <1>1, SectorsForSize
<1> HIDE DEF R
<1>4. e \in Nat /\ e - 1 \in Nat /\ e <= MaxFiles
  BY <1>1 DEF Entries
<1>5. e * R <= MaxFiles * R /\ e * R \in Nat /\ MaxFiles * R \in Nat
  BY <1>1, <1>2, <1>4, Times
<1>6. (e - 1) * R + R = e * R /\ (e - 1) * R \in Nat
  BY <1>2, <1>4
<1>7. s + SectorsFor(n) <= FlashSectors
  BY <1>1, <1>2, <1>3, <1>5, <1>6, FlashBound DEF R
<1> QED
  BY <1>2, <1>3, <1>6, <1>7

(***************************************************************************)
(* What a call must show when it begins.                                   *)
(***************************************************************************)
LEMMA CallBegins ==
    ASSUME FSInv, todo = <<>>, up' = TRUE, meta' = meta, data' = data,
           wanted' \in [Names -> Contents], after' \in [Names -> Contents], spoiled' \subseteq Names,
           calls' \in 0 .. MaxCalls, failures' \in 0 .. MaxFailures,
           NEW t \in Table, t.magic, TableOK(t),
           todo' \in Seq(Op), todo' # <<>>, (Shape)', (Planned)', (Target)' = t, ~(TableAtRisk)',
           (Matches(t, after))', (Matches(meta, wanted))',
           \A e \in Entries : (Intact(t, after, e))' =>
               \A i \in 1 .. t.entries[e].size :
                   (WillHold(Home(t, e, i), after[t.entries[e].name][i]))',
           \A e \in Entries : (Intact(meta, wanted, e))' =>
               \A i \in 1 .. meta.entries[e].size :
                   /\ data[Home(meta, e, i)] = wanted'[meta.entries[e].name][i]
                   /\ (Untouched(Home(meta, e, i)))'
    PROVE  (FSInv)'
<1>1. FSTypeOK /\ TableOK(meta)
  BY DEF FSInv
<1>2. (FSTypeOK)'
  BY <1>1 DEF FSTypeOK, Pages, Entries
<1>3. (TableOK(meta))' /\ (TableOK(Target))'
  BY <1>1 DEF TableOK, Occupies
<1>4. (Matches(Target, after))'
  BY DEF Matches, Occupies, Intact, SectorsOf
<1>5. (Stored)'
  <2> SUFFICES ASSUME NEW e \in Entries, (Intact(Target, after, e))',
                      NEW i \in 1 .. t.entries[e].size
               PROVE  (WillHold(Home(Target, e, i), after[Target.entries[e].name][i]))'
    BY DEF Stored
  <2>1. (Intact(t, after, e))'
    BY DEF Intact, Occupies
  <2>2. (WillHold(Home(t, e, i), after[t.entries[e].name][i]))'
    BY <2>1
  <2> QED
    BY <2>2 DEF WillHold, Untouched, Home
<1>6. (Resting)'
  BY DEF Resting, Intact, Occupies, Untouched, Home
<1>7. (~up => todo = <<>>)' /\ (up => Target.magic)' /\ (todo = <<>> => after = wanted)'
  OBVIOUS
<1> QED
  BY <1>2, <1>3, <1>4, <1>5, <1>6, <1>7 DEF FSInv

(***************************************************************************)
(* The same for a call that only rewrites the table.                       *)
(***************************************************************************)
LEMMA TableCallBegins ==
    ASSUME FSInv, todo = <<>>, up' = TRUE, meta' = meta, data' = data,
           wanted' \in [Names -> Contents], after' \in [Names -> Contents], spoiled' \subseteq Names,
           calls' \in 0 .. MaxCalls, failures' \in 0 .. MaxFailures,
           NEW t \in Table, t.magic, TableOK(t), todo' = WriteTable(t),
           (Matches(t, after))', (Matches(meta, wanted))',
           \A e \in Entries : (Intact(t, after, e))' =>
               \A i \in 1 .. t.entries[e].size :
                   data[Home(t, e, i)] = after'[t.entries[e].name][i],
           \A e \in Entries : (Intact(meta, wanted, e))' =>
               \A i \in 1 .. meta.entries[e].size :
                   data[Home(meta, e, i)] = wanted'[meta.entries[e].name][i]
    PROVE  (FSInv)'
<1>1. /\ todo' \in Seq(Op) /\ todo' # <<>> /\ (Shape)' /\ (Planned)' /\ (Target)' = t
      /\ ~(TableAtRisk)' /\ \A a : (Untouched(a))'
  BY TableCall
<1>2. \A e \in Entries : (Intact(t, after, e))' =>
          \A i \in 1 .. t.entries[e].size :
              (WillHold(Home(t, e, i), after[t.entries[e].name][i]))'
  <2> SUFFICES ASSUME NEW e \in Entries, (Intact(t, after, e))', NEW i \in 1 .. t.entries[e].size
               PROVE  (WillHold(Home(t, e, i), after[t.entries[e].name][i]))'
    OBVIOUS
  <2>1. data'[Home(t, e, i)] = after'[t.entries[e].name][i]
    OBVIOUS
  <2>2. (Untouched(Home(t, e, i)))'
    BY <1>1
  <2> QED
    BY <2>1, <2>2 DEF WillHold, Home
<1>3. \A e \in Entries : (Intact(meta, wanted, e))' =>
          \A i \in 1 .. meta.entries[e].size :
              /\ data[Home(meta, e, i)] = wanted'[meta.entries[e].name][i]
              /\ (Untouched(Home(meta, e, i)))'
  BY <1>1
<1> QED
  BY <1>1, <1>2, <1>3, CallBegins

(***************************************************************************)
(* fs_init.                                                                *)
(***************************************************************************)
LEMMA BootsKeeps ==
    ASSUME FSInv, Boots
    PROVE  (FSInv)'
<1>1. /\ ~up /\ up' = TRUE /\ todo = <<>> /\ TableOK(meta) /\ FSTypeOK /\ todo \in Seq(Op)
      /\ spoiled' = spoiled /\ calls' = calls
  BY DEF FSInv, Boots
<1>2. /\ after = wanted /\ Matches(meta, wanted)
      /\ \A e \in Entries : Intact(meta, wanted, e) =>
             \A i \in 1 .. meta.entries[e].size :
                 data[Home(meta, e, i)] = wanted[meta.entries[e].name][i]
  BY <1>1, AtRest
<1>3. /\ wanted \in [Names -> Contents] /\ calls' \in 0 .. MaxCalls
      /\ spoiled' \subseteq Names /\ failures \in 0 .. MaxFailures
  BY <1>1 DEF FSTypeOK
<1>4. ASSUME wanted' = wanted, meta' = meta
      PROVE  /\ (Matches(meta, wanted))'
             /\ \A e \in Entries : (Intact(meta, wanted, e))' => Intact(meta, wanted, e)
  <2>1. spoiled' = spoiled
    BY <1>1
  <2>2. (Matches(meta, wanted))'
    BY <1>2, <1>4, <2>1 DEF Matches, Occupies, Intact, SectorsOf
  <2>3. \A e \in Entries : (Intact(meta, wanted, e))' => Intact(meta, wanted, e)
    BY <1>4, <2>1 DEF Intact, Occupies
  <2> QED
    BY <2>2, <2>3
<1>5. CASE meta.magic
  <2>1. /\ todo' = <<>> /\ wanted' = wanted /\ after' = wanted
        /\ UNCHANGED <<meta, data, failures>>
    BY <1>5 DEF Boots, Begin
  <2>2. meta' = meta /\ data' = data
    BY <2>1
  <2>3. \A e \in Entries : (Intact(meta, wanted, e))' =>
            \A i \in 1 .. meta.entries[e].size :
                data[Home(meta, e, i)] = wanted'[meta.entries[e].name][i]
    BY <1>2, <1>4, <2>1, <2>2
  <2> QED
    BY <1>1, <1>3, <1>4, <1>5, <2>1, <2>2, <2>3, Rests
<1>6. CASE ~meta.magic
  <2>1. /\ todo' = WriteTable(EmptyTable) /\ wanted' = wanted
        /\ after' = [f \in Names |-> Absent]
        /\ UNCHANGED <<meta, data, failures>>
    BY <1>6 DEF Boots, Begin
  <2>2. meta' = meta /\ data' = data /\ failures' \in 0 .. MaxFailures
    BY <1>3, <2>1
  <2>3. after' \in [Names -> Contents] /\ wanted' \in [Names -> Contents]
    BY <1>3, <2>1 DEF Contents
  <2>4. \A e \in Entries : ~Occupies(EmptyTable, e)
    BY ErasedTableOK DEF Occupies
  <2>5. (Matches(EmptyTable, after))'
    BY <2>1, <2>4 DEF Matches, Intact
  <2>6. \A e \in Entries : (Intact(EmptyTable, after, e))' =>
            \A i \in 1 .. EmptyTable.entries[e].size :
                data[Home(EmptyTable, e, i)] = after'[EmptyTable.entries[e].name][i]
    BY <2>4 DEF Intact
  <2>7. \A e \in Entries : (Intact(meta, wanted, e))' =>
            \A i \in 1 .. meta.entries[e].size :
                data[Home(meta, e, i)] = wanted'[meta.entries[e].name][i]
    BY <1>2, <1>4, <2>1, <2>2
  <2> QED
    BY <1>1, <1>3, <1>4, <2>1, <2>2, <2>3, <2>5, <2>6, <2>7, ErasedTableOK, TableCallBegins
<1> QED
  BY <1>5, <1>6

(***************************************************************************)
(* Where a call begins: the files are what callers expect.                 *)
(***************************************************************************)
LEMMA CallAtRest ==
    ASSUME FSInv, NEW function, Call(function)
    PROVE  /\ todo = <<>> /\ up' = TRUE /\ calls' \in 0 .. MaxCalls /\ meta \in Table
           /\ FSTypeOK /\ TableOK(meta) /\ meta.magic /\ Matches(meta, wanted)
           /\ \A e \in Entries : Intact(meta, wanted, e) =>
                  \A i \in 1 .. meta.entries[e].size :
                      data[Home(meta, e, i)] = wanted[meta.entries[e].name][i]
<1>1. /\ todo = <<>> /\ up /\ up' = up /\ calls < MaxCalls /\ calls' = calls + 1
      /\ FSTypeOK /\ TableOK(meta) /\ Target.magic
  BY DEF Call, FSInv
<1>2. up' = TRUE /\ calls' \in 0 .. MaxCalls /\ meta \in Table
  BY <1>1, PicoFSAssumption DEF FSTypeOK, Table
<1> QED
  BY <1>1, <1>2, AtRest

(***************************************************************************)
(* fs_delete.                                                              *)
(***************************************************************************)
LEMMA DeleteKeeps ==
    ASSUME FSInv, NEW f \in Names, Delete(f)
    PROVE  (FSInv)'
<1>1. /\ todo = <<>> /\ up' = TRUE /\ calls' \in 0 .. MaxCalls /\ meta \in Table
      /\ FSTypeOK /\ TableOK(meta) /\ meta.magic /\ Matches(meta, wanted)
      /\ \A e \in Entries : Intact(meta, wanted, e) =>
             \A i \in 1 .. meta.entries[e].size :
                 data[Home(meta, e, i)] = wanted[meta.entries[e].name][i]
  BY CallAtRest DEF Delete
<1>2. PICK e \in Entries :
          /\ Has(e, f)
          /\ Begin(WriteTable(TableWith(e, [meta.entries[e] EXCEPT !.status = "DELETED"])),
                   [wanted EXCEPT ![f] = IF f \in spoiled THEN Unknown ELSE @],
                   [wanted EXCEPT ![f] = Absent])
  BY DEF Delete, Finds
<1>3. PICK t : t = TableWith(e, [meta.entries[e] EXCEPT !.status = "DELETED"])
  OBVIOUS
<1>4. /\ todo' = WriteTable(t) /\ meta' = meta /\ data' = data /\ failures' = failures
      /\ wanted' = [wanted EXCEPT ![f] = IF f \in spoiled THEN Unknown ELSE @]
      /\ after' = [wanted EXCEPT ![f] = Absent] /\ spoiled' = spoiled \ {f}
  BY <1>2, <1>3 DEF Begin, Delete
<1>5. /\ wanted \in [Names -> Contents] /\ spoiled \subseteq Names /\ failures \in 0 .. MaxFailures
      /\ meta.entries[e].status = "OCCUPIED" /\ meta.entries[e].name = f /\ meta.entries[e] \in Entry
  BY <1>1, <1>2 DEF FSTypeOK, Has, Occupied, Table
<1>6. /\ t \in Table /\ t.magic = meta.magic /\ t.entries[e].status = "DELETED"
      /\ t.entries[e].name = f /\ t.entries[e].offset = meta.entries[e].offset
      /\ \A o \in Entries : o # e => t.entries[o] = meta.entries[o]
  <2>1. [meta.entries[e] EXCEPT !.status = "DELETED"] \in Entry
    BY <1>5 DEF Entry, Statuses
  <2> QED
    BY <1>1, <1>3, <1>5, <2>1 DEF Table, TableWith, Entry
<1>7. /\ wanted' \in [Names -> Contents] /\ after' \in [Names -> Contents]
      /\ \A g \in Names : g # f => wanted'[g] = wanted[g] /\ after'[g] = wanted[g]
      /\ after'[f] = Absent /\ wanted'[f] = (IF f \in spoiled THEN Unknown ELSE wanted[f])
      /\ spoiled' \subseteq Names /\ failures' \in 0 .. MaxFailures
  BY <1>4, <1>5 DEF Contents
<1>8. /\ \A o \in Entries : Occupies(t, o) => o # e /\ Occupies(meta, o)
      /\ \A o \in Entries : Occupies(meta, o) => meta.entries[o].name \in Names
      /\ \A o \in Entries : Occupies(meta, o) /\ o # e => meta.entries[o].name # f /\ Occupies(t, o)
  BY <1>1, <1>5, <1>6 DEF TableOK, Occupies
<1>9. TableOK(t)
  <2>1. \A o \in Entries : /\ t.entries[o].status # "FREE" <=> meta.entries[o].status # "FREE"
                           /\ t.entries[o].offset = meta.entries[o].offset
                           /\ t.entries[o].name = meta.entries[o].name
    BY <1>5, <1>6
  <2>2. \A o, q \in Entries :
            Occupies(t, o) /\ Occupies(t, q) /\ t.entries[o].name = t.entries[q].name => o = q
    BY <1>1, <1>8, <2>1 DEF TableOK
  <2>3. \A o \in Entries : Occupies(t, o) => t.entries[o].name \in Names
    BY <1>8, <2>1
  <2>4. ASSUME NEW o \in Entries, t.entries[o].status # "FREE"
        PROVE  /\ \A q \in 1 .. o - 1 : t.entries[q].status # "FREE"
               /\ t.entries[o].offset \in 1 .. 1 + (o - 1) * Reserved(MaxPages)
    <3>1. \A q \in 1 .. o - 1 : q \in Entries
      BY PicoFSAssumption DEF Entries
    <3> QED
      BY <1>1, <2>1, <2>4, <3>1 DEF TableOK
  <2> QED
    BY <1>1, <1>6, <2>2, <2>3, <2>4 DEF TableOK
<1>10. \A o \in Entries : (Intact(t, after, o))' => o # e /\ Intact(meta, wanted, o)
  BY <1>4, <1>6, <1>7, <1>8 DEF Intact, Occupies
<1>11. \A o \in Entries : (Intact(meta, wanted, o))' => Intact(meta, wanted, o)
  <2> SUFFICES ASSUME NEW o \in Entries, (Intact(meta, wanted, o))'
               PROVE  Intact(meta, wanted, o)
    OBVIOUS
  <2>1. CASE o = e
    BY <1>4, <1>5, <1>7, <2>1 DEF Intact, Occupies
  <2>2. CASE o # e
    BY <1>4, <1>7, <1>8, <2>2 DEF Intact, Occupies
  <2> QED
    BY <2>1, <2>2
<1>12. (Matches(t, after))'
  <2>1. ASSUME NEW o \in Entries, Occupies(t, o)
        PROVE  LET g == t.entries[o].name
               IN  after'[g] = Unknown \/ (after'[g] # Absent /\ Len(after'[g]) = t.entries[o].size)
    BY <1>1, <1>6, <1>7, <1>8, <2>1 DEF Matches
  <2>2. ASSUME NEW g \in Names, after'[g] \notin {Absent, Unknown}
        PROVE  \E o \in Entries : Occupies(t, o) /\ t.entries[o].name = g
    <3>1. g # f /\ wanted[g] \notin {Absent, Unknown}
      BY <1>7, <2>2
    <3>2. PICK o \in Entries : Occupies(meta, o) /\ meta.entries[o].name = g
      BY <1>1, <3>1 DEF Matches
    <3> QED
      BY <1>5, <1>6, <1>8, <3>1, <3>2
  <2>3. ASSUME NEW o \in Entries, NEW q \in Entries, o # q,
               (Intact(t, after, o))', (Intact(t, after, q))'
        PROVE  SectorsOf(t, o) \cap SectorsOf(t, q) = {}
    BY <1>1, <1>6, <1>10, <2>3 DEF Matches, SectorsOf
  <2> QED
    BY <2>1, <2>2, <2>3 DEF Matches, Occupies, SectorsOf
<1>13. (Matches(meta, wanted))'
  <2>1. ASSUME NEW o \in Entries, Occupies(meta, o)
        PROVE  LET g == meta.entries[o].name
               IN  wanted'[g] = Unknown \/ (wanted'[g] # Absent /\ Len(wanted'[g]) = meta.entries[o].size)
    BY <1>1, <1>5, <1>7, <1>8, <2>1 DEF Matches
  <2>2. ASSUME NEW g \in Names, wanted'[g] \notin {Absent, Unknown}
        PROVE  \E o \in Entries : Occupies(meta, o) /\ meta.entries[o].name = g
    BY <1>1, <1>7, <2>2 DEF Matches
  <2>3. ASSUME NEW o \in Entries, NEW q \in Entries, o # q,
               (Intact(meta, wanted, o))', (Intact(meta, wanted, q))'
        PROVE  SectorsOf(meta, o) \cap SectorsOf(meta, q) = {}
    BY <1>1, <1>11, <2>3 DEF Matches
  <2> QED
    BY <1>4, <2>1, <2>2, <2>3 DEF Matches, Occupies, SectorsOf
<1>14. \A o \in Entries : (Intact(t, after, o))' =>
           \A i \in 1 .. t.entries[o].size :
               data[Home(t, o, i)] = after'[t.entries[o].name][i]
  BY <1>1, <1>6, <1>7, <1>8, <1>10 DEF Home, Intact
<1>15. \A o \in Entries : (Intact(meta, wanted, o))' =>
           \A i \in 1 .. meta.entries[o].size :
               data[Home(meta, o, i)] = wanted'[meta.entries[o].name][i]
  <2> SUFFICES ASSUME NEW o \in Entries, (Intact(meta, wanted, o))'
               PROVE  wanted'[meta.entries[o].name] = wanted[meta.entries[o].name]
    BY <1>1, <1>11
  <2>1. CASE o = e
    BY <1>4, <1>5, <1>7, <2>1 DEF Intact
  <2>2. CASE o # e
    BY <1>4, <1>7, <1>8, <1>11, <2>2 DEF Intact
  <2> QED
    BY <2>1, <2>2
<1> QED
  BY <1>1, <1>4, <1>6, <1>7, <1>9, <1>12, <1>13, <1>14, <1>15, TableCallBegins

(***************************************************************************)
(* Every set of natural numbers that is not empty has a smallest element.  *)
(***************************************************************************)
LEMMA LeastNat ==
    ASSUME NEW S \in SUBSET Nat, S # {}
    PROVE  \E x \in S : \A y \in S : x <= y
<1>1. PICK x \in S : \A y \in S : ~(<<y, x>> \in OpToRel(<, Nat))
  BY WFMin, NatLessThanWellFounded
<1>2. \A y \in S : ~(y < x)
  BY <1>1 DEF OpToRel
<1> QED
  BY <1>2

(***************************************************************************)
(* A set of natural numbers up to a bound that is not empty has a largest  *)
(* element.                                                                *)
(***************************************************************************)
LEMMA LargestNat ==
    ASSUME NEW b \in Nat, NEW S \in SUBSET (0 .. b), S # {}
    PROVE  Max(S) \in S
<1> DEFINE D == {b - x : x \in S}
<1>1. D \in SUBSET Nat /\ D # {}
  <2>1. \A x \in S : x \in 0 .. b /\ b - x \in Nat
    OBVIOUS
  <2>2. PICK x \in S : TRUE
    OBVIOUS
  <2>3. b - x \in D
    BY <2>2
  <2>4. D \subseteq Nat
    BY <2>1
  <2> QED
    BY <2>3, <2>4
<1>2. PICK d \in D : \A y \in D : d <= y
  BY <1>1, LeastNat
<1>3. PICK x \in S : d = b - x
  BY <1>2
<1>4. \A y \in S : x >= y
  BY <1>2, <1>3
<1>5. \E z \in S : \A y \in S : z >= y
  BY <1>4
<1> QED
  BY <1>5 DEF Max

(***************************************************************************)
(* A new file begins after the others, and within the room that its entry  *)
(* has.                                                                    *)
(***************************************************************************)
LEMMA NextOffset ==
    ASSUME meta \in Table, TableOK(meta), NEW e \in Entries, FirstFree(e)
    PROVE  NextFreeOffset \in 1 .. 1 + (e - 1) * Reserved(MaxPages)
<1> DEFINE R == Reserved(MaxPages)
           S == {1} \cup {Offset(o) + Reserved(Size(o)) : o \in {q \in Entries : Occupied(q)}}
<1>1. R \in Nat \ {0} /\ e \in Nat \ {0} /\ Entries = 1 .. MaxFiles /\ MaxFiles \in Nat
      /\ MaxPages \in Nat
  BY PicoFSAssumption, SectorsForSize DEF Entries
<1>2. ASSUME NEW o \in Entries, Occupied(o)
      PROVE  Offset(o) + Reserved(Size(o)) \in 1 .. 1 + (e - 1) * R
  <2>1. meta.entries[o].status = "OCCUPIED" /\ Size(o) \in 0 .. MaxPages
    BY <1>2 DEF Occupied, Table, Entry, Size
  <2>2. o < e
    <3>1. meta.entries[e].status = "FREE"
      BY DEF FirstFree
    <3>2. \A q \in 1 .. o - 1 : meta.entries[q].status # "FREE"
      BY <2>1 DEF TableOK
    <3>3. e # o /\ e \notin 1 .. o - 1
      BY <2>1, <3>1, <3>2
    <3> QED
      BY <1>1, <3>3
  <2>3. Offset(o) \in 1 .. 1 + (o - 1) * R
    BY <2>1 DEF TableOK, Offset
  <2>4. Reserved(Size(o)) \in Nat \ {0} /\ Reserved(Size(o)) <= R
    <3>1. Size(o) \in Nat /\ MaxPages \in Size(o) .. MaxPages
      BY <1>1, <2>1
    <3> QED
      BY <3>1, SectorsForSize
  <2> HIDE DEF R
  <2>5. o \in Nat /\ o - 1 \in Nat /\ e - 1 \in Nat /\ o <= e - 1
    BY <1>1, <2>2
  <2>6. o * R <= (e - 1) * R /\ o * R \in Nat /\ (e - 1) * R \in Nat
    BY <1>1, <2>5, Times
  <2>7. (o - 1) * R + R = o * R /\ (o - 1) * R \in Nat
    BY <1>1, <2>5
  <2> QED
    BY <1>1, <2>3, <2>4, <2>6, <2>7
<1> HIDE DEF R
<1>3. (e - 1) * R \in Nat
  BY <1>1
<1>4. S \in SUBSET (1 .. 1 + (e - 1) * R) /\ S # {}
  BY <1>2, <1>3
<1> HIDE DEF S
<1>5. 1 + (e - 1) * R \in Nat /\ S \in SUBSET (0 .. 1 + (e - 1) * R)
  BY <1>3, <1>4
<1>6. Max(S) \in S
  BY <1>4, <1>5, LargestNat
<1> QED
  BY <1>4, <1>6 DEF NextFreeOffset, S, R

(***************************************************************************)
(* What a file may hold.                                                   *)
(***************************************************************************)
LEMMA ShortSequence ==
    /\ \A v \in BoundedSeq(Data, MaxPages) : v \in Seq(Data) /\ Len(v) \in 0 .. MaxPages
    /\ \A v \in Seq(Data) : Len(v) <= MaxPages => v \in BoundedSeq(Data, MaxPages)
<1>1. BoundedSeq(Data, MaxPages) = UNION {[1 .. m -> Data] : m \in 0 .. MaxPages}
  BY DEF BoundedSeq, SeqOf
<1>2. ASSUME NEW v \in BoundedSeq(Data, MaxPages)
      PROVE  v \in Seq(Data) /\ Len(v) \in 0 .. MaxPages
  <2>1. PICK m \in 0 .. MaxPages : v \in [1 .. m -> Data]
    BY <1>1, <1>2
  <2> QED
    BY <2>1, PicoFSAssumption
<1>3. ASSUME NEW v \in Seq(Data), Len(v) <= MaxPages
      PROVE  v \in BoundedSeq(Data, MaxPages)
  <2>1. Len(v) \in 0 .. MaxPages /\ v \in [1 .. Len(v) -> Data]
    BY <1>3, LenProperties, PicoFSAssumption
  <2> QED
    BY <1>1, <2>1
<1> QED
  BY <1>2, <1>3

(***************************************************************************)
(* fs_create.                                                              *)
(***************************************************************************)
LEMMA CreateKeeps ==
    ASSUME FSInv, NEW f \in Names, Create(f)
    PROVE  (FSInv)'
<1>1. /\ todo = <<>> /\ up' = TRUE /\ calls' \in 0 .. MaxCalls /\ meta \in Table
      /\ FSTypeOK /\ TableOK(meta) /\ meta.magic /\ Matches(meta, wanted)
      /\ \A e \in Entries : Intact(meta, wanted, e) =>
             \A i \in 1 .. meta.entries[e].size :
                 data[Home(meta, e, i)] = wanted[meta.entries[e].name][i]
  BY CallAtRest DEF Create
<1>2. PICK e \in Entries :
          /\ FirstFree(e)
          /\ Begin(WriteTable(TableWith(e, [name |-> f, offset |-> NextFreeOffset, size |-> 0,
                                            status |-> "OCCUPIED"])),
                   wanted, [wanted EXCEPT ![f] = <<>>])
  BY DEF Create
<1>3. PICK x : x = NextFreeOffset
  OBVIOUS
<1>4. x \in 1 .. 1 + (e - 1) * Reserved(MaxPages)
  BY <1>1, <1>2, <1>3, NextOffset
<1>5. x \in Nat /\ x \in 0 .. FlashSectors
  <2> DEFINE R == Reserved(MaxPages)
  <2>1. R \in Nat \ {0} /\ e \in Nat \ {0} /\ e <= MaxFiles /\ MaxFiles \in Nat /\ FlashSectors \in Nat
    BY PicoFSAssumption, SectorsForSize DEF Entries
  <2>2. FlashSectors > MaxFiles * R /\ x \in 1 .. 1 + (e - 1) * R
    BY <1>4, FlashBound
  <2> HIDE DEF R
  <2>3. e * R <= MaxFiles * R /\ e * R \in Nat /\ MaxFiles * R \in Nat
    BY <2>1, Times
  <2>4. (e - 1) * R + R = e * R /\ (e - 1) * R \in Nat
    BY <2>1
  <2> QED
    BY <2>1, <2>2, <2>3, <2>4
<1>6. PICK t : t = TableWith(e, [name |-> f, offset |-> x, size |-> 0, status |-> "OCCUPIED"])
  OBVIOUS
<1>7. /\ todo' = WriteTable(t) /\ meta' = meta /\ data' = data /\ failures' = failures
      /\ wanted' = wanted /\ after' = [wanted EXCEPT ![f] = <<>>] /\ spoiled' = spoiled \ {f}
  BY <1>2, <1>3, <1>6 DEF Begin, Create
<1>8. /\ wanted \in [Names -> Contents] /\ spoiled \subseteq Names /\ failures \in 0 .. MaxFailures
      /\ meta.entries[e].status = "FREE"
      /\ \A o \in 1 .. e - 1 : meta.entries[o].status # "FREE"
      /\ \A o \in Entries : ~(Occupies(meta, o) /\ meta.entries[o].name = f)
  BY <1>1, <1>2 DEF FSTypeOK, FirstFree, Create, Has, Occupied, Occupies
<1>9. /\ t \in Table /\ t.magic = meta.magic
      /\ t.entries[e] = [name |-> f, offset |-> x, size |-> 0, status |-> "OCCUPIED"]
      /\ \A o \in Entries : o # e => t.entries[o] = meta.entries[o]
  <2>1. [name |-> f, offset |-> x, size |-> 0, status |-> "OCCUPIED"] \in Entry
    BY <1>5, PicoFSAssumption DEF Entry, Statuses
  <2> QED
    BY <1>1, <1>6, <2>1 DEF Table, TableWith
<1>10. t.entries[e].name = f /\ t.entries[e].offset = x /\ t.entries[e].size = 0
       /\ t.entries[e].status = "OCCUPIED"
  BY <1>9
<1>11. <<>> \in Contents /\ <<>> # Absent /\ <<>> # Unknown
  <2>1. <<>> \in Seq(Data) /\ Len(<<>>) = 0
    BY EmptySeq
  <2>2. Len(<<>>) <= MaxPages
    BY <2>1, PicoFSAssumption
  <2>3. <<>> \in BoundedSeq(Data, MaxPages)
    BY <2>1, <2>2, ShortSequence, Zenon
  <2> QED
    BY <2>3, PicoFSAssumption DEF Contents
<1>12. /\ wanted' \in [Names -> Contents] /\ after' \in [Names -> Contents]
       /\ \A g \in Names : g # f => after'[g] = wanted[g]
       /\ after'[f] = <<>> /\ spoiled' \subseteq Names /\ failures' \in 0 .. MaxFailures
  BY <1>7, <1>8, <1>11
<1>13. /\ \A o \in Entries : Occupies(t, o) /\ o # e => Occupies(meta, o)
       /\ \A o \in Entries : Occupies(meta, o) =>
              /\ meta.entries[o].name \in Names /\ meta.entries[o].name # f
              /\ o # e /\ Occupies(t, o)
  BY <1>1, <1>8, <1>9 DEF TableOK, Occupies
<1>14. TableOK(t)
  <2>1. \A o, q \in Entries :
            Occupies(t, o) /\ Occupies(t, q) /\ t.entries[o].name = t.entries[q].name => o = q
    <3> SUFFICES ASSUME NEW o \in Entries, NEW q \in Entries, Occupies(t, o), Occupies(t, q),
                        t.entries[o].name = t.entries[q].name, o # q
                 PROVE  FALSE
      OBVIOUS
    <3>1. CASE o # e /\ q # e
      <4>1. Occupies(meta, o) /\ Occupies(meta, q) /\ meta.entries[o].name = meta.entries[q].name
        BY <1>9, <1>13, <3>1
      <4> QED
        BY <1>1, <4>1 DEF TableOK
    <3>2. CASE o = e
      BY <1>9, <1>10, <1>13, <3>2
    <3>3. CASE q = e
      BY <1>9, <1>10, <1>13, <3>3
    <3> QED
      BY <3>1, <3>2, <3>3
  <2>2. \A o \in Entries : Occupies(t, o) => t.entries[o].name \in Names
    BY <1>9, <1>10, <1>13
  <2>3. ASSUME NEW o \in Entries, t.entries[o].status # "FREE"
        PROVE  /\ \A q \in 1 .. o - 1 : t.entries[q].status # "FREE"
               /\ t.entries[o].offset \in 1 .. 1 + (o - 1) * Reserved(MaxPages)
    <3>1. \A q \in 1 .. o - 1 : q \in Entries
      BY PicoFSAssumption DEF Entries
    <3>2. CASE o = e
      <4>1. \A q \in 1 .. e - 1 : q \in Entries /\ q # e
        BY <3>1, <3>2
      <4> QED
        BY <1>4, <1>8, <1>9, <1>10, <3>2, <4>1
    <3>3. CASE o # e
      <4>1. meta.entries[o].status # "FREE" /\ t.entries[o] = meta.entries[o]
        BY <1>9, <2>3, <3>3
      <4>2. /\ \A q \in 1 .. o - 1 : meta.entries[q].status # "FREE"
            /\ meta.entries[o].offset \in 1 .. 1 + (o - 1) * Reserved(MaxPages)
        BY <1>1, <4>1 DEF TableOK
      <4>3. \A q \in 1 .. o - 1 : t.entries[q].status # "FREE"
        BY <1>9, <1>10, <3>1, <4>2
      <4> QED
        BY <4>1, <4>2, <4>3
    <3> QED
      BY <3>2, <3>3
  <2> QED
    BY <1>1, <1>9, <2>1, <2>2, <2>3 DEF TableOK
<1>15. \A o \in Entries : (Intact(t, after, o))' /\ o # e => Intact(meta, wanted, o)
  BY <1>7, <1>9, <1>12, <1>13 DEF Intact, Occupies
<1>16. \A o \in Entries : (Intact(meta, wanted, o))' => Intact(meta, wanted, o)
  BY <1>7, <1>13 DEF Intact, Occupies
<1>17. (Matches(t, after))'
  <2>1. ASSUME NEW o \in Entries, Occupies(t, o)
        PROVE  LET g == t.entries[o].name
               IN  after'[g] = Unknown \/ (after'[g] # Absent /\ Len(after'[g]) = t.entries[o].size)
    <3>1. CASE o = e
      <4>1. Len(<<>>) = 0
        BY EmptySeq
      <4> QED
        BY <1>10, <1>11, <1>12, <3>1, <4>1
    <3>2. CASE o # e
      BY <1>1, <1>9, <1>12, <1>13, <2>1, <3>2 DEF Matches
    <3> QED
      BY <3>1, <3>2
  <2>2. ASSUME NEW g \in Names, after'[g] \notin {Absent, Unknown}
        PROVE  \E o \in Entries : Occupies(t, o) /\ t.entries[o].name = g
    <3>1. CASE g = f
      BY <1>10, <3>1 DEF Occupies
    <3>2. CASE g # f
      <4>1. wanted[g] \notin {Absent, Unknown}
        BY <1>12, <2>2, <3>2
      <4>2. PICK o \in Entries : Occupies(meta, o) /\ meta.entries[o].name = g
        BY <1>1, <4>1 DEF Matches
      <4> QED
        BY <1>9, <1>13, <4>2
    <3> QED
      BY <3>1, <3>2
  <2>3. ASSUME NEW o \in Entries, NEW q \in Entries, o # q,
               (Intact(t, after, o))', (Intact(t, after, q))'
        PROVE  SectorsOf(t, o) \cap SectorsOf(t, q) = {}
    <3>1. SectorsOf(t, e) = {}
      <4>1. SectorsFor(0) = 0
        BY SectorsForSize
      <4>2. x .. x + 0 - 1 = {}
        BY <1>5
      <4> QED
        BY <1>10, <4>1, <4>2 DEF SectorsOf, Area
    <3>2. CASE o # e /\ q # e
      BY <1>1, <1>9, <1>15, <2>3, <3>2 DEF Matches, SectorsOf
    <3> QED
      BY <3>1, <3>2
  <2> QED
    BY <2>1, <2>2, <2>3 DEF Matches, Occupies, SectorsOf
<1>18. (Matches(meta, wanted))'
  <2>1. ASSUME NEW o \in Entries, NEW q \in Entries, o # q,
               (Intact(meta, wanted, o))', (Intact(meta, wanted, q))'
        PROVE  SectorsOf(meta, o) \cap SectorsOf(meta, q) = {}
    BY <1>1, <1>16, <2>1 DEF Matches
  <2> QED
    BY <1>1, <1>7, <2>1 DEF Matches, Occupies, SectorsOf
<1>19. \A o \in Entries : (Intact(t, after, o))' =>
           \A i \in 1 .. t.entries[o].size :
               data[Home(t, o, i)] = after'[t.entries[o].name][i]
  <2> SUFFICES ASSUME NEW o \in Entries, (Intact(t, after, o))', NEW i \in 1 .. t.entries[o].size
               PROVE  data[Home(t, o, i)] = after'[t.entries[o].name][i]
    OBVIOUS
  <2>1. o # e
    BY <1>10
  <2>2. Intact(meta, wanted, o) /\ t.entries[o] = meta.entries[o]
    BY <1>9, <1>15, <2>1
  <2>3. after'[t.entries[o].name] = wanted[meta.entries[o].name]
    BY <1>12, <1>13, <2>2 DEF Intact
  <2> QED
    BY <1>1, <2>2, <2>3 DEF Home
<1>20. \A o \in Entries : (Intact(meta, wanted, o))' =>
           \A i \in 1 .. meta.entries[o].size :
               data[Home(meta, o, i)] = wanted'[meta.entries[o].name][i]
  BY <1>1, <1>7, <1>16
<1> QED
  BY <1>1, <1>7, <1>9, <1>12, <1>14, <1>17, <1>18, <1>19, <1>20, TableCallBegins

\* the first n pages of content are those of v
Begins(content, v, n) == \A i \in 1 .. n : content[i] = v[i]

(***************************************************************************)
(* A call that writes n pages of the file f in entry e: it keeps clear of  *)
(* the other intact files, or counts those it runs into as spoiled.        *)
(***************************************************************************)
LEMMA FileCallBegins ==
    ASSUME FSInv, NEW function, Call(function),
           NEW f \in Names, NEW e \in Entries, Has(e, f), NEW n \in 1 .. MaxPages,
           NEW content, Fits(content, Offset(e), SectorsFor(n)), n <= Len(content),
           NEW tail, (tail = <<>> /\ n = Size(e)) \/ tail = UpdateSize(e, n),
           NEW v \in Contents \ {Absent}, v # Unknown => Len(v) = n,
           NEW plan, plan = EraseSectors(Offset(e), SectorsFor(n)) \o ProgramPages(Offset(e), content),
           Begin(plan \o tail, [wanted EXCEPT ![f] = Unknown], [wanted EXCEPT ![f] = v]),
           spoiled' \subseteq Names, spoiled \ {f} \subseteq spoiled',
           v # Unknown /\ f \notin spoiled' => Begins(content, v, n),
           \A o \in Others(e) : meta.entries[o].name \notin spoiled' =>
               Area(Offset(e), SectorsFor(n)) \cap DataArea(o) = {}
    PROVE  (FSInv)'
<1>1. /\ todo = <<>> /\ up' = TRUE /\ calls' \in 0 .. MaxCalls /\ meta \in Table
      /\ FSTypeOK /\ TableOK(meta) /\ meta.magic /\ Matches(meta, wanted)
      /\ \A o \in Entries : Intact(meta, wanted, o) =>
             \A i \in 1 .. meta.entries[o].size :
                 data[Home(meta, o, i)] = wanted[meta.entries[o].name][i]
  BY CallAtRest
<1>2. /\ todo' = plan \o tail /\ meta' = meta /\ data' = data /\ failures' = failures
      /\ wanted' = [wanted EXCEPT ![f] = Unknown] /\ after' = [wanted EXCEPT ![f] = v]
  BY DEF Begin
<1>3. /\ wanted \in [Names -> Contents] /\ spoiled \subseteq Names /\ failures \in 0 .. MaxFailures
      /\ meta.entries[e].status = "OCCUPIED" /\ meta.entries[e].name = f /\ meta.entries[e] \in Entry
  BY <1>1 DEF FSTypeOK, Has, Occupied, Table
<1>4. /\ wanted' \in [Names -> Contents] /\ after' \in [Names -> Contents]
      /\ \A g \in Names : g # f => wanted'[g] = wanted[g] /\ after'[g] = wanted[g]
      /\ after'[f] = v /\ wanted'[f] = Unknown /\ failures' \in 0 .. MaxFailures
  BY <1>2, <1>3 DEF Contents
<1>5. PICK s : s = Offset(e)
  OBVIOUS
<1>6. PICK m : m = SectorsFor(n)
  OBVIOUS
<1>7. PICK t : t = TableWith(e, [meta.entries[e] EXCEPT !.size = n])
  OBVIOUS
<1>8. /\ t \in Table /\ t.magic = meta.magic /\ t.entries[e].size = n
      /\ t.entries[e].status = "OCCUPIED" /\ t.entries[e].name = f /\ t.entries[e].offset = s
      /\ \A o \in Entries : o # e => t.entries[o] = meta.entries[o]
  <2>0. n \in 0 .. MaxPages
    BY PicoFSAssumption
  <2>1. [meta.entries[e] EXCEPT !.size = n] \in Entry
    BY <1>3, <2>0 DEF Entry
  <2> QED
    BY <1>1, <1>3, <1>5, <1>7, <2>1 DEF Table, TableWith, Entry, Offset
<1>9. n = Size(e) => t = meta
  <2>1. n = Size(e) => [meta.entries[e] EXCEPT !.size = n] = meta.entries[e]
    BY <1>3 DEF Size, Entry
  <2>2. [meta EXCEPT !.entries[e] = meta.entries[e]] = meta
    BY <1>1 DEF Table
  <2> QED
    BY <1>7, <2>1, <2>2 DEF TableWith
<1>10. (tail = <<>> /\ t = meta') \/ tail = WriteTable(t)
  BY <1>2, <1>7, <1>9 DEF UpdateSize
<1>11. /\ n \in Nat \ {0} /\ s \in Nat \ {0} /\ m \in Nat \ {0} /\ s + m <= FlashSectors
       /\ MaxPages \in Nat
  <2>1. n \in Nat \ {0} /\ n \in 0 .. MaxPages /\ MaxPages \in Nat
    BY PicoFSAssumption
  <2>2. s \in Nat \ {0} /\ m \in Nat /\ s + m <= FlashSectors
    BY <1>1, <1>3, <1>5, <1>6, <2>1, RoomForFile DEF Offset
  <2>3. Reserved(n) \in Nat \ {0} /\ Reserved(n) = m
    BY <1>6, <2>1, SectorsForSize DEF Reserved
  <2> QED
    BY <2>1, <2>2, <2>3
<1>12. /\ todo' \in Seq(Op) /\ todo' # <<>> /\ (Shape)' /\ (Planned)' /\ (Target)' = t
       /\ ~(TableAtRisk)'
       /\ \A a \in Pages : a \div SectorPages \notin s .. s + m - 1 => (Untouched(a))'
       /\ \A p \in 1 .. Len(content) : (WillHold(s * SectorPages + p - 1, content[p]))'
  <2>1. Fits(content, s, m) /\ m # 0 /\ plan = EraseSectors(s, m) \o ProgramPages(s, content)
    BY <1>5, <1>6, <1>11
  <2>2. /\ Fits(content, s, m) /\ m # 0 /\ plan = EraseSectors(s, m) \o ProgramPages(s, content)
        /\ t \in Table /\ ((tail = <<>> /\ t = meta') \/ tail = WriteTable(t))
        /\ todo' = plan \o tail
    BY <1>2, <1>8, <1>10, <2>1
  <2>3. todo' \in Seq(Op) /\ todo' # <<>>
    BY <2>2, DataCall
  <2>4. (Shape)'
    BY <2>2, DataCall
  <2>5. (Planned)'
    BY <2>2, DataCall
  <2>6. (Target)' = t
    BY <2>2, DataCall
  <2>7. \A a \in Pages : a \div SectorPages \notin s .. s + m - 1 => (Untouched(a))'
    BY <2>2, DataCall
  <2>8. \A p \in 1 .. Len(content) : (WillHold(s * SectorPages + p - 1, content[p]))'
    BY <2>2, DataCall
  <2>9. ~(TableAtRisk)'
    BY <2>2, DataCall
  <2> QED
    BY <2>3, <2>4, <2>5, <2>6, <2>7, <2>8, <2>9
<1>13. /\ \A o \in Entries : Occupies(t, o) <=> Occupies(meta, o)
       /\ \A o \in Entries : Occupies(meta, o) => meta.entries[o].name \in Names
       /\ \A o \in Entries : Occupies(meta, o) /\ o # e => meta.entries[o].name # f
       /\ \A o \in Entries : t.entries[o].name = meta.entries[o].name
  <2>1. \A o \in Entries : t.entries[o].status = meta.entries[o].status
                           /\ t.entries[o].name = meta.entries[o].name
    BY <1>3, <1>8
  <2> QED
    BY <1>1, <1>3, <2>1 DEF TableOK, Occupies
<1>14. TableOK(t)
  <2>1. \A o \in Entries : /\ t.entries[o].status = meta.entries[o].status
                           /\ t.entries[o].offset = meta.entries[o].offset
                           /\ t.entries[o].name = meta.entries[o].name
    BY <1>3, <1>5, <1>8 DEF Offset
  <2>2. \A o \in Entries : \A q \in 1 .. o - 1 : q \in Entries
    BY PicoFSAssumption DEF Entries
  <2>3. \A o, q \in Entries :
            Occupies(t, o) /\ Occupies(t, q) /\ t.entries[o].name = t.entries[q].name => o = q
    BY <1>1, <1>13, <2>1 DEF TableOK
  <2>4. \A o \in Entries : t.entries[o].status # "FREE" =>
            /\ \A q \in 1 .. o - 1 : t.entries[q].status # "FREE"
            /\ t.entries[o].offset \in 1 .. 1 + (o - 1) * Reserved(MaxPages)
    BY <1>1, <2>1, <2>2 DEF TableOK
  <2> QED
    BY <1>1, <1>8, <1>13, <2>3, <2>4 DEF TableOK
<1>15. ASSUME NEW o \in Entries, o # e, Occupies(meta, o), wanted[meta.entries[o].name] # Unknown,
              meta.entries[o].name \notin spoiled'
       PROVE  /\ Intact(meta, wanted, o)
              /\ (s .. s + m - 1) \cap SectorsOf(meta, o) = {}
              /\ \A i \in 1 .. meta.entries[o].size :
                     /\ Home(meta, o, i) \in Pages
                     /\ (Untouched(Home(meta, o, i)))'
                     /\ data[Home(meta, o, i)] = wanted[meta.entries[o].name][i]
  <2>1. Intact(meta, wanted, o)
    BY <1>13, <1>15 DEF Intact
  <2>2. (s .. s + m - 1) \cap SectorsOf(meta, o) = {}
    <3>1. o \in Others(e)
      BY <1>15 DEF Others, Occupied, Occupies
    <3>2. Area(Offset(e), SectorsFor(n)) \cap DataArea(o) = {}
      BY <1>15, <3>1
    <3>3. DataArea(o) = SectorsOf(meta, o)
      BY DEF DataArea, SectorsOf, Offset, Size
    <3> QED
      BY <1>5, <1>6, <3>2, <3>3 DEF Area
  <2>3. ASSUME NEW i \in 1 .. meta.entries[o].size
        PROVE  /\ Home(meta, o, i) \in Pages
               /\ (Untouched(Home(meta, o, i)))'
    <3>1. meta.entries[o].size \in 0 .. MaxPages /\ meta.entries[o].status # "FREE"
      BY <1>1, <1>15 DEF Occupies, Table, Entry
    <3>2. i \in 1 .. MaxPages /\ i \in Nat \ {0} /\ meta.entries[o].size \in Nat
      BY <1>11, <3>1
    <3>3. Home(meta, o, i) \in Pages
      BY <1>1, <3>1, <3>2, HomeIsPage
    <3>4. PICK b : b = meta.entries[o].offset
      OBVIOUS
    <3>5. b \in Nat
      BY <1>1, <3>1, <3>4 DEF Table, Entry
    <3>6. PICK c : c = SectorsFor(meta.entries[o].size)
      OBVIOUS
    <3>7. c \in Nat /\ (i - 1) \div SectorPages \in 0 .. c - 1
      BY <3>2, <3>6, SectorsForSize
    <3>8. PICK a \in Pages : a = Home(meta, o, i)
      BY <3>3
    <3>9. a \div SectorPages = b + (i - 1) \div SectorPages
      BY <3>2, <3>4, <3>5, <3>8, PageAt DEF Home
    <3>10. a \div SectorPages \in b .. b + c - 1
      BY <3>5, <3>7, <3>9
    <3>11. a \div SectorPages \in SectorsOf(meta, o)
      BY <3>4, <3>6, <3>10 DEF SectorsOf, Area
    <3>12. (Untouched(a))'
      BY <1>12, <2>2, <3>11
    <3> QED
      BY <1>2, <3>3, <3>8, <3>12 DEF Home, Untouched
  <2> QED
    BY <1>1, <2>1, <2>2, <2>3
<1>16. \A o \in Entries : (Intact(t, after, o))' /\ o # e =>
           /\ Occupies(meta, o) /\ wanted[meta.entries[o].name] # Unknown
           /\ meta.entries[o].name \notin spoiled' /\ t.entries[o] = meta.entries[o]
           /\ after'[t.entries[o].name] = wanted[meta.entries[o].name]
  BY <1>4, <1>8, <1>13 DEF Intact, Occupies
<1>17. \A o \in Entries : (Intact(meta, wanted, o))' =>
           /\ o # e /\ Occupies(meta, o) /\ wanted[meta.entries[o].name] # Unknown
           /\ meta.entries[o].name \notin spoiled'
           /\ wanted'[meta.entries[o].name] = wanted[meta.entries[o].name]
  <2> SUFFICES ASSUME NEW o \in Entries, (Intact(meta, wanted, o))'
               PROVE  /\ o # e /\ Occupies(meta, o) /\ wanted[meta.entries[o].name] # Unknown
                      /\ meta.entries[o].name \notin spoiled'
                      /\ wanted'[meta.entries[o].name] = wanted[meta.entries[o].name]
    OBVIOUS
  <2>1. /\ Occupies(meta, o) /\ wanted'[meta.entries[o].name] # Unknown
        /\ meta.entries[o].name \notin spoiled'
    BY <1>2 DEF Intact, Occupies
  <2>2. o # e
    BY <1>3, <1>4, <2>1
  <2> QED
    BY <1>4, <1>13, <2>1, <2>2
<1>18. (Matches(t, after))'
  <2>1. ASSUME NEW o \in Entries, Occupies(t, o)
        PROVE  LET g == t.entries[o].name
               IN  after'[g] = Unknown \/ (after'[g] # Absent /\ Len(after'[g]) = t.entries[o].size)
    <3>1. CASE o = e
      BY <1>4, <1>8, <3>1
    <3>2. CASE o # e
      BY <1>1, <1>4, <1>8, <1>13, <2>1, <3>2 DEF Matches
    <3> QED
      BY <3>1, <3>2
  <2>2. ASSUME NEW g \in Names, after'[g] \notin {Absent, Unknown}
        PROVE  \E o \in Entries : Occupies(t, o) /\ t.entries[o].name = g
    <3>1. CASE g = f
      BY <1>8, <3>1 DEF Occupies
    <3>2. CASE g # f
      <4>1. wanted[g] \notin {Absent, Unknown}
        BY <1>4, <2>2, <3>2
      <4>2. PICK o \in Entries : Occupies(meta, o) /\ meta.entries[o].name = g
        BY <1>1, <4>1 DEF Matches
      <4> QED
        BY <1>13, <4>2
    <3> QED
      BY <3>1, <3>2
  <2>3. ASSUME NEW o \in Entries, NEW q \in Entries, o # q,
               (Intact(t, after, o))', (Intact(t, after, q))'
        PROVE  SectorsOf(t, o) \cap SectorsOf(t, q) = {}
    <3>1. SectorsOf(t, e) = s .. s + m - 1
      BY <1>6, <1>8 DEF SectorsOf, Area
    <3>2. CASE o # e /\ q # e
      <4>1. SectorsOf(t, o) = SectorsOf(meta, o) /\ SectorsOf(t, q) = SectorsOf(meta, q)
        BY <1>8, <3>2 DEF SectorsOf
      <4>2. Intact(meta, wanted, o) /\ Intact(meta, wanted, q)
        BY <1>15, <1>16, <2>3, <3>2
      <4> QED
        BY <1>1, <2>3, <4>1, <4>2 DEF Matches
    <3>3. CASE o = e
      <4>1. SectorsOf(t, q) = SectorsOf(meta, q)
        BY <1>8, <2>3, <3>3 DEF SectorsOf
      <4>2. (s .. s + m - 1) \cap SectorsOf(meta, q) = {}
        BY <1>15, <1>16, <2>3, <3>3
      <4> QED
        BY <3>1, <3>3, <4>1, <4>2
    <3>4. CASE q = e
      <4>1. SectorsOf(t, o) = SectorsOf(meta, o)
        BY <1>8, <2>3, <3>4 DEF SectorsOf
      <4>2. (s .. s + m - 1) \cap SectorsOf(meta, o) = {}
        BY <1>15, <1>16, <2>3, <3>4
      <4> QED
        BY <3>1, <3>4, <4>1, <4>2
    <3> QED
      BY <3>2, <3>3, <3>4
  <2> QED
    BY <2>1, <2>2, <2>3 DEF Matches, Occupies, SectorsOf
<1>19. (Matches(meta, wanted))'
  <2>1. ASSUME NEW o \in Entries, Occupies(meta, o)
        PROVE  LET g == meta.entries[o].name
               IN  wanted'[g] = Unknown \/ (wanted'[g] # Absent /\ Len(wanted'[g]) = meta.entries[o].size)
    BY <1>1, <1>3, <1>4, <1>13, <2>1 DEF Matches
  <2>2. ASSUME NEW g \in Names, wanted'[g] \notin {Absent, Unknown}
        PROVE  \E o \in Entries : Occupies(meta, o) /\ meta.entries[o].name = g
    BY <1>1, <1>4, <2>2 DEF Matches
  <2>3. ASSUME NEW o \in Entries, NEW q \in Entries, o # q,
               (Intact(meta, wanted, o))', (Intact(meta, wanted, q))'
        PROVE  SectorsOf(meta, o) \cap SectorsOf(meta, q) = {}
    <3>1. Intact(meta, wanted, o) /\ Intact(meta, wanted, q)
      BY <1>15, <1>17, <2>3
    <3> QED
      BY <1>1, <2>3, <3>1 DEF Matches
  <2> QED
    BY <1>2, <2>1, <2>2, <2>3 DEF Matches, Occupies, SectorsOf
<1>20. \A o \in Entries : (Intact(t, after, o))' =>
           \A i \in 1 .. t.entries[o].size :
               (WillHold(Home(t, o, i), after[t.entries[o].name][i]))'
  <2> SUFFICES ASSUME NEW o \in Entries, (Intact(t, after, o))', NEW i \in 1 .. t.entries[o].size
               PROVE  (WillHold(Home(t, o, i), after[t.entries[o].name][i]))'
    OBVIOUS
  <2>1. CASE o = e
    <3>1. v # Unknown /\ f \notin spoiled'
      BY <1>4, <1>8, <2>1 DEF Intact
    <3>2. i \in 1 .. n /\ content[i] = v[i]
      BY <1>8, <2>1, <3>1 DEF Begins
    <3>3. i \in 1 .. Len(content)
      <4>1. Len(content) \in Nat
        BY LenProperties DEF Fits
      <4> QED
        BY <1>11, <3>2, <4>1
    <3>4. (WillHold(s * SectorPages + i - 1, content[i]))'
      BY <1>12, <3>3
    <3>5. Home(t, o, i) = s * SectorPages + i - 1 /\ after'[t.entries[o].name][i] = content[i]
      BY <1>4, <1>8, <2>1, <3>2 DEF Home
    <3> QED
      BY <3>4, <3>5 DEF WillHold, Untouched, Home
  <2>2. CASE o # e
    <3>1. /\ Occupies(meta, o) /\ wanted[meta.entries[o].name] # Unknown
          /\ meta.entries[o].name \notin spoiled' /\ t.entries[o] = meta.entries[o]
          /\ after'[t.entries[o].name] = wanted[meta.entries[o].name]
      BY <1>16, <2>2
    <3>2. Home(t, o, i) = Home(meta, o, i)
      BY <3>1 DEF Home
    <3>3. /\ (Untouched(Home(meta, o, i)))'
          /\ data[Home(meta, o, i)] = wanted[meta.entries[o].name][i]
      BY <1>15, <2>2, <3>1
    <3>4. data'[Home(t, o, i)] = after'[t.entries[o].name][i]
      BY <1>2, <3>1, <3>2, <3>3
    <3>5. (Untouched(Home(t, o, i)))'
      BY <1>2, <3>2, <3>3 DEF Untouched, Home
    <3> QED
      BY <3>4, <3>5 DEF WillHold, Home
  <2> QED
    BY <2>1, <2>2
<1>21. \A o \in Entries : (Intact(meta, wanted, o))' =>
           \A i \in 1 .. meta.entries[o].size :
               /\ data[Home(meta, o, i)] = wanted'[meta.entries[o].name][i]
               /\ (Untouched(Home(meta, o, i)))'
  BY <1>15, <1>17
<1> QED
  BY <1>1, <1>2, <1>4, <1>8, <1>12, <1>14, <1>18, <1>19, <1>20, <1>21, CallBegins

(***************************************************************************)
(* fs_write.                                                               *)
(***************************************************************************)
LEMMA WriteKeeps ==
    ASSUME FSInv, NEW f \in Names, NEW d \in Data, NEW n \in 1 .. MaxPages, Write(f, d, n)
    PROVE  (FSInv)'
<1>1. Call("write") /\ meta \in Table /\ FSTypeOK /\ TableOK(meta) /\ spoiled' = spoiled \ {f}
  BY CallAtRest DEF Write
<1>2. PICK v : v = [i \in 1 .. n |-> d]
  OBVIOUS
<1>3. PICK e \in Entries :
          /\ Has(e, f)
          /\ \A o \in Others(e) : ~Hits(Offset(e), SectorsFor(n), o)
          /\ Begin(EraseSectors(Offset(e), SectorsFor(n))
                      \o ProgramPages(Offset(e), v)
                      \o (IF n = Size(e) THEN <<>> ELSE UpdateSize(e, n)),
                   [wanted EXCEPT ![f] = Unknown], [wanted EXCEPT ![f] = v])
  BY <1>2 DEF Write, Finds
<1>4. PICK plan : plan = EraseSectors(Offset(e), SectorsFor(n)) \o ProgramPages(Offset(e), v)
  OBVIOUS
<1>5. PICK tail : tail = IF n = Size(e) THEN <<>> ELSE UpdateSize(e, n)
  OBVIOUS
<1>6. Begin(plan \o tail, [wanted EXCEPT ![f] = Unknown], [wanted EXCEPT ![f] = v])
  BY <1>3, <1>4, <1>5
<1>7. /\ n \in Nat \ {0} /\ n \in 0 .. MaxPages /\ v \in Seq(Data) /\ Len(v) = n
      /\ \A i \in 1 .. n : v[i] = d
  <2>1. n \in Nat \ {0} /\ n \in 0 .. MaxPages
    BY PicoFSAssumption
  <2> QED
    BY <1>2, <2>1
<1>8. v \in Contents \ {Absent} /\ v # Unknown
  <2>1. Len(v) <= MaxPages
    BY <1>7
  <2>2. v \in BoundedSeq(Data, MaxPages)
    BY <1>7, <2>1, ShortSequence, Zenon
  <2> QED
    BY <2>2, PicoFSAssumption DEF Contents
<1>9. Fits(v, Offset(e), SectorsFor(n))
  <2>1. meta.entries[e].status # "FREE"
    BY <1>3 DEF Has, Occupied
  <2>2. /\ Offset(e) \in Nat \ {0} /\ SectorsFor(n) \in Nat
        /\ Offset(e) + SectorsFor(n) <= FlashSectors
    BY <1>1, <1>7, <2>1, RoomForFile DEF Offset
  <2>3. \A p \in 1 .. Len(v) : (p - 1) \div SectorPages \in 0 .. SectorsFor(n) - 1
    BY <1>7, SectorsForSize
  <2>4. v \in Seq(Data \cup {Blank, Mixed})
    BY <1>7
  <2> QED
    BY <2>2, <2>3, <2>4 DEF Fits
<1>10. \A o \in Others(e) : Area(Offset(e), SectorsFor(n)) \cap DataArea(o) = {}
  <2> TAKE o \in Others(e)
  <2>1. o \in Entries /\ meta.entries[o].status # "FREE" /\ Size(o) \in 0 .. MaxPages
    BY <1>1 DEF Others, Occupied, Size, Table, Entry
  <2>2. Offset(o) \in Nat /\ SectorsFor(Size(o)) \in Nat
    BY <1>1, <2>1, RoomForFile DEF Offset
  <2>3. Offset(e) \in Nat /\ SectorsFor(n) \in Nat
    BY <1>9 DEF Fits
  <2>4. \/ Offset(e) >= Offset(o) + SectorsFor(Size(o))
        \/ Offset(e) + SectorsFor(n) <= Offset(o)
    BY <1>3, <2>2, <2>3 DEF Hits
  <2>5. PICK s, m, b, c \in Nat :
            s = Offset(e) /\ m = SectorsFor(n) /\ b = Offset(o) /\ c = SectorsFor(Size(o))
    BY <2>2, <2>3
  <2>6. (s .. s + m - 1) \cap (b .. b + c - 1) = {}
    BY <2>4, <2>5
  <2> QED
    BY <2>5, <2>6 DEF Area, DataArea
<1>11. spoiled' \subseteq Names /\ spoiled \ {f} \subseteq spoiled'
  BY <1>1 DEF FSTypeOK
<1>12. (tail = <<>> /\ n = Size(e)) \/ tail = UpdateSize(e, n)
  BY <1>5
<1>13. /\ Call("write") /\ Has(e, f) /\ n \in 1 .. MaxPages
       /\ Fits(v, Offset(e), SectorsFor(n)) /\ n <= Len(v)
       /\ v \in Contents \ {Absent} /\ (v # Unknown => Len(v) = n)
       /\ (v # Unknown /\ f \notin spoiled' => Begins(v, v, n))
       /\ \A o \in Others(e) : meta.entries[o].name \notin spoiled' =>
              Area(Offset(e), SectorsFor(n)) \cap DataArea(o) = {}
  BY <1>1, <1>3, <1>7, <1>8, <1>9, <1>10 DEF Begins
<1> QED
  BY <1>4, <1>6, <1>11, <1>12, <1>13, FileCallBegins

(***************************************************************************)
(* What fs_write_append programs: what it has read, the new page, and the  *)
(* rest of the last sector as it was erased.                               *)
(***************************************************************************)
LEMMA Appended ==
    ASSUME FSTypeOK, meta \in Table, TableOK(meta),
           NEW e \in Entries, Occupied(e), NEW d \in Data,
           NEW n, n = Size(e) + 1, n <= MaxPages,
           NEW content, content = Append(Read(e), d) \o Padding(n)
    PROVE  /\ n \in 1 .. MaxPages /\ Fits(content, Offset(e), SectorsFor(n)) /\ n <= Len(content)
           /\ \A i \in 1 .. n - 1 : content[i] = data[Home(meta, e, i)]
           /\ content[n] = d
<1> DEFINE S == Data \cup {Blank, Mixed}  r == Read(e)  q == Padding(n)
           k == SectorsFor(n) * SectorPages
<1>1. /\ Size(e) \in 0 .. MaxPages /\ meta.entries[e].status # "FREE" /\ Size(e) \in Nat
      /\ n \in 1 .. MaxPages /\ n \in 0 .. MaxPages /\ n \in Nat /\ n - 1 = Size(e)
  <2>1. Size(e) \in 0 .. MaxPages /\ meta.entries[e].status # "FREE"
    BY DEF Occupied, Size, Table, Entry
  <2> QED
    BY <2>1, PicoFSAssumption
<1>2. /\ Offset(e) \in Nat \ {0} /\ SectorsFor(n) \in Nat
      /\ Offset(e) + SectorsFor(n) <= FlashSectors
  BY <1>1, RoomForFile DEF Offset
<1>3. /\ k \in Nat /\ n <= k
      /\ \A i \in 1 .. k : (i - 1) \div SectorPages \in 0 .. SectorsFor(n) - 1
  <2>1. SectorPages \in Nat
    BY PicoFSAssumption
  <2>2. k \in Nat
    BY <1>2, <2>1
  <2>3. n <= k
    BY <1>1, SectorsForSize
  <2>4. \A i \in 1 .. k : (i - 1) \div SectorPages \in 0 .. SectorsFor(n) - 1
    BY <1>1, SectorsForSize
  <2> QED
    BY <2>2, <2>3, <2>4
<1>4. r = [i \in 1 .. Size(e) |-> data[Home(meta, e, i)]]
  BY DEF Read, Home, Offset
<1>5. \A i \in 1 .. Size(e) : data[Home(meta, e, i)] \in S
  <2> TAKE i \in 1 .. Size(e)
  <2>1. i \in 1 .. MaxPages
    <3>1. MaxPages \in Nat
      BY PicoFSAssumption
    <3> QED
      BY <1>1, <3>1
  <2>2. Home(meta, e, i) \in Pages
    BY <1>1, <2>1, HomeIsPage
  <2> QED
    BY <2>2 DEF FSTypeOK
<1>6. q = [i \in 1 .. k - n |-> Blank] /\ k - n \in Nat
  BY <1>1, <1>3 DEF Padding
<1> HIDE DEF r, q, k
<1>7. r \in Seq(S) /\ Len(r) = n - 1 /\ \A i \in 1 .. n - 1 : r[i] = data[Home(meta, e, i)]
  <2>1. r \in [1 .. n - 1 -> S] /\ \A i \in 1 .. n - 1 : r[i] = data[Home(meta, e, i)]
    BY <1>1, <1>4, <1>5
  <2> HIDE DEF S
  <2>2. n - 1 \in Nat
    BY <1>1
  <2> QED
    BY <2>1, <2>2
<1>8. q \in Seq(S) /\ Len(q) = k - n
  <2>1. q \in [1 .. k - n -> S]
    BY <1>6
  <2> QED
    BY <1>6, <2>1
<1>9. PICK b : b = Append(r, d)
  OBVIOUS
<1>10. /\ b \in Seq(S) /\ Len(b) = n /\ b[n] = d
       /\ \A i \in 1 .. n - 1 : b[i] = r[i]
  <2>1. d \in S /\ Len(r) + 1 = n
    BY <1>1, <1>7
  <2> QED
    BY <1>1, <1>7, <1>9, <2>1, AppendProperties
<1>11. content = b \o q
  BY <1>9 DEF r, q
<1>12. /\ b \o q \in Seq(S) /\ Len(b \o q) = n + (k - n)
       /\ \A i \in 1 .. n + (k - n) : (b \o q)[i] = IF i <= n THEN b[i] ELSE q[i - n]
  <2> HIDE DEF S
  <2>1. /\ b \o q \in Seq(S) /\ Len(b \o q) = Len(b) + Len(q)
        /\ \A i \in 1 .. Len(b) + Len(q) :
               (b \o q)[i] = IF i <= Len(b) THEN b[i] ELSE q[i - Len(b)]
    BY <1>8, <1>10, ConcatProperties
  <2> QED
    BY <1>8, <1>10, <2>1
<1>13. content \in Seq(S) /\ Len(content) = k /\ \A i \in 1 .. n : content[i] = b[i]
  <2>1. n + (k - n) = k
    BY <1>1, <1>3
  <2>2. \A i \in 1 .. n : i \in 1 .. k /\ i <= n
    BY <1>1, <1>3
  <2> QED
    BY <1>11, <1>12, <2>1, <2>2
<1>14. Fits(content, Offset(e), SectorsFor(n))
  BY <1>2, <1>3, <1>13 DEF Fits
<1>15. content[n] = d /\ \A i \in 1 .. n - 1 : content[i] = data[Home(meta, e, i)]
  <2>1. n \in 1 .. n /\ \A i \in 1 .. n - 1 : i \in 1 .. n
    BY <1>1
  <2> QED
    BY <1>7, <1>10, <1>13, <2>1
<1> QED
  BY <1>1, <1>3, <1>13, <1>14, <1>15

(***************************************************************************)
(* fs_write_append.                                                        *)
(***************************************************************************)
LEMMA WriteAppendKeeps ==
    ASSUME FSInv, NEW f \in Names, NEW d \in Data, WriteAppend(f, d)
    PROVE  (FSInv)'
<1>1. /\ Call("append") /\ meta \in Table /\ FSTypeOK /\ TableOK(meta) /\ Matches(meta, wanted)
      /\ \A o \in Entries : Intact(meta, wanted, o) =>
             \A i \in 1 .. meta.entries[o].size :
                 data[Home(meta, o, i)] = wanted[meta.entries[o].name][i]
  <2>1. Call("append")
    BY DEF WriteAppend
  <2> QED
    BY <2>1, CallAtRest
<1>2. PICK e \in Entries :
          LET n == Size(e) + 1
              area == Area(Offset(e), SectorsFor(n))
          IN  /\ Has(e, f) /\ n <= MaxPages
              /\ Begin(EraseSectors(Offset(e), SectorsFor(n))
                          \o ProgramPages(Offset(e), Append(Read(e), d) \o Padding(n))
                          \o UpdateSize(e, n),
                       [wanted EXCEPT ![f] = Unknown],
                       [wanted EXCEPT ![f] = IF @ = Unknown THEN Unknown ELSE Append(@, d)])
              /\ spoiled' = spoiled \cup {g \in Names : \E o \in Others(e) : Has(o, g) /\ Overlaps(area, o)}
  BY DEF WriteAppend, Finds
<1>3. PICK n : n = Size(e) + 1
  OBVIOUS
<1>4. PICK content : content = Append(Read(e), d) \o Padding(n)
  OBVIOUS
<1>5. PICK plan : plan = EraseSectors(Offset(e), SectorsFor(n)) \o ProgramPages(Offset(e), content)
  OBVIOUS
<1>6. PICK tail : tail = UpdateSize(e, n)
  OBVIOUS
<1>7. PICK v : v = IF wanted[f] = Unknown THEN Unknown ELSE Append(wanted[f], d)
  OBVIOUS
<1>8. wanted \in [Names -> Contents] /\ spoiled \subseteq Names
  BY <1>1 DEF FSTypeOK
<1>9. Begin(plan \o tail, [wanted EXCEPT ![f] = Unknown], [wanted EXCEPT ![f] = v])
  <2>1. [wanted EXCEPT ![f] = IF @ = Unknown THEN Unknown ELSE Append(@, d)] = [wanted EXCEPT ![f] = v]
    BY <1>7, <1>8
  <2> QED
    BY <1>2, <1>3, <1>4, <1>5, <1>6, <2>1
<1>10. Has(e, f) /\ Occupied(e) /\ n <= MaxPages /\ meta.entries[e].name = f
  BY <1>2, <1>3 DEF Has
<1>11. /\ n \in 1 .. MaxPages /\ Fits(content, Offset(e), SectorsFor(n)) /\ n <= Len(content)
       /\ \A i \in 1 .. n - 1 : content[i] = data[Home(meta, e, i)]
       /\ content[n] = d
  <2>1. /\ FSTypeOK /\ meta \in Table /\ TableOK(meta) /\ Occupied(e)
        /\ n = Size(e) + 1 /\ n <= MaxPages /\ content = Append(Read(e), d) \o Padding(n)
    BY <1>1, <1>3, <1>4, <1>10
  <2>2. n \in 1 .. MaxPages
    BY <2>1, Appended
  <2>3. Fits(content, Offset(e), SectorsFor(n))
    BY <2>1, Appended
  <2>4. n <= Len(content)
    BY <2>1, Appended
  <2>5. \A i \in 1 .. n - 1 : content[i] = data[Home(meta, e, i)]
    BY <2>1, Appended
  <2>6. content[n] = d
    BY <2>1, Appended
  <2> QED
    BY <2>2, <2>3, <2>4, <2>5, <2>6
<1>12. wanted[f] # Unknown =>
           /\ wanted[f] \in Seq(Data) /\ Len(wanted[f]) = Size(e)
  <2>1. wanted[f] \in Contents /\ Occupies(meta, e)
    BY <1>8, <1>10 DEF Occupied, Occupies
  <2>2. wanted[f] # Unknown => wanted[f] # Absent /\ Len(wanted[f]) = Size(e)
    BY <1>1, <1>10, <2>1 DEF Matches, Size
  <2>3. wanted[f] # Unknown => wanted[f] \in BoundedSeq(Data, MaxPages)
    BY <2>1, <2>2 DEF Contents
  <2> QED
    BY <2>2, <2>3, ShortSequence
<1>13. wanted[f] # Unknown =>
           /\ v \in Seq(Data) /\ Len(v) = n /\ v[n] = d
           /\ \A i \in 1 .. n - 1 : v[i] = wanted[f][i]
  <2> SUFFICES ASSUME wanted[f] # Unknown
               PROVE  /\ v \in Seq(Data) /\ Len(v) = n /\ v[n] = d
                      /\ \A i \in 1 .. n - 1 : v[i] = wanted[f][i]
    OBVIOUS
  <2>1. PICK w \in Seq(Data) : w = wanted[f]
    BY <1>12
  <2>2. v = Append(w, d) /\ Len(w) = Size(e)
    BY <1>7, <1>12, <2>1
  <2>3. Append(w, d) \in Seq(Data) /\ Len(Append(w, d)) = Len(w) + 1 /\ Append(w, d)[Len(w) + 1] = d
        /\ \A i \in 1 .. Len(w) : Append(w, d)[i] = w[i]
    BY AppendProperties
  <2>4. n = Len(w) + 1 /\ n - 1 = Len(w)
    BY <1>3, <2>1, <2>2, LenProperties
  <2> QED
    BY <2>1, <2>2, <2>3, <2>4
<1>14. v \in Contents \ {Absent} /\ (v # Unknown => Len(v) = n)
  <2>1. wanted[f] = Unknown => v = Unknown
    BY <1>7
  <2>2. wanted[f] # Unknown => v \in BoundedSeq(Data, MaxPages)
    <3>1. wanted[f] # Unknown => v \in Seq(Data) /\ Len(v) <= MaxPages
      BY <1>10, <1>13
    <3> QED
      BY <3>1, ShortSequence, Zenon
  <2>3. v \in Contents \ {Absent}
    BY <2>1, <2>2, PicoFSAssumption DEF Contents
  <2> QED
    BY <1>13, <2>1, <2>3
<1>15. v # Unknown /\ f \notin spoiled' => Begins(content, v, n)
  <2> SUFFICES ASSUME v # Unknown, f \notin spoiled', NEW i \in 1 .. n
               PROVE  content[i] = v[i]
    BY DEF Begins
  <2>1. wanted[f] # Unknown
    BY <1>7
  <2>2. f \notin spoiled
    BY <1>2
  <2>3. Intact(meta, wanted, e)
    BY <1>10, <2>1, <2>2 DEF Intact, Occupied, Occupies
  <2>4. n - 1 = Size(e) /\ n \in Nat
    BY <1>1, <1>3, <1>11 DEF Table, Entry, Size
  <2>5. \A j \in 1 .. n - 1 : data[Home(meta, e, j)] = wanted[f][j]
    BY <1>1, <1>10, <2>3, <2>4 DEF Size
  <2>6. CASE i = n
    BY <1>11, <1>13, <2>1, <2>6
  <2>7. CASE i # n
    <3>1. i \in 1 .. n - 1
      BY <2>4, <2>7
    <3> QED
      BY <1>11, <1>13, <2>1, <2>5, <3>1
  <2> QED
    BY <2>6, <2>7
<1>16. \A o \in Others(e) : meta.entries[o].name \notin spoiled' =>
           Area(Offset(e), SectorsFor(n)) \cap DataArea(o) = {}
  <2> SUFFICES ASSUME NEW o \in Others(e), meta.entries[o].name \notin spoiled'
               PROVE  Area(Offset(e), SectorsFor(n)) \cap DataArea(o) = {}
    OBVIOUS
  <2>1. o \in Entries /\ Occupied(o)
    BY DEF Others
  <2>2. meta.entries[o].name \in Names /\ Has(o, meta.entries[o].name)
    BY <1>1, <2>1 DEF TableOK, Occupied, Occupies, Has
  <2>3. ~Overlaps(Area(Offset(e), SectorsFor(n)), o)
    BY <1>2, <1>3, <2>2
  <2> QED
    BY <2>3 DEF Overlaps
<1>17. spoiled' \subseteq Names /\ spoiled \ {f} \subseteq spoiled'
  BY <1>2, <1>8
<1>18. /\ Call("append") /\ Has(e, f) /\ n \in 1 .. MaxPages
       /\ Fits(content, Offset(e), SectorsFor(n)) /\ n <= Len(content)
       /\ v \in Contents \ {Absent} /\ (v # Unknown => Len(v) = n)
       /\ tail = UpdateSize(e, n)
  BY <1>1, <1>6, <1>10, <1>11, <1>14
<1> QED
  BY <1>5, <1>9, <1>15, <1>16, <1>17, <1>18, FileCallBegins

-----------------------------------------------------------------------------
(* The theorems                                                            *)

(***************************************************************************)
(* The flash as it leaves the factory, before fs_init.                     *)
(***************************************************************************)
LEMMA InitKeeps ==
    ASSUME Init
    PROVE  FSInv
<1>1. /\ meta = ErasedTable /\ data = [a \in Pages |-> Blank] /\ todo = <<>> /\ up = FALSE
      /\ wanted = [f \in Names |-> Absent] /\ after = wanted /\ spoiled = {}
      /\ calls = 0 /\ failures = 0
  BY DEF Init
<1>2. Len(todo) = 0 /\ todo \in Seq(Op) /\ 1 .. Len(todo) = {}
  BY <1>1, EmptySeq
<1>3. wanted \in [Names -> Contents]
  BY <1>1 DEF Contents
<1>4. data \in [Pages -> Data \cup {Blank, Mixed}]
  BY <1>1
<1>5. meta \in [magic : BOOLEAN, entries : [Entries -> Entry]] /\ TableOK(meta)
  BY <1>1, ErasedTableOK DEF Table
<1>6. FSTypeOK
  <2>1. calls \in 0 .. MaxCalls /\ failures \in 0 .. MaxFailures
    BY <1>1, PicoFSAssumption
  <2>2. after \in [Names -> Contents] /\ spoiled \subseteq Names /\ up \in BOOLEAN
    BY <1>1, <1>3
  <2> QED
    BY <1>3, <1>4, <1>5, <2>1, <2>2 DEF FSTypeOK
<1>7. Shape /\ Planned
  BY <1>2 DEF Shape, Planned
<1>8. Target = meta
  BY <1>1 DEF Target
<1>9. \A e \in Entries : ~Occupies(meta, e)
  BY <1>1, ErasedTableOK DEF Occupies
<1>10. Matches(Target, after)
  BY <1>1, <1>8, <1>9 DEF Matches, Intact
<1>11. Stored
  BY <1>8, <1>9 DEF Stored, Intact
<1> QED
  BY <1>1, <1>2, <1>5, <1>6, <1>7, <1>8, <1>10, <1>11 DEF FSInv

(***************************************************************************)
(* The invariant is a formula about the state.                             *)
(***************************************************************************)
LEMMA StutterKeeps ==
    ASSUME FSInv, UNCHANGED vars
    PROVE  (FSInv)'
<1>1. /\ meta' = meta /\ data' = data /\ todo' = todo /\ up' = up /\ wanted' = wanted
      /\ after' = after /\ spoiled' = spoiled /\ calls' = calls /\ failures' = failures
  BY DEF vars
<1>2. (Target)' = Target /\ ((TableAtRisk)' <=> TableAtRisk)
  BY <1>1 DEF Target, TableAtRisk
<1>3. (FSTypeOK)'
  BY <1>1 DEF FSInv, FSTypeOK, Pages, Entries
<1>4. (Shape)'
  BY <1>1 DEF FSInv, Shape, OnData, ProgramsHalf
<1>5. (Planned)'
  BY <1>1 DEF FSInv, Planned, Touches
<1>6. (TableOK(meta))' /\ (TableOK(Target))'
  BY <1>1, <1>2 DEF FSInv, TableOK, Occupies
<1>7. (Matches(Target, after))'
  BY <1>1, <1>2 DEF FSInv, Matches, Occupies, Intact, SectorsOf
<1>8. (Matches(meta, wanted) /\ Resting)' <=> Matches(meta, wanted) /\ Resting
  BY <1>1 DEF Matches, Resting, Occupies, Intact, SectorsOf, Untouched, Home
<1>9. (Stored)'
  BY <1>1, <1>2 DEF FSInv, Stored, Occupies, Intact, WillHold, Untouched, Home
<1> QED
  BY <1>1, <1>2, <1>3, <1>4, <1>5, <1>6, <1>7, <1>8, <1>9 DEF FSInv

(***************************************************************************)
(* The inductive invariant.  Every step of every call that is not          *)
(* fs_compact keeps it, and so does a power failure between any two.       *)
(***************************************************************************)
THEOREM FSInvariant ==
    ASSUME "compact" \notin Calls
    PROVE  Spec => []FSInv
<1>1. Init => FSInv
  BY InitKeeps
<1>2. FSInv /\ [Next]_vars => (FSInv)'
  <2> SUFFICES ASSUME FSInv, [Next]_vars
               PROVE  (FSInv)'
    OBVIOUS
  <2>1. CASE Boots
    BY <2>1, BootsKeeps
  <2>2. CASE FlashStep
    BY <2>2, FlashStepKeeps
  <2>3. CASE PowerFails
    BY <2>3, PowerFailsKeeps
  <2>4. CASE Compact
    BY <2>4 DEF Compact, Call
  <2>5. ASSUME NEW f \in Names, Create(f) PROVE (FSInv)'
    BY <2>5, CreateKeeps
  <2>6. ASSUME NEW f \in Names, Delete(f) PROVE (FSInv)'
    BY <2>6, DeleteKeeps
  <2>7. ASSUME NEW f \in Names, NEW d \in Data, WriteAppend(f, d) PROVE (FSInv)'
    BY <2>7, WriteAppendKeeps
  <2>8. ASSUME NEW f \in Names, NEW d \in Data, NEW n \in 1 .. MaxPages, Write(f, d, n)
        PROVE  (FSInv)'
    BY <2>8, WriteKeeps
  <2>9. CASE UNCHANGED vars
    BY <2>9, StutterKeeps
  <2> QED
    BY <2>1, <2>2, <2>3, <2>4, <2>5, <2>6, <2>7, <2>8, <2>9 DEF Next
<1> QED
  BY <1>1, <1>2, PTL DEF Spec

(***************************************************************************)
(* The table, the pages and the counters always have their types.          *)
(***************************************************************************)
THEOREM FSTypeCorrect ==
    ASSUME "compact" \notin Calls
    PROVE  Spec => []FSTypeOK
<1>1. FSInv => FSTypeOK
  BY DEF FSInv
<1> QED
  BY <1>1, FSInvariant, PTL

(***************************************************************************)
(* fs_create, fs_write, fs_write_append, fs_delete and fs_init program     *)
(* flash only where it was erased, whatever a power failure left behind.   *)
(***************************************************************************)
THEOREM NeverOverprogramsHolds ==
    ASSUME "compact" \notin Calls
    PROVE  Spec => []NeverOverprograms
<1>1. FSInv => NeverOverprograms
  <2> SUFFICES ASSUME FSInv, todo # <<>>
               PROVE  LET c == Head(todo)
                      IN  /\ c.do \in {"program", "copy"} => data[c.at] = Blank
                          /\ c.do = "program_table" => HalfErased(c.half)
    BY DEF NeverOverprograms
  <2>1. todo \in Seq(Op) /\ Planned /\ Shape
    BY DEF FSInv
  <2>2. PICK c \in Op : c = Head(todo) /\ c = todo[1]
    BY <2>1, Shifted
  <2>3. Len(todo) \in Nat \ {0} /\ 1 \in 1 .. Len(todo)
    BY <2>1, Shifted
  <2>4. c.do \in {"erase", "program", "erase_table", "program_table"}
    BY OpFields
  <2>5. c.do = "program" => data[c.at] = Blank
    <3>1. c.do = "program" =>
              \/ data[c.at] = Blank
              \/ \E j \in 1 .. 1 - 1 : TRUE
      BY <2>1, <2>2, <2>3 DEF Planned
    <3> QED
      BY <3>1
  <2>6. c.do = "program_table" => HalfErased(c.half)
    <3> SUFFICES ASSUME c.do = "program_table"
                 PROVE  HalfErased(c.half)
      OBVIOUS
    <3>1. ~OnData(todo[1])
      BY <2>2 DEF OnData
    <3>2. CASE \A i \in 1 .. Len(todo) : OnData(todo[i])
      BY <2>3, <3>1, <3>2
    <3>3. CASE Len(todo) >= 3 /\ (\A i \in 1 .. Len(todo) - 3 : OnData(todo[i]))
               /\ todo[Len(todo) - 2].do = "erase_table"
      <4>1. Len(todo) = 3
        <5>1. PICK n \in Nat : n = Len(todo)
          BY <2>3
        <5>2. n >= 3 /\ \A i \in 1 .. n - 3 : OnData(todo[i])
          BY <3>3, <5>1
        <5>3. n # 3 => 1 \in 1 .. n - 3
          BY <5>2
        <5> QED
          BY <3>1, <5>1, <5>2, <5>3
      <4>2. Len(todo) - 2 = 1
        BY <4>1
      <4> QED
        BY <2>2, <3>3, <4>2
    <3>4. CASE meta = ErasedTable /\ ProgramsHalf(todo[1], 1)
      BY <2>2, <3>4, ErasedTableOK DEF HalfErased, ProgramsHalf
    <3>5. CASE /\ ProgramsHalf(todo[1], 2)
               /\ \A e \in Entries :
                      meta.entries[e] = IF Half(e) = 1 THEN todo[1].table.entries[e] ELSE FreeEntry
      BY <2>2, <3>5, ErasedTableOK DEF HalfErased, ProgramsHalf
    <3> QED
      BY <2>1, <3>2, <3>3, <3>4, <3>5 DEF Shape
  <2> QED
    BY <2>2, <2>4, <2>5, <2>6
<1> QED
  BY <1>1, FSInvariant, PTL

(***************************************************************************)
(* Two files that nothing has damaged have no sector in common.            *)
(***************************************************************************)
THEOREM KnownApartHolds ==
    ASSUME "compact" \notin Calls
    PROVE  Spec => []KnownApart
<1>1. FSInv => KnownApart
  <2> SUFFICES ASSUME FSInv, todo = <<>>, NEW e \in Entries, NEW o \in Others(e),
                      Occupied(e), Known(meta.entries[e].name), Known(meta.entries[o].name)
               PROVE  DataArea(e) \cap DataArea(o) = {}
    BY DEF KnownApart
  <2>1. Intact(meta, wanted, e) /\ Intact(meta, wanted, o) /\ o \in Entries /\ e # o
    BY DEF Intact, Known, Others, Occupied, Occupies
  <2>2. SectorsOf(meta, e) \cap SectorsOf(meta, o) = {}
    BY <2>1, AtRest DEF Matches
  <2> QED
    BY <2>2 DEF SectorsOf, DataArea, Offset, Size
<1> QED
  BY <1>1, FSInvariant, PTL

(***************************************************************************)
(* Between calls fs_read gives what was written, of every file but those   *)
(* that a power failure or an append to another file has hit.              *)
(***************************************************************************)
THEOREM ReadBackHolds ==
    ASSUME "compact" \notin Calls
    PROVE  Spec => []ReadBack
<1>1. FSInv => ReadBack
  <2> SUFFICES ASSUME FSInv, todo = <<>>, NEW f \in Names, Known(f)
               PROVE  fs_read(f) = wanted[f]
    BY DEF ReadBack
  <2>1. /\ Matches(meta, wanted) /\ FSTypeOK /\ TableOK(meta)
        /\ \A e \in Entries : Intact(meta, wanted, e) =>
               \A i \in 1 .. meta.entries[e].size :
                   data[Home(meta, e, i)] = wanted[meta.entries[e].name][i]
    BY AtRest DEF FSInv
  <2>2. wanted[f] # Unknown /\ f \notin spoiled /\ wanted[f] \in Contents
    BY <2>1 DEF Known, FSTypeOK
  <2>3. CASE \E e \in Entries : Finds(e, f)
    <3>1. PICK e \in Entries : Finds(e, f) /\ fs_read(f) = Read(e)
      <4>1. fs_read(f) = Read(CHOOSE e \in Entries : Finds(e, f))
        BY <2>3 DEF fs_read
      <4>2. (CHOOSE e \in Entries : Finds(e, f)) \in Entries /\ Finds(CHOOSE e \in Entries : Finds(e, f), f)
        BY <2>3
      <4> QED
        BY <4>1, <4>2
    <3>2. meta.entries[e].name = f /\ Occupies(meta, e) /\ Intact(meta, wanted, e)
      BY <2>2, <3>1 DEF Finds, Has, Occupied, Occupies, Intact
    <3>3. wanted[f] # Absent /\ Len(wanted[f]) = meta.entries[e].size
      BY <2>1, <2>2, <3>2 DEF Matches
    <3>4. wanted[f] \in Seq(Data)
      <4>1. wanted[f] \in BoundedSeq(Data, MaxPages)
        BY <2>2, <3>3 DEF Contents
      <4> QED
        BY <4>1, ShortSequence
    <3>5. wanted[f] = [i \in 1 .. meta.entries[e].size |-> wanted[f][i]]
      <4>1. wanted[f] \in [1 .. Len(wanted[f]) -> Data]
        BY <3>4, LenProperties
      <4> QED
        BY <3>3, <4>1
    <3>6. Read(e) = [i \in 1 .. meta.entries[e].size |-> data[Home(meta, e, i)]]
      BY DEF Read, Size, Home, Offset
    <3>7. \A i \in 1 .. meta.entries[e].size : data[Home(meta, e, i)] = wanted[f][i]
      BY <2>1, <3>2
    <3> QED
      BY <3>1, <3>5, <3>6, <3>7
  <2>4. CASE ~\E e \in Entries : Finds(e, f)
    <3>1. ASSUME NEW e \in Entries, Occupies(meta, e), meta.entries[e].name = f PROVE FALSE
      <4>1. Has(e, f)
        BY <3>1 DEF Has, Occupied, Occupies
      <4>2. \A o \in 1 .. e - 1 : ~Has(o, f)
        <5> SUFFICES ASSUME NEW o \in 1 .. e - 1, Has(o, f) PROVE FALSE
          OBVIOUS
        <5>1. o \in Entries /\ o # e
          BY PicoFSAssumption DEF Entries
        <5>2. Occupies(meta, o) /\ meta.entries[o].name = meta.entries[e].name
          BY <3>1 DEF Has, Occupied, Occupies
        <5> QED
          BY <2>1, <3>1, <5>1, <5>2 DEF TableOK
      <4> QED
        BY <2>4, <4>1, <4>2 DEF Finds
    <3>2. wanted[f] = Absent
      BY <2>1, <2>2, <3>1 DEF Matches
    <3> QED
      BY <2>4, <3>2 DEF fs_read
  <2> QED
    BY <2>3, <2>4
<1> QED
  BY <1>1, FSInvariant, PTL


=============================================================================
