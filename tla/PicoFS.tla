-------------------------------- MODULE PicoFS --------------------------------
(***************************************************************************)
(* PicoFS: a table of files in the first sector of a region of flash and   *)
(* their data in the sectors after it.  Every call computes its flash      *)
(* operations from what it reads and carries them out one by one; between  *)
(* any two the power may fail.  Offsets are counted in sectors and sizes   *)
(* in pages.                                                               *)
(***************************************************************************)
EXTENDS Integers, Sequences, FiniteSetsExt, SequencesExt

CONSTANTS
    MaxFiles,       \* MAX_FILES: entries of the table, and sectors of the region
    SectorPages,    \* FLASH_SECTOR_SIZE / FLASH_PAGE_SIZE
    TableSplit,     \* entries of the table that its first page holds
    Names, Data,    \* file names, and what a page may hold
    Calls,          \* the functions that callers use
    FlashSectors,   \* bound: sectors of flash from the region on, enough for
                    \* as many files of MaxPages as the table has entries
    MaxPages,       \* bound: pages of a file
    MaxCalls,       \* bound: calls in a behaviour
    MaxFailures,    \* bound: power failures
    Blank, Mixed,   \* an erased page, and one programmed twice
    Absent, Unknown, NoName

ASSUME PicoFSAssumption ==
    /\ MaxFiles \in Nat \ {0} /\ SectorPages \in Nat \ {0}
    /\ TableSplit \in 0 .. MaxFiles
    /\ MaxPages \in Nat /\ MaxCalls \in Nat /\ MaxFailures \in Nat
    /\ FlashSectors \in Nat \ {0}
    /\ Blank \notin Data /\ Mixed \notin Data \cup {Blank}
    /\ NoName \notin Names
    /\ Absent # Unknown /\ {Absent, Unknown} \cap BoundedSeq(Data, MaxPages) = {}

VARIABLES
    meta,       \* the sector of fs_meta
    data,       \* the pages of all sectors
    todo,       \* flash operations that the current call has yet to do
    up,         \* fs_init has been called since power came back
    wanted,     \* history: what reading each file should give
    after,      \* history: the same once the current call is done
    spoiled,    \* history: files damaged by calls on other files
    calls, failures

vars == <<meta, data, todo, up, wanted, after, spoiled, calls, failures>>

Entries == 1 .. MaxFiles
Pages == 0 .. FlashSectors * SectorPages - 1
Statuses == {"FREE", "OCCUPIED", "DELETED"}

Entry == [name : Names \cup {NoName}, offset : 0 .. FlashSectors, size : 0 .. MaxPages,
          status : Statuses]
FreeEntry == [name |-> NoName, offset |-> 0, size |-> 0, status |-> "FREE"]

ErasedTable == [magic |-> FALSE, entries |-> [e \in Entries |-> FreeEntry]]
EmptyTable == [ErasedTable EXCEPT !.magic = TRUE]

Contents == BoundedSeq(Data, MaxPages) \cup {Absent, Unknown}

FSTypeOK ==
    /\ meta \in [magic : BOOLEAN, entries : [Entries -> Entry]]
    /\ data \in [Pages -> Data \cup {Blank, Mixed}]
    /\ up \in BOOLEAN
    /\ wanted \in [Names -> Contents] /\ after \in [Names -> Contents]
    /\ spoiled \subseteq Names
    /\ calls \in 0 .. MaxCalls /\ failures \in 0 .. MaxFailures

Init ==
    /\ meta = ErasedTable
    /\ data = [a \in Pages |-> Blank]
    /\ todo = <<>> /\ up = FALSE
    /\ wanted = [f \in Names |-> Absent] /\ after = wanted
    /\ spoiled = {} /\ calls = 0 /\ failures = 0

-----------------------------------------------------------------------------
(* Flash operations *)

EraseSectors(s, n) == [i \in 1 .. n |-> [do |-> "erase", at |-> s + i - 1]]

ProgramPages(s, content) ==
    [i \in 1 .. Len(content) |->
        [do |-> "program", at |-> s * SectorPages + i - 1, page |-> content[i]]]

\* fs_compact reads each page from flash just before it programs it.
CopyPages(s, from, n) ==
    [i \in 1 .. n |->
        [do |-> "copy", at |-> s * SectorPages + i - 1, from |-> from * SectorPages + i - 1]]

WriteTable(t) ==
    << [do |-> "erase_table"],
       [do |-> "program_table", half |-> 1, table |-> t],
       [do |-> "program_table", half |-> 2, table |-> t] >>

Half(e) == IF e <= TableSplit THEN 1 ELSE 2
HalfErased(h) ==
    /\ h = 1 => ~meta.magic
    /\ \A e \in Entries : Half(e) = h => meta.entries[e].status = "FREE"

\* A bit of flash is set by erasing only.
Programmed(a, page) == IF data[a] = Blank THEN page ELSE Mixed

Apply(c) ==
    \/ /\ c.do = "erase"
       /\ data' = [a \in Pages |-> IF a \div SectorPages = c.at THEN Blank ELSE data[a]]
       /\ UNCHANGED meta
    \/ /\ c.do = "program"
       /\ data' = [data EXCEPT ![c.at] = Programmed(c.at, c.page)]
       /\ UNCHANGED meta
    \/ /\ c.do = "copy"
       /\ data' = [data EXCEPT ![c.at] = Programmed(c.at, data[c.from])]
       /\ UNCHANGED meta
    \/ c.do = "erase_table" /\ meta' = ErasedTable /\ UNCHANGED data
    \/ /\ c.do = "program_table"
       /\ meta' = [magic |-> meta.magic \/ c.half = 1,
                   entries |-> [e \in Entries |-> IF Half(e) = c.half THEN c.table.entries[e]
                                                  ELSE meta.entries[e]]]
       /\ UNCHANGED data

FlashStep ==
    /\ todo # <<>>
    /\ Apply(Head(todo))
    /\ todo' = Tail(todo)
    /\ wanted' = IF Tail(todo) = <<>> THEN after ELSE wanted
    /\ UNCHANGED <<up, after, spoiled, calls, failures>>

\* What a call wants of flash, and of the files while it works and afterwards.
Begin(plan, meanwhile, finally) ==
    /\ todo' = plan /\ wanted' = meanwhile /\ after' = finally
    /\ UNCHANGED <<meta, data, failures>>

-----------------------------------------------------------------------------
(* The functions.  A call that returns an error changes nothing. *)

Boots ==
    /\ ~up /\ up' = TRUE
    /\ IF meta.magic THEN Begin(<<>>, wanted, wanted)
       ELSE Begin(WriteTable(EmptyTable), wanted, [f \in Names |-> Absent])
    /\ UNCHANGED <<spoiled, calls>>

Call(function) ==
    /\ function \in Calls /\ calls < MaxCalls
    /\ up /\ todo = <<>>
    /\ calls' = calls + 1
    /\ UNCHANGED up

Occupied(e) == meta.entries[e].status = "OCCUPIED"
Offset(e) == meta.entries[e].offset
Size(e) == meta.entries[e].size

Has(e, f) == Occupied(e) /\ meta.entries[e].name = f
Finds(e, f) == Has(e, f) /\ \A o \in 1 .. e - 1 : ~Has(o, f)

SectorsRoundedDown(n) == n \div SectorPages             \* mutant: rounds down
SectorsFor(n) == (n + SectorPages - 1) \div SectorPages
Reserved(n) == IF n = 0 THEN 1 ELSE SectorsFor(n)

ASSUME FlashBound == FlashSectors > MaxFiles * Reserved(MaxPages)

\* Mutant: adds up what the code compares.
NextFreeSum ==
    1 + MapThenSumSet(LAMBDA e : Offset(e) + Reserved(Size(e)), {o \in Entries : Occupied(o)})
NextFreeOffset ==
    Max({1} \cup {Offset(e) + Reserved(Size(e)) : e \in {o \in Entries : Occupied(o)}})

FirstFree(e) ==
    /\ meta.entries[e].status = "FREE"
    /\ \A o \in 1 .. e - 1 : meta.entries[o].status # "FREE"

TableWith(e, entry) == [meta EXCEPT !.entries[e] = entry]

Create(f) ==
    /\ Call("create") /\ \A e \in Entries : ~Has(e, f)
    /\ \E e \in Entries :
        /\ FirstFree(e)
        /\ Begin(WriteTable(TableWith(e, [name |-> f, offset |-> NextFreeOffset, size |-> 0,
                                          status |-> "OCCUPIED"])),
                 wanted, [wanted EXCEPT ![f] = <<>>])
    /\ spoiled' = spoiled \ {f}

Area(s, n) == s .. s + n - 1
DataArea(e) == Area(Offset(e), SectorsFor(Size(e)))
Others(e) == {o \in Entries \ {e} : Occupied(o)}

Overlaps(area, o) == area \cap DataArea(o) # {}

\* Mutant: one sector too few.
HitsLate(s, n, o) == s < Offset(o) + SectorsFor(Size(o)) /\ s + n > Offset(o) + 1
\* Also where an empty file begins, unless it begins in the same sector.
Hits(s, n, o) == s < Offset(o) + SectorsFor(Size(o)) /\ s + n > Offset(o)

UpdateSize(e, n) == WriteTable(TableWith(e, [meta.entries[e] EXCEPT !.size = n]))

Write(f, d, n) ==
    /\ Call("write")
    /\ \E e \in Entries :
        /\ Finds(e, f)
        /\ Offset(e) + SectorsFor(n) <= MaxFiles
        /\ \A o \in Others(e) : ~Hits(Offset(e), SectorsFor(n), o)
        /\ Begin(EraseSectors(Offset(e), SectorsFor(n))
                    \o ProgramPages(Offset(e), [i \in 1 .. n |-> d])
                    \o (IF n = Size(e) THEN <<>> ELSE UpdateSize(e, n)),
                 [wanted EXCEPT ![f] = Unknown], [wanted EXCEPT ![f] = [i \in 1 .. n |-> d]])
    /\ spoiled' = spoiled \ {f}

Read(e) == [i \in 1 .. Size(e) |-> data[Offset(e) * SectorPages + i - 1]]
Padding(n) == [i \in 1 .. SectorsFor(n) * SectorPages - n |-> Blank]

\* fs_write_append does not look at the other files, nor at the region's end.
WriteAppend(f, d) ==
    /\ Call("append")
    /\ \E e \in Entries :
        LET n == Size(e) + 1
            area == Area(Offset(e), SectorsFor(n))
        IN  /\ Finds(e, f) /\ n <= MaxPages
            /\ Begin(EraseSectors(Offset(e), SectorsFor(n))
                        \o ProgramPages(Offset(e), Append(Read(e), d) \o Padding(n))
                        \o UpdateSize(e, n),
                     [wanted EXCEPT ![f] = Unknown],
                     [wanted EXCEPT ![f] = IF @ = Unknown THEN Unknown ELSE Append(@, d)])
            /\ spoiled' = spoiled \cup {g \in Names : \E o \in Others(e) : Has(o, g) /\ Overlaps(area, o)}

Delete(f) ==
    /\ Call("delete")
    /\ \E e \in Entries :
        /\ Finds(e, f)
        /\ Begin(WriteTable(TableWith(e, [meta.entries[e] EXCEPT !.status = "DELETED"])),
                 [wanted EXCEPT ![f] = IF f \in spoiled THEN Unknown ELSE @],
                 [wanted EXCEPT ![f] = Absent])
    /\ spoiled' = spoiled \ {f}

Before(e) == {o \in 1 .. e - 1 : Occupied(o)}
NewOffset(e) == 1 + MapThenSumSet(LAMBDA o : Reserved(Size(o)), Before(e))
Relocated(e) == Occupied(e) /\ NewOffset(e) # Offset(e)

\* The first file gets its new offset, and its data stays where it was.
Moved(e) == Relocated(e) /\ Before(e) # {}
NewArea(e) == Area(NewOffset(e), Reserved(Size(e)))

Move(e) ==
    IF Moved(e)
    THEN EraseSectors(NewOffset(e), Reserved(Size(e))) \o CopyPages(NewOffset(e), Offset(e), Size(e))
    ELSE <<>>

CompactTable ==
    [meta EXCEPT !.entries =
        [e \in Entries |-> IF Occupied(e) THEN [@[e] EXCEPT !.offset = NewOffset(e)] ELSE FreeEntry]]

\* Not moved although relocated, or erased before it was copied.
LostInMove(e) ==
    /\ Relocated(e) /\ Size(e) > 0
    /\ ~Moved(e) \/ \E o \in 1 .. e : Moved(o) /\ Overlaps(NewArea(o), e)

InCompaction(S) == {f \in Names : \E e \in S : Has(e, f)}

Compact ==
    /\ Call("compact")
    /\ Begin(FlattenSeq([e \in Entries |-> Move(e)]) \o WriteTable(CompactTable),
             [f \in Names |-> IF f \in InCompaction({e \in Entries : Relocated(e)})
                              THEN Unknown ELSE wanted[f]],
             wanted)
    /\ spoiled' = spoiled \cup InCompaction({e \in Entries : LostInMove(e)})

\* The table is unreadable from its erasure to the end of its programming.
TableAtRisk == todo # <<>> /\ Head(todo).do = "program_table"

PowerFails ==
    /\ up /\ failures < MaxFailures
    /\ failures' = failures + 1
    /\ up' = FALSE /\ todo' = <<>>
    /\ wanted' = IF TableAtRisk THEN [f \in Names |-> Unknown] ELSE wanted
    /\ after' = wanted'
    /\ UNCHANGED <<meta, data, spoiled, calls>>

Next ==
    \/ Boots \/ FlashStep \/ PowerFails \/ Compact
    \/ \E f \in Names :
        \/ Create(f) \/ Delete(f)
        \/ \E d \in Data : WriteAppend(f, d) \/ \E n \in 1 .. MaxPages : Write(f, d, n)

Spec == Init /\ [][Next]_vars

-----------------------------------------------------------------------------
(* Properties *)

fs_read(f) ==
    IF \E e \in Entries : Finds(e, f) THEN Read(CHOOSE e \in Entries : Finds(e, f)) ELSE Absent

Known(f) == wanted[f] # Unknown /\ f \notin spoiled

(***************************************************************************)
(* What was written stays, across other calls, formatting, power failures  *)
(* and reboots.  The exceptions are named: the file of a call that a power *)
(* failure cuts short, all files if it cuts short the rewriting of the     *)
(* table, a file that an append to another one runs into, and a file that  *)
(* fs_compact relocates without copying it, or copies after erasing it.    *)
(***************************************************************************)
ReadBack == todo = <<>> => \A f \in Names : Known(f) => fs_read(f) = wanted[f]

(***************************************************************************)
(* Flash is programmed only where it was erased ("borra los sectores       *)
(* necesarios y programa los datos", filesystem.c:155), also after a power *)
(* failure has left sectors half written.                                  *)
(***************************************************************************)
NeverOverprograms ==
    todo # <<>> =>
        LET c == Head(todo)
        IN  /\ c.do \in {"program", "copy"} => data[c.at] = Blank
            /\ c.do = "program_table" => HalfErased(c.half)

(***************************************************************************)
(* Two files that are both intact do not share a sector, although an       *)
(* append may grow over the sector that was reserved for an empty file.    *)
(***************************************************************************)
KnownApart ==
    todo = <<>> =>
        \A e \in Entries : \A o \in Others(e) :
            Occupied(e) /\ Known(meta.entries[e].name) /\ Known(meta.entries[o].name)
                => DataArea(e) \cap DataArea(o) = {}
=============================================================================
