----------------------------- MODULE PieLoader -----------------------------
(***************************************************************************)
(* load_pie of src/src/loader.rs over the readers of src/src/elf.rs:       *)
(* static PIE images are placed in one address space by the driver threads *)
(* of all sessions, which share nothing but the bump allocator NEXT_BASE.  *)
(*                                                                         *)
(* Addresses and file offsets count words; a page is PageSize words.  A    *)
(* word holds <<"zero", 0>>, the word of the file at an offset, or a       *)
(* relocated address.  An ELF file is a record: whether its header is that *)
(* of an aarch64 PIE, its LOAD headers, its dynamic table as pairs of tag  *)
(* and value, its relocation entries by the offset they are stored at, and *)
(* its size.                                                               *)
(***************************************************************************)
EXTENDS Integers, Sequences, FiniteSets, FiniteSetsExt

CONSTANTS
    Loads,      \* calls of load_pie
    Files,      \* the ELF files they are given
    PageSize, SlotAlign, FirstBase,
    Foreign,    \* addresses mapped by something else from the start
    MaxAddr,    \* bound: the end of the address space
    Failing,    \* system calls that may be refused: "mmap", "mprotect"
    None

ASSUME LoaderAssumption ==
    /\ PageSize \in Nat \ {0} /\ SlotAlign \in Nat \ {0} /\ FirstBase \in Nat \ {0}
    /\ MaxAddr \in Nat

VARIABLES
    next,   \* NEXT_BASE
    load,   \* call -> where it is and what it has
    mem     \* address -> owner, contents and protection of the word

vars == <<next, load, mem>>

Addr == 0..(MaxAddr - 1)
Zero == <<"zero", 0>>
Unmapped == [own |-> None, val |-> Zero, prot |-> "none"]

-----------------------------------------------------------------------------
(* Pure parts *)

AlignDown(a, n) == a - (a % n)
AlignUp(a, n) == a + ((n - (a % n)) % n)

\* load_span: from the lowest to the highest address of the LOAD segments.
MinVaddr(f) == Min({f.loads[i].vaddr : i \in DOMAIN f.loads})
MaxVaddr(f) == Max({f.loads[i].vaddr + f.loads[i].memsz : i \in DOMAIN f.loads})
Span(f) == MaxVaddr(f) - MinVaddr(f)
TotalMapped(f) == AlignUp(Span(f), PageSize)

\* The headers hold numbers; a PIE is linked at 0, which load_pie takes for
\* granted when it ignores load_span's _min_vaddr.
LoadHeader == [vaddr : Nat, off : Nat, filesz : Nat, memsz : Nat, w : BOOLEAN]
ASSUME FileAssumption ==
    \A f \in Files :
        /\ f.loads \in Seq(LoadHeader)
        /\ f.pie /\ f.loads # << >> => MinVaddr(f) = 0

\* Mutant: every image gets one slot.
SlotFixed(size) == SlotAlign + PageSize

\* alloc_slot: whole slots and a page between them.
SlotSize(size) == AlignUp(size, SlotAlign) + PageSize

\* dynamic_entries stops at DT_NULL; the last entry of a tag counts.
DynEntries(f) ==
    {i \in DOMAIN f.dyn : \A j \in 1..i : f.dyn[j][1] # "NULL"}
DynValue(f, tag) ==
    LET found == {i \in DynEntries(f) : f.dyn[i][1] = tag} IN
    IF found = {} THEN 0 ELSE f.dyn[Max(found)][2]

\* rela_entries_from_dynamic: DT_RELA is used as an offset into the file.
\* A word that is no relocation entry has another type than RELATIVE.
RelaOffsets(f) == {DynValue(f, "RELA") + i : i \in 0..(DynValue(f, "RELASZ") - 1)}
Relocations(f) ==
    {f.relas[o] : o \in {p \in RelaOffsets(f) \cap DOMAIN f.relas : f.relas[p].type = "RELATIVE"}}

\* The range of a call's reservation, and the pages of segment i.
Reserved(l) == load[l].base..(load[l].base + TotalMapped(load[l].file) - 1)
Pages(b, s) ==
    (b + AlignDown(s.vaddr, PageSize))..(b + AlignUp(s.vaddr + s.memsz, PageSize) - 1)

-----------------------------------------------------------------------------
Init ==
    /\ next = FirstBase
    /\ load = [l \in Loads |-> [pc |-> "idle", file |-> None, base |-> 0, seg |-> 0]]
    /\ mem = [a \in Addr |-> IF a \in Foreign
                               THEN [own |-> "foreign", val |-> Zero, prot |-> "rw"]
                               ELSE Unmapped]

Goto(l, pc) == load' = [load EXCEPT ![l].pc = pc]

\* An Err after the reservation returns without unmapping anything.
Fail(l) == Goto(l, "failed")

\* Header checks, then alloc_slot: one fetch_add.
Begin(l, f) ==
    /\ load[l].pc = "idle"
    /\ IF ~f.pie \/ f.loads = << >>
         THEN /\ load' = [load EXCEPT ![l].pc = "failed", ![l].file = f]
              /\ UNCHANGED <<next, mem>>
         ELSE /\ next + SlotSize(TotalMapped(f)) =< MaxAddr
              /\ next' = next + SlotSize(TotalMapped(f))
              /\ load' = [load EXCEPT ![l] = [pc |-> "reserve", file |-> f,
                                              base |-> next, seg |-> 1]]
              /\ UNCHANGED mem

\* Mutant: the reservation uses MAP_FIXED.
ReserveFixed(l) ==
    /\ load[l].pc = "reserve"
    /\ mem' = [a \in Addr |-> IF a \in Reserved(l)
                                THEN [own |-> l, val |-> Zero, prot |-> "none"]
                                ELSE mem[a]]
    /\ Goto(l, "map")
    /\ UNCHANGED next

\* MAP_FIXED_NOREPLACE: refused when anything is mapped there.
Reserve(l) ==
    /\ load[l].pc = "reserve"
    /\ \/ /\ \A a \in Reserved(l) : mem[a].own = None
          /\ mem' = [a \in Addr |-> IF a \in Reserved(l)
                                      THEN [own |-> l, val |-> Zero, prot |-> "none"]
                                      ELSE mem[a]]
          /\ Goto(l, "map")
       \/ /\ "mmap" \in Failing \/ \E a \in Reserved(l) : mem[a].own # None
          /\ Fail(l)
          /\ UNCHANGED mem
    /\ UNCHANGED next

\* map_load_segment: MAP_FIXED anonymous pages over whatever is there, the
\* file's bytes copied in, the final protection set.
Segment(l) == load[l].file.loads[load[l].seg]
\* Mutant: the bytes are copied to the start of the page.
SegmentWordAtPage(l, a) ==
    LET s == Segment(l) o == a - load[l].base - AlignDown(s.vaddr, PageSize) IN
    IF o \in 0..(s.filesz - 1) THEN <<"file", s.off + o>> ELSE Zero

SegmentWord(l, a) ==
    LET s == Segment(l) o == a - load[l].base - s.vaddr IN
    IF o \in 0..(s.filesz - 1) THEN <<"file", s.off + o>> ELSE Zero

Mapped(l, word, prot) ==
    mem' = [a \in Addr |-> IF a \in Pages(load[l].base, Segment(l))
                             THEN [own |-> l, val |-> word[a], prot |-> prot]
                             ELSE mem[a]]

ProtFromFlags(s) == IF s.w THEN "rw" ELSE "r"

MapSegment(l) ==
    LET s == Segment(l)
        inFile == s.off + s.filesz =< load[l].file.size
        last == load[l].seg = Len(load[l].file.loads)
    IN
    /\ load[l].pc = "map"
    /\ \/ /\ s.filesz > 0 => inFile
          /\ Mapped(l, [a \in Addr |-> SegmentWord(l, a)], ProtFromFlags(s))
          /\ load' = [load EXCEPT ![l].pc = IF last THEN "relocate" ELSE "map",
                                  ![l].seg = IF last THEN @ ELSE @ + 1]
       \/ /\ s.filesz > 0 /\ ~inFile
          /\ Mapped(l, [a \in Addr |-> Zero], "rw")
          /\ Fail(l)
       \/ "mmap" \in Failing /\ Fail(l) /\ UNCHANGED mem
       \/ /\ "mprotect" \in Failing
          /\ s.filesz > 0 => inFile
          /\ Mapped(l, [a \in Addr |-> SegmentWord(l, a)], "rw")
          /\ Fail(l)
    /\ UNCHANGED next

\* apply_relative_relocations, after the final protections: a write to a
\* word that is not writable is a fault.
Relocate(l) ==
    LET f == load[l].file
        b == load[l].base
        targets == {b + r.target : r \in Relocations(f)}
    IN
    /\ load[l].pc = "relocate"
    /\ IF \E o \in RelaOffsets(f) : o >= f.size
         THEN Fail(l) /\ UNCHANGED mem
       ELSE IF \E a \in targets : mem[a].prot # "rw"
         THEN Goto(l, "fault") /\ UNCHANGED mem
       ELSE /\ mem' = [a \in Addr |->
                 IF a \in targets
                   THEN [mem[a] EXCEPT !.val = <<"addr", b +
                            (CHOOSE r \in Relocations(f) : b + r.target = a).addend>>]
                   ELSE mem[a]]
            /\ Goto(l, "loaded")
    /\ UNCHANGED next

\* The coroutine of the image is dropped: munmap(base, total_size).
Release(l) ==
    /\ load[l].pc = "loaded"
    /\ mem' = [a \in Addr |-> IF a \in Reserved(l) THEN Unmapped ELSE mem[a]]
    /\ Goto(l, "released")
    /\ UNCHANGED next

Next ==
    \E l \in Loads :
        \/ \E f \in Files : Begin(l, f)
        \/ Reserve(l) \/ MapSegment(l) \/ Relocate(l) \/ Release(l)

Spec == Init /\ [][Next]_vars

-----------------------------------------------------------------------------
(* Properties *)

LoaderTypeOK ==
    /\ next \in Nat
    /\ \A l \in Loads :
          load[l].pc \in {"idle", "reserve", "map", "relocate", "loaded", "released",
                          "failed", "fault"}
    /\ \A a \in Addr : mem[a].own \in Loads \cup {None, "foreign"}
                       /\ mem[a].prot \in {"none", "r", "rw"}

\* Whatever threads load at the same time, the reservations of two calls of
\* load_pie never overlap, and none reaches past NEXT_BASE.
HasSlot(l) == load[l].base > 0
SlotsDisjoint ==
    \A l1, l2 \in {l \in Loads : HasSlot(l)} :
        l1 # l2 => Reserved(l1) \cap Reserved(l2) = {}

\* No step takes over a word that somebody else has mapped: the MAP_FIXED of
\* map_load_segment replaces the call's own reservation and nothing else.
OwnersKeepTheirWords ==
    [][\A a \in Addr : mem[a].own # None => mem'[a].own \in {mem[a].own, None}]_vars

\* What an image must look like: the specification of a loaded ELF file.
\* A relocation entry is found where its table is mapped, at the address
\* DT_RELA names.
OffsetOf(f, v) ==
    LET home == {i \in DOMAIN f.loads : v - f.loads[i].vaddr \in 0..(f.loads[i].filesz - 1)} IN
    IF home = {} THEN -1
    ELSE LET s == f.loads[CHOOSE i \in home : TRUE] IN s.off + (v - s.vaddr)
TrueRelocations(f) ==
    {f.relas[o] : o \in {p \in {OffsetOf(f, v) : v \in RelaOffsets(f)} \cap DOMAIN f.relas :
                           f.relas[p].type = "RELATIVE"}}
ReferenceWord(f, b, s, v) ==
    LET here == {r \in TrueRelocations(f) : r.target = v} IN
    IF here # {} THEN <<"addr", b + (CHOOSE r \in here : TRUE).addend>>
    ELSE IF v - s.vaddr < s.filesz THEN <<"file", s.off + (v - s.vaddr)>>
    ELSE Zero

\* What load_pie takes for granted in a file it accepts: no page belongs to
\* two segments, relocations have targets of their own in writable segments,
\* and a table that lies in the file has its address for its offset.
ASSUME LayoutAssumption ==
    \A f \in Files : f.pie /\ f.loads # << >> =>
        /\ \A i, j \in DOMAIN f.loads :
              i # j => Pages(0, f.loads[i]) \cap Pages(0, f.loads[j]) = {}
        /\ \A r \in Relocations(f) :
              \E i \in DOMAIN f.loads :
                  LET s == f.loads[i] IN s.w /\ r.target \in s.vaddr..(s.vaddr + s.memsz - 1)
        /\ \A r, q \in Relocations(f) : r.target = q.target => r = q
        /\ \/ \E o \in RelaOffsets(f) : o >= f.size
           \/ \A o \in RelaOffsets(f) : OffsetOf(f, o) = o

\* A loaded image is the file: every word of every LOAD segment holds the
\* file's word, zero past its end, or its relocated address, with the
\* protection its header asks for, inside the region that will be unmapped.
\* On the way there no relocation is written to a page that forbids it.
ImageMatchesFile ==
    \A l \in Loads :
        LET f == load[l].file b == load[l].base IN
        /\ load[l].pc # "fault"
        /\ load[l].pc = "loaded" =>
             \A i \in DOMAIN f.loads :
                 LET s == f.loads[i] IN
                 \A v \in s.vaddr..(s.vaddr + s.memsz - 1) :
                     mem[b + v] = [own |-> l, val |-> ReferenceWord(f, b, s, v),
                                   prot |-> ProtFromFlags(s)]
=============================================================================
