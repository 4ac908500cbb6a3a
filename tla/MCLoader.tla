----------------------------- MODULE MCLoader ------------------------------
(***************************************************************************)
(* The two parts of exec that read a binary themselves, on small           *)
(* instances: load_pie (PieLoader) and extract_main_addr (MainAddr).  A    *)
(* behaviour is one of three:                                              *)
(*                                                                         *)
(*   layouts  two calls of load_pie on files of many layouts;              *)
(*   calls    three calls on good and bad files, with refusals;            *)
(*   main     a search for the address of main.                            *)
(***************************************************************************)
EXTENDS ExecLoader, SequencesExt, TLC

CONSTANTS l1, l2, l3, MaxLen

VARIABLE part

ThreeLoads == {l1, l2, l3}
CallSymmetry == Permutations(ThreeLoads)
TakenWords == {25, 26}
Refusals == {"mmap", "mprotect"}

-----------------------------------------------------------------------------
(* Small ELF files: a read-only segment that starts the image and holds    *)
(* the relocation table, and a writable one with a bss.                    *)

Text(v, n) == [vaddr |-> v, off |-> 0, filesz |-> n, memsz |-> n, w |-> FALSE]
Data(v, o, n, m) == [vaddr |-> v, off |-> o, filesz |-> n, memsz |-> m, w |-> TRUE]
Rela(t, target, addend) == [type |-> t, target |-> target, addend |-> addend]
Table(at, n) == << <<"RELASZ", n>>, <<"RELA", at>>, <<"NULL", 0>>, <<"RELASZ", 9>> >>

\* Text at 0..2 with up to two relocation entries at 1 and 2; data behind it.
Layout(v, o, n, m, count, size) ==
    [pie |-> TRUE, size |-> size, loads |-> <<Text(0, 3), Data(v, o, n, m)>>,
     dyn |-> Table(1, count),
     relas |-> [x \in {1, 2} |-> IF x = 1 THEN Rela("RELATIVE", v, 2)
                                          ELSE Rela("JUMP_SLOT", v, 0)]]

WellFormed ==
    {Layout(v, o, n, m, count, 6) :
        v \in {4, 5}, o \in {3, 4}, n \in {1, 2}, m \in {2, 3}, count \in 1..2}
    \cup {[pie |-> TRUE, size |-> 3, loads |-> <<Text(0, 3)>>, dyn |-> << >>, relas |-> << >>]}

\* A truncated file, a table past the end, no LOAD segment, not a PIE.
Odd ==
    {Layout(4, 4, 2, 2, 1, 5), [Layout(4, 3, 2, 2, 2, 6) EXCEPT !.dyn = Table(6, 1)],
     [pie |-> TRUE, size |-> 3, loads |-> << >>, dyn |-> << >>, relas |-> << >>],
     [pie |-> FALSE, size |-> 3, loads |-> <<Text(0, 3)>>, dyn |-> << >>, relas |-> << >>]}

Mixed == Odd \cup {Layout(4, 4, 2, 3, 1, 6), Layout(5, 3, 1, 2, 2, 6)}
AllFiles == WellFormed \cup Mixed

-----------------------------------------------------------------------------
(* All instruction sequences of up to MaxLen instructions, with targets in *)
(* the next page, the previous one (2^21 - 1) and at the ends of 2 GiB     *)
(* each way.                                                               *)

NearAndFar == {1, 2097151, 524287, 1572864}
SomeBadSlots == {{}, {<<1, 0>>}}

Instruction(op, regs, imms) == {[op |-> op, reg |-> r, imm |-> i] : r \in regs, i \in imms}
ShortPrograms ==
    BoundedSeq(Instruction("adrp", Regs, Immediates) \cup Instruction("add", Regs, AddImms)
               \cup Instruction("ldr", Regs, LdrImms) \cup Instruction("other", {0}, {0}), MaxLen)

ASSUME M!MainAssumption

-----------------------------------------------------------------------------
\* The calls and the files of a behaviour.
Room ==
    LET used == {l \in Loads : load[l].file # None} IN
    \/ part = "layouts" /\ Cardinality(used) =< 2 /\ \A l \in used : load[l].file \in WellFormed
    \/ part = "calls" /\ \A l \in used : load[l].file \in Mixed

MCInit ==
    /\ Init
    /\ \/ part = "main" /\ M!Init
       \/ part \in {"layouts", "calls"} /\ code = << >> /\ bad = {} /\ result = "pending"

MCNext ==
    /\ UNCHANGED part
    /\ \/ part # "main" /\ Next /\ Room' /\ UNCHANGED mainVars
       \/ part = "main" /\ M!Next /\ UNCHANGED vars

MCSpec == MCInit /\ [][MCNext]_<<part, vars, mainVars>>
=============================================================================
