------------------------------ MODULE MainAddr ------------------------------
(***************************************************************************)
(* extract_main_addr and decode_adrp of src/src/vexec.rs: the address of    *)
(* main is read off the instructions of _start, which load it into x2 from *)
(* a GOT slot addressed by adrp, an optional add, and ldr.  The search is  *)
(* checked against executing the instructions.                             *)
(*                                                                         *)
(* An instruction is a record; masks and shifts that pick its fields are   *)
(* taken for granted, the arithmetic on the immediates is not.  An address *)
(* is a pair of page number and offset, the wrap at 2^64 is left out.      *)
(***************************************************************************)
EXTENDS Integers, Sequences, FiniteSetsExt

CONSTANTS
    Regs,         \* registers that address the GOT
    Immediates,   \* 21-bit immediates of adrp, as encoded
    AddImms,      \* 12-bit immediates of add
    LdrImms,      \* 12-bit immediates of ldr, in units of 8 bytes
    Programs,     \* instruction sequences at the entry point
    EntryWord,    \* position of the entry point in its page, in instructions
    PageWords,    \* instructions per page
    ScanLimit,    \* instructions searched (48)
    ImmBits, IntBits, Shift,   \* 21, 32 and 12: the immediate, i32, the shifts
    BadSlots      \* sets of GOT slots that do not hold a code address

VARIABLES
    code,    \* the instructions at the entry point
    bad,     \* the GOT slots without a code address
    result   \* what extract_main_addr returned: "pending", "none", or a slot

vars == <<code, bad, result>>

-----------------------------------------------------------------------------
SignExtend(u, bits) ==
    LET low == u % 2^bits IN IF low >= 2^(bits - 1) THEN low - 2^bits ELSE low

PageOf(i) == (EntryWord + i - 1) \div PageWords

\* decode_adrp of the instruction at i: `(imm << 12) >> 12` on an i32 keeps
\* IntBits - Shift bits.
DecodeAdrp(i, imm) == PageOf(i) + SignExtend(imm, IntBits - Shift)

Scanned == 1..Min({ScanLimit, Len(code)})

\* Mutant: any adrp before the ldr will do.
AnyPairs == {p \in Scanned \X Scanned :
                /\ p[2] < p[1]
                /\ code[p[1]].op = "ldr" /\ code[p[2]].op = "adrp"}

\* An ldr of x2 and an adrp of its base register before it.
Pairs == {p \in Scanned \X Scanned :
             /\ p[2] < p[1]
             /\ code[p[1]].op = "ldr" /\ code[p[2]].op = "adrp"
             /\ code[p[1]].reg = code[p[2]].reg}

\* The last add to the register between the two.
Addend(i, j) ==
    LET adds == {k \in (j + 1)..(i - 1) : code[k].op = "add" /\ code[k].reg = code[i].reg} IN
    IF adds = {} THEN 0 ELSE code[Max(adds)].imm

Slot(i, j) == <<DecodeAdrp(j, code[j].imm), Addend(i, j) + code[i].imm * 8>>

\* The first ldr that leads to a code address, with the nearest such adrp.
Found ==
    LET good == {p \in Pairs : Slot(p[1], p[2]) \notin bad}
        i == Min({p[1] : p \in good})
    IN  IF good = {} THEN "none" ELSE Slot(i, Max({p[2] : p \in {q \in good : q[1] = i}}))

\* Programs are instruction sequences, and their adrp reach 2 GiB each way,
\* which is as far as decode_adrp's 20 bits go.
MainAssumption ==
    /\ ScanLimit \in Nat
    /\ \A c \in Programs :
          /\ c \in Seq([op : {"adrp", "add", "ldr", "other"}, reg : Regs \cup {0}, imm : Nat])
          /\ \A i \in DOMAIN c : c[i].op = "adrp" => c[i].imm \in Immediates
    /\ \A imm \in Immediates : SignExtend(imm, IntBits - Shift) = SignExtend(imm, ImmBits)

Init == code \in Programs /\ bad \in BadSlots /\ result = "pending"

ExtractMainAddr ==
    /\ result = "pending"
    /\ result' = Found
    /\ UNCHANGED <<code, bad>>

Next == ExtractMainAddr

Spec == Init /\ [][Next]_vars

-----------------------------------------------------------------------------
(* Reference: what the processor does *)

\* The page an adrp at i computes, by the architecture's definition.
AdrpPage(i, imm) == PageOf(i) + SignExtend(imm, ImmBits)

\* Register r before instruction i: the last adrp and the add since then, if
\* there is one (Described has at most one).
Written(r, i) == {k \in 1..(i - 1) : code[k].op = "adrp" /\ code[k].reg = r}
AddsSince(r, j, i) == {k \in (j + 1)..(i - 1) : code[k].op = "add" /\ code[k].reg = r}
Executed(i) ==
    LET r == code[i].reg
        j == Max(Written(r, i))
        added == {code[k].imm : k \in AddsSince(r, j, i)}
        offset == IF added = {} THEN 0 ELSE CHOOSE n \in added : TRUE
    IN  <<AdrpPage(j, code[j].imm), offset + code[i].imm * 8>>

\* The sequence the comment describes: one ldr of x2, within the scanned
\* instructions, whose base register is set by an adrp and at most one add.
Described ==
    \E i \in Scanned :
        /\ {k \in DOMAIN code : code[k].op = "ldr"} = {i}
        /\ Written(code[i].reg, i) # {}
        /\ \A j, k \in AddsSince(code[i].reg, Max(Written(code[i].reg, i)), i) : j = k

\* On code of the described form extract_main_addr returns what the ldr
\* loads, when that is a code address.
FindsMain ==
    (Described /\ result # "pending") =>
        LET slot == Executed(CHOOSE i \in DOMAIN code : code[i].op = "ldr") IN
        slot \notin bad => result = slot
=============================================================================
