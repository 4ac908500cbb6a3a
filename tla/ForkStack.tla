----------------------------- MODULE ForkStack -----------------------------
(***************************************************************************)
(* The stacks of coroutines in src/coro/minicoro.c: creation, the switches *)
(* of one driver thread, and mco_fork_from, which copies the stack and the *)
(* saved registers of a suspended coroutine and moves what points into the *)
(* old stack.                                                              *)
(*                                                                         *)
(* A coroutine k has Depth words from Base(k) up; allocations do not touch *)
(* each other.  A word holds the address of a stack word or Other, which   *)
(* stands for numbers and for pointers to anything else.  One register x   *)
(* stands for x19 to x30.  Programs store addresses in stacks and          *)
(* registers only: a heap that holds one is shared by parent and child, as *)
(* all memory but the stack is.                                            *)
(*                                                                         *)
(* As vproc uses the library, a function of a coroutine never returns      *)
(* (vproc_exit_with_code yields for the last time), coroutines do not      *)
(* resume coroutines, and the storage of mco_push is not used.             *)
(***************************************************************************)
EXTENDS Integers

CONSTANTS Cos,     \* allocations for coroutines: positive numbers
          Depth    \* words of a stack

ASSUME StackAssumption == Cos \subseteq Nat \ {0} /\ Depth \in Nat \ {0}

VARIABLES state,    \* per coroutine: "none", "ready", "running" or "forking"
          sp,       \* its stack pointer, in ctx.sp while it is suspended
          x,        \* its registers, in ctx.x while it is suspended
          mem       \* the words of all stacks

vars == <<state, sp, x, mem>>

Other == 0
Base(k) == k * (Depth + 1)
End(k) == Base(k) + Depth
Words(k) == Base(k) .. (End(k) - 1)
Addresses == UNION {Words(k) : k \in Cos}
Values == Addresses \cup {Other}
Active(k) == {a \in Words(k) : a >= sp[k]}
Live(k) == state[k] # "none"
Idle == \A k \in Cos : state[k] # "running"

Init ==
    /\ state = [k \in Cos |-> "none"]
    /\ sp = [k \in Cos |-> End(k)]
    /\ x = [k \in Cos |-> Other]
    /\ mem = [a \in Addresses |-> Other]

-----------------------------------------------------------------------------
(* The driver.                                                             *)

\* mco_create: sp is the top of the stack.  mco_create_with_elf_entry also
\* leaves the address of the data above it in x22; the words hold argc and
\* pointers to strings.
Create(k) ==
    /\ Idle /\ ~ Live(k)
    /\ state' = [state EXCEPT ![k] = "ready"]
    /\ UNCHANGED <<sp, mem>>
    /\ x' \in {[x EXCEPT ![k] = v] : v \in {Other, End(k) - 1}}

\* mco_resume, by the driver only.
Resume(k) ==
    /\ Idle /\ state[k] = "ready"
    /\ state' = [state EXCEPT ![k] = "running"]
    /\ UNCHANGED <<sp, x, mem>>

\* The coroutine is dropped: mco_destroy of one that is suspended unmaps its
\* stack, which has no content from then on.
Destroy(k) ==
    /\ Idle /\ state[k] = "ready"
    /\ state' = [state EXCEPT ![k] = "none"]
    /\ sp' = [sp EXCEPT ![k] = End(k)]
    /\ x' = [x EXCEPT ![k] = Other]
    /\ mem' = [a \in Addresses |-> IF a \in Words(k) THEN Other ELSE mem[a]]

-----------------------------------------------------------------------------
(* A running coroutine.                                                    *)

\* mco_yield, inside some frame.  In vproc_ffi_fork a helper is queued.
Yield(k) ==
    /\ state[k] = "running" /\ sp[k] < End(k)
    /\ state' \in {[state EXCEPT ![k] = s] : s \in {"ready", "forking"}}
    /\ UNCHANGED <<sp, x, mem>>

\* It pushes what is in the register, or the address of a word it has.
Push(k, v) ==
    /\ state[k] = "running" /\ sp[k] > Base(k)
    /\ v \in Active(k) \cup {Other, x[k], sp[k] - 1}
    /\ sp' = [sp EXCEPT ![k] = @ - 1]
    /\ mem' = [mem EXCEPT ![sp[k] - 1] = v]
    /\ UNCHANGED <<state, x>>

Pop(k) ==
    /\ state[k] = "running" /\ sp[k] < End(k)
    /\ x' = [x EXCEPT ![k] = mem[sp[k]]]
    /\ sp' = [sp EXCEPT ![k] = @ + 1]
    /\ UNCHANGED <<state, mem>>

\* It stores through the register.
Store(k) ==
    /\ state[k] = "running" /\ x[k] # Other
    /\ mem' = [mem EXCEPT ![x[k]] = Other]
    /\ UNCHANGED <<state, sp, x>>

-----------------------------------------------------------------------------
(* mco_fork_from.                                                          *)

\* A value that points into p's stack, moved to c's.
Remap(p, c, v) == IF v >= Base(p) /\ v < End(p) THEN v + Base(c) - Base(p) ELSE v

\* Mutant: the scan starts above the word at sp.
RemappedStackLate(p, c) ==
    [a \in Addresses |->
        IF a \notin Words(c) THEN mem[a]
        ELSE LET o == a - Base(c) + Base(p)
             IN IF o > sp[p] THEN Remap(p, c, mem[o]) ELSE mem[o]]

\* The stack is copied; from sp up its words are remapped.
RemappedStack(p, c) ==
    [a \in Addresses |->
        IF a \notin Words(c) THEN mem[a]
        ELSE LET o == a - Base(c) + Base(p)
             IN IF o >= sp[p] THEN Remap(p, c, mem[o]) ELSE mem[o]]

RemappedRegister(p, c) == Remap(p, c, x[p])

RemappedSp(p, c) == Remap(p, c, sp[p])

\* The helper of vproc_ffi_fork runs: p is suspended, c is a new coroutine.
Fork(p, c) ==
    /\ Idle /\ state[p] = "forking" /\ ~ Live(c)
    /\ state' = [state EXCEPT ![p] = "ready", ![c] = "ready"]
    /\ sp' = [sp EXCEPT ![c] = RemappedSp(p, c)]
    /\ x' = [x EXCEPT ![c] = RemappedRegister(p, c)]
    /\ mem' = RemappedStack(p, c)

\* Out of memory: the assertion in Coroutine::fork_from ends the helper, and
\* the parent goes on.
ForkFails(p) ==
    /\ Idle /\ state[p] = "forking" /\ \A c \in Cos : Live(c)
    /\ state' = [state EXCEPT ![p] = "ready"]
    /\ UNCHANGED <<sp, x, mem>>

Run(k) == Yield(k) \/ (\E v \in Values : Push(k, v)) \/ Pop(k) \/ Store(k)

Next ==
    \/ \E k \in Cos : Create(k) \/ Resume(k) \/ Destroy(k) \/ ForkFails(k) \/ Run(k)
    \/ \E p, c \in Cos : Fork(p, c)

Spec == Init /\ [][Next]_vars

-----------------------------------------------------------------------------
(* Properties.                                                             *)

\* One coroutine runs at a time, and each stack pointer is in its coroutine's
\* stack, or at its top before the first frame.
StackTypeOK ==
    /\ state \in [Cos -> {"none", "ready", "running", "forking"}]
    /\ \A j, k \in Cos : state[j] = "running" /\ state[k] = "running" => j = k
    /\ sp \in [Cos -> Int] /\ x \in [Cos -> Values] /\ mem \in [Addresses -> Values]
    /\ \A k \in Cos : sp[k] \in Base(k)..End(k)
    /\ \A k \in Cos : state[k] = "forking" => sp[k] < End(k)

\* Whatever is forked from what, and whichever stacks have been freed and
\* used again, a coroutine's registers and frames hold no address of another's
\* stack.
OwnStackOnly ==
    \A k \in Cos : Live(k) =>
        /\ x[k] \in Words(k) \cup {Other}
        /\ \A a \in Active(k) : mem[a] \in Words(k) \cup {Other}

\* What a coroutine does while it runs changes no word of another's frames.
StacksArePrivate ==
    [][\A j, k \in Cos :
          (state[k] = "running" /\ j # k) => \A a \in Active(j) : mem'[a] = mem[a]]_vars
=============================================================================
