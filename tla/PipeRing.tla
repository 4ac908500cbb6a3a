------------------------------ MODULE PipeRing ------------------------------
(***************************************************************************)
(* The virtual pipe: PipeBuffer of src/src/vfd.rs, a ring buffer of        *)
(* PIPE_CAPACITY bytes, and the read() and write() loops of                *)
(* src/src/preload.rs around it.  Coroutines take turns, so each attempt   *)
(* of a loop is one step; an attempt that gets EAGAIN only yields, and is  *)
(* no step here.                                                           *)
(*                                                                         *)
(* `sent', `got' and `eof' are not in the code: they record what the calls *)
(* have returned to the programs.                                          *)
(***************************************************************************)
EXTENDS Integers, Sequences

CONSTANTS
    Bytes,          \* byte values
    PIPE_CAPACITY,
    Readers,        \* coroutines that read
    Writers,        \* coroutines that write
    MaxCount,       \* bound: largest count of one call
    MaxSent         \* bound: bytes written in all

ASSUME RingAssumption ==
    /\ PIPE_CAPACITY \in Nat \ {0}
    /\ 0 \in Bytes
    /\ MaxCount \in Nat
    /\ MaxSent \in Nat

VARIABLES
    buf, read_pos, write_pos, len, closed,      \* PipeBufferInner
    killed,         \* writers ended by the SIGPIPE path
    sent,           \* bytes accepted by write_to, in order
    got,            \* bytes returned by read_from, in order
    eof             \* readers whose read() returned 0

ring == << buf, read_pos, write_pos, len >>
vars == << ring, closed, killed, sent, got, eof >>

Positions == 0..(PIPE_CAPACITY - 1)
Lesser(a, b) == IF a <= b THEN a ELSE b

\* The i-th unread byte.
Unread(i) == buf[(read_pos + i - 1) % PIPE_CAPACITY]

Init ==
    /\ buf = [p \in Positions |-> 0]
    /\ read_pos = 0 /\ write_pos = 0 /\ len = 0
    /\ closed = FALSE
    /\ killed = {}
    /\ sent = << >> /\ got = << >> /\ eof = {}

-----------------------------------------------------------------------------
\* Mutant of ReadFrom: read_pos moves by what was asked for, not by what was read.
ReadFromSkips(count) ==
    LET n == Lesser(count, len)
    IN  /\ got' = got \o [i \in 1..n |-> Unread(i)]
        /\ read_pos' = (read_pos + count) % PIPE_CAPACITY
        /\ len' = len - n
        /\ UNCHANGED << buf, write_pos >>

\* read_from with bytes to read: n of them are copied out.
ReadFrom(count) ==
    LET n == Lesser(count, len)
    IN  /\ got' = got \o [i \in 1..n |-> Unread(i)]
        /\ read_pos' = (read_pos + n) % PIPE_CAPACITY
        /\ len' = len - n
        /\ UNCHANGED << buf, write_pos >>

\* An attempt of read() that returns bytes.
Read(r, count) ==
    /\ r \notin eof
    /\ len > 0
    /\ ReadFrom(count)
    /\ UNCHANGED << closed, killed, sent, eof >>

\* Mutant of ReadEof: the end is not reported.
ReadEofNever(r) == r \notin eof /\ closed /\ len > 0 /\ UNCHANGED vars

\* An attempt of read() that returns 0.
ReadEof(r) ==
    /\ r \notin eof
    /\ len = 0 /\ closed
    /\ eof' = eof \cup {r}
    /\ UNCHANGED << ring, closed, killed, sent, got >>

\* write_to on an open buffer that is not full: n bytes are copied in.
WriteTo(src) ==
    LET n == Lesser(Len(src), PIPE_CAPACITY - len)
        offset(p) == (p + PIPE_CAPACITY - write_pos) % PIPE_CAPACITY
    IN  /\ buf' = [p \in Positions |->
                     IF offset(p) < n THEN src[offset(p) + 1] ELSE buf[p]]
        /\ write_pos' = (write_pos + n) % PIPE_CAPACITY
        /\ len' = len + n
        /\ sent' = sent \o SubSeq(src, 1, n)
        /\ UNCHANGED read_pos

\* Mutant of Write: the closed flag is not checked.
WriteAfterClose(w, src) ==
    /\ w \notin killed
    /\ Len(sent) + Len(src) <= MaxSent
    /\ len < PIPE_CAPACITY
    /\ WriteTo(src)
    /\ UNCHANGED << closed, killed, got, eof >>

\* An attempt of write() that returns how many bytes it wrote.
Write(w, src) ==
    /\ w \notin killed
    /\ Len(sent) + Len(src) <= MaxSent
    /\ ~closed
    /\ len < PIPE_CAPACITY
    /\ WriteTo(src)
    /\ UNCHANGED << closed, killed, got, eof >>

\* write() on a closed buffer ends the coroutine with 128 + SIGPIPE.
WriteKilled(w) ==
    /\ w \notin killed
    /\ closed
    /\ killed' = killed \cup {w}
    /\ UNCHANGED << ring, closed, sent, got, eof >>

\* PipeBuffer::close, from VfdTable::close or from the drop of a table.
Close ==
    /\ closed' = TRUE
    /\ UNCHANGED << ring, killed, sent, got, eof >>

Sources == UNION {[1..n -> Bytes] : n \in 1..MaxCount}

Next ==
    \/ \E r \in Readers, count \in 1..MaxCount : Read(r, count)
    \/ \E r \in Readers : ReadEof(r)
    \/ \E w \in Writers, src \in Sources : Write(w, src)
    \/ \E w \in Writers : WriteKilled(w)
    \/ Close

Spec == Init /\ [][Next]_vars

\* A reader repeats its attempts: the scheduler runs every ready coroutine.
FairSpec ==
    /\ Spec
    /\ \A r \in Readers :
         WF_vars((\E count \in 1..MaxCount : Read(r, count)) \/ ReadEof(r))
-----------------------------------------------------------------------------
\* The fields of PipeBufferInner stay in range: no index leaves buf, and len
\* never exceeds PIPE_CAPACITY, so that `PIPE_CAPACITY - len' does not underflow.
RingTypeOK ==
    /\ buf \in [Positions -> Bytes]
    /\ read_pos \in Positions /\ write_pos \in Positions
    /\ len \in 0..PIPE_CAPACITY
    /\ closed \in BOOLEAN
    /\ killed \subseteq Writers /\ eof \subseteq Readers
    /\ sent \in Seq(Bytes) /\ got \in Seq(Bytes)

\* write_pos is where the unread bytes end (the inductive part of StreamIntact).
PositionsMeet == write_pos = (read_pos + len) % PIPE_CAPACITY

\* No byte is lost, duplicated, changed or reordered on its way through the
\* ring, whatever the partial reads and writes and however often the positions
\* wrap: what has been read, followed by what the ring holds, is what has been
\* written.
StreamIntact ==
    /\ Len(sent) = Len(got) + len
    /\ \A i \in 1..Len(got) : got[i] = sent[i]
    /\ \A i \in 1..len : Unread(i) = sent[Len(got) + i]

\* A read() that returned 0 had the whole stream read before it, and nothing is
\* written afterwards: end of file is never premature and never taken back.
EofIsFinal == eof # {} => closed /\ len = 0 /\ Len(got) = Len(sent)

\* A virtual pipe is a bounded FIFO channel.
Channel == INSTANCE PipeChannel WITH Capacity <- PIPE_CAPACITY
ImplementsChannel == Channel!ChannelSpec

\* After the close every reader sees the end of the stream, and the bytes that
\* were in the buffer are delivered first.
CloseDrains == closed ~> (eof = Readers /\ got = sent)
=============================================================================
