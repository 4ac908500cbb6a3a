--------------------------- MODULE PipeRingProofs ---------------------------
(***************************************************************************)
(* Proofs about PipeRing, for every capacity, every set of byte values and *)
(* every number of readers and writers.                                    *)
(***************************************************************************)
EXTENDS PipeRing, SequenceTheorems, TLAPS

\* A leaf that names no prover is tried by Zenon, by the SMT solver, and by
\* Zenon again for longer.
USE ZenonT(3), SMTT(30), ZenonT(60)

\* Positions wrap at most once per step, so `% PIPE_CAPACITY' is a subtraction.
LEMMA Wrap ==
    ASSUME NEW C \in Nat \ {0}
    PROVE  \A x \in 0..(C + C - 1) : x % C = IF x < C THEN x ELSE x - C
<1> TAKE x \in 0..(C + C - 1)
<1>1. x = C * (x \div C) + (x % C) /\ x % C \in 0..(C - 1) /\ x \div C \in Nat
  BY SMT
<1>2. x \div C = 0 \/ x \div C = 1
  BY <1>1, SMT
<1> QED
  BY <1>1, <1>2, SMT

\* Moving on by n and then by j is moving on by n + j.
LEMMA ReadShift ==
    ASSUME NEW C \in Nat \ {0}, NEW rp \in 0..(C - 1),
           NEW n \in Nat, NEW j \in Nat, n + j <= C
    PROVE  (((rp + n) % C) + j) % C = (rp + (n + j)) % C
<1>1. \A x \in 0..(C + C - 1) : x % C = IF x < C THEN x ELSE x - C
  BY Wrap
<1> DEFINE a == rp + n
           x == a % C
           b == x + j
           c == rp + (n + j)
<1>2. a \in 0..(C + C - 1) /\ c \in 0..(C + C - 1)
  OBVIOUS
<1>3. x = IF a < C THEN a ELSE a - C
  <2> HIDE DEF a
  <2> QED  BY <1>1, <1>2, Zenon
<1>4. b \in 0..(C + C - 1)
  <2> HIDE DEF x
  <2> QED  BY <1>2, <1>3
<1>5. b % C = IF b < C THEN b ELSE b - C
  <2> HIDE DEF b
  <2> QED  BY <1>1, <1>4, Zenon
<1>6. c % C = IF c < C THEN c ELSE c - C
  <2> HIDE DEF c
  <2> QED  BY <1>1, <1>2, Zenon
<1>7. b % C = c % C
  <2> DEFINE u == b % C
             v == c % C
  <2> HIDE DEF x, u, v
  <2>1. (IF b < C THEN b ELSE b - C) = (IF c < C THEN c ELSE c - C)
    BY <1>3
  <2> QED  BY <2>1, <1>5, <1>6 DEF u, v
<1> QED
  BY <1>7

\* How far behind write_pos the cell of the i-th byte lies, counting round the
\* ring: unread bytes (i <= l) are the farthest, free cells the nearest.
LEMMA WriteOffset ==
    ASSUME NEW C \in Nat \ {0}, NEW rp \in 0..(C - 1),
           NEW l \in 0..C, NEW i \in 1..C
    PROVE  (((rp + i - 1) % C) + C - ((rp + l) % C)) % C
             = IF i <= l THEN C - l + i - 1 ELSE i - l - 1
<1>1. \A x \in 0..(C + C - 1) : x % C = IF x < C THEN x ELSE x - C
  BY Wrap
<1> DEFINE a == rp + i - 1
           b == rp + l
           x == a % C
           y == b % C
           d == x + C - y
<1>2. a \in 0..(C + C - 1) /\ b \in 0..(C + C - 1)
  OBVIOUS
<1>3. x = IF a < C THEN a ELSE a - C
  <2> HIDE DEF a
  <2> QED  BY <1>1, <1>2, Zenon
<1>4. y = IF b < C THEN b ELSE b - C
  <2> HIDE DEF b
  <2> QED  BY <1>1, <1>2, Zenon
<1>5. d \in 0..(C + C - 1)
  <2> HIDE DEF x, y
  <2> QED  BY <1>2, <1>3, <1>4
<1>6. d % C = IF d < C THEN d ELSE d - C
  <2> HIDE DEF d
  <2> QED  BY <1>1, <1>5, Zenon
<1>7. (IF d < C THEN d ELSE d - C) = IF i <= l THEN C - l + i - 1 ELSE i - l - 1
  <2> HIDE DEF x, y
  <2> QED  BY <1>3, <1>4
<1> QED
  BY <1>6, <1>7
\* The inductive invariant: the fields in range, the stream intact, and
\* write_pos at the end of the unread bytes.
RingInv == RingTypeOK /\ StreamIntact /\ PositionsMeet

\* PipeBuffer::new gives an empty ring, which meets the invariant.
LEMMA InitRing == Init => RingInv
<1> SUFFICES ASSUME Init PROVE RingInv
  OBVIOUS
<1>1. 0 \in Positions /\ 0 \in 0..(PIPE_CAPACITY + PIPE_CAPACITY - 1)
  BY RingAssumption DEF Positions
<1>2. 0 % PIPE_CAPACITY = 0
  BY <1>1, RingAssumption, Wrap
<1>3. RingTypeOK
  BY <1>1, RingAssumption DEF Init, RingTypeOK
<1>4. StreamIntact
  BY DEF Init, StreamIntact
<1>5. PositionsMeet
  BY <1>2 DEF Init, PositionsMeet
<1> QED
  BY <1>3, <1>4, <1>5 DEF RingInv

\* A read of n of the unread bytes keeps the invariant.
LEMMA ReadKeepsRing ==
    ASSUME RingInv, NEW count \in 1..MaxCount, len > 0, ReadFrom(count),
           UNCHANGED << closed, killed, sent, eof >>
    PROVE  RingInv'
<1> USE RingAssumption
<1> DEFINE C == PIPE_CAPACITY
           n == Lesser(count, len)
           data == [i \in 1..n |-> Unread(i)]
<1>1. /\ C \in Nat \ {0} /\ len \in 1..C /\ read_pos \in 0..(C - 1)
      /\ n \in 1..len
  BY DEF RingInv, RingTypeOK, Positions, Lesser
<1>2. /\ got' = got \o data /\ read_pos' = (read_pos + n) % C /\ len' = len - n
      /\ buf' = buf /\ write_pos' = write_pos /\ sent' = sent
  BY DEF ReadFrom
<1>3. \A i \in 1..len : Unread(i) = sent[Len(got) + i] /\ Len(got) + i \in 1..Len(sent)
  BY <1>1 DEF RingInv, RingTypeOK, StreamIntact
<1>4. data \in Seq(Bytes) /\ Len(data) = n
  <2>1. ASSUME NEW i \in 1..n  PROVE Unread(i) \in Bytes
    <3>1. i \in 1..len
      BY <1>1
    <3>2. Unread(i) = sent[Len(got) + i] /\ Len(got) + i \in 1..Len(sent)
      BY <1>3, <3>1
    <3>3. sent \in Seq(Bytes)
      BY DEF RingInv, RingTypeOK
    <3> HIDE DEF n
    <3> QED  BY <3>2, <3>3
  <2> HIDE DEF n
  <2> QED  BY <1>1, <2>1
<1>5. \A i \in 1..n : data[i] = sent[Len(got) + i]
  BY <1>1, <1>3
<1>6. \A j \in 0..(len - n) : (((read_pos + n) % C) + j) % C = (read_pos + (n + j)) % C
  <2> TAKE j \in 0..(len - n)
  <2>1. n \in Nat /\ j \in Nat /\ n + j <= C
    BY <1>1
  <2> HIDE DEF n, C
  <2> QED  BY <1>1, <2>1, ReadShift
<1>7. \A i \in 1..(len - n) : Unread(i)' = Unread(n + i)
  <2> TAKE i \in 1..(len - n)
  <2> DEFINE j == i - 1
  <2>1. j \in 0..(len - n)
    BY <1>1
  <2>2. (((read_pos + n) % C) + j) % C = (read_pos + (n + j)) % C
    BY <1>6, <2>1
  <2>3. read_pos + (n + j) = read_pos + (n + i) - 1
    BY <1>1
  <2>4. read_pos' + i - 1 = ((read_pos + n) % C) + j
    BY <1>1, <1>2
  <2> QED  BY <1>2, <2>2, <2>3, <2>4 DEF Unread
<1>8. RingTypeOK'
  <2>1. read_pos' \in Positions /\ len' \in 0..C
    BY <1>1, <1>2 DEF Positions
  <2>2. got' \in Seq(Bytes)
    BY <1>2, <1>4 DEF RingInv, RingTypeOK
  <2> QED  BY <1>2, <2>1, <2>2 DEF RingInv, RingTypeOK
<1>9. StreamIntact'
  <2>1. Len(got') = Len(got) + n /\ got \in Seq(Bytes) /\ Len(got) \in Nat
    BY <1>1, <1>2, <1>4, SMTT(60) DEF RingInv, RingTypeOK
  <2>2. Len(sent') = Len(got') + len'
    BY <1>1, <1>2, <2>1 DEF RingInv, StreamIntact
  <2>3. ASSUME NEW i \in 1..Len(got')
        PROVE  got'[i] = sent'[i]
    <3>1. CASE i <= Len(got)
      <4>1. got'[i] = got[i]
        BY <1>2, <1>4, <2>1, <3>1
      <4> QED  BY <1>2, <2>1, <3>1, <4>1 DEF RingInv, StreamIntact
    <3>2. CASE i > Len(got)
      <4>1. i - Len(got) \in 1..n
        BY <1>1, <2>1, <3>2
      <4>2. got'[i] = data[i - Len(got)]
        <5> HIDE DEF data, n
        <5> QED  BY <1>1, <1>2, <1>4, <2>1, <3>2
      <4>3. data[i - Len(got)] = sent[Len(got) + (i - Len(got))]
        BY <1>5, <4>1
      <4>4. Len(got) + (i - Len(got)) = i
        BY <2>1
      <4> HIDE DEF data
      <4> QED  BY <1>2, <4>2, <4>3, <4>4
    <3> QED  BY <2>1, <3>1, <3>2
  <2>4. ASSUME NEW i \in 1..len'
        PROVE  Unread(i)' = sent'[Len(got') + i]
    <3>1. i \in 1..(len - n) /\ n + i \in 1..len
      BY <1>1, <1>2
    <3>2. Unread(i)' = sent[Len(got) + (n + i)]
      BY <1>3, <1>7, <3>1
    <3> QED  BY <1>1, <1>2, <2>1, <3>1, <3>2, SMTT(60)
  <2> QED  BY <2>2, <2>3, <2>4 DEF StreamIntact
<1>10. PositionsMeet'
  <2>1. len - n \in 0..(len - n) /\ n + (len - n) = len
    BY <1>1
  <2>2. (((read_pos + n) % C) + (len - n)) % C = (read_pos + (n + (len - n))) % C
    BY <1>6, <2>1
  <2> QED  BY <1>2, <2>1, <2>2 DEF RingInv, PositionsMeet
<1> QED
  BY <1>8, <1>9, <1>10 DEF RingInv

\* A write of n bytes into the free cells keeps the invariant.
LEMMA WriteKeepsRing ==
    ASSUME RingInv, NEW src \in Seq(Bytes), len < PIPE_CAPACITY, WriteTo(src),
           UNCHANGED << closed, killed, got, eof >>
    PROVE  RingInv'
<1> USE RingAssumption
<1> DEFINE C == PIPE_CAPACITY
           n == Lesser(Len(src), C - len)
           offset(p) == (p + C - write_pos) % C
           data == SubSeq(src, 1, n)
<1>1. /\ C \in Nat \ {0} /\ len \in 0..(C - 1) /\ read_pos \in 0..(C - 1)
      /\ n \in 0..(C - len) /\ n <= Len(src) /\ n \in Nat
  BY DEF RingInv, RingTypeOK, Positions, Lesser
<1>2. /\ buf' = [p \in Positions |-> IF offset(p) < n THEN src[offset(p) + 1] ELSE buf[p]]
      /\ write_pos' = (write_pos + n) % C /\ len' = len + n
      /\ sent' = sent \o data /\ got' = got /\ read_pos' = read_pos
  BY DEF WriteTo
<1>3. data \in Seq(Bytes) /\ Len(data) = n /\ \A k \in 1..n : data[k] = src[k]
  <2> HIDE DEF n
  <2> QED  BY <1>1
<1>4. ASSUME NEW i \in 1..C
      PROVE  /\ (read_pos + i - 1) % C \in Positions
             /\ offset((read_pos + i - 1) % C) = IF i <= len THEN C - len + i - 1
                                                ELSE i - len - 1
  <2>1. (((read_pos + i - 1) % C) + C - ((read_pos + len) % C)) % C
          = IF i <= len THEN C - len + i - 1 ELSE i - len - 1
    <3>1. len \in 0..C
      BY <1>1
    <3> HIDE DEF C
    <3> QED  BY <1>1, <3>1, WriteOffset
  <2>2. write_pos = (read_pos + len) % C
    BY DEF RingInv, PositionsMeet
  <2>3. (read_pos + i - 1) % C \in Positions
    BY <1>1 DEF Positions
  <2> QED  BY <2>1, <2>2, <2>3
<1>5. ASSUME NEW i \in 1..len
      PROVE  Unread(i)' = Unread(i)
  <2> DEFINE p == (read_pos + i - 1) % C
  <2>1. i \in 1..C
    BY <1>1
  <2>2. p \in Positions /\ offset(p) = C - len + i - 1
    BY <1>4, <2>1
  <2>3. ~(offset(p) < n)
    <3> HIDE DEF n, offset
    <3> QED  BY <1>1, <2>2
  <2>4. buf'[p] = buf[p]
    <3> HIDE DEF n, offset, p
    <3> QED  BY <1>2, <2>2, <2>3
  <2> QED  BY <1>2, <2>4 DEF Unread
<1>6. ASSUME NEW i \in 1..C, i > len, i <= len + n
      PROVE  Unread(i)' = src[i - len]
  <2> DEFINE p == (read_pos + i - 1) % C
  <2>1. p \in Positions /\ offset(p) = i - len - 1
    <3>1. p \in Positions /\ offset(p) = IF i <= len THEN C - len + i - 1 ELSE i - len - 1
      BY <1>4
    <3> HIDE DEF n, offset, p
    <3> QED  BY <1>1, <1>6, <3>1
  <2>2. offset(p) < n /\ offset(p) + 1 = i - len
    <3> HIDE DEF n, offset
    <3> QED  BY <1>1, <1>6, <2>1
  <2>3. buf'[p] = src[i - len]
    <3> HIDE DEF n, offset, p
    <3> QED  BY <1>2, <2>1, <2>2
  <2> QED  BY <1>2, <2>3 DEF Unread
<1>7. RingTypeOK'
  <2>1. ASSUME NEW p \in Positions
        PROVE  (IF offset(p) < n THEN src[offset(p) + 1] ELSE buf[p]) \in Bytes
    <3>1. offset(p) \in Nat
      BY <1>1 DEF RingInv, RingTypeOK, Positions
    <3> HIDE DEF n, offset
    <3>2. CASE offset(p) < n
      <4>1. offset(p) + 1 \in 1..Len(src)
        BY <1>1, <3>1, <3>2
      <4> QED  BY <3>2, <4>1
    <3>3. CASE ~(offset(p) < n)
      BY <3>3 DEF RingInv, RingTypeOK
    <3> QED  BY <3>2, <3>3
  <2>2. buf' \in [Positions -> Bytes]
    <3> HIDE DEF n, offset
    <3> QED  BY <1>2, <2>1
  <2>3. write_pos' \in Positions /\ len' \in 0..C /\ read_pos' \in Positions
    <3>1. write_pos \in 0..(C - 1) /\ read_pos \in Positions
      BY DEF RingInv, RingTypeOK, Positions
    <3> HIDE DEF n
    <3>2. (write_pos + n) % C \in 0..(C - 1)
      BY <1>1, <3>1
    <3> QED  BY <1>1, <1>2, <3>1, <3>2 DEF Positions
  <2>4. sent' \in Seq(Bytes)
    <3> HIDE DEF data
    <3> QED  BY <1>2, <1>3 DEF RingInv, RingTypeOK
  <2> QED  BY <1>2, <2>2, <2>3, <2>4 DEF RingInv, RingTypeOK
<1>8. StreamIntact'
  <2>1. /\ Len(got) \in Nat /\ sent \in Seq(Bytes)
        /\ Len(sent) = Len(got) + len /\ Len(sent') = Len(sent) + n
    <3>1. Len(got) \in Nat /\ sent \in Seq(Bytes) /\ Len(sent) = Len(got) + len
      BY DEF RingInv, RingTypeOK, StreamIntact
    <3>2. Len(sent') = Len(sent) + n
      <4>1. sent' = sent \o data
        BY <1>2
      <4> HIDE DEF data, n
      <4>2. Len(sent \o data) = Len(sent) + Len(data)
        BY <1>3, <3>1, ConcatProperties
      <4> QED  BY <1>3, <4>1, <4>2
    <3> QED  BY <3>1, <3>2
  <2>2. \A i \in 1..(Len(sent) + n) : sent'[i] = IF i <= Len(sent) THEN sent[i]
                                                                 ELSE data[i - Len(sent)]
    <3>1. sent' = sent \o data
      BY <1>2
    <3> HIDE DEF data, n
    <3>2. \A i \in 1..(Len(sent) + Len(data)) :
             (sent \o data)[i] = IF i <= Len(sent) THEN sent[i] ELSE data[i - Len(sent)]
      BY <1>3, <2>1, ConcatProperties
    <3> QED  BY <1>3, <3>1, <3>2
  <2>3. \A i \in 1..Len(sent) : sent'[i] = sent[i]
    <3> HIDE DEF data, n
    <3> QED  BY <1>1, <2>1, <2>2
  <2>4. ASSUME NEW k \in 1..n PROVE sent'[Len(sent) + k] = data[k]
    <3> HIDE DEF data, n
    <3>1. /\ Len(sent) + k \in 1..(Len(sent) + n) /\ ~(Len(sent) + k <= Len(sent))
          /\ (Len(sent) + k) - Len(sent) = k
      BY <1>1, <2>1
    <3> QED  BY <2>2, <3>1
  <2>5. Len(sent') = Len(got') + len'
    BY <1>1, <1>2, <2>1
  <2>6. \A i \in 1..Len(got') : got'[i] = sent'[i]
    BY <1>1, <1>2, <2>1, <2>3 DEF RingInv, StreamIntact
  <2>7. ASSUME NEW i \in 1..len'
        PROVE  Unread(i)' = sent'[Len(got') + i]
    <3>1. CASE i <= len
      <4>1. i \in 1..len /\ Len(got) + i \in 1..Len(sent)
        BY <1>1, <2>1, <3>1
      <4>2. Unread(i)' = sent[Len(got) + i]
        BY <1>5, <4>1 DEF RingInv, StreamIntact
      <4> QED  BY <1>2, <2>3, <4>1, <4>2
    <3>2. CASE i > len
      <4> DEFINE k == i - len
      <4> HIDE DEF n
      <4>1. k \in 1..n /\ len + k = i /\ Len(got) + i = Len(sent) + k
        BY <1>1, <1>2, <2>1, <3>2, SMTT(60)
      <4>2. Unread(i)' = src[k]
        <5>1. i \in 1..C /\ i <= len + n
          BY <1>1, <1>2
        <5> QED  BY <1>6, <3>2, <5>1
      <4>3. src[k] = sent'[Len(sent) + k]
        BY <1>3, <2>4, <4>1
      <4> HIDE DEF k
      <4> QED  BY <1>2, <4>1, <4>2, <4>3
    <3>3. i <= len \/ i > len
      BY <1>1
    <3> QED  BY <3>1, <3>2, <3>3
  <2> QED  BY <2>5, <2>6, <2>7 DEF StreamIntact
<1>9. PositionsMeet'
  <2>1. (((read_pos + len) % C) + n) % C = (read_pos + (len + n)) % C
    <3>1. len \in Nat /\ n \in Nat /\ len + n <= C
      BY <1>1
    <3> HIDE DEF n, C
    <3> QED  BY <1>1, <3>1, ReadShift
  <2> QED  BY <1>2, <2>1 DEF RingInv, PositionsMeet
<1> QED
  BY <1>7, <1>8, <1>9 DEF RingInv

\* Every attempt of read() and write(), and a close, keeps the invariant.
LEMMA NextRing == RingInv /\ [Next]_vars => RingInv'
<1> SUFFICES ASSUME RingInv, [Next]_vars PROVE RingInv'
  OBVIOUS
<1>1. ASSUME NEW r \in Readers, NEW count \in 1..MaxCount, Read(r, count)
      PROVE  RingInv'
  BY <1>1, ReadKeepsRing DEF Read
<1>2. ASSUME NEW r \in Readers, ReadEof(r)
      PROVE  RingInv'
  BY <1>2 DEF ReadEof, ring, RingInv, RingTypeOK, StreamIntact, PositionsMeet, Unread
<1>3. ASSUME NEW w \in Writers, NEW src \in Sources, Write(w, src)
      PROVE  RingInv'
  <2>1. src \in Seq(Bytes)
    BY DEF Sources
  <2> QED  BY <1>3, <2>1, WriteKeepsRing DEF Write
<1>4. ASSUME NEW w \in Writers, WriteKilled(w)
      PROVE  RingInv'
  BY <1>4 DEF WriteKilled, ring, RingInv, RingTypeOK, StreamIntact, PositionsMeet, Unread
<1>5. CASE Close
  BY <1>5 DEF Close, ring, RingInv, RingTypeOK, StreamIntact, PositionsMeet, Unread
<1>6. CASE UNCHANGED vars
  BY <1>6 DEF vars, ring, RingInv, RingTypeOK, StreamIntact, PositionsMeet, Unread
<1> QED
  BY <1>1, <1>2, <1>3, <1>4, <1>5, <1>6 DEF Next

\* read_from and write_to keep every field of PipeBufferInner in range.
THEOREM RingTypeCorrect == Spec => []RingTypeOK
<1>1. RingInv => RingTypeOK
  BY DEF RingInv
<1> QED
  BY InitRing, NextRing, <1>1, PTL DEF Spec

\* A virtual pipe delivers exactly the bytes that were written, in order, for
\* every capacity and any sequence of partial reads and writes.
THEOREM StreamStaysIntact == Spec => []StreamIntact
<1>1. RingInv => StreamIntact
  BY DEF RingInv
<1> QED
  BY InitRing, NextRing, <1>1, PTL DEF Spec

\* Once a read() has returned 0 no step puts bytes into the ring again.
LEMMA NextEof == RingInv /\ EofIsFinal /\ [Next]_vars => EofIsFinal'
<1> SUFFICES ASSUME RingInv, EofIsFinal, [Next]_vars PROVE EofIsFinal'
  OBVIOUS
<1>1. ASSUME NEW r \in Readers, NEW count \in 1..MaxCount, Read(r, count)
      PROVE  EofIsFinal'
  BY <1>1 DEF Read, EofIsFinal, RingInv, RingTypeOK
<1>2. ASSUME NEW r \in Readers, ReadEof(r)
      PROVE  EofIsFinal'
  BY <1>2 DEF ReadEof, ring, EofIsFinal, RingInv, RingTypeOK, StreamIntact
<1>3. ASSUME NEW w \in Writers, NEW src \in Sources, Write(w, src)
      PROVE  EofIsFinal'
  BY <1>3 DEF Write, EofIsFinal
<1>4. ASSUME NEW w \in Writers, WriteKilled(w)
      PROVE  EofIsFinal'
  BY <1>4 DEF WriteKilled, ring, EofIsFinal
<1>5. CASE Close
  BY <1>5 DEF Close, ring, EofIsFinal
<1>6. CASE UNCHANGED vars
  BY <1>6 DEF vars, ring, EofIsFinal
<1> QED
  BY <1>1, <1>2, <1>3, <1>4, <1>5, <1>6 DEF Next

\* A read() that returned 0 had the whole stream before it, and no byte is
\* written after it.
THEOREM EofStaysFinal == Spec => []EofIsFinal
<1>1. Init => EofIsFinal
  BY DEF Init, EofIsFinal
<1> QED
  BY InitRing, NextRing, NextEof, <1>1, PTL DEF Spec

\* The bytes that read_from returns are the next ones of the stream.
LEMMA ReadDelivers ==
    ASSUME RingInv, NEW count \in 1..MaxCount, len > 0, ReadFrom(count)
    PROVE  \E n \in 1..(Len(sent) - Len(got)) :
             got' = got \o SubSeq(sent, Len(got) + 1, Len(got) + n)
<1> DEFINE n == Lesser(count, len)
           data == [i \in 1..n |-> Unread(i)]
           part == SubSeq(sent, Len(got) + 1, Len(got) + n)
<1>1. /\ len \in Nat /\ n \in 1..len /\ Len(got) \in Nat /\ sent \in Seq(Bytes)
      /\ Len(sent) = Len(got) + len
  BY RingAssumption DEF RingInv, RingTypeOK, StreamIntact, Lesser
<1>2. part = [i \in 1..n |-> sent[Len(got) + i]]
  <2> DEFINE g == Len(got)
  <2>1. g + 1 \in 1..(Len(sent) + 1) /\ g + n \in (g + 1 - 1)..Len(sent)
    BY <1>1
  <2>2. /\ part \in Seq(Bytes)
        /\ Len(part) = (g + n) - (g + 1) + 1
        /\ \A i \in 1..((g + n) - (g + 1) + 1) : part[i] = sent[(g + 1) + i - 1]
    <3> HIDE DEF n
    <3> QED  BY <1>1, <2>1, SubSeqProperties
  <2>3. (g + n) - (g + 1) + 1 = n /\ \A i \in 1..n : (g + 1) + i - 1 = g + i
    BY <1>1
  <2> HIDE DEF n, part
  <2> QED  BY <2>2, <2>3
<1>3. \A i \in 1..n : Unread(i) = sent[Len(got) + i]
  BY <1>1 DEF RingInv, StreamIntact
<1>4. data = part
  <2> HIDE DEF n, part
  <2> QED  BY <1>2, <1>3
<1>5. got' = got \o data
  BY DEF ReadFrom
<1>6. n \in 1..(Len(sent) - Len(got))
  BY <1>1
<1>7. got' = got \o part
  BY <1>4, <1>5
<1> QED
  BY <1>6, <1>7

\* write_to appends at least one byte, and no more than there is room for.
LEMMA WriteAccepts ==
    ASSUME RingInv, NEW src \in Sources, len < PIPE_CAPACITY, WriteTo(src)
    PROVE  \E n \in 1..(PIPE_CAPACITY - (Len(sent) - Len(got))) :
             \E s \in [1..n -> Bytes] : sent' = sent \o s
<1> DEFINE n == Lesser(Len(src), PIPE_CAPACITY - len)
           data == SubSeq(src, 1, n)
<1>1. src \in Seq(Bytes) /\ Len(src) \in Nat \ {0}
  BY DEF Sources
<1>2. /\ len \in Nat /\ n \in 1..(PIPE_CAPACITY - len) /\ n <= Len(src)
      /\ Len(sent) - Len(got) = len
  BY <1>1, RingAssumption DEF RingInv, RingTypeOK, StreamIntact, Lesser
<1>3. data \in [1..n -> Bytes]
  <2> HIDE DEF n
  <2>1. data \in Seq(Bytes) /\ Len(data) = n
    BY <1>1, <1>2, RingAssumption
  <2> HIDE DEF data
  <2> QED  BY <2>1
<1>4. sent' = sent \o data
  BY DEF WriteTo
<1>5. n \in 1..(PIPE_CAPACITY - (Len(sent) - Len(got)))
  BY <1>2
<1> HIDE DEF n, data
<1> QED
  BY <1>3, <1>4, <1>5

\* PipeBuffer and its callers implement the bounded FIFO channel: every step of
\* the ring is a step of the channel or leaves the channel alone.
THEOREM RingImplementsChannel == Spec => ImplementsChannel
<1>1. Init => Channel!ChannelInit
  BY DEF Init, Channel!ChannelInit
<1>2. RingInv /\ [Next]_vars => [Channel!ChannelNext]_<< sent, got, closed, eof >>
  <2> SUFFICES ASSUME RingInv, [Next]_vars
               PROVE  Channel!ChannelNext \/ UNCHANGED << sent, got, closed, eof >>
    OBVIOUS
  <2>1. ASSUME NEW r \in Readers, NEW count \in 1..MaxCount, Read(r, count)
        PROVE  Channel!Receive
    BY <2>1, ReadDelivers DEF Read, Channel!Receive, Channel!InTransit
  <2>2. ASSUME NEW r \in Readers, ReadEof(r)
        PROVE  Channel!ReportEof
    <3>1. got = sent
      BY <2>2 DEF ReadEof, RingInv, RingTypeOK, StreamIntact
    <3> QED  BY <2>2, <3>1 DEF ReadEof, Channel!ReportEof
  <2>3. ASSUME NEW w \in Writers, NEW src \in Sources, Write(w, src)
        PROVE  Channel!Send
    BY <2>3, WriteAccepts DEF Write, Channel!Send, Channel!InTransit
  <2>4. ASSUME NEW w \in Writers, WriteKilled(w)
        PROVE  UNCHANGED << sent, got, closed, eof >>
    BY <2>4 DEF WriteKilled
  <2>5. CASE Close
    BY <2>5 DEF Close, Channel!Shut, Channel!ChannelNext
  <2>6. CASE UNCHANGED vars
    BY <2>6 DEF vars
  <2> QED
    BY <2>1, <2>2, <2>3, <2>4, <2>5, <2>6 DEF Next, Channel!ChannelNext
<1> QED
  BY InitRing, NextRing, <1>1, <1>2, PTL
     DEF Spec, ImplementsChannel, Channel!ChannelSpec
=============================================================================
