---------------------------- MODULE PipeChannel ----------------------------
(***************************************************************************)
(* What a virtual pipe promises: a bounded first-in first-out byte stream. *)
(* `sent' is all that write calls have accepted, `got' all that read calls *)
(* have delivered, and `eof' the readers that were told the stream ended.  *)
(***************************************************************************)
EXTENDS Integers, Sequences

CONSTANTS Bytes, Capacity, Readers

VARIABLES sent, got, closed, eof

InTransit == Len(sent) - Len(got)

ChannelInit == sent = << >> /\ got = << >> /\ closed = FALSE /\ eof = {}

\* Some bytes are accepted; never after the close, never beyond the capacity.
Send ==
    /\ ~closed
    /\ \E n \in 1..(Capacity - InTransit) : \E s \in [1..n -> Bytes] : sent' = sent \o s
    /\ UNCHANGED << got, closed, eof >>

\* The oldest bytes in transit are delivered.
Receive ==
    /\ \E n \in 1..InTransit : got' = got \o SubSeq(sent, Len(got) + 1, Len(got) + n)
    /\ UNCHANGED << sent, closed, eof >>

\* End of file is reported only when the closed stream has been read to its end.
ReportEof ==
    /\ closed /\ got = sent
    /\ \E r \in Readers : eof' = eof \cup {r}
    /\ UNCHANGED << sent, got, closed >>

Shut ==
    /\ closed' = TRUE
    /\ UNCHANGED << sent, got, eof >>

ChannelNext == Send \/ Receive \/ ReportEof \/ Shut

ChannelSpec == ChannelInit /\ [][ChannelNext]_<< sent, got, closed, eof >>
=============================================================================
