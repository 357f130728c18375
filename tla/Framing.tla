------------------------------ MODULE Framing ------------------------------
(***************************************************************************)
(* One direction of a link (ccsds.py): packets numbered per APID, framed,  *)
(* cut into reads at any byte by the transport, and deframed again by the  *)
(* reader's loop, which is the same in the server, the clients, the        *)
(* bridges and the exerciser.                                              *)
(*                                                                         *)
(* A byte is a number with the packet it protects: the two bytes of a CRC  *)
(* stand for a CRC that tells packets apart, so that a frame checks if and *)
(* only if its bytes are those of one packet.                              *)
(***************************************************************************)
EXTENDS Integers, Sequences, FiniteSets, SequencesExt

CONSTANTS
    Apids,    \* who sends
    Payloads, \* the payloads, sequences of small numbers
    SeqBits,  \* width of the sequence count, 14 in the code
    MaxFrames \* bound on the frames of a behaviour

ASSUME FramingAssumption ==
    /\ SeqBits \in Nat /\ 2^SeqBits \in Nat \ {0} \* so for every number of bits
    /\ MaxFrames \in Nat
    /\ Payloads \subseteq Seq(Nat) /\ Apids \subseteq Nat
    \* The length of a frame is a field of 16 bits.
    /\ \A p \in Payloads : Len(p) + 6 < 65536

VARIABLES
    counts,  \* SequenceCounter: the next count of an APID
    sent,    \* history: the packets sent
    flow,    \* bytes on their way
    reader   \* the reader's buffer, what it got out of it, whether it reads on

framingVars == <<counts, sent, flow, reader>>

-----------------------------------------------------------------------------
\* build_telemetry_packet: the header keeps SeqBits of the count.
Packet(apid, count, payload) == <<apid, count % 2^SeqBits>> \o payload

Byte(n) == [v |-> n, of |-> <<>>]
Crc(packet) == <<[v |-> -1, of |-> packet], [v |-> -2, of |-> packet]>>
Bytes(packet) == [i \in 1..Len(packet) |-> Byte(packet[i])]

\* frame: the length counts the whole frame, itself included.
Framed(packet) ==
    LET size == Len(packet) + 4
    IN  <<Byte(size \div 256), Byte(size % 256)>> \o Bytes(packet) \o Crc(packet)

\* deframe, from position i of a buffer: the packets, what is kept, and whether
\* a bad length or CRC ended it.
Length(b, i) == b[i + 1].v * 256 + b[i + 2].v
Body(b, i) == SubSeq(b, i + 3, i + Length(b, i) - 2)
Contents(b, i) == [j \in 1..Len(Body(b, i)) |-> Body(b, i)[j].v]
Checks(b, i) == SubSeq(b, i + Length(b, i) - 1, i + Length(b, i)) = Crc(Contents(b, i))

Incomplete(b, i) == Len(b) - i < 2 \/ Len(b) - i < Length(b, i)
\* Mutant: the bytes of a frame that is not complete yet are dropped.
RemainderDropped(b, i) == <<>>
Remainder(b, i) == SubSeq(b, i + 1, Len(b))

Damaged == [packets |-> <<>>, rest |-> <<>>, ok |-> FALSE]

ScanFrom(b, i, scan) ==
    IF Len(b) - i >= 2 /\ Length(b, i) < 4 THEN Damaged
    ELSE IF Incomplete(b, i) THEN [packets |-> <<>>, rest |-> Remainder(b, i), ok |-> TRUE]
    ELSE IF ~Checks(b, i) THEN Damaged
    ELSE LET after == scan[i + Length(b, i)]
         IN  [packets |-> <<Contents(b, i)>> \o after.packets, rest |-> after.rest,
              ok |-> after.ok]

Deframe(b) ==
    LET scan[i \in 0..Len(b)] == ScanFrom(b, i, scan) IN scan[0]

-----------------------------------------------------------------------------
FramingInit ==
    /\ counts = [a \in Apids |-> 0]
    /\ sent = <<>> /\ flow = <<>>
    /\ reader = [buffer |-> <<>>, got |-> <<>>, reads |-> TRUE]

\* Bytes sent so far, and those that have arrived.
Total == IF sent = <<>> THEN 0 ELSE Last(sent).end
Arrived == Total - Len(flow)

\* SequenceCounter.next, build_telemetry_packet and frame.
SendPacket ==
    /\ Len(sent) < MaxFrames
    /\ \E a \in Apids, payload \in Payloads :
          LET packet == Packet(a, counts[a], payload)
          IN /\ counts' = [counts EXCEPT ![a] = (@ + 1) % 2^SeqBits]
             /\ sent' = Append(sent, [packet |-> packet, sound |-> TRUE,
                                    end |-> Total + Len(Framed(packet))])
             /\ flow' = flow \o Framed(packet)
    /\ UNCHANGED reader

\* A peer that is broken spoils a byte of the frame it has just sent, once.
Spoil ==
    /\ sent # <<>> /\ \A k \in 1..Len(sent) : sent[k].sound
    /\ LET size == Len(Framed(Last(sent).packet))
       IN /\ Len(flow) >= size
          /\ \E i \in (Len(flow) - size + 1)..Len(flow), v \in {0, 9} :
                /\ flow[i].v # v
                /\ flow' = [flow EXCEPT ![i] = Byte(v)]
    /\ sent' = [sent EXCEPT ![Len(sent)].sound = FALSE]
    /\ UNCHANGED <<counts, reader>>

\* One read of the loop: any number of bytes, then deframe.  A FrameError ends
\* the link before any packet of this read is handled.
Read ==
    /\ reader.reads
    /\ \E n \in 1..Len(flow) :
          LET d == Deframe(reader.buffer \o SubSeq(flow, 1, n))
          IN /\ flow' = SubSeq(flow, n + 1, Len(flow))
             /\ reader' = IF d.ok
                          THEN [reader EXCEPT !.buffer = d.rest, !.got = @ \o d.packets]
                          ELSE [reader EXCEPT !.buffer = <<>>, !.reads = FALSE]
    /\ UNCHANGED <<counts, sent>>

FramingNext == SendPacket \/ Spoil \/ Read

FramingSpec == FramingInit /\ [][FramingNext]_framingVars

-----------------------------------------------------------------------------
(***************************************************************************)
(* Properties                                                              *)
(***************************************************************************)
Sound == {k \in 1..Len(sent) : \A j \in 1..k : sent[j].sound}
Earlier(packets, k) == {j \in 1..(k - 1) : packets[j][1] = packets[k][1]}

\* However the stream is cut, the reader has exactly the packets that were
\* sent and have arrived in full: none twice, none merged, none from behind a
\* damaged frame, and none missing while it reads.  The counts that it sees of
\* an APID follow each other without a gap, round the end of their field
\* (ccsds.py, deframe and SequenceCounter).
StreamIsExact ==
    LET got == reader.got
    IN /\ \A k \in 1..Len(got) : k \in Sound /\ got[k] = sent[k].packet
       /\ reader.reads => \A k \in Sound : sent[k].end <= Arrived => k <= Len(got)
       /\ \A k \in 1..Len(got) : got[k][2] = Cardinality(Earlier(got, k)) % 2^SeqBits
=============================================================================
