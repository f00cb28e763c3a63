------------------------- MODULE FramedStream_proofs -------------------------
(***************************************************************************)
(* PacketFramer implements FramedStream, for every packet size, probe      *)
(* length, chunk size and input: its initial states are initial states of  *)
(* the whole-stream framing, and every read and every iteration of Feed's  *)
(* loop is a step of it, or leaves it where it was.  And what it delivers, *)
(* and its verdict, are those of FramingResult.                            *)
(***************************************************************************)
EXTENDS PacketFramer_proofs, FramingResult, Induction_proofs

(***************************************************************************)
(* The refinement mapping, named.                                          *)
(***************************************************************************)

AbstractPos == IF Running THEN cursor - Len(pending) ELSE 0
AbstractVerdict == IF Running THEN "running" ELSE ReadFrameStatus

\* While framing goes on, the position is an offset of the stream.
LEMMA PositionInStream ==
    ASSUME IInv, Running
    PROVE  /\ Position \in Nat /\ Position <= cursor /\ cursor <= end
           /\ cursor \in Nat /\ end \in Nat /\ end <= stream.len /\ stream.len \in Nat
           /\ AbstractPos = Position /\ AbstractVerdict = "running"
<1>1. Len(pending) <= cursor /\ cursor \in Nat /\ Len(pending) \in Nat
  BY StateFacts DEF IInv, PendingIsContiguous
<1> QED BY <1>1, StateFacts DEF Position, AbstractPos, AbstractVerdict

\* What has been decided stays at position 0.
LEMMA DecidedAt ==
    ASSUME ~Running'
    PROVE  AbstractPos' = 0 /\ AbstractVerdict' = ReadFrameStatus'
  BY DEF AbstractPos, AbstractVerdict

\* The phase is the mode.
LEMMA PhaseIsMode ==
    ASSUME IInv
    PROVE  /\ InitialSync <=> Phase = "initial"
           /\ mode = "kSeekingSync" <=> Phase = "lost"
           /\ mode = "kSynced" <=> Phase = "locked"
  BY DEF IInv, TypeOK, Phase, InitialSync

(***************************************************************************)
(* The steps of the whole-stream framing, as steps of the framer's state.  *)
(***************************************************************************)

AbstractStep == [Framed!Next]_(Framed!vars)

\* The position moves on over bytes at which no alignment starts, or stays.
LEMMA SkipStep ==
    ASSUME IInv, Running, Running', Phase # "locked", NEW q \in Nat,
           Position' = q, Position <= q, q <= stream.len, Phase = "initial" => q < PktSize,
           Framed!NothingAligned(Position, q),
           UNCHANGED <<stream, mode, delivered>>
    PROVE  AbstractStep
<1>1. /\ AbstractPos = Position /\ AbstractPos' = q /\ Position \in Nat /\ stream.len \in Nat
      /\ AbstractVerdict = "running" /\ AbstractVerdict' = "running" /\ Phase' = Phase
  BY PositionInStream DEF AbstractPos, AbstractVerdict, Position, Phase
<1>2. CASE q = Position
  <2>1. UNCHANGED <<stream, AbstractPos, Phase, delivered, AbstractVerdict>>
    BY <1>1, <1>2
  <2> QED BY <2>1 DEF AbstractStep, Framed!vars, AbstractPos, AbstractVerdict
<1>3. CASE q # Position
  <2>1. q \in (Position + 1)..stream.len /\ q \in 0..stream.len
    BY <1>1, <1>3
  <2>2. Framed!Skip(q)
    BY <1>1, <2>1 DEF Framed!Skip, AbstractPos, AbstractVerdict
  <2> QED BY <2>1, <2>2 DEF AbstractStep, Framed!Next
<1> QED BY <1>2, <1>3

\* An alignment at q is locked to: its packets are handed over, all or up to a refusal.
LEMMA LockStep ==
    ASSUME IInv, Running, Phase # "locked", NEW q \in Nat, Position <= q,
           Phase = "initial" => q < PktSize,
           Framed!NothingAligned(Position, q), Framed!Aligned(q), q <= stream.len,
           stream' = stream,
           \/ /\ delivered' = delivered \o Framed!Run(q, SyncProbePackets)
              /\ Running' /\ Position' = q + SyncProbePackets * PktSize
              /\ mode' = "kSynced"
           \/ /\ \E k \in 1..SyncProbePackets : delivered' = delivered \o Framed!Run(q, k)
              /\ ~Running' /\ ReadFrameStatus' = "kFailed"
              /\ mode' = mode
    PROVE  AbstractStep
<1>1. /\ AbstractPos = Position /\ AbstractVerdict = "running"
      /\ Position \in Nat /\ stream.len \in Nat
  BY PositionInStream
<1>2. q \in Position..stream.len /\ q \in 0..stream.len
  BY <1>1
<1>3. \/ /\ delivered' = delivered \o Framed!Run(q, SyncProbePackets)
         /\ AbstractPos' = q + SyncProbePackets * PktSize
         /\ Phase' = "locked"
         /\ AbstractVerdict' = AbstractVerdict
      \/ /\ \E k \in 1..SyncProbePackets : delivered' = delivered \o Framed!Run(q, k)
         /\ AbstractVerdict' = "kFailed" /\ AbstractPos' = 0
         /\ Phase' = Phase
  <2>1. CASE Running' /\ mode' = "kSynced" /\ Position' = q + SyncProbePackets * PktSize
             /\ delivered' = delivered \o Framed!Run(q, SyncProbePackets)
    <3>1. AbstractPos' = q + SyncProbePackets * PktSize /\ AbstractVerdict' = "running"
      BY <2>1 DEF AbstractPos, AbstractVerdict, Position
    <3>2. Phase' = "locked"
      BY <2>1 DEF Phase
    <3> QED BY <1>1, <2>1, <3>1, <3>2
  <2>2. CASE ~Running' /\ ReadFrameStatus' = "kFailed" /\ mode' = mode
             /\ \E k \in 1..SyncProbePackets : delivered' = delivered \o Framed!Run(q, k)
    <3>1. Phase' = Phase
      BY <2>2 DEF Phase
    <3> QED BY <2>2, <3>1, DecidedAt
  <2> QED BY <2>1, <2>2
<1>4. Framed!Lock(q)
  BY <1>1, <1>2, <1>3 DEF Framed!Lock, Framed!Decide, AbstractPos, AbstractVerdict
<1> QED BY <1>2, <1>4 DEF AbstractStep, Framed!Next

\* The packet at the position is handed over, and accepted or refused.
LEMMA DeliverStep ==
    ASSUME IInv, Running, Phase = "locked", IsSync(Position),
           Position + PktSize <= stream.len,
           delivered' = Append(delivered, Framed!Packet(Position)),
           UNCHANGED <<stream, mode>>,
           \/ Running' /\ Position' = Position + PktSize
           \/ ~Running' /\ ReadFrameStatus' = "kFailed"
    PROVE  AbstractStep
<1>1. AbstractPos = Position /\ AbstractVerdict = "running" /\ Phase' = Phase
  BY PositionInStream DEF Phase
<1>2. \/ AbstractPos' = AbstractPos + PktSize /\ AbstractVerdict' = AbstractVerdict
      \/ AbstractVerdict' = "kFailed" /\ AbstractPos' = 0
  <2>1. CASE Running' /\ Position' = Position + PktSize
    BY <1>1, <2>1 DEF AbstractPos, AbstractVerdict, Position
  <2>2. CASE ~Running' /\ ReadFrameStatus' = "kFailed"
    BY <2>2, DecidedAt
  <2> QED BY <2>1, <2>2
<1>3. AbstractPos \in stream.sync /\ AbstractPos + PktSize <= stream.len
      /\ delivered' = Append(delivered, Framed!Packet(AbstractPos))
  BY <1>1 DEF IsSync
<1>4. Framed!Deliver
  BY <1>1, <1>2, <1>3 DEF Framed!Deliver, Framed!Decide, AbstractPos, AbstractVerdict
<1> QED BY <1>4 DEF AbstractStep, Framed!Next

\* Framing is over, with the verdict the whole stream deserves.
LEMMA DecideStep ==
    ASSUME IInv, Running, ~Running', UNCHANGED <<stream, mode, delivered>>,
           \/ ReadFrameStatus' = "kFailed"
           \/ /\ ReadFrameStatus' = "kNoSync"
              /\ Phase = "initial" /\ Framed!NothingAligned(Position, PktSize)
           \/ /\ ReadFrameStatus' = "kOk"
              /\ \/ Phase = "locked" /\ stream.len < Position + PktSize
                 \/ Phase = "lost" /\ Framed!NothingAligned(Position, stream.len)
    PROVE  AbstractStep
<1>1. /\ AbstractPos = Position /\ AbstractVerdict = "running" /\ Phase' = Phase
      /\ AbstractPos' = 0 /\ AbstractVerdict' = ReadFrameStatus'
  BY PositionInStream, DecidedAt DEF Phase
<1>2. CASE ReadFrameStatus' = "kFailed"
  <2>1. Framed!Fail
    BY <1>1, <1>2 DEF Framed!Fail, Framed!Decide, AbstractPos, AbstractVerdict
  <2> QED BY <2>1 DEF AbstractStep, Framed!Next
<1>3. CASE /\ ReadFrameStatus' = "kNoSync"
           /\ Phase = "initial" /\ Framed!NothingAligned(Position, PktSize)
  <2>1. Framed!NothingAligned(AbstractPos, PktSize)
    BY <1>1, <1>3
  <2>2. Framed!NoSync
    BY <1>1, <1>3, <2>1 DEF Framed!NoSync, Framed!Decide, AbstractPos, AbstractVerdict
  <2> QED BY <2>2 DEF AbstractStep, Framed!Next
<1>4. CASE /\ ReadFrameStatus' = "kOk"
           /\ \/ Phase = "locked" /\ stream.len < Position + PktSize
              \/ Phase = "lost" /\ Framed!NothingAligned(Position, stream.len)
  <2>1. \/ Phase = "locked" /\ stream.len < AbstractPos + PktSize
        \/ Phase = "lost" /\ Framed!NothingAligned(AbstractPos, stream.len)
    BY <1>1, <1>4
  <2>2. Framed!Finish
    BY <1>1, <1>4, <2>1 DEF Framed!Finish, Framed!Decide, AbstractPos, AbstractVerdict
  <2> QED BY <2>2 DEF AbstractStep, Framed!Next
<1> QED BY <1>2, <1>3, <1>4

(***************************************************************************)
(* Where no alignment starts.                                              *)
(***************************************************************************)

\* Not at a byte other than the sync byte.
LEMMA NotSyncNotAligned ==
    ASSUME NEW q \in Nat, ~IsSync(q)
    PROVE  ~Framed!Aligned(q)
<1>1. 0 \in 0..(SyncProbePackets - 1) /\ q + 0 * PktSize = q
  BY SyncProbePacketsAssumption, SizesType
<1> QED BY <1>1 DEF Framed!Aligned, IsSync

\* Not where too little of the input is left for a probe window.
LEMMA TooLateNotAligned ==
    ASSUME NEW q \in Nat, stream.len < q + kSyncProbeSize, stream.len \in Nat
    PROVE  ~Framed!Aligned(q)
<1>1. SyncProbePackets * PktSize = kSyncProbeSize
  BY PktSizeAssumption, SyncProbePacketsAssumption DEF kSyncProbeSize
<1> QED BY <1>1, SizesType DEF Framed!Aligned

\* Not at a candidate whose window has a boundary without a sync byte.
LEMMA BadWindowNotAligned ==
    ASSUME NEW b \in Nat, NEW e \in Nat, b <= e, ~PendingSyncBytesAreValid(Bytes(b, e))
    PROVE  ~Framed!Aligned(b)
<1>1. PICK index \in 0..(SyncProbePackets - 1) :
        Len(Bytes(b, e)) > index * PktSize /\ ~IsSync(Bytes(b, e)[index * PktSize + 1])
  BY DEF PendingSyncBytesAreValid
<1> DEFINE at == index * PktSize
<1>2. at \in Nat
  BY SizesType, SyncProbePacketsAssumption
<1> HIDE DEF at
<1>3. at + 1 \in 1..(e - b)
  <2>1. Len(Bytes(b, e)) = e - b /\ Len(Bytes(b, e)) > at
    BY <1>1, BytesProperties DEF at
  <2> QED BY <1>2, <2>1
<1>4. Bytes(b, e)[at + 1] = b + at
  BY <1>2, <1>3 DEF Bytes
<1>5. b + index * PktSize \notin stream.sync
  BY <1>1, <1>4 DEF at, IsSync
<1> QED BY <1>5 DEF Framed!Aligned

\* Not at the bytes the scan for a candidate passes over.
LEMMA ScannedNotAligned ==
    ASSUME IInv, Seeking, NEW sync \in cursor..end, CopiesFrom(sync)
    PROVE  /\ Framed!NothingAligned(Position, WindowStart(sync))
           /\ WindowStart(sync) \in Nat /\ Position <= WindowStart(sync)
           /\ pending = << >> => WindowStart(sync) = sync /\ Position = cursor
           /\ pending # << >> => WindowStart(sync) = Position
<1>1. /\ Running /\ cursor \in Nat /\ end \in Nat /\ sync \in Nat /\ cursor <= end
      /\ Position \in Nat
  BY PositionInStream DEF Seeking, Running
<1>2. CASE pending # << >>
  <2>1. WindowStart(sync) = Position
    BY <1>2 DEF CopiesFrom, WindowStart, Position
  <2> QED BY <1>1, <1>2, <2>1 DEF Framed!NothingAligned
<1>3. CASE pending = << >>
  <2>1. WindowStart(sync) = sync /\ Position = cursor
    BY <1>1, <1>3 DEF WindowStart, Position
  <2>2. ASSUME NEW q \in cursor..(sync - 1)
        PROVE  ~Framed!Aligned(q)
    <3>1. q \in Nat /\ q - cursor + 1 \in 1..(sync - cursor) /\ q - cursor + 1 \in 1..(end - cursor)
      BY <1>1
    <3>2. ~IsSync(Bytes(cursor, end)[q - cursor + 1])
      BY <1>1, <1>3, <3>1 DEF CopiesFrom, Finds
    <3>3. Bytes(cursor, end)[q - cursor + 1] = q
      BY <1>1, <3>1 DEF Bytes
    <3> QED BY <3>1, <3>2, <3>3, NotSyncNotAligned
  <2> QED BY <1>1, <1>3, <2>1, <2>2 DEF Framed!NothingAligned
<1> QED BY <1>2, <1>3

\* Two stretches without an alignment make one.
LEMMA NothingAlignedJoins ==
    ASSUME NEW a \in Nat, NEW b \in Nat, NEW c \in Nat,
           Framed!NothingAligned(a, b), Framed!NothingAligned(b, c)
    PROVE  Framed!NothingAligned(a, c)
  BY DEF Framed!NothingAligned

(***************************************************************************)
(* The reads.                                                              *)
(***************************************************************************)

\* A chunk read is no step of the whole-stream framing.
LEMMA ReadStutters ==
    ASSUME IInv, NEW n \in 1..ChunkSize, Read(n)
    PROVE  AbstractStep
<1>1. /\ Running /\ Running'
      /\ UNCHANGED <<stream, mode, cursor, pending, delivered>>
  BY DEF Read, Running
<1>2. UNCHANGED <<stream, AbstractPos, Phase, delivered, AbstractVerdict>>
  BY <1>1 DEF AbstractPos, AbstractVerdict, Phase
<1> QED BY <1>2 DEF AbstractStep, Framed!vars, AbstractPos, AbstractVerdict

\* At the end of the input, no alignment starts in what is still in the buffer.
LEMMA ReadEofDecides ==
    ASSUME IInv, ReadEof
    PROVE  AbstractStep
<1>1. /\ Running /\ ~Running' /\ UNCHANGED <<stream, mode, delivered>>
      /\ cursor = stream.len /\ ~initial_sync_failed
      /\ initial_sync_failed' = (mode = "kInitialSync")
      /\ mode # "kInitialSync" => status' = "true"
  BY DEF ReadEof, Running, IInv, ChunkBounds
<1>2. Position \in Nat /\ stream.len \in Nat /\ Len(pending) \in Nat
      /\ stream.len = Position + Len(pending)
  BY <1>1, PositionInStream, StateFacts DEF Position
<1>3. CASE mode = "kSynced"
  <2>1. Phase = "locked" /\ ReadFrameStatus' = "kOk"
    BY <1>1, <1>3 DEF Phase, ReadFrameStatus
  <2>2. stream.len < Position + PktSize
    BY <1>1, <1>2, <1>3, SizesType DEF IInv, PendingFits
  <2> QED BY <1>1, <2>1, <2>2, DecideStep
<1>4. CASE mode # "kSynced"
  <2>1. stream.len < Position + kSyncProbeSize
    BY <1>1, <1>2, <1>4, SizesType DEF IInv, PendingFits
  <2>2. ASSUME NEW q \in Nat, Position <= q
        PROVE  ~Framed!Aligned(q)
    <3>1. stream.len < q + kSyncProbeSize
      BY <1>2, <2>1, <2>2, SizesType
    <3> QED BY <1>2, <3>1, TooLateNotAligned
  <2>3. Framed!NothingAligned(Position, PktSize)
        /\ Framed!NothingAligned(Position, stream.len)
    BY <1>2, <2>2, SizesType DEF Framed!NothingAligned
  <2>4. CASE mode = "kInitialSync"
    <3>1. Phase = "initial" /\ ReadFrameStatus' = "kNoSync"
      BY <1>1, <2>4 DEF Phase, ReadFrameStatus
    <3> QED BY <1>1, <2>3, <3>1, DecideStep
  <2>5. CASE mode = "kSeekingSync"
    <3>1. Phase = "lost" /\ ReadFrameStatus' = "kOk"
      BY <1>1, <2>5 DEF Phase, ReadFrameStatus
    <3> QED BY <1>1, <2>3, <3>1, DecideStep
  <2> QED BY <1>4, <2>4, <2>5 DEF IInv, TypeOK
<1> QED BY <1>3, <1>4

\* A read error fails the run.
LEMMA ReadErrorDecides ==
    ASSUME IInv, ReadError
    PROVE  AbstractStep
<1>1. /\ Running /\ ~Running' /\ UNCHANGED <<stream, mode, delivered>>
      /\ ReadFrameStatus' = "kFailed"
  BY DEF ReadError, Running, IInv, ReadFrameStatus
<1> QED BY <1>1, DecideStep

(***************************************************************************)
(* FeedSeekingSync.                                                        *)
(***************************************************************************)

\* The scan has passed the first PktSize bytes of the input.
LEMMA InitialScanFailsDecides ==
    ASSUME IInv, InitialScanFails
    PROVE  AbstractStep
<1>1. PICK sync \in cursor..end :
        CopiesFrom(sync) /\ initial_offset' = OffsetAfter(sync - cursor)
  BY DEF InitialScanFails
<1>2. /\ Seeking /\ Running /\ ~Running' /\ UNCHANGED <<stream, mode, delivered>>
      /\ InitialSync /\ pending = << >> /\ initial_offset' >= PktSize
      /\ ReadFrameStatus' = "kNoSync"
  BY DEF InitialScanFails, Stop, Running, Seeking, ReadFrameStatus
<1>3. /\ Framed!NothingAligned(Position, sync) /\ Position = cursor
      /\ sync \in Nat /\ cursor \in Nat
  BY <1>1, <1>2, ScannedNotAligned, StateFacts
<1>4. PktSize <= sync
  <2>1. initial_offset = cursor
    BY <1>2, StateFacts DEF IInv, InitialOffsetIsCandidate
  <2> QED BY <1>1, <1>2, <1>3, <2>1, SizesType DEF OffsetAfter
<1>5. Framed!NothingAligned(Position, PktSize)
  BY <1>3, <1>4, SizesType DEF Framed!NothingAligned
<1>6. Phase = "initial"
  BY <1>2, PhaseIsMode
<1> QED BY <1>2, <1>5, <1>6, DecideStep

\* No candidate in the chunk: all of it is passed over.
LEMMA ScanExhaustedSkips ==
    ASSUME IInv, ScanExhausted
    PROVE  AbstractStep
<1>1. /\ Seeking /\ Running /\ Running' /\ UNCHANGED <<stream, mode, delivered>>
      /\ pending = << >> /\ pending' = << >> /\ cursor' = end /\ CopiesFrom(end)
      /\ initial_offset' = OffsetAfter(end - cursor)
      /\ ~(InitialSync /\ initial_offset' >= PktSize)
  BY DEF ScanExhausted, NeedMoreData, Seeking, Running
<1>2. /\ Position \in Nat /\ cursor \in Nat /\ end \in Nat /\ cursor <= end
      /\ end <= stream.len
  BY <1>1, PositionInStream
<1>3. Framed!NothingAligned(Position, end) /\ Position = cursor
  BY <1>1, <1>2, ScannedNotAligned, end \in cursor..end
<1>4. Position' = end
  BY <1>1, <1>2 DEF Position
<1>5. Phase = "initial" => end < PktSize
  <2>1. SUFFICES ASSUME InitialSync PROVE end < PktSize
    BY PhaseIsMode
  <2>2. initial_offset = cursor
    BY <1>1, <2>1, StateFacts DEF IInv, InitialOffsetIsCandidate
  <2> QED BY <1>1, <1>2, <2>1, <2>2, SizesType DEF OffsetAfter
<1>6. Phase # "locked"
  BY <1>1, PhaseIsMode DEF Seeking
<1> QED BY <1>1, <1>2, <1>3, <1>4, <1>5, <1>6, SkipStep

\* A false candidate, and what follows it up to the next sync byte, is passed over.
LEMMA RejectCandidateSkips ==
    ASSUME IInv, RejectCandidate
    PROVE  AbstractStep
<1> DEFINE c(sync) == CopyEnd(sync, kSyncProbeSize)
           filled(sync) == Filled(sync, kSyncProbeSize)
<1>1. PICK sync \in cursor..end :
        /\ AtCandidate(sync)
        /\ ~PendingSyncBytesAreValid(filled(sync))
        /\ \E k \in 1..(Len(filled(sync)) + 1) :
             /\ DiscardPendingUntilNextSync(filled(sync), k)
             /\ pending' = SubSeq(filled(sync), k, Len(filled(sync)))
             /\ initial_offset' = OffsetAfter((sync - cursor) + (k - 1))
        /\ IF InitialSync /\ initial_offset' >= PktSize
           THEN initial_sync_failed' = TRUE /\ Stop
           ELSE Continue(c(sync))
        /\ UNCHANGED <<stream, mode, end, delivered>>
  BY DEF RejectCandidate
<1>2. PICK k \in 1..(Len(filled(sync)) + 1) :
        /\ DiscardPendingUntilNextSync(filled(sync), k)
        /\ pending' = SubSeq(filled(sync), k, Len(filled(sync)))
        /\ initial_offset' = OffsetAfter((sync - cursor) + (k - 1))
  BY <1>1
<1> DEFINE b == WindowStart(sync)
           e == c(sync)
           p == b + k - 1
<1>3. /\ b \in Nat /\ e \in Nat /\ b <= sync /\ sync < e /\ e <= end
      /\ filled(sync) = Bytes(b, e) /\ Len(filled(sync)) = e - b
      /\ InitialSync => OffsetAfter(sync - cursor) = b
  BY <1>1, CandidateWindow
<1>4. /\ Seeking /\ Running /\ Phase # "locked"
      /\ Framed!NothingAligned(Position, b) /\ Position <= b /\ Position \in Nat
  BY <1>1, ScannedNotAligned, PhaseIsMode, PositionInStream DEF AtCandidate, Seeking, Running
<1> HIDE DEF b, c
<1>5. k \in 2..(e - b + 1) /\ \A j \in 2..(k - 1) : ~IsSync(Bytes(b, e)[j])
  BY <1>2, <1>3 DEF DiscardPendingUntilNextSync, Finds
<1>6. p \in Nat /\ p <= e /\ b < p /\ b <= e /\ k \in 1..(e - b + 1)
  BY <1>3, <1>5
<1>7. ASSUME NEW q \in b..(p - 1)
      PROVE  ~Framed!Aligned(q)
  <2>1. CASE q = b
    BY <1>1, <1>3, <1>6, <2>1, BadWindowNotAligned
  <2>2. CASE q # b
    <3>1. q \in Nat /\ q - b + 1 \in 2..(k - 1) /\ q - b + 1 \in 1..(e - b)
      BY <1>3, <1>5, <2>2
    <3>2. ~IsSync(Bytes(b, e)[q - b + 1])
      BY <1>5, <3>1
    <3>3. Bytes(b, e)[q - b + 1] = q
      BY <1>3, <3>1 DEF Bytes
    <3> QED BY <3>1, <3>2, <3>3, NotSyncNotAligned
  <2> QED BY <2>1, <2>2
<1>8. Framed!NothingAligned(Position, p)
  <2>1. Framed!NothingAligned(b, p)
    BY <1>7 DEF Framed!NothingAligned
  <2> HIDE DEF p
  <2> QED BY <1>3, <1>4, <1>6, <2>1, NothingAlignedJoins
<1>9. InitialSync => initial_offset' = p
  <2>1. k \in Nat /\ sync \in Nat
    BY <1>3, <1>5, StateFacts
  <2>2. initial_offset' = OffsetAfter((sync - cursor) + (k - 1))
    BY <1>2
  <2>3. InitialSync => OffsetAfter(sync - cursor) = b
    BY <1>3
  <2> QED BY <2>1, <2>2, <2>3, StateFacts DEF OffsetAfter
<1>10. pending' = Bytes(p, e)
  <2>1. SubSeq(Bytes(b, e), k, e - b) = Bytes(b + k - 1, e)
    BY <1>3, <1>6, BytesSuffix
  <2> QED BY <1>2, <1>3, <2>1
<1> HIDE DEF p, e
<1>11. CASE InitialSync /\ initial_offset' >= PktSize
  <2>1. ~Running' /\ ReadFrameStatus' = "kNoSync" /\ Phase = "initial"
    BY <1>1, <1>11, PhaseIsMode DEF Stop, Running, ReadFrameStatus
  <2>2. PktSize <= p
    BY <1>9, <1>11, <1>6, SizesType
  <2>3. Framed!NothingAligned(Position, PktSize)
    BY <1>4, <1>6, <1>8, <2>2, SizesType DEF Framed!NothingAligned
  <2> QED BY <1>1, <1>4, <2>1, <2>3, DecideStep
<1>12. CASE ~(InitialSync /\ initial_offset' >= PktSize)
  <2>1. Running' /\ cursor' = e
    BY <1>1, <1>12 DEF Continue, Running, e
  <2>2. Position' = p
    <3>1. Len(Bytes(p, e)) = e - p
      BY <1>3, <1>6, BytesProperties
    <3> QED BY <1>3, <1>6, <1>10, <2>1, <3>1 DEF Position
  <2>3. Phase = "initial" => p < PktSize
    BY <1>6, <1>9, <1>12, PhaseIsMode, SizesType
  <2>4. p <= stream.len /\ Position <= p
    BY <1>3, <1>4, <1>6, StateFacts
  <2> QED BY <1>1, <1>4, <1>6, <1>8, <2>1, <2>2, <2>3, <2>4, SkipStep
<1> QED BY <1>11, <1>12

\* A candidate whose window is not full moves the position to the candidate.
LEMMA AwaitProbeSkips ==
    ASSUME IInv, AwaitProbe
    PROVE  AbstractStep
<1> DEFINE c(sync) == CopyEnd(sync, kSyncProbeSize)
           filled(sync) == Filled(sync, kSyncProbeSize)
<1>1. PICK sync \in cursor..end :
        /\ AtCandidate(sync)
        /\ Len(filled(sync)) < kSyncProbeSize
        /\ pending' = filled(sync)
        /\ NeedMoreData
        /\ UNCHANGED <<stream, mode, delivered>>
  BY DEF AwaitProbe
<1> DEFINE b == WindowStart(sync)
<1>2. /\ b \in Nat /\ b <= end /\ filled(sync) = Bytes(b, end)
      /\ InitialSync => b < PktSize
  BY <1>1, CandidateWindow, SizesType, StateFacts
<1>3. /\ Seeking /\ Running /\ Running' /\ cursor' = end /\ Phase # "locked"
      /\ Framed!NothingAligned(Position, b) /\ Position <= b
  BY <1>1, ScannedNotAligned, PhaseIsMode DEF AtCandidate, Seeking, Running, NeedMoreData
<1> HIDE DEF b
<1>4. Position' = b
  <2>1. Len(Bytes(b, end)) = end - b
    BY <1>2, StateFacts, BytesProperties
  <2> QED BY <1>1, <1>2, <1>3, <2>1, StateFacts DEF Position
<1>5. b <= stream.len /\ (Phase = "initial" => b < PktSize)
  BY <1>2, StateFacts, PhaseIsMode
<1> QED BY <1>1, <1>2, <1>3, <1>4, <1>5, SkipStep

\* Packet j of the window at b is the packet of the stream at its offset.
LEMMA WindowIsRun ==
    ASSUME NEW b \in Nat, NEW c \in Nat, c = b + kSyncProbeSize, NEW k \in 1..SyncProbePackets
    PROVE  ProbePackets(Bytes(b, c), k) = Framed!Run(b, k)
<1>1. ASSUME NEW j \in 1..k
      PROVE  Bytes(b + (j - 1) * PktSize, b + j * PktSize)
               = Framed!Packet(b + (j - 1) * PktSize)
  <2> DEFINE at == (j - 1) * PktSize
  <2>1. j \in 1..SyncProbePackets
    BY SyncProbePacketsAssumption
  <2>2. at \in Nat /\ j * PktSize = at + PktSize
    BY <2>1, PacketInWindow
  <2> HIDE DEF at
  <2>3. (b + (at + PktSize)) - (b + at) = PktSize
    BY <2>2, SizesType
  <2>4. Bytes(b + at, b + (at + PktSize)) = Framed!Packet(b + at)
    BY <2>3 DEF Bytes, Framed!Packet
  <2> QED BY <2>2, <2>4 DEF at
<1>2. ProbePackets(Bytes(b, c), k)
        = [j \in 1..k |-> Bytes(b + (j - 1) * PktSize, b + j * PktSize)]
  BY ProbePacketsAreBytes
<1>3. [j \in 1..k |-> Bytes(b + (j - 1) * PktSize, b + j * PktSize)]
        = [j \in 1..k |-> Framed!Packet(b + (j - 1) * PktSize)]
  BY <1>1
<1> QED BY <1>2, <1>3 DEF Framed!Run

\* A full and valid window is an alignment.
LEMMA GoodWindowAligned ==
    ASSUME NEW b \in Nat, NEW c \in Nat, c = b + kSyncProbeSize, c <= stream.len,
           PendingSyncBytesAreValid(Bytes(b, c))
    PROVE  Framed!Aligned(b)
<1>1. b + SyncProbePackets * PktSize <= stream.len
  BY PktSizeAssumption, SyncProbePacketsAssumption DEF kSyncProbeSize
<1>2. ASSUME NEW i \in 0..(SyncProbePackets - 1)
      PROVE  b + i * PktSize \in stream.sync
  <2> DEFINE at == i * PktSize
  <2>1. i + 1 \in 1..SyncProbePackets /\ (i + 1) - 1 = i
    BY SyncProbePacketsAssumption
  <2>2. at \in Nat /\ at + PktSize <= kSyncProbeSize
    BY <2>1, PacketInWindow
  <2> HIDE DEF at
  <2>3. b <= c /\ at + 1 \in 1..(c - b)
    BY <2>2, SizesType
  <2>4. Len(Bytes(b, c)) = c - b
    BY <2>3, BytesProperties
  <2>5. Bytes(b, c)[at + 1] = b + at
    BY <2>2, <2>3 DEF Bytes
  <2>6. Len(Bytes(b, c)) > at
    BY <2>2, <2>3, <2>4
  <2>7. IsSync(Bytes(b, c)[at + 1])
    BY <2>6 DEF PendingSyncBytesAreValid, at
  <2> QED BY <2>5, <2>7 DEF at, IsSync
<1> QED BY <1>1, <1>2 DEF Framed!Aligned

\* Confirming sync locks to the first alignment.
LEMMA ConfirmSyncLocks ==
    ASSUME IInv, ConfirmSync
    PROVE  AbstractStep
<1> DEFINE c(sync) == CopyEnd(sync, kSyncProbeSize)
           filled(sync) == Filled(sync, kSyncProbeSize)
<1>1. PICK sync \in cursor..end :
        /\ AtCandidate(sync)
        /\ PendingSyncBytesAreValid(filled(sync))
        /\ Len(filled(sync)) = kSyncProbeSize
        /\ pending' = << >>
        /\ \/ /\ delivered' = delivered \o ProbePackets(filled(sync), SyncProbePackets)
              /\ mode' = "kSynced"
              /\ Continue(c(sync))
           \/ /\ \E k \in 1..SyncProbePackets :
                   delivered' = delivered \o ProbePackets(filled(sync), k)
              /\ UNCHANGED mode
              /\ Stop
        /\ stream' = stream /\ initial_sync_failed' = initial_sync_failed
  BY DEF ConfirmSync
<1> DEFINE b == WindowStart(sync)
           e == c(sync)
<1>2. /\ b \in Nat /\ e \in Nat /\ e = b + kSyncProbeSize /\ e <= end
      /\ filled(sync) = Bytes(b, e)
      /\ InitialSync => b < PktSize
  BY <1>1, CandidateWindow, SizesType, StateFacts
<1>3. /\ Seeking /\ Running /\ Phase # "locked" /\ ~initial_sync_failed
      /\ Framed!NothingAligned(Position, b) /\ Position <= b
  BY <1>1, ScannedNotAligned, PhaseIsMode DEF AtCandidate, Seeking, Running, IInv
<1> HIDE DEF b, c, e, filled
<1>4. Framed!Aligned(b) /\ b <= stream.len /\ (Phase = "initial" => b < PktSize)
  <2>1. e <= stream.len /\ b <= stream.len
    BY <1>2, StateFacts, SizesType
  <2> QED BY <1>1, <1>2, <2>1, GoodWindowAligned, PhaseIsMode
<1>5. CASE /\ delivered' = delivered \o ProbePackets(filled(sync), SyncProbePackets)
           /\ mode' = "kSynced"
           /\ Continue(c(sync))
  <2>1. SyncProbePackets \in 1..SyncProbePackets
    BY SyncProbePacketsAssumption
  <2>2. delivered' = delivered \o Framed!Run(b, SyncProbePackets)
    BY <1>2, <1>5, <2>1, WindowIsRun
  <2>3. Running' /\ Position' = b + SyncProbePackets * PktSize
    <3>1. cursor' = e /\ Running'
      BY <1>5 DEF Continue, Running, e
    <3>2. e = b + SyncProbePackets * PktSize
      BY <1>2, PktSizeAssumption, SyncProbePacketsAssumption DEF kSyncProbeSize
    <3>3. Position' = e
      BY <1>1, <1>2, <3>1 DEF Position
    <3> QED BY <3>1, <3>2, <3>3
  <2> QED BY <1>1, <1>2, <1>3, <1>4, <1>5, <2>2, <2>3, LockStep
<1>6. CASE /\ \E k \in 1..SyncProbePackets :
                delivered' = delivered \o ProbePackets(filled(sync), k)
           /\ UNCHANGED mode
           /\ Stop
  <2>1. \E k \in 1..SyncProbePackets : delivered' = delivered \o Framed!Run(b, k)
    BY <1>2, <1>6, WindowIsRun
  <2>2. ~Running' /\ ReadFrameStatus' = "kFailed"
    BY <1>1, <1>3, <1>6 DEF Stop, Running, ReadFrameStatus
  <2> QED BY <1>1, <1>2, <1>3, <1>4, <1>6, <2>1, <2>2, LockStep
<1> QED BY <1>1, <1>5, <1>6

(***************************************************************************)
(* FeedSynced.                                                             *)
(***************************************************************************)

\* PktSize bytes from b on are the packet of the stream at b.
LEMMA PieceIsFramedPacket ==
    ASSUME NEW b \in Nat
    PROVE  Bytes(b, b + PktSize) = Framed!Packet(b)
<1>1. (b + PktSize) - b = PktSize
  BY SizesType
<1> QED BY <1>1 DEF Bytes, Framed!Packet

\* A split packet is delivered when it is whole; buffering more of it is no step.
LEMMA CompleteSplitPacketDelivers ==
    ASSUME IInv, CompleteSplitPacket
    PROVE  AbstractStep
<1> DEFINE filled == Filled(cursor, PktSize)
           b == WindowStart(cursor)
           e == CopyEnd(cursor, PktSize)
<1>1. /\ Synced /\ Running /\ pending # << >>
      /\ UNCHANGED <<stream, mode, initial_sync_failed>> /\ ~initial_sync_failed
      /\ IsSync(pending[1]) /\ Len(pending) > 0
      /\ pending \in Seq(Nat) /\ Len(pending) <= cursor /\ Len(pending) < PktSize
      /\ pending = Bytes(cursor - Len(pending), cursor)
  BY StateFacts
     DEF CompleteSplitPacket, Synced, IInv, Running, CandidateAtFront, PendingFits,
         PendingIsContiguous
<1>2. /\ b \in Nat /\ e \in Nat /\ b <= e /\ e <= end
      /\ filled = Bytes(b, e) /\ Len(filled) = e - b
      /\ e - b <= PktSize
      /\ e - b < PktSize => e = end
  BY <1>1, StateFacts, SizesType, FilledIsContiguous
<1>3. b = Position /\ IsSync(b) /\ Phase = "locked"
  <2>1. b = cursor - Len(pending) /\ pending[1] = b
    BY <1>1, StateFacts DEF Bytes, WindowStart
  <2> QED BY <1>1, <2>1, PhaseIsMode DEF Position, Synced
<1>4. CASE Len(filled) < PktSize
  <2>1. pending' = filled /\ cursor' = end /\ delivered' = delivered /\ Running'
    BY <1>4 DEF CompleteSplitPacket, NeedMoreData, Running
  <2> HIDE DEF b, e, filled
  <2>2. Position' = b
    BY <1>2, <1>4, <2>1, StateFacts DEF Position
  <2>3. UNCHANGED <<stream, AbstractPos, Phase, delivered, AbstractVerdict>>
    BY <1>1, <1>3, <2>1, <2>2 DEF AbstractPos, AbstractVerdict, Phase, Position
  <2> QED BY <2>3 DEF AbstractStep, Framed!vars, AbstractPos, AbstractVerdict
<1>5. CASE ~(Len(filled) < PktSize)
  <2>1. /\ pending' = << >> /\ delivered' = Append(delivered, filled)
        /\ Continue(e) \/ Stop
    BY <1>5 DEF CompleteSplitPacket
  <2> HIDE DEF b, e, filled
  <2>2. e = b + PktSize
    BY <1>2, <1>5, SizesType
  <2>3. \/ Running' /\ Position' = Position + PktSize
        \/ ~Running' /\ ReadFrameStatus' = "kFailed"
    <3>1. CASE Continue(e)
      BY <1>2, <1>3, <2>1, <2>2, <3>1 DEF Continue, Position, Running
    <3>2. CASE Stop
      BY <1>1, <3>2 DEF Stop, Running, ReadFrameStatus
    <3> QED BY <2>1, <3>1, <3>2
  <2>4. delivered' = Append(delivered, Framed!Packet(Position))
    BY <1>2, <1>3, <2>1, <2>2, PieceIsFramedPacket
  <2>5. Position + PktSize <= stream.len
    BY <1>2, <1>3, <2>2, StateFacts
  <2> QED BY <1>1, <1>3, <2>3, <2>4, <2>5, DeliverStep
<1> QED BY <1>4, <1>5

\* Losing sync where a packet should start.
LEMMA LoseSyncLoses ==
    ASSUME IInv, LoseSync
    PROVE  AbstractStep
<1>1. /\ Running /\ Running' /\ mode = "kSynced" /\ mode' = "kSeekingSync"
      /\ UNCHANGED <<stream, delivered, cursor, pending>>
      /\ pending = << >> /\ ~IsSync(cursor) /\ cursor < end
  BY StateFacts DEF LoseSync, Synced, Continue, Running, IInv, ChunkBounds
<1>2. /\ AbstractPos = cursor /\ AbstractPos' = AbstractPos
      /\ AbstractVerdict = "running" /\ AbstractVerdict' = AbstractVerdict
      /\ Phase = "locked" /\ Phase' = "lost"
  BY <1>1, StateFacts DEF AbstractPos, AbstractVerdict, Phase
<1>3. AbstractPos < stream.len /\ AbstractPos \notin stream.sync
  BY <1>1, <1>2, StateFacts DEF IsSync
<1>4. Framed!LoseSync
  BY <1>1, <1>2, <1>3 DEF Framed!LoseSync, AbstractPos, AbstractVerdict
<1> QED BY <1>4 DEF AbstractStep, Framed!Next

\* Buffering the head of a packet is no step.
LEMMA BufferPartialPacketStutters ==
    ASSUME IInv, BufferPartialPacket
    PROVE  AbstractStep
<1>1. /\ Running /\ Running' /\ UNCHANGED <<stream, mode, delivered>>
      /\ pending = << >> /\ pending' = Bytes(cursor, end) /\ cursor' = end
  BY DEF BufferPartialPacket, NeedMoreData, Synced, Running
<1>2. Len(Bytes(cursor, end)) = end - cursor
  BY StateFacts, BytesProperties
<1>3. AbstractPos = cursor /\ AbstractPos' = cursor
  BY <1>1, <1>2, StateFacts DEF AbstractPos
<1>4. UNCHANGED <<stream, AbstractPos, Phase, delivered, AbstractVerdict>>
  BY <1>1, <1>3 DEF AbstractVerdict, Phase
<1> QED BY <1>4 DEF AbstractStep, Framed!vars, AbstractPos, AbstractVerdict

\* A packet inside the chunk is delivered.
LEMMA EmitFromChunkDelivers ==
    ASSUME IInv, EmitFromChunk
    PROVE  AbstractStep
<1>1. /\ UNCHANGED <<stream, mode, initial_sync_failed>> /\ Running /\ mode = "kSynced"
      /\ ~initial_sync_failed
      /\ pending = << >> /\ pending' = << >> /\ IsSync(cursor) /\ end - cursor >= PktSize
      /\ delivered' = Append(delivered, Bytes(cursor, cursor + PktSize))
      /\ Continue(cursor + PktSize) \/ Stop
  BY DEF EmitFromChunk, Synced, Running, IInv
<1>2. Position = cursor /\ cursor \in Nat /\ Phase = "locked"
  BY <1>1, StateFacts DEF Position, Phase
<1>3. \/ Running' /\ Position' = Position + PktSize
      \/ ~Running' /\ ReadFrameStatus' = "kFailed"
  <2>1. CASE Continue(cursor + PktSize)
    BY <1>1, <1>2, <2>1, SizesType DEF Continue, Position, Running
  <2>2. CASE Stop
    BY <1>1, <2>2 DEF Stop, Running, ReadFrameStatus
  <2> QED BY <1>1, <2>1, <2>2
<1>4. delivered' = Append(delivered, Framed!Packet(Position))
  BY <1>1, <1>2, PieceIsFramedPacket
<1>5. Position + PktSize <= stream.len
  BY <1>1, <1>2, StateFacts, SizesType
<1> QED BY <1>1, <1>2, <1>3, <1>4, <1>5, DeliverStep

\* Every step is one of the whole-stream framing, or none.
LEMMA EveryStepIsAbstract == IInv /\ [Next]_vars => AbstractStep
<1> SUFFICES ASSUME IInv, [Next]_vars PROVE AbstractStep
  OBVIOUS
<1>1. CASE \E n \in 1..ChunkSize : Read(n)
  BY <1>1, ReadStutters
<1>2. CASE ReadEof
  BY <1>2, ReadEofDecides
<1>3. CASE ReadError
  BY <1>3, ReadErrorDecides
<1>4. CASE InitialScanFails
  BY <1>4, InitialScanFailsDecides
<1>5. CASE ScanExhausted
  BY <1>5, ScanExhaustedSkips
<1>6. CASE RejectCandidate
  BY <1>6, RejectCandidateSkips
<1>7. CASE AwaitProbe
  BY <1>7, AwaitProbeSkips
<1>8. CASE ConfirmSync
  BY <1>8, ConfirmSyncLocks
<1>9. CASE CompleteSplitPacket
  BY <1>9, CompleteSplitPacketDelivers
<1>10. CASE LoseSync
  BY <1>10, LoseSyncLoses
<1>11. CASE BufferPartialPacket
  BY <1>11, BufferPartialPacketStutters
<1>12. CASE EmitFromChunk
  BY <1>12, EmitFromChunkDelivers
<1>13. CASE UNCHANGED vars
  BY <1>13 DEF vars, AbstractStep, Framed!vars, Running, Phase, ReadFrameStatus
<1> QED BY <1>1, <1>2, <1>3, <1>4, <1>5, <1>6, <1>7, <1>8, <1>9, <1>10, <1>11, <1>12, <1>13
        DEF Next, FeedStep, ReadStep

(***************************************************************************)
(* The theorem.                                                            *)
(***************************************************************************)

\* However the input is split into chunks, buffered and scanned, the packets handed
\* over and the verdict are those of framing the stream as a whole.
THEOREM FramesTheWholeStream == Spec => ImplementsFramedStream
<1>1. Init => Framed!Init
  <2> SUFFICES ASSUME Init PROVE Framed!Init
    OBVIOUS
  <2>1. Running /\ Phase = "initial"
    BY DEF Init, Running, Phase
  <2>2. cursor - Len(pending) = 0
    <3>1. cursor = 0
      BY DEF Init
    <3>2. Len(pending) = 0
      BY EmptySeq DEF Init
    <3> QED BY <3>1, <3>2
  <2> QED BY <2>1, <2>2 DEF Init, Framed!Init
<1>2. IInv /\ [Next]_vars => [Framed!Next]_(Framed!vars)
  BY EveryStepIsAbstract DEF AbstractStep
<1> QED BY <1>1, <1>2, Invariance, PTL DEF Spec, ImplementsFramedStream, Framed!Spec

-----------------------------------------------------------------------------
(* What FramingResult says of an input, by induction on the offset.        *)

\* f lists what Cut comes to at the offsets 0 to n.
Cuts(f, s, n) == f = [m \in 0..n |-> IF m = 0 THEN << >> ELSE Extended(s, f[m - 1], m - 1)]

\* There is one.
LEMMA CutsExists ==
    ASSUME NEW s, NEW n \in Nat
    PROVE  \E f : Cuts(f, s, n)
<1> DEFINE T == {m \in Nat : ~ \E f : Cuts(f, s, m)}
<1>1. SUFFICES ASSUME T # {} PROVE FALSE
  OBVIOUS
<1>2. PICK m \in T : \A k \in T : m <= k
  <2>1. T \subseteq Nat
    OBVIOUS
  <2> HIDE DEF T
  <2> QED BY <1>1, <2>1, LeastNat
<1>3. m # 0
  <2> DEFINE f == [i \in 0..0 |-> << >>]
  <2>1. \A i \in 0..0 : i = 0
    OBVIOUS
  <2>2. Cuts(f, s, 0)
    BY <2>1 DEF Cuts
  <2> QED BY <2>2
<1>4. m \in Nat /\ m - 1 \in Nat /\ m - 1 \notin T
  BY <1>2, <1>3
<1>5. PICK f : Cuts(f, s, m - 1)
  BY <1>4
<1> DEFINE g == [i \in 0..m |-> IF i = 0 THEN << >> ELSE Extended(s, f[i - 1], i - 1)]
<1>6. \A i \in 0..(m - 1) : g[i] = f[i]
  <2>1. \A i \in 0..(m - 1) : f[i] = IF i = 0 THEN << >> ELSE Extended(s, f[i - 1], i - 1)
    BY <1>5 DEF Cuts
  <2> QED BY <2>1, <1>4
<1>7. Cuts(g, s, m)
  <2>1. \A i \in 0..m : i # 0 => g[i - 1] = f[i - 1]
    <3> HIDE DEF g
    <3> QED BY <1>6, <1>4
  <2> QED BY <2>1, <1>4 DEF Cuts
<1> QED BY <1>7, <1>2

\* Cut satisfies its equation.
LEMMA CutIs ==
    ASSUME NEW s, s.len \in Nat
    PROVE  /\ Cut(s)[0] = << >>
           /\ \A n \in 0..(s.len - 1) : Cut(s)[n + 1] = Extended(s, Cut(s)[n], n)
<1> DEFINE f == CHOOSE g : Cuts(g, s, s.len)
<1>1. Cut(s) = f
  BY DEF Cut, Cuts
<1>2. Cuts(f, s, s.len)
  BY CutsExists
<1> HIDE DEF f
<1>3. \A m \in 0..s.len : f[m] = IF m = 0 THEN << >> ELSE Extended(s, f[m - 1], m - 1)
  BY <1>2 DEF Cuts
<1>4. f[0] = << >>
  BY <1>3
<1>5. ASSUME NEW n \in 0..(s.len - 1)
      PROVE  f[n + 1] = Extended(s, f[n], n)
  <2>1. n + 1 \in 0..s.len /\ n + 1 # 0 /\ (n + 1) - 1 = n
    OBVIOUS
  <2> QED BY <1>3, <2>1
<1> QED BY <1>1, <1>4, <1>5

\* The packets cut are sequences of bytes.
LEMMA CutType ==
    ASSUME NEW s, s.len \in Nat, NEW n \in 0..s.len
    PROVE  Cut(s)[n] \in Seq(Seq(Nat))
<1> DEFINE c == Cut(s)
           T == {m \in 0..s.len : c[m] \notin Seq(Seq(Nat))}
<1> SUFFICES ASSUME T # {} PROVE FALSE
  OBVIOUS
<1>1. PICK m \in T : \A k \in T : m <= k
  <2>1. T \subseteq Nat /\ T # {}
    OBVIOUS
  <2> HIDE DEF T
  <2> QED BY <2>1, LeastNat
<1>2. m # 0 /\ m \in 0..s.len
  BY <1>1, CutIs, EmptySeq
<1>3. c[m - 1] \in Seq(Seq(Nat)) /\ m - 1 \in 0..(s.len - 1) /\ (m - 1) + 1 = m
  BY <1>1, <1>2
<1>4. c[m] = Extended(s, c[m - 1], m - 1)
  BY <1>3, CutIs
<1>5. Bytes(m - 1, m - 1 + PktSize) \in Seq(Nat)
  BY <1>3, BytesProperties, SizesType
<1> HIDE DEF c
<1>6. c[m] \in Seq(Seq(Nat))
  BY <1>3, <1>4, <1>5, AppendProperties DEF Extended
<1> QED BY <1>1, <1>6 DEF c

\* Begins as a conjunction of facts about offsets.
LEMMA BeginsFits ==
    ASSUME NEW s, s.len \in Nat, NEW cut, NEW q \in Nat, Begins(s, cut, q)
    PROVE  q + PktSize <= s.len
<1>1. CASE Locks(s, q)
  BY <1>1, SizesType DEF Locks
<1>2. CASE ~Locks(s, q)
  BY <1>2 DEF Begins
<1> QED BY <1>1, <1>2

\* Where no packet begins, none is cut.
LEMMA CutWaits ==
    ASSUME NEW s, s.len \in Nat, NEW p \in 0..s.len, NEW q \in p..s.len,
           \A r \in p..(q - 1) : ~Begins(s, Cut(s)[p], r)
    PROVE  Cut(s)[q] = Cut(s)[p]
<1> DEFINE c == Cut(s)
           T == {m \in p..q : c[m] # c[p]}
<1> SUFFICES ASSUME T # {} PROVE FALSE
  OBVIOUS
<1>1. PICK m \in T : \A k \in T : m <= k
  <2>1. T \subseteq Nat /\ T # {}
    OBVIOUS
  <2> HIDE DEF T
  <2> QED BY <2>1, LeastNat
<1>2. m \in p..q /\ m # p
  BY <1>1
<1>3. m - 1 \in p..(q - 1) /\ m - 1 \in p..q /\ m - 1 \in 0..(s.len - 1) /\ (m - 1) + 1 = m
  BY <1>2
<1>4. c[m - 1] = c[p]
  BY <1>1, <1>3
<1>5. c[m] = Extended(s, c[m - 1], m - 1)
  BY <1>3, CutIs
<1>6. ~Begins(s, c[p], m - 1)
  BY <1>3
<1> QED BY <1>1, <1>4, <1>5, <1>6 DEF Extended

\* A packet starts with its first byte.
LEMMA PacketBytes ==
    ASSUME NEW q \in Nat
    PROVE  Bytes(q, q + PktSize) \in Seq(Nat) /\ Bytes(q, q + PktSize)[1] = q
<1>1. /\ q + PktSize \in Nat /\ q <= q + PktSize /\ 1 \in 1..((q + PktSize) - q)
      /\ q + 1 - 1 = q
  BY SizesType
<1> QED BY <1>1, BytesProperties

\* A packet more, and where it ends.
LEMMA PacketMore ==
    ASSUME NEW cut \in Seq(Seq(Nat)), NEW q \in Nat
    PROVE  LET more == Append(cut, Bytes(q, q + PktSize))
           IN  more \in Seq(Seq(Nat)) /\ more # << >> /\ Past(more) = q + PktSize
<1>1. Bytes(q, q + PktSize) \in Seq(Nat) /\ Bytes(q, q + PktSize)[1] = q
  BY PacketBytes
<1> DEFINE b == Bytes(q, q + PktSize)
           more == Append(cut, b)
<1>2. more \in Seq(Seq(Nat)) /\ Len(more) = Len(cut) + 1 /\ more[Len(cut) + 1] = b
  BY <1>1, AppendProperties
<1>3. more # << >>
  BY <1>1, AppendProperties
<1> HIDE DEF more, b
<1>4. Past(more) = q + PktSize
  BY <1>1, <1>2 DEF Past, b
<1> QED BY <1>2, <1>3, <1>4 DEF more, b

\* A packet that begins is cut, and none before it ends.
LEMMA CutTakes ==
    ASSUME NEW s, s.len \in Nat, NEW q \in 0..s.len, Begins(s, Cut(s)[q], q)
    PROVE  /\ q + PktSize \in 0..s.len
           /\ Cut(s)[q + PktSize] = Append(Cut(s)[q], Bytes(q, q + PktSize))
<1> DEFINE c == Cut(s)
           more == Append(c[q], Bytes(q, q + PktSize))
<1>1. q + PktSize \in 0..s.len /\ q \in 0..(s.len - 1)
  BY BeginsFits, SizesType
<1>2. c[q + 1] = more
  BY <1>1, CutIs DEF Extended
<1>3. more # << >> /\ Past(more) = q + PktSize
  <2>1. c[q] \in Seq(Seq(Nat))
    BY CutType
  <2>2. q \in Nat
    OBVIOUS
  <2> HIDE DEF c
  <2> QED BY <2>1, <2>2, PacketMore
<1>4. \A r \in Int : r < q + PktSize => ~Begins(s, c[q + 1], r)
  <2> HIDE DEF more, c
  <2>1. \A r \in Int : r < q + PktSize => ~(q + PktSize <= r)
    BY SizesType
  <2> QED BY <1>2, <1>3, <2>1 DEF Begins
<1>5. q + 1 \in 0..s.len /\ q + PktSize \in (q + 1)..s.len
  BY <1>1, SizesType
<1>6. c[q + PktSize] = c[q + 1]
  <2> DEFINE a == q + 1
             z == q + PktSize
  <2>1. a \in 0..s.len /\ z \in a..s.len
    BY <1>5
  <2>2. \A r \in a..(z - 1) : ~Begins(s, Cut(s)[a], r)
    <3> TAKE r \in a..(z - 1)
    <3>1. r \in Int /\ r < q + PktSize
      BY SizesType
    <3> HIDE DEF more, z
    <3> QED BY <1>4, <3>1
  <2> HIDE DEF a, z
  <2>3. Cut(s)[z] = Cut(s)[a]
    BY <2>1, <2>2, CutWaits
  <2> QED BY <2>3 DEF a, z
<1> QED BY <1>1, <1>2, <1>6

\* The first n elements are the same.
Begun(s, t) == Len(s) <= Len(t) /\ \A i \in 1..Len(s) : t[i] = s[i]

\* That is to be a prefix.
LEMMA BegunIsPrefix ==
    ASSUME NEW X, NEW s \in Seq(X), NEW t \in Seq(X), Begun(s, t)
    PROVE  IsPrefix(s, t)
<1>1. SubSeq(s, 1, Len(s)) = SubSeq(t, 1, Len(s))
  BY DEF Begun
<1> QED BY <1>1 DEF Begun, IsPrefix

\* Cutting goes on with what is cut already.
LEMMA CutGrows ==
    ASSUME NEW s, s.len \in Nat, NEW p \in 0..s.len, NEW q \in p..s.len
    PROVE  IsPrefix(Cut(s)[p], Cut(s)[q])
<1> DEFINE c == Cut(s)
           T == {m \in p..q : ~Begun(c[p], c[m])}
<1>1. T = {}
  <2> SUFFICES ASSUME T # {} PROVE FALSE
    OBVIOUS
  <2>1. PICK m \in T : \A k \in T : m <= k
    <3>1. T \subseteq Nat /\ T # {}
      OBVIOUS
    <3> HIDE DEF T
    <3> QED BY <3>1, LeastNat
  <2>2. Len(c[p]) \in Nat
    BY CutType, LenProperties
  <2>3. m # p
    BY <2>1, <2>2 DEF Begun
  <2>4. m - 1 \in p..q /\ m - 1 \in 0..(s.len - 1) /\ (m - 1) + 1 = m /\ m - 1 \in Nat
    BY <2>1, <2>3
  <2>5. Begun(c[p], c[m - 1])
    BY <2>1, <2>4
  <2>6. c[m] = Extended(s, c[m - 1], m - 1)
    BY <2>4, CutIs
  <2>7. c[m - 1] \in Seq(Seq(Nat)) /\ Bytes(m - 1, m - 1 + PktSize) \in Seq(Nat)
    <3>1. m - 1 \in 0..s.len
      BY <2>4
    <3>2. c[m - 1] \in Seq(Seq(Nat))
      BY <3>1, CutType
    <3>3. Bytes(m - 1, m - 1 + PktSize) \in Seq(Nat)
      BY <2>4, PacketBytes
    <3> QED BY <3>2, <3>3
  <2>8. ASSUME NEW b \in Seq(Nat)
        PROVE  Begun(c[p], Append(c[m - 1], b))
    <3> HIDE DEF c
    <3>1. /\ Len(Append(c[m - 1], b)) = Len(c[m - 1]) + 1 /\ Len(c[m - 1]) \in Nat
          /\ \A i \in 1..Len(c[m - 1]) : Append(c[m - 1], b)[i] = c[m - 1][i]
      BY <2>7, AppendProperties, LenProperties
    <3>2. Len(c[p]) <= Len(c[m - 1]) /\ \A i \in 1..Len(c[p]) : c[m - 1][i] = c[p][i]
      BY <2>5 DEF Begun
    <3>3. Len(c[p]) <= Len(c[m - 1]) + 1 /\ \A i \in 1..Len(c[p]) : i \in 1..Len(c[m - 1])
      BY <2>2, <3>1, <3>2
    <3> QED BY <3>1, <3>2, <3>3 DEF Begun
  <2>9. Begun(c[p], c[m])
    BY <2>5, <2>6, <2>7, <2>8 DEF Extended
  <2> QED BY <2>1, <2>9
<1>2. Begun(c[p], c[q])
  BY <1>1
<1>3. c[p] \in Seq(Seq(Nat)) /\ c[q] \in Seq(Seq(Nat))
  BY CutType
<1> HIDE DEF c, T
<1>4. IsPrefix(c[p], c[q])
  BY <1>2, <1>3, BegunIsPrefix
<1> QED BY <1>4 DEF c

\* A run of packets and the one after it.
LEMMA RunMore ==
    ASSUME NEW q \in Nat, NEW k \in Nat
    PROVE  /\ Framed!Run(q, k) \in Seq(Seq(Nat))
           /\ Framed!Run(q, 0) = << >>
           /\ Framed!Run(q, k + 1) = Append(Framed!Run(q, k), Framed!Packet(q + k * PktSize))
<1>1. ASSUME NEW at \in Nat
      PROVE  Framed!Packet(at) \in Seq(Nat)
  BY <1>1, PieceIsFramedPacket, PacketBytes
<1>2. ASSUME NEW j \in 1..(k + 1)
      PROVE  q + (j - 1) * PktSize \in Nat
  BY SizesType
<1>3. ASSUME NEW n \in {k, k + 1}
      PROVE  /\ Framed!Run(q, n) \in Seq(Seq(Nat)) /\ Len(Framed!Run(q, n)) = n
             /\ \A j \in 1..n : Framed!Run(q, n)[j] = Framed!Packet(q + (j - 1) * PktSize)
  <2>1. ASSUME NEW j \in 1..n
        PROVE  Framed!Packet(q + (j - 1) * PktSize) \in Seq(Nat)
    <3>1. j \in 1..(k + 1)
      OBVIOUS
    <3> QED BY <1>1, <1>2, <3>1
  <2> QED BY <2>1 DEF Framed!Run
<1>4. Framed!Run(q, 0) = << >>
  BY DEF Framed!Run
<1>5. Framed!Run(q, k + 1) = Append(Framed!Run(q, k), Framed!Packet(q + k * PktSize))
  <2> DEFINE r == Framed!Run(q, k)
             t == Framed!Run(q, k + 1)
             x == Framed!Packet(q + k * PktSize)
  <2>1. x \in Seq(Nat) /\ t[k + 1] = x
    <3>1. (k + 1) - 1 = k /\ k + 1 \in 1..(k + 1)
      OBVIOUS
    <3>2. t[k + 1] = Framed!Packet(q + ((k + 1) - 1) * PktSize)
      BY <1>3, <3>1
    <3>3. q + k * PktSize \in Nat
      BY SizesType
    <3> QED BY <1>1, <3>1, <3>2, <3>3
  <2>2. \A j \in 1..k : t[j] = r[j]
    BY <1>3, SMTT(30)
  <2>3. r \in Seq(Seq(Nat)) /\ Len(r) = k /\ t \in Seq(Seq(Nat)) /\ Len(t) = k + 1
    BY <1>3
  <2> HIDE DEF r, t, x
  <2>4. /\ Append(r, x) \in Seq(Seq(Nat)) /\ Len(Append(r, x)) = k + 1
        /\ \A j \in 1..(k + 1) : Append(r, x)[j] = t[j]
    BY <2>1, <2>2, <2>3
  <2>5. t = Append(r, x)
    BY <2>3, <2>4, SeqEqual
  <2> QED BY <2>5 DEF r, t, x
<1> QED BY <1>3, <1>4, <1>5

\* An alignment past the last packet: the packets of its window are cut.
LEMMA CutTakesRun ==
    ASSUME NEW s, s.len \in Nat, NEW q \in 0..s.len, Locks(s, q),
           Cut(s)[q] # << >> => Past(Cut(s)[q]) <= q, NEW k \in 1..SyncProbePackets
    PROVE  LET after == q + k * PktSize
           IN  /\ after \in 0..s.len
               /\ Cut(s)[after] = Cut(s)[q] \o Framed!Run(q, k)
               /\ Cut(s)[after] # << >> /\ Past(Cut(s)[after]) = after
<1> DEFINE c == Cut(s)
           After(n) == q + n * PktSize
           Good(n) == /\ After(n) \in 0..s.len
                      /\ c[After(n)] = c[q] \o Framed!Run(q, n)
                      /\ c[After(n)] # << >> /\ Past(c[After(n)]) = After(n)
           T == {n \in 1..SyncProbePackets : ~Good(n)}
<1>1. SUFFICES ASSUME T # {} PROVE FALSE
  OBVIOUS
<1>2. PICK m \in T : \A n \in T : m <= n
  <2>1. T \subseteq Nat
    BY SyncProbePacketsAssumption
  <2> HIDE DEF T
  <2> QED BY <1>1, <2>1, LeastNat
<1>3. m \in 1..SyncProbePackets /\ m \in Nat /\ m - 1 \in Nat /\ (m - 1) + 1 = m
  BY <1>2, SyncProbePacketsAssumption
<1> DEFINE at == After(m - 1)
<1>4. at \in Nat /\ After(m) = at + PktSize /\ After(m) <= s.len /\ at \in 0..s.len
  <2>1. /\ (m - 1) * PktSize \in Nat /\ m * PktSize = (m - 1) * PktSize + PktSize
        /\ m * PktSize <= kSyncProbeSize
    BY <1>3, PacketInWindow
  <2>2. q + kSyncProbeSize <= s.len
    BY DEF Locks
  <2> DEFINE y == (m - 1) * PktSize
             z == m * PktSize
  <2> HIDE DEF y, z
  <2>3. y \in Nat /\ z = y + PktSize /\ z <= kSyncProbeSize
    BY <2>1 DEF y, z
  <2>4. After(m - 1) = q + y /\ After(m) = q + z
    BY Zenon DEF y, z
  <2>5. q \in Nat /\ s.len \in Nat /\ at = q + y
    BY <2>4
  <2> DEFINE to == After(m)
  <2>6. to = q + z
    BY <2>4
  <2> HIDE DEF at, to, After
  <2>7. at \in Nat /\ to = at + PktSize /\ to <= s.len /\ at \in 0..s.len
    BY <2>2, <2>3, <2>5, <2>6, SizesType
  <2> QED BY <2>7 DEF to
<1>5. c[at] = c[q] \o Framed!Run(q, m - 1) /\ Begins(s, c[at], at)
  <2>1. CASE m = 1
    <3>1. at = q
      BY <2>1, SizesType
    <3>2. c[q] \in Seq(Seq(Nat))
      BY CutType
    <3>3. c[q] \o Framed!Run(q, m - 1) = c[q]
      <4>1. m - 1 = 0 /\ Framed!Run(q, 0) = << >>
        BY <2>1, RunMore
      <4>2. c[q] \o << >> = c[q]
        BY <3>2, ConcatEmptySeq
      <4> QED BY <4>1, <4>2
    <3>4. Begins(s, c[q], q)
      BY DEF Begins
    <3> QED BY <3>1, <3>3, <3>4
  <2>2. CASE m # 1
    <3>1. m - 1 \in 1..SyncProbePackets /\ m - 1 \in 0..(SyncProbePackets - 1) /\ m - 1 \notin T
      BY <1>2, <1>3, <2>2, SyncProbePacketsAssumption
    <3>2. Good(m - 1)
      BY <3>1
    <3>3. Starts(s, at)
      BY <3>1 DEF Locks
    <3>4. at + PktSize <= s.len
      BY <1>4
    <3> HIDE DEF c, at
    <3>5. c[at] # << >> /\ Past(c[at]) = at /\ c[at] = c[q] \o Framed!Run(q, m - 1)
      BY <3>2 DEF at
    <3> QED BY <1>4, <3>3, <3>4, <3>5 DEF Begins
  <2> QED BY <2>1, <2>2
<1>6. c[After(m)] = Append(c[at], Bytes(at, at + PktSize))
  <2> HIDE DEF at
  <2>1. c[at + PktSize] = Append(c[at], Bytes(at, at + PktSize))
    BY <1>4, <1>5, CutTakes
  <2> QED BY <1>4, <2>1
<1>7. c[at] \in Seq(Seq(Nat)) /\ c[q] \in Seq(Seq(Nat))
  <2> HIDE DEF at
  <2> QED BY <1>4, CutType
<1>8. c[After(m)] # << >> /\ Past(c[After(m)]) = After(m)
  <2> DEFINE cut == c[at]
  <2>1. cut \in Seq(Seq(Nat)) /\ at \in Nat
    BY <1>4, <1>7
  <2>2. c[After(m)] = Append(cut, Bytes(at, at + PktSize)) /\ After(m) = at + PktSize
    BY <1>4, <1>6
  <2> HIDE DEF cut, at, After, c
  <2> QED BY <2>1, <2>2, PacketMore
<1>9. c[After(m)] = c[q] \o Framed!Run(q, m)
  <2> DEFINE r == Framed!Run(q, m - 1)
             x == Framed!Packet(at)
  <2>1. r \in Seq(Seq(Nat)) /\ Framed!Run(q, m) = Append(r, x)
    <3> DEFINE j == m - 1
    <3>1. q \in Nat /\ j \in Nat /\ j + 1 = m /\ at = q + j * PktSize
      BY <1>3
    <3> HIDE DEF j, at
    <3>2. Framed!Run(q, j) \in Seq(Seq(Nat))
          /\ Framed!Run(q, j + 1) = Append(Framed!Run(q, j), Framed!Packet(q + j * PktSize))
      BY <3>1, RunMore
    <3> QED BY <3>1, <3>2 DEF j
  <2>2. x = Bytes(at, at + PktSize) /\ x \in Seq(Nat)
    <3> HIDE DEF at
    <3> QED BY <1>4, PieceIsFramedPacket, PacketBytes
  <2>3. c[After(m)] = Append(c[q] \o r, x)
    BY <1>5, <1>6, <2>2
  <2> DEFINE u == c[q]
  <2> HIDE DEF r, x, at, c
  <2>4. u \in Seq(Seq(Nat)) /\ r \in Seq(Seq(Nat)) /\ x \in Seq(Nat)
    BY <1>7, <2>1, <2>2
  <2> HIDE DEF u
  <2> DEFINE both == u \o r
             more == Append(r, x)
  <2>5. Append(both, x) = u \o more
    <3> DEFINE Y == Seq(Nat)
               one == <<x>>
    <3>1. u \in Seq(Y) /\ r \in Seq(Y) /\ x \in Y
      BY <2>4
    <3> HIDE DEF Y
    <3>2. more = r \o one
      BY <3>1, AppendIsConcat
    <3>3. both \in Seq(Y)
      BY <3>1, ConcatProperties
    <3>4. Append(both, x) = both \o one
      <4> HIDE DEF both
      <4> QED BY <3>1, <3>3, AppendIsConcat
    <3>5. one \in Seq(Y)
      BY <3>1
    <3> HIDE DEF one
    <3>6. both \o one = u \o (r \o one)
      BY <3>1, <3>5, ConcatAssociative, SMTT(30)
    <3> HIDE DEF both, more
    <3> QED BY <3>2, <3>4, <3>6
  <2> QED BY <2>1, <2>3, <2>5 DEF u
<1>10. Good(m)
  <2>1. After(m) \in 0..s.len
    BY <1>4, SizesType
  <2> HIDE DEF at, c, After
  <2> QED BY <2>1, <1>8, <1>9
<1> QED BY <1>2, <1>10

-----------------------------------------------------------------------------
(* What is delivered, step by step, and what is cut.                       *)

\* What is delivered so far is what is cut up to p, and the phase tells what of it matters:
\* nothing locks before p, or the last packet ends at p, or no packet begins where the last
\* one ends.
AsCut(s, p, ph, o) ==
    /\ p \in 0..s.len
    /\ o = Cut(s)[p]
    /\ ph \in {"initial", "locked", "lost"}
    /\ ph = "initial" => o = << >> /\ \A r \in 0..(p - 1) : ~Locks(s, r)
    /\ ph # "initial" => HasSync(s) /\ o # << >> /\ Past(o) \in Nat /\ Past(o) <= p
    /\ ph = "locked" => Past(o) = p
    /\ ph = "lost" => Past(o) < p \/ p \notin s.sync

\* A verdict that agrees with the input.
IsResult(s, o, v) ==
    /\ IsPrefix(o, PacketsIn(s))
    /\ v # "kFailed" => v = VerdictOn(s) /\ o = PacketsIn(s)

\* No alignment starts at p .. q - 1.
NoLocks(s, p, q) == \A r \in p..(q - 1) : ~Locks(s, r)

\* Passing over bytes where nothing locks.
LEMMA SkipKeeps ==
    ASSUME NEW s, s.len \in Nat, NEW p, NEW ph, NEW o, AsCut(s, p, ph, o), ph # "locked",
           NEW q \in p..s.len, NoLocks(s, p, q)
    PROVE  AsCut(s, q, ph, o)
<1>1. p \in 0..s.len /\ q \in 0..s.len /\ p \in Nat /\ q \in Nat /\ o = Cut(s)[p]
      /\ ph \in {"initial", "lost"}
  BY DEF AsCut
<1>2. CASE q = p
  BY <1>2
<1>3. CASE q # p
  <2>1. p < q
    BY <1>1, <1>3
  <2>2. \A r \in p..(q - 1) : ~Begins(s, Cut(s)[p], r)
    <3> SUFFICES ASSUME NEW r \in p..(q - 1), Begins(s, o, r) PROVE FALSE
      BY <1>1
    <3>1. ~Locks(s, r)
      BY DEF NoLocks
    <3>2. o # << >> /\ r = Past(o) /\ r \in s.sync
      BY <3>1 DEF Begins, Starts
    <3>3. ph = "lost" /\ Past(o) <= p /\ (Past(o) < p \/ p \notin s.sync)
      BY <1>1, <3>2 DEF AsCut
    <3> QED BY <1>1, <3>2, <3>3
  <2>3. Cut(s)[q] = o
    BY <1>1, <2>2, CutWaits
  <2>4. ph = "initial" => \A r \in 0..(q - 1) : ~Locks(s, r)
    BY <1>1 DEF AsCut, NoLocks
  <2>5. ph = "lost" => Past(o) < q /\ Past(o) \in Nat /\ HasSync(s) /\ o # << >>
    BY <1>1, <2>1 DEF AsCut
  <2>6. ph = "initial" => o = << >>
    BY DEF AsCut
  <2> QED BY <1>1, <2>3, <2>4, <2>5, <2>6 DEF AsCut
<1> QED BY <1>2, <1>3

\* What is cut by then is a prefix of what is cut in all.
LEMMA CutIsPrefix ==
    ASSUME NEW s, s.len \in Nat, NEW p \in 0..s.len, HasSync(s)
    PROVE  IsPrefix(Cut(s)[p], PacketsIn(s))
<1>1. s.len \in p..s.len
  OBVIOUS
<1> QED BY <1>1, CutGrows DEF PacketsIn

\* The empty sequence is one.
LEMMA EmptyIsPrefix ==
    ASSUME NEW s, s.len \in Nat
    PROVE  IsPrefix(<< >>, PacketsIn(s))
<1>1. PacketsIn(s) \in Seq(Seq(Nat))
  <2>1. s.len \in 0..s.len
    OBVIOUS
  <2>2. Cut(s)[s.len] \in Seq(Seq(Nat))
    BY <2>1, CutType
  <2> QED BY <2>2, EmptySeq DEF PacketsIn
<1> DEFINE t == PacketsIn(s)
<1> HIDE DEF t
<1>2. t \in Seq(Seq(Nat))
  BY <1>1 DEF t
<1>3. SubSeq(t, 1, 0) = SubSeq(<< >>, 1, 0)
  BY <1>2
<1> QED BY <1>2, <1>3 DEF IsPrefix, t

\* Stopping anywhere leaves a prefix.
LEMMA FailKeeps ==
    ASSUME NEW s, s.len \in Nat, NEW p, NEW ph, NEW o, AsCut(s, p, ph, o)
    PROVE  IsResult(s, o, "kFailed")
<1>1. CASE ph = "initial"
  BY <1>1, EmptyIsPrefix DEF AsCut, IsResult
<1>2. CASE ph # "initial"
  BY <1>2, CutIsPrefix DEF AsCut, IsResult
<1> QED BY <1>1, <1>2

\* Locking at the first alignment.
LEMMA LockKeeps ==
    ASSUME NEW s, s.len \in Nat, NEW p, NEW ph, NEW o, AsCut(s, p, ph, o), ph # "locked",
           NEW q \in p..s.len, NoLocks(s, p, q), Locks(s, q),
           ph = "initial" => q < PktSize, NEW k \in 1..SyncProbePackets
    PROVE  /\ AsCut(s, q + k * PktSize, "locked", o \o Framed!Run(q, k))
           /\ IsResult(s, o \o Framed!Run(q, k), "kFailed")
<1>1. AsCut(s, q, ph, o)
  BY SkipKeeps
<1>2. q \in 0..s.len /\ o = Cut(s)[q] /\ (o # << >> => Past(o) <= q)
  BY <1>1 DEF AsCut
<1> DEFINE after == q + k * PktSize
<1>3. /\ after \in 0..s.len
      /\ Cut(s)[after] = o \o Framed!Run(q, k)
      /\ Cut(s)[after] # << >> /\ Past(Cut(s)[after]) = after
  BY <1>2, CutTakesRun
<1>4. HasSync(s)
  <2>1. CASE ph = "initial"
    <3>1. q \in 0..(PktSize - 1)
      BY <1>2, <2>1, SizesType
    <3> QED BY <3>1 DEF HasSync
  <2>2. CASE ph # "initial"
    BY <2>2 DEF AsCut
  <2> QED BY <2>1, <2>2
<1> HIDE DEF after
<1>5. AsCut(s, after, "locked", o \o Framed!Run(q, k))
  BY <1>3, <1>4 DEF AsCut
<1>6. IsResult(s, o \o Framed!Run(q, k), "kFailed")
  BY <1>5, FailKeeps
<1> QED BY <1>5, <1>6 DEF after

\* The next packet.
LEMMA DeliverKeeps ==
    ASSUME NEW s, s.len \in Nat, NEW p, NEW o, AsCut(s, p, "locked", o),
           p \in s.sync, p + PktSize <= s.len
    PROVE  /\ AsCut(s, p + PktSize, "locked", Append(o, Framed!Packet(p)))
           /\ IsResult(s, Append(o, Framed!Packet(p)), "kFailed")
<1>1. p \in 0..s.len /\ p \in Nat /\ o = Cut(s)[p] /\ o # << >> /\ Past(o) = p /\ HasSync(s)
  BY DEF AsCut
<1>2. Begins(s, Cut(s)[p], p)
  <2>1. p < s.len
    BY <1>1, SizesType
  <2> QED BY <1>1, <2>1 DEF Begins, Starts
<1>3. p + PktSize \in 0..s.len /\ Cut(s)[p + PktSize] = Append(o, Bytes(p, p + PktSize))
  BY <1>1, <1>2, CutTakes
<1>4. Bytes(p, p + PktSize) = Framed!Packet(p)
  BY <1>1, PieceIsFramedPacket
<1>5. o \in Seq(Seq(Nat))
  BY <1>1, CutType
<1> DEFINE more == Append(o, Bytes(p, p + PktSize))
<1>6. more # << >> /\ Past(more) = p + PktSize
  BY <1>1, <1>5, PacketMore
<1> HIDE DEF more
<1>7. AsCut(s, p + PktSize, "locked", more)
  <2>1. more = Cut(s)[p + PktSize] /\ p + PktSize \in Nat
    BY <1>3 DEF more
  <2> DEFINE z == p + PktSize
  <2>2. z \in 0..s.len /\ z \in Nat /\ more = Cut(s)[z] /\ Past(more) = z /\ z <= z
    BY <1>3, <1>6, <2>1
  <2> HIDE DEF z
  <2>3. AsCut(s, z, "locked", more)
    BY <1>1, <1>6, <2>2 DEF AsCut
  <2> QED BY <2>3 DEF z
<1>8. IsResult(s, more, "kFailed")
  BY <1>7, FailKeeps
<1> QED BY <1>4, <1>7, <1>8 DEF more

\* The end of the input, with less than a packet left or nothing that locks.
LEMMA FinishKeeps ==
    ASSUME NEW s, s.len \in Nat, NEW p, NEW ph, NEW o, AsCut(s, p, ph, o),
           \/ ph = "locked" /\ s.len < p + PktSize
           \/ ph = "lost" /\ NoLocks(s, p, s.len)
    PROVE  IsResult(s, o, "kOk")
<1>1. p \in 0..s.len /\ p \in Nat /\ HasSync(s) /\ o = Cut(s)[p] /\ s.len \in p..s.len
  BY DEF AsCut
<1>2. Cut(s)[s.len] = o
  <2>1. CASE ph = "locked"
    <3>1. ASSUME NEW r \in p..(s.len - 1), Begins(s, Cut(s)[p], r)
          PROVE  FALSE
      <4>1. r \in Nat /\ p <= r
        BY <1>1
      <4>2. r + PktSize <= s.len
        BY <3>1, <4>1, BeginsFits
      <4> QED BY <1>1, <2>1, <4>1, <4>2, SizesType
    <3>2. s.len \in p..s.len /\ \A r \in p..(s.len - 1) : ~Begins(s, Cut(s)[p], r)
      BY <1>1, <3>1
    <3> QED BY <1>1, <3>2, CutWaits
  <2>2. CASE ph # "locked"
    <3>1. AsCut(s, s.len, ph, o)
      BY <1>1, <2>2, SkipKeeps
    <3> QED BY <3>1 DEF AsCut
  <2> QED BY <2>1, <2>2
<1>3. IsPrefix(o, PacketsIn(s))
  BY <1>1, CutIsPrefix
<1> QED BY <1>1, <1>2, <1>3 DEF IsResult, PacketsIn, VerdictOn

\* Nothing locks in the first packet's length.
LEMMA NoSyncKeeps ==
    ASSUME NEW s, s.len \in Nat, NEW p, NEW o, AsCut(s, p, "initial", o),
           NoLocks(s, p, PktSize)
    PROVE  IsResult(s, o, "kNoSync")
<1>1. \A r \in 0..(PktSize - 1) : ~Locks(s, r)
  <2> TAKE r \in 0..(PktSize - 1)
  <2>1. p \in Nat /\ (r \in 0..(p - 1) \/ r \in p..(PktSize - 1))
    BY SizesType DEF AsCut
  <2> QED BY <2>1 DEF AsCut, NoLocks
<1>2. ~HasSync(s)
  BY <1>1 DEF HasSync
<1> QED BY <1>2, EmptyIsPrefix DEF AsCut, IsResult, PacketsIn, VerdictOn

\* The invariant: what is delivered is what is cut up to the position, and once framing has
\* ended it is the result.
ResultInv ==
    IF AbstractVerdict = "running" THEN AsCut(stream, AbstractPos, Phase, delivered)
                                   ELSE IsResult(stream, delivered, AbstractVerdict)

\* The two ways to say that an alignment starts at q.
LEMMA AlignedIsLocks ==
    ASSUME IInv, NEW q \in Nat
    PROVE  Framed!Aligned(q) <=> Locks(stream, q)
<1>1. SyncProbePackets * PktSize = PktSize * SyncProbePackets
  BY PktSizeAssumption, SyncProbePacketsAssumption
<1>2. stream.len \in Nat /\ stream.sync \subseteq 0..(stream.len - 1)
  BY StreamsAssumption DEF IInv, TypeOK
<1>3. \A at \in stream.sync : at < stream.len
  BY <1>2
<1> QED BY <1>1, <1>3 DEF Framed!Aligned, Locks, Starts, kSyncProbeSize

\* Where nothing is aligned, nothing locks.
LEMMA NothingAlignedIsNoLocks ==
    ASSUME IInv, NEW a \in Nat, NEW b \in Nat, Framed!NothingAligned(a, b)
    PROVE  NoLocks(stream, a, b)
<1> SUFFICES ASSUME NEW r \in a..(b - 1)  PROVE ~Locks(stream, r)
  BY DEF NoLocks
<1>1. r \in Nat
  OBVIOUS
<1> QED BY <1>1, AlignedIsLocks DEF Framed!NothingAligned

\* Every step of the whole-stream framing keeps to what is cut.
LEMMA ResultStep ==
    ASSUME IInv, ResultInv, AbstractStep
    PROVE  ResultInv'
<1> DEFINE running == AbstractVerdict = "running"
<1>1. stream.len \in Nat
  BY StateFacts
<1>2. CASE UNCHANGED <<stream, AbstractPos, Phase, delivered, AbstractVerdict>>
  BY <1>2 DEF ResultInv
<1>3. CASE Framed!Next
  <2>1. running /\ AsCut(stream, AbstractPos, Phase, delivered)
    BY <1>3 DEF ResultInv, Framed!Next, Framed!Skip, Framed!Lock, Framed!Deliver,
       Framed!LoseSync, Framed!NoSync, Framed!Finish, Framed!Fail, AbstractVerdict
  <2>2. PICK s, p, ph, o : s = stream /\ p = AbstractPos /\ ph = Phase /\ o = delivered
    OBVIOUS
  <2>3. s.len \in Nat /\ AsCut(s, p, ph, o) /\ p \in Nat /\ p <= s.len
    BY <1>1, <2>1, <2>2 DEF AsCut
  <2>4. \A v : /\ stream' = stream /\ IsResult(s, delivered', v)
               /\ AbstractVerdict' = v /\ v # "running"
               => ResultInv'
    BY <2>2 DEF ResultInv
  <2>5. /\ stream' = stream /\ AsCut(s, AbstractPos', Phase', delivered')
        /\ AbstractVerdict' = "running"
        => ResultInv'
    BY <2>2 DEF ResultInv
  <2>6. ASSUME NEW q \in 0..stream.len, Framed!Skip(q)
        PROVE  ResultInv'
    <3>1. /\ ph # "locked" /\ q \in (p + 1)..s.len /\ Framed!NothingAligned(p, q)
          /\ AbstractPos' = q /\ AbstractVerdict' = "running"
          /\ UNCHANGED <<stream, Phase, delivered>>
      BY <2>2, <2>6 DEF Framed!Skip, AbstractPos, AbstractVerdict
    <3>2. q \in Nat /\ q \in p..s.len
      BY <2>3, <3>1
    <3>3. NoLocks(s, p, q)
      BY <2>2, <2>3, <3>1, <3>2, NothingAlignedIsNoLocks
    <3>4. AsCut(s, q, ph, o)
      BY <2>3, <3>1, <3>2, <3>3, SkipKeeps
    <3> QED BY <2>2, <2>5, <3>1, <3>4
  <2>7. ASSUME NEW q \in 0..stream.len, Framed!Lock(q)
        PROVE  ResultInv'
    <3>1. /\ ph # "locked" /\ q \in p..s.len /\ Framed!NothingAligned(p, q)
          /\ Framed!Aligned(q) /\ (ph = "initial" => q < PktSize) /\ stream' = stream
      BY <2>2, <2>7 DEF Framed!Lock, AbstractPos
    <3>2. q \in Nat
      BY <2>3, <3>1
    <3>3. NoLocks(s, p, q) /\ Locks(s, q)
      BY <2>2, <2>3, <3>1, <3>2, NothingAlignedIsNoLocks, AlignedIsLocks
    <3>4. ASSUME NEW k \in 1..SyncProbePackets
          PROVE  /\ AsCut(s, q + k * PktSize, "locked", o \o Framed!Run(q, k))
                 /\ IsResult(s, o \o Framed!Run(q, k), "kFailed")
      BY <2>3, <3>1, <3>3, LockKeeps
    <3>5. CASE /\ delivered' = delivered \o Framed!Run(q, SyncProbePackets)
               /\ AbstractPos' = q + SyncProbePackets * PktSize
               /\ Phase' = "locked" /\ AbstractVerdict' = "running"
      <4>1. SyncProbePackets \in 1..SyncProbePackets
        BY SyncProbePacketsAssumption
      <4>2. AsCut(s, AbstractPos', Phase', delivered')
        BY <2>2, <3>4, <3>5, <4>1
      <4> QED BY <2>5, <3>1, <3>5, <4>2
    <3>6. CASE /\ \E k \in 1..SyncProbePackets : delivered' = delivered \o Framed!Run(q, k)
               /\ AbstractVerdict' = "kFailed"
      <4>1. IsResult(s, delivered', "kFailed")
        BY <2>2, <3>4, <3>6
      <4> QED BY <2>4, <3>1, <3>6, <4>1
    <3> QED BY <2>1, <2>7, <3>5, <3>6
            DEF Framed!Lock, Framed!Decide, AbstractPos, AbstractVerdict
  <2>8. CASE Framed!Deliver
    <3>1. /\ ph = "locked" /\ p \in s.sync /\ p + PktSize <= s.len
          /\ delivered' = Append(o, Framed!Packet(p))
          /\ UNCHANGED <<stream, Phase>>
          /\ \/ AbstractPos' = p + PktSize /\ AbstractVerdict' = "running"
             \/ AbstractVerdict' = "kFailed"
      BY <2>1, <2>2, <2>8 DEF Framed!Deliver, Framed!Decide, AbstractPos, AbstractVerdict
    <3>2. /\ AsCut(s, p + PktSize, "locked", Append(o, Framed!Packet(p)))
          /\ IsResult(s, Append(o, Framed!Packet(p)), "kFailed")
      BY <2>3, <3>1, DeliverKeeps
    <3> QED BY <2>2, <2>4, <2>5, <3>1, <3>2
  <2>9. CASE Framed!LoseSync
    <3>1. /\ ph = "locked" /\ p \notin s.sync /\ Phase' = "lost"
          /\ UNCHANGED <<stream, AbstractPos, delivered, AbstractVerdict>>
      BY <2>2, <2>9 DEF Framed!LoseSync, AbstractPos, AbstractVerdict
    <3>2. AsCut(s, p, "lost", o)
      BY <2>3, <3>1 DEF AsCut
    <3> QED BY <2>1, <2>2, <2>5, <3>1, <3>2
  <2>10. CASE Framed!NoSync
    <3>1. /\ ph = "initial" /\ Framed!NothingAligned(p, PktSize)
          /\ AbstractVerdict' = "kNoSync" /\ UNCHANGED <<stream, delivered>>
      BY <2>2, <2>10 DEF Framed!NoSync, Framed!Decide, AbstractPos, AbstractVerdict
    <3>2. NoLocks(s, p, PktSize)
      BY <2>2, <2>3, <3>1, SizesType, NothingAlignedIsNoLocks
    <3>3. IsResult(s, o, "kNoSync")
      BY <2>3, <3>1, <3>2, NoSyncKeeps
    <3> QED BY <2>2, <2>4, <3>1, <3>3
  <2>11. CASE Framed!Finish
    <3>1. /\ \/ ph = "locked" /\ s.len < p + PktSize
             \/ ph = "lost" /\ Framed!NothingAligned(p, s.len)
          /\ AbstractVerdict' = "kOk" /\ UNCHANGED <<stream, delivered>>
      BY <2>2, <2>11 DEF Framed!Finish, Framed!Decide, AbstractPos, AbstractVerdict
    <3>2. Framed!NothingAligned(p, s.len) => NoLocks(s, p, s.len)
      BY <2>2, <2>3, NothingAlignedIsNoLocks
    <3>3. IsResult(s, o, "kOk")
      BY <2>3, <3>1, <3>2, FinishKeeps
    <3> QED BY <2>2, <2>4, <3>1, <3>3
  <2>12. CASE Framed!Fail
    <3>1. AbstractVerdict' = "kFailed" /\ UNCHANGED <<stream, delivered>>
      BY <2>12 DEF Framed!Fail, Framed!Decide, AbstractVerdict
    <3>2. IsResult(s, o, "kFailed")
      BY <2>3, FailKeeps
    <3> QED BY <2>2, <2>4, <3>1, <3>2
  <2> QED BY <1>3, <2>6, <2>7, <2>8, <2>9, <2>10, <2>11, <2>12 DEF Framed!Next
<1> QED BY <1>2, <1>3 DEF AbstractStep, Framed!vars, AbstractPos, AbstractVerdict

\* At the start nothing is cut.
LEMMA ResultInit == Init /\ IInv => ResultInv
<1> SUFFICES ASSUME Init, IInv PROVE ResultInv
  OBVIOUS
<1>1. Running /\ Phase = "initial" /\ delivered = << >> /\ pending = << >> /\ cursor = 0
  BY DEF Init, Running, Phase
<1>2. AbstractPos = 0 /\ AbstractVerdict = "running"
  <2>1. Len(pending) = 0
    BY EmptySeq DEF Init
  <2>2. cursor = 0
    BY <1>1
  <2>3. cursor - Len(pending) = 0
    BY <2>1, <2>2
  <2> QED BY <1>1, <2>3 DEF AbstractPos, AbstractVerdict
<1>3. stream.len \in Nat
  BY StateFacts
<1>4. Cut(stream)[0] = << >>
  BY <1>3, CutIs
<1>5. AsCut(stream, 0, "initial", << >>)
  BY <1>3, <1>4 DEF AsCut
<1> QED BY <1>1, <1>2, <1>5 DEF ResultInv

\* The invariant says what was meant.
LEMMA ResultIsAsMeant == IInv /\ ResultInv => ChunkingDoesNotShow
<1> SUFFICES ASSUME IInv, ResultInv PROVE ChunkingDoesNotShow
  OBVIOUS
<1>1. stream.len \in Nat
  BY StateFacts
<1>2. CASE Running
  <2>1. AsCut(stream, AbstractPos, Phase, delivered)
    BY <1>2 DEF ResultInv, AbstractVerdict
  <2>2. IsResult(stream, delivered, "kFailed")
    BY <1>1, <2>1, FailKeeps
  <2> QED BY <1>2, <2>2 DEF IsResult, ChunkingDoesNotShow
<1>3. CASE ~Running
  BY <1>3 DEF ResultInv, AbstractVerdict, ReadFrameStatus, IsResult, ChunkingDoesNotShow
<1> QED BY <1>2, <1>3

\* However the reader chunks the input, the packets delivered and the verdict are those of
\* cutting it as a whole; a refusal or a read error only cuts the delivery short.
THEOREM ResultIsThatOfTheInput == Spec => []ChunkingDoesNotShow
<1>1. ResultInv /\ IInv /\ [Next]_vars => ResultInv'
  BY EveryStepIsAbstract, ResultStep
<1> QED BY <1>1, ResultInit, ResultIsAsMeant, Invariance, PTL DEF Spec
=============================================================================
