---------------------------- MODULE PacketFramer ----------------------------
(***************************************************************************)
(* PacketFramer (core/packet_framer.{hpp,cc}) driven by FeedUntilEof, the  *)
(* way ReadAndFramePackets drives it.  The reader hands over the stream in *)
(* chunks of any size; one step is one Read or one iteration of the loop   *)
(* in Feed.                                                                *)
(*                                                                         *)
(* A byte is identified by its offset in the stream, and all that framing  *)
(* looks at is which offsets hold the sync byte 0x47 (stream.sync), so     *)
(* pending_ and the packets handed to the handler are sequences of         *)
(* offsets: a byte lost, repeated or out of place shows.                   *)
(*                                                                         *)
(* The operators named Slip... are not part of the model: each is a way    *)
(* the operator after it could have been got wrong, kept to show that a    *)
(* property below would notice (README, "Mutants").                        *)
(***************************************************************************)
EXTENDS Naturals, Sequences

CONSTANTS PktSize,            \* ts::PKT_SIZE
          SyncProbePackets,   \* kSyncProbePackets
          ChunkSize,          \* kChunkSize
          Streams             \* the inputs: [len : Nat, sync : offsets holding 0x47]

ASSUME PktSizeAssumption == PktSize \in Nat \ {0}
ASSUME SyncProbePacketsAssumption == SyncProbePackets \in Nat \ {0}
ASSUME ChunkSizeAssumption == ChunkSize \in Nat \ {0}
ASSUME StreamsAssumption ==
    \A s \in Streams : s.len \in Nat /\ s.sync \in SUBSET (0..(s.len - 1))

VARIABLES stream,              \* the input, fixed at the start
          mode,                \* mode_
          pending,             \* pending_[0 .. pending_size_)
          initial_offset,      \* initial_offset_
          initial_sync_failed, \* initial_sync_failed_
          cursor, end,         \* the rest of the chunk: offsets cursor .. end - 1
          status,              \* where FeedUntilEof is, or what it returned
          delivered            \* history: the packets on_packet was called with

vars == <<stream, mode, pending, initial_offset, initial_sync_failed, cursor, end,
          status, delivered>>

kSyncProbeSize == PktSize * SyncProbePackets
Running == status \in {"reading", "feeding"}

\* The bytes at offsets from .. to - 1: what memcpy copies, what a packet views.
Bytes(from, to) == [i \in 1..(to - from) |-> from + i - 1]

IsSync(byte) == byte \in stream.sync

\* std::find(bytes + i, end, SYNC_BYTE) returns index k (one past the last: none).
Finds(bytes, i, k) ==
    /\ k \in i..(Len(bytes) + 1)
    /\ \A j \in i..(k - 1) : ~IsSync(bytes[j])
    /\ k <= Len(bytes) => IsSync(bytes[k])

\* Slip: the last packet boundary of the window is not looked at.
SlipLastBoundary(bytes) ==
    \A index \in 0..(SyncProbePackets - 2) :
        Len(bytes) > index * PktSize => IsSync(bytes[index * PktSize + 1])

PendingSyncBytesAreValid(bytes) ==
    \A index \in 0..(SyncProbePackets - 1) :
        Len(bytes) > index * PktSize => IsSync(bytes[index * PktSize + 1])

\* EmitPacket(data): the packet viewed in place at bytes[at + 1].
PacketAt(bytes, at) == [i \in 1..PktSize |-> bytes[at + i]]

\* Slip: EmitPacket(data) for EmitPacket(data + index * PKT_SIZE).
SlipSamePacket(bytes, k) == [j \in 1..k |-> PacketAt(bytes, 0)]

\* The first k packets of the probe window.
ProbePackets(bytes, k) == [j \in 1..k |-> PacketAt(bytes, (j - 1) * PktSize)]

Init ==
    /\ stream \in Streams
    /\ mode = "kInitialSync"
    /\ pending = << >>
    /\ initial_offset = 0
    /\ initial_sync_failed = FALSE
    /\ cursor = 0
    /\ end = 0
    /\ status = "reading"
    /\ delivered = << >>

-----------------------------------------------------------------------------
(* FeedResult.  kContinue goes round Feed's loop, which ends when the      *)
(* chunk does; kNeedMoreData leaves Feed, and what is left of the chunk    *)
(* with it; kStop makes FeedUntilEof return false.                         *)

Continue(at) ==
    /\ cursor' = at
    /\ status' = IF at = end THEN "reading" ELSE "feeding"

NeedMoreData ==
    /\ cursor' = end
    /\ status' = "reading"

\* The chunk is not looked at again, wherever the cursor was.
Stop ==
    /\ status' = "false"
    /\ UNCHANGED cursor

-----------------------------------------------------------------------------
(* FeedUntilEof: the reads.                                                *)

Read(n) ==
    /\ status = "reading"
    /\ n \in 1..ChunkSize
    /\ end + n <= stream.len
    /\ end' = end + n
    /\ status' = "feeding"
    /\ UNCHANGED <<stream, mode, pending, initial_offset, initial_sync_failed, cursor,
                   delivered>>

\* Read returns 0: FinishAtEof, then the result.
ReadEof ==
    /\ status = "reading"
    /\ end = stream.len
    /\ initial_sync_failed' = (initial_sync_failed \/ mode = "kInitialSync")
    /\ status' = IF initial_sync_failed' THEN "false" ELSE "true"
    /\ UNCHANGED <<stream, mode, pending, initial_offset, cursor, end, delivered>>

ReadError ==
    /\ status = "reading"
    /\ status' = "false"
    /\ UNCHANGED <<stream, mode, pending, initial_offset, initial_sync_failed, cursor, end,
                   delivered>>

-----------------------------------------------------------------------------
(* FeedSeekingSync.  With pending_ empty it first scans the chunk for a    *)
(* candidate; then it copies what the probe window still needs.            *)

Seeking == status = "feeding" /\ mode \in {"kInitialSync", "kSeekingSync"}
InitialSync == mode = "kInitialSync"

\* Slip: the scan starts past the cursor.
SlipScanPastCursor(sync) ==
    IF pending = << >> THEN Finds(Bytes(cursor, end), 2, sync - cursor + 1)
                       ELSE sync = cursor

\* The chunk is copied from `sync` on: the first sync byte, or where the cursor is.
CopiesFrom(sync) ==
    IF pending = << >> THEN Finds(Bytes(cursor, end), 1, sync - cursor + 1)
                       ELSE sync = cursor

\* Slip: `=` for `+=`.
SlipOffsetAssigned(skipped) == IF InitialSync THEN skipped ELSE initial_offset

OffsetAfter(skipped) == IF InitialSync THEN initial_offset + skipped ELSE initial_offset

\* Slips: what is buffered already is not subtracted; the chunk's end is not respected.
SlipNeededIgnoresPending(from, size) == IF size <= end - from THEN from + size ELSE end
SlipCopyPastEnd(from, size) == from + (size - Len(pending))

\* Copying up to `size` bytes into pending_: the chunk bytes from .. CopyEnd - 1.
CopyEnd(from, size) ==
    LET needed == size - Len(pending)
    IN  IF needed <= end - from THEN from + needed ELSE end

\* Slip: pending_.data() for pending_.data() + pending_size_.
SlipCopyToFront(from, size) == Bytes(from, CopyEnd(from, size)) \o pending

Filled(from, size) == pending \o Bytes(from, CopyEnd(from, size))

\* The scan passes the first PKT_SIZE bytes of the stream: initial sync fails.
InitialScanFails ==
    /\ Seeking
    /\ InitialSync
    /\ pending = << >>
    /\ \E sync \in cursor..end :
         /\ CopiesFrom(sync)
         /\ initial_offset' = OffsetAfter(sync - cursor)
    /\ initial_offset' >= PktSize
    /\ initial_sync_failed' = TRUE
    /\ Stop
    /\ UNCHANGED <<stream, mode, pending, end, delivered>>

\* No sync byte in the chunk.
ScanExhausted ==
    /\ Seeking
    /\ pending = << >>
    /\ CopiesFrom(end)
    /\ initial_offset' = OffsetAfter(end - cursor)
    /\ ~(InitialSync /\ initial_offset' >= PktSize)
    /\ NeedMoreData
    /\ UNCHANGED <<stream, mode, pending, initial_sync_failed, end, delivered>>

\* The candidate at `sync` (or the one already pending) is in bounds.
AtCandidate(sync) ==
    /\ Seeking
    /\ CopiesFrom(sync)
    /\ sync < end
    /\ ~(pending = << >> /\ InitialSync /\ OffsetAfter(sync - cursor) >= PktSize)

\* Slips: only the candidate itself is dropped; begin for begin + 1.
SlipDropOneByte(bytes, k) == k = 2
SlipFindFromBegin(bytes, k) == Finds(bytes, 1, k)

\* bytes[k] is the next sync byte after the false candidate bytes[1], if any.
DiscardPendingUntilNextSync(bytes, k) == Finds(bytes, 2, k)

\* A packet boundary in the window holds no sync byte: the window moves to the
\* next sync byte in it, and the initial search may thereby run out of bounds.
RejectCandidate ==
    \E sync \in cursor..end :
      LET filled == Filled(sync, kSyncProbeSize)
      IN  /\ AtCandidate(sync)
          /\ ~PendingSyncBytesAreValid(filled)
          /\ \E k \in 1..(Len(filled) + 1) :
               /\ DiscardPendingUntilNextSync(filled, k)
               /\ pending' = SubSeq(filled, k, Len(filled))
               /\ initial_offset' = OffsetAfter((sync - cursor) + (k - 1))
          /\ IF InitialSync /\ initial_offset' >= PktSize
             THEN initial_sync_failed' = TRUE /\ Stop
             ELSE /\ Continue(CopyEnd(sync, kSyncProbeSize))
                  /\ UNCHANGED initial_sync_failed
          /\ UNCHANGED <<stream, mode, end, delivered>>

\* Valid so far, but the window is not full.
AwaitProbe ==
    \E sync \in cursor..end :
      LET filled == Filled(sync, kSyncProbeSize)
      IN  /\ AtCandidate(sync)
          /\ PendingSyncBytesAreValid(filled)
          /\ Len(filled) < kSyncProbeSize
          /\ pending' = filled
          /\ initial_offset' = OffsetAfter(sync - cursor)
          /\ NeedMoreData
          /\ UNCHANGED <<stream, mode, initial_sync_failed, end, delivered>>

\* The window is full and valid: its packets are emitted, until one is refused.
ConfirmSync ==
    \E sync \in cursor..end :
      LET filled == Filled(sync, kSyncProbeSize)
      IN  /\ AtCandidate(sync)
          /\ PendingSyncBytesAreValid(filled)
          /\ Len(filled) = kSyncProbeSize
          /\ pending' = << >>
          /\ initial_offset' = OffsetAfter(sync - cursor)
          /\ \/ /\ delivered' = delivered \o ProbePackets(filled, SyncProbePackets)
                /\ mode' = "kSynced"
                /\ Continue(CopyEnd(sync, kSyncProbeSize))
             \/ /\ \E k \in 1..SyncProbePackets :
                     delivered' = delivered \o ProbePackets(filled, k)
                /\ UNCHANGED mode
                /\ Stop
          /\ UNCHANGED <<stream, initial_sync_failed, end>>

-----------------------------------------------------------------------------
(* FeedSynced.                                                             *)

Synced == status = "feeding" /\ mode = "kSynced"

\* A packet is split across chunks: complete it, or wait for still more of it.
CompleteSplitPacket ==
    /\ Synced
    /\ pending # << >>
    /\ LET filled == Filled(cursor, PktSize)
       IN  IF Len(filled) < PktSize
           THEN /\ pending' = filled
                /\ NeedMoreData
                /\ UNCHANGED delivered
           ELSE /\ pending' = << >>
                /\ delivered' = Append(delivered, filled)
                /\ Continue(CopyEnd(cursor, PktSize)) \/ Stop
    /\ UNCHANGED <<stream, mode, initial_offset, initial_sync_failed, end>>

LoseSync ==
    /\ Synced
    /\ pending = << >>
    /\ ~IsSync(cursor)
    /\ mode' = "kSeekingSync"
    /\ Continue(cursor)
    /\ UNCHANGED <<stream, pending, initial_offset, initial_sync_failed, end, delivered>>

\* The chunk ends inside the packet at the cursor.
BufferPartialPacket ==
    /\ Synced
    /\ pending = << >>
    /\ IsSync(cursor)
    /\ end - cursor < PktSize
    /\ pending' = Bytes(cursor, end)
    /\ NeedMoreData
    /\ UNCHANGED <<stream, mode, initial_offset, initial_sync_failed, end, delivered>>

\* A whole packet lies in the chunk: emitted in place.
EmitFromChunk ==
    /\ Synced
    /\ pending = << >>
    /\ IsSync(cursor)
    /\ end - cursor >= PktSize
    /\ delivered' = Append(delivered, Bytes(cursor, cursor + PktSize))
    /\ Continue(cursor + PktSize) \/ Stop
    /\ UNCHANGED <<stream, mode, pending, initial_offset, initial_sync_failed, end>>

-----------------------------------------------------------------------------
\* One iteration of the loop in Feed.
FeedStep ==
    \/ InitialScanFails
    \/ ScanExhausted
    \/ RejectCandidate
    \/ AwaitProbe
    \/ ConfirmSync
    \/ CompleteSplitPacket
    \/ LoseSync
    \/ BufferPartialPacket
    \/ EmitFromChunk

ReadStep == (\E n \in 1..ChunkSize : Read(n)) \/ ReadEof \/ ReadError

Next == FeedStep \/ ReadStep

Spec == Init /\ [][Next]_vars

\* Feed's loop does not rest, and every read returns (a file, or a pipe whose
\* writer goes on or closes it).
FairSpec == Spec /\ WF_vars(FeedStep) /\ WF_vars(ReadStep)

\* ReadAndFramePackets.
ReadFrameStatus ==
    IF initial_sync_failed THEN "kNoSync"
    ELSE IF status = "true" THEN "kOk" ELSE "kFailed"

-----------------------------------------------------------------------------
TypeOK ==
    /\ stream \in Streams
    /\ mode \in {"kInitialSync", "kSeekingSync", "kSynced"}
    /\ pending \in Seq(0..(stream.len - 1))
    /\ initial_offset \in Nat
    /\ initial_sync_failed \in BOOLEAN
    /\ end \in 0..stream.len
    /\ cursor \in 0..end
    /\ status \in {"reading", "feeding", "true", "false"}
    /\ delivered \in Seq(Seq(0..(stream.len - 1)))

\* The reassembly buffer holds the bytes just before the cursor, none lost, repeated
\* or out of place, across every chunk boundary, discard and change of mode.
PendingIsContiguous ==
    Running =>
        /\ Len(pending) <= cursor
        /\ pending = Bytes(cursor - Len(pending), cursor)

\* Between iterations pending_ is never full: the code's unsigned subtractions
\* `kSyncProbeSize - pending_size_` and `PKT_SIZE - pending_size_` do not wrap, and
\* memcpy stays inside the array.
PendingFits ==
    Running => Len(pending) < (IF mode = "kSynced" THEN PktSize ELSE kSyncProbeSize)

\* "Buffering always starts at a sync-byte candidate", in every mode.
CandidateAtFront ==
    Running /\ pending # << >> => IsSync(pending[1])

\* During the initial search initial_offset_ is the stream offset of the candidate, or
\* of the next byte to scan, however the stream was chunked; and it is in bounds.
InitialOffsetIsCandidate ==
    Running /\ InitialSync =>
        /\ initial_offset = cursor - Len(pending)
        /\ initial_offset < PktSize

\* The handler sees whole packets, each starting with a sync byte (so that
\* CaptionDumper::FeedPacket never drops one), in stream order, no byte twice.
WholePacketsInOrder ==
    /\ \A j \in 1..Len(delivered) :
          /\ Len(delivered[j]) = PktSize
          /\ IsSync(delivered[j][1])
          /\ delivered[j] = Bytes(delivered[j][1], delivered[j][1] + PktSize)
    /\ \A j \in 1..(Len(delivered) - 1) :
          delivered[j][1] + PktSize <= delivered[j + 1][1]

\* FeedUntilEof comes to an end: no chunk sends Feed's loop round for ever.
FramingEnds == <>~Running

\* PacketFramer implements the framing of the whole stream.
Phase ==
    CASE mode = "kInitialSync" -> "initial"
      [] mode = "kSeekingSync" -> "lost"
      [] mode = "kSynced"      -> "locked"

Framed == INSTANCE FramedStream
            WITH pos     <- IF Running THEN cursor - Len(pending) ELSE 0,
                 phase   <- Phase,
                 out     <- delivered,
                 verdict <- IF Running THEN "running" ELSE ReadFrameStatus

\* Every read and loop iteration is a step of the whole-stream framing, or none.
ImplementsFramedStream == Framed!Spec
=============================================================================
