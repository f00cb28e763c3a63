------------------------ MODULE PacketFramer_proofs -------------------------
(***************************************************************************)
(* The reassembly buffer of PacketFramer is right for every packet size,   *)
(* probe length, chunk size and input; and, in the last part, every packet *)
(* it delivers is a whole one that follows the one before it.              *)
(***************************************************************************)
EXTENDS PacketFramer, SequenceTheorems, TLAPS

(***************************************************************************)
(* Bytes: lengths, elements, concatenation and suffixes.                   *)
(***************************************************************************)

\* memcpy of [from, to) yields to - from bytes, in order.
LEMMA BytesProperties ==
    ASSUME NEW from \in Nat, NEW to \in Nat, from <= to
    PROVE  /\ Bytes(from, to) \in Seq(Nat)
           /\ Len(Bytes(from, to)) = to - from
           /\ \A i \in 1..(to - from) : Bytes(from, to)[i] = from + i - 1
           /\ \A n \in Nat : to <= n => Bytes(from, to) \in Seq(0..(n - 1))
           /\ Bytes(from, to) = << >> <=> from = to
  BY DEF Bytes

\* A sequence is Bytes(from, to) when it has its length and elements.
LEMMA IsBytes ==
    ASSUME NEW S, NEW s \in Seq(S), NEW from \in Nat, NEW to \in Nat, from <= to,
           Len(s) = to - from, \A i \in 1..(to - from) : s[i] = from + i - 1
    PROVE  s = Bytes(from, to)
  BY DEF Bytes

\* Copying the bytes that follow in the stream extends the buffer.
LEMMA BytesConcat ==
    ASSUME NEW a \in Nat, NEW b \in Nat, NEW c \in Nat, a <= b, b <= c
    PROVE  Bytes(a, b) \o Bytes(b, c) = Bytes(a, c)
<1>1. ASSUME NEW s \in Seq(Nat), NEW t \in Seq(Nat), Len(s) = b - a, Len(t) = c - b,
             \A i \in 1..(b - a) : s[i] = a + i - 1,
             \A i \in 1..(c - b) : t[i] = b + i - 1
      PROVE  s \o t = Bytes(a, c)
  <2>1. s \o t \in Seq(Nat) /\ Len(s \o t) = c - a
    <3>1. s \o t \in Seq(Nat) /\ Len(s \o t) = Len(s) + Len(t)
      BY <1>1, ConcatProperties
    <3> QED BY <1>1, <3>1
  <2>2. \A i \in 1..(c - a) : (s \o t)[i] = IF i <= b - a THEN s[i] ELSE t[i - (b - a)]
    BY <1>1
  <2>3. \A i \in 1..(c - a) : (s \o t)[i] = a + i - 1
    BY <1>1, <2>2
  <2> QED BY <2>1, <2>3, IsBytes, a <= c
<1> QED BY <1>1, BytesProperties

\* Shifting the window drops the bytes before its new front.
LEMMA BytesSuffix ==
    ASSUME NEW a \in Nat, NEW c \in Nat, a <= c, NEW k \in 1..(c - a + 1)
    PROVE  SubSeq(Bytes(a, c), k, c - a) = Bytes(a + k - 1, c)
<1>1. ASSUME NEW s \in Seq(Nat), Len(s) = c - a, \A i \in 1..(c - a) : s[i] = a + i - 1
      PROVE  SubSeq(s, k, c - a) = Bytes(a + k - 1, c)
  <2>1. /\ SubSeq(s, k, c - a) \in Seq(Nat)
        /\ Len(SubSeq(s, k, c - a)) = c - (a + k - 1)
        /\ \A i \in 1..(c - (a + k - 1)) : SubSeq(s, k, c - a)[i] = s[k + i - 1]
    BY <1>1
  <2>2. \A i \in 1..(c - (a + k - 1)) : SubSeq(s, k, c - a)[i] = (a + k - 1) + i - 1
    BY <1>1, <2>1
  <2> QED BY <2>1, <2>2, IsBytes, a + k - 1 \in Nat, a + k - 1 <= c
<1> QED BY <1>1, BytesProperties

(***************************************************************************)
(* The packets of the probe window.                                        *)
(***************************************************************************)

\* Packet j of the window lies inside it.
LEMMA PacketInWindow ==
    ASSUME NEW j \in 1..SyncProbePackets
    PROVE  /\ (j - 1) * PktSize \in Nat
           /\ j * PktSize \in Nat
           /\ j * PktSize = (j - 1) * PktSize + PktSize
           /\ j * PktSize <= kSyncProbeSize
<1> DEFINE d == SyncProbePackets - j
<1>1. d \in Nat /\ SyncProbePackets = j + d /\ PktSize \in Nat /\ j \in Nat /\ j - 1 \in Nat
  BY PktSizeAssumption, SyncProbePacketsAssumption
<1> HIDE DEF d
<1>2. PktSize * (j + d) = j * PktSize + d * PktSize
  BY <1>1
<1>3. d * PktSize \in Nat /\ j * PktSize \in Nat /\ (j - 1) * PktSize \in Nat
  BY <1>1
<1>4. j * PktSize = (j - 1) * PktSize + PktSize
  BY <1>1
<1> QED BY <1>1, <1>2, <1>3, <1>4 DEF kSyncProbeSize

\* Confirming sync emits consecutive whole packets, the first at the window's front.
LEMMA ProbePacketsAreBytes ==
    ASSUME NEW b \in Nat, NEW c \in Nat, c = b + kSyncProbeSize,
           NEW k \in 1..SyncProbePackets
    PROVE  ProbePackets(Bytes(b, c), k)
             = [j \in 1..k |-> Bytes(b + (j - 1) * PktSize, b + j * PktSize)]
<1>1. ASSUME NEW at \in Nat, at + PktSize <= c - b
      PROVE  PacketAt(Bytes(b, c), at) = Bytes(b + at, b + at + PktSize)
  BY <1>1, PktSizeAssumption DEF PacketAt, Bytes
<1>2. ASSUME NEW j \in 1..k
      PROVE  PacketAt(Bytes(b, c), (j - 1) * PktSize)
               = Bytes(b + (j - 1) * PktSize, b + j * PktSize)
  <2>1. j \in 1..SyncProbePackets
    BY SyncProbePacketsAssumption
  <2> DEFINE at == (j - 1) * PktSize
  <2>2. at \in Nat /\ at + PktSize <= c - b /\ b + j * PktSize = b + at + PktSize
    BY <2>1, PacketInWindow, PktSizeAssumption, SyncProbePacketsAssumption
       DEF kSyncProbeSize
  <2> HIDE DEF at
  <2>3. PacketAt(Bytes(b, c), at) = Bytes(b + at, b + at + PktSize)
    BY <1>1, <2>2
  <2> QED BY <2>2, <2>3 DEF at
<1> QED BY <1>2 DEF ProbePackets

(***************************************************************************)
(* Copying into the buffer: it stays a contiguous piece of the stream, is  *)
(* not overfilled, and is short only when the chunk is used up.            *)
(***************************************************************************)

\* The stream offset of pending_[0], when copying from `sync` on.
WindowStart(sync) == sync - Len(pending)

\* The memcpy of FeedSeekingSync and FeedSynced, from `sync` on.
LEMMA FilledIsContiguous ==
    ASSUME NEW sync \in Nat, NEW size \in Nat, cursor \in Nat, end \in Nat,
           cursor <= sync, sync <= end,
           pending \in Seq(Nat), Len(pending) <= cursor, Len(pending) < size,
           pending = Bytes(cursor - Len(pending), cursor),
           pending # << >> => sync = cursor
    PROVE  /\ WindowStart(sync) \in Nat /\ CopyEnd(sync, size) \in Nat
           /\ WindowStart(sync) <= sync /\ sync <= CopyEnd(sync, size)
           /\ CopyEnd(sync, size) <= end
           /\ sync < end => sync < CopyEnd(sync, size)
           /\ Filled(sync, size) = Bytes(WindowStart(sync), CopyEnd(sync, size))
           /\ Len(Filled(sync, size)) = CopyEnd(sync, size) - WindowStart(sync)
           /\ CopyEnd(sync, size) - WindowStart(sync) <= size
           /\ CopyEnd(sync, size) - WindowStart(sync) < size => CopyEnd(sync, size) = end
<1> DEFINE b == WindowStart(sync)
           c == CopyEnd(sync, size)
<1>1. /\ b \in Nat /\ c \in Nat /\ b <= sync /\ sync <= c /\ c <= end
      /\ sync < end => sync < c
      /\ c - b <= size
      /\ c - b < size => c = end
  BY DEF CopyEnd, WindowStart
<1> HIDE DEF b, c
<1>2. Filled(sync, size) = Bytes(b, c)
  <2>1. CASE pending = << >>
    <3>1. b = sync
      BY <2>1 DEF b, WindowStart
    <3>2. Bytes(sync, c) \in Seq(Nat)
      BY <1>1, BytesProperties
    <3> QED BY <2>1, <3>1, <3>2 DEF Filled, c
  <2>2. CASE pending # << >>
    <3>1. b \in Nat /\ b <= cursor /\ sync = cursor
      BY <2>2, <1>1 DEF b
    <3>2. pending = Bytes(b, cursor)
      BY <3>1 DEF b, WindowStart
    <3>3. Bytes(b, cursor) \o Bytes(cursor, c) = Bytes(b, c)
      BY <1>1, <3>1, BytesConcat
    <3>4. Filled(sync, size) = pending \o Bytes(cursor, c)
      BY <3>1 DEF Filled, c
    <3> QED BY <3>2, <3>3, <3>4
  <2> QED BY <2>1, <2>2
<1>3. Len(Bytes(b, c)) = c - b
  BY <1>1, BytesProperties
<1> QED BY <1>1, <1>2, <1>3 DEF b, c

(***************************************************************************)
(* The inductive invariant.  To the properties of the runs it adds where   *)
(* the cursor can be: Feed's loop only runs with bytes left in the chunk,  *)
(* and a read only happens when none are.                                  *)
(***************************************************************************)
ChunkBounds ==
    /\ status = "reading" => cursor = end
    /\ status = "feeding" => cursor < end

IInv ==
    /\ TypeOK
    /\ ChunkBounds
    /\ Running => ~initial_sync_failed
    /\ PendingIsContiguous
    /\ PendingFits
    /\ CandidateAtFront
    /\ InitialOffsetIsCandidate

\* The inputs and sizes, in the form the steps below use.
LEMMA SizesType ==
    /\ PktSize \in Nat /\ PktSize > 0
    /\ kSyncProbeSize \in Nat /\ PktSize <= kSyncProbeSize
<1>1. 1 \in 1..SyncProbePackets
  BY SyncProbePacketsAssumption
<1>2. 1 * PktSize <= kSyncProbeSize
  BY <1>1, PacketInWindow
<1> QED BY <1>2, PktSizeAssumption, SyncProbePacketsAssumption DEF kSyncProbeSize

\* The window FeedSeekingSync fills starts at a sync byte, at an offset of the stream
\* which during the initial search is what initial_offset_ then holds.
LEMMA CandidateWindow ==
    ASSUME IInv, NEW sync \in cursor..end, AtCandidate(sync)
    PROVE  LET b == WindowStart(sync)
               c == CopyEnd(sync, kSyncProbeSize)
           IN  /\ b \in Nat /\ c \in Nat /\ b <= sync /\ sync < c /\ c <= end
               /\ Filled(sync, kSyncProbeSize) = Bytes(b, c)
               /\ Len(Filled(sync, kSyncProbeSize)) = c - b
               /\ c - b <= kSyncProbeSize
               /\ c - b < kSyncProbeSize => c = end
               /\ IsSync(b)
               /\ InitialSync => OffsetAfter(sync - cursor) = b /\ b < PktSize
<1>1. /\ cursor \in Nat /\ end \in Nat /\ sync \in Nat /\ cursor <= sync /\ sync < end
      /\ pending \in Seq(Nat) /\ Len(pending) <= cursor /\ Len(pending) < kSyncProbeSize
      /\ pending = Bytes(cursor - Len(pending), cursor)
      /\ pending # << >> => sync = cursor
  <2>1. pending \in Seq(Nat) /\ end \in Nat /\ cursor \in 0..end
    BY StreamsAssumption DEF IInv, TypeOK
  <2> QED BY <2>1 DEF IInv, PendingIsContiguous, PendingFits, Running, AtCandidate, Seeking,
                      CopiesFrom
<1> DEFINE b == WindowStart(sync)
           c == CopyEnd(sync, kSyncProbeSize)
<1>2. /\ b \in Nat /\ c \in Nat /\ b <= sync /\ sync < c /\ c <= end
      /\ Filled(sync, kSyncProbeSize) = Bytes(b, c)
      /\ Len(Filled(sync, kSyncProbeSize)) = c - b
      /\ c - b <= kSyncProbeSize
      /\ c - b < kSyncProbeSize => c = end
  BY <1>1, SizesType, FilledIsContiguous
<1>3. IsSync(b)
  <2>1. CASE pending = << >>
    <3>1. b = sync /\ Finds(Bytes(cursor, end), 1, sync - cursor + 1)
      BY <1>1, <2>1 DEF AtCandidate, CopiesFrom, WindowStart
    <3>2. Len(Bytes(cursor, end)) = end - cursor
      BY <1>1, BytesProperties, cursor <= end
    <3>3. Bytes(cursor, end)[sync - cursor + 1] = sync
      BY <1>1 DEF Bytes
    <3> QED BY <1>1, <3>1, <3>2, <3>3 DEF Finds
  <2>2. CASE pending # << >>
    <3>1. IsSync(pending[1]) /\ sync = cursor /\ Len(pending) > 0
      BY <1>1, <2>2 DEF IInv, CandidateAtFront, Running, AtCandidate, Seeking
    <3>2. pending[1] = cursor - Len(pending)
      BY <1>1, <3>1 DEF Bytes
    <3> QED BY <3>1, <3>2 DEF WindowStart
  <2> QED BY <2>1, <2>2
<1>4. ASSUME InitialSync PROVE OffsetAfter(sync - cursor) = b /\ b < PktSize
  <2>1. initial_offset = cursor - Len(pending) /\ initial_offset < PktSize
    BY <1>4 DEF IInv, InitialOffsetIsCandidate, Running, AtCandidate, Seeking
  <2>2. OffsetAfter(sync - cursor) = b
    BY <1>1, <1>4, <2>1 DEF OffsetAfter, WindowStart
  <2>3. b < PktSize
    <3>1. CASE pending = << >>
      BY <1>2, <1>4, <2>2, <3>1, SizesType DEF AtCandidate
    <3>2. CASE pending # << >>
      BY <1>1, <2>1, <3>2 DEF WindowStart
    <3> QED BY <3>1, <3>2
  <2> QED BY <2>2, <2>3
<1> QED BY <1>2, <1>3, <1>4

\* What the proof of every action starts from.
LEMMA StateFacts ==
    ASSUME IInv
    PROVE  /\ stream.len \in Nat /\ end \in Nat /\ cursor \in Nat
           /\ cursor <= end /\ end <= stream.len
           /\ pending \in Seq(Nat) /\ initial_offset \in Nat
           /\ initial_sync_failed \in BOOLEAN
  BY StreamsAssumption DEF IInv, TypeOK

\* A piece of the stream before n has the type of the buffer, and of a packet.
LEMMA BytesInStream ==
    ASSUME IInv, NEW b \in Nat, NEW c \in Nat, b <= c, c <= end
    PROVE  Bytes(b, c) \in Seq(0..(stream.len - 1))
<1>1. stream.len \in Nat /\ c <= stream.len
  BY StateFacts
<1> QED BY <1>1, BytesProperties

\* A read starts a fresh chunk of 1..ChunkSize bytes at the stream position read so far.
LEMMA ReadPreservesIInv ==
    ASSUME IInv, NEW n \in 1..ChunkSize, Read(n)
    PROVE  IInv'
<1>1. n \in Nat /\ n > 0
  BY ChunkSizeAssumption
<1>2. TypeOK'
  BY <1>1, StateFacts DEF IInv, TypeOK, Read
<1> QED BY <1>1, <1>2, StateFacts
        DEF IInv, Read, ChunkBounds, Running, PendingIsContiguous, PendingFits,
            CandidateAtFront, InitialOffsetIsCandidate, InitialSync, IsSync, kSyncProbeSize

\* End of input ends the run and leaves the buffer alone.
LEMMA ReadEofPreservesIInv ==
    ASSUME IInv, ReadEof
    PROVE  IInv'
<1>1. TypeOK'
  BY StateFacts DEF IInv, TypeOK, ReadEof
<1>2. ~Running' /\ ChunkBounds'
  BY DEF ReadEof, Running, ChunkBounds
<1> QED BY <1>1, <1>2
        DEF IInv, PendingIsContiguous, PendingFits, CandidateAtFront,
            InitialOffsetIsCandidate

\* So does a read error.
LEMMA ReadErrorPreservesIInv ==
    ASSUME IInv, ReadError
    PROVE  IInv'
<1>1. TypeOK'
  BY DEF IInv, TypeOK, ReadError
<1>2. ~Running' /\ ChunkBounds'
  BY DEF ReadError, Running, ChunkBounds
<1> QED BY <1>1, <1>2
        DEF IInv, PendingIsContiguous, PendingFits, CandidateAtFront,
            InitialOffsetIsCandidate

\* A failed initial search ends the run and leaves the buffer alone.
LEMMA InitialScanFailsPreservesIInv ==
    ASSUME IInv, InitialScanFails
    PROVE  IInv'
<1>1. initial_offset' \in Nat
  BY StateFacts DEF InitialScanFails, OffsetAfter
<1>2. TypeOK'
  BY <1>1 DEF IInv, TypeOK, InitialScanFails, Stop
<1>3. ~Running' /\ ChunkBounds'
  BY DEF InitialScanFails, Stop, Running, ChunkBounds
<1> QED BY <1>2, <1>3
        DEF IInv, PendingIsContiguous, PendingFits, CandidateAtFront,
            InitialOffsetIsCandidate

\* No candidate in the chunk: the buffer stays empty and the offset passes the chunk.
LEMMA ScanExhaustedPreservesIInv ==
    ASSUME IInv, ScanExhausted
    PROVE  IInv'
<1>1. InitialSync => initial_offset = cursor
  BY StateFacts DEF IInv, InitialOffsetIsCandidate, ScanExhausted, Seeking, Running
<1>2. initial_offset' \in Nat /\ (InitialSync => initial_offset' = end)
  BY <1>1, StateFacts DEF ScanExhausted, OffsetAfter
<1>3. TypeOK'
  BY <1>2, StateFacts DEF IInv, TypeOK, ScanExhausted, NeedMoreData
<1>4. ChunkBounds' /\ ~initial_sync_failed'
  BY DEF IInv, ScanExhausted, NeedMoreData, ChunkBounds, Seeking, Running
<1>5. pending' = << >> /\ cursor' = end /\ << >> = Bytes(end, end)
  BY StateFacts, BytesProperties DEF ScanExhausted, NeedMoreData
<1>6. PendingIsContiguous' /\ PendingFits' /\ CandidateAtFront'
  BY <1>5, SizesType, StateFacts
     DEF PendingIsContiguous, PendingFits, CandidateAtFront, kSyncProbeSize
<1>7. InitialOffsetIsCandidate'
  BY <1>2, <1>5, StateFacts, SizesType
     DEF ScanExhausted, InitialOffsetIsCandidate, InitialSync
<1> QED BY <1>3, <1>4, <1>6, <1>7 DEF IInv

\* A false candidate: what is left of the window starts at the next sync byte, and
\* the offset has grown by what was dropped; or the search is out of bounds.
LEMMA RejectCandidatePreservesIInv ==
    ASSUME IInv, RejectCandidate
    PROVE  IInv'
<1> DEFINE c(sync) == CopyEnd(sync, kSyncProbeSize)
           filled(sync) == Filled(sync, kSyncProbeSize)
<1>1. PICK sync \in cursor..end :
        /\ AtCandidate(sync)
        /\ \E k \in 1..(Len(filled(sync)) + 1) :
             /\ DiscardPendingUntilNextSync(filled(sync), k)
             /\ pending' = SubSeq(filled(sync), k, Len(filled(sync)))
             /\ initial_offset' = OffsetAfter((sync - cursor) + (k - 1))
        /\ IF InitialSync /\ initial_offset' >= PktSize
           THEN initial_sync_failed' = TRUE /\ Stop
           ELSE Continue(c(sync)) /\ UNCHANGED initial_sync_failed
        /\ UNCHANGED <<stream, mode, end, delivered>>
  BY DEF RejectCandidate
<1>2. PICK k \in 1..(Len(filled(sync)) + 1) :
        /\ DiscardPendingUntilNextSync(filled(sync), k)
        /\ pending' = SubSeq(filled(sync), k, Len(filled(sync)))
        /\ initial_offset' = OffsetAfter((sync - cursor) + (k - 1))
  BY <1>1
<1> DEFINE b == WindowStart(sync)
           e == c(sync)
           p == b + k - 1
<1>3. /\ b \in Nat /\ e \in Nat /\ b <= sync /\ sync < e /\ e <= end
      /\ filled(sync) = Bytes(b, e) /\ Len(filled(sync)) = e - b
      /\ e - b <= kSyncProbeSize
      /\ InitialSync => OffsetAfter(sync - cursor) = b
  BY <1>1, CandidateWindow
<1> HIDE DEF b, c
<1>4. /\ k \in 2..(e - b + 1)
      /\ k <= e - b => IsSync(Bytes(b, e)[k])
  BY <1>2, <1>3 DEF DiscardPendingUntilNextSync, Finds
<1>5. p \in Nat /\ p <= e /\ b < p
  BY <1>3, <1>4
<1>6. pending' = Bytes(p, e)
  <2>1. b <= e /\ k \in 1..(e - b + 1)
    BY <1>3, <1>4
  <2>2. SubSeq(Bytes(b, e), k, e - b) = Bytes(b + k - 1, e)
    BY <1>3, <2>1, BytesSuffix
  <2> QED BY <1>2, <1>3, <2>2
<1>7. InitialSync => initial_offset' = p
  <2>1. initial_offset' = OffsetAfter((sync - cursor) + (k - 1))
    BY <1>2
  <2>2. InitialSync => OffsetAfter(sync - cursor) = b
    BY <1>3
  <2>3. k \in Nat /\ sync \in Nat
    BY <1>3, <1>4, StateFacts
  <2> HIDE DEF b
  <2> QED BY <2>1, <2>2, <2>3, StateFacts DEF OffsetAfter
<1> HIDE DEF p, e
<1>8. initial_offset' \in Nat
  BY <1>2, <1>5, <1>7, StateFacts DEF OffsetAfter
<1>9. pending' \in Seq(0..(stream.len - 1)) /\ Len(pending') = e - p
      /\ (pending' # << >> => p < e)
  <2>1. Bytes(p, e) \in Seq(0..(stream.len - 1))
    BY <1>3, <1>5, BytesInStream
  <2>2. Len(Bytes(p, e)) = e - p /\ (Bytes(p, e) = << >> <=> p = e)
    BY <1>3, <1>5, BytesProperties
  <2> QED BY <1>3, <1>5, <1>6, <2>1, <2>2
<1>10. pending' # << >> => IsSync(pending'[1])
  <2>1. SUFFICES ASSUME pending' # << >> PROVE IsSync(pending'[1])
    OBVIOUS
  <2>2. k <= e - b
    BY <1>3, <1>4, <1>9, <2>1 DEF p
  <2>3. Bytes(b, e)[k] = p
    BY <1>3, <1>4, <2>2 DEF p, Bytes
  <2>4. pending'[1] = p
    BY <1>3, <1>5, <1>6, <1>9, <2>1 DEF Bytes
  <2> QED BY <1>4, <2>2, <2>3, <2>4
<1>11. CASE InitialSync /\ initial_offset' >= PktSize
  <2>1. TypeOK'
    BY <1>1, <1>8, <1>9, <1>11 DEF IInv, TypeOK, Stop
  <2>2. ~Running' /\ ChunkBounds'
    BY <1>1, <1>11 DEF Stop, Running, ChunkBounds
  <2> QED BY <2>1, <2>2 DEF IInv, PendingIsContiguous, PendingFits, CandidateAtFront,
                            InitialOffsetIsCandidate
<1>12. CASE ~(InitialSync /\ initial_offset' >= PktSize)
  <2>1. /\ cursor' = e /\ end' = end /\ mode' = mode /\ stream' = stream
        /\ status' = IF e = end THEN "reading" ELSE "feeding"
        /\ initial_sync_failed' = initial_sync_failed
    BY <1>1, <1>12 DEF Continue, e
  <2>2. TypeOK'
    BY <1>1, <1>3, <1>8, <1>9, <2>1, StateFacts DEF IInv, TypeOK
  <2>3. ChunkBounds' /\ ~initial_sync_failed'
    BY <1>1, <1>3, <2>1, StateFacts DEF IInv, ChunkBounds, AtCandidate, Seeking, Running
  <2>4. PendingIsContiguous'
    <3>1. cursor' - Len(pending') = p /\ Len(pending') <= cursor'
      BY <1>3, <1>5, <1>9, <2>1
    <3> QED BY <1>6, <2>1, <3>1 DEF PendingIsContiguous
  <2>5. PendingFits'
    BY <1>1, <1>3, <1>5, <1>9, <2>1, SizesType
       DEF PendingFits, AtCandidate, Seeking, kSyncProbeSize
  <2>6. CandidateAtFront'
    BY <1>10, <2>1 DEF CandidateAtFront, IsSync
  <2>7. InitialOffsetIsCandidate'
    BY <1>3, <1>5, <1>7, <1>8, <1>9, <1>12, <2>1, SizesType
       DEF InitialOffsetIsCandidate, InitialSync
  <2> QED BY <2>2, <2>3, <2>4, <2>5, <2>6, <2>7 DEF IInv
<1> QED BY <1>11, <1>12

\* The window is not full: the chunk is used up, the candidate stays in front.
LEMMA AwaitProbePreservesIInv ==
    ASSUME IInv, AwaitProbe
    PROVE  IInv'
<1> DEFINE c(sync) == CopyEnd(sync, kSyncProbeSize)
           filled(sync) == Filled(sync, kSyncProbeSize)
<1>1. PICK sync \in cursor..end :
        /\ AtCandidate(sync)
        /\ Len(filled(sync)) < kSyncProbeSize
        /\ pending' = filled(sync)
        /\ initial_offset' = OffsetAfter(sync - cursor)
        /\ NeedMoreData
        /\ UNCHANGED <<stream, mode, initial_sync_failed, end, delivered>>
  BY DEF AwaitProbe
<1> DEFINE b == WindowStart(sync)
<1>2. /\ b \in Nat /\ b < end /\ c(sync) = end
      /\ filled(sync) = Bytes(b, end) /\ end - b < kSyncProbeSize
      /\ IsSync(b)
      /\ InitialSync => OffsetAfter(sync - cursor) = b /\ b < PktSize
  BY <1>1, CandidateWindow, SizesType, StateFacts
<1> HIDE DEF b, c
<1>3. pending' = Bytes(b, end) /\ cursor' = end /\ end' = end /\ status' = "reading"
  BY <1>1, <1>2 DEF NeedMoreData
<1>4. /\ Bytes(b, end) \in Seq(0..(stream.len - 1))
      /\ Len(Bytes(b, end)) = end - b
      /\ Bytes(b, end)[1] = b
  <2>1. b \in Nat /\ end \in Nat /\ b <= end /\ 1 \in 1..(end - b)
    BY <1>2, StateFacts
  <2>2. Len(Bytes(b, end)) = end - b
    BY <2>1, BytesProperties
  <2>3. Bytes(b, end)[1] = b
    BY <2>1 DEF Bytes
  <2>4. Bytes(b, end) \in Seq(0..(stream.len - 1))
    BY <2>1, BytesInStream
  <2> QED BY <2>2, <2>3, <2>4
<1>5. initial_offset' \in Nat /\ (InitialSync => initial_offset' = b)
  BY <1>1, <1>2, StateFacts DEF OffsetAfter
<1>6. TypeOK'
  BY <1>1, <1>3, <1>4, <1>5, StateFacts DEF IInv, TypeOK
<1>7. ChunkBounds' /\ ~initial_sync_failed'
  BY <1>1, <1>3 DEF IInv, ChunkBounds, AtCandidate, Seeking, Running
<1>8. PendingIsContiguous'
  <2>1. cursor' - Len(pending') = b /\ Len(pending') <= cursor'
    BY <1>2, <1>3, <1>4, StateFacts
  <2> QED BY <1>3, <2>1 DEF PendingIsContiguous
<1>9. PendingFits' /\ CandidateAtFront'
  BY <1>1, <1>2, <1>3, <1>4
     DEF PendingFits, CandidateAtFront, AtCandidate, Seeking, IsSync, kSyncProbeSize
<1>10. InitialOffsetIsCandidate'
  BY <1>1, <1>2, <1>3, <1>4, <1>5, StateFacts, SizesType
     DEF InitialOffsetIsCandidate, InitialSync
<1> QED BY <1>6, <1>7, <1>8, <1>9, <1>10 DEF IInv

\* The window is emitted whole, or up to the packet that is refused; the buffer is
\* empty either way.
LEMMA ConfirmSyncPreservesIInv ==
    ASSUME IInv, ConfirmSync
    PROVE  IInv'
<1> DEFINE c(sync) == CopyEnd(sync, kSyncProbeSize)
           filled(sync) == Filled(sync, kSyncProbeSize)
<1>1. PICK sync \in cursor..end :
        /\ AtCandidate(sync)
        /\ Len(filled(sync)) = kSyncProbeSize
        /\ pending' = << >>
        /\ initial_offset' = OffsetAfter(sync - cursor)
        /\ \/ /\ delivered' = delivered \o ProbePackets(filled(sync), SyncProbePackets)
              /\ mode' = "kSynced"
              /\ Continue(c(sync))
           \/ /\ \E k \in 1..SyncProbePackets :
                   delivered' = delivered \o ProbePackets(filled(sync), k)
              /\ UNCHANGED mode
              /\ Stop
        /\ UNCHANGED <<stream, initial_sync_failed, end>>
  BY DEF ConfirmSync
<1> DEFINE b == WindowStart(sync)
           e == c(sync)
<1>2. /\ b \in Nat /\ e \in Nat /\ e <= end /\ e = b + kSyncProbeSize
      /\ filled(sync) = Bytes(b, e)
      /\ InitialSync => OffsetAfter(sync - cursor) = b
  BY <1>1, CandidateWindow, SizesType, StateFacts
<1> HIDE DEF b, e
<1>3. ASSUME NEW k \in 1..SyncProbePackets
      PROVE  ProbePackets(filled(sync), k) \in Seq(Seq(0..(stream.len - 1)))
  <2>1. k \in Nat
    BY SyncProbePacketsAssumption
  <2>2. ASSUME NEW j \in 1..k
        PROVE  Bytes(b + (j - 1) * PktSize, b + j * PktSize) \in Seq(0..(stream.len - 1))
    <3>1. j \in 1..SyncProbePackets
      BY SyncProbePacketsAssumption
    <3> DEFINE m == (j - 1) * PktSize
               n == j * PktSize
               from == b + m
               to == b + n
    <3>2. m \in Nat /\ n \in Nat /\ n = m + PktSize /\ n <= kSyncProbeSize
      BY <3>1, PacketInWindow
    <3> HIDE DEF m, n
    <3>3. from \in Nat /\ to \in Nat /\ from <= to /\ to <= end
      BY <1>2, <3>2, SizesType, StateFacts
    <3> HIDE DEF from, to
    <3>4. Bytes(from, to) \in Seq(0..(stream.len - 1))
      BY <3>3, BytesInStream
    <3> QED BY <3>4 DEF from, to, m, n
  <2>3. ProbePackets(filled(sync), k)
          = [j \in 1..k |-> Bytes(b + (j - 1) * PktSize, b + j * PktSize)]
    BY <1>2, ProbePacketsAreBytes
  <2> QED BY <2>1, <2>2, <2>3
<1>4. delivered' \in Seq(Seq(0..(stream.len - 1)))
  <2>0. SyncProbePackets \in 1..SyncProbePackets
    BY SyncProbePacketsAssumption
  <2>1. \E k \in 1..SyncProbePackets : delivered' = delivered \o ProbePackets(filled(sync), k)
    BY <1>1, <2>0, Zenon
  <2>2. delivered \in Seq(Seq(0..(stream.len - 1)))
    BY DEF IInv, TypeOK
  <2> HIDE DEF filled
  <2> QED BY <1>3, <2>1, <2>2, ConcatProperties
<1>5. initial_offset' \in Nat
  BY <1>1, <1>2, StateFacts DEF OffsetAfter
<1>6. Bytes(e, e) = << >>
  BY <1>2, BytesProperties
<1>7. CASE Continue(c(sync)) /\ mode' = "kSynced"
  <2>1. /\ cursor' = e /\ end' = end /\ stream' = stream
        /\ status' = IF e = end THEN "reading" ELSE "feeding"
        /\ initial_sync_failed' = initial_sync_failed
    BY <1>1, <1>7 DEF Continue, e
  <2>2. TypeOK'
    BY <1>1, <1>2, <1>4, <1>5, <1>7, <2>1, StateFacts DEF IInv, TypeOK
  <2>3. ChunkBounds' /\ ~initial_sync_failed'
    BY <1>1, <1>2, <2>1, StateFacts DEF IInv, ChunkBounds, AtCandidate, Seeking, Running
  <2>4. PendingIsContiguous' /\ PendingFits' /\ CandidateAtFront' /\ InitialOffsetIsCandidate'
    BY <1>1, <1>2, <1>6, <1>7, <2>1, SizesType
       DEF PendingIsContiguous, PendingFits, CandidateAtFront, InitialOffsetIsCandidate,
           InitialSync
  <2> QED BY <2>2, <2>3, <2>4 DEF IInv
<1>8. CASE Stop /\ UNCHANGED mode
  <2>1. TypeOK'
    BY <1>1, <1>4, <1>5, <1>8 DEF IInv, TypeOK, Stop
  <2>2. ~Running' /\ ChunkBounds'
    BY <1>8 DEF Stop, Running, ChunkBounds
  <2> QED BY <2>1, <2>2 DEF IInv, PendingIsContiguous, PendingFits, CandidateAtFront,
                            InitialOffsetIsCandidate
<1> QED BY <1>1, <1>7, <1>8

\* The split packet grows by what the chunk has of it; whole, it leaves the buffer.
LEMMA CompleteSplitPacketPreservesIInv ==
    ASSUME IInv, CompleteSplitPacket
    PROVE  IInv'
<1> DEFINE filled == Filled(cursor, PktSize)
           b == WindowStart(cursor)
           e == CopyEnd(cursor, PktSize)
<1>1. /\ Synced /\ pending # << >>
      /\ UNCHANGED <<stream, mode, initial_offset, initial_sync_failed, end>>
      /\ ~initial_sync_failed /\ mode = "kSynced"
      /\ IsSync(pending[1]) /\ Len(pending) > 0
      /\ pending \in Seq(Nat) /\ Len(pending) <= cursor /\ Len(pending) < PktSize
      /\ pending = Bytes(cursor - Len(pending), cursor)
  BY StateFacts
     DEF CompleteSplitPacket, Synced, IInv, Running, CandidateAtFront, PendingFits,
         PendingIsContiguous
<1>2. /\ b \in Nat /\ e \in Nat /\ b < cursor /\ cursor <= e /\ e <= end
      /\ filled = Bytes(b, e) /\ Len(filled) = e - b
      /\ e - b <= PktSize
      /\ e - b < PktSize => e = end
  <2>1. /\ b \in Nat /\ e \in Nat /\ b <= cursor /\ cursor <= e /\ e <= end
        /\ filled = Bytes(b, e) /\ Len(filled) = e - b
        /\ e - b <= PktSize
        /\ e - b < PktSize => e = end
    BY <1>1, StateFacts, SizesType, FilledIsContiguous
  <2>2. b < cursor
    BY <1>1, StateFacts DEF WindowStart
  <2> QED BY <2>1, <2>2
<1>3. pending[1] = b /\ Bytes(b, e)[1] = b
  BY <1>1, <1>2, StateFacts DEF Bytes, WindowStart
<1>4. CASE Len(filled) < PktSize
  <2>1. /\ pending' = Bytes(b, e) /\ cursor' = end /\ status' = "reading" /\ e = end
        /\ delivered' = delivered
    BY <1>2, <1>4 DEF CompleteSplitPacket, NeedMoreData
  <2> HIDE DEF b, e, filled
  <2>2. pending' \in Seq(0..(stream.len - 1)) /\ Len(pending') = end - b
    BY <1>2, <2>1, BytesInStream
  <2>3. TypeOK'
    BY <1>1, <2>1, <2>2, StateFacts DEF IInv, TypeOK
  <2>4. PendingIsContiguous'
    <3>1. cursor' - Len(pending') = b /\ Len(pending') <= cursor'
      BY <1>2, <2>1, <2>2, StateFacts
    <3> QED BY <2>1, <3>1 DEF PendingIsContiguous
  <2>5. PendingFits' /\ CandidateAtFront' /\ InitialOffsetIsCandidate' /\ ChunkBounds'
    BY <1>1, <1>2, <1>3, <1>4, <2>1, <2>2
       DEF PendingFits, CandidateAtFront, InitialOffsetIsCandidate, InitialSync, IsSync,
           ChunkBounds
  <2> QED BY <1>1, <2>3, <2>4, <2>5 DEF IInv
<1>5. CASE ~(Len(filled) < PktSize)
  <2>1. /\ pending' = << >> /\ delivered' = Append(delivered, filled)
        /\ Continue(e) \/ Stop
    BY <1>5 DEF CompleteSplitPacket
  <2> HIDE DEF b, filled
  <2>2. delivered' \in Seq(Seq(0..(stream.len - 1)))
    <3>1. filled \in Seq(0..(stream.len - 1))
      BY <1>2, BytesInStream, StateFacts
    <3>2. delivered \in Seq(Seq(0..(stream.len - 1)))
      BY DEF IInv, TypeOK
    <3> QED BY <2>1, <3>1, <3>2
  <2>3. Bytes(e, e) = << >>
    BY <1>2, BytesProperties
  <2>4. CASE Continue(e)
    <3>1. cursor' = e /\ status' = IF e = end THEN "reading" ELSE "feeding"
      BY <2>4 DEF Continue
    <3> HIDE DEF e
    <3>2. TypeOK'
      BY <1>1, <1>2, <2>1, <2>2, <3>1, StateFacts DEF IInv, TypeOK
    <3>3. ChunkBounds'
      BY <1>1, <1>2, <3>1, StateFacts DEF ChunkBounds
    <3>4. PendingIsContiguous' /\ PendingFits' /\ CandidateAtFront' /\ InitialOffsetIsCandidate'
      BY <1>1, <1>2, <2>1, <2>3, <3>1, SizesType
         DEF PendingIsContiguous, PendingFits, CandidateAtFront, InitialOffsetIsCandidate,
             InitialSync
    <3> QED BY <1>1, <3>2, <3>3, <3>4 DEF IInv
  <2>5. CASE Stop
    <3>1. TypeOK'
      BY <1>1, <2>1, <2>2, <2>5 DEF IInv, TypeOK, Stop
    <3>2. ~Running' /\ ChunkBounds'
      BY <2>5 DEF Stop, Running, ChunkBounds
    <3> QED BY <3>1, <3>2 DEF IInv, PendingIsContiguous, PendingFits, CandidateAtFront,
                              InitialOffsetIsCandidate
  <2> QED BY <2>1, <2>4, <2>5
<1> QED BY <1>4, <1>5

\* Losing sync happens with an empty buffer, and hands the rest of the chunk to the search.
LEMMA LoseSyncPreservesIInv ==
    ASSUME IInv, LoseSync
    PROVE  IInv'
<1>1. /\ cursor < end /\ cursor' = cursor /\ status' = "feeding" /\ mode' = "kSeekingSync"
      /\ pending = << >> /\ ~initial_sync_failed
      /\ UNCHANGED <<stream, pending, initial_offset, initial_sync_failed, end, delivered>>
  BY StateFacts DEF LoseSync, Synced, Continue, IInv, ChunkBounds, Running
<1>2. TypeOK' /\ ChunkBounds'
  BY <1>1 DEF IInv, TypeOK, ChunkBounds
<1>3. Bytes(cursor, cursor) = << >>
  BY StateFacts, BytesProperties
<1>4. PendingIsContiguous' /\ PendingFits' /\ CandidateAtFront' /\ InitialOffsetIsCandidate'
  BY <1>1, <1>3, SizesType, StateFacts
     DEF PendingIsContiguous, PendingFits, CandidateAtFront, InitialOffsetIsCandidate,
         InitialSync, kSyncProbeSize
<1> QED BY <1>1, <1>2, <1>4 DEF IInv

\* The head of a split packet goes to the buffer, its sync byte in front.
LEMMA BufferPartialPacketPreservesIInv ==
    ASSUME IInv, BufferPartialPacket
    PROVE  IInv'
<1>1. /\ cursor < end /\ cursor' = end /\ status' = "reading" /\ mode = "kSynced"
      /\ pending' = Bytes(cursor, end) /\ end - cursor < PktSize
      /\ IsSync(cursor) /\ ~initial_sync_failed
      /\ UNCHANGED <<stream, mode, initial_offset, initial_sync_failed, end, delivered>>
  BY DEF BufferPartialPacket, Synced, NeedMoreData, IInv, ChunkBounds, Running
<1>2. /\ Bytes(cursor, end) \in Seq(0..(stream.len - 1))
      /\ Len(Bytes(cursor, end)) = end - cursor
      /\ Bytes(cursor, end)[1] = cursor
  <2>1. cursor \in Nat /\ end \in Nat /\ cursor <= end /\ 1 \in 1..(end - cursor)
    BY <1>1, StateFacts
  <2>2. Len(Bytes(cursor, end)) = end - cursor
    BY <2>1, BytesProperties
  <2>3. Bytes(cursor, end)[1] = cursor
    BY <2>1 DEF Bytes
  <2>4. Bytes(cursor, end) \in Seq(0..(stream.len - 1))
    BY <2>1, BytesInStream
  <2> QED BY <2>2, <2>3, <2>4
<1>3. TypeOK' /\ ChunkBounds'
  BY <1>1, <1>2, StateFacts DEF IInv, TypeOK, ChunkBounds
<1>4. PendingIsContiguous'
  <2>1. cursor' - Len(pending') = cursor /\ Len(pending') <= cursor'
    BY <1>1, <1>2, StateFacts
  <2> QED BY <1>1, <2>1 DEF PendingIsContiguous
<1>5. PendingFits' /\ CandidateAtFront' /\ InitialOffsetIsCandidate'
  BY <1>1, <1>2
     DEF PendingFits, CandidateAtFront, InitialOffsetIsCandidate, InitialSync, IsSync
<1> QED BY <1>1, <1>3, <1>4, <1>5 DEF IInv

\* A packet emitted straight from the chunk leaves the buffer empty.
LEMMA EmitFromChunkPreservesIInv ==
    ASSUME IInv, EmitFromChunk
    PROVE  IInv'
<1> DEFINE e == cursor + PktSize
<1>1. /\ cursor < end /\ mode = "kSynced" /\ pending = << >> /\ ~initial_sync_failed
      /\ e \in Nat /\ e <= end /\ cursor <= e
      /\ delivered' = Append(delivered, Bytes(cursor, e))
      /\ Continue(e) \/ Stop
      /\ UNCHANGED <<stream, mode, pending, initial_offset, initial_sync_failed, end>>
  BY StateFacts, SizesType DEF EmitFromChunk, Synced, IInv, ChunkBounds, Running
<1> HIDE DEF e
<1>2. delivered' \in Seq(Seq(0..(stream.len - 1)))
  <2>1. Bytes(cursor, e) \in Seq(0..(stream.len - 1))
    BY <1>1, StateFacts, BytesInStream
  <2>2. delivered \in Seq(Seq(0..(stream.len - 1)))
    BY DEF IInv, TypeOK
  <2> QED BY <1>1, <2>1, <2>2
<1>3. Bytes(e, e) = << >>
  BY <1>1, BytesProperties
<1>4. CASE Continue(e)
  <2>1. cursor' = e /\ status' = IF e = end THEN "reading" ELSE "feeding"
    BY <1>4 DEF Continue
  <2>2. TypeOK'
    BY <1>1, <1>2, <2>1, StateFacts DEF IInv, TypeOK
  <2>3. ChunkBounds'
    BY <1>1, <2>1, StateFacts DEF ChunkBounds
  <2>4. PendingIsContiguous' /\ PendingFits' /\ CandidateAtFront' /\ InitialOffsetIsCandidate'
    BY <1>1, <1>3, <2>1, SizesType
       DEF PendingIsContiguous, PendingFits, CandidateAtFront, InitialOffsetIsCandidate,
           InitialSync
  <2> QED BY <1>1, <2>2, <2>3, <2>4 DEF IInv
<1>5. CASE Stop
  <2>1. TypeOK'
    BY <1>1, <1>2, <1>5 DEF IInv, TypeOK, Stop
  <2>2. ~Running' /\ ChunkBounds'
    BY <1>5 DEF Stop, Running, ChunkBounds
  <2> QED BY <2>1, <2>2 DEF IInv, PendingIsContiguous, PendingFits, CandidateAtFront,
                            InitialOffsetIsCandidate
<1> QED BY <1>1, <1>4, <1>5

(***************************************************************************)
(* The theorems.                                                           *)
(***************************************************************************)

\* Every state of every run, for every size and input.
THEOREM Invariance == Spec => []IInv
<1>1. Init => IInv
  <2> SUFFICES ASSUME Init PROVE IInv
    OBVIOUS
  <2>1. stream \in Streams /\ stream.len \in Nat
    BY StreamsAssumption DEF Init
  <2>2. mode = "kInitialSync" /\ status = "reading"
    BY DEF Init
  <2>3. initial_sync_failed \in BOOLEAN /\ ~initial_sync_failed
    BY DEF Init
  <2>4. pending = << >> /\ delivered = << >>
    BY DEF Init
  <2>5. initial_offset = 0 /\ cursor = 0 /\ end = 0
    BY DEF Init
  <2> HIDE DEF Init
  <2>6. pending \in Seq(0..(stream.len - 1)) /\ Len(pending) = 0
        /\ delivered \in Seq(Seq(0..(stream.len - 1)))
    BY <2>4, EmptySeq
  <2>7. TypeOK /\ ChunkBounds
    BY <2>1, <2>2, <2>3, <2>5, <2>6 DEF TypeOK, ChunkBounds
  <2>8. Bytes(0, 0) = << >> /\ cursor - Len(pending) = 0
    BY <2>5, <2>6, BytesProperties
  <2>9. PendingIsContiguous /\ PendingFits /\ CandidateAtFront /\ InitialOffsetIsCandidate
    BY <2>2, <2>4, <2>5, <2>6, <2>8, SizesType
       DEF PendingIsContiguous, PendingFits, CandidateAtFront, InitialOffsetIsCandidate
  <2> QED BY <2>3, <2>7, <2>9 DEF IInv
<1>2. IInv /\ [Next]_vars => IInv'
  <2> SUFFICES ASSUME IInv, [Next]_vars PROVE IInv'
    OBVIOUS
  <2>1. CASE \E n \in 1..ChunkSize : Read(n)
    BY <2>1, ReadPreservesIInv
  <2>2. CASE ReadEof
    BY <2>2, ReadEofPreservesIInv
  <2>3. CASE ReadError
    BY <2>3, ReadErrorPreservesIInv
  <2>4. CASE InitialScanFails
    BY <2>4, InitialScanFailsPreservesIInv
  <2>5. CASE ScanExhausted
    BY <2>5, ScanExhaustedPreservesIInv
  <2>6. CASE RejectCandidate
    BY <2>6, RejectCandidatePreservesIInv
  <2>7. CASE AwaitProbe
    BY <2>7, AwaitProbePreservesIInv
  <2>8. CASE ConfirmSync
    BY <2>8, ConfirmSyncPreservesIInv
  <2>9. CASE CompleteSplitPacket
    BY <2>9, CompleteSplitPacketPreservesIInv
  <2>10. CASE LoseSync
    BY <2>10, LoseSyncPreservesIInv
  <2>11. CASE BufferPartialPacket
    BY <2>11, BufferPartialPacketPreservesIInv
  <2>12. CASE EmitFromChunk
    BY <2>12, EmitFromChunkPreservesIInv
  <2>13. CASE UNCHANGED vars
    BY <2>13 DEF vars, IInv, TypeOK, ChunkBounds, Running, PendingIsContiguous, PendingFits,
                 CandidateAtFront, InitialOffsetIsCandidate, InitialSync, IsSync
  <2> QED BY <2>1, <2>2, <2>3, <2>4, <2>5, <2>6, <2>7, <2>8, <2>9, <2>10, <2>11, <2>12, <2>13
          DEF Next, FeedStep, ReadStep
<1> QED BY <1>1, <1>2, PTL DEF Spec

\* Type correctness of PacketFramer's state.
THEOREM TypeCorrect == Spec => []TypeOK
<1>1. IInv => TypeOK
  BY DEF IInv
<1> QED BY <1>1, Invariance, PTL

\* pending_ is the piece of the stream just before the cursor: chunk boundaries,
\* discards and changes of mode lose, repeat and misplace no byte.
THEOREM NoByteLost == Spec => []PendingIsContiguous
<1>1. IInv => PendingIsContiguous
  BY DEF IInv
<1> QED BY <1>1, Invariance, PTL

\* `needed` never wraps and no memcpy leaves pending_.
THEOREM BufferNeverOverruns == Spec => []PendingFits
<1>1. IInv => PendingFits
  BY DEF IInv
<1> QED BY <1>1, Invariance, PTL

\* Buffering always starts at a sync byte.
THEOREM BufferStartsAtCandidate == Spec => []CandidateAtFront
<1>1. IInv => CandidateAtFront
  BY DEF IInv
<1> QED BY <1>1, Invariance, PTL

\* initial_offset_ is the candidate's offset, and the initial search is bounded.
THEOREM InitialSearchIsBounded == Spec => []InitialOffsetIsCandidate
<1>1. IInv => InitialOffsetIsCandidate
  BY DEF IInv
<1> QED BY <1>1, Invariance, PTL

-----------------------------------------------------------------------------
(***************************************************************************)
(* The handler sees whole packets in stream order.  IInv speaks of the     *)
(* bytes still in the buffer; what is added here is that no packet reaches *)
(* past them.                                                              *)
(***************************************************************************)

(***************************************************************************)
(* Sequences of packets, apart from the framer's state: `sync` is the set  *)
(* of offsets that hold the sync byte.                                     *)
(***************************************************************************)

IsPacket(p, sync) ==
    /\ Len(p) = PktSize
    /\ p[1] \in sync
    /\ p = Bytes(p[1], p[1] + PktSize)

InOrder(ps) == \A j \in 1..(Len(ps) - 1) : ps[j][1] + PktSize <= ps[j + 1][1]

Packets(ps, sync) == (\A j \in 1..Len(ps) : IsPacket(ps[j], sync)) /\ InOrder(ps)

\* The last packet ends at or before n.
EndsBy(ps, n) == ps # << >> => ps[Len(ps)][1] + PktSize <= n

\* A piece of PktSize bytes that starts with a sync byte is a packet.
LEMMA PieceIsPacket ==
    ASSUME NEW sync, NEW b \in Nat, b \in sync
    PROVE  /\ IsPacket(Bytes(b, b + PktSize), sync)
           /\ Bytes(b, b + PktSize)[1] = b
           /\ Bytes(b, b + PktSize) \in Seq(Nat)
<1>1. b + PktSize \in Nat /\ b <= b + PktSize /\ 1 \in 1..(b + PktSize - b)
  BY SizesType
<1>2. Len(Bytes(b, b + PktSize)) = PktSize
  BY <1>1, SizesType, BytesProperties
<1>3. Bytes(b, b + PktSize)[1] = b
  BY <1>1, SizesType DEF Bytes
<1>4. Bytes(b, b + PktSize) \in Seq(Nat)
  BY <1>1, BytesProperties
<1> QED BY <1>2, <1>3, <1>4 DEF IsPacket

\* Packets that start where the earlier ones have ended continue the sequence.
LEMMA PacketsConcat ==
    ASSUME NEW sync, NEW n \in Nat, NEW m \in Nat,
           NEW ps \in Seq(Seq(Nat)), NEW qs \in Seq(Seq(Nat)), qs # << >>,
           Packets(ps, sync), EndsBy(ps, n), Packets(qs, sync), EndsBy(qs, m),
           n <= qs[1][1]
    PROVE  Packets(ps \o qs, sync) /\ EndsBy(ps \o qs, m)
<1> DEFINE a == Len(ps)
           c == Len(qs)
           rs == ps \o qs
<1>1. a \in Nat /\ c \in Nat /\ 1 <= c
  BY EmptySeq
<1>2. /\ rs \in Seq(Seq(Nat)) /\ Len(rs) = a + c
      /\ \A i \in 1..(a + c) : rs[i] = IF i <= a THEN ps[i] ELSE qs[i - a]
  BY ConcatProperties
<1> HIDE DEF a, c, rs
<1>3. ASSUME NEW i \in 1..a
      PROVE  rs[i] = ps[i] /\ IsPacket(ps[i], sync) /\ ps[i] \in Seq(Nat)
  <2>1. i \in 1..(a + c) /\ i <= a
    BY <1>1
  <2>2. rs[i] = ps[i]
    BY <1>2, <2>1
  <2> QED BY <2>2 DEF Packets, a
<1>4. ASSUME NEW i \in 1..c
      PROVE  rs[a + i] = qs[i] /\ IsPacket(qs[i], sync) /\ qs[i] \in Seq(Nat)
  <2>1. a + i \in 1..(a + c) /\ ~(a + i <= a) /\ (a + i) - a = i
    BY <1>1
  <2>2. rs[a + i] = qs[(a + i) - a]
    BY <1>2, <2>1
  <2> QED BY <2>1, <2>2 DEF Packets, c
<1>5. ASSUME NEW j \in 1..(a + c)
      PROVE  IsPacket(rs[j], sync)
  <2>1. CASE j \in 1..a
    BY <1>3, <2>1
  <2>2. CASE j \notin 1..a
    <3> DEFINE i == j - a
    <3>1. i \in 1..c /\ j = a + i
      BY <1>1, <2>2
    <3> HIDE DEF i
    <3> QED BY <1>4, <3>1
  <2> QED BY <2>1, <2>2
<1>6. ASSUME NEW j \in 1..(a + c - 1)
      PROVE  rs[j][1] + PktSize <= rs[j + 1][1]
  <2>1. CASE j \in 1..(a - 1)
    <3>1. j \in 1..a /\ j + 1 \in 1..a
      BY <1>1, <2>1
    <3>2. rs[j] = ps[j] /\ rs[j + 1] = ps[j + 1]
      BY <1>3, <3>1
    <3>3. ps[j][1] + PktSize <= ps[j + 1][1]
      BY <2>1 DEF Packets, InOrder, a
    <3> QED BY <3>2, <3>3
  <2>2. CASE j = a
    <3>1. a \in 1..a /\ 1 \in 1..c
      BY <1>1, <2>2
    <3>2. rs[j] = ps[a] /\ rs[j + 1] = qs[1]
      BY <1>3, <1>4, <2>2, <3>1
    <3>3. ps[a][1] + PktSize <= n
      BY <1>1, <3>1 DEF EndsBy, a
    <3>4. ps[a][1] \in Nat /\ qs[1][1] \in Nat
      <4>1. 1 \in 1..PktSize
        BY SizesType
      <4>2. Len(ps[a]) = PktSize /\ ps[a] \in Seq(Nat)
        BY <1>3, <3>1 DEF IsPacket
      <4>3. Len(qs[1]) = PktSize /\ qs[1] \in Seq(Nat)
        BY <1>4, <3>1 DEF IsPacket
      <4>4. \A p \in Seq(Nat) : Len(p) = PktSize => p[1] \in Nat
        BY <4>1
      <4> QED BY <4>2, <4>3, <4>4
    <3> DEFINE x == ps[a][1]
               y == qs[1][1]
    <3>5. x \in Nat /\ y \in Nat /\ PktSize \in Nat /\ x + PktSize <= n /\ n <= y
      BY <3>3, <3>4, SizesType
    <3>6. x + PktSize <= y
      <4> HIDE DEF x, y
      <4> QED BY <3>5
    <3> QED BY <3>2, <3>6
  <2>3. CASE j \notin 1..a
    <3> DEFINE i == j - a
    <3>1. i \in 1..(c - 1) /\ i \in 1..c /\ i + 1 \in 1..c /\ j = a + i /\ j + 1 = a + (i + 1)
      BY <1>1, <2>3
    <3> HIDE DEF i
    <3>2. rs[j] = qs[i] /\ rs[j + 1] = qs[i + 1]
      BY <1>4, <3>1
    <3>3. qs[i][1] + PktSize <= qs[i + 1][1]
      BY <3>1 DEF Packets, InOrder, c
    <3> QED BY <3>2, <3>3
  <2> QED BY <1>1, <2>1, <2>2, <2>3
<1>7. rs[a + c] = qs[c]
  BY <1>1, <1>4
<1>8. EndsBy(rs, m)
  BY <1>1, <1>2, <1>7 DEF EndsBy, c
<1>9. Packets(rs, sync)
  <2>1. Len(rs) = a + c
    BY <1>2
  <2>2. \A j \in 1..Len(rs) : IsPacket(rs[j], sync)
    BY <1>5, <2>1
  <2>3. InOrder(rs)
    <3>1. ASSUME NEW j \in 1..(Len(rs) - 1)
          PROVE  rs[j][1] + PktSize <= rs[j + 1][1]
      <4>1. Len(rs) - 1 = a + c - 1
        BY <1>1, <2>1
      <4> QED BY <1>6, <4>1
    <3> QED BY <3>1 DEF InOrder
  <2> QED BY <2>2, <2>3 DEF Packets
<1> QED BY <1>8, <1>9 DEF rs

\* One more packet.
LEMMA PacketsAppend ==
    ASSUME NEW sync, NEW n \in Nat, NEW b \in Nat, n <= b, b \in sync,
           NEW ps \in Seq(Seq(Nat)), Packets(ps, sync), EndsBy(ps, n)
    PROVE  /\ Packets(Append(ps, Bytes(b, b + PktSize)), sync)
           /\ EndsBy(Append(ps, Bytes(b, b + PktSize)), b + PktSize)
<1> DEFINE p == Bytes(b, b + PktSize)
<1>1. IsPacket(p, sync) /\ p[1] = b /\ p \in Seq(Nat)
  BY PieceIsPacket
<1> HIDE DEF p
<1>2. /\ <<p>> \in Seq(Seq(Nat)) /\ <<p>> # << >> /\ Len(<<p>>) = 1 /\ <<p>>[1] = p
      /\ b + PktSize \in Nat
  BY <1>1, SizesType
<1>3. Packets(<<p>>, sync)
  BY <1>1, <1>2 DEF Packets, InOrder
<1>4. EndsBy(<<p>>, b + PktSize) /\ n <= <<p>>[1][1]
  BY <1>1, <1>2, SizesType DEF EndsBy
<1>5. Append(ps, p) = ps \o <<p>>
  BY <1>1, AppendIsConcat
<1>6. Packets(ps \o <<p>>, sync) /\ EndsBy(ps \o <<p>>, b + PktSize)
  BY <1>2, <1>3, <1>4, PacketsConcat
<1> QED BY <1>5, <1>6 DEF p

\* The packets of a confirmed probe window: each boundary of it holds a sync byte.
LEMMA WindowIsPackets ==
    ASSUME NEW b \in Nat, NEW c \in Nat, c = b + kSyncProbeSize,
           PendingSyncBytesAreValid(Bytes(b, c)), NEW k \in 1..SyncProbePackets
    PROVE  LET qs == ProbePackets(Bytes(b, c), k)
           IN  /\ qs \in Seq(Seq(Nat)) /\ qs # << >> /\ qs[1][1] = b
               /\ Packets(qs, stream.sync)
               /\ EndsBy(qs, c)
<1> DEFINE o(j) == b + (j - 1) * PktSize
           qs == ProbePackets(Bytes(b, c), k)
<1>1. k \in Nat /\ 1 <= k /\ 1..k \subseteq 1..SyncProbePackets
  BY SyncProbePacketsAssumption
<1>2. ASSUME NEW j \in 1..k
      PROVE  /\ o(j) \in Nat /\ o(j) + PktSize = b + j * PktSize
             /\ o(j) + PktSize <= c /\ o(j) \in stream.sync
  <2> DEFINE at == (j - 1) * PktSize
  <2>1. /\ j \in 1..SyncProbePackets /\ j - 1 \in 0..(SyncProbePackets - 1)
    BY <1>1, SyncProbePacketsAssumption
  <2>2. /\ at \in Nat /\ j * PktSize = at + PktSize /\ at + PktSize <= kSyncProbeSize
    BY <2>1, PacketInWindow
  <2> HIDE DEF at
  <2>3. b <= c /\ Len(Bytes(b, c)) = c - b /\ at + 1 \in 1..(c - b)
    <3>1. b <= c /\ at + 1 \in 1..(c - b)
      BY <2>2, SizesType
    <3> QED BY <3>1, BytesProperties
  <2>4. Bytes(b, c)[at + 1] = b + at
    BY <2>2, <2>3 DEF Bytes
  <2>5. IsSync(Bytes(b, c)[at + 1])
    <3>1. Len(Bytes(b, c)) > at
      BY <2>2, <2>3
    <3> QED BY <2>1, <3>1 DEF PendingSyncBytesAreValid, at
  <2>6. o(j) = b + at
    BY DEF at
  <2> QED BY <2>2, <2>4, <2>5, <2>6, SizesType DEF IsSync
<1>3. ASSUME NEW j \in 1..k
      PROVE  qs[j] = Bytes(o(j), o(j) + PktSize)
  BY <1>2, ProbePacketsAreBytes
<1>4. Len(qs) = k
  BY <1>1 DEF ProbePackets
<1> HIDE DEF qs
<1>5. ASSUME NEW j \in 1..k
      PROVE  qs[j] \in Seq(Nat) /\ qs[j][1] = o(j) /\ IsPacket(qs[j], stream.sync)
  <2> HIDE DEF o
  <2> QED BY <1>2, <1>3, PieceIsPacket
<1>6. qs \in Seq(Seq(Nat)) /\ qs # << >>
  <2>1. qs = [j \in 1..k |-> qs[j]]
    BY DEF qs, ProbePackets
  <2>2. \A j \in 1..k : qs[j] \in Seq(Nat)
    BY <1>5
  <2>3. qs \in Seq(Seq(Nat))
    BY <1>1, <2>1, <2>2
  <2> QED BY <1>1, <1>4, <2>3
<1>7. qs[1][1] = b
  <2>1. 1 \in 1..k /\ o(1) = b
    BY <1>1, SizesType
  <2> QED BY <1>5, <2>1
<1>8. InOrder(qs)
  <2>1. ASSUME NEW j \in 1..(k - 1)
        PROVE  qs[j][1] + PktSize <= qs[j + 1][1]
    <3>1. j \in 1..k /\ j + 1 \in 1..k /\ (j + 1) - 1 = j
      BY <1>1
    <3>2. qs[j + 1][1] = b + j * PktSize
      BY <1>5, <3>1
    <3>3. qs[j][1] + PktSize = b + j * PktSize /\ b + j * PktSize \in Nat
      BY <1>2, <1>5, <3>1, SizesType
    <3> QED BY <3>2, <3>3
  <2> QED BY <1>4, <2>1 DEF InOrder
<1>9. EndsBy(qs, c)
  <2>1. k \in 1..k
    BY <1>1
  <2> QED BY <1>2, <1>4, <1>5, <2>1 DEF EndsBy
<1>10. Packets(qs, stream.sync)
  BY <1>4, <1>5, <1>8 DEF Packets
<1> QED BY <1>6, <1>7, <1>9, <1>10 DEF qs

(***************************************************************************)
(* The inductive invariant.                                                *)
(***************************************************************************)

\* The stream offset of the first byte not yet handed over or skipped.
Position == cursor - Len(pending)

PacketsInv ==
    /\ delivered \in Seq(Seq(Nat))
    /\ Packets(delivered, stream.sync)
    /\ Running => EndsBy(delivered, Position)

\* WholePacketsInOrder is what the invariant says of the packets.
LEMMA PacketsInvImplies ==
    ASSUME PacketsInv
    PROVE  WholePacketsInOrder
  BY DEF PacketsInv, Packets, InOrder, IsPacket, WholePacketsInOrder, IsSync

\* A position that moves forward stays past the last packet.
LEMMA EndsByLater ==
    ASSUME NEW ps \in Seq(Seq(Nat)), NEW sync \in SUBSET Nat, Packets(ps, sync),
           NEW n \in Nat, NEW m \in Nat, n <= m, EndsBy(ps, n)
    PROVE  EndsBy(ps, m)
<1> SUFFICES ASSUME ps # << >> PROVE ps[Len(ps)][1] + PktSize <= m
  BY DEF EndsBy
<1> DEFINE x == ps[Len(ps)][1]
<1>1. x + PktSize <= n
  BY DEF EndsBy
<1>2. Len(ps) \in 1..Len(ps)
  BY EmptySeq
<1>3. x \in Nat
  BY <1>2 DEF Packets, IsPacket
<1> HIDE DEF x
<1>4. x + PktSize <= m
  BY <1>1, <1>3, SizesType
<1> QED BY <1>4 DEF x

\* The position is an offset of the stream while framing goes on.
LEMMA PositionType ==
    ASSUME IInv, Running
    PROVE  Position \in Nat /\ Len(pending) \in Nat /\ stream.sync \in SUBSET Nat
<1>1. Len(pending) <= cursor /\ cursor \in Nat /\ Len(pending) \in Nat
  BY StateFacts DEF IInv, PendingIsContiguous
<1>2. stream.sync \in SUBSET Nat
  BY StreamsAssumption DEF IInv, TypeOK
<1> QED BY <1>1, <1>2 DEF Position

\* A step that hands nothing over keeps the invariant if the position does not go back.
LEMMA NothingHandedOver ==
    ASSUME IInv, PacketsInv, UNCHANGED <<stream, delivered>>,
           Running' => Running /\ Position' \in Nat /\ Position <= Position'
    PROVE  PacketsInv'
<1>1. delivered' \in Seq(Seq(Nat)) /\ Packets(delivered', stream'.sync)
  BY DEF PacketsInv
<1>2. ASSUME Running'
      PROVE  EndsBy(delivered', Position')
  <2>1. Running /\ Position' \in Nat /\ Position <= Position'
    BY <1>2
  <2>2. EndsBy(delivered, Position) /\ delivered \in Seq(Seq(Nat))
        /\ Packets(delivered, stream.sync)
    BY <2>1 DEF PacketsInv
  <2>3. EndsBy(delivered, Position')
    BY <2>1, <2>2, PositionType, EndsByLater
  <2> QED BY <2>3
<1> QED BY <1>1, <1>2 DEF PacketsInv

\* The position after a step that ends with the buffer holding [b, e), read up to e.
LEMMA PositionAfter ==
    ASSUME NEW b \in Nat, NEW e \in Nat, b <= e, pending' = Bytes(b, e), cursor' = e
    PROVE  Position' = b
<1>1. Len(Bytes(b, e)) = e - b
  BY BytesProperties
<1> QED BY <1>1 DEF Position

\* The reads hand nothing over.
LEMMA ReadsKeepPackets ==
    ASSUME IInv, PacketsInv, ReadStep
    PROVE  PacketsInv'
<1>1. CASE \E n \in 1..ChunkSize : Read(n)
  <2>1. UNCHANGED <<stream, delivered, cursor, pending>> /\ Running
    BY <1>1 DEF Read, Running
  <2>2. Position' = Position
    BY <2>1 DEF Position
  <2> QED BY <2>1, <2>2, PositionType, NothingHandedOver
<1>2. CASE ReadEof \/ ReadError
  <2>1. UNCHANGED <<stream, delivered>> /\ ~Running'
    BY <1>2 DEF ReadEof, ReadError, Running
  <2> QED BY <2>1, NothingHandedOver
<1> QED BY <1>1, <1>2 DEF ReadStep

\* Passing bytes without a sync byte moves the position to the end of the chunk.
LEMMA ScansKeepPackets ==
    ASSUME IInv, PacketsInv, InitialScanFails \/ ScanExhausted
    PROVE  PacketsInv'
<1>1. CASE InitialScanFails
  <2>1. UNCHANGED <<stream, delivered>> /\ ~Running'
    BY <1>1 DEF InitialScanFails, Stop, Running
  <2> QED BY <2>1, NothingHandedOver
<1>2. CASE ScanExhausted
  <2>1. /\ UNCHANGED <<stream, delivered>> /\ Running
        /\ pending = << >> /\ pending' = << >> /\ cursor' = end
    BY <1>2 DEF ScanExhausted, NeedMoreData, Seeking, Running
  <2>2. Position = cursor /\ Position' = end
    BY <2>1, StateFacts DEF Position
  <2> QED BY <2>1, <2>2, StateFacts, NothingHandedOver
<1> QED BY <1>1, <1>2

\* A rejected candidate moves the position to the next one, past the old.
LEMMA RejectKeepsPackets ==
    ASSUME IInv, PacketsInv, RejectCandidate
    PROVE  PacketsInv'
<1> DEFINE c(sync) == CopyEnd(sync, kSyncProbeSize)
           filled(sync) == Filled(sync, kSyncProbeSize)
<1>1. PICK sync \in cursor..end :
        /\ AtCandidate(sync)
        /\ \E k \in 1..(Len(filled(sync)) + 1) :
             /\ DiscardPendingUntilNextSync(filled(sync), k)
             /\ pending' = SubSeq(filled(sync), k, Len(filled(sync)))
        /\ Continue(c(sync)) \/ Stop
        /\ UNCHANGED <<stream, delivered>>
  BY DEF RejectCandidate
<1>2. PICK k \in 1..(Len(filled(sync)) + 1) :
        /\ DiscardPendingUntilNextSync(filled(sync), k)
        /\ pending' = SubSeq(filled(sync), k, Len(filled(sync)))
  BY <1>1
<1> DEFINE b == WindowStart(sync)
           e == c(sync)
           p == b + k - 1
<1>3. /\ b \in Nat /\ e \in Nat /\ b <= sync /\ sync < e /\ e <= end
      /\ filled(sync) = Bytes(b, e) /\ Len(filled(sync)) = e - b
  BY <1>1, CandidateWindow
<1>4. Running /\ Position <= b
  BY <1>1, StateFacts DEF AtCandidate, Seeking, Running, WindowStart, Position
<1> HIDE DEF b, c
<1>5. k \in 2..(e - b + 1)
  BY <1>2, <1>3 DEF DiscardPendingUntilNextSync, Finds
<1>6. p \in Nat /\ p <= e /\ b < p /\ b <= e /\ k \in 1..(e - b + 1)
  BY <1>3, <1>5
<1>7. pending' = Bytes(p, e)
  <2>1. SubSeq(Bytes(b, e), k, e - b) = Bytes(b + k - 1, e)
    BY <1>3, <1>6, BytesSuffix
  <2> QED BY <1>2, <1>3, <2>1
<1> HIDE DEF p, e
<1>8. CASE Continue(e)
  <2>1. Position' = p
    BY <1>3, <1>6, <1>7, <1>8, PositionAfter DEF Continue
  <2>2. Position <= p
    BY <1>3, <1>4, <1>6, PositionType
  <2> QED BY <1>1, <1>4, <1>6, <2>1, <2>2, NothingHandedOver
<1>9. CASE Stop
  <2>1. ~Running'
    BY <1>9 DEF Stop, Running
  <2> QED BY <1>1, <2>1, NothingHandedOver
<1> QED BY <1>1, <1>8, <1>9 DEF e

\* Waiting for the rest of the window leaves the position at the candidate.
LEMMA AwaitKeepsPackets ==
    ASSUME IInv, PacketsInv, AwaitProbe
    PROVE  PacketsInv'
<1> DEFINE c(sync) == CopyEnd(sync, kSyncProbeSize)
           filled(sync) == Filled(sync, kSyncProbeSize)
<1>1. PICK sync \in cursor..end :
        /\ AtCandidate(sync)
        /\ Len(filled(sync)) < kSyncProbeSize
        /\ pending' = filled(sync)
        /\ NeedMoreData
        /\ UNCHANGED <<stream, delivered>>
  BY DEF AwaitProbe
<1> DEFINE b == WindowStart(sync)
<1>2. /\ b \in Nat /\ b <= end /\ c(sync) = end /\ filled(sync) = Bytes(b, end)
  BY <1>1, CandidateWindow, SizesType, StateFacts
<1>3. Running /\ Position <= b
  BY <1>1, StateFacts DEF AtCandidate, Seeking, Running, WindowStart, Position
<1> HIDE DEF b, c
<1>4. Position' = b
  BY <1>1, <1>2, StateFacts, PositionAfter DEF NeedMoreData
<1> QED BY <1>1, <1>2, <1>3, <1>4, NothingHandedOver

\* Confirming sync hands over packets that start at the candidate and fill the window.
LEMMA ConfirmKeepsPackets ==
    ASSUME IInv, PacketsInv, ConfirmSync
    PROVE  PacketsInv'
<1> DEFINE c(sync) == CopyEnd(sync, kSyncProbeSize)
           filled(sync) == Filled(sync, kSyncProbeSize)
<1>1. PICK sync \in cursor..end :
        /\ AtCandidate(sync)
        /\ PendingSyncBytesAreValid(filled(sync))
        /\ Len(filled(sync)) = kSyncProbeSize
        /\ pending' = << >>
        /\ \/ /\ delivered' = delivered \o ProbePackets(filled(sync), SyncProbePackets)
              /\ Continue(c(sync))
           \/ /\ \E k \in 1..SyncProbePackets :
                   delivered' = delivered \o ProbePackets(filled(sync), k)
              /\ Stop
        /\ stream' = stream
  BY DEF ConfirmSync
<1> DEFINE b == WindowStart(sync)
           e == c(sync)
<1>2. /\ b \in Nat /\ e \in Nat /\ e = b + kSyncProbeSize /\ filled(sync) = Bytes(b, e)
  BY <1>1, CandidateWindow, SizesType, StateFacts
<1>3. Running /\ Position <= b
  BY <1>1, StateFacts DEF AtCandidate, Seeking, Running, WindowStart, Position
<1> HIDE DEF b, c, e, filled
<1>4. PICK k \in 1..SyncProbePackets : delivered' = delivered \o ProbePackets(Bytes(b, e), k)
  <2>1. SyncProbePackets \in 1..SyncProbePackets
    BY SyncProbePacketsAssumption
  <2> QED BY <1>1, <1>2, <2>1
<1> DEFINE qs == ProbePackets(Bytes(b, e), k)
<1>5. /\ qs \in Seq(Seq(Nat)) /\ qs # << >> /\ qs[1][1] = b
      /\ Packets(qs, stream.sync) /\ EndsBy(qs, e)
  BY <1>1, <1>2, WindowIsPackets
<1> HIDE DEF qs
<1>6. /\ delivered \in Seq(Seq(Nat)) /\ Packets(delivered, stream.sync)
      /\ EndsBy(delivered, Position) /\ Position \in Nat
  BY <1>3, PositionType DEF PacketsInv
<1>7. Packets(delivered \o qs, stream.sync) /\ EndsBy(delivered \o qs, e)
  BY <1>2, <1>3, <1>5, <1>6, PacketsConcat
<1>8. delivered \o qs \in Seq(Seq(Nat))
  BY <1>5, <1>6, ConcatProperties
<1>9. Running' => Position' = e
  <2>1. CASE Continue(c(sync))
    BY <1>1, <1>2, <2>1 DEF Continue, Position, e
  <2>2. CASE Stop
    BY <2>2 DEF Stop, Running
  <2> QED BY <1>1, <2>1, <2>2
<1> QED BY <1>1, <1>4, <1>7, <1>8, <1>9 DEF PacketsInv, qs

\* A packet handed over at the position moves the position past it.
LEMMA OnePacketHandedOver ==
    ASSUME IInv, PacketsInv, Running, stream' = stream, IsSync(Position),
           delivered' = Append(delivered, Bytes(Position, Position + PktSize)),
           Running' => Position' = Position + PktSize
    PROVE  PacketsInv'
<1> DEFINE b == Position
           ps == Append(delivered, Bytes(b, b + PktSize))
<1>1. b \in Nat /\ b \in stream.sync /\ b <= b
  BY PositionType DEF IsSync
<1>2. delivered \in Seq(Seq(Nat)) /\ Packets(delivered, stream.sync) /\ EndsBy(delivered, b)
  BY DEF PacketsInv
<1> HIDE DEF b
<1>3. Packets(ps, stream.sync) /\ EndsBy(ps, b + PktSize)
  BY <1>1, <1>2, PacketsAppend
<1>4. ps \in Seq(Seq(Nat))
  BY <1>1, <1>2, PieceIsPacket
<1>5. delivered' = ps
  BY DEF b
<1> HIDE DEF ps
<1>6. ASSUME Running'
      PROVE  EndsBy(delivered', Position')
  <2>1. Position' = b + PktSize
    BY <1>6 DEF b
  <2> QED BY <1>3, <1>5, <2>1
<1> QED BY <1>3, <1>4, <1>5, <1>6 DEF PacketsInv

\* A split packet is handed over once it is whole; until then it stays in the buffer.
LEMMA SplitKeepsPackets ==
    ASSUME IInv, PacketsInv, CompleteSplitPacket
    PROVE  PacketsInv'
<1> DEFINE filled == Filled(cursor, PktSize)
           b == WindowStart(cursor)
           e == CopyEnd(cursor, PktSize)
<1>1. /\ Synced /\ Running /\ pending # << >> /\ stream' = stream
      /\ IsSync(pending[1]) /\ Len(pending) > 0
      /\ pending \in Seq(Nat) /\ Len(pending) <= cursor /\ Len(pending) < PktSize
      /\ pending = Bytes(cursor - Len(pending), cursor)
  BY StateFacts
     DEF CompleteSplitPacket, Synced, IInv, Running, CandidateAtFront, PendingFits,
         PendingIsContiguous
<1>2. /\ b \in Nat /\ e \in Nat /\ b <= e /\ e <= end
      /\ filled = Bytes(b, e) /\ Len(filled) = e - b
      /\ e - b <= PktSize
      /\ e - b < PktSize => e = end
  BY <1>1, StateFacts, SizesType, FilledIsContiguous
<1>3. b = Position /\ IsSync(b)
  <2>1. b = cursor - Len(pending) /\ pending[1] = b
    BY <1>1, StateFacts DEF Bytes, WindowStart
  <2> QED BY <1>1, <2>1 DEF Position
<1>4. CASE Len(filled) < PktSize
  <2>1. pending' = filled /\ cursor' = end /\ UNCHANGED <<stream, delivered>>
    BY <1>4 DEF CompleteSplitPacket, NeedMoreData
  <2> HIDE DEF b, e, filled
  <2>2. e = end /\ pending' = Bytes(b, end)
    BY <1>2, <1>4, <2>1
  <2>3. Position' = b
    BY <1>2, <2>1, <2>2, PositionAfter
  <2> QED BY <1>1, <1>2, <1>3, <2>1, <2>3, NothingHandedOver
<1>5. CASE ~(Len(filled) < PktSize)
  <2>1. /\ pending' = << >> /\ delivered' = Append(delivered, filled)
        /\ Continue(e) \/ Stop
    BY <1>5 DEF CompleteSplitPacket
  <2> HIDE DEF b, e, filled
  <2>2. e = b + PktSize
    BY <1>2, <1>5, SizesType
  <2>3. Running' => Position' = b + PktSize
    <3>1. CASE Continue(e)
      BY <1>2, <2>1, <2>2, <3>1 DEF Continue, Position
    <3>2. CASE Stop
      BY <3>2 DEF Stop, Running
    <3> QED BY <2>1, <3>1, <3>2
  <2> QED BY <1>1, <1>2, <1>3, <2>1, <2>2, <2>3, OnePacketHandedOver
<1> QED BY <1>4, <1>5

\* Losing sync does not move the position.
LEMMA LoseSyncKeepsPackets ==
    ASSUME IInv, PacketsInv, LoseSync
    PROVE  PacketsInv'
<1>1. UNCHANGED <<stream, delivered, cursor, pending>> /\ Running
  BY DEF LoseSync, Synced, Continue, Running
<1>2. Position' = Position
  BY <1>1 DEF Position
<1> QED BY <1>1, <1>2, PositionType, NothingHandedOver

\* Nor does buffering the head of a packet.
LEMMA BufferKeepsPackets ==
    ASSUME IInv, PacketsInv, BufferPartialPacket
    PROVE  PacketsInv'
<1>1. /\ UNCHANGED <<stream, delivered>> /\ Running /\ pending = << >>
      /\ pending' = Bytes(cursor, end) /\ cursor' = end
  BY DEF BufferPartialPacket, NeedMoreData, Synced, Running
<1>2. Position = cursor
  BY <1>1, StateFacts DEF Position
<1>3. Position' = cursor
  BY <1>1, StateFacts, PositionAfter
<1> QED BY <1>1, <1>2, <1>3, StateFacts, NothingHandedOver

\* A packet inside the chunk is handed over in place.
LEMMA EmitKeepsPackets ==
    ASSUME IInv, PacketsInv, EmitFromChunk
    PROVE  PacketsInv'
<1>1. /\ stream' = stream /\ Running /\ pending = << >> /\ pending' = << >>
      /\ IsSync(cursor) /\ delivered' = Append(delivered, Bytes(cursor, cursor + PktSize))
      /\ Continue(cursor + PktSize) \/ Stop
  BY DEF EmitFromChunk, Synced, Running
<1>2. Position = cursor
  BY <1>1, StateFacts DEF Position
<1>3. Running' => Position' = cursor + PktSize
  <2>1. CASE Continue(cursor + PktSize)
    BY <1>1, <2>1, StateFacts, SizesType DEF Continue, Position
  <2>2. CASE Stop
    BY <2>2 DEF Stop, Running
  <2> QED BY <1>1, <2>1, <2>2
<1> QED BY <1>1, <1>2, <1>3, OnePacketHandedOver

(***************************************************************************)
(* The theorem.                                                            *)
(***************************************************************************)

\* Whatever the chunks, the input and the refusals: EmitPacket is called with whole
\* packets that start with a sync byte, in stream order, no byte twice.
THEOREM PacketsAreWhole == Spec => []WholePacketsInOrder
<1>1. Init => PacketsInv
  <2> SUFFICES ASSUME Init PROVE PacketsInv
    OBVIOUS
  <2>1. delivered = << >> /\ Len(delivered) = 0 /\ delivered \in Seq(Seq(Nat))
    BY EmptySeq DEF Init
  <2> QED BY <2>1 DEF PacketsInv, Packets, InOrder, EndsBy
<1>2. IInv /\ PacketsInv /\ [Next]_vars => PacketsInv'
  <2> SUFFICES ASSUME IInv, PacketsInv, [Next]_vars PROVE PacketsInv'
    OBVIOUS
  <2>1. CASE ReadStep
    BY <2>1, ReadsKeepPackets
  <2>2. CASE InitialScanFails \/ ScanExhausted
    BY <2>2, ScansKeepPackets
  <2>3. CASE RejectCandidate
    BY <2>3, RejectKeepsPackets
  <2>4. CASE AwaitProbe
    BY <2>4, AwaitKeepsPackets
  <2>5. CASE ConfirmSync
    BY <2>5, ConfirmKeepsPackets
  <2>6. CASE CompleteSplitPacket
    BY <2>6, SplitKeepsPackets
  <2>7. CASE LoseSync
    BY <2>7, LoseSyncKeepsPackets
  <2>8. CASE BufferPartialPacket
    BY <2>8, BufferKeepsPackets
  <2>9. CASE EmitFromChunk
    BY <2>9, EmitKeepsPackets
  <2>10. CASE UNCHANGED vars
    BY <2>10 DEF vars, PacketsInv, Running, Position
  <2> QED BY <2>1, <2>2, <2>3, <2>4, <2>5, <2>6, <2>7, <2>8, <2>9, <2>10
          DEF Next, FeedStep
<1>3. PacketsInv => WholePacketsInOrder
  BY PacketsInvImplies
<1> QED BY <1>1, <1>2, <1>3, Invariance, PTL DEF Spec
=============================================================================
