--------------------------- MODULE DumpRun_proofs ---------------------------
(***************************************************************************)
(* What stdout's state, the framer's and the exit status have to do with   *)
(* each other, and with the input, for every input and every number of     *)
(* records.                                                                *)
(***************************************************************************)
EXTENDS DumpRun, FramedStream_proofs

\* While stdout is bad the framer does not run, which is what makes a gap the end of the
\* output: no step but the run's own end is left.
RunIInv ==
    /\ good \in BOOLEAN /\ lost \in BOOLEAN /\ held \in Nat
    /\ good <=> ~lost
    /\ ~good => ~Running
    /\ read_failed => status = "false"
    /\ phase = "opening" => held = 0 /\ ~opened
    /\ phase \in {"reading", "flushed"} => opened
    /\ phase \in {"flushed", "exited"} /\ good => held = 0
    /\ phase = "exited" => (exit_status = 0 <=> opened /\ good /\ ReadFrameStatus = "kOk")

\* Emitting either loses nothing, or a record and the stream with it.
LEMMA EmittingAgrees ==
    ASSUME RunIInv, NEW count \in Nat, EmitRecords(count)
    PROVE  good' \in BOOLEAN /\ lost' \in BOOLEAN /\ (good' <=> ~lost')
<1>1. PICK whole \in 0..count :
        /\ ~good => whole = 0
        /\ good' = (good /\ whole = count)
        /\ lost' = (lost \/ whole < count)
  BY DEF EmitRecords
<1>2. whole = count <=> ~(whole < count)
  BY <1>1
<1>3. good' \in BOOLEAN /\ (good' <=> good /\ whole = count)
  BY <1>1, Zenon
<1>4. lost' \in BOOLEAN /\ (lost' <=> lost \/ whole < count)
  BY <1>1, Zenon
<1>5. good <=> ~lost
  BY DEF RunIInv
<1> QED  BY <1>2, <1>3, <1>4, <1>5, Zenon

\* Only a chunk in hand is framed.
LEMMA FeedingNeedsRunning == FeedStep => status = "feeding"
BY DEF FeedStep, InitialScanFails, ScanExhausted, RejectCandidate, AwaitProbe, ConfirmSync,
       CompleteSplitPacket, LoseSync, BufferPartialPacket, EmitFromChunk, AtCandidate,
       Seeking, Synced

\* Framing, with what the dumper writes for it.
LEMMA FrameStepRunIInv == RunIInv /\ FrameStep => RunIInv'
<1> SUFFICES ASSUME RunIInv, FrameStep  PROVE RunIInv'
  OBVIOUS
<1>1. status = "feeding" /\ good /\ ~read_failed
  BY FeedingNeedsRunning DEF RunIInv, FrameStep, Running
<1>2. phase = "reading" /\ opened /\ UNCHANGED <<phase, opened, read_failed>>
  BY DEF FrameStep, RunIInv
<1>3. CASE delivered' = delivered
  <2>1. UNCHANGED <<good, held, lost>>
    BY <1>3 DEF FrameStep
  <2> QED  BY <1>1, <1>2, <2>1 DEF RunIInv
<1>4. CASE delivered' # delivered
  <2>1. FeedPackets
    BY <1>4 DEF FrameStep
  <2>2. PICK count \in 0..MaxRecords : EmitRecords(count)
    BY <2>1 DEF FeedPackets
  <2>3. good' \in BOOLEAN /\ lost' \in BOOLEAN /\ (good' <=> ~lost')
    BY <2>2, EmittingAgrees
  <2>4. held' \in Nat /\ (status' = "false" <=> ~good')
    BY <2>1, MaxRecordsAssumption DEF FeedPackets, RefusesIfBad
  <2> QED  BY <1>1, <1>2, <2>3, <2>4 DEF RunIInv, Running
<1> QED  BY <1>3, <1>4

\* Flushing.
LEMMA FlushPendingRunIInv == RunIInv /\ FlushPending => RunIInv'
<1> SUFFICES ASSUME RunIInv, FlushPending  PROVE RunIInv'
  OBVIOUS
<1>1. /\ phase = "reading" /\ phase' = "flushed" /\ ~Running
      /\ UNCHANGED <<status, opened, read_failed>>
  BY DEF FlushPending, vars
<1>2. CASE good
  <2>1. held' = 0 /\ EmitRecords(held)
    BY <1>2 DEF FlushPending, FlushIf
  <2>2. good' \in BOOLEAN /\ lost' \in BOOLEAN /\ (good' <=> ~lost')
    BY <2>1, EmittingAgrees DEF RunIInv
  <2> QED  BY <1>1, <2>1, <2>2 DEF RunIInv, Running
<1>3. CASE ~good
  <2>1. UNCHANGED <<good, held, lost>>
    BY <1>3 DEF FlushPending, FlushIf
  <2> QED  BY <1>1, <1>3, <2>1 DEF RunIInv, Running
<1> QED  BY <1>2, <1>3

\* At the start stdout is good.
LEMMA RunInitRunIInv == RunInit => RunIInv
<1> SUFFICES ASSUME RunInit  PROVE RunIInv
  OBVIOUS
<1>1. good \in BOOLEAN /\ lost \in BOOLEAN /\ good /\ ~lost /\ ~read_failed /\ ~opened
  BY Zenon DEF RunInit
<1>2. held = 0 /\ phase = "opening"
  BY DEF RunInit
<1> QED  BY <1>1, <1>2 DEF RunIInv

\* One step of the run.
LEMMA RunNextRunIInv == RunIInv /\ [RunNext]_runVars => RunIInv'
<1> SUFFICES ASSUME RunIInv, [RunNext]_runVars  PROVE RunIInv'
  OBVIOUS
<1>1. CASE FrameStep  BY <1>1, FrameStepRunIInv
<1>2. CASE ReadReturns
  <2>1. /\ status = "reading" /\ phase = "reading"
        /\ UNCHANGED <<phase, good, held, lost, opened>>
        /\ read_failed' => read_failed \/ status' = "false"
    BY <1>2 DEF ReadReturns, Read, ReadEof, ReadError
  <2> QED  BY <2>1 DEF RunIInv, Running
<1>3. CASE Open
  BY <1>3 DEF Open, RunIInv, vars, Running, ReadFrameStatus
<1>4. CASE OpenFails
  <2>1. ~opened
    BY <1>4 DEF OpenFails, RunIInv
  <2> QED  BY <1>4, <2>1 DEF OpenFails, RunIInv, vars, Running, ReadFrameStatus
<1>5. CASE FlushPending  BY <1>5, FlushPendingRunIInv
<1>6. CASE Return
  BY <1>6 DEF Return, ExitCode, RunIInv, vars, Running, ReadFrameStatus
<1>7. CASE ReadInterrupted
  BY <1>7 DEF ReadInterrupted, RunIInv, vars, Running, ReadFrameStatus
<1>8. CASE UNCHANGED runVars
  BY <1>8 DEF runVars, RunIInv, vars, Running, ReadFrameStatus
<1> QED  BY <1>1, <1>2, <1>3, <1>4, <1>5, <1>6, <1>7, <1>8 DEF RunNext, RunStep

\* So it holds throughout.
LEMMA RunInvariance == RunSpec => []RunIInv
<1> QED  BY RunInitRunIInv, RunNextRunIInv, PTL DEF RunSpec

\* Captions still held at the end of the input come out unless stdout fails.
THEOREM NothingIsLeftHeld == RunSpec => []HeldCaptionsComeOut
<1>1. RunIInv => HeldCaptionsComeOut
  BY DEF RunIInv, HeldCaptionsComeOut
<1> QED  BY <1>1, RunInvariance, PTL

\* After a lost record the framer hands over no packet.
THEOREM OutputEndsAtLoss == RunSpec => LossEndsOutput
<1>1. RunIInv /\ [RunNext]_runVars => [lost => UNCHANGED delivered]_runVars
  <2> SUFFICES ASSUME RunIInv, RunNext, lost  PROVE UNCHANGED delivered
    OBVIOUS
  <2>1. status \notin {"reading", "feeding"}
    BY DEF RunIInv, Running
  <2>2. ~FrameStep /\ ~ReadReturns
    BY <2>1, FeedingNeedsRunning DEF FrameStep, ReadReturns, Read, ReadEof, ReadError
  <2> QED  BY <2>2 DEF RunNext, RunStep, Open, OpenFails, FlushPending, Return,
                       ReadInterrupted, vars
<1> QED  BY <1>1, RunInvariance, PTL DEF RunSpec, LossEndsOutput

\* The exit status is 0 exactly when the input could be opened, the framer ended well and
\* no record was lost, not even one of Flush; then nothing is left held, and no read failed.
THEOREM ZeroMeansComplete ==
    RunSpec => [](phase = "exited" =>
        /\ exit_status = 0 <=> opened /\ ReadFrameStatus = "kOk" /\ ~lost
        /\ exit_status = 0 => held = 0 /\ ~read_failed)
<1>1. RunIInv => (phase = "exited" =>
        /\ exit_status = 0 <=> opened /\ ReadFrameStatus = "kOk" /\ ~lost
        /\ exit_status = 0 => held = 0 /\ ~read_failed)
  BY DEF RunIInv, ReadFrameStatus
<1> QED  BY <1>1, RunInvariance, PTL

-----------------------------------------------------------------------------
(* The run's steps are the framer's, so that what is known of the framer   *)
(* holds of the run.                                                       *)

\* The run is a behaviour of the framer.
LEMMA RunIsFramer == RunSpec => Spec
<1>1. RunInit => Init
  BY DEF RunInit
<1>2. [RunNext]_runVars => [Next]_vars
  <2> SUFFICES ASSUME [RunNext]_runVars  PROVE [Next]_vars
    OBVIOUS
  <2>1. CASE FrameStep
    BY <2>1 DEF FrameStep, Next
  <2>2. CASE ReadReturns
    BY <2>2 DEF ReadReturns, ReadStep, Next
  <2>3. CASE Open \/ OpenFails \/ FlushPending \/ Return \/ ReadInterrupted
    BY <2>3 DEF Open, OpenFails, FlushPending, Return, ReadInterrupted
  <2>4. CASE UNCHANGED runVars
    BY <2>4 DEF runVars
  <2> QED  BY <2>1, <2>2, <2>3, <2>4 DEF RunNext, RunStep
<1> QED  BY <1>1, <1>2, PTL DEF RunSpec, Spec

\* Packets more are not the same packets.
LEMMA MoreIsDifferent ==
    ASSUME NEW D, NEW s \in Seq(D)
    PROVE  /\ \A x : Append(s, x) # s
           /\ \A t, E : t \in Seq(E) /\ Len(t) > 0 => s \o t # s
<1>1. ASSUME NEW t, NEW E, t \in Seq(E), Len(t) > 0
      PROVE  s \o t # s
  <2> DEFINE X == D \cup E
  <2>1. s \in Seq(X) /\ t \in Seq(X)
    BY <1>1
  <2>2. Len(s) \in Nat /\ Len(t) \in Nat
    BY <1>1, LenProperties
  <2> HIDE DEF X
  <2>3. Len(s \o t) = Len(s) + Len(t)
    BY <2>1, ConcatProperties
  <2> QED  BY <1>1, <2>2, <2>3
<1>2. ASSUME NEW x
      PROVE  Append(s, x) # s
  <2> DEFINE X == D \cup {x}
  <2>1. s \in Seq(X) /\ x \in X
    OBVIOUS
  <2>2. Len(s) \in Nat
    BY LenProperties
  <2> HIDE DEF X
  <2>3. Len(Append(s, x)) = Len(s) + 1
    BY <2>1, AppendProperties
  <2> QED  BY <2>2, <2>3
<1> QED  BY <1>1, <1>2

\* The packets of a probe window are a sequence with a packet in it.
LEMMA ProbePacketsAreSome ==
    ASSUME NEW bytes, NEW k \in 1..SyncProbePackets
    PROVE  \E E : ProbePackets(bytes, k) \in Seq(E) /\ Len(ProbePackets(bytes, k)) > 0
<1> DEFINE t == ProbePackets(bytes, k)
           E == {t[j] : j \in 1..k}
<1>1. k \in Nat /\ k > 0
  BY SyncProbePacketsAssumption
<1>2. t \in [1..k -> E]
  BY DEF ProbePackets
<1> HIDE DEF t, E
<1>3. t \in Seq(E) /\ Len(t) = k
  BY <1>1, <1>2
<1> QED  BY <1>1, <1>3 DEF t, E

\* Framing stops without a packet only where there is no sync.
LEMMA StopsForAReason ==
    ASSUME IInv, FeedStep, status' = "false", delivered' = delivered
    PROVE  initial_sync_failed'
<1>1. delivered \in Seq(Seq(0..(stream.len - 1)))
  BY DEF IInv, TypeOK
<1>2. CASE InitialScanFails
  BY <1>2 DEF InitialScanFails
<1>3. CASE RejectCandidate
  <2>1. PICK sync \in cursor..end :
          IF InitialSync /\ initial_offset' >= PktSize
          THEN initial_sync_failed' = TRUE /\ Stop
          ELSE Continue(CopyEnd(sync, kSyncProbeSize)) /\ UNCHANGED initial_sync_failed
    BY <1>3 DEF RejectCandidate
  <2> QED  BY <2>1 DEF Continue
<1>4. CASE ConfirmSync
  <2>1. PICK bytes : \E k \in 1..SyncProbePackets :
                       delivered' = delivered \o ProbePackets(bytes, k)
    <3>1. PICK sync \in cursor..end :
            LET filled == Filled(sync, kSyncProbeSize)
            IN  \/ delivered' = delivered \o ProbePackets(filled, SyncProbePackets)
                \/ \E k \in 1..SyncProbePackets :
                     delivered' = delivered \o ProbePackets(filled, k)
      BY <1>4 DEF ConfirmSync
    <3>2. SyncProbePackets \in 1..SyncProbePackets
      BY SyncProbePacketsAssumption
    <3> QED  BY <3>1, <3>2, Zenon
  <2>2. PICK k \in 1..SyncProbePackets : delivered' = delivered \o ProbePackets(bytes, k)
    BY <2>1
  <2> QED  BY <1>1, <2>2, MoreIsDifferent, ProbePacketsAreSome
<1>5. CASE ScanExhausted \/ AwaitProbe \/ LoseSync \/ BufferPartialPacket
  BY <1>5 DEF ScanExhausted, AwaitProbe, LoseSync, BufferPartialPacket, NeedMoreData, Continue
<1>6. CASE CompleteSplitPacket
  <2>1. NeedMoreData \/ \E x : delivered' = Append(delivered, x)
    BY <1>6 DEF CompleteSplitPacket
  <2> QED  BY <1>1, <2>1, MoreIsDifferent DEF NeedMoreData
<1>7. CASE EmitFromChunk
  <2>1. \E x : delivered' = Append(delivered, x)
    BY <1>7 DEF EmitFromChunk
  <2> QED  BY <1>1, <2>1, MoreIsDifferent
<1> QED  BY <1>2, <1>3, <1>4, <1>5, <1>6, <1>7 DEF FeedStep

\* Framing ends with false for a reason, and by the time Flush is called it has ended.
EndInv ==
    /\ phase \in {"opening", "reading", "flushed", "exited"}
    /\ status = "false" => initial_sync_failed \/ read_failed \/ lost
    /\ phase \in {"flushed", "exited"} /\ opened => ~Running
    /\ lost \in BOOLEAN /\ read_failed \in BOOLEAN

\* At the start nothing has ended.
LEMMA EndInvInit == RunInit => EndInv
BY DEF RunInit, Init, EndInv

\* One step of the run.
LEMMA EndInvNext == IInv /\ RunIInv /\ EndInv /\ [RunNext]_runVars => EndInv'
<1> SUFFICES ASSUME IInv, RunIInv, EndInv, [RunNext]_runVars  PROVE EndInv'
  OBVIOUS
<1>1. CASE FrameStep
  <2>1. phase = "reading" /\ phase' = "reading" /\ FeedStep /\ UNCHANGED <<opened, read_failed>>
    BY <1>1 DEF FrameStep
  <2>2. good /\ ~lost /\ lost' \in BOOLEAN /\ (good' <=> ~lost')
    BY <1>1, <2>1, FeedingNeedsRunning, FrameStepRunIInv DEF RunIInv, Running
  <2>3. status' = "false" => initial_sync_failed' \/ lost'
    <3>1. CASE delivered' = delivered
      BY <2>1, <3>1, StopsForAReason
    <3>2. CASE delivered' # delivered
      <4>1. RefusesIfBad
        BY <1>1, <3>2 DEF FrameStep, FeedPackets
      <4> QED  BY <2>2, <4>1 DEF RefusesIfBad
    <3> QED  BY <3>1, <3>2
  <2> QED  BY <2>1, <2>2, <2>3 DEF EndInv
<1>2. CASE ReadReturns
  <2>1. phase = "reading" /\ UNCHANGED <<phase, lost, opened>>
    BY <1>2 DEF ReadReturns
  <2>2. CASE ((\E n \in 1..ChunkSize : Read(n)) \/ ReadEof) /\ UNCHANGED read_failed
    BY <2>1, <2>2 DEF EndInv, Read, ReadEof
  <2>3. CASE ReadError /\ read_failed' = TRUE
    BY <2>1, <2>3 DEF EndInv
  <2> QED  BY <1>2, <2>2, <2>3 DEF ReadReturns
<1>3. CASE Open
  BY <1>3 DEF Open, EndInv, vars
<1>4. CASE OpenFails
  BY <1>4 DEF OpenFails, EndInv, vars, RunIInv
<1>5. CASE FlushPending
  <2>1. lost' \in BOOLEAN /\ (lost => lost')
    BY <1>5, FlushPendingRunIInv DEF FlushPending, EmitRecords, RunIInv
  <2> QED  BY <1>5, <2>1 DEF FlushPending, EndInv, vars, Running
<1>6. CASE Return
  BY <1>6 DEF Return, EndInv, vars, Running
<1>7. CASE ReadInterrupted
  BY <1>7 DEF ReadInterrupted, EndInv, vars, Running
<1>8. CASE UNCHANGED runVars
  BY <1>8 DEF runVars, EndInv, vars, Running
<1> QED  BY <1>1, <1>2, <1>3, <1>4, <1>5, <1>6, <1>7, <1>8 DEF RunNext, RunStep

\* The exit status tells whether the input was readable, had sync where it should, and was
\* framed to its end with no record lost.
THEOREM StatusTellsOfTheInput == RunSpec => []ExitStatusTells
<1>1. IInv /\ ChunkingDoesNotShow /\ RunIInv /\ EndInv => ExitStatusTells
  <2> SUFFICES ASSUME IInv, ChunkingDoesNotShow, RunIInv, EndInv, phase = "exited"
               PROVE  exit_status = 0 <=>
                        /\ opened /\ ~read_failed
                        /\ VerdictOn(stream) = "kOk"
                        /\ delivered = PacketsIn(stream)
                        /\ ~lost
    BY DEF ExitStatusTells
  <2>1. /\ exit_status = 0 <=> opened /\ good /\ ReadFrameStatus = "kOk"
        /\ good <=> ~lost
        /\ read_failed => status = "false"
    BY DEF RunIInv
  <2>2. ReadFrameStatus = "kOk" <=> ~initial_sync_failed /\ status = "true"
    BY DEF ReadFrameStatus
  <2>3. ASSUME exit_status = 0
        PROVE  /\ opened /\ ~read_failed
               /\ VerdictOn(stream) = "kOk"
               /\ delivered = PacketsIn(stream)
               /\ ~lost
    <3>1. opened /\ ~lost /\ ReadFrameStatus = "kOk" /\ status = "true"
      BY <2>1, <2>2, <2>3
    <3>2. ~Running
      BY <3>1 DEF Running
    <3> QED  BY <2>1, <3>1, <3>2 DEF ChunkingDoesNotShow
  <2>4. ASSUME opened, ~read_failed, VerdictOn(stream) = "kOk", ~lost
        PROVE  exit_status = 0
    <3>1. ~Running
      BY <2>4 DEF EndInv
    <3>2. ~initial_sync_failed
      BY <2>4, <3>1 DEF ChunkingDoesNotShow, ReadFrameStatus
    <3>3. status \in {"true", "false"}
      BY <3>1 DEF IInv, TypeOK, Running
    <3>4. status # "false"
      BY <2>4, <3>2 DEF EndInv
    <3> QED  BY <2>1, <2>2, <2>4, <3>2, <3>3, <3>4
  <2> QED  BY <2>3, <2>4
<1>2. RunSpec => []IInv /\ []ChunkingDoesNotShow
  BY RunIsFramer, Invariance, ResultIsThatOfTheInput, PTL
<1>3. RunSpec => []EndInv
  BY <1>2, RunInvariance, EndInvInit, EndInvNext, PTL DEF RunSpec
<1> QED  BY <1>1, <1>2, <1>3, RunInvariance, PTL
=============================================================================
