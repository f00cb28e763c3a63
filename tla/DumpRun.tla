------------------------------- MODULE DumpRun -------------------------------
(***************************************************************************)
(* Run (main.cc): open the input, frame it, hand every packet to the       *)
(* dumper, flush, and say with the exit status what became of it.  Records *)
(* go through JsonlOutputRecordSink to std::cout, which can fail at any    *)
(* record and then stays bad; read(2) can fail or be interrupted.          *)
(*                                                                         *)
(* The framer is PacketFramer.  Of the dumper only the number of records   *)
(* matters: any up to MaxRecords for a packet or for Flush.                *)
(* SIGPIPE, which ends the process where it is not ignored, is left out.   *)
(*                                                                         *)
(* The operators named Slip... are not part of the model: each is a way    *)
(* the operator after it could have been got wrong (README, "Mutants").    *)
(***************************************************************************)
EXTENDS FramingResult

CONSTANTS MaxRecords,    \* bound: records of one packet, or of Flush
          MaxSignals     \* bound: reads interrupted

ASSUME MaxRecordsAssumption == MaxRecords \in Nat \ {0}
ASSUME MaxSignalsAssumption == MaxSignals \in Nat

VARIABLES phase,        \* where Run is: "opening", "reading", "flushed", "exited"
          good,         \* std::cout.good()
          held,         \* records that only Flush would emit: PES packets begun
          exit_status   \* what Run returned; 0 before

VARIABLES lost,         \* history: some record's line did not come out whole
          read_failed,  \* history: read(2) failed, other than by a signal
          opened,       \* history: the input could be opened
          signals       \* reads interrupted so far

runVars == <<vars, phase, good, held, exit_status, lost, read_failed, opened, signals>>

-----------------------------------------------------------------------------
\* JsonlOutputRecordSink::Emit of several records: their lines come out whole up to the
\* first that fails, which makes the stream bad; on a bad stream nothing comes out.
EmitRecords(count) ==
    \E whole \in 0..count :
        /\ ~good => whole = 0
        /\ good' = (good /\ whole = count)
        /\ lost' = (lost \/ whole < count)

\* Slip: the handler returns true.
SlipNeverRefuses == status' # "false"

\* The handler returns std::cout.good().
RefusesIfBad == (status' = "false") = ~good'

\* One packet or several are fed; all but the last were accepted, so their records came
\* out.
FeedPackets ==
    /\ \E count \in 0..MaxRecords : EmitRecords(count)
    /\ held' \in 0..MaxRecords
    /\ RefusesIfBad

\* A step of the framer, and the dumper's share if it delivers packets.
FrameStep ==
    /\ phase = "reading"
    /\ FeedStep
    /\ IF delivered' = delivered THEN UNCHANGED <<good, held, lost>> ELSE FeedPackets
    /\ UNCHANGED <<phase, exit_status, read_failed, opened, signals>>

\* FdByteReader::Read returns.
ReadReturns ==
    /\ phase = "reading"
    /\ \/ ((\E n \in 1..ChunkSize : Read(n)) \/ ReadEof) /\ UNCHANGED read_failed
       \/ ReadError /\ read_failed' = TRUE
    /\ UNCHANGED <<phase, good, held, exit_status, lost, opened, signals>>

\* EINTR: FdByteReader::Read calls read(2) again.
ReadInterrupted ==
    /\ phase = "reading"
    /\ status = "reading"
    /\ signals < MaxSignals
    /\ signals' = signals + 1
    /\ UNCHANGED <<vars, phase, good, held, exit_status, lost, read_failed, opened>>

-----------------------------------------------------------------------------
\* open(2), or standard input.
Open ==
    /\ phase = "opening"
    /\ phase' = "reading"
    /\ opened' = TRUE
    /\ UNCHANGED <<vars, good, held, exit_status, lost, read_failed, signals>>

OpenFails ==
    /\ phase = "opening"
    /\ phase' = "exited"
    /\ exit_status' = 1
    /\ UNCHANGED <<vars, good, held, lost, read_failed, opened, signals>>

\* Slip: Flush only after a successful read.
SlipFlushIfOk == good /\ ReadFrameStatus = "kOk"

FlushIf == good

\* ReadAndFramePackets has returned: Flush emits what the PES demux still holds.
FlushPending ==
    /\ phase = "reading"
    /\ ~Running
    /\ phase' = "flushed"
    /\ IF FlushIf THEN held' = 0 /\ EmitRecords(held) ELSE UNCHANGED <<good, held, lost>>
    /\ UNCHANGED <<vars, exit_status, read_failed, opened, signals>>

\* Slip: std::cout is not looked at again after Flush.
SlipStatusOnly == IF ReadFrameStatus = "kOk" THEN 0 ELSE 1

ExitCode == IF good /\ ReadFrameStatus = "kOk" THEN 0 ELSE 1

Return ==
    /\ phase = "flushed"
    /\ phase' = "exited"
    /\ exit_status' = ExitCode
    /\ UNCHANGED <<vars, good, held, lost, read_failed, opened, signals>>

-----------------------------------------------------------------------------
RunInit ==
    /\ Init
    /\ phase = "opening" /\ good = TRUE /\ held = 0 /\ exit_status = 0
    /\ lost = FALSE /\ read_failed = FALSE /\ opened = FALSE /\ signals = 0

RunStep == FrameStep \/ ReadReturns \/ Open \/ OpenFails \/ FlushPending \/ Return

RunNext == RunStep \/ ReadInterrupted

\* Run goes on as long as it can; signals come or not, but not for ever.
RunSpec == RunInit /\ [][RunNext]_runVars /\ WF_runVars(RunStep)

-----------------------------------------------------------------------------
\* Captions still held at the end of the input come out as long as stdout works: also
\* when reading failed, and the run is going to end with an error for it.
HeldCaptionsComeOut == phase = "exited" /\ good => held = 0

\* The exit status is 0 exactly when the input could be opened and read to its end, had
\* sync where it should, all its packets were fed, and no record was lost: not those of
\* the last packet either, nor those of Flush.
ExitStatusTells ==
    phase = "exited" =>
        (exit_status = 0 <=>
            /\ opened /\ ~read_failed
            /\ VerdictOn(stream) = "kOk"
            /\ delivered = PacketsIn(stream)
            /\ ~lost)

\* The first lost record ends the run: the framer hands over no further packet, whose
\* records would follow a gap.
LossEndsOutput == [][lost => UNCHANGED delivered]_runVars

\* Whatever the input, the failures and the signals, the run ends.
RunEnds == <>(phase = "exited")
=============================================================================
