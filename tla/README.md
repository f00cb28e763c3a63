# aribcap-dump in TLA+

aribcap-dump reads an MPEG transport stream from a file or a pipe, follows one
service of it, and prints its ARIB captions and present/following events (EIT)
as JSON lines.  It is one thread.  What is hard about it is not scheduling but
the input: a stream that is cut into reads anywhere, joined in the middle, cut,
spliced and damaged, whose tables come round and round and change under way,
and two time bases that have to be matched.  These modules model that logic,
check it with TLC on small instances and prove the central invariants with
TLAPS for every instance.

    read(2) --chunks--> PacketFramer --packets--> CaptionDumper --records--> stdout
                                                    |  section demux -> PAT, PMT, TOT, EIT
                                                    |  PES demux ----> CaptionRecordEmitter (one per stream)
                                                    |                        | asks the time of a PTS
                                                    +-- ProgramClock <-------+
                                                    +-- EitRecordEmitter

## 1. Inventory

All paths are under `src/src/`.

| Component | State | Operations | What is hard | Correct when |
|---|---|---|---|---|
| Packet framing, `core/packet_framer` | mode, reassembly buffer `pending_`, `initial_offset_`, `initial_sync_failed_` | `Feed`, `FeedUntilEof`, `FdByteReader::Read`, `ReadAndFramePackets` | chunks split packets and probe windows anywhere; false sync bytes; loss of sync inside a chunk; a handler that refuses; unsigned sizes | the packets and the verdict are those of the whole stream, whatever the chunks |
| Program clock, `core/program_clock` | PCR PID, last accepted PCR, reference (PCR, time), suspect count | `SetPcrPid`, `RecordPcr`, `UpdateReferencePointFromTot`, `PtsToUnixMs` | 33-bit wrap; splices with and without a flag; TOTs between a splice and its detection; lost PCRs | a caption is timed with the current series or not at all, and about right |
| Caption dumper, `core/caption_dumper` | tracked PMT PID, emitters per stream; the PID filters of TSDuck's two demuxers; the clock and the EIT emitter | `FeedPacket` (and the table and PES callbacks it causes), `Flush` | table updates in any order; PES packets being assembled meanwhile; a PCR in the packet that completes a PES packet; malformed PATs | filters, emitters and PES packets stay in line; the service is found again |
| Caption classifier, `core/caption_classifier` | none | `ClassifyCaptionStream` | the profile depends on the PMT's PID | |
| Caption record emitter, `core/caption_record_emitter` | profile, one or two decoders | `HandlePes`, `ExtractCaptionMetadata` | second decoder appears during a packet; one decoder fails; ruby regions anywhere | order and number of records; decoders survive; color of the body, all the ruby |
| EIT parser and emitter, `core/eit_parser`, `core/eit_record_emitter` | last emitted version | `HandleEit`, `ParseEit` | empty present section; the same table on two PIDs, changing on one first; texts split over descriptors | events are attributed to their section; the latest table is shown; splitting does not show |
| Records, sink, `core/output_record`, `core/output_record_sink` | output stream | `Emit`, `ToJsonLine` | stream failure; absent values | distinct records give distinct lines |
| Time utilities, `core/ts_utils` | none | PTS parsing, JST conversion | bit layout; the hours between two epochs | a time is what was broadcast, or none |
| Run, `main.cc` | descriptor, exit status | `Run` | open, read and write failures, signals, order of flush and verdict | the exit status tells |
| TSDuck, libaribcaption, CLI11, jsoncons, Catch2 | external | | | |

Interaction is by call and callback within one `FeedPacket`: the clock is sampled
first, then the section demux is fed (which may change the clock, the filters and
the emitters), then, if the PID is still filtered, the PES demux.  The emitters
hold a reference to the clock and read it when a PES packet is *delivered*, which
for an unbounded PES packet is when the next one starts.  The sink is shared.

## 2. Modules

| Module | Models | State |
|---|---|---|
| `FramedStream` | what framing promises, over the whole stream: no chunks, no buffer | position, phase, packets, verdict |
| `PacketFramer` | the framer, one action per read, per iteration and outcome of `Feed`'s loop | the members, the rest of the chunk, packets delivered |
| `FramingResult` | the packets of an input and the verdict on it, as a recursive function of the input | none |
| `ProgramClock` | the clock's methods as operators on a record of its members, and a clock fed any calls | `clock`, `reported`, history `current` |
| `BroadcastClock` | the clock against a broadcaster with a true time, splices and lost PCRs | plus the broadcaster and histories |
| `CaptionRecordEmitter`, `EitRecordEmitter` | handlers as operators | none: `CaptionDumper` keeps their members |
| `CaptionDumper` | the dumper with classifier, emitters and clock, one action per callback | the members, the demuxers' filters, `begun`, records of the last call |
| `ServiceCarousel` | the dumper tuned in to PAT and PMT carousels, with a section demux that remembers versions | plus `pat`, `pmts`, `handled` |
| `EitCarousel` | the dumper with one EIT on two PIDs, which changes and whose versions wrap | plus `on_air`, `sent`, `shown` |
| `DumpRun` | `Run`: open, the framer with the dumper as its handler, a stdout that fails, interrupted reads, flush, exit status | the framer's, `phase`, `good`, `held`, `exit_status` and histories |
| `EventText` | `ParseDescriptors`, fed by a broadcaster that splits what it has to say | the descriptors, and what is meant |
| `CaptionMetadata` | `ExtractCaptionMetadata`, on captions that grow | the caption's regions |
| `PesPts`, `Words` | `ParsePesPts` on headers that may be damaged; words as sets of bits | the header, its PTS, the damage |
| `OutputRecords` | the numbers of `ParseEit`, time conversions, `ToJsonLine`, the sinks' `Emit` | records, lines, the events they are of |
| `*_proofs` | theorems, see 5 | |
| `MC*` | TLC instances; `MCRecordContents` runs `PesPts`, `EventText`, `CaptionMetadata` and `OutputRecords`, which share no state, side by side | |

Composition: `CaptionDumper` EXTENDS the two emitters, takes the clock by
`PC == INSTANCE ProgramClock`, and is EXTENDed by `ServiceCarousel` and
`EitCarousel`; `BroadcastClock` EXTENDS `ProgramClock`; `FramingResult`, and with
it `DumpRun`, EXTENDS `PacketFramer`; `PacketFramer` implements `FramedStream`
by INSTANCE with a refinement mapping.  The proofs compose alike:
`Carousels_proofs` EXTENDS `CaptionDumper_proofs`, which EXTENDS
`Induction_proofs`, as `RecordContents_proofs` does, and `DumpRun_proofs` EXTENDS `FramedStream_proofs`, which EXTENDS `PacketFramer_proofs`.

**How state and actions correspond.**

* *PacketFramer.*  A byte is its offset in the stream, so the buffer and the
  packets are sequences of offsets; the only content is which offsets hold 0x47.
  `cursor` and `end` are `Feed`'s, in stream offsets.  `Continue`, `NeedMoreData`
  and `Stop` are the three `FeedResult`s.  A handler that refuses is the `Stop`
  alternative of the three emitting actions, possible at every packet.
* *ProgramClock.*  The members are one record so that the owners can call
  `RecordPcr` and then `SetPcrPid` in one step, as the code does.  Arithmetic is
  modulo `Modulus` (2^33 in the code); C++ division truncates (`Truncated`).
* *CaptionDumper.*  `FeedPacket` is a conjunct of every action but `Flush`: the
  PCR sample, its diagnostic, then the callback.  Any table may arrive on any
  demuxed PID, because `handleTable` ignores the PID.  `begun` is the part of the
  PES demux that matters: which PIDs have a PES packet under assembly; removing a
  PID drops it.  `EndPes(.., another)` delivers a PES packet at its last packet or
  at the start of the next.  `listed`, `seen` and `earlier` are histories.
  `FeedPacket`'s check of the sync byte is left out: `WholePacketsInOrder` says
  the framer never delivers a packet without one.
* *CaptionRecordEmitter.*  What libaribcaption makes of a payload comes with the
  PES packet, unconstrained: a result per decoder and whether the second language
  is known after the first decode.
* *EitRecordEmitter.*  A table is its version and the number of events of its two
  sections.
* *DumpRun.*  The framer's actions are conjoined with what the handler does: a
  step that delivers packets lets the dumper emit up to `MaxRecords` records, of
  which a suffix may fail, and the framer must have stopped exactly if
  stdout is bad afterwards.  What packet gives which record is left open; that is
  `CaptionDumper`'s.  `held` stands for the PES packets only `Flush` will deliver.
* *EventText.*  A text is a sequence of tokens, one per piece the broadcaster cut,
  so that a piece lost, doubled or out of place shows.  The three loops over
  the descriptor list take the descriptors that `IsRead`; what each takes from them, in
  order, is `Entries` or `Texts`, and what it does with it one by one is a fold
  (`ParseItems`, `FormatExtendedText`).
* *PesPts, CaptionMetadata.*  A word is the set of the positions of its 1 bits,
  since 33 and 32 bits are more than TLC's integers have: a mask is an
  intersection, a shift `Shl` or `Shr`.
* *OutputRecords.*  A JSON object is a TLA+ record with the same keys.  Hours stand
  for milliseconds, so that the nine hours of JST are nine.
* *EitCarousel.*  A table is its serial number; its version is the number modulo
  `Versions`.  A PID may skip tables (lost ones), but fewer than `Versions`.
* *ServiceCarousel.*  TSDuck hands a table over once per version and PID and
  forgets what it handed over when a PID is removed.

**Mutants.**  An operator named `Slip...` is not part of a model.  It is the
operator it precedes, got wrong in a plausible way (a dropped reset, a swapped
order, an off-by-one).  Putting it in the operator's place makes TLC find a
property violated, which shows that the property depends on the code being as it
is.  PROJECT.json pairs each property of each passing run with one.

## 3. Runs

| Run | Config | Shows | Bounds |
|---|---|---|---|
| `framer` | `MCPacketFramer.cfg` | types, the buffer's invariants, `ChunkingDoesNotShow` against the recursive definition of framing (`FramingResult`), termination, refinement of `FramedStream` | packets of 3 bytes, probe of 2 packets; all inputs up to 9 bytes, and all 9-byte continuations of a locked window; all chunkings, refusals and read errors |
| `program_clock` | `MCProgramClock.cfg` | the reference belongs to the series and PID tracked; it is lost only with a report or a PID change | wrap at 8, 2 PIDs, 3 times; any calls, without bound |
| `broadcast_clock` | `MCBroadcastClock.cfg` | how far a converted time can be off; captions are timed again after a splice; no false alarm | wrap at 64, 10 ticks, 2 splices, 1 lost PCR |
| `caption_dumper` | `MCCaptionDumper.cfg` | filters, emitters, pending PES packets, decoders and times stay in line; one PES packet's records come in order, an error last | 2 PMT PIDs (one of them one-seg), 2 streams of which one can carry the PCR, a PID for the PCR alone, 1 reserved PID, 4 PMTs, wrap at 3, 3 PES contents, 1 EIT; any packets, without bound |
| `service_carousel` | `MCServiceCarousel.cfg` | the dumper ends up following the service, and nothing is missed in between | 5 changes of the PAT or a PMT, in any order |
| `dump_run` | `MCDumpRun.cfg` | framing is that of the whole stream also with a longer probe and whatever stdout refuses; what the exit status says; held captions come out; output ends at the first lost record; the run ends | packets of 2 bytes, probe of 3, all inputs up to 7 bytes and 8-byte continuations of a locked window, chunks of up to 8; 1 record per packet, 1 signal |
| `record_contents` | `MCRecordContents.cfg` | a PTS is read back, a damaged one is none; splitting an event's text does not show; color and ruby; distinct records give distinct lines; times as broadcast or null | PTSs with at most 2 bits set or clear, every single damaged bit; 5 pieces in up to 4 descriptors; 3 regions, 4 characters, 2 colors; any 2 records |
| `eit_carousel` | `MCEitCarousel.cfg` | events are reported under their own section; the latest EIT is shown, and shown last | versions modulo 4, 15 tables, at most 3 unseen |

and four that TLC refutes, each against a sentence of the repository (findings):

| Run | Property | The sentence |
|---|---|---|
| `framer_eof_tail` | `EofLeavesNoWholePacket` | packet_framer.hpp:50, a true result means every packet was delivered |
| `clock_near_epoch` | `TimesAreNonNegative` | ts_utils.hpp:22, `unix_ms` must be non-negative |
| `clock_stale_anchor` | `AnchorWithinPcrInterval` | program_clock.cc:151, the offset is up to one PCR interval |
| `dumper_splice` | `TimedInOwnSeries` | program_clock.cc:160, no plausible but wrong time |

None of the four is a crash; they are the places where what is written promises
more than the code does.

**Why the bounds are enough.**

* *Framer.*  The code's sizes (188, 4, 64 KiB) only enter as a packet size, a
  probe length and a chunk size; nothing depends on their values beyond their
  order.  A stream of three packets is long enough for a false candidate before
  and inside the window, a lock at every offset, a loss of sync at every offset
  after it, a second lock, and a cut at each of these.  `ChunkSize` is at
  least the longest input, so a stream may also come in one piece.  `dump_run`
  takes a probe of 3, since a discard in a window of 2 leaves at most one boundary
  buffered, and in one of 3 two; its inputs end in a window more than it takes to
  lock.  The code's probe of 4 and the bigger instances are what the proofs are for.
* *Clock.*  Nothing is bounded in `program_clock` but the size of the wrap; 8 with
  a sane step of 2 has forward, backward and tied deltas.  In `broadcast_clock`
  the jumps are all those that can pass for an advance or almost, in both
  directions, and one in between; two splices let the second fall between the
  first and its detection.  `SilentShift` names what the code cannot notice: a
  splice that looks like an advance of less than a second.  `ErrorIsBounded` is
  only claimed within half a wrap of the reference (13 hours in the code).
* *Dumper.*  Two PMT PIDs and two streams are what a move, a profile change and a
  PES packet on one stream during a change of the other need.  The four PMTs let the
  first stream appear as a caption of either profile, as none, and for want of each
  part of a descriptor, and the second come and go beside it.  A stream PID that
  carries the PCR and one that does not are told apart by the code, as is a PID
  for the PCR alone; a second of either kind would only repeat it.  The clock's wrap
  is at its smallest there, as its arithmetic is checked and proved on its own.
  The run's VIEW leaves out `earlier`: no action's guard and no other variable's
  next value reads it, and of the run's properties only `TypeOK` names it, which is
  proved; `dumper_splice`, whose property reads it, has no VIEW.
  The PES contents are a caption in both languages, an error of the second decoder
  after the first's caption, and an error of the first, with a second decoder or not.
  The tables of `eit_carousel` have at most one event per section, as ARIB's present
  and following have, and each combination of empty sections.
* *Carousel.*  `MaxChanges` = 5 allows away-and-back twice, or with a reserved PID
  in between.  Versions do not wrap: after 32 unseen changes a demux cannot tell.
* *Run.*  An input ends in each verdict, with packets before it, in one chunk or
  many.  One record per packet may come out or fail, and a
  step that delivers several packets lets any of them fail; one signal can come at
  any read.  The theorems of `DumpRun_proofs` are for any number of either.
* *Event text.*  Five pieces are an item begun, continued over two descriptors,
  and followed by another item and free text, or the same with other descriptors
  in between.
* *PTS.*  Each bit is set alone, clear alone, and together with each other bit, so
  no two bits can be confused; the theorem covers all 2^33.
* *Metadata, records.*  Ruby before, after and around the body; two records, as the
  property compares pairs.  The start times are those around both epochs and the
  nine hours after them, the durations those around the limits.
* *EIT.*  With 4 versions 15 tables wrap three times; 3 unseen is one less than the wrap.

**Fairness.**  `FramingEnds` assumes that `Feed`'s loop does not rest and that
every read returns: WF of the loop steps and of the reads.  A pipe whose writer
neither writes nor closes blocks the program, rightly; nothing is claimed then.
`Converges` assumes that the broadcaster repeats each table (WF of each send) and
that at most `MaxChanges` changes are made; changing has no fairness.  A lost or
damaged table is one not sent.  `EitConverges` likewise (WF of each PID's send),
and only speaks of a table that stays on both PIDs.  `RunEnds` assumes that `Run`
does not rest and that open and read return (WF of `RunStep`); signals have no
fairness, but `MaxSignals` bounds them: a read interrupted for ever never returns.
All other properties are safety.

**Deadlock.**  The framer stops at the end of the input, `Run` with its return, the
broadcaster at `EndTime`, and the dumper after `Flush`; event texts, captions,
headers and record lists only grow to their bounds.  Those runs have
`CHECK_DEADLOCK FALSE`; the two carousels are checked for deadlock.

## 4. What the properties say

The hazards in PROJECT.json, each at its line, are what the properties are for.
The ones to know:

* `ChunkingDoesNotShow` and `ImplementsFramedStream`: however the reads fall, the
  output is that of framing the stream in one piece.
* `PendingIsContiguous`, `PendingFits`: no byte lost or repeated in the buffer and
  no unsigned subtraction that wraps.
* `ReferenceIsCurrent`, `LossIsReported`: no stale time base and no silent loss.
* `ErrorIsBounded`: a converted time is wrong by no more than the age of the PCR a
  TOT was paired with, unnoticeable splices, and a millisecond.
* `TimesAreCurrent`: also when the discontinuity is in the packet that completes
  the caption.
* `PesReachesItsEmitter`, `DecodersSurvive`: a decoder sees PES packets of its own
  registration only, and an unrelated PMT update does not reset it.
* `ExitStatusTells`: whoever reads the output only has the exit status to know
  whether it is complete; the last write may fail in `Flush`, when all else is done.
* `EventIsAsMeant`: an item cut anywhere, over any descriptors, is one item.
* `PtsIsReadBack`: 33 bits from three shifted fields, and no wrong time from a
  damaged header as far as the header can tell.
* `TimesAreAsBroadcast`: also in the hours between the epoch in JST and in UTC.
* `LatestIsShown`: repeats of the older table on the other PID do not win.
* `Converges`, `NothingToWaitFor`: whatever was announced before, the dumper ends
  up with the service, although each table version is handed over only once.

## 5. Proofs

Checked by `tlapm`, for all values of the constants that satisfy the named ASSUMEs.
Every safety property the passing runs check is proved.

* **`PacketFramer_proofs`**: `TypeCorrect`, `NoByteLost`, `BufferNeverOverruns`,
  `BufferStartsAtCandidate`, `InitialSearchIsBounded`.  The inductive invariant
  `IInv` is the type invariant, the four properties, that the cursor is before the
  end of the chunk while `Feed` runs (`ChunkBounds`), and that a failed initial
  search ends the run.  None of the four is inductive alone: that the buffer is
  not full needs that a full window never survives an iteration, which needs the
  candidate in front; that a discard keeps the buffer contiguous needs that it was.
  `PacketsAreWhole`: where the buffer begins is the
  position framing has come to (`Position`); the invariant adds that the last packet
  handed over ends at or before it.  A step that hands nothing over does not move
  the position back; one that does starts at the position and moves it past the
  packets.  That packets start with a sync byte rests on `CandidateAtFront`.
* **`FramedStream_proofs`**: `FramesTheWholeStream`, the refinement.  One lemma per
  abstract step says which framer's state change is that step; one lemma per action
  then names its step.  What needs an argument is that no alignment is passed over:
  the bytes a scan or a discard skips hold no sync byte, a rejected candidate has a
  boundary without one in the window read so far, and at the end of the input less
  than a probe window is left (`PendingFits`).
* The same module: `ResultIsThatOfTheInput`, `ChunkingDoesNotShow` for every input.
  `FramingResult` cuts an input offset by offset, without a phase and without looking
  past the packet or the alignment that begins there, so that what is cut up to an
  offset is defined on its own.  `ResultInv` says that what is delivered is what is cut
  up to the position, and what the phase stands for: nothing locks before it, the last
  packet ends there, or none can begin where the last one ended (`AsCut`).  One lemma
  per step of `FramedStream` keeps it; the refinement makes that enough for the framer.
  What `Cut` comes to is shown by induction on the offset (`CutWaits`, `CutTakes`,
  `CutTakesRun`, `CutGrows`).
* **`ProgramClock_proofs`**, of the clock alone: `DeltaIsNearest` (the wrap-aware
  difference is congruent, nearest, and forward on a tie), `TypeCorrect`,
  `NoStaleReference`, `MembersCohere`, `NoSilentLoss`.  `IInv` is the type invariant,
  `ReferenceIsCurrent` and `MembersAgree`: a TOT anchors to the last PCR, which
  must then be a tick, and only exists with a PCR PID.  Each method has a lemma
  saying what it leaves in each member; the actions' lemmas cite those.
* The same module, of the clock behind the broadcaster, for any wrap, PCR interval,
  confirmation, jumps and losses:
  * `TimedAgain` and `NoFalseAlarms`, from `InStepInv`.  The clock is *in step* when
    nothing is suspected and the last PCR it accepted is the last that came.  As
    long as none is lost, it is in step unless a change of series is still to be
    found out, and it is in step again once more PCRs of the new series have come
    than are suspected.  In step, the next PCR is a small step forward and is accepted
    (`InStepAccepts`); this is where `PcrInterval <= MaxSaneDelta` is needed.
  * `TimesAreClose`, from `DriftInv`: there is a moment `at` at which the last
    accepted PCR was sent, no longer ago than the suspected and lost PCRs account
    for, and a `shift`, at most what the silent splices can have added, such
    that PCR and reference are `at - anchor_at + anchor_age + shift` apart, modulo
    the wrap.  Neither is a variable of the model, so both are witnesses that every
    step has to find anew; a splice that goes unnoticed moves `shift`.  That the
    distance is also the one the clock computes is `DeltaIsNearest` within half a
    wrap (`DeltaOfShortWay`), and the millisecond is C++'s truncation
    (`TruncatedIsNear`).
* **`CaptionDumper_proofs`**: `FiltersFollowMembers`, `EmittersAreOfLastPmt`,
  `NoPesCrossesRegistrations`, `SecondDecoderIsKept`, from `IInv`, which adds `MembersOK` to
  the three invariants: that the tracked PMT PID is not reserved (else removing it
  would take a reserved PID out of the filter), and that `seen` only names emitters
  that exist (else a new emitter would inherit the PES packet of an old one).
  * `NoStaleReference` has an invariant of its own, `ClockInv`: the clock keeps the
    members of a clock, and its reference is of the PCR PID and series in use.  A
    packet's PCR is sampled before its PMT or TOT is handled, so the argument follows
    that order: only a sample without a discontinuity keeps the reference.
  * `TypeCorrect` puts `IInv`, `ClockInv` and the remaining types (`RestOK`) together.
  * `CaptionsAreTimedInSeries`, `RecordsInOrder` and `SectionsAreRight`, from
    `RecordsInv`: every record of the last call is right for the clock it left
    (`IsRight`), and those of a PES packet are in order.  The first rests on
    `ClockInv`, as a PTS is only converted while there is a reference.  `Flush` emits
    several PES packets' records at once, flattened; that nothing but their own
    records comes out needs `Induction_proofs`.
* **`Induction_proofs`**: what `FlattenSeq` and `FoldLeft` return.  Both are recursive
  functions, that is CHOICEs, so it is first shown that a function satisfies the
  equation (`FlattensExists`, `FoldsSetsExists`); the inductions use that a set of
  naturals has a least element (`LeastNat`), or a set of sequences a shortest
  (`ShortestSeq`), in the place of the library's theorems, which take a predicate as a
  parameter.  Then both obey the law of `Append`: `FlattenSeqAppend`, and `TraceMore`
  for a fold, which the library computes over the set of indices, the greatest
  first, so that it is shown to take the steps one after the other (`FoldTraces`).
* **`Carousels_proofs`**.  `NothingIsWithheld`: the dumper in the carousel is a dumper
  (`CarouselFeedsDumper`), so `CaptionDumper_proofs` holds of it; `FollowInv` adds
  that the demux remembers no version that is not on the air yet, and none of a
  PMT PID that is not tracked (that PID was removed, `DemuxersAgree`), and that the
  PAT and the PMT it does remember were acted on.
  `LatestTableIsShown`: for any number of PIDs, `ShownInv` says that some PID has
  sent the table that was handled last, and that it is the one shown *or* another
  PID still sends an earlier one whose version is the same.  When all PIDs
  have come to one table, the latter cannot be.  It rests on a PID missing fewer
  tables than there are versions.
* **`RecordContents_proofs`**.  `EveryPtsIsReadBack`, for all 2^33 PTSs, which TLC only
  samples.  The argument is bit by bit (`PtsInv`): `PtsOf` gives bit i exactly if the
  header has the bit at `Position(i)` (one lemma per byte), `Position` is injective and
  meets no flag, prefix or marker bit, and `Damage` changes one bit of the header.
  `TimesReachTheOutput`, for every epoch, start time and duration: `TimesInv` pairs
  each line with the event it is of; the lemma under it is that the offset to UTC
  `ParseEit` takes off is the one the formatter adds.  `LinesKeepRecordsApart`, for
  any records: each line is its record's (`LinesInv`), and `ToJsonLine` is injective,
  shown key by key (`TimesShowApart`, `OptionalsShowApart`, `ListsShowApart`) and then
  kind by kind.

  The loops of the parser and of the emitter are folds, and no prover takes a lemma
  about every operator, so each of the four folds has the same lemmas of its own
  (`...Trace`, `...Type`, `...Empty`, `...Fold`), which say that it takes one step more
  for one element more.  `EventIsRead`, for any number of pieces and descriptors:
  `TextIInv` says that what the parser reads of the list so far is what was announced so
  far; `PutIsRead` that a piece put into the last descriptor or into a new one is
  read after the others, wherever the cut; and `FormatIsJoined` that laying out items and text
  line by line, with a line break only where something is in front, is joining what
  they say.  `MetadataIsTaken`, for any regions: `IsMetadataOf`, kept by one region
  more (`AddRegionKeepsMetadata`), says that the color is that of the first body
  character, which needs that a color once taken is not overwritten, and that the
  ruby texts one after the other are those of the ruby regions.  `DigitsAreBytes`
  shows that the eight digits are the four bytes.
* **`DumpRun_proofs`**: `NothingIsLeftHeld`, `OutputEndsAtLoss`, `ZeroMeansComplete`.
  `RunIInv` ties stdout to the framer and to the history: stdout is good exactly as long
  as no record was lost, the framer runs only while it is good, a failed read leaves
  the framer's status `false`, and after `Flush` nothing is held behind a good
  stdout.  So the exit status is 0 exactly when the input was opened, framed well
  and its records written.
  `StatusTellsOfTheInput` (`ExitStatusTells`) says it of the input: it had sync where it
  should and all its packets were fed.  The run is a behaviour of the framer
  (`RunIsFramer`), so `ChunkingDoesNotShow` holds of it; `EndInv` adds that the framer
  only ends with `false` for want of sync, a failed read or a lost record, and has ended
  when `Flush` is called.

**Assumptions.**  Each is named, in the module that declares the constants, and TLC
evaluates it in the runs.

| Assumption | Why the code justifies it |
|---|---|
| `PktSizeAssumption`, `SyncProbePacketsAssumption`, `ChunkSizeAssumption`, `StreamsAssumption` | sizes are positive; a stream's sync bytes are among its bytes |
| `ModulusAssumption`, `MaxSaneDeltaAssumption`, `ConfirmCountAssumption`/`ClockAssumption`, `TicksPerMsAssumption` | 2^33, one second and 2 in program_clock.cc |
| `UnixTimesAssumption`, `PidsAssumption`, the `NoneAssumption`s | times are integers; `PID_NULL` is no stream's; an absent value is no value |
| `PcrIntervalAssumption`, `BroadcastAssumption` | PCRs come more often than `kMaxSanePcrDelta90k`; the broadcaster's PCR PID exists, and a TOT can carry any time |
| `SectionPidsAssumption`, `PatPidAssumption`, `StreamMapsAssumption`, `EsPidsAssumption` | the reserved PIDs are those the constructor adds; PIDs are finitely many |
| `EitsAssumption` | eit_parser.hpp takes a present section to hold at most one event |
| `ContentsAssumption` | a PES packet is what `HandlePes` distinguishes; a PTS has 33 bits |
| `EitPidsAssumption`, `VersionsAssumption`, `TablesAssumption` | EITs come on reserved PIDs; consecutive tables have consecutive versions, and a PID misses fewer than wrap |
| `CaptionsAssumption`, `DiagnosticsAssumption`, `EventsAssumption`, `ListsAssumption` | the structs of output_record.hpp; ts_utils.hpp wants times that are not negative |
| `UnixEpochAssumption`, `MaxUint32Assumption` | 1970 begins a day; a limit is a number |
| `PtssAssumption` | 33 bits |
| `EmitEmptyCaptionsAssumption`, `EitOutputAssumption`, `ColorsAssumption`, `NoColorAssumption` | two options of the command line, the latter not empty; a color is four bytes; eight digits are not `std::nullopt` |
| `MaxRecordsAssumption`, `MaxSignalsAssumption` | bounds |

**Only model-checked.**  Everything temporal: `FramingEnds`, `Converges`,
`EitConverges`, `RunEnds`.  Liveness and ENABLED are out of the prover's reach.  So are
RECURSIVE operators, `SelectSeq`, of which it knows no definition, and the library's
induction theorems, whose predicates no installed prover can instantiate; the
models that are proved about use recursive functions and folds instead.

## 6. Not modelled

* The spelling of JSON (jsoncons) and of a time (`std::format`), and whether a line
  is valid UTF-8; `LanguageCodeToString`, three bytes of a word; `Pts90kToMs`, which
  only libaribcaption sees.
* Decoding of descriptors and of ARIB strings, the demuxers' own parsing (sections,
  continuity, CRC), libaribcaption, and the command line parser: external.
* What an event's text should be when descriptors of an item are missing, reordered
  or in two languages: the code looks at none of it and no document says.
* SIGPIPE, which ends the process before stdout can be found bad where it is not
  ignored, and memory allocation failure.

## 7. Plan

Done, in this order: `FramedStream`, `PacketFramer` and its proofs, `ProgramClock`
and its proofs, `BroadcastClock`, the emitters, `CaptionDumper` and its proofs,
`ServiceCarousel`, `DumpRun` and its proofs, `EventText`, `PesPts`,
`CaptionMetadata`, `OutputRecords`, `EitCarousel`, the proofs about what records say,
about the carousels, about the clock behind a broadcaster, and about the results of
framing and of the run.  Nothing of the plan is left.
What could be added is named in 6; of that, the joining of extended event
descriptors of which one is missing wants a decision on what the text should be first.
