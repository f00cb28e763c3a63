--------------------------- MODULE CaptionDumper ----------------------------
(***************************************************************************)
(* CaptionDumper (core/caption_dumper.{hpp,cc}) with its classifier        *)
(* (core/caption_classifier.cc): follows one service through PAT and PMT,  *)
(* keeps one emitter per caption stream, and drives the clock and the EIT  *)
(* emitter.  Every action but Flush is one FeedPacket: the PCR is sampled  *)
(* first, then the demuxers call back.                                     *)
(*                                                                         *)
(* TSDuck's demuxers are outside the repository.  Of the section demux the *)
(* module keeps the PID filter: any table may come on any demuxed PID, as  *)
(* handleTable does not look at the PID.  Of the PES demux it keeps the    *)
(* filter and the PIDs with a PES packet begun: one is assembled from its  *)
(* start, dropped when its PID is removed, and delivered at its end.  A    *)
(* packet completes at most one table or PES packet; one that completes    *)
(* two is the same as two in a row.                                        *)
(*                                                                         *)
(* The operators named Slip... are not part of the model: each is a way    *)
(* the operator after it could have been got wrong (README, "Mutants").    *)
(***************************************************************************)
EXTENDS CaptionRecordEmitter, EitRecordEmitter, Integers, FiniteSets, SequencesExt

CONSTANTS Modulus, MaxSaneDelta, ConfirmCount, TicksPerMs,   \* see ProgramClock
          Pids, NullPid, UnixTimes, None,
          ReservedSectionPids,   \* reserved_section_pids_
          PmtPids,               \* other PIDs a PAT can list
          OneSegPmtPids,         \* those in kOneSegPmtPidMin..kOneSegPmtPidMax
          EsPids,                \* PIDs of elementary streams
          StreamMaps,            \* what a PMT's stream list can be
          Eits,                  \* the service's EIT p/f tables
          PesContents,           \* what PES packets hold for the decoders
          Ptss                   \* the PTSs they can carry

ASSUME ClockAssumption == ConfirmCount \in Nat \ {0, 1}
ASSUME NoneAssumption == None \notin Int
ASSUME SectionPidsAssumption ==
    /\ ReservedSectionPids \cap PmtPids = {}
    /\ OneSegPmtPids \subseteq PmtPids
    /\ None \notin ReservedSectionPids \cup PmtPids \cup EsPids
ASSUME StreamMapsAssumption == \A streams \in StreamMaps : DOMAIN streams \subseteq EsPids
ASSUME EsPidsAssumption == IsFiniteSet(EsPids)
\* A present section has at most one event, as eit_parser.hpp takes for granted when it
\* says that index 1 is the following event's.
ASSUME EitsAssumption ==
    \A eit \in Eits : eit.version # None /\ eit.present \in {0, 1} /\ eit.following \in Nat
ASSUME ContentsAssumption == PesContents \subseteq Pes /\ Ptss \subseteq 0..(Modulus - 1)

VARIABLES clock,                 \* program_clock_
          reported, current,     \* see ProgramClock
          caption_emitters,      \* caption_emitters_
          current_pmt_pid,       \* current_pmt_pid_
          section_pids,          \* section_demux_: its PID filter
          pes_pids,              \* pes_demux_: its PID filter
          begun,                 \* pes_demux_: PIDs with a PES packet begun
          last_emitted_version,  \* eit_emitter_.last_emitted_version_
          emitted,               \* what the last call sent to sink_
          flushed                \* Flush was called

members == <<caption_emitters, current_pmt_pid, section_pids, pes_pids, last_emitted_version>>

VARIABLES listed,   \* history: the caption streams of the PMT being followed
          seen,     \* history: emitters that a PES packet has begun for
          earlier   \* history: PES packets begun in an earlier PCR series or on another PCR PID

history == <<listed, seen, earlier>>
vars == <<clock, reported, current, members, begun, emitted, flushed, history>>

PC == INSTANCE ProgramClock

NoEmitters == [pid \in {} |-> NewEmitter("kProfileA")]

-----------------------------------------------------------------------------
(* caption_classifier.cc.                                                  *)

ClassifyCaptionComponent(component_tag, data_component_id, one_seg_pmt_pid) ==
    IF /\ component_tag = "kComponentTagDefaultCaption" /\ ~one_seg_pmt_pid
       /\ data_component_id \in {None, "kDataComponentProfileA"}
    THEN "kProfileA"
    ELSE IF /\ component_tag = "kComponentTagOneSegCaption" /\ one_seg_pmt_pid
            /\ data_component_id = "kDataComponentProfileC"
    THEN "kProfileC"
    ELSE None

\* The profile to decode a PMT's stream with, or None.
ClassifyCaptionStream(pmt_pid, stream) ==
    IF stream.stream_type # "ST_PES_PRIV" \/ stream.component_tag = None THEN None
    ELSE ClassifyCaptionComponent(stream.component_tag, stream.data_component_id,
                                  pmt_pid \in OneSegPmtPids)

\* SyncCaptionStreams' `desired`.
Desired(pmt_pid, streams) ==
    [pid \in {es \in DOMAIN streams : ClassifyCaptionStream(pmt_pid, streams[es]) # None} |->
        ClassifyCaptionStream(pmt_pid, streams[pid])]

-----------------------------------------------------------------------------
(* The packet: its PID and, on a PID that carries one, its PCR.            *)

Packet ==
    [pid : Pids \cup ReservedSectionPids \cup PmtPids \cup EsPids,
     pcr : PC!Ticks \cup {None}, discontinuity_indicator : BOOLEAN]

PcrRecord(packet) ==
    LET kind == PC!PcrDiscontinuity(clock, packet)
    IN  IF kind = None THEN << >>
        ELSE <<[type |-> "pcrDiscontinuity", pid |-> packet.pid, flagged |-> kind = "flagged"]>>

\* The clock when the demuxers are fed.
Sampled(packet) == PC!RecordPcr(clock, packet)

\* FeedPacket: RecordPcr and its diagnostic, then what the callback does to the clock
\* and sends to the sink.
FeedPacket(packet, clock_after, records) ==
    /\ ~flushed
    /\ clock' = clock_after
    /\ reported' = PC!PcrDiscontinuity(clock, packet)
    /\ emitted' = PcrRecord(packet) \o records
    /\ UNCHANGED flushed

\* History: a new series or PCR PID outdates the reference and what began before it.
SeriesChanges == reported' # None \/ clock'.pcr_pid # clock.pcr_pid
Outdate(anchored) ==
    /\ current' = ((current /\ ~SeriesChanges) \/ anchored)
    /\ earlier' = (IF SeriesChanges THEN begun ELSE earlier) \cap begun'

-----------------------------------------------------------------------------
(* PAT and PMT.                                                            *)

\* Slip: the PID stays in the section demux.
SlipKeepsPmtPid == section_pids

\* section_demux_.removePID(*current_pmt_pid_), if there is one.
WithoutPmtPid == section_pids \ {current_pmt_pid}

\* UnregisterCaptionStream of these PIDs: both demux state and emitter go.
SlipKeepsBegun(pids) == begun

PesWithout(pids) == begun \ pids

\* TeardownTargetService, but for section_demux_.
TeardownStreams ==
    /\ caption_emitters' = NoEmitters
    /\ pes_pids' = pes_pids \ DOMAIN caption_emitters
    /\ begun' = PesWithout(DOMAIN caption_emitters)
    /\ seen' = {}
    /\ listed' = NoEmitters

KeepStreams == UNCHANGED <<caption_emitters, pes_pids, begun, seen, listed>>

\* The target service is not listed.
TeardownTargetService ==
    /\ section_pids' = WithoutPmtPid
    /\ current_pmt_pid' = None
    /\ TeardownStreams

\* Slip: a reserved PID is tracked like any other.
SlipNeverCollides(pmt_pid) == FALSE

Collides(pmt_pid) == pmt_pid \in ReservedSectionPids

\* The service moves to another PMT PID, or appears.
MoveTo(pmt_pid) ==
    /\ section_pids' = WithoutPmtPid \cup {pmt_pid}
    /\ current_pmt_pid' = pmt_pid
    /\ IF current_pmt_pid # None THEN TeardownStreams ELSE KeepStreams

\* A valid PAT, listing the service on pmt_pid or not at all.
FeedPat(packet, pmt_pid) ==
    /\ packet.pid \in section_pids
    /\ FeedPacket(packet, Sampled(packet),
                  IF Collides(pmt_pid)
                  THEN <<[type |-> "reservedPmtPidCollision", pid |-> pmt_pid]>> ELSE << >>)
    /\ \/ pmt_pid = None /\ TeardownTargetService
       \/ /\ pmt_pid # None
          /\ Collides(pmt_pid) \/ current_pmt_pid = pmt_pid
          /\ KeepStreams
          /\ UNCHANGED <<section_pids, current_pmt_pid>>
       \/ /\ pmt_pid # None
          /\ ~Collides(pmt_pid) /\ current_pmt_pid # pmt_pid
          /\ MoveTo(pmt_pid)
    /\ UNCHANGED last_emitted_version
    /\ Outdate(FALSE)

\* Slip: a stream whose profile changed keeps its emitter.
SlipKeepsProfile(desired) == {pid \in DOMAIN caption_emitters : pid \in DOMAIN desired}

\* Slip: every stream gets a new emitter.
SlipKeepsNone(desired) == {}

\* The emitters a PMT leaves alone: same stream, same profile.
Kept(desired) ==
    {pid \in DOMAIN caption_emitters :
        pid \in DOMAIN desired /\ caption_emitters[pid].profile = desired[pid]}

\* The others are unregistered, and those missing registered anew.
SyncCaptionStreams(desired) ==
    /\ caption_emitters' = [pid \in DOMAIN desired |->
            IF pid \in Kept(desired) THEN caption_emitters[pid] ELSE NewEmitter(desired[pid])]
    /\ pes_pids' = (pes_pids \ (DOMAIN caption_emitters \ Kept(desired))) \cup DOMAIN desired
    /\ begun' = PesWithout(DOMAIN caption_emitters \ Kept(desired))
    /\ seen' = seen \cap Kept(desired)
    /\ listed' = desired

\* A valid PMT of the target service.
FeedPmt(packet, pcr_pid, streams) ==
    /\ packet.pid \in section_pids
    /\ FeedPacket(packet, PC!SetPcrPid(Sampled(packet), pcr_pid), << >>)
    /\ SyncCaptionStreams(Desired(packet.pid, streams))
    /\ UNCHANGED <<section_pids, current_pmt_pid, last_emitted_version>>
    /\ Outdate(FALSE)

-----------------------------------------------------------------------------
(* TOT, EIT, and everything that is ignored.                               *)

\* A valid TOT with a representable time.
FeedTot(packet, unix_ms) ==
    /\ packet.pid \in section_pids
    /\ FeedPacket(packet, PC!UpdateReferencePointFromTot(Sampled(packet), unix_ms), << >>)
    /\ UNCHANGED <<members, begun, listed, seen>>
    /\ Outdate(PC!CanAnchor(Sampled(packet)))

\* A valid EIT p/f of the target service.
FeedEit(packet, eit) ==
    /\ packet.pid \in section_pids
    /\ FeedPacket(packet, Sampled(packet), EitRecords(last_emitted_version, eit))
    /\ last_emitted_version' = eit.version
    /\ UNCHANGED <<caption_emitters, current_pmt_pid, section_pids, pes_pids, begun, listed, seen>>
    /\ Outdate(FALSE)

\* A packet that completes nothing, or an invalid table, another service's, a TDT, or one
\* of a type not handled.
FeedIgnored(packet) ==
    /\ FeedPacket(packet, Sampled(packet), << >>)
    /\ UNCHANGED <<members, begun, listed, seen>>
    /\ Outdate(FALSE)

-----------------------------------------------------------------------------
(* PES packets.                                                            *)

\* A PES packet begins on a caption PID.
BeginPes(packet) ==
    /\ packet.pid \in pes_pids \ begun
    /\ FeedPacket(packet, Sampled(packet), << >>)
    /\ begun' = begun \cup {packet.pid}
    /\ seen' = seen \cup {packet.pid}
    /\ UNCHANGED <<members, listed>>
    /\ Outdate(FALSE)

\* Slip: the PES packet is handled before the packet's PCR.
SlipEarlyTime(packet, pts) == IF pts = None THEN None ELSE PC!PtsToUnixMs(clock, pts)

\* The time of a PES packet delivered with this packet.
DeliveryTime(packet, pts) ==
    IF pts = None THEN None ELSE PC!PtsToUnixMs(Sampled(packet), pts)

\* handlePESPacket: one is complete, or ended by the start of another.
EndPes(packet, pts, pes, another) ==
    LET pid == packet.pid
    IN  /\ pid \in pes_pids \cap begun
        /\ pid \in DOMAIN caption_emitters
        /\ FeedPacket(packet, Sampled(packet),
                      PesRecords(caption_emitters[pid], pid, pes, DeliveryTime(packet, pts)))
        /\ caption_emitters' =
               [caption_emitters EXCEPT ![pid] = EnsureSecondLanguageDecoder(@, pes)]
        /\ begun' = IF another THEN begun ELSE begun \ {pid}
        /\ UNCHANGED <<current_pmt_pid, section_pids, pes_pids, last_emitted_version, listed, seen>>
        /\ current' = (current /\ ~SeriesChanges)
        /\ earlier' = (IF SeriesChanges THEN begun ELSE earlier) \cap (begun \ {pid})

\* flushUnboundedPES, at the end of the input: `last` are the unbounded ones among those
\* begun, with their contents.
Flush(pts, last) ==
    /\ ~flushed
    /\ flushed' = TRUE
    /\ begun' = begun \ DOMAIN last
    /\ emitted' =
           LET time == IF pts = None THEN None ELSE PC!PtsToUnixMs(clock, pts)
               records(pid) == PesRecords(caption_emitters[pid], pid, last[pid], time)
           IN  FlattenSeq([i \in 1..Cardinality(DOMAIN last) |->
                              records(SetToSeq(DOMAIN last)[i])])
    /\ caption_emitters' =
           [pid \in DOMAIN caption_emitters |->
               IF pid \in DOMAIN last
               THEN EnsureSecondLanguageDecoder(caption_emitters[pid], last[pid])
               ELSE caption_emitters[pid]]
    /\ reported' = None
    /\ earlier' = earlier \ DOMAIN last
    /\ UNCHANGED <<clock, current, current_pmt_pid, section_pids, pes_pids,
                   last_emitted_version, listed, seen>>

-----------------------------------------------------------------------------
Init ==
    /\ clock = PC!NewClock /\ reported = None /\ current = FALSE
    /\ caption_emitters = NoEmitters
    /\ current_pmt_pid = None
    /\ section_pids = ReservedSectionPids
    /\ pes_pids = {} /\ begun = {}
    /\ last_emitted_version = None
    /\ emitted = << >> /\ flushed = FALSE
    /\ listed = NoEmitters /\ seen = {} /\ earlier = {}

\* Packets worth distinguishing: only PIDs that can carry the PCR have one.
Packets == {packet \in Packet :
    /\ packet.pid \notin Pids => packet.pcr = None
    /\ packet.pcr = None => ~packet.discontinuity_indicator}

Feed(packet) ==
    \/ \E pmt_pid \in ReservedSectionPids \cup PmtPids \cup {None} : FeedPat(packet, pmt_pid)
    \/ \E pcr_pid \in Pids \cup {NullPid}, streams \in StreamMaps :
          FeedPmt(packet, pcr_pid, streams)
    \/ \E unix_ms \in UnixTimes : FeedTot(packet, unix_ms)
    \/ \E eit \in Eits : FeedEit(packet, eit)
    \/ FeedIgnored(packet)
    \/ BeginPes(packet)
    \/ \E pts \in Ptss \cup {None}, pes \in PesContents, another \in BOOLEAN :
          EndPes(packet, pts, pes, another)

Next ==
    \/ \E packet \in Packets : Feed(packet)
    \/ \E unbounded \in SUBSET begun : \E pts \in Ptss \cup {None}, last \in [unbounded -> PesContents] :
          Flush(pts, last)

Spec == Init /\ [][Next]_vars

-----------------------------------------------------------------------------
ProfileOf == [pid \in DOMAIN caption_emitters |-> caption_emitters[pid].profile]

Captions == {i \in DOMAIN emitted : emitted[i].type = "caption"}

TypeOK ==
    /\ clock \in PC!Clock /\ current \in BOOLEAN
    /\ DOMAIN caption_emitters \subseteq EsPids
    /\ \A pid \in DOMAIN caption_emitters : caption_emitters[pid] \in Emitters
    /\ current_pmt_pid \in PmtPids \cup {None}
    /\ seen \subseteq DOMAIN caption_emitters /\ earlier \subseteq begun
    /\ last_emitted_version \in {eit.version : eit \in Eits} \cup {None}
    /\ flushed \in BOOLEAN

\* The demuxers filter exactly what the members say: the reserved section PIDs, whatever
\* a PAT has listed, and the current PMT PID; and the PES PIDs with an emitter.
DemuxersAgree ==
    /\ section_pids = ReservedSectionPids \cup ({current_pmt_pid} \ {None})
    /\ pes_pids = DOMAIN caption_emitters

\* The streams decoded, and how, are those of the last PMT since the service was last
\* torn down, whatever PATs and PMTs came before.
EmittersFollowPmt == ProfileOf = listed

\* A PES packet only ever reaches the emitter that was registered when it began.
PesReachesItsEmitter == begun \subseteq seen

\* A stream that a PMT update leaves as it was keeps its decoders, the second language's
\* included, which would otherwise be silent until it is announced again.
DecodersSurvive ==
    [][\A pid \in DOMAIN caption_emitters \cap DOMAIN caption_emitters' :
          /\ caption_emitters[pid].second
          /\ caption_emitters'[pid].profile = caption_emitters[pid].profile
          => caption_emitters'[pid].second]_vars

\* The clock's reference belongs to the PCR PID of the PMT and to its current series.
ReferenceIsCurrent == PC!ReferenceIsCurrent

\* A caption is timed with a reference that holds for the packet that completed it, a
\* discontinuity or PCR PID change in that very packet included.
TimesAreCurrent ==
    \A i \in Captions : emitted[i].time_ms # None => current /\ clock.suspect_pcr_count = 0

\* One PES packet gives at most one error diagnostic, as its last record, and at most one
\* caption per language, the first language's first.
PesRecordsInOrder ==
    ~flushed => \A i, j \in DOMAIN emitted : i < j =>
        /\ emitted[i].type # "captionDecodeError"
        /\ i \in Captions /\ j \in Captions =>
              emitted[i].language = "kFirst" /\ emitted[j].language = "kSecond"

\* An event is reported as present or following by the section it came in, also when
\* nothing is on the air and the present section is empty.
EitSectionsAreRight ==
    \A i \in DOMAIN emitted : emitted[i].type = "eit" =>
        emitted[i].section = emitted[i].event_section

\* program_clock.cc:160-161 suppresses a conversion "rather than return a plausible but
\* wrong time" when "the reference may belong to a superseded series".  Violated the other
\* way round: a PES packet that began in the superseded series, and whose PTS is of it, is
\* converted with the new series' reference when it is delivered after a TOT.
TimedInOwnSeries ==
    [][\A i \in Captions' : emitted'[i].time_ms # None => emitted'[i].pid \notin earlier]_vars
=============================================================================
