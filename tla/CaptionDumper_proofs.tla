------------------------ MODULE CaptionDumper_proofs ------------------------
(***************************************************************************)
(* Proofs about CaptionDumper, in this order: that the demuxers' PID       *)
(* filters, the emitters and the PES packets being assembled stay in line  *)
(* through any sequence of PATs, PMTs and PES packets, in which the clock  *)
(* plays no part; that the clock's reference stays current; the types of   *)
(* all else; and what is true of the records of a call to FeedPacket or    *)
(* Flush: their times, their order and their sections.                     *)
(***************************************************************************)
EXTENDS CaptionDumper, Induction_proofs, FiniteSetTheorems, TLAPS

\* What a PMT PID that is tracked, an emitter and the history `seen` can be.
MembersOK ==
    /\ current_pmt_pid \in PmtPids \cup {None}
    /\ \A pid \in DOMAIN caption_emitters : caption_emitters[pid] \in Emitters
    /\ seen \subseteq DOMAIN caption_emitters

\* The inductive invariant: a removed PID must not be a reserved one (MembersOK), and a
\* PES packet must have begun for an emitter that is still there (seen).
IInv == MembersOK /\ DemuxersAgree /\ EmittersFollowPmt /\ PesReachesItsEmitter

\* The classifier only ever answers a profile or None.
LEMMA ClassifierAnswers ==
    ASSUME NEW pmt_pid, NEW stream
    PROVE  ClassifyCaptionStream(pmt_pid, stream) \in Profiles \cup {None}
BY DEF ClassifyCaptionStream, ClassifyCaptionComponent, Profiles

\* So every desired stream has a profile.
LEMMA DesiredProfiles ==
    ASSUME NEW pmt_pid, NEW streams
    PROVE  \A pid \in DOMAIN Desired(pmt_pid, streams) : Desired(pmt_pid, streams)[pid] \in Profiles
BY ClassifierAnswers DEF Desired

\* A PES packet leaves the emitter's profile alone.
LEMMA EnsureKeepsProfile ==
    ASSUME NEW emitter \in Emitters, NEW pes
    PROVE  /\ EnsureSecondLanguageDecoder(emitter, pes) \in Emitters
           /\ EnsureSecondLanguageDecoder(emitter, pes).profile = emitter.profile
BY DEF EnsureSecondLanguageDecoder, Emitters

\* A new emitter has the profile asked for.
LEMMA NewEmitterType ==
    ASSUME NEW profile \in Profiles
    PROVE  NewEmitter(profile) \in Emitters /\ NewEmitter(profile).profile = profile
BY DEF NewEmitter, Emitters

\* There is no emitter and no filtered PMT PID to begin with.
LEMMA InitIInv == Init => IInv
BY SectionPidsAssumption
   DEF Init, IInv, MembersOK, DemuxersAgree, EmittersFollowPmt, PesReachesItsEmitter, ProfileOf,
       NoEmitters

-----------------------------------------------------------------------------
(* PAT and PMT.                                                            *)

\* Tearing the streams down leaves nothing behind.
LEMMA TeardownStreamsClears ==
    ASSUME IInv, TeardownStreams
    PROVE  /\ caption_emitters' = NoEmitters /\ DOMAIN caption_emitters' = {}
           /\ pes_pids' = DOMAIN caption_emitters'
           /\ seen' = {} /\ begun' = {}
           /\ EmittersFollowPmt'
<1>1. DOMAIN caption_emitters' = {}
  BY DEF TeardownStreams, NoEmitters
<1>2. pes_pids' = {} /\ begun' = {}
  BY DEF TeardownStreams, IInv, MembersOK, DemuxersAgree, PesReachesItsEmitter, PesWithout
<1>3. EmittersFollowPmt'
  BY DEF TeardownStreams, NoEmitters, EmittersFollowPmt, ProfileOf
<1> QED BY <1>1, <1>2, <1>3 DEF TeardownStreams

\* A PAT moves the section filter with the PMT PID, and drops the streams with it.
LEMMA FeedPatPreservesIInv ==
    ASSUME IInv, NEW packet, NEW pmt_pid \in ReservedSectionPids \cup PmtPids \cup {None},
           FeedPat(packet, pmt_pid)
    PROVE  IInv'
<1>1. CASE pmt_pid = None /\ TeardownTargetService
  <2>1. section_pids' = ReservedSectionPids /\ current_pmt_pid' = None
    BY <1>1, SectionPidsAssumption
    DEF TeardownTargetService, WithoutPmtPid, IInv, MembersOK, DemuxersAgree
  <2>2. TeardownStreams
    BY <1>1 DEF TeardownTargetService
  <2> QED BY <2>1, <2>2, TeardownStreamsClears
          DEF IInv, MembersOK, DemuxersAgree, PesReachesItsEmitter
<1>2. CASE KeepStreams /\ UNCHANGED <<section_pids, current_pmt_pid>>
  BY <1>2 DEF KeepStreams, IInv, MembersOK, DemuxersAgree, EmittersFollowPmt, ProfileOf,
              PesReachesItsEmitter
<1>3. CASE pmt_pid # None /\ ~Collides(pmt_pid) /\ MoveTo(pmt_pid)
  <2>1. pmt_pid \in PmtPids
    BY <1>3 DEF Collides
  <2>2. section_pids' = ReservedSectionPids \cup {pmt_pid} /\ current_pmt_pid' = pmt_pid
    BY <1>3, SectionPidsAssumption
    DEF MoveTo, WithoutPmtPid, IInv, MembersOK, DemuxersAgree
  <2>3. section_pids' = ReservedSectionPids \cup ({current_pmt_pid'} \ {None})
    BY <2>1, <2>2, SectionPidsAssumption
  <2>4. CASE TeardownStreams
    BY <2>1, <2>2, <2>3, <2>4, TeardownStreamsClears
    DEF IInv, MembersOK, DemuxersAgree, PesReachesItsEmitter
  <2>5. CASE KeepStreams
    BY <2>1, <2>2, <2>3, <2>5
    DEF KeepStreams, IInv, MembersOK, DemuxersAgree, EmittersFollowPmt, ProfileOf,
        PesReachesItsEmitter
  <2> QED BY <1>3, <2>4, <2>5 DEF MoveTo
<1> QED BY <1>1, <1>2, <1>3 DEF FeedPat

\* A PMT leaves one emitter per desired stream, of its profile, and drops what had begun
\* on the streams it unregisters.
LEMMA FeedPmtPreservesIInv ==
    ASSUME IInv, NEW packet, NEW pcr_pid, NEW streams \in StreamMaps,
           FeedPmt(packet, pcr_pid, streams)
    PROVE  IInv'
<1> DEFINE desired == Desired(packet.pid, streams)
<1>1. SyncCaptionStreams(desired)
  BY DEF FeedPmt
<1>2. \A pid \in DOMAIN desired : desired[pid] \in Profiles
  BY DesiredProfiles
<1>f. desired = [pid \in DOMAIN desired |-> desired[pid]]
  BY DEF Desired
<1> HIDE DEF desired
<1>3. DOMAIN caption_emitters' = DOMAIN desired
  BY <1>1 DEF SyncCaptionStreams
<1>4. ASSUME NEW pid \in DOMAIN desired
      PROVE  caption_emitters'[pid] \in Emitters /\ caption_emitters'[pid].profile = desired[pid]
  <2>1. CASE pid \in Kept(desired)
    BY <1>1, <2>1 DEF SyncCaptionStreams, Kept, IInv, MembersOK
  <2>2. CASE pid \notin Kept(desired)
    BY <1>1, <1>2, <2>2, NewEmitterType DEF SyncCaptionStreams
  <2> QED BY <2>1, <2>2
<1>5. EmittersFollowPmt'
  BY <1>1, <1>3, <1>4, <1>f DEF EmittersFollowPmt, ProfileOf, SyncCaptionStreams
<1>6. seen' \subseteq DOMAIN caption_emitters' /\ begun' \subseteq seen'
  BY <1>1, <1>3 DEF SyncCaptionStreams, Kept, PesWithout, IInv, MembersOK, PesReachesItsEmitter
<1>7. pes_pids' = DOMAIN caption_emitters'
  BY <1>1, <1>3 DEF SyncCaptionStreams, Kept, IInv, DemuxersAgree
<1>8. UNCHANGED <<section_pids, current_pmt_pid>>
  BY DEF FeedPmt
<1> QED BY <1>3, <1>4, <1>5, <1>6, <1>7, <1>8
        DEF IInv, MembersOK, DemuxersAgree, PesReachesItsEmitter

-----------------------------------------------------------------------------
(* PES packets.                                                            *)

\* A PES packet only begins on a filtered PID, which has an emitter.
LEMMA BeginPesPreservesIInv ==
    ASSUME IInv, NEW packet, BeginPes(packet)
    PROVE  IInv'
BY DEF BeginPes, members, IInv, MembersOK, DemuxersAgree, EmittersFollowPmt, ProfileOf,
       PesReachesItsEmitter

\* Emitters that only gained a second decoder still follow the PMT.
LEMMA DecodersChange ==
    ASSUME IInv, UNCHANGED <<current_pmt_pid, section_pids, pes_pids, listed, seen>>,
           begun' \subseteq begun, DOMAIN caption_emitters' = DOMAIN caption_emitters,
           \A pid \in DOMAIN caption_emitters :
               /\ caption_emitters'[pid] \in Emitters
               /\ caption_emitters'[pid].profile = caption_emitters[pid].profile
    PROVE  IInv'
<1>1. ProfileOf' = ProfileOf
  BY DEF ProfileOf
<1> QED BY <1>1 DEF IInv, MembersOK, DemuxersAgree, EmittersFollowPmt, PesReachesItsEmitter

\* A delivered PES packet changes its own emitter only.
LEMMA EndPesPreservesIInv ==
    ASSUME IInv, NEW packet, NEW pts, NEW pes, NEW another \in BOOLEAN,
           EndPes(packet, pts, pes, another)
    PROVE  IInv'
<1>1. /\ UNCHANGED <<current_pmt_pid, section_pids, pes_pids, listed, seen>>
      /\ begun' \subseteq begun
      /\ caption_emitters' = [caption_emitters EXCEPT ![packet.pid] =
                                  EnsureSecondLanguageDecoder(caption_emitters[packet.pid], pes)]
  BY DEF EndPes
<1>2. \A pid \in DOMAIN caption_emitters :
          /\ caption_emitters'[pid] \in Emitters
          /\ caption_emitters'[pid].profile = caption_emitters[pid].profile
  BY <1>1, EnsureKeepsProfile DEF IInv, MembersOK
<1> QED BY <1>1, <1>2, DecodersChange

\* So does a flush, for every emitter it delivers to.
LEMMA FlushPreservesIInv ==
    ASSUME IInv, NEW pts, NEW last, Flush(pts, last)
    PROVE  IInv'
<1>1. /\ UNCHANGED <<current_pmt_pid, section_pids, pes_pids, listed, seen>>
      /\ begun' \subseteq begun
      /\ caption_emitters' = [pid \in DOMAIN caption_emitters |->
             IF pid \in DOMAIN last
             THEN EnsureSecondLanguageDecoder(caption_emitters[pid], last[pid])
             ELSE caption_emitters[pid]]
  BY DEF Flush
<1>2. \A pid \in DOMAIN caption_emitters :
          /\ caption_emitters'[pid] \in Emitters
          /\ caption_emitters'[pid].profile = caption_emitters[pid].profile
  BY <1>1, EnsureKeepsProfile DEF IInv, MembersOK
<1>3. DOMAIN caption_emitters' = DOMAIN caption_emitters
  BY <1>1
<1> QED BY <1>1, <1>2, <1>3, DecodersChange

-----------------------------------------------------------------------------
\* The inductive invariant holds throughout: one step per action.
LEMMA Invariance == Spec => []IInv
<1>1. IInv /\ [Next]_vars => IInv'
  <2> SUFFICES ASSUME IInv, [Next]_vars PROVE IInv'
    OBVIOUS
  <2> USE DEF members, IInv, MembersOK, DemuxersAgree, EmittersFollowPmt, ProfileOf,
              PesReachesItsEmitter
  <2>1. ASSUME NEW packet, NEW pmt_pid \in ReservedSectionPids \cup PmtPids \cup {None},
               FeedPat(packet, pmt_pid)
        PROVE  IInv'
    BY <2>1, FeedPatPreservesIInv
  <2>2. ASSUME NEW packet, NEW pcr_pid, NEW streams \in StreamMaps,
               FeedPmt(packet, pcr_pid, streams)
        PROVE  IInv'
    BY <2>2, FeedPmtPreservesIInv
  <2>3. ASSUME NEW packet, NEW unix_ms, FeedTot(packet, unix_ms)
        PROVE  IInv'
    BY <2>3 DEF FeedTot
  <2>4. ASSUME NEW packet, NEW eit, FeedEit(packet, eit)
        PROVE  IInv'
    BY <2>4 DEF FeedEit
  <2>5. ASSUME NEW packet, FeedIgnored(packet)
        PROVE  IInv'
    BY <2>5 DEF FeedIgnored
  <2>6. ASSUME NEW packet, BeginPes(packet)
        PROVE  IInv'
    BY <2>6, BeginPesPreservesIInv
  <2>7. ASSUME NEW packet, NEW pts, NEW pes, NEW another \in BOOLEAN,
               EndPes(packet, pts, pes, another)
        PROVE  IInv'
    BY <2>7, EndPesPreservesIInv
  <2>8. ASSUME NEW pts, NEW last, Flush(pts, last)
        PROVE  IInv'
    BY <2>8, FlushPreservesIInv
  <2>9. CASE UNCHANGED vars
    BY <2>9 DEF vars, history
  <2> QED BY <2>1, <2>2, <2>3, <2>4, <2>5, <2>6, <2>7, <2>8, <2>9 DEF Next, Feed
<1> QED BY InitIInv, <1>1, PTL DEF Spec

-----------------------------------------------------------------------------
\* The demuxers filter exactly the reserved PIDs, the tracked PMT PID and the streams
\* with an emitter, whatever PATs and PMTs arrive on whatever PIDs.
THEOREM FiltersFollowMembers == Spec => []DemuxersAgree
<1>1. IInv => DemuxersAgree
  BY DEF IInv
<1> QED BY <1>1, Invariance, PTL

\* The emitters are those of the last PMT since the service was torn down.
THEOREM EmittersAreOfLastPmt == Spec => []EmittersFollowPmt
<1>1. IInv => EmittersFollowPmt
  BY DEF IInv
<1> QED BY <1>1, Invariance, PTL

\* No PES packet reaches an emitter that was registered after it began.
THEOREM NoPesCrossesRegistrations == Spec => []PesReachesItsEmitter
<1>1. IInv => PesReachesItsEmitter
  BY DEF IInv
<1> QED BY <1>1, Invariance, PTL

-----------------------------------------------------------------------------
(* The second language's decoder.                                          *)

\* What DecodersSurvive says of one step.
SecondSurvives ==
    \A pid \in DOMAIN caption_emitters \cap DOMAIN caption_emitters' :
        /\ caption_emitters[pid].second
        /\ caption_emitters'[pid].profile = caption_emitters[pid].profile
        => caption_emitters'[pid].second

\* A PES packet never takes the second decoder away.
LEMMA EnsureKeepsSecond ==
    ASSUME NEW emitter \in Emitters, NEW pes, emitter.second
    PROVE  EnsureSecondLanguageDecoder(emitter, pes).second
BY DEF EnsureSecondLanguageDecoder, Emitters

\* A PAT keeps every emitter, or none.
LEMMA FeedPatKeepsSecond ==
    ASSUME NEW packet, NEW pmt_pid, FeedPat(packet, pmt_pid)
    PROVE  SecondSurvives
<1>1. CASE caption_emitters' = NoEmitters
  BY <1>1 DEF NoEmitters, SecondSurvives
<1>2. CASE caption_emitters' = caption_emitters
  BY <1>2 DEF SecondSurvives
<1> QED BY <1>1, <1>2
        DEF FeedPat, TeardownTargetService, MoveTo, TeardownStreams, KeepStreams

\* A PMT replaces an emitter only by one of another profile.
LEMMA FeedPmtKeepsSecond ==
    ASSUME NEW packet, NEW pcr_pid, NEW streams, FeedPmt(packet, pcr_pid, streams)
    PROVE  SecondSurvives
<1> DEFINE desired == Desired(packet.pid, streams)
<1>1. SyncCaptionStreams(desired)
  BY DEF FeedPmt
<1>2. \A pid \in DOMAIN desired : desired[pid] \in Profiles
  BY DesiredProfiles
<1> HIDE DEF desired
<1> SUFFICES ASSUME NEW pid \in DOMAIN caption_emitters, pid \in DOMAIN caption_emitters',
                    caption_emitters[pid].second,
                    caption_emitters'[pid].profile = caption_emitters[pid].profile
             PROVE  caption_emitters'[pid].second
  BY DEF SecondSurvives
<1>3. pid \in DOMAIN desired
  BY <1>1 DEF SyncCaptionStreams
<1>4. CASE pid \in Kept(desired)
  BY <1>1, <1>3, <1>4 DEF SyncCaptionStreams
<1>5. CASE pid \notin Kept(desired)
  <2>1. caption_emitters'[pid] = NewEmitter(desired[pid])
    BY <1>1, <1>3, <1>5 DEF SyncCaptionStreams
  <2>2. caption_emitters'[pid].profile = desired[pid]
    BY <1>2, <1>3, <2>1, NewEmitterType
  <2> QED BY <1>3, <1>5, <2>2 DEF Kept
<1> QED BY <1>4, <1>5

\* A delivered PES packet changes one emitter, by EnsureSecondLanguageDecoder.
LEMMA EndPesKeepsSecond ==
    ASSUME IInv, NEW packet, NEW pts, NEW pes, NEW another, EndPes(packet, pts, pes, another)
    PROVE  SecondSurvives
<1>1. caption_emitters' = [caption_emitters EXCEPT ![packet.pid] =
                              EnsureSecondLanguageDecoder(caption_emitters[packet.pid], pes)]
  BY DEF EndPes
<1> QED BY <1>1, EnsureKeepsSecond DEF SecondSurvives, IInv, MembersOK

\* A flush changes each emitter in the same way.
LEMMA FlushKeepsSecond ==
    ASSUME IInv, NEW pts, NEW last, Flush(pts, last)
    PROVE  SecondSurvives
<1>1. caption_emitters' = [pid \in DOMAIN caption_emitters |->
             IF pid \in DOMAIN last
             THEN EnsureSecondLanguageDecoder(caption_emitters[pid], last[pid])
             ELSE caption_emitters[pid]]
  BY DEF Flush
<1> QED BY <1>1, EnsureKeepsSecond DEF SecondSurvives, IInv, MembersOK

\* A stream that a PMT update leaves as it was keeps its second decoder.
THEOREM SecondDecoderIsKept == Spec => DecodersSurvive
<1>1. IInv /\ [Next]_vars => [SecondSurvives]_vars
  <2> SUFFICES ASSUME IInv, Next PROVE SecondSurvives
    OBVIOUS
  <2>1. ASSUME UNCHANGED caption_emitters
        PROVE  SecondSurvives
    BY <2>1 DEF SecondSurvives
  <2>2. ASSUME NEW packet, NEW unix_ms, FeedTot(packet, unix_ms)
        PROVE  SecondSurvives
    BY <2>1, <2>2 DEF FeedTot, members
  <2>3. ASSUME NEW packet, NEW eit, FeedEit(packet, eit)
        PROVE  SecondSurvives
    BY <2>1, <2>3 DEF FeedEit
  <2>4. ASSUME NEW packet, FeedIgnored(packet)
        PROVE  SecondSurvives
    BY <2>1, <2>4 DEF FeedIgnored, members
  <2>5. ASSUME NEW packet, BeginPes(packet)
        PROVE  SecondSurvives
    BY <2>1, <2>5 DEF BeginPes, members
  <2> QED BY <2>2, <2>3, <2>4, <2>5, FeedPatKeepsSecond, FeedPmtKeepsSecond,
             EndPesKeepsSecond, FlushKeepsSecond DEF Next, Feed
<1> QED BY <1>1, Invariance, PTL DEF Spec, DecodersSurvive, SecondSurvives

-----------------------------------------------------------------------------
(* The clock, in the order FeedPacket and its callbacks change it: the     *)
(* packet's PCR first, then a PMT's PCR PID or a TOT.                      *)

\* c is a clock with these members.
Has(c, pid, pcr, reference, count) ==
    /\ c \in PC!Clock
    /\ c.pcr_pid = pid /\ c.last_pcr_90k = pcr
    /\ c.reference_point = reference /\ c.suspect_pcr_count = count

\* The reference is current, in a clock whose members have their types.
ClockInv == clock \in PC!Clock /\ current \in BOOLEAN /\ ReferenceIsCurrent

\* An assignment to one member changes that member only.
LEMMA OneMemberUpdated ==
    ASSUME NEW c \in PC!Clock
    PROVE  /\ \A pid \in Pids \cup {None} :
                 Has([c EXCEPT !.pcr_pid = pid], pid, c.last_pcr_90k, c.reference_point,
                     c.suspect_pcr_count)
           /\ \A pcr \in PC!Ticks \cup {None} :
                 Has([c EXCEPT !.last_pcr_90k = pcr], c.pcr_pid, pcr, c.reference_point,
                     c.suspect_pcr_count)
           /\ \A reference \in PC!ReferencePoint \cup {None} :
                 Has([c EXCEPT !.reference_point = reference], c.pcr_pid, c.last_pcr_90k,
                     reference, c.suspect_pcr_count)
           /\ \A count \in 0..(ConfirmCount - 1) :
                 Has([c EXCEPT !.suspect_pcr_count = count], c.pcr_pid, c.last_pcr_90k,
                     c.reference_point, count)
  BY DEF PC!Clock, Has

\* The suspicion is cleared and the rest kept.
LEMMA SuspicionCleared ==
    ASSUME NEW c, NEW pid, NEW pcr, NEW reference, NEW count, Has(c, pid, pcr, reference, count)
    PROVE  Has(PC!ClearSuspect(c), pid, pcr, reference, 0)
<1>1. 0 \in 0..(ConfirmCount - 1)
  BY ClockAssumption
<1>2. c \in PC!Clock
  BY DEF Has
<1>3. Has([c EXCEPT !.suspect_pcr_count = 0], c.pcr_pid, c.last_pcr_90k, c.reference_point, 0)
  BY <1>1, <1>2, OneMemberUpdated
<1> QED BY <1>3 DEF PC!ClearSuspect, Has

\* An accepted PCR becomes the last one, and the rest stays.
LEMMA PcrAccepted ==
    ASSUME NEW c \in PC!Clock, NEW pcr \in PC!Ticks
    PROVE  Has([c EXCEPT !.last_pcr_90k = pcr], c.pcr_pid, pcr, c.reference_point,
               c.suspect_pcr_count)
  BY OneMemberUpdated

\* A new PCR series drops the reference and keeps the PID.
LEMMA SeriesAdopted ==
    ASSUME NEW c \in PC!Clock, NEW pcr \in PC!Ticks
    PROVE  Has(PC!AdoptNewPcrSeries(c, pcr), c.pcr_pid, pcr, None, 0)
<1> DEFINE d == [c EXCEPT !.last_pcr_90k = pcr]
           e == [d EXCEPT !.reference_point = None]
<1>1. Has(d, c.pcr_pid, pcr, c.reference_point, c.suspect_pcr_count)
  BY PcrAccepted
<1>2. Has(e, c.pcr_pid, pcr, None, c.suspect_pcr_count)
  <2> HIDE DEF d
  <2>1. d \in PC!Clock
    BY <1>1 DEF Has
  <2>2. Has(e, d.pcr_pid, d.last_pcr_90k, None, d.suspect_pcr_count)
    BY <2>1, OneMemberUpdated
  <2> QED BY <1>1, <2>2 DEF Has
<1>3. PC!AdoptNewPcrSeries(c, pcr) = PC!ClearSuspect(e)
  BY DEF PC!AdoptNewPcrSeries
<1> HIDE DEF e
<1> QED BY <1>2, <1>3, SuspicionCleared

\* A new PCR PID drops everything else.
LEMMA PcrPidChanged ==
    ASSUME NEW c \in PC!Clock, NEW pid \in Pids \cup {NullPid},
           ~(pid = NullPid \/ c.pcr_pid = pid)
    PROVE  Has(PC!SetPcrPid(c, pid), pid, None, None, 0)
<1> DEFINE b == [c EXCEPT !.pcr_pid = pid]
           d == [b EXCEPT !.last_pcr_90k = None]
           e == [d EXCEPT !.reference_point = None]
<1>1. Has(b, pid, c.last_pcr_90k, c.reference_point, c.suspect_pcr_count)
  BY OneMemberUpdated
<1>2. Has(d, pid, None, c.reference_point, c.suspect_pcr_count)
  <2> HIDE DEF b
  <2>1. b \in PC!Clock
    BY <1>1 DEF Has
  <2>2. Has(d, b.pcr_pid, None, b.reference_point, b.suspect_pcr_count)
    BY <2>1, OneMemberUpdated
  <2> QED BY <1>1, <2>2 DEF Has
<1>3. Has(e, pid, None, None, c.suspect_pcr_count)
  <2> HIDE DEF d
  <2>1. d \in PC!Clock
    BY <1>2 DEF Has
  <2>2. Has(e, d.pcr_pid, d.last_pcr_90k, None, d.suspect_pcr_count)
    BY <2>1, OneMemberUpdated
  <2> QED BY <1>2, <2>2 DEF Has
<1>4. PC!SetPcrPid(c, pid) = PC!ClearSuspect(e)
  BY DEF PC!SetPcrPid
<1> HIDE DEF e
<1> QED BY <1>3, <1>4, SuspicionCleared

\* A packet's PCR keeps the PID, and the reference unless there is a discontinuity.
LEMMA SampledMembers ==
    ASSUME NEW c \in PC!Clock, NEW packet \in Packets
    PROVE  /\ PC!RecordPcr(c, packet) \in PC!Clock
           /\ PC!RecordPcr(c, packet).pcr_pid = c.pcr_pid
           /\ \/ PC!RecordPcr(c, packet).reference_point = None
              \/ /\ PC!RecordPcr(c, packet).reference_point = c.reference_point
                 /\ PC!PcrDiscontinuity(c, packet) = None
<1> DEFINE pcr == packet.pcr
           d == [c EXCEPT !.last_pcr_90k = pcr]
           counted == [c EXCEPT !.suspect_pcr_count = c.suspect_pcr_count + 1]
           s == PC!RecordPcr(c, packet)
           none == PC!PcrDiscontinuity(c, packet) = None
<1>1. CASE ~PC!Usable(c, packet)
  <2>1. s = c /\ none
    BY <1>1 DEF PC!RecordPcr, PC!PcrDiscontinuity
  <2> HIDE DEF s, none
  <2>2. s \in PC!Clock /\ s.pcr_pid = c.pcr_pid /\ s.reference_point = c.reference_point
    BY <2>1
  <2> QED BY <2>1, <2>2 DEF s, none
<1>2. CASE PC!Usable(c, packet)
  <2>1. pcr \in PC!Ticks
    BY <1>2 DEF PC!Usable, Packets, Packet
  <2>2. CASE s = PC!AdoptNewPcrSeries(c, pcr)
    BY <2>1, <2>2, SeriesAdopted DEF Has
  <2>3. CASE s = PC!ClearSuspect(d) /\ none
    <3>1. Has(d, c.pcr_pid, pcr, c.reference_point, c.suspect_pcr_count)
      BY <2>1, PcrAccepted
    <3> HIDE DEF d, s, none
    <3>2. Has(PC!ClearSuspect(d), c.pcr_pid, pcr, c.reference_point, 0)
      BY <3>1, SuspicionCleared
    <3>3. s \in PC!Clock /\ s.pcr_pid = c.pcr_pid /\ s.reference_point = c.reference_point
      BY <2>3, <3>2 DEF Has
    <3> QED BY <2>3, <3>3 DEF s, none
  <2>4. CASE s = counted /\ none /\ ~PC!Confirms(c)
    <3>1. c.suspect_pcr_count + 1 \in 0..(ConfirmCount - 1)
      BY <2>4, ClockAssumption DEF PC!Confirms, PC!Clock
    <3>2. Has(counted, c.pcr_pid, c.last_pcr_90k, c.reference_point, c.suspect_pcr_count + 1)
      BY <3>1, OneMemberUpdated
    <3> HIDE DEF counted, s, none
    <3>3. s \in PC!Clock /\ s.pcr_pid = c.pcr_pid /\ s.reference_point = c.reference_point
      BY <2>4, <3>2 DEF Has
    <3> QED BY <2>4, <3>3 DEF s, none
  <2>5. \/ s = PC!AdoptNewPcrSeries(c, pcr)
        \/ s = PC!ClearSuspect(d) /\ none
        \/ s = counted /\ none /\ ~PC!Confirms(c)
    <3>1. CASE packet.discontinuity_indicator
      BY <1>2, <3>1 DEF PC!RecordPcr
    <3>2. CASE ~packet.discontinuity_indicator /\ PC!Continues(c, packet)
      BY <1>2, <3>2 DEF PC!RecordPcr, PC!PcrDiscontinuity
    <3>3. CASE ~packet.discontinuity_indicator /\ ~PC!Continues(c, packet)
      BY <1>2, <3>3 DEF PC!RecordPcr, PC!PcrDiscontinuity, PC!HandleSuspectPcrDiscontinuity
    <3> QED BY <3>1, <3>2, <3>3
  <2> HIDE DEF d, counted, s, none
  <2> QED BY <2>2, <2>3, <2>4, <2>5 DEF s, none
<1> QED BY <1>1, <1>2

\* A packet whose callbacks leave the clock alone, or drop its reference.
LEMMA PacketKeepsReference ==
    ASSUME ClockInv, NEW packet \in Packets, reported' = PC!PcrDiscontinuity(clock, packet),
           clock' \in PC!Clock,
           clock' = Sampled(packet) \/ clock'.reference_point = None,
           current' = (current /\ ~SeriesChanges)
    PROVE  ClockInv'
<1>1. current' \in BOOLEAN
  BY DEF ClockInv
<1>2. ASSUME clock'.reference_point # None
      PROVE  current'
  <2>1. clock' = Sampled(packet)
    BY <1>2
  <2>2. /\ clock'.pcr_pid = clock.pcr_pid /\ reported' = None
        /\ clock.reference_point # None
    BY <1>2, <2>1, SampledMembers DEF ClockInv, Sampled
  <2>3. current
    BY <2>2 DEF ClockInv, ReferenceIsCurrent, PC!ReferenceIsCurrent
  <2>4. ~SeriesChanges
    BY <2>2 DEF SeriesChanges
  <2> QED BY <2>3, <2>4
<1> QED BY <1>1, <1>2 DEF ClockInv, ReferenceIsCurrent, PC!ReferenceIsCurrent

\* The calls that only sample the PCR.
LEMMA SamplingKeepsReference ==
    ASSUME ClockInv, NEW packet \in Packets, NEW records,
           FeedPacket(packet, Sampled(packet), records),
           current' = (current /\ ~SeriesChanges)
    PROVE  ClockInv'
<1>1. clock' = Sampled(packet) /\ reported' = PC!PcrDiscontinuity(clock, packet)
  BY DEF FeedPacket
<1>2. clock' \in PC!Clock
  BY <1>1, SampledMembers DEF ClockInv, Sampled
<1> QED BY <1>1, <1>2, PacketKeepsReference

\* A PMT that changes the PCR PID drops the reference, whatever the packet's PCR did.
LEMMA PmtKeepsReference ==
    ASSUME ClockInv, NEW packet \in Packets, NEW pcr_pid \in Pids \cup {NullPid}, NEW streams,
           FeedPmt(packet, pcr_pid, streams)
    PROVE  ClockInv'
<1> DEFINE c == Sampled(packet)
<1>1. /\ clock' = PC!SetPcrPid(c, pcr_pid)
      /\ reported' = PC!PcrDiscontinuity(clock, packet)
      /\ current' = (current /\ ~SeriesChanges)
  BY DEF FeedPmt, FeedPacket, Outdate
<1>2. c \in PC!Clock
  BY SampledMembers DEF ClockInv, Sampled
<1> HIDE DEF c
<1>3. clock' \in PC!Clock /\ (clock' = c \/ clock'.reference_point = None)
  <2>1. CASE pcr_pid = NullPid \/ c.pcr_pid = pcr_pid
    BY <1>1, <1>2, <2>1 DEF PC!SetPcrPid
  <2>2. CASE ~(pcr_pid = NullPid \/ c.pcr_pid = pcr_pid)
    BY <1>1, <1>2, <2>2, PcrPidChanged DEF Has
  <2> QED BY <2>1, <2>2
<1> QED BY <1>1, <1>3, PacketKeepsReference DEF c

\* A TOT anchors a reference in the series that the packet itself belongs to.
LEMMA TotKeepsReference ==
    ASSUME ClockInv, NEW packet \in Packets, NEW unix_ms \in UnixTimes, FeedTot(packet, unix_ms)
    PROVE  ClockInv'
<1> DEFINE c == Sampled(packet)
<1>1. /\ clock' = PC!UpdateReferencePointFromTot(c, unix_ms)
      /\ reported' = PC!PcrDiscontinuity(clock, packet)
      /\ current' = ((current /\ ~SeriesChanges) \/ PC!CanAnchor(c))
  BY DEF FeedTot, FeedPacket, Outdate
<1>2. c \in PC!Clock
  BY SampledMembers DEF ClockInv, Sampled
<1>3. CASE PC!CanAnchor(c)
  <2> HIDE DEF c
  <2>1. [pcr_90k |-> c.last_pcr_90k, unix_ms |-> unix_ms] \in PC!ReferencePoint
    BY <1>2, <1>3 DEF PC!CanAnchor, PC!ReferencePoint, PC!Clock
  <2>2. clock' \in PC!Clock
    BY <1>1, <1>2, <1>3, <2>1, OneMemberUpdated DEF PC!UpdateReferencePointFromTot, Has
  <2>3. current' = TRUE
    BY <1>1, <1>3
  <2> QED BY <2>2, <2>3 DEF ClockInv, ReferenceIsCurrent, PC!ReferenceIsCurrent
<1>4. CASE ~PC!CanAnchor(c)
  <2>1. clock' = c
    BY <1>1, <1>4 DEF PC!UpdateReferencePointFromTot
  <2>2. current' = (current /\ ~SeriesChanges)
    BY <1>1, <1>4
  <2> QED BY <1>1, <1>2, <2>1, <2>2, PacketKeepsReference
<1> QED BY <1>3, <1>4

\* The clock keeps its types and a current reference: one step per action.
LEMMA ClockInvariance == Spec => []ClockInv
<1>1. Init => ClockInv
  <2> SUFFICES ASSUME Init PROVE ClockInv
    OBVIOUS
  <2>1. clock = PC!NewClock /\ current = FALSE
    BY DEF Init
  <2>2. 0 \in 0..(ConfirmCount - 1)
    BY ClockAssumption
  <2>3. clock \in PC!Clock /\ clock.reference_point = None
    BY <2>1, <2>2 DEF PC!Clock, PC!NewClock
  <2> QED BY <2>1, <2>3 DEF ClockInv, ReferenceIsCurrent, PC!ReferenceIsCurrent
<1>2. ClockInv /\ [Next]_vars => ClockInv'
  <2> SUFFICES ASSUME ClockInv, [Next]_vars PROVE ClockInv'
    OBVIOUS
  <2>1. ASSUME NEW packet \in Packets, NEW pmt_pid, FeedPat(packet, pmt_pid)
        PROVE  ClockInv'
    BY <2>1, SamplingKeepsReference DEF FeedPat, Outdate
  <2>2. ASSUME NEW packet \in Packets, NEW eit, FeedEit(packet, eit)
        PROVE  ClockInv'
    BY <2>2, SamplingKeepsReference DEF FeedEit, Outdate
  <2>3. ASSUME NEW packet \in Packets, FeedIgnored(packet)
        PROVE  ClockInv'
    BY <2>3, SamplingKeepsReference DEF FeedIgnored, Outdate
  <2>4. ASSUME NEW packet \in Packets, BeginPes(packet)
        PROVE  ClockInv'
    BY <2>4, SamplingKeepsReference DEF BeginPes, Outdate
  <2>5. ASSUME NEW packet \in Packets, NEW pts, NEW pes, NEW another,
               EndPes(packet, pts, pes, another)
        PROVE  ClockInv'
    BY <2>5, SamplingKeepsReference DEF EndPes
  <2>6. CASE UNCHANGED <<clock, current>>
    BY <2>6 DEF ClockInv, ReferenceIsCurrent, PC!ReferenceIsCurrent
  <2>7. ASSUME NEW pts, NEW last, Flush(pts, last)
        PROVE  ClockInv'
    BY <2>6, <2>7 DEF Flush
  <2>8. CASE UNCHANGED vars
    BY <2>6, <2>8 DEF vars
  <2> QED BY <2>1, <2>2, <2>3, <2>4, <2>5, <2>7, <2>8, PmtKeepsReference, TotKeepsReference
          DEF Next, Feed
<1> QED BY <1>1, <1>2, PTL DEF Spec

\* The clock the dumper converts PTSs with never has a reference of a superseded PCR
\* series or PCR PID, also within the packet that supersedes it.
THEOREM NoStaleReference == Spec => []ReferenceIsCurrent
<1>1. ClockInv => ReferenceIsCurrent
  BY DEF ClockInv
<1> QED BY <1>1, ClockInvariance, PTL

-----------------------------------------------------------------------------
(* Types.                                                                  *)

\* What TypeOK says beyond the two invariants above.
RestOK ==
    /\ DOMAIN caption_emitters \subseteq EsPids
    /\ earlier \subseteq begun
    /\ last_emitted_version \in {eit.version : eit \in Eits} \cup {None}
    /\ flushed \in BOOLEAN

\* A PMT only names elementary streams.
LEMMA FeedPmtNamesStreams ==
    ASSUME NEW packet, NEW pcr_pid, NEW streams \in StreamMaps, FeedPmt(packet, pcr_pid, streams)
    PROVE  DOMAIN caption_emitters' \subseteq EsPids
<1>1. DOMAIN caption_emitters' = DOMAIN Desired(packet.pid, streams)
  BY DEF FeedPmt, SyncCaptionStreams
<1>2. DOMAIN Desired(packet.pid, streams) \subseteq DOMAIN streams
  BY DEF Desired
<1> QED BY <1>1, <1>2, StreamMapsAssumption

\* Every action keeps them: emitters come from PMTs, versions from EITs.
LEMMA RestInvariance == Spec => []RestOK
<1>1. Init => RestOK
  BY DEF Init, RestOK, NoEmitters
<1>2. RestOK /\ [Next]_vars => RestOK'
  <2> SUFFICES ASSUME RestOK, [Next]_vars PROVE RestOK'
    OBVIOUS
  <2>1. ASSUME NEW packet, NEW pmt_pid, FeedPat(packet, pmt_pid)
        PROVE  RestOK'
    <3>1. /\ DOMAIN caption_emitters' = {} \/ caption_emitters' = caption_emitters
          /\ earlier' \subseteq begun' /\ UNCHANGED <<last_emitted_version, flushed>>
      BY <2>1 DEF FeedPat, TeardownTargetService, MoveTo, TeardownStreams, KeepStreams,
                  NoEmitters, Outdate, FeedPacket
    <3> QED BY <3>1 DEF RestOK
  <2>2. ASSUME NEW packet, NEW pcr_pid, NEW streams \in StreamMaps,
               FeedPmt(packet, pcr_pid, streams)
        PROVE  RestOK'
    <3>1. earlier' \subseteq begun' /\ UNCHANGED <<last_emitted_version, flushed>>
      BY <2>2 DEF FeedPmt, Outdate, FeedPacket
    <3> QED BY <2>2, <3>1, FeedPmtNamesStreams DEF RestOK
  <2>3. ASSUME NEW packet, NEW unix_ms, FeedTot(packet, unix_ms)
        PROVE  RestOK'
    BY <2>3 DEF FeedTot, Outdate, FeedPacket, members, RestOK
  <2>4. ASSUME NEW packet, NEW eit \in Eits, FeedEit(packet, eit)
        PROVE  RestOK'
    BY <2>4 DEF FeedEit, Outdate, FeedPacket, RestOK
  <2>5. ASSUME NEW packet, FeedIgnored(packet)
        PROVE  RestOK'
    BY <2>5 DEF FeedIgnored, Outdate, FeedPacket, members, RestOK
  <2>6. ASSUME NEW packet, BeginPes(packet)
        PROVE  RestOK'
    BY <2>6 DEF BeginPes, Outdate, FeedPacket, members, RestOK
  <2>7. ASSUME NEW packet, NEW pts, NEW pes, NEW another, EndPes(packet, pts, pes, another)
        PROVE  RestOK'
    <3>1. /\ DOMAIN caption_emitters' = DOMAIN caption_emitters
          /\ begun \ {packet.pid} \subseteq begun' /\ earlier' \subseteq begun \ {packet.pid}
          /\ UNCHANGED <<last_emitted_version, flushed>>
      BY <2>7 DEF EndPes, FeedPacket
    <3> QED BY <3>1 DEF RestOK
  <2>8. ASSUME NEW pts, NEW last, Flush(pts, last)
        PROVE  RestOK'
    <3>1. /\ DOMAIN caption_emitters' = DOMAIN caption_emitters
          /\ begun' = begun \ DOMAIN last /\ earlier' = earlier \ DOMAIN last
          /\ flushed' = TRUE /\ UNCHANGED last_emitted_version
      BY <2>8 DEF Flush
    <3> QED BY <3>1 DEF RestOK
  <2>9. CASE UNCHANGED vars
    BY <2>9 DEF vars, members, history, RestOK
  <2> QED BY <2>1, <2>2, <2>3, <2>4, <2>5, <2>6, <2>7, <2>8, <2>9 DEF Next, Feed
<1> QED BY <1>1, <1>2, PTL DEF Spec

\* Type correctness: no reserved PID is ever tracked as the PMT's, the suspicion count
\* stays below its limit, and the clock's reference is a PCR and a broadcast time.
THEOREM TypeCorrect == Spec => []TypeOK
<1>1. IInv /\ ClockInv /\ RestOK => TypeOK
  BY DEF IInv, MembersOK, ClockInv, RestOK, TypeOK
<1> QED BY <1>1, Invariance, ClockInvariance, RestInvariance, PTL

-----------------------------------------------------------------------------
(* The records of a call.                                                  *)

\* A conversion is possible, and right.
Timed == current /\ clock.suspect_pcr_count = 0

\* The record may be emitted when `timed` says whether PTSs can be converted.
IsRight(record, timed) ==
    /\ record.type = "caption" /\ record.time_ms # None => timed
    /\ record.type = "eit" => record.section = record.event_section

AreRight(records, timed) ==
    IsSequence(records) /\ \A i \in DOMAIN records : IsRight(records[i], timed)

\* What PesRecordsInOrder says of one call's records.
InOrder(records) ==
    \A i, j \in DOMAIN records : i < j =>
        /\ records[i].type # "captionDecodeError"
        /\ records[i].type = "caption" /\ records[j].type = "caption" =>
              records[i].language = "kFirst" /\ records[j].language = "kSecond"

RecordsInv == AreRight(emitted, Timed) /\ (~flushed => InOrder(emitted))

\* One decoder gives a caption with the packet's time, an error, or nothing.
LEMMA DecodedIsOne ==
    ASSUME NEW pid, NEW language, NEW result, NEW time
    PROVE  \/ Decoded(pid, language, result, time) = << >>
           \/ /\ result = "kError"
              /\ Decoded(pid, language, result, time) = <<CaptionDecodeError(pid)>>
           \/ /\ result # "kError"
              /\ Decoded(pid, language, result, time) =
                     <<CaptionRecord(pid, language, result, time)>>
BY DEF Decoded

\* A PES packet gives at most two records, the first of two being the first language's
\* caption; captions have the packet's time.
LEMMA PesRecordsAre ==
    ASSUME NEW emitter, NEW pid, NEW pes, NEW time, NEW timed, time # None => timed
    PROVE  /\ AreRight(PesRecords(emitter, pid, pes, time), timed)
           /\ InOrder(PesRecords(emitter, pid, pes, time))
<1> DEFINE s == PesRecords(emitter, pid, pes, time)
           error == CaptionDecodeError(pid)
           first == CaptionRecord(pid, "kFirst", pes.kFirst, time)
           second == CaptionRecord(pid, "kSecond", pes.kSecond, time)
<1>1. /\ error.type = "captionDecodeError"
      /\ first.type = "caption" /\ first.time_ms = time /\ first.language = "kFirst"
      /\ second.type = "caption" /\ second.time_ms = time /\ second.language = "kSecond"
  BY DEF CaptionDecodeError, CaptionRecord
<1>2. \/ s = << >> \/ s = <<error>> \/ s = <<first>> \/ s = <<second>>
      \/ s = <<first, error>> \/ s = <<first, second>>
  <2>1. \/ s = Decoded(pid, "kFirst", pes.kFirst, time) \o << >>
        \/ /\ pes.kFirst # "kError"
           /\ s = Decoded(pid, "kFirst", pes.kFirst, time)
                    \o Decoded(pid, "kSecond", pes.kSecond, time)
    BY DEF PesRecords
  <2> HIDE DEF s, error, first, second
  <2>2. \A a, b : /\ << >> \o << >> = << >> /\ <<a>> \o << >> = <<a>>
                  /\ << >> \o <<b>> = <<b>> /\ <<a>> \o <<b>> = <<a, b>>
    BY ShortConcats
  <2>3. \/ Decoded(pid, "kFirst", pes.kFirst, time) = << >>
        \/ pes.kFirst = "kError" /\ Decoded(pid, "kFirst", pes.kFirst, time) = <<error>>
        \/ pes.kFirst # "kError" /\ Decoded(pid, "kFirst", pes.kFirst, time) = <<first>>
    BY DecodedIsOne DEF error, first
  <2>4. \/ Decoded(pid, "kSecond", pes.kSecond, time) = << >>
        \/ Decoded(pid, "kSecond", pes.kSecond, time) = <<error>>
        \/ Decoded(pid, "kSecond", pes.kSecond, time) = <<second>>
    BY DecodedIsOne DEF error, second
  <2> QED BY <2>1, <2>2, <2>3, <2>4
<1> HIDE DEF s, error, first, second
<1>3. IsSequence(s)
  BY <1>2, TuplesAreSequences
<1>4. IsRight(error, timed) /\ IsRight(first, timed) /\ IsRight(second, timed)
  BY <1>1 DEF IsRight
<1>5. \A i \in DOMAIN s : IsRight(s[i], timed)
  BY <1>2, <1>4
<1>6. InOrder(s)
  BY <1>1, <1>2 DEF InOrder
<1> QED BY <1>3, <1>5, <1>6 DEF s, AreRight

\* Records after the discontinuity the packet may report stay right and in order.
LEMMA FedRecords ==
    ASSUME NEW packet, NEW clock_after, NEW records, NEW timed,
           FeedPacket(packet, clock_after, records),
           AreRight(records, timed), InOrder(records)
    PROVE  AreRight(emitted', timed) /\ InOrder(emitted')
<1> DEFINE p == PcrRecord(packet)
<1>1. emitted' = p \o records
  BY DEF FeedPacket
<1>2. p = << >> \/ \E r : r.type = "pcrDiscontinuity" /\ p = <<r>>
  BY DEF PcrRecord
<1> HIDE DEF p
<1>3. /\ IsSequence(p) /\ Len(p) \in {0, 1}
      /\ \A i \in DOMAIN p : p[i].type = "pcrDiscontinuity"
  <2>1. CASE p = << >>
    <3>1. Len(p) = 0 /\ DOMAIN p = {}
      BY <2>1
    <3> QED BY <2>1, <3>1, TuplesAreSequences
  <2>2. ASSUME NEW r, r.type = "pcrDiscontinuity", p = <<r>>
        PROVE  /\ IsSequence(p) /\ Len(p) \in {0, 1}
               /\ \A i \in DOMAIN p : p[i].type = "pcrDiscontinuity"
    <3>1. Len(p) = 1 /\ DOMAIN p = {1} /\ p[1] = r
      BY <2>2
    <3>2. IsSequence(p)
      BY <2>2, TuplesAreSequences
    <3> QED BY <2>2, <3>1, <3>2
  <2> QED BY <1>2, <2>1, <2>2
<1>4. IsSequence(records)
  BY DEF AreRight
<1>5. /\ IsSequence(emitted') /\ Len(records) \in Nat
      /\ DOMAIN p = 1..Len(p) /\ DOMAIN records = 1..Len(records)
      /\ DOMAIN emitted' = 1..(Len(p) + Len(records))
      /\ \A i \in DOMAIN emitted' :
            emitted'[i] = IF i <= Len(p) THEN p[i] ELSE records[i - Len(p)]
  BY <1>1, <1>3, <1>4, ConcatOfSequences
<1>6. \A i \in DOMAIN emitted' :
         \/ i \in DOMAIN p /\ emitted'[i].type = "pcrDiscontinuity"
         \/ i - Len(p) \in DOMAIN records /\ emitted'[i] = records[i - Len(p)]
  BY <1>3, <1>5
<1>7. AreRight(emitted', timed)
  BY <1>5, <1>6 DEF AreRight, IsRight
<1>8. InOrder(emitted')
  <2> SUFFICES ASSUME NEW i \in DOMAIN emitted', NEW j \in DOMAIN emitted', i < j
               PROVE  /\ emitted'[i].type # "captionDecodeError"
                      /\ emitted'[i].type = "caption" /\ emitted'[j].type = "caption" =>
                            emitted'[i].language = "kFirst" /\ emitted'[j].language = "kSecond"
    BY DEF InOrder
  <2>1. CASE i \in DOMAIN p /\ emitted'[i].type = "pcrDiscontinuity"
    BY <2>1
  <2>2. CASE i - Len(p) \in DOMAIN records /\ emitted'[i] = records[i - Len(p)]
    <3>1. i - Len(p) < j - Len(p) /\ j \notin DOMAIN p
      BY <1>3, <1>5, <2>2
    <3>2. j - Len(p) \in DOMAIN records /\ emitted'[j] = records[j - Len(p)]
      BY <1>6, <3>1
    <3> QED BY <2>2, <3>1, <3>2 DEF InOrder
  <2> QED BY <1>6, <2>1, <2>2
<1> QED BY <1>7, <1>8

\* A call without records of its own, or with the collision diagnostic.
LEMMA PlainRecords ==
    ASSUME NEW records, NEW timed,
           \/ records = << >>
           \/ \E r : r.type = "reservedPmtPidCollision" /\ records = <<r>>
    PROVE  AreRight(records, timed) /\ InOrder(records)
<1>1. IsSequence(records)
  BY TuplesAreSequences
<1>2. \A i \in DOMAIN records : records[i].type = "reservedPmtPidCollision" /\ i = 1
  OBVIOUS
<1> QED BY <1>1, <1>2 DEF AreRight, IsRight, InOrder

-----------------------------------------------------------------------------
(* The records of a table.                                                 *)

\* With at most one present event, the first of ParseEit's two records is present exactly
\* if its section says so.
LEMMA ParsedSections ==
    ASSUME NEW eit \in Eits
    PROVE  /\ IsSequence(ParseEit(eit))
           /\ \A i \in DOMAIN ParseEit(eit) :
                 /\ ParseEit(eit)[i].type = "eit"
                 /\ ParseEit(eit)[i].section = ParseEit(eit)[i].event_section
<1>1. eit.present \in {0, 1} /\ eit.following \in Nat
  BY EitsAssumption
<1> DEFINE n == eit.present + eit.following
           count == IF n > 2 THEN 2 ELSE n
           record(i) == [type |-> "eit", version |-> eit.version,
                         event_section |-> Events(eit)[i],
                         section |-> GetSectionKind(i - 1, EitPresentSectionHasEvent(eit))]
<1>2. Len(Events(eit)) = n /\ n \in Nat
  BY <1>1 DEF Events
<1>3. ParseEit(eit) = [i \in 1..count |-> record(i)]
  BY <1>2 DEF ParseEit
<1>4. count \in Nat /\ count <= n
  BY <1>2
<1>5. \A i \in 1..count : record(i).section = record(i).event_section
  <2> TAKE i \in 1..count
  <2>1. Events(eit)[i] = IF i <= eit.present THEN "kPresent" ELSE "kFollowing"
    BY <1>4, <1>2 DEF Events
  <2>2. i \in Int /\ i >= 1
    BY <1>4
  <2> QED BY <1>1, <2>1, <2>2 DEF GetSectionKind, EitPresentSectionHasEvent
<1> HIDE DEF count
<1>6. IsSequence(ParseEit(eit))
  <2>1. ParseEit(eit) = [i \in 1..count |-> ParseEit(eit)[i]]
    BY <1>3
  <2> QED BY <1>4, <2>1, FunctionIsSequence
<1> QED BY <1>3, <1>5, <1>6

\* The records of a table are right.
LEMMA EitRecordsAre ==
    ASSUME NEW eit \in Eits, NEW version, NEW timed
    PROVE  AreRight(EitRecords(version, eit), timed) /\ InOrder(EitRecords(version, eit))
<1> DEFINE parsed == ParseEit(eit)
           X == {parsed[i] : i \in DOMAIN parsed}
           parts == [i \in DOMAIN parsed |-> Selected(parsed[i])]
<1>1. CASE EitRecords(version, eit) = << >>
  BY <1>1, PlainRecords
<1>2. CASE EitRecords(version, eit) = FlattenSeq(parts)
  <2>1. \A r \in X : r.type = "eit" /\ r.section = r.event_section
    BY ParsedSections
  <2>2. parsed \in Seq(X)
    BY ParsedSections DEF IsSequence
  <2>3. parts \in Seq(Seq(X))
    <3> HIDE DEF parsed
    <3>1. Len(parsed) \in Nat /\ DOMAIN parsed = 1..Len(parsed)
      BY <2>2, LenProperties
    <3>2. \A i \in DOMAIN parsed : Selected(parsed[i]) \in Seq(X)
      <4> TAKE i \in DOMAIN parsed
      <4>1. parsed[i] \in X
        OBVIOUS
      <4> HIDE DEF X
      <4>2. << >> \in Seq(X) /\ <<parsed[i]>> \in Seq(X)
        BY <4>1
      <4> QED BY <4>2 DEF Selected
    <3> HIDE DEF X
    <3> QED BY <3>1, <3>2
  <2> HIDE DEF parsed, parts, X
  <2>4. EitRecords(version, eit) \in Seq(X)
    BY <1>2, <2>3, FlattenSeqType
  <2>5. \A i \in DOMAIN EitRecords(version, eit) :
           /\ EitRecords(version, eit)[i].type = "eit"
           /\ EitRecords(version, eit)[i].section = EitRecords(version, eit)[i].event_section
    BY <2>1, <2>4, LenProperties, ElementOfSeq
  <2> QED BY <2>4, <2>5, SequenceOf DEF AreRight, IsRight, InOrder
<1> QED BY <1>1, <1>2 DEF EitRecords

-----------------------------------------------------------------------------
(* The records of every call.                                              *)

\* A PTS that the clock converts is converted with a current reference.
LEMMA ConversionIsTimed ==
    ASSUME ClockInv, NEW pts, PC!PtsToUnixMs(clock, pts) # None
    PROVE  Timed
<1>1. PC!Converts(clock)
  BY DEF PC!PtsToUnixMs
<1> QED BY <1>1 DEF PC!Converts, ClockInv, ReferenceIsCurrent, PC!ReferenceIsCurrent, Timed

\* A delivered PES packet's captions have the time of the packet that completes it, the
\* packet's own PCR taken into account.
LEMMA EndPesRecords ==
    ASSUME ClockInv', NEW packet, NEW pts, NEW pes, NEW another,
           EndPes(packet, pts, pes, another)
    PROVE  RecordsInv'
<1> DEFINE time == DeliveryTime(packet, pts)
           records == PesRecords(caption_emitters[packet.pid], packet.pid, pes, time)
<1>1. FeedPacket(packet, Sampled(packet), records)
  BY DEF EndPes
<1>2. time # None => Timed'
  <2>1. ASSUME time # None PROVE PC!PtsToUnixMs(clock', pts) # None
    BY <1>1, <2>1 DEF DeliveryTime, FeedPacket
  <2>2. ASSUME PC!PtsToUnixMs(clock', pts) # None PROVE Timed'
    <3>1. PC!Converts(clock')
      BY <2>2 DEF PC!PtsToUnixMs
    <3> QED BY <3>1 DEF PC!Converts, ClockInv, ReferenceIsCurrent, PC!ReferenceIsCurrent, Timed
  <2> QED BY <2>1, <2>2
<1> HIDE DEF time
<1>3. AreRight(records, Timed') /\ InOrder(records)
  BY <1>2, PesRecordsAre
<1> HIDE DEF records
<1>4. AreRight(emitted', Timed') /\ InOrder(emitted')
  BY <1>1, <1>3, FedRecords
<1> QED BY <1>4 DEF RecordsInv, AreRight, IsRight, Timed, InOrder

\* A flush converts with the clock as it is, and only delivers what emitters hold.
LEMMA FlushRecords ==
    ASSUME IInv, RestOK, ClockInv, NEW unbounded \in SUBSET begun, NEW pts,
           NEW last \in [unbounded -> PesContents], Flush(pts, last)
    PROVE  RecordsInv'
<1> DEFINE time == IF pts = None THEN None ELSE PC!PtsToUnixMs(clock, pts)
           n == Cardinality(DOMAIN last)
           pid(i) == SetToSeq(DOMAIN last)[i]
           records(i) == PesRecords(caption_emitters[pid(i)], pid(i), last[pid(i)], time)
           parts == [i \in 1..n |-> records(i)]
           X == UNION {{records(i)[k] : k \in DOMAIN records(i)} : i \in 1..n}
<1>1. emitted' = FlattenSeq(parts) /\ flushed' = TRUE /\ Timed' = Timed
  BY DEF Flush, Timed
<1>2. n \in Nat
  <2>1. DOMAIN last \in SUBSET EsPids
    BY DEF IInv, MembersOK, PesReachesItsEmitter, RestOK
  <2> QED BY <2>1, EsPidsAssumption, FS_Subset, FS_CardinalityType
<1>3. time # None => Timed
  BY ConversionIsTimed
<1>4. ASSUME NEW i \in 1..n
      PROVE  /\ records(i) \in Seq(X)
             /\ \A k \in DOMAIN records(i) : IsRight(records(i)[k], Timed)
  <2> HIDE DEF time
  <2>1. AreRight(records(i), Timed)
    BY <1>3, PesRecordsAre
  <2> HIDE DEF records
  <2>2. {records(i)[k] : k \in DOMAIN records(i)} \subseteq X
    OBVIOUS
  <2>3. records(i) \in Seq({records(i)[k] : k \in DOMAIN records(i)})
    BY <2>1 DEF AreRight, IsSequence
  <2> HIDE DEF X
  <2> QED BY <2>1, <2>2, <2>3, SeqMonotonic DEF AreRight
<1> HIDE DEF records, n
<1>5. \A r \in X : IsRight(r, Timed)
  BY <1>4
<1> HIDE DEF X
<1>6. parts \in Seq(Seq(X))
  BY <1>2, <1>4
<1>7. emitted' \in Seq(X)
  BY <1>1, <1>6, FlattenSeqType
<1>8. \A i \in DOMAIN emitted' : IsRight(emitted'[i], Timed)
  BY <1>5, <1>7, LenProperties, ElementOfSeq
<1>9. IsSequence(emitted')
  BY <1>7, SequenceOf
<1> QED BY <1>1, <1>8, <1>9 DEF RecordsInv, AreRight, IsSequence, IsRight

\* Whatever the call, its records are right and, but for a flush, in order.
LEMMA RecordsInvariance == Spec => []RecordsInv
<1>1. Init => RecordsInv
  <2> SUFFICES ASSUME Init PROVE RecordsInv
    OBVIOUS
  <2>1. emitted = << >>
    BY DEF Init
  <2>2. AreRight(<< >>, Timed) /\ InOrder(<< >>)
    BY PlainRecords
  <2> QED BY <2>1, <2>2 DEF RecordsInv
<1>2. IInv /\ RestOK /\ ClockInv /\ ClockInv' /\ RecordsInv /\ [Next]_vars => RecordsInv'
  <2> SUFFICES ASSUME IInv, RestOK, ClockInv, ClockInv', RecordsInv, [Next]_vars
               PROVE  RecordsInv'
    OBVIOUS
  <2>1. ASSUME NEW packet, NEW clock_after, NEW records,
               FeedPacket(packet, clock_after, records),
               AreRight(records, Timed'), InOrder(records)
        PROVE  RecordsInv'
    <3>1. AreRight(emitted', Timed') /\ InOrder(emitted')
      BY <2>1, FedRecords
    <3> QED BY <3>1 DEF RecordsInv, AreRight, IsRight, Timed, InOrder
  <2>2. AreRight(<< >>, Timed') /\ InOrder(<< >>)
    BY PlainRecords
  <2>3. ASSUME NEW packet, NEW pmt_pid, FeedPat(packet, pmt_pid)
        PROVE  RecordsInv'
    <3> DEFINE records == IF Collides(pmt_pid)
                          THEN <<[type |-> "reservedPmtPidCollision", pid |-> pmt_pid]>>
                          ELSE << >>
    <3>1. FeedPacket(packet, Sampled(packet), records)
      BY <2>3 DEF FeedPat
    <3>2. AreRight(records, Timed') /\ InOrder(records)
      <4>1. \/ records = << >>
            \/ \E r : r.type = "reservedPmtPidCollision" /\ records = <<r>>
        OBVIOUS
      <4> HIDE DEF records
      <4> QED BY <4>1, PlainRecords
    <3> HIDE DEF records
    <3> QED BY <2>1, <3>1, <3>2
  <2>4. ASSUME NEW packet, NEW pcr_pid, NEW streams, FeedPmt(packet, pcr_pid, streams)
        PROVE  RecordsInv'
    BY <2>1, <2>2, <2>4 DEF FeedPmt
  <2>5. ASSUME NEW packet, NEW unix_ms, FeedTot(packet, unix_ms)
        PROVE  RecordsInv'
    BY <2>1, <2>2, <2>5 DEF FeedTot
  <2>6. ASSUME NEW packet, NEW eit \in Eits, FeedEit(packet, eit)
        PROVE  RecordsInv'
    BY <2>1, <2>6, EitRecordsAre DEF FeedEit
  <2>7. ASSUME NEW packet, FeedIgnored(packet)
        PROVE  RecordsInv'
    BY <2>1, <2>2, <2>7 DEF FeedIgnored
  <2>8. ASSUME NEW packet, BeginPes(packet)
        PROVE  RecordsInv'
    BY <2>1, <2>2, <2>8 DEF BeginPes
  <2>9. CASE UNCHANGED vars
    BY <2>9 DEF vars, RecordsInv, AreRight, IsRight, Timed, InOrder, IsSequence
  <2> QED BY <2>3, <2>4, <2>5, <2>6, <2>7, <2>8, <2>9, EndPesRecords, FlushRecords DEF Next, Feed
<1> QED BY <1>1, <1>2, Invariance, RestInvariance, ClockInvariance, PTL DEF Spec

\* A caption is only ever timed with a reference that holds for the packet that completed
\* it, or for the end of the input.
THEOREM CaptionsAreTimedInSeries == Spec => []TimesAreCurrent
<1>1. RecordsInv => TimesAreCurrent
  BY DEF RecordsInv, AreRight, IsRight, Timed, TimesAreCurrent, Captions
<1> QED BY <1>1, RecordsInvariance, PTL

\* A PES packet gives at most one error diagnostic, last, and one caption per language.
THEOREM RecordsInOrder == Spec => []PesRecordsInOrder
<1>1. RecordsInv => PesRecordsInOrder
  BY DEF RecordsInv, InOrder, PesRecordsInOrder, Captions
<1> QED BY <1>1, RecordsInvariance, PTL

\* Every event is reported under the section it came in, also when a section is empty.
THEOREM SectionsAreRight == Spec => []EitSectionsAreRight
<1>1. RecordsInv => EitSectionsAreRight
  BY DEF RecordsInv, AreRight, IsRight, EitSectionsAreRight
<1> QED BY <1>1, RecordsInvariance, PTL
=============================================================================
