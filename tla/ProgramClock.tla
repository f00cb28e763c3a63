---------------------------- MODULE ProgramClock ----------------------------
(***************************************************************************)
(* ProgramClock (core/program_clock.{hpp,cc}): which PCR series is being   *)
(* tracked, and the PCR/wall-clock pair that converts PTS to Unix time.    *)
(*                                                                         *)
(* The members are the fields of one record, and each method is an         *)
(* operator from the record before to the record after, so that the        *)
(* components that own a clock (BroadcastClock, CaptionDumper) call it as  *)
(* the code does.  A PCR is its 90 kHz quotient; a packet with no PCR, or  *)
(* with one out of range, has pcr = None.                                  *)
(*                                                                         *)
(* The operators named Slip... are not part of the model: each is a way    *)
(* the operator after it could have been got wrong (README, "Mutants").    *)
(***************************************************************************)
EXTENDS Integers

CONSTANTS Modulus,        \* ts::MAX_PTS_DTS + 1 = 2^33
          MaxSaneDelta,   \* kMaxSanePcrDelta90k
          ConfirmCount,   \* kSuspectPcrConfirmCount
          TicksPerMs,     \* kPtsTicksPerSecond / kMillisPerSecond
          Pids,           \* PIDs a PCR can be on
          NullPid,        \* ts::PID_NULL: a PMT without a PCR PID
          UnixTimes,      \* the times a TOT can carry, in ms
          None            \* std::nullopt

ASSUME ModulusAssumption == Modulus \in Nat \ {0}
ASSUME MaxSaneDeltaAssumption == MaxSaneDelta \in Nat /\ 2 * MaxSaneDelta < Modulus
ASSUME ConfirmCountAssumption == ConfirmCount \in Nat \ {0, 1}
ASSUME TicksPerMsAssumption == TicksPerMs \in Nat \ {0}
ASSUME UnixTimesAssumption == UnixTimes \subseteq Int
ASSUME PidsAssumption == NullPid \notin Pids
ASSUME NoneAssumption ==
    /\ None \notin Int
    /\ None \notin Pids \cup {"flagged", "inferred"}
    /\ None \notin [pcr_90k : 0..(Modulus - 1), unix_ms : UnixTimes]

Ticks == 0..(Modulus - 1)
ReferencePoint == [pcr_90k : Ticks, unix_ms : UnixTimes]
Packet == [pid : Pids, pcr : Ticks \cup {None}, discontinuity_indicator : BOOLEAN]

NewClock ==
    [pcr_pid |-> None, last_pcr_90k |-> None, reference_point |-> None,
     suspect_pcr_count |-> 0]

-----------------------------------------------------------------------------
(* The arithmetic.                                                         *)

\* ts::DiffPTS: the way forward from `from` to `to`.
DiffPTS(from, to) == (to - from) % Modulus

\* Slip: no wrap.
SlipPlainDelta(from, to) == to - from

\* The nearer way round; forward when both are as far.
WrapAwareDelta90k(from, to) ==
    IF DiffPTS(from, to) <= DiffPTS(to, from) THEN DiffPTS(from, to) ELSE -DiffPTS(to, from)

IsSanePcrDelta(delta) == delta \in 0..MaxSaneDelta

\* C++ division truncates towards zero.
Truncated(a, b) == IF a >= 0 THEN a \div b ELSE -((-a) \div b)

-----------------------------------------------------------------------------
(* The methods.                                                            *)

ClearSuspect(c) == [c EXCEPT !.suspect_pcr_count = 0]

\* Slip: the reference outlives the PID it was taken on.
SlipKeepReference(c, pid) ==
    IF pid = NullPid \/ c.pcr_pid = pid THEN c
    ELSE ClearSuspect([c EXCEPT !.pcr_pid = pid, !.last_pcr_90k = None])

SetPcrPid(c, pid) ==
    IF pid = NullPid \/ c.pcr_pid = pid THEN c
    ELSE ClearSuspect([c EXCEPT !.pcr_pid = pid,
                                !.last_pcr_90k = None,
                                !.reference_point = None])

\* Slip: the old mapping is kept.
SlipAdoptKeepsReference(c, pcr_90k) == ClearSuspect([c EXCEPT !.last_pcr_90k = pcr_90k])

AdoptNewPcrSeries(c, pcr_90k) ==
    ClearSuspect([c EXCEPT !.last_pcr_90k = pcr_90k, !.reference_point = None])

\* Slip: the count is never confirmed.
SlipNeverConfirms(c) == FALSE

\* One more suspect sample makes it an inferred discontinuity.
Confirms(c) == c.suspect_pcr_count + 1 >= ConfirmCount

HandleSuspectPcrDiscontinuity(c, pcr_90k) ==
    IF Confirms(c) THEN AdoptNewPcrSeries(c, pcr_90k)
    ELSE [c EXCEPT !.suspect_pcr_count = c.suspect_pcr_count + 1]

\* The packet has a usable PCR on the tracked PID.
Usable(c, packet) == c.pcr_pid = packet.pid /\ packet.pcr # None

Continues(c, packet) ==
    \/ c.last_pcr_90k = None
    \/ IsSanePcrDelta(WrapAwareDelta90k(c.last_pcr_90k, packet.pcr))

\* Slip: an accepted PCR leaves an earlier suspicion standing.
SlipSuspicionStays(c, packet) ==
    IF ~Usable(c, packet) THEN c
    ELSE IF packet.discontinuity_indicator THEN AdoptNewPcrSeries(c, packet.pcr)
    ELSE IF Continues(c, packet) THEN [c EXCEPT !.last_pcr_90k = packet.pcr]
    ELSE HandleSuspectPcrDiscontinuity(c, packet.pcr)

RecordPcr(c, packet) ==
    IF ~Usable(c, packet) THEN c
    ELSE IF packet.discontinuity_indicator THEN AdoptNewPcrSeries(c, packet.pcr)
    ELSE IF Continues(c, packet) THEN ClearSuspect([c EXCEPT !.last_pcr_90k = packet.pcr])
    ELSE HandleSuspectPcrDiscontinuity(c, packet.pcr)

\* What RecordPcr returns: a PcrDiscontinuity, flagged or inferred.
PcrDiscontinuity(c, packet) ==
    IF ~Usable(c, packet) THEN None
    ELSE IF packet.discontinuity_indicator THEN "flagged"
    ELSE IF ~Continues(c, packet) /\ Confirms(c) THEN "inferred"
    ELSE None

\* A TOT can be paired with the last accepted PCR.
CanAnchor(c) == c.last_pcr_90k # None /\ c.suspect_pcr_count = 0

\* For a TOT with a representable time; others are ignored.
UpdateReferencePointFromTot(c, unix_ms) ==
    IF CanAnchor(c)
    THEN [c EXCEPT !.reference_point = [pcr_90k |-> c.last_pcr_90k, unix_ms |-> unix_ms]]
    ELSE c

\* Slip: a pending suspicion does not suppress the conversion.
SlipConvertWhileSuspect(c) == c.reference_point # None

\* PtsToUnixMs has an answer (for a PTS in range).
Converts(c) == c.reference_point # None /\ c.suspect_pcr_count = 0

PtsToUnixMs(c, pts_90k) ==
    IF Converts(c)
    THEN c.reference_point.unix_ms
           + Truncated(WrapAwareDelta90k(c.reference_point.pcr_90k, pts_90k), TicksPerMs)
    ELSE None

-----------------------------------------------------------------------------
(* A clock fed with any calls.                                             *)

VARIABLES clock,       \* the members
          reported,    \* what the last RecordPcr returned
          current      \* history: no change of PID or series since the reference

vars == <<clock, reported, current>>

Init == clock = NewClock /\ reported = None /\ current = FALSE

OnPmt(pid) ==
    /\ clock' = SetPcrPid(clock, pid)
    /\ current' = (current /\ clock'.pcr_pid = clock.pcr_pid)
    /\ reported' = None

OnPacket(packet) ==
    /\ clock' = RecordPcr(clock, packet)
    /\ reported' = PcrDiscontinuity(clock, packet)
    /\ current' = (current /\ reported' = None)

OnTot(unix_ms) ==
    /\ clock' = UpdateReferencePointFromTot(clock, unix_ms)
    /\ current' = (current \/ CanAnchor(clock))
    /\ reported' = None

Next ==
    \/ \E pid \in Pids \cup {NullPid} : OnPmt(pid)
    \/ \E packet \in Packet : OnPacket(packet)
    \/ \E unix_ms \in UnixTimes : OnTot(unix_ms)

Spec == Init /\ [][Next]_vars

-----------------------------------------------------------------------------
Clock ==
    [pcr_pid : Pids \cup {None}, last_pcr_90k : Ticks \cup {None},
     reference_point : ReferencePoint \cup {None}, suspect_pcr_count : 0..(ConfirmCount - 1)]

TypeOK ==
    /\ clock \in Clock
    /\ reported \in {None, "flagged", "inferred"}
    /\ current \in BOOLEAN

\* A reference maps the PCR series being tracked, never one that a change of PCR PID,
\* a flagged or an inferred discontinuity has superseded.
ReferenceIsCurrent == clock.reference_point # None => current

\* What the members can be together: a reference or a suspicion needs an accepted PCR,
\* and that a PID.
MembersAgree ==
    /\ clock.reference_point # None \/ clock.suspect_pcr_count > 0 => clock.last_pcr_90k # None
    /\ clock.last_pcr_90k # None => clock.pcr_pid # None

\* The PTS conversion is only ever lost for a reason the output shows, a PCR
\* discontinuity, or a PCR PID change; and a reported discontinuity always drops it.
LossIsReported ==
    [][/\ clock.reference_point # None /\ clock'.reference_point = None =>
            reported' # None \/ clock'.pcr_pid # clock.pcr_pid
       /\ reported' # None => ~Converts(clock')]_vars

\* ts_utils.hpp:22: the formatter of a converted time requires that "`unix_ms` must be
\* non-negative".  Violated soon after the epoch: a PTS can precede the reference.
TimesAreNonNegative ==
    \A pts_90k \in Ticks : Converts(clock) => PtsToUnixMs(clock, pts_90k) >= 0
=============================================================================
