------------------------ MODULE ProgramClock_proofs -------------------------
(***************************************************************************)
(* What ProgramClock keeps true of its members for every wrap, limit and   *)
(* sequence of calls, and what WrapAwareDelta90k returns; and, of a clock  *)
(* at the end of a broadcast (BroadcastClock), that it raises no false     *)
(* alarm, comes back into step after a change of series, and how far from  *)
(* right a converted time can be.                                          *)
(***************************************************************************)
EXTENDS BroadcastClock, TLAPS

(***************************************************************************)
(* The wrap-aware difference.                                              *)
(***************************************************************************)

\* The remainder of a difference of two ticks, without the modulus.
LEMMA DiffIsForward ==
    ASSUME NEW from \in Ticks, NEW to \in Ticks
    PROVE  /\ DiffPTS(from, to) \in Ticks
           /\ DiffPTS(from, to) = IF from <= to THEN to - from ELSE to - from + Modulus
  BY ModulusAssumption DEF DiffPTS, Ticks

\* The signed difference is the nearer way round: at most half a wrap, and it leads from
\* `from` to `to` up to a whole wrap.
THEOREM DeltaIsNearest ==
    ASSUME NEW from \in Ticks, NEW to \in Ticks
    PROVE  LET delta == WrapAwareDelta90k(from, to)
           IN  /\ delta \in Int
               /\ -Modulus <= 2 * delta /\ 2 * delta <= Modulus
               /\ from + delta \in {to - Modulus, to, to + Modulus}
<1> DEFINE forward == DiffPTS(from, to)
<1> DEFINE backward == DiffPTS(to, from)
<1>1. /\ from \in Int /\ to \in Int /\ Modulus \in Nat
      /\ 0 <= from /\ from < Modulus /\ 0 <= to /\ to < Modulus
  BY ModulusAssumption DEF Ticks
<1>2. /\ forward = IF from <= to THEN to - from ELSE to - from + Modulus
      /\ backward = IF to <= from THEN from - to ELSE from - to + Modulus
  BY DiffIsForward
<1>3. WrapAwareDelta90k(from, to) = IF forward <= backward THEN forward ELSE -backward
  BY DEF WrapAwareDelta90k
<1> HIDE DEF forward, backward
<1> QED BY <1>1, <1>2, <1>3

(***************************************************************************)
(* The invariant, call by call.                                            *)
(***************************************************************************)

\* The inductive invariant: a reference is current only together with the last PCR and
\* the PID it was taken on.
IInv == TypeOK /\ ReferenceIsCurrent /\ MembersAgree

\* Nothing is known of a new clock.
LEMMA InitIInv == Init => IInv
<1> SUFFICES ASSUME Init PROVE IInv
  OBVIOUS
<1>1. 0 \in 0..(ConfirmCount - 1)
  BY ConfirmCountAssumption
<1>2. clock \in Clock /\ clock.reference_point = None /\ clock.last_pcr_90k = None
        /\ clock.suspect_pcr_count = 0
  BY <1>1 DEF Init, NewClock, Clock
<1>3. reported = None /\ current \in BOOLEAN
  BY DEF Init
<1> QED BY <1>2, <1>3 DEF IInv, TypeOK, ReferenceIsCurrent, MembersAgree

\* c is a clock with these members.
Has(c, pid, pcr, reference, count) ==
    /\ c \in Clock
    /\ c.pcr_pid = pid
    /\ c.last_pcr_90k = pcr
    /\ c.reference_point = reference
    /\ c.suspect_pcr_count = count

\* An assignment to one member changes that member only.
LEMMA OneMemberUpdated ==
    ASSUME NEW c \in Clock
    PROVE  /\ \A pid \in Pids \cup {None} :
                 Has([c EXCEPT !.pcr_pid = pid], pid, c.last_pcr_90k, c.reference_point,
                     c.suspect_pcr_count)
           /\ \A pcr \in Ticks \cup {None} :
                 Has([c EXCEPT !.last_pcr_90k = pcr], c.pcr_pid, pcr, c.reference_point,
                     c.suspect_pcr_count)
           /\ \A reference \in ReferencePoint \cup {None} :
                 Has([c EXCEPT !.reference_point = reference], c.pcr_pid, c.last_pcr_90k,
                     reference, c.suspect_pcr_count)
           /\ \A count \in 0..(ConfirmCount - 1) :
                 Has([c EXCEPT !.suspect_pcr_count = count], c.pcr_pid, c.last_pcr_90k,
                     c.reference_point, count)
  BY DEF Clock, Has

\* The suspicion is cleared and the rest kept.
LEMMA ClearSuspectMembers ==
    ASSUME NEW c \in Clock
    PROVE  Has(ClearSuspect(c), c.pcr_pid, c.last_pcr_90k, c.reference_point, 0)
<1>1. 0 \in 0..(ConfirmCount - 1)
  BY ConfirmCountAssumption
<1> QED BY <1>1, OneMemberUpdated DEF ClearSuspect

\* An accepted PCR becomes the last one and clears a suspicion.
LEMMA AcceptedPcrMembers ==
    ASSUME NEW c \in Clock, NEW pcr \in Ticks
    PROVE  Has(ClearSuspect([c EXCEPT !.last_pcr_90k = pcr]), c.pcr_pid, pcr,
               c.reference_point, 0)
<1> DEFINE d == [c EXCEPT !.last_pcr_90k = pcr]
<1>1. Has(d, c.pcr_pid, pcr, c.reference_point, c.suspect_pcr_count)
  BY OneMemberUpdated
<1> HIDE DEF d
<1>2. Has(ClearSuspect(d), c.pcr_pid, pcr, c.reference_point, 0)
  BY <1>1, ClearSuspectMembers DEF Has
<1> QED BY <1>2 DEF d

\* A new series drops the reference as well.
LEMMA AdoptNewPcrSeriesMembers ==
    ASSUME NEW c \in Clock, NEW pcr \in Ticks
    PROVE  Has(AdoptNewPcrSeries(c, pcr), c.pcr_pid, pcr, None, 0)
<1> DEFINE d == [c EXCEPT !.last_pcr_90k = pcr]
<1> DEFINE e == [d EXCEPT !.reference_point = None]
<1>1. Has(d, c.pcr_pid, pcr, c.reference_point, c.suspect_pcr_count)
  BY OneMemberUpdated
<1>2. Has(e, c.pcr_pid, pcr, None, c.suspect_pcr_count)
  <2> HIDE DEF d
  <2> QED BY <1>1, OneMemberUpdated DEF Has
<1>3. AdoptNewPcrSeries(c, pcr) = ClearSuspect(e)
  BY DEF AdoptNewPcrSeries
<1> HIDE DEF e
<1> QED BY <1>2, <1>3, ClearSuspectMembers DEF Has

\* A new PCR PID drops everything else.
LEMMA SetPcrPidMembers ==
    ASSUME NEW c \in Clock, NEW pid \in Pids, c.pcr_pid # pid
    PROVE  Has(SetPcrPid(c, pid), pid, None, None, 0)
<1> DEFINE b == [c EXCEPT !.pcr_pid = pid]
<1> DEFINE d == [b EXCEPT !.last_pcr_90k = None]
<1> DEFINE e == [d EXCEPT !.reference_point = None]
<1>1. Has(b, pid, c.last_pcr_90k, c.reference_point, c.suspect_pcr_count)
  BY OneMemberUpdated
<1>2. Has(d, pid, None, c.reference_point, c.suspect_pcr_count)
  <2> HIDE DEF b
  <2> QED BY <1>1, OneMemberUpdated DEF Has
<1>3. Has(e, pid, None, None, c.suspect_pcr_count)
  <2> HIDE DEF d
  <2> QED BY <1>2, OneMemberUpdated DEF Has
<1>4. SetPcrPid(c, pid) = ClearSuspect(e)
  BY PidsAssumption DEF SetPcrPid
<1> HIDE DEF e
<1> QED BY <1>3, <1>4, ClearSuspectMembers DEF Has

\* One more suspect that does not confirm only counts.
LEMMA SuspectMembers ==
    ASSUME NEW c \in Clock, ~Confirms(c)
    PROVE  Has([c EXCEPT !.suspect_pcr_count = c.suspect_pcr_count + 1], c.pcr_pid,
               c.last_pcr_90k, c.reference_point, c.suspect_pcr_count + 1)
<1>1. c.suspect_pcr_count + 1 \in 0..(ConfirmCount - 1)
  BY ConfirmCountAssumption DEF Confirms, Clock
<1> QED BY <1>1, OneMemberUpdated

\* SetPcrPid forgets everything of the old PID, or changes nothing.
LEMMA OnPmtPreservesIInv ==
    ASSUME IInv, NEW pid \in Pids \cup {NullPid}, OnPmt(pid)
    PROVE  IInv'
<1> USE DEF IInv, TypeOK, ReferenceIsCurrent, MembersAgree
<1>1. clock' = SetPcrPid(clock, pid) /\ reported' = None
  BY DEF OnPmt
<1>2. current' \in BOOLEAN /\ (current /\ clock'.pcr_pid = clock.pcr_pid => current')
  BY DEF OnPmt
<1>3. CASE pid = NullPid \/ clock.pcr_pid = pid
  <2>1. clock' = clock
    BY <1>1, <1>3 DEF SetPcrPid
  <2> QED BY <1>1, <1>2, <2>1
<1>4. CASE ~(pid = NullPid \/ clock.pcr_pid = pid)
  <2>1. Has(clock', pid, None, None, 0)
    BY <1>1, <1>4, SetPcrPidMembers
  <2> QED BY <1>1, <1>2, <2>1 DEF Has
<1> QED BY <1>3, <1>4

\* RecordPcr drops the reference exactly when it reports a discontinuity; otherwise it
\* accepts the PCR or counts a suspect.
LEMMA OnPacketPreservesIInv ==
    ASSUME IInv, NEW packet \in Packet, OnPacket(packet)
    PROVE  IInv'
<1> USE DEF IInv, TypeOK, ReferenceIsCurrent, MembersAgree
<1>1. clock' = RecordPcr(clock, packet) /\ reported' = PcrDiscontinuity(clock, packet)
  BY DEF OnPacket
<1>2. current' \in BOOLEAN /\ (current /\ reported' = None => current')
  BY DEF OnPacket
<1>3. CASE ~Usable(clock, packet)
  <2>1. clock' = clock /\ reported' = None
    BY <1>1, <1>3 DEF RecordPcr, PcrDiscontinuity
  <2> QED BY <1>2, <2>1
<1>4. CASE Usable(clock, packet)
  <2>1. packet.pcr \in Ticks /\ packet.pcr # None /\ clock.pcr_pid # None
    BY <1>4, NoneAssumption DEF Usable, Packet
  <2>2. CASE clock' = AdoptNewPcrSeries(clock, packet.pcr)
             /\ reported' \in {"flagged", "inferred"}
    <3>1. Has(clock', clock.pcr_pid, packet.pcr, None, 0)
      BY <2>1, <2>2, AdoptNewPcrSeriesMembers
    <3> QED BY <1>2, <2>1, <2>2, <3>1 DEF Has
  <2>3. CASE clock' = ClearSuspect([clock EXCEPT !.last_pcr_90k = packet.pcr])
             /\ reported' = None
    <3>1. Has(clock', clock.pcr_pid, packet.pcr, clock.reference_point, 0)
      BY <2>1, <2>3, AcceptedPcrMembers
    <3> QED BY <1>2, <2>1, <2>3, <3>1 DEF Has
  <2>4. CASE clock' = [clock EXCEPT !.suspect_pcr_count = clock.suspect_pcr_count + 1]
             /\ reported' = None /\ ~Confirms(clock) /\ clock.last_pcr_90k # None
    <3>1. Has(clock', clock.pcr_pid, clock.last_pcr_90k, clock.reference_point,
              clock.suspect_pcr_count + 1)
      BY <2>4, SuspectMembers
    <3> QED BY <1>2, <2>1, <2>4, <3>1 DEF Has
  <2>5. \/ clock' = AdoptNewPcrSeries(clock, packet.pcr) /\ reported' \in {"flagged", "inferred"}
        \/ clock' = ClearSuspect([clock EXCEPT !.last_pcr_90k = packet.pcr]) /\ reported' = None
        \/ /\ clock' = [clock EXCEPT !.suspect_pcr_count = clock.suspect_pcr_count + 1]
           /\ reported' = None /\ ~Confirms(clock) /\ clock.last_pcr_90k # None
    <3>1. CASE packet.discontinuity_indicator
      BY <1>1, <1>4, <3>1 DEF RecordPcr, PcrDiscontinuity
    <3>2. CASE ~packet.discontinuity_indicator /\ Continues(clock, packet)
      BY <1>1, <1>4, <3>2 DEF RecordPcr, PcrDiscontinuity
    <3>3. CASE ~packet.discontinuity_indicator /\ ~Continues(clock, packet)
      <4>1. clock.last_pcr_90k # None
        BY <3>3 DEF Continues
      <4> QED BY <1>1, <1>4, <3>3, <4>1
              DEF RecordPcr, PcrDiscontinuity, HandleSuspectPcrDiscontinuity
    <3> QED BY <3>1, <3>2, <3>3
  <2> QED BY <2>2, <2>3, <2>4, <2>5
<1> QED BY <1>3, <1>4

\* A TOT only makes a reference out of an accepted PCR.
LEMMA OnTotPreservesIInv ==
    ASSUME IInv, NEW unix_ms \in UnixTimes, OnTot(unix_ms)
    PROVE  IInv'
<1> USE DEF IInv, TypeOK, ReferenceIsCurrent, MembersAgree
<1>1. clock' = UpdateReferencePointFromTot(clock, unix_ms) /\ reported' = None
  BY DEF OnTot
<1>2. current' \in BOOLEAN /\ (current \/ CanAnchor(clock) => current')
  BY DEF OnTot
<1>3. CASE CanAnchor(clock)
  <2>1. [pcr_90k |-> clock.last_pcr_90k, unix_ms |-> unix_ms] \in ReferencePoint
    BY <1>3 DEF CanAnchor, ReferencePoint, Clock
  <2>2. /\ clock' \in Clock /\ clock'.last_pcr_90k = clock.last_pcr_90k
        /\ clock'.last_pcr_90k # None /\ clock'.pcr_pid = clock.pcr_pid
    BY <1>1, <1>3, <2>1 DEF UpdateReferencePointFromTot, CanAnchor, Clock
  <2> QED BY <1>1, <1>2, <1>3, <2>2
<1>4. CASE ~CanAnchor(clock)
  <2>1. clock' = clock
    BY <1>1, <1>4 DEF UpdateReferencePointFromTot
  <2> QED BY <1>1, <1>2, <2>1
<1> QED BY <1>3, <1>4

\* Every call keeps the invariant.
THEOREM Invariance == Spec => []IInv
<1>1. Init => IInv
  BY InitIInv
<1>2. IInv /\ [Next]_vars => IInv'
  <2> SUFFICES ASSUME IInv, [Next]_vars PROVE IInv'
    OBVIOUS
  <2>1. CASE Next
    BY <2>1, OnPmtPreservesIInv, OnPacketPreservesIInv, OnTotPreservesIInv DEF Next
  <2>2. CASE UNCHANGED vars
    BY <2>2 DEF vars, IInv, TypeOK, ReferenceIsCurrent, MembersAgree
  <2> QED BY <2>1, <2>2
<1> QED BY <1>1, <1>2, PTL DEF Spec

\* Type correctness: the suspicion count stays below kSuspectPcrConfirmCount.
THEOREM TypeCorrect == Spec => []TypeOK
<1>1. IInv => TypeOK
  BY DEF IInv
<1> QED BY <1>1, Invariance, PTL

\* PtsToUnixMs never uses a reference of a PCR PID or series that has been superseded.
THEOREM NoStaleReference == Spec => []ReferenceIsCurrent
<1>1. IInv => ReferenceIsCurrent
  BY DEF IInv
<1> QED BY <1>1, Invariance, PTL

\* A reference or a suspicion needs an accepted PCR, and that a PID.
THEOREM MembersCohere == Spec => []MembersAgree
<1>1. IInv => MembersAgree
  BY DEF IInv
<1> QED BY <1>1, Invariance, PTL

\* The conversion is only lost with a report or a PCR PID change, and every reported
\* discontinuity drops it.
THEOREM NoSilentLoss == Spec => LossIsReported
<1>1. IInv /\ [Next]_vars =>
        [/\ clock.reference_point # None /\ clock'.reference_point = None =>
              reported' # None \/ clock'.pcr_pid # clock.pcr_pid
         /\ reported' # None => ~Converts(clock')]_vars
  <2> SUFFICES ASSUME IInv, Next
               PROVE  /\ clock.reference_point # None /\ clock'.reference_point = None =>
                           reported' # None \/ clock'.pcr_pid # clock.pcr_pid
                      /\ reported' # None => ~Converts(clock')
    BY DEF IInv
  <2> USE DEF IInv, TypeOK
  <2>1. ASSUME NEW pid \in Pids \cup {NullPid}, OnPmt(pid)
        PROVE  /\ clock.reference_point # None /\ clock'.reference_point = None =>
                     clock'.pcr_pid # clock.pcr_pid
               /\ reported' = None
    BY <2>1 DEF OnPmt, SetPcrPid, ClearSuspect
  <2>2. ASSUME NEW packet \in Packet, OnPacket(packet)
        PROVE  /\ clock.reference_point # None /\ clock'.reference_point = None =>
                     reported' # None
               /\ reported' # None => ~Converts(clock')
    <3>1. CASE reported' = None
      <4>1. clock'.reference_point = clock.reference_point
        BY <2>2, <3>1, NoneAssumption
        DEF OnPacket, RecordPcr, PcrDiscontinuity, HandleSuspectPcrDiscontinuity, ClearSuspect
      <4> QED BY <3>1, <4>1
    <3>2. CASE reported' # None
      <4>1. packet.pcr \in Ticks
        BY <2>2, <3>2 DEF OnPacket, PcrDiscontinuity, Usable, Packet
      <4>2. clock' = AdoptNewPcrSeries(clock, packet.pcr)
        BY <2>2, <3>2 DEF OnPacket, RecordPcr, PcrDiscontinuity, HandleSuspectPcrDiscontinuity
      <4>3. Has(clock', clock.pcr_pid, packet.pcr, None, 0)
        BY <4>1, <4>2, AdoptNewPcrSeriesMembers
      <4> QED BY <3>2, <4>3 DEF Converts, Has
    <3> QED BY <3>1, <3>2
  <2>3. ASSUME NEW unix_ms \in UnixTimes, OnTot(unix_ms)
        PROVE  /\ clock.reference_point # None => clock'.reference_point # None
               /\ reported' = None
    <3>1. clock' = UpdateReferencePointFromTot(clock, unix_ms) /\ reported' = None
      BY <2>3 DEF OnTot
    <3>2. CASE CanAnchor(clock)
      <4> DEFINE reference == [pcr_90k |-> clock.last_pcr_90k, unix_ms |-> unix_ms]
      <4>1. reference \in ReferencePoint
        BY <3>2 DEF CanAnchor, ReferencePoint, Clock
      <4>2. reference # None
        BY <4>1, NoneAssumption DEF ReferencePoint, Ticks
      <4>3. clock' = [clock EXCEPT !.reference_point = reference]
        BY <3>1, <3>2 DEF UpdateReferencePointFromTot
      <4> HIDE DEF reference
      <4>4. clock'.reference_point = reference
        BY <4>3 DEF Clock
      <4> QED BY <3>1, <4>2, <4>4
    <3>3. CASE ~CanAnchor(clock)
      BY <3>1, <3>3 DEF UpdateReferencePointFromTot
    <3> QED BY <3>1, <3>2, <3>3
  <2> QED BY <2>1, <2>2, <2>3 DEF Next
<1> QED BY <1>1, Invariance, PTL DEF Spec, LossIsReported

-----------------------------------------------------------------------------
(* BroadcastClock: arithmetic modulo the wrap.                             *)

\* Two multiples of the wrap less than a wrap apart are the same.
LEMMA WrapsApart ==
    ASSUME NEW k \in Int, NEW l \in Int,
           Modulus * k - Modulus * l < Modulus, Modulus * l - Modulus * k < Modulus
    PROVE  k = l
<1>1. Modulus \in Nat \ {0}
  BY ModulusAssumption
<1>2. CASE k > l
  <2>1. k - l - 1 \in Nat
    BY <1>2
  <2>2. Modulus * (k - l - 1) \in Nat
    BY <1>1, <2>1
  <2>3. Modulus * k - Modulus * l = Modulus * (k - l - 1) + Modulus
    BY <1>1
  <2> QED BY <1>1, <2>2, <2>3
<1>3. CASE l > k
  <2>1. l - k - 1 \in Nat
    BY <1>3
  <2>2. Modulus * (l - k - 1) \in Nat
    BY <1>1, <2>1
  <2>3. Modulus * l - Modulus * k = Modulus * (l - k - 1) + Modulus
    BY <1>1
  <2> QED BY <1>1, <2>2, <2>3
<1> QED BY <1>2, <1>3

\* A remainder is a tick, whole wraps away.
LEMMA RemainderIs ==
    ASSUME NEW x \in Int
    PROVE  /\ x % Modulus \in Ticks
           /\ \E k \in Int : x = Modulus * k + (x % Modulus)
<1>1. Modulus \in Nat \ {0}
  BY ModulusAssumption
<1>2. x \div Modulus \in Int /\ x = Modulus * (x \div Modulus) + (x % Modulus)
  BY <1>1
<1>3. x % Modulus \in 0..(Modulus - 1)
  BY <1>1
<1>4. \E k \in Int : x = Modulus * k + (x % Modulus)
  BY <1>2
<1> QED BY <1>3, <1>4 DEF Ticks

\* And the only one.
LEMMA RemainderIsUnique ==
    ASSUME NEW x \in Int, NEW k \in Int, NEW r \in Ticks, x = Modulus * k + r
    PROVE  x % Modulus = r
<1> DEFINE q == x % Modulus
<1>1. PICK l \in Int : x = Modulus * l + q
  BY RemainderIs
<1>2. q \in Int /\ r \in Int /\ 0 <= q /\ q < Modulus /\ 0 <= r /\ r < Modulus /\ Modulus \in Nat
  BY RemainderIs, ModulusAssumption DEF Ticks
<1> HIDE DEF q
<1>3. Modulus * k \in Int /\ Modulus * l \in Int
  BY <1>2
<1>4. Modulus * k - Modulus * l < Modulus /\ Modulus * l - Modulus * k < Modulus
  BY <1>1, <1>2, <1>3
<1>5. k = l
  BY <1>4, WrapsApart
<1> QED BY <1>1, <1>2, <1>3, <1>5 DEF q

\* Wrapping before or after an addition is the same.
LEMMA WrapThenAdd ==
    ASSUME NEW x \in Int, NEW d \in Int
    PROVE  ((x % Modulus) + d) % Modulus = (x + d) % Modulus
<1> DEFINE a == x % Modulus
           b == (a + d) % Modulus
<1>1. a \in Int /\ Modulus \in Nat
  BY RemainderIs, ModulusAssumption DEF Ticks
<1>2. PICK k \in Int : x = Modulus * k + a
  BY RemainderIs
<1>3. b \in Ticks /\ \E l \in Int : a + d = Modulus * l + b
  <2> DEFINE y == a + d
  <2>1. y \in Int
    BY <1>1
  <2> HIDE DEF y
  <2>2. y % Modulus \in Ticks /\ \E l \in Int : y = Modulus * l + (y % Modulus)
    BY <2>1, RemainderIs
  <2> QED BY <2>2 DEF y
<1>4. PICK l \in Int : a + d = Modulus * l + b
  BY <1>3
<1>5. b \in Int
  BY <1>3, <1>1 DEF Ticks
<1> HIDE DEF a, b
<1>6. x + d = Modulus * (k + l) + b
  <2>1. Modulus * (k + l) = Modulus * k + Modulus * l /\ Modulus * k \in Int /\ Modulus * l \in Int
    BY <1>1
  <2> QED BY <1>1, <1>2, <1>4, <1>5, <2>1
<1>7. (x + d) % Modulus = b
  BY <1>3, <1>6, RemainderIsUnique
<1> QED BY <1>7 DEF a, b

\* The difference leads from one tick to the other.
LEMMA DeltaReaches ==
    ASSUME NEW from \in Ticks, NEW to \in Ticks
    PROVE  /\ WrapAwareDelta90k(from, to) \in Int
           /\ to = (from + WrapAwareDelta90k(from, to)) % Modulus
<1> DEFINE delta == WrapAwareDelta90k(from, to)
<1>1. delta \in Int /\ from + delta \in {to - Modulus, to, to + Modulus}
  BY DeltaIsNearest
<1> HIDE DEF delta
<1>2. from \in Int /\ to \in Int /\ Modulus \in Nat
  BY ModulusAssumption DEF Ticks
<1>3. \E k \in {-1, 0, 1} : from + delta = Modulus * k + to
  BY <1>1, <1>2
<1>4. (from + delta) % Modulus = to
  BY <1>1, <1>2, <1>3, RemainderIsUnique
<1> QED BY <1>1, <1>4 DEF delta

\* A way of less than half a wrap is the difference.
LEMMA DeltaOfShortWay ==
    ASSUME NEW from \in Ticks, NEW d \in Int, -Modulus < 2 * d, 2 * d < Modulus
    PROVE  WrapAwareDelta90k(from, (from + d) % Modulus) = d
<1> DEFINE to == (from + d) % Modulus
           delta == WrapAwareDelta90k(from, to)
<1>1. from \in Int /\ Modulus \in Nat
  BY ModulusAssumption DEF Ticks
<1>2. to \in Ticks /\ \E k \in Int : from + d = Modulus * k + to
  <2> DEFINE y == from + d
  <2>1. y \in Int
    BY <1>1
  <2> HIDE DEF y
  <2>2. y % Modulus \in Ticks /\ \E k \in Int : y = Modulus * k + (y % Modulus)
    BY <2>1, RemainderIs
  <2> QED BY <2>2 DEF y
<1>3. PICK k \in Int : from + d = Modulus * k + to
  BY <1>2
<1>4. /\ delta \in Int /\ -Modulus <= 2 * delta /\ 2 * delta <= Modulus
      /\ from + delta \in {to - Modulus, to, to + Modulus}
  BY <1>2, DeltaIsNearest
<1>5. to \in Int
  BY <1>2, <1>1 DEF Ticks
<1> HIDE DEF to, delta
<1>6. PICK l \in {-1, 0, 1} : from + delta = Modulus * l + to
  BY <1>1, <1>4, <1>5
<1>7. Modulus * k \in Int /\ Modulus * l \in Int
  BY <1>1
<1>8. Modulus * k - Modulus * l = d - delta
  BY <1>1, <1>3, <1>4, <1>5, <1>6, <1>7
<1>9. k = l
  <2>1. Modulus * k - Modulus * l < Modulus /\ Modulus * l - Modulus * k < Modulus
    BY <1>1, <1>4, <1>7, <1>8
  <2> QED BY <2>1, WrapsApart
<1>10. d = delta
  BY <1>4, <1>7, <1>8, <1>9
<1> QED BY <1>10 DEF to, delta

-----------------------------------------------------------------------------
(* BroadcastClock: the clock's part of a step.                             *)

\* What broadcaster and history are; the clock is one of ProgramClock's, on the PCR PID.
CountsOK ==
    /\ now \in 0..EndTime /\ offset \in Int
    /\ since_pcr \in 0..PcrInterval /\ lost \in Nat
    /\ last_at \in 0..now /\ arrived \in 0..ConfirmCount /\ silent \in Nat
    /\ anchor_age \in Nat /\ anchor_at \in 0..now
FlagsOK == {flag, fresh, unseen, settled} \subseteq BOOLEAN
BTypeOK == IInv /\ clock.pcr_pid = PcrPid /\ CountsOK /\ FlagsOK

\* The packet that carries the PCR.
PcrPacket == [pid |-> PcrPid, pcr |-> StreamTime(now), discontinuity_indicator |-> flag]

LEMMA StreamTimeIsTick ==
    ASSUME BTypeOK, NEW at \in Int
    PROVE  StreamTime(at) \in Ticks /\ StreamTime(at) # None /\ StreamTime(at) \in Int
<1> DEFINE y == at + offset
<1>1. y \in Int
  BY DEF BTypeOK, CountsOK, FlagsOK
<1> HIDE DEF y
<1>2. y % Modulus \in Ticks
  BY <1>1, RemainderIs
<1>3. StreamTime(at) \in Ticks
  BY <1>2 DEF StreamTime, y
<1> QED BY <1>3, ModulusAssumption, NoneAssumption DEF Ticks

\* What a PCR can do: begin a series, be accepted, or be one more suspect.
Adopts(pcr) ==
    /\ Has(clock', PcrPid, pcr, None, 0)
    /\ reported' # None
    /\ flag \/ ~Continues(clock, PcrPacket)
Accepts(pcr) ==
    /\ Has(clock', PcrPid, pcr, clock.reference_point, 0)
    /\ reported' = None /\ ~flag /\ Continues(clock, PcrPacket)
Suspects ==
    /\ Has(clock', PcrPid, clock.last_pcr_90k, clock.reference_point, clock.suspect_pcr_count + 1)
    /\ reported' = None /\ ~flag /\ clock.last_pcr_90k # None
    /\ ~Continues(clock, PcrPacket)

LEMMA PcrOutcome ==
    ASSUME BTypeOK, OnPacket(PcrPacket)
    PROVE  /\ IInv'
           /\ Adopts(StreamTime(now)) \/ Accepts(StreamTime(now)) \/ Suspects
<1> DEFINE pcr == StreamTime(now)
<1>1. pcr \in Ticks /\ pcr # None
  BY StreamTimeIsTick DEF BTypeOK, CountsOK, FlagsOK
<1>2. /\ PcrPacket \in Packet /\ PcrPacket.pid = PcrPid /\ PcrPacket.pcr = pcr
      /\ PcrPacket.discontinuity_indicator = flag
  BY <1>1, BroadcastAssumption DEF PcrPacket, Packet, BTypeOK, CountsOK, FlagsOK
<1>3. IInv'
  BY <1>2, OnPacketPreservesIInv DEF BTypeOK, CountsOK, FlagsOK
<1>4. Usable(clock, PcrPacket) /\ clock \in Clock /\ clock.pcr_pid = PcrPid
  BY <1>1, <1>2 DEF Usable, BTypeOK, IInv, TypeOK
<1>5. clock' = RecordPcr(clock, PcrPacket) /\ reported' = PcrDiscontinuity(clock, PcrPacket)
  BY DEF OnPacket
<1> HIDE DEF pcr
<1>6. ASSUME flag PROVE Adopts(pcr)
  <2>1. clock' = AdoptNewPcrSeries(clock, pcr) /\ reported' = "flagged"
    BY <1>2, <1>4, <1>5, <1>6 DEF RecordPcr, PcrDiscontinuity
  <2> QED BY <1>1, <1>4, <1>6, <2>1, AdoptNewPcrSeriesMembers, NoneAssumption DEF Adopts
<1>7. ASSUME ~flag, Continues(clock, PcrPacket) PROVE Accepts(pcr)
  <2>1. clock' = ClearSuspect([clock EXCEPT !.last_pcr_90k = pcr]) /\ reported' = None
    BY <1>2, <1>4, <1>5, <1>7 DEF RecordPcr, PcrDiscontinuity
  <2> QED BY <1>1, <1>4, <1>7, <2>1, AcceptedPcrMembers DEF Accepts
<1>8. ASSUME ~flag, ~Continues(clock, PcrPacket), Confirms(clock) PROVE Adopts(pcr)
  <2>1. clock' = AdoptNewPcrSeries(clock, pcr) /\ reported' = "inferred"
    BY <1>2, <1>4, <1>5, <1>8 DEF RecordPcr, PcrDiscontinuity, HandleSuspectPcrDiscontinuity
  <2> QED BY <1>1, <1>4, <1>8, <2>1, AdoptNewPcrSeriesMembers, NoneAssumption DEF Adopts
<1>9. ASSUME ~flag, ~Continues(clock, PcrPacket), ~Confirms(clock) PROVE Suspects
  <2>1. clock' = [clock EXCEPT !.suspect_pcr_count = clock.suspect_pcr_count + 1]
        /\ reported' = None
    BY <1>2, <1>4, <1>5, <1>9 DEF RecordPcr, PcrDiscontinuity, HandleSuspectPcrDiscontinuity
  <2>2. clock.last_pcr_90k # None
    BY <1>9 DEF Continues
  <2> QED BY <1>4, <1>9, <2>1, <2>2, SuspectMembers DEF Suspects
<1>10. Adopts(pcr) \/ Accepts(pcr) \/ Suspects
  BY <1>6, <1>7, <1>8, <1>9
<1> QED BY <1>3, <1>10 DEF pcr

\* What a TOT does: pair its time with the last PCR, if that was accepted.
LEMMA TotOutcome ==
    ASSUME BTypeOK, SendTot
    PROVE  /\ IInv'
           /\ IF CanAnchor(clock)
              THEN /\ clock'.reference_point =
                        [pcr_90k |-> clock.last_pcr_90k, unix_ms |-> now \div TicksPerMs]
                   /\ clock'.reference_point # None
                   /\ clock'.pcr_pid = clock.pcr_pid
                   /\ clock'.last_pcr_90k = clock.last_pcr_90k
                   /\ clock'.suspect_pcr_count = clock.suspect_pcr_count
              ELSE clock' = clock
<1> DEFINE unix_ms == now \div TicksPerMs
           reference == [pcr_90k |-> clock.last_pcr_90k, unix_ms |-> unix_ms]
<1>1. unix_ms \in UnixTimes /\ OnTot(unix_ms)
  <2>1. /\ now \in Nat /\ now <= EndTime /\ EndTime \in Nat /\ TicksPerMs \in Nat /\ TicksPerMs > 0
    BY BroadcastAssumption, TicksPerMsAssumption DEF BTypeOK, CountsOK, FlagsOK
  <2>2. now \div TicksPerMs \in 0..(EndTime \div TicksPerMs)
    BY <2>1
  <2> QED BY <2>2, BroadcastAssumption DEF SendTot
<1> HIDE DEF unix_ms
<1>2. IInv' /\ clock \in Clock
  BY <1>1, OnTotPreservesIInv DEF BTypeOK, IInv, TypeOK
<1>3. clock' = UpdateReferencePointFromTot(clock, unix_ms)
  BY <1>1 DEF OnTot
<1>4. ASSUME CanAnchor(clock)
      PROVE  reference # None /\ Has(clock', clock.pcr_pid, clock.last_pcr_90k, reference,
                                     clock.suspect_pcr_count)
  <2>1. reference \in ReferencePoint
    BY <1>1, <1>2, <1>4 DEF CanAnchor, ReferencePoint, Clock
  <2>2. reference # None
    BY <2>1, NoneAssumption DEF ReferencePoint, Ticks
  <2>3. clock' = [clock EXCEPT !.reference_point = reference]
    BY <1>3, <1>4 DEF UpdateReferencePointFromTot
  <2> HIDE DEF reference
  <2> QED BY <1>2, <2>1, <2>2, <2>3, OneMemberUpdated
<1>5. ~CanAnchor(clock) => clock' = clock
  BY <1>3 DEF UpdateReferencePointFromTot
<1> QED BY <1>2, <1>4, <1>5 DEF Has, unix_ms

\* A PCR that is at most PcrInterval after the last accepted one of its series continues it.
LEMMA NextPcrContinues ==
    ASSUME BTypeOK, NEW at \in 0..now, now - at <= PcrInterval,
           clock.last_pcr_90k = StreamTime(at)
    PROVE  Continues(clock, PcrPacket)
<1> DEFINE from == StreamTime(at)
           d == now - at
<1>1. /\ now \in Nat /\ at \in Nat /\ d \in Nat /\ d <= MaxSaneDelta
      /\ 2 * d < Modulus /\ -Modulus < 2 * d /\ offset \in Int
  BY ModulusAssumption, MaxSaneDeltaAssumption, PcrIntervalAssumption DEF BTypeOK, CountsOK, FlagsOK
<1>2. from \in Ticks
  BY <1>1, StreamTimeIsTick
<1>3. StreamTime(now) = (from + d) % Modulus
  <2> DEFINE x == at + offset
  <2>1. x \in Int /\ x + d = now + offset
    BY <1>1
  <2> HIDE DEF d
  <2>2. ((x % Modulus) + d) % Modulus = (x + d) % Modulus
    <3> HIDE DEF x
    <3> QED BY <1>1, <2>1, WrapThenAdd
  <2> QED BY <2>1, <2>2 DEF StreamTime
<1> HIDE DEF from, d
<1>4. WrapAwareDelta90k(from, StreamTime(now)) = d
  BY <1>1, <1>2, <1>3, DeltaOfShortWay
<1>5. IsSanePcrDelta(d)
  BY <1>1, MaxSaneDeltaAssumption DEF IsSanePcrDelta
<1> QED BY <1>4, <1>5 DEF Continues, PcrPacket, from

-----------------------------------------------------------------------------
(* BroadcastClock: types, and the clock in step with the series.           *)

\* A PCR that arrives, in the terms above.
LEMMA SendPcrIs ==
    ASSUME BTypeOK, SendPcr
    PROVE  /\ OnPacket(PcrPacket)
           /\ since_pcr' = 0 /\ flag' = FALSE /\ last_at' = now /\ fresh' = TRUE
           /\ arrived' = IF arrived < ConfirmCount THEN arrived + 1 ELSE arrived
           /\ unseen' = (unseen /\ clock'.suspect_pcr_count > 0)
           /\ silent' = IF /\ clock.last_pcr_90k # None /\ ~flag
                           /\ Continues(clock, PcrPacket) /\ unseen
                        THEN silent + 1 ELSE silent
           /\ UNCHANGED <<now, offset, splices, lost, anchor_age, anchor_at, settled>>
BY DEF SendPcr, PcrPacket

LEMMA BInitTypes == BInit => BTypeOK /\ clock = SetPcrPid(NewClock, PcrPid)
                             /\ Has(clock, PcrPid, None, None, 0)
<1> SUFFICES ASSUME BInit
             PROVE  BTypeOK /\ clock = SetPcrPid(NewClock, PcrPid) /\ Has(clock, PcrPid, None, None, 0)
  OBVIOUS
<1>1. NewClock \in Clock /\ NewClock.pcr_pid # PcrPid /\ PcrPid \in Pids
  <2>1. 0 \in 0..(ConfirmCount - 1)
    BY ConfirmCountAssumption
  <2> QED BY <2>1, BroadcastAssumption, NoneAssumption DEF NewClock, Clock
<1>2. clock = SetPcrPid(NewClock, PcrPid) /\ reported = None /\ current = FALSE
  BY DEF BInit
<1>3. Has(clock, PcrPid, None, None, 0)
  BY <1>1, <1>2, SetPcrPidMembers
<1>4. IInv
  <2>1. TypeOK
    BY <1>2, <1>3 DEF Has, TypeOK
  <2>2. ReferenceIsCurrent /\ MembersAgree
    BY <1>3 DEF Has, ReferenceIsCurrent, MembersAgree
  <2> QED BY <2>1, <2>2 DEF IInv
<1>5. CountsOK
  BY PcrIntervalAssumption, ConfirmCountAssumption, BroadcastAssumption, MaxSaneDeltaAssumption
     DEF BInit, CountsOK
<1>6. FlagsOK
  BY DEF BInit, FlagsOK
<1> QED BY <1>2, <1>3, <1>4, <1>5, <1>6 DEF BTypeOK, Has

LEMMA BTypeInvariance == BSpec => []BTypeOK
<1>1. BInit => BTypeOK
  BY BInitTypes
<1>2. BTypeOK /\ [BNext]_allVars => BTypeOK'
  <2> SUFFICES ASSUME BTypeOK, [BNext]_allVars PROVE BTypeOK'
    OBVIOUS
  <2>0. /\ PcrInterval \in Nat /\ ConfirmCount \in Nat /\ EndTime \in Nat
        /\ Modulus \in Nat /\ Modulus > 0
    BY PcrIntervalAssumption, ConfirmCountAssumption, BroadcastAssumption, ModulusAssumption,
       MaxSaneDeltaAssumption
  <2>1. ASSUME UNCHANGED vars PROVE IInv' /\ clock'.pcr_pid = PcrPid
    BY <2>1 DEF vars, BTypeOK, IInv, TypeOK, ReferenceIsCurrent, MembersAgree
  <2>2. CASE Tick
    <3>1. CountsOK'
      BY <2>0, <2>2 DEF Tick, BTypeOK, CountsOK, history
    <3>2. FlagsOK'
      BY <2>2 DEF Tick, BTypeOK, FlagsOK, history
    <3> QED BY <2>1, <2>2, <3>1, <3>2 DEF Tick, BTypeOK
  <2>3. ASSUME NEW jump \in Jumps, NEW flagged \in BOOLEAN, Splice(jump, flagged)
        PROVE  BTypeOK'
    <3>1. offset' \in Int
      <4> DEFINE x == offset + jump
      <4>1. x \in Int
        BY <2>3, BroadcastAssumption DEF BTypeOK, CountsOK
      <4> HIDE DEF x
      <4>2. x % Modulus \in Int
        BY <2>0, <4>1
      <4> QED BY <2>3, <4>2 DEF Splice, x
    <3>2. CountsOK'
      BY <2>0, <2>3, <3>1 DEF Splice, BTypeOK, CountsOK
    <3>3. FlagsOK'
      BY <2>3 DEF Splice, BTypeOK, FlagsOK
    <3> QED BY <2>1, <2>3, <3>2, <3>3 DEF Splice, BTypeOK
  <2>4. CASE SendPcr
    <3>1. IInv' /\ clock'.pcr_pid = PcrPid
      BY <2>4, SendPcrIs, PcrOutcome DEF Adopts, Accepts, Suspects, Has
    <3>2. CountsOK'
      BY <2>0, <2>4, SendPcrIs DEF BTypeOK, CountsOK
    <3>3. FlagsOK'
      BY <2>4, SendPcrIs DEF BTypeOK, FlagsOK
    <3> QED BY <3>1, <3>2, <3>3 DEF BTypeOK
  <2>5. CASE LosePcr
    <3>1. CountsOK'
      BY <2>0, <2>5 DEF LosePcr, BTypeOK, CountsOK, history
    <3>2. FlagsOK'
      BY <2>5 DEF LosePcr, BTypeOK, FlagsOK, history
    <3> QED BY <2>1, <2>5, <3>1, <3>2 DEF LosePcr, BTypeOK
  <2>6. CASE SendTot
    <3>1. IInv' /\ clock'.pcr_pid = PcrPid
      BY <2>6, TotOutcome DEF BTypeOK
    <3>2. CountsOK'
      <4>1. /\ UNCHANGED <<sender, last_at, arrived>>
            /\ \/ UNCHANGED <<anchor_age, anchor_at, silent>>
               \/ anchor_age' = now - last_at /\ anchor_at' = now /\ silent' = 0
        BY <2>6 DEF SendTot
      <4> QED BY <2>0, <4>1 DEF BTypeOK, CountsOK, sender
    <3>3. FlagsOK'
      BY <2>6 DEF SendTot, BTypeOK, FlagsOK, sender
    <3> QED BY <3>1, <3>2, <3>3 DEF BTypeOK
  <2>7. CASE UNCHANGED allVars
    <3>1. CountsOK' /\ FlagsOK'
      BY <2>7 DEF allVars, BTypeOK, CountsOK, FlagsOK, sender, history
    <3> QED BY <2>1, <2>7, <3>1 DEF allVars, BTypeOK
  <2> QED BY <2>2, <2>3, <2>4, <2>5, <2>6, <2>7 DEF BNext
<1> QED BY <1>1, <1>2, PTL DEF BSpec

\* The last PCR that arrived was accepted, and is of the current series.
InStep == clock.suspect_pcr_count = 0 /\ clock.last_pcr_90k = StreamTime(last_at)

\* While no PCR has been lost: the last one arrived when it was sent.  With no change of
\* series to be found out the clock is in step, and so it is once more PCRs of the series
\* have arrived than are suspected.
InStepInv ==
    /\ flag => unseen /\ arrived = 0
    /\ lost = 0 =>
         /\ now - last_at = since_pcr
         /\ ~unseen => InStep \/ clock.last_pcr_90k = None
         /\ arrived > clock.suspect_pcr_count => InStep
         /\ settled => arrived = ConfirmCount /\ clock.reference_point # None

\* In step, the next PCR is accepted.
LEMMA InStepAccepts ==
    ASSUME BTypeOK, InStepInv, SendPcr, lost = 0, InStep \/ clock.last_pcr_90k = None
    PROVE  Continues(clock, PcrPacket)
<1>1. CASE clock.last_pcr_90k = None
  BY <1>1 DEF Continues
<1>2. CASE InStep
  <2>1. last_at \in 0..now /\ now - last_at <= PcrInterval /\ clock.last_pcr_90k = StreamTime(last_at)
    BY <1>2 DEF InStep, InStepInv, BTypeOK, CountsOK
  <2> QED BY <2>1, NextPcrContinues
<1> QED BY <1>1, <1>2

LEMMA SendPcrKeepsInStep ==
    ASSUME BTypeOK, InStepInv, SendPcr
    PROVE  InStepInv'
<1>1. /\ flag' = FALSE /\ lost' = lost /\ now' = now /\ last_at' = now /\ since_pcr' = 0
      /\ StreamTime(last_at)' = StreamTime(now) /\ settled' = settled
      /\ arrived' = IF arrived < ConfirmCount THEN arrived + 1 ELSE arrived
      /\ unseen' = (unseen /\ clock'.suspect_pcr_count > 0)
  BY SendPcrIs DEF StreamTime
<1>2. /\ now \in Nat /\ arrived \in 0..ConfirmCount /\ ConfirmCount \in Nat /\ ConfirmCount > 1
      /\ clock.suspect_pcr_count \in Nat /\ flag \in BOOLEAN /\ unseen \in BOOLEAN
  BY ConfirmCountAssumption, BroadcastAssumption DEF BTypeOK, CountsOK, FlagsOK, IInv, TypeOK, Clock
<1> DEFINE pcr == StreamTime(now)
<1>3. Adopts(pcr) \/ Accepts(pcr) \/ Suspects
  BY SendPcrIs, PcrOutcome
<1>4. pcr # None
  BY <1>2, StreamTimeIsTick
<1> HIDE DEF pcr
<1> SUFFICES ASSUME lost = 0
             PROVE  /\ ~unseen' => InStep' \/ clock'.last_pcr_90k = None
                    /\ arrived' > clock'.suspect_pcr_count => InStep'
                    /\ settled => arrived' = ConfirmCount /\ clock'.reference_point # None
  BY <1>1, <1>2 DEF InStepInv
<1>5. settled => arrived = ConfirmCount /\ clock.reference_point # None /\ ~flag /\ InStep
  <2>1. arrived > clock.suspect_pcr_count => InStep
    BY DEF InStepInv
  <2>2. clock.suspect_pcr_count < ConfirmCount
    BY ConfirmCountAssumption DEF BTypeOK, CountsOK, FlagsOK, IInv, TypeOK, Clock
  <2> QED BY <1>2, <2>1, <2>2 DEF InStepInv
<1>6. settled => Continues(clock, PcrPacket) /\ arrived' = ConfirmCount
  BY <1>1, <1>2, <1>5, InStepAccepts
<1>7. CASE Adopts(pcr)
  <2>1. InStep'
    BY <1>1, <1>7 DEF Adopts, Has, InStep, pcr
  <2>2. ~settled
    BY <1>5, <1>6, <1>7 DEF Adopts
  <2> QED BY <2>1, <2>2
<1>8. CASE Accepts(pcr)
  <2>1. InStep' /\ clock'.reference_point = clock.reference_point
    BY <1>1, <1>8 DEF Accepts, Has, InStep, pcr
  <2> QED BY <1>5, <1>6, <2>1
<1>9. CASE Suspects
  <2>1. ~Continues(clock, PcrPacket) /\ clock'.suspect_pcr_count = clock.suspect_pcr_count + 1
        /\ clock.last_pcr_90k # None
    BY <1>9 DEF Suspects, Has
  <2>2. ~InStep /\ ~settled
    BY <1>6, <2>1, InStepAccepts
  <2>3. unseen /\ ~(arrived > clock.suspect_pcr_count)
    BY <2>1, <2>2, <1>2 DEF InStepInv
  <2>4. clock'.suspect_pcr_count > 0 /\ ~(arrived' > clock'.suspect_pcr_count)
    BY <1>1, <1>2, <2>1, <2>3
  <2> QED BY <1>1, <2>2, <2>3, <2>4
<1> QED BY <1>3, <1>7, <1>8, <1>9

LEMMA InStepInvariance == BSpec => []InStepInv
<1>1. BInit => InStepInv
  <2> SUFFICES ASSUME BInit PROVE InStepInv
    OBVIOUS
  <2>1. Has(clock, PcrPid, None, None, 0)
    BY BInitTypes
  <2> QED BY <2>1 DEF BInit, InStepInv, Has
<1>2. BTypeOK /\ InStepInv /\ [BNext]_allVars => InStepInv'
  <2> SUFFICES ASSUME BTypeOK, InStepInv, [BNext]_allVars PROVE InStepInv'
    OBVIOUS
  <2>1. /\ now \in Nat /\ last_at \in Nat /\ since_pcr \in Nat /\ lost \in Nat /\ EndTime \in Nat
        /\ clock.suspect_pcr_count \in Nat /\ clock.suspect_pcr_count < ConfirmCount
    BY ConfirmCountAssumption, BroadcastAssumption, PcrIntervalAssumption, MaxSaneDeltaAssumption
       DEF BTypeOK, CountsOK, FlagsOK, IInv, TypeOK, Clock
  <2>2. CASE Tick
    <3>1. /\ now' = now + 1 /\ since_pcr' = since_pcr + 1
          /\ UNCHANGED <<clock, offset, flag, lost, last_at, arrived, unseen, settled>>
      BY <2>2 DEF Tick, vars, history
    <3>2. InStep' <=> InStep
      BY <3>1 DEF InStep, StreamTime
    <3> QED BY <2>1, <3>1, <3>2 DEF InStepInv
  <2>3. ASSUME NEW jump \in Jumps, NEW flagged \in BOOLEAN, Splice(jump, flagged)
        PROVE  InStepInv'
    <3>1. /\ unseen' /\ arrived' = 0 /\ ~settled'
          /\ UNCHANGED <<clock, now, since_pcr, lost, last_at>>
      BY <2>3 DEF Splice, vars
    <3> QED BY <2>1, <3>1 DEF InStepInv
  <2>4. CASE SendPcr
    BY <2>4, SendPcrKeepsInStep
  <2>5. CASE LosePcr
    <3>1. lost' # 0 /\ ~flag'
      BY <2>1, <2>5 DEF LosePcr
    <3> QED BY <3>1 DEF InStepInv
  <2>6. CASE SendTot
    <3>1. /\ UNCHANGED <<now, offset, flag, since_pcr, lost, last_at, arrived, unseen>>
          /\ settled' = (settled \/ arrived = ConfirmCount)
      BY <2>6 DEF SendTot, sender
    <3>2. /\ clock'.last_pcr_90k = clock.last_pcr_90k
          /\ clock'.suspect_pcr_count = clock.suspect_pcr_count
          /\ CanAnchor(clock) => clock'.reference_point # None
          /\ ~CanAnchor(clock) => clock' = clock
      BY <2>6, TotOutcome
    <3>3. InStep' <=> InStep
      BY <3>1, <3>2 DEF InStep, StreamTime
    <3>4. InStep => CanAnchor(clock)
      BY <2>1, StreamTimeIsTick DEF InStep, CanAnchor
    <3> QED BY <2>1, <3>1, <3>2, <3>3, <3>4 DEF InStepInv
  <2>7. CASE UNCHANGED allVars
    BY <2>7 DEF allVars, vars, sender, history, InStepInv, InStep, StreamTime
  <2> QED BY <2>2, <2>3, <2>4, <2>5, <2>6, <2>7 DEF BNext
<1> QED BY <1>1, <1>2, BTypeInvariance, PTL DEF BSpec

\* After a change of series, ConfirmCount PCRs of the new one and a TOT, captions are
\* timed until the next change or loss.
THEOREM TimedAgain == BSpec => []TimedAgainAfterSplice
<1>1. BTypeOK /\ InStepInv => TimedAgainAfterSplice
  <2> SUFFICES ASSUME BTypeOK, InStepInv, settled, lost = 0 PROVE Converts(clock)
    BY DEF TimedAgainAfterSplice
  <2>1. clock.suspect_pcr_count < ConfirmCount
    BY ConfirmCountAssumption DEF BTypeOK, CountsOK, FlagsOK, IInv, TypeOK, Clock
  <2> QED BY <2>1 DEF InStepInv, InStep, Converts
<1> QED BY <1>1, BTypeInvariance, InStepInvariance, PTL

\* RecordPcr reports no discontinuity while there is none and no PCR is lost.
THEOREM NoFalseAlarms == BSpec => NoFalseAlarm
<1>1. BTypeOK /\ InStepInv /\ [BNext]_allVars =>
        [SendPcr /\ reported' # None /\ lost = 0 => unseen]_allVars
  <2> SUFFICES ASSUME BTypeOK, InStepInv, SendPcr, reported' # None, lost = 0, ~unseen
               PROVE  FALSE
    BY DEF BTypeOK, CountsOK, FlagsOK
  <2>1. Continues(clock, PcrPacket) /\ ~flag
    BY InStepAccepts DEF InStepInv
  <2>2. Adopts(StreamTime(now)) \/ Accepts(StreamTime(now)) \/ Suspects
    BY SendPcrIs, PcrOutcome
  <2> QED BY <2>1, <2>2 DEF Adopts, Accepts, Suspects
<1> QED BY <1>1, BTypeInvariance, InStepInvariance, PTL DEF BSpec, NoFalseAlarm

-----------------------------------------------------------------------------
(* BroadcastClock: how far the reference can have drifted.                 *)

\* SilentShift after so many lost PCRs.
ShiftAfter(losses) ==
    LET unaccepted == PcrInterval * (ConfirmCount + losses)
    IN  IF MaxSaneDelta >= unaccepted THEN MaxSaneDelta ELSE unaccepted

\* Intervals add up.
LEMMA Intervals ==
    ASSUME NEW n \in Nat
    PROVE  /\ PcrInterval * n \in Nat
           /\ PcrInterval * (n + 1) = PcrInterval * n + PcrInterval
           /\ \A m \in 0..n : PcrInterval * m <= PcrInterval * n
<1>1. PcrInterval \in Nat
  BY PcrIntervalAssumption, MaxSaneDeltaAssumption
<1>2. PcrInterval * n \in Nat /\ PcrInterval * (n + 1) = PcrInterval * n + PcrInterval
  BY <1>1
<1>3. ASSUME NEW m \in 0..n PROVE PcrInterval * m <= PcrInterval * n
  <2>1. n - m \in Nat /\ m \in Nat
    OBVIOUS
  <2>2. PcrInterval * (n - m) \in Nat /\ PcrInterval * m \in Nat
    BY <1>1, <2>1
  <2>3. PcrInterval * n = PcrInterval * m + PcrInterval * (n - m)
    BY <1>1, <2>1
  <2> QED BY <2>2, <2>3
<1> QED BY <1>2, <1>3

\* A loss adds to the shift, and each silent splice adds a shift to the drift.
LEMMA Drifts ==
    ASSUME NEW n \in Nat, NEW s \in Nat
    PROVE  /\ ShiftAfter(n) \in Nat /\ ShiftAfter(n) >= MaxSaneDelta
           /\ ShiftAfter(n) >= PcrInterval * (ConfirmCount + n)
           /\ s * ShiftAfter(n) \in Nat
           /\ s * ShiftAfter(n) <= s * ShiftAfter(n + 1)
           /\ (s + 1) * ShiftAfter(n) = s * ShiftAfter(n) + ShiftAfter(n)
<1>1. MaxSaneDelta \in Nat /\ ConfirmCount \in Nat
  BY MaxSaneDeltaAssumption, ConfirmCountAssumption
<1> DEFINE less == PcrInterval * (ConfirmCount + n)
           more == PcrInterval * (ConfirmCount + (n + 1))
<1>2. less \in Nat /\ more \in Nat /\ less <= more
  <2>1. ConfirmCount + n \in Nat /\ ConfirmCount + (n + 1) \in Nat
        /\ ConfirmCount + n \in 0..(ConfirmCount + (n + 1))
    BY <1>1
  <2> QED BY <2>1, Intervals
<1>3. /\ ShiftAfter(n) = IF MaxSaneDelta >= less THEN MaxSaneDelta ELSE less
      /\ ShiftAfter(n + 1) = IF MaxSaneDelta >= more THEN MaxSaneDelta ELSE more
  BY DEF ShiftAfter
<1> HIDE DEF less, more
<1> DEFINE a == ShiftAfter(n)
           b == ShiftAfter(n + 1)
<1>4. a \in Nat /\ b \in Nat /\ a >= MaxSaneDelta /\ a >= less /\ b - a \in Nat
  BY <1>1, <1>2, <1>3
<1> HIDE DEF a, b
<1>5. s * a \in Nat /\ s * (b - a) \in Nat /\ s * b = s * a + s * (b - a) /\ (s + 1) * a = s * a + a
  BY <1>4
<1>6. s * a <= s * b
  BY <1>5
<1> QED BY <1>4, <1>5, <1>6 DEF a, b, less

\* C++ division is less than one away.
LEMMA TruncatedIsNear ==
    ASSUME NEW a \in Int, NEW b \in Nat \ {0}
    PROVE  /\ Truncated(a, b) \in Int
           /\ b * Truncated(a, b) - a < b /\ a - b * Truncated(a, b) < b
<1>1. \A n \in Nat : /\ n \div b \in Nat /\ b * (n \div b) \in Nat
                     /\ n = b * (n \div b) + (n % b) /\ n % b \in 0..(b - 1)
  OBVIOUS
<1>2. CASE a >= 0
  <2>1. Truncated(a, b) = a \div b /\ a \in Nat
    BY <1>2 DEF Truncated
  <2> QED BY <1>1, <2>1
<1>3. CASE ~(a >= 0)
  <2> DEFINE n == -a
             q == n \div b
  <2>1. Truncated(a, b) = -q /\ n \in Nat /\ a = -n
    BY <1>3 DEF Truncated
  <2> HIDE DEF n
  <2>2. q \in Nat /\ b * q \in Nat /\ b * q <= n /\ n < b * q + b
    BY <1>1, <2>1
  <2> HIDE DEF q
  <2>3. b * (-q) = -(b * q) /\ -q \in Int
    BY <2>2
  <2> QED BY <2>1, <2>2, <2>3
<1> QED BY <1>2, <1>3

\* The time of a series advances with the broadcaster's clock.
LEMMA StreamAdvances ==
    ASSUME BTypeOK, NEW at \in Int, NEW d \in Int
    PROVE  StreamTime(at + d) = (StreamTime(at) + d) % Modulus
<1> DEFINE x == at + offset
<1>1. x \in Int /\ x + d = (at + d) + offset
  BY DEF BTypeOK, CountsOK
<1>2. ((x % Modulus) + d) % Modulus = (x + d) % Modulus
  <2> HIDE DEF x
  <2> QED BY <1>1, WrapThenAdd
<1> QED BY <1>1, <1>2 DEF StreamTime

\* The last accepted PCR, sent at `at`: how long ago that can be, and how far it is from
\* where the reference, advanced by the time since, would have it.
LastAccepted(at) ==
    /\ at \in 0..last_at
    /\ clock.suspect_pcr_count = 0 => at = last_at
    /\ now - at <= PcrInterval * (clock.suspect_pcr_count + lost) + since_pcr
    /\ ~unseen => clock.last_pcr_90k = StreamTime(at)
Drifted(at, shift) ==
    /\ -(silent * SilentShift) <= shift /\ shift <= silent * SilentShift
    /\ clock.last_pcr_90k =
         (clock.reference_point.pcr_90k + (at - anchor_at + anchor_age + shift)) % Modulus

DriftInv ==
    /\ fresh /\ clock.suspect_pcr_count = 0 => ~unseen
    /\ clock.reference_point # None =>
          TicksPerMs * clock.reference_point.unix_ms = anchor_at /\ anchor_age <= MaxGap
    /\ clock.last_pcr_90k # None =>
          \E at \in Int :
             /\ LastAccepted(at)
             /\ clock.reference_point # None => \E shift \in Int : Drifted(at, shift)

\* The numbers in these.
LEMMA Numbers ==
    ASSUME BTypeOK
    PROVE  /\ {now, since_pcr, lost, last_at, silent, anchor_age, anchor_at, PcrInterval,
               ConfirmCount, MaxSaneDelta} \subseteq Nat
           /\ offset \in Int /\ last_at <= now /\ since_pcr <= PcrInterval
           /\ clock.suspect_pcr_count \in Nat /\ clock.suspect_pcr_count < ConfirmCount
           /\ clock.last_pcr_90k \in Ticks \cup {None}
           /\ clock.reference_point # None =>
                 clock.reference_point.pcr_90k \in Ticks /\ clock.last_pcr_90k # None
           /\ Ticks \subseteq Int
<1>1. PcrInterval \in Nat /\ ConfirmCount \in Nat /\ MaxSaneDelta \in Nat /\ EndTime \in Nat
  BY PcrIntervalAssumption, MaxSaneDeltaAssumption, ConfirmCountAssumption, BroadcastAssumption
<1>2. /\ clock.suspect_pcr_count \in Nat /\ clock.suspect_pcr_count < ConfirmCount
      /\ clock.last_pcr_90k \in Ticks \cup {None}
  BY <1>1 DEF BTypeOK, IInv, TypeOK, Clock
<1>3. clock.reference_point # None =>
         clock.reference_point.pcr_90k \in Ticks /\ clock.last_pcr_90k # None
  BY DEF BTypeOK, IInv, TypeOK, MembersAgree, Clock, ReferencePoint
<1>4. Ticks \subseteq Int
  BY ModulusAssumption DEF Ticks
<1> QED BY <1>1, <1>2, <1>3, <1>4 DEF BTypeOK, CountsOK

\* The time since the last accepted PCR fits one suspect, or one lost PCR, more.
LEMMA OneMoreInterval ==
    ASSUME BTypeOK, NEW at \in Nat, NEW n \in Nat, now - at <= PcrInterval * n + since_pcr
    PROVE  now - at <= PcrInterval * (n + 1)
<1>1. PcrInterval * (n + 1) = PcrInterval * n + PcrInterval /\ PcrInterval * n \in Nat
  BY Intervals
<1> QED BY <1>1, Numbers

\* An accepted PCR: the drift grows by at most SilentShift, and only by a change of series
\* that was not noticed.
LEMMA AcceptedDrift ==
    ASSUME BTypeOK, DriftInv, SendPcr, Accepts(StreamTime(now)), clock.reference_point # None,
           NEW sent_at \in Nat, sent_at = now
    PROVE  \E shift \in Int : Drifted(sent_at, shift)'
<1> DEFINE reference == clock.reference_point.pcr_90k
           pcr == StreamTime(now)
           last == clock.last_pcr_90k
           drift == silent * SilentShift
<1>1. PICK at \in Int : LastAccepted(at) /\ \E shift \in Int : Drifted(at, shift)
  BY Numbers DEF DriftInv
<1>2. PICK shift \in Int : Drifted(at, shift)
  BY <1>1
<1>3. /\ now \in Nat /\ at \in Nat /\ at <= now /\ anchor_at \in Nat /\ anchor_age \in Nat
      /\ lost \in Nat /\ silent \in Nat /\ reference \in Int /\ last \in Ticks /\ pcr \in Ticks
  BY <1>1, Numbers, StreamTimeIsTick DEF LastAccepted
<1>4. /\ clock'.last_pcr_90k = pcr /\ clock'.reference_point.pcr_90k = reference
      /\ UNCHANGED <<now, lost, anchor_at, anchor_age>>
      /\ silent' = IF unseen THEN silent + 1 ELSE silent
  BY <1>3, SendPcrIs, NoneAssumption, Numbers DEF Accepts, Has
<1>5. /\ drift = silent * ShiftAfter(lost) /\ drift \in Nat
      /\ (silent * SilentShift)' = silent' * ShiftAfter(lost)
      /\ (silent + 1) * ShiftAfter(lost) = drift + ShiftAfter(lost)
      /\ ShiftAfter(lost) \in Nat /\ ShiftAfter(lost) >= MaxSaneDelta
      /\ ShiftAfter(lost) >= PcrInterval * (ConfirmCount + lost)
  BY <1>3, <1>4, Drifts DEF ShiftAfter, SilentShift
<1> HIDE DEF drift
<1>6. ASSUME NEW d \in Int, pcr = (last + d) % Modulus,
             -((silent * SilentShift)') <= shift + d - (now - at),
             shift + d - (now - at) <= (silent * SilentShift)'
      PROVE  \E s \in Int : Drifted(sent_at, s)'
  <2> DEFINE x == reference + (at - anchor_at + anchor_age + shift)
  <2>0. PICK s \in Int : s = shift + d - (now - at)
    BY <1>3
  <2>1. x \in Int
    BY <1>3
  <2>2. last = x % Modulus
    BY <1>2 DEF Drifted
  <2>3. pcr = (x + d) % Modulus
    <3> HIDE DEF x
    <3> QED BY <1>6, <2>1, <2>2, WrapThenAdd
  <2>4. x + d = reference + (now - anchor_at + anchor_age + s)
    BY <1>3, <2>0
  <2>5. pcr = (reference + (now - anchor_at + anchor_age + s)) % Modulus
    BY <2>3, <2>4
  <2> HIDE DEF x, pcr, reference
  <2>6. Drifted(sent_at, s)'
    BY <1>4, <1>6, <2>0, <2>5 DEF Drifted
  <2> QED BY <2>6
<1>7. CASE ~unseen
  <2> DEFINE d == now - at
  <2>1. last = StreamTime(at) /\ d \in Int /\ at + d = now
    BY <1>1, <1>3, <1>7 DEF LastAccepted
  <2> HIDE DEF d
  <2>2. pcr = (last + d) % Modulus
    BY <2>1, StreamAdvances
  <2>3. shift + d - (now - at) = shift
    BY <1>3, <2>1
  <2>4. (silent * SilentShift)' = drift
    BY <1>4, <1>5, <1>7
  <2> QED BY <1>2, <1>6, <2>1, <2>2, <2>3, <2>4 DEF Drifted, drift
<1>8. CASE unseen
  <2> DEFINE d == WrapAwareDelta90k(last, pcr)
  <2>1. d \in Int /\ pcr = (last + d) % Modulus
    BY <1>3, DeltaReaches
  <2>2. d >= 0 /\ d <= MaxSaneDelta
    BY <1>3, <2>1, MaxSaneDeltaAssumption, NoneAssumption, Numbers
       DEF Accepts, Continues, PcrPacket, IsSanePcrDelta
  <2>3. now - at >= 0 /\ now - at <= PcrInterval * (ConfirmCount + lost)
    <3> DEFINE n == clock.suspect_pcr_count + lost
    <3>1. n \in Nat /\ n + 1 \in 0..(ConfirmCount + lost) /\ ConfirmCount + lost \in Nat
      BY Numbers
    <3>2. now - at <= PcrInterval * (n + 1)
      <4> HIDE DEF n
      <4>1. now - at <= PcrInterval * n + since_pcr
        BY <1>1 DEF LastAccepted, n
      <4> QED BY <1>3, <3>1, <4>1, OneMoreInterval
    <3>3. PcrInterval * (n + 1) <= PcrInterval * (ConfirmCount + lost)
      BY <3>1, Intervals
    <3>4. PcrInterval * (n + 1) \in Int /\ PcrInterval * (ConfirmCount + lost) \in Int
      BY <3>1, Numbers
    <3> HIDE DEF n
    <3> QED BY <1>3, <3>2, <3>3, <3>4
  <2>4. (silent * SilentShift)' = drift + ShiftAfter(lost)
    BY <1>4, <1>5, <1>8
  <2>5. -drift <= shift /\ shift <= drift
    BY <1>2 DEF Drifted, drift
  <2> HIDE DEF d
  <2>6. PcrInterval * (ConfirmCount + lost) \in Int
    BY Numbers
  <2>7. /\ -((silent * SilentShift)') <= shift + d - (now - at)
        /\ shift + d - (now - at) <= (silent * SilentShift)'
    BY <1>3, <1>5, <2>1, <2>2, <2>3, <2>4, <2>5, <2>6, Numbers
  <2> QED BY <1>6, <2>1, <2>7
<1> QED BY <1>7, <1>8

LEMMA SendPcrKeepsDrift ==
    ASSUME BTypeOK, DriftInv, SendPcr
    PROVE  DriftInv'
<1> DEFINE pcr == StreamTime(now)
<1>1. /\ UNCHANGED <<now, lost, offset, anchor_at, anchor_age>>
      /\ since_pcr' = 0 /\ last_at' = now
      /\ unseen' = (unseen /\ clock'.suspect_pcr_count > 0)
      /\ StreamTime(now)' = pcr
  BY SendPcrIs DEF StreamTime
<1>2. Adopts(pcr) \/ Accepts(pcr) \/ Suspects
  BY SendPcrIs, PcrOutcome
<1>3. pcr # None /\ now \in Nat /\ lost \in Nat
  BY StreamTimeIsTick, Numbers
<1>4. ASSUME clock'.suspect_pcr_count = 0 PROVE ~unseen'
  <2>1. ~(clock'.suspect_pcr_count > 0)
    BY <1>4
  <2> QED BY <1>1, <2>1, Zenon
<1>5. MaxGap' = MaxGap
  BY <1>1 DEF MaxGap
<1>10. PICK sent_at \in Nat : sent_at = now
  BY <1>3
<1>6. ASSUME clock'.last_pcr_90k = pcr, clock'.suspect_pcr_count = 0
      PROVE  LastAccepted(sent_at)'
  <2>1. PcrInterval * (0 + lost) + 0 >= 0 /\ now - now = 0 /\ now \in 0..now
    BY <1>3, Intervals
  <2> QED BY <1>10, <1>1, <1>6, <2>1 DEF LastAccepted, pcr, StreamTime
<1>7. CASE Adopts(pcr)
  <2>1. clock'.last_pcr_90k = pcr /\ clock'.suspect_pcr_count = 0 /\ clock'.reference_point = None
    BY <1>7 DEF Adopts, Has
  <2>2. LastAccepted(sent_at)'
    BY <1>6, <2>1
  <2> QED BY <1>4, <2>1, <2>2 DEF DriftInv
<1>8. CASE Accepts(pcr)
  <2>1. /\ clock'.last_pcr_90k = pcr /\ clock'.suspect_pcr_count = 0
        /\ clock'.reference_point = clock.reference_point
    BY <1>8 DEF Accepts, Has
  <2>2. LastAccepted(sent_at)'
    BY <1>6, <2>1
  <2>3. clock.reference_point # None => \E shift \in Int : Drifted(sent_at, shift)'
    BY <1>10, <1>8, AcceptedDrift
  <2> QED BY <1>1, <1>4, <1>5, <2>1, <2>2, <2>3 DEF DriftInv
<1>9. CASE Suspects
  <2>1. /\ clock'.last_pcr_90k = clock.last_pcr_90k /\ clock.last_pcr_90k # None
        /\ clock'.suspect_pcr_count = clock.suspect_pcr_count + 1
        /\ clock'.reference_point = clock.reference_point
    BY <1>9 DEF Suspects, Has
  <2>2. PICK at \in Int :
           /\ LastAccepted(at)
           /\ clock.reference_point # None => \E shift \in Int : Drifted(at, shift)
    BY <2>1 DEF DriftInv
  <2>3. silent' = silent /\ SilentShift' = SilentShift
    BY <1>1, <1>9, SendPcrIs DEF SilentShift, Suspects
  <2>4. clock'.suspect_pcr_count # 0 /\ unseen' = unseen
    BY <1>1, <2>1, Numbers DEF BTypeOK, FlagsOK
  <2>5. at \in 0..last_at' /\ at \in Nat
    BY <1>1, <2>2, Numbers DEF LastAccepted
  <2>6. now - at <= PcrInterval * (clock'.suspect_pcr_count + lost) + 0
    <3> DEFINE n == clock.suspect_pcr_count + lost
    <3>1. n \in Nat /\ clock'.suspect_pcr_count + lost = n + 1
      BY <2>1, Numbers
    <3>2. now - at <= PcrInterval * n + since_pcr
      BY <2>2 DEF LastAccepted
    <3> HIDE DEF n
    <3>3. now - at <= PcrInterval * (n + 1) /\ PcrInterval * (n + 1) \in Int
      BY <2>5, <3>1, <3>2, OneMoreInterval, Numbers
    <3> QED BY <3>1, <3>3
  <2>7. LastAccepted(at)'
    <3>1. ~unseen' => clock'.last_pcr_90k = StreamTime(at)'
      BY <1>1, <2>1, <2>2, <2>4 DEF LastAccepted, StreamTime
    <3> QED BY <1>1, <2>4, <2>5, <2>6, <3>1 DEF LastAccepted, StreamTime
  <2>8. clock.reference_point # None => \E shift \in Int : Drifted(at, shift)'
    BY <1>1, <2>1, <2>2, <2>3 DEF Drifted
  <2> QED BY <1>1, <1>4, <1>5, <2>1, <2>7, <2>8 DEF DriftInv
<1> QED BY <1>2, <1>7, <1>8, <1>9

\* A TOT makes a reference out of the last PCR, with no drift yet.
LEMMA SendTotKeepsDrift ==
    ASSUME BTypeOK, DriftInv, SendTot
    PROVE  DriftInv'
<1>1. /\ UNCHANGED <<now, offset, since_pcr, lost, last_at, fresh, unseen>>
      /\ now % TicksPerMs = 0
  BY DEF SendTot, sender
<1>2. MaxGap' = MaxGap /\ \A at : StreamTime(at)' = StreamTime(at)
  BY <1>1 DEF MaxGap, StreamTime
<1>3. CASE CanAnchor(clock)
  <2>1. /\ anchor_age' = now - last_at /\ anchor_at' = now /\ silent' = 0
        /\ clock.suspect_pcr_count = 0 /\ clock.last_pcr_90k # None
    BY <1>3 DEF SendTot, CanAnchor
  <2>2. /\ clock'.reference_point.pcr_90k = clock.last_pcr_90k
        /\ clock'.reference_point.unix_ms = now \div TicksPerMs
        /\ clock'.last_pcr_90k = clock.last_pcr_90k
        /\ clock'.suspect_pcr_count = clock.suspect_pcr_count
    BY <1>3, TotOutcome
  <2>3. PICK at \in Int : LastAccepted(at)
    BY <2>1 DEF DriftInv
  <2>4. at = last_at /\ now \in Nat /\ last_at \in Nat /\ lost \in Nat
    BY <2>1, <2>3, Numbers DEF LastAccepted
  <2>5. LastAccepted(at)'
    BY <1>1, <1>2, <2>2, <2>3 DEF LastAccepted
  <2>6. anchor_age' <= MaxGap'
    <3>1. now - last_at <= PcrInterval * (0 + lost) + since_pcr /\ 0 + lost = lost
      BY <2>1, <2>3, <2>4 DEF LastAccepted
    <3>2. now - last_at <= PcrInterval * (lost + 1) /\ lost + 1 = 1 + lost
      BY <2>4, <3>1, OneMoreInterval
    <3> QED BY <1>2, <2>1, <3>2 DEF MaxGap
  <2>7. TicksPerMs * clock'.reference_point.unix_ms = anchor_at'
    <3>1. TicksPerMs * (now \div TicksPerMs) = now
      BY <1>1, <2>4, TicksPerMsAssumption
    <3> QED BY <2>1, <2>2, <3>1
  <2>8. Drifted(at, 0)'
    <3>1. clock.last_pcr_90k \in Ticks /\ clock.last_pcr_90k \in Int
      BY <2>1, Numbers
    <3>2. clock.last_pcr_90k = clock.last_pcr_90k % Modulus
      BY <3>1, ModulusAssumption DEF Ticks
    <3>3. silent' * SilentShift' = 0
      <4>1. SilentShift' = ShiftAfter(lost)
        BY <1>1 DEF ShiftAfter, SilentShift
      <4>2. PICK s \in Nat : s = SilentShift'
        BY <2>4, <4>1, Drifts
      <4>3. silent' * s = 0
        BY <2>1
      <4> QED BY <4>2, <4>3
    <3>4. clock.last_pcr_90k + (at - now + (now - last_at) + 0) = clock.last_pcr_90k
      BY <2>4, <3>1
    <3> QED BY <2>1, <2>2, <3>2, <3>3, <3>4 DEF Drifted
  <2>9. fresh' /\ clock'.suspect_pcr_count = 0 => ~unseen'
    BY <1>1, <2>2 DEF DriftInv
  <2> QED BY <2>5, <2>6, <2>7, <2>8, <2>9 DEF DriftInv
<1>4. CASE ~CanAnchor(clock)
  <2>1. clock' = clock /\ UNCHANGED <<anchor_age, anchor_at, silent>>
    BY <1>4, TotOutcome DEF SendTot
  <2> QED BY <1>1, <2>1 DEF DriftInv, LastAccepted, Drifted, MaxGap, SilentShift, StreamTime
<1> QED BY <1>3, <1>4

\* The broadcaster's own steps leave the last PCR and the reference as far apart.
LEMMA DriftInvariance == BSpec => []DriftInv
<1>1. BInit => DriftInv
  <2> SUFFICES ASSUME BInit PROVE DriftInv
    OBVIOUS
  <2>1. Has(clock, PcrPid, None, None, 0)
    BY BInitTypes
  <2> QED BY <2>1 DEF BInit, DriftInv, Has
<1>2. BTypeOK /\ DriftInv /\ [BNext]_allVars => DriftInv'
  <2> SUFFICES ASSUME BTypeOK, DriftInv, [BNext]_allVars PROVE DriftInv'
    OBVIOUS
  <2>1. CASE Tick
    <3>1. /\ now' = now + 1 /\ since_pcr' = since_pcr + 1
          /\ UNCHANGED <<clock, offset, lost, history>>
      BY <2>1 DEF Tick, vars
    <3>2. ASSUME NEW at \in Int, LastAccepted(at) PROVE LastAccepted(at)'
      <4>1. clock.suspect_pcr_count + lost \in Nat /\ now \in Nat /\ since_pcr \in Nat
        BY Numbers
      <4>2. PcrInterval * (clock.suspect_pcr_count + lost) \in Nat
        BY <4>1, Intervals
      <4> QED BY <3>1, <3>2, <4>1, <4>2 DEF LastAccepted, StreamTime, history
    <3> QED BY <3>1, <3>2 DEF DriftInv, Drifted, MaxGap, SilentShift, history
  <2>2. ASSUME NEW jump \in Jumps, NEW flagged \in BOOLEAN, Splice(jump, flagged)
        PROVE  DriftInv'
    <3>1. /\ fresh' = FALSE /\ unseen' = TRUE
          /\ UNCHANGED <<clock, now, since_pcr, lost, last_at, silent, anchor_age, anchor_at>>
      BY <2>2 DEF Splice, vars
    <3>2. ASSUME NEW at \in Int, LastAccepted(at) PROVE LastAccepted(at)'
      BY <3>1, <3>2 DEF LastAccepted
    <3> QED BY <3>1, <3>2 DEF DriftInv, Drifted, MaxGap, SilentShift
  <2>3. CASE SendPcr
    BY <2>3, SendPcrKeepsDrift
  <2>4. CASE LosePcr
    <3>1. /\ lost' = lost + 1 /\ since_pcr' = 0
          /\ UNCHANGED <<clock, now, offset, history>>
      BY <2>4 DEF LosePcr, vars
    <3>2. lost \in Nat /\ silent \in Nat /\ now \in Nat /\ clock.suspect_pcr_count \in Nat
      BY Numbers
    <3>3. ASSUME NEW at \in Int, LastAccepted(at) PROVE LastAccepted(at)'
      <4> DEFINE n == clock.suspect_pcr_count + lost
      <4>1. n \in Nat /\ clock.suspect_pcr_count + (lost + 1) = n + 1
        BY <3>2
      <4>2. now - at <= PcrInterval * n + since_pcr /\ at \in Nat
        BY <3>3, Numbers DEF LastAccepted
      <4> HIDE DEF n
      <4>3. now - at <= PcrInterval * (n + 1) + 0
        <5>1. now - at <= PcrInterval * (n + 1) /\ PcrInterval * (n + 1) \in Int
          BY <4>1, <4>2, OneMoreInterval, Numbers
        <5> QED BY <5>1
      <4> QED BY <3>1, <3>3, <4>1, <4>3 DEF LastAccepted, StreamTime, history
    <3>4. ASSUME NEW at \in Int, NEW shift \in Int, Drifted(at, shift) PROVE Drifted(at, shift)'
      <4>1. /\ silent * SilentShift = silent * ShiftAfter(lost)
            /\ (silent * SilentShift)' = silent * ShiftAfter(lost + 1)
        BY <3>1 DEF ShiftAfter, SilentShift, history
      <4>2. /\ silent * ShiftAfter(lost) <= silent * ShiftAfter(lost + 1)
            /\ silent * ShiftAfter(lost) \in Int /\ silent * ShiftAfter(lost + 1) \in Int
        <5>1. lost + 1 \in Nat
          BY <3>2
        <5>2. silent * ShiftAfter(lost + 1) \in Nat
          BY <3>2, <5>1, Drifts
        <5>3. /\ silent * ShiftAfter(lost) \in Nat
              /\ silent * ShiftAfter(lost) <= silent * ShiftAfter(lost + 1)
          BY <3>2, Drifts
        <5> QED BY <5>2, <5>3
      <4>3. /\ -((silent * SilentShift)') <= shift /\ shift <= (silent * SilentShift)'
        BY <3>4, <4>1, <4>2 DEF Drifted
      <4> QED BY <3>1, <3>4, <4>3 DEF Drifted, history
    <3>5. MaxGap <= MaxGap' /\ MaxGap \in Int /\ MaxGap' \in Int
      <4>1. MaxGap = PcrInterval * (lost + 1) /\ MaxGap' = PcrInterval * ((lost + 1) + 1)
        BY <3>1, <3>2 DEF MaxGap
      <4> QED BY <3>2, <4>1, Intervals
    <3>6. clock.reference_point # None => anchor_age' <= MaxGap'
      BY <3>1, <3>5, Numbers DEF DriftInv, history
    <3> QED BY <3>1, <3>3, <3>4, <3>6 DEF DriftInv, history
  <2>5. CASE SendTot
    BY <2>5, SendTotKeepsDrift
  <2>6. CASE UNCHANGED allVars
    BY <2>6 DEF allVars, vars, sender, history, DriftInv, LastAccepted, Drifted, MaxGap,
                SilentShift, StreamTime
  <2> QED BY <2>1, <2>2, <2>3, <2>4, <2>5, <2>6 DEF BNext
<1> QED BY <1>1, <1>2, BTypeInvariance, PTL DEF BSpec

\* A caption's time is wrong by no more than the age of the PCR its reference was taken
\* from, the drift of the splices that were not noticed since, and a millisecond.
LEMMA DriftBoundsError ==
    ASSUME BTypeOK, DriftInv, fresh, Converts(clock), NEW ahead \in 0..Lead,
           (now + ahead) - anchor_at + ErrorBound < Modulus \div 2
    PROVE  Error(ahead) \in (-ErrorBound)..ErrorBound
<1> DEFINE reference == clock.reference_point.pcr_90k
           unix_ms == clock.reference_point.unix_ms
           drift == silent * SilentShift
           shown == now + ahead
           way(shift) == shown - anchor_at + anchor_age + shift
<1>1. /\ clock.reference_point # None /\ clock.suspect_pcr_count = 0 /\ ~unseen
      /\ clock.last_pcr_90k # None
  BY Numbers DEF Converts, DriftInv
<1>2. PICK at \in Int : LastAccepted(at) /\ \E shift \in Int : Drifted(at, shift)
  BY <1>1 DEF DriftInv
<1>3. PICK shift \in Int : Drifted(at, shift)
  BY <1>2
<1>4. /\ now \in Nat /\ ahead \in Nat /\ at \in Nat /\ at <= now /\ anchor_at \in Nat
      /\ anchor_age \in Nat /\ anchor_at <= now /\ lost \in Nat /\ silent \in Nat
      /\ reference \in Ticks /\ reference \in Int
      /\ TicksPerMs \in Nat \ {0} /\ Modulus \in Nat \ {0}
  BY <1>1, <1>2, Numbers, BroadcastAssumption, TicksPerMsAssumption, ModulusAssumption
     DEF LastAccepted, BTypeOK, CountsOK
<1>5. drift \in Nat /\ -drift <= shift /\ shift <= drift
  <2>1. drift \in Nat
    BY <1>4, Drifts DEF ShiftAfter, SilentShift
  <2> QED BY <1>3, <2>1 DEF Drifted
<1>6. /\ MaxGap \in Nat /\ anchor_age <= MaxGap /\ TicksPerMs * unix_ms = anchor_at
      /\ ErrorBound = MaxGap + drift + TicksPerMs
  <2>1. 1 + lost \in Nat
    BY <1>4
  <2>2. MaxGap \in Nat
    BY <2>1, Intervals DEF MaxGap
  <2> QED BY <1>1, <2>2 DEF DriftInv, ErrorBound
<1>7. unix_ms \in Int
  BY <1>1, UnixTimesAssumption DEF BTypeOK, IInv, TypeOK, Clock, ReferencePoint
<1> HIDE DEF drift, reference, unix_ms
<1>8. StreamTime(shown) = (reference + way(shift)) % Modulus
  <2> DEFINE x == reference + (at - anchor_at + anchor_age + shift)
             d == shown - at
  <2>1. x \in Int /\ d \in Int /\ at + d = shown /\ x + d = reference + way(shift)
    BY <1>4
  <2>2. StreamTime(at) = x % Modulus
    BY <1>1, <1>2, <1>3 DEF LastAccepted, Drifted, reference
  <2> HIDE DEF x, d, shown, way
  <2>3. StreamTime(shown) = (StreamTime(at) + d) % Modulus
    BY <2>1, StreamAdvances
  <2>4. ((x % Modulus) + d) % Modulus = (x + d) % Modulus
    BY <2>1, WrapThenAdd
  <2> QED BY <2>1, <2>2, <2>3, <2>4
<1>9. way(shift) \in Int /\ -Modulus < 2 * way(shift) /\ 2 * way(shift) < Modulus
  <2>1. 2 * (Modulus \div 2) <= Modulus /\ Modulus \div 2 \in Int
    BY <1>4
  <2>2. shown - anchor_at + MaxGap + drift + TicksPerMs < Modulus \div 2
    BY <1>4, <1>5, <1>6
  <2> HIDE DEF shown
  <2>3. shown \in Int /\ shown >= anchor_at
    BY <1>4 DEF shown
  <2> QED BY <1>4, <1>5, <1>6, <2>1, <2>2, <2>3
<1>10. WrapAwareDelta90k(reference, StreamTime(shown)) = way(shift)
  <2> HIDE DEF way, shown
  <2> QED BY <1>4, <1>8, <1>9, DeltaOfShortWay
<1> DEFINE ms == Truncated(way(shift), TicksPerMs)
<1>11. /\ ms \in Int /\ TicksPerMs * ms - way(shift) < TicksPerMs
       /\ way(shift) - TicksPerMs * ms < TicksPerMs
  <2> HIDE DEF way
  <2> QED BY <1>4, <1>9, TruncatedIsNear
<1>12. PtsToUnixMs(clock, StreamTime(shown)) = unix_ms + ms
  BY <1>10 DEF PtsToUnixMs, Converts, reference, unix_ms
<1> HIDE DEF ms
<1>13. TicksPerMs * ms \in Int
  BY <1>4, <1>11
<1>14. Error(ahead) = (anchor_at + TicksPerMs * ms) - shown
  <2>1. TicksPerMs * (unix_ms + ms) = TicksPerMs * unix_ms + TicksPerMs * ms
    BY <1>4, <1>7, <1>11
  <2>2. TicksPerMs * (unix_ms + ms) = anchor_at + TicksPerMs * ms
    BY <1>6, <2>1
  <2>3. Error(ahead) = TicksPerMs * (unix_ms + ms) - shown
    BY <1>12 DEF Error
  <2> QED BY <2>2, <2>3
<1> QED BY <1>4, <1>5, <1>6, <1>11, <1>13, <1>14

\* For every wrap, interval, jump and number of losses: a caption of a series of which a PCR
\* has arrived is not timed, or timed to within ErrorBound.
THEOREM TimesAreClose == BSpec => []ErrorIsBounded
<1>1. BTypeOK /\ DriftInv => ErrorIsBounded
  BY DriftBoundsError DEF ErrorIsBounded
<1> QED BY <1>1, BTypeInvariance, DriftInvariance, PTL
=============================================================================
