-------------------------- MODULE Carousels_proofs --------------------------
(***************************************************************************)
(* The dumper behind demuxers that hand a table over once per version:     *)
(* nothing it needs is withheld (ServiceCarousel), and two PIDs that carry *)
(* the same EITs a little apart do not mislead it (EitCarousel).  Both     *)
(* rest on what CaptionDumper_proofs shows of the dumper itself.           *)
(***************************************************************************)
EXTENDS ServiceCarousel, EitCarousel, CaptionDumper_proofs

-----------------------------------------------------------------------------
(* ServiceCarousel: the broadcaster's packets are packets.                 *)

\* What the tables and the demux's memory can be.
CTypeOK ==
    /\ pat.pmt_pid \in ReservedSectionPids \cup PmtPids \cup {None}
    /\ pat.version \in Nat
    /\ \A pid \in PmtPids : pmts[pid].streams \in StreamMaps /\ pmts[pid].version \in Nat
    /\ DOMAIN pmts = PmtPids
    /\ DOMAIN handled = {PatPid} \cup PmtPids

\* A packet with a table is one that the dumper can be fed with.
LEMMA TablePackets ==
    ASSUME NEW pid \in {PatPid} \cup PmtPids
    PROVE  TablePacket(pid) \in Packets /\ TablePacket(pid).pid = pid
BY PatPidAssumption DEF TablePacket, Packets, Packet

\* Every step of the carousel keeps the types.
LEMMA CTypeInvariance == CSpec => []CTypeOK
<1>1. CInit => CTypeOK
  BY DEF CInit, CTypeOK
<1>2. CTypeOK /\ [CNext]_allVars => CTypeOK'
  <2> SUFFICES ASSUME CTypeOK, [CNext]_allVars PROVE CTypeOK'
    OBVIOUS
  <2>1. ASSUME NEW pmt_pid \in PmtPids \cup ReservedSectionPids \cup {None}, ChangePat(pmt_pid)
        PROVE  CTypeOK'
    BY <2>1 DEF ChangePat, CTypeOK
  <2>2. ASSUME NEW pid \in PmtPids, NEW streams \in StreamMaps, ChangePmt(pid, streams)
        PROVE  CTypeOK'
    <3>1. /\ pmts' = [pmts EXCEPT ![pid] = [streams |-> streams,
                                            version |-> pmts[pid].version + 1]]
          /\ UNCHANGED <<pat, handled>>
      BY <2>2 DEF ChangePmt
    <3> QED BY <3>1 DEF CTypeOK
  <2>3. CASE SendPat
    <3>1. UNCHANGED <<pat, pmts>> /\ DOMAIN handled' = DOMAIN handled
      BY <2>3 DEF SendPat, Remember
    <3> QED BY <3>1 DEF CTypeOK
  <2>4. ASSUME NEW pid \in PmtPids, SendPmt(pid)
        PROVE  CTypeOK'
    <3>1. UNCHANGED <<pat, pmts>> /\ DOMAIN handled' = DOMAIN handled
      BY <2>4 DEF SendPmt, Remember
    <3> QED BY <3>1 DEF CTypeOK
  <2>5. CASE UNCHANGED allVars
    BY <2>5 DEF allVars, carousel, CTypeOK
  <2> QED BY <2>1, <2>2, <2>3, <2>4, <2>5 DEF CNext
<1> QED BY <1>1, <1>2, PTL DEF CSpec

\* The dumper in the carousel behaves as a dumper does.
LEMMA CarouselFeedsDumper == CSpec => Spec
<1>1. CInit => Init
  BY DEF CInit
<1>2. CTypeOK /\ [CNext]_allVars => [Next]_vars
  <2> SUFFICES ASSUME CTypeOK, [CNext]_allVars PROVE [Next]_vars
    OBVIOUS
  <2>1. ASSUME NEW pid \in {PatPid} \cup PmtPids, FeedIgnored(TablePacket(pid))
        PROVE  Next
    BY <2>1, TablePackets DEF Next, Feed
  <2>2. ASSUME FeedPat(TablePacket(PatPid), pat.pmt_pid)
        PROVE  Next
    BY <2>2, TablePackets DEF Next, Feed, CTypeOK
  <2>3. ASSUME NEW pid \in PmtPids, FeedPmt(TablePacket(pid), NullPid, pmts[pid].streams)
        PROVE  Next
    BY <2>3, TablePackets DEF Next, Feed, CTypeOK
  <2>4. CASE SendPat
    BY <2>1, <2>2, <2>4 DEF SendPat
  <2>5. ASSUME NEW pid \in PmtPids, SendPmt(pid)
        PROVE  Next
    BY <2>1, <2>3, <2>5 DEF SendPmt
  <2>6. ASSUME NEW pmt_pid, ChangePat(pmt_pid)
        PROVE  UNCHANGED vars
    BY <2>6 DEF ChangePat
  <2>7. ASSUME NEW pid, NEW streams, ChangePmt(pid, streams)
        PROVE  UNCHANGED vars
    BY <2>7 DEF ChangePmt
  <2>8. CASE UNCHANGED allVars
    BY <2>8 DEF allVars
  <2> QED BY <2>4, <2>5, <2>6, <2>7, <2>8 DEF CNext
<1> QED BY <1>1, <1>2, CTypeInvariance, PTL DEF CSpec, Spec

-----------------------------------------------------------------------------
(* ServiceCarousel: nothing needed is withheld.                            *)

\* The demux knows no version that is not on the air yet, and none of a PMT PID that is
\* not tracked.
Remembered ==
    /\ handled[PatPid] # None => handled[PatPid] \in Nat /\ handled[PatPid] <= pat.version
    /\ \A pid \in PmtPids : handled[pid] # None =>
          handled[pid] \in Nat /\ handled[pid] <= pmts[pid].version
    /\ \A pid \in PmtPids : pid # current_pmt_pid => handled[pid] = None

\* The last PAT and the tracked PID's last PMT were acted on when they were handed over.
Acted ==
    /\ handled[PatPid] = pat.version => current_pmt_pid = Followed
    /\ \A pid \in PmtPids : pid = current_pmt_pid /\ handled[pid] = pmts[pid].version =>
          ProfileOf = Desired(pid, pmts[pid].streams)
    /\ current_pmt_pid = None => caption_emitters = NoEmitters

FollowInv == Remembered /\ Acted

\* Of the PMT PIDs the section demux filters the tracked one only.
LEMMA FilteredPids ==
    ASSUME IInv
    PROVE  /\ PatPid \in section_pids /\ PatPid \notin PmtPids
           /\ \A pid \in PmtPids : pid \in section_pids <=> pid = current_pmt_pid
           /\ current_pmt_pid \in PmtPids \cup {None} /\ None \notin PmtPids
BY PatPidAssumption, SectionPidsAssumption DEF IInv, MembersOK, DemuxersAgree

\* A PAT that is handed over is acted on, and the PID it leaves is forgotten.
LEMMA PatIsActedOn ==
    ASSUME CTypeOK, IInv, IInv', FollowInv, FeedPat(TablePacket(PatPid), pat.pmt_pid),
           Remember(PatPid, pat.version), UNCHANGED <<pat, pmts>>
    PROVE  FollowInv'
<1>1. /\ \A pid \in PmtPids : handled'[pid] = IF pid = current_pmt_pid' THEN handled[pid] ELSE None
      /\ handled'[PatPid] = pat.version
  <2>1. /\ PatPid \in section_pids' /\ PatPid \notin PmtPids
        /\ \A pid \in PmtPids : pid \in section_pids' <=> pid = current_pmt_pid'
    BY PatPidAssumption, SectionPidsAssumption DEF IInv, MembersOK, DemuxersAgree
  <2> QED BY <2>1 DEF Remember, CTypeOK
<1>2. Remembered'
  BY <1>1 DEF FollowInv, Remembered, CTypeOK
<1>3. \A pid \in PmtPids : pmts[pid].version # None /\ pat.version # None
  BY NoneAssumption DEF CTypeOK
<1>4. ASSUME NEW pid \in PmtPids, pid = current_pmt_pid', pid # current_pmt_pid
      PROVE  handled'[pid] # pmts'[pid].version
  BY <1>1, <1>3, <1>4 DEF FollowInv, Remembered
<1>5. CASE pat.pmt_pid = None /\ TeardownTargetService
  <2>1. current_pmt_pid' = None /\ caption_emitters' = NoEmitters
    BY <1>5 DEF TeardownTargetService, TeardownStreams
  <2>2. Followed' = None
    BY <1>5, SectionPidsAssumption DEF Followed
  <2> QED BY <1>2, <2>1, <2>2, FilteredPids DEF FollowInv, Acted
<1>6. CASE /\ pat.pmt_pid # None
           /\ Collides(pat.pmt_pid) \/ current_pmt_pid = pat.pmt_pid
           /\ KeepStreams /\ UNCHANGED <<section_pids, current_pmt_pid>>
  <2>1. Followed' = current_pmt_pid
    BY <1>6 DEF Followed, Collides
  <2>2. ProfileOf' = ProfileOf
    BY <1>6 DEF KeepStreams, ProfileOf
  <2>3. ASSUME NEW pid \in PmtPids, pid = current_pmt_pid', handled'[pid] = pmts'[pid].version
        PROVE  ProfileOf' = Desired(pid, pmts'[pid].streams)
    BY <1>1, <1>6, <2>2, <2>3 DEF FollowInv, Acted
  <2>4. current_pmt_pid' = None => caption_emitters' = NoEmitters
    BY <1>6 DEF KeepStreams, FollowInv, Acted
  <2> QED BY <1>2, <1>6, <2>1, <2>3, <2>4 DEF FollowInv, Acted
<1>7. CASE /\ pat.pmt_pid # None /\ ~Collides(pat.pmt_pid) /\ current_pmt_pid # pat.pmt_pid
           /\ MoveTo(pat.pmt_pid)
  <2>1. current_pmt_pid' = pat.pmt_pid /\ current_pmt_pid' # None
    BY <1>7 DEF MoveTo
  <2>2. Followed' = pat.pmt_pid
    BY <1>7 DEF Followed, Collides
  <2> QED BY <1>2, <1>4, <1>7, <2>1, <2>2 DEF FollowInv, Acted
<1> QED BY <1>5, <1>6, <1>7 DEF FeedPat

\* A PMT that is handed over is acted on.
LEMMA PmtIsActedOn ==
    ASSUME CTypeOK, IInv, IInv', FollowInv, NEW pid \in PmtPids, pid \in section_pids,
           FeedPmt(TablePacket(pid), NullPid, pmts[pid].streams),
           Remember(pid, pmts[pid].version), UNCHANGED <<pat, pmts>>
    PROVE  FollowInv'
<1>1. UNCHANGED <<section_pids, current_pmt_pid>> /\ current_pmt_pid = pid
  BY FilteredPids DEF FeedPmt
<1>2. ProfileOf' = Desired(pid, pmts[pid].streams)
  BY TablePackets DEF FeedPmt, SyncCaptionStreams, IInv, EmittersFollowPmt
<1>3. /\ handled'[PatPid] = handled[PatPid] /\ handled'[pid] = pmts[pid].version
      /\ \A p \in PmtPids : p # pid => handled'[p] = None
  BY <1>1, FilteredPids DEF Remember, CTypeOK
<1>4. Remembered'
  BY <1>1, <1>3 DEF FollowInv, Remembered, CTypeOK
<1>5. Acted'
  BY <1>1, <1>2, <1>3, FilteredPids DEF FollowInv, Acted, Followed
<1> QED BY <1>4, <1>5 DEF FollowInv

\* The invariant through every step of the carousel.
LEMMA FollowInvariance == CSpec => []FollowInv
<1>1. CInit => FollowInv
  <2> SUFFICES ASSUME CInit PROVE FollowInv
    OBVIOUS
  <2>1. /\ pat.version = 0 /\ \A pid \in PmtPids : pmts[pid].version = 0
        /\ handled[PatPid] = None /\ \A pid \in PmtPids : handled[pid] = None
        /\ caption_emitters = NoEmitters
    BY DEF CInit, Init
  <2>2. None # 0
    BY NoneAssumption
  <2> QED BY <2>1, <2>2 DEF FollowInv, Remembered, Acted
<1>2. CTypeOK /\ IInv /\ IInv' /\ FollowInv /\ [CNext]_allVars => FollowInv'
  <2> SUFFICES ASSUME CTypeOK, IInv, IInv', FollowInv, [CNext]_allVars
               PROVE  FollowInv'
    OBVIOUS
  <2>1. ASSUME UNCHANGED <<pat, pmts, handled, caption_emitters, current_pmt_pid>>
        PROVE  FollowInv'
    BY <2>1 DEF FollowInv, Remembered, Acted, Followed, ProfileOf
  <2>2. ASSUME NEW pid, FeedIgnored(TablePacket(pid)), UNCHANGED <<pat, pmts, handled>>
        PROVE  FollowInv'
    BY <2>1, <2>2 DEF FeedIgnored, members
  <2>3. ASSUME NEW pmt_pid, ChangePat(pmt_pid)
        PROVE  FollowInv'
    <3>1. /\ pat'.version = pat.version + 1
          /\ UNCHANGED <<pmts, handled, caption_emitters, current_pmt_pid>>
      BY <2>3 DEF ChangePat, vars, members
    <3>2. handled[PatPid] # pat'.version
      BY <3>1, NoneAssumption DEF CTypeOK, FollowInv, Remembered
    <3>3. Remembered'
      BY <3>1 DEF CTypeOK, FollowInv, Remembered
    <3> QED BY <3>1, <3>2, <3>3 DEF FollowInv, Acted, ProfileOf
  <2>4. ASSUME NEW pid \in PmtPids, NEW streams, ChangePmt(pid, streams)
        PROVE  FollowInv'
    <3>1. /\ \A p \in PmtPids : pmts'[p] = IF p = pid
                 THEN [streams |-> streams, version |-> pmts[pid].version + 1] ELSE pmts[p]
          /\ UNCHANGED <<pat, handled, caption_emitters, current_pmt_pid>>
      BY <2>4 DEF ChangePmt, vars, members, CTypeOK
    <3>2. /\ pmts'[pid].version = pmts[pid].version + 1
          /\ \A p \in PmtPids : p # pid => pmts'[p] = pmts[p]
      BY <3>1
    <3>3. handled[pid] # pmts'[pid].version
      BY <3>2, NoneAssumption DEF CTypeOK, FollowInv, Remembered
    <3>4. Remembered'
      BY <3>1, <3>2 DEF CTypeOK, FollowInv, Remembered
    <3>5. UNCHANGED <<Followed, ProfileOf>>
      BY <3>1 DEF Followed, ProfileOf
    <3> QED BY <3>1, <3>2, <3>3, <3>4, <3>5 DEF FollowInv, Acted
  <2>5. CASE SendPat
    BY <2>2, <2>5, PatIsActedOn DEF SendPat
  <2>6. ASSUME NEW pid \in PmtPids, SendPmt(pid)
        PROVE  FollowInv'
    BY <2>2, <2>6, PmtIsActedOn DEF SendPmt, New
  <2>7. CASE UNCHANGED allVars
    BY <2>1, <2>7 DEF allVars, vars, members, carousel
  <2> QED BY <2>3, <2>4, <2>5, <2>6, <2>7 DEF CNext
<1>3. CSpec => []IInv
  BY CarouselFeedsDumper, Invariance, PTL
<1> QED BY <1>1, <1>2, <1>3, CTypeInvariance, PTL DEF CSpec

\* When the tables on the air have been handed over, the dumper is in step with them:
\* none that it needs is withheld because it was handed over before.
THEOREM NothingIsWithheld == CSpec => []NothingToWaitFor
<1>1. IInv /\ FollowInv => NothingToWaitFor
  <2> SUFFICES ASSUME IInv, FollowInv, handled[PatPid] = pat.version,
                      current_pmt_pid \in PmtPids =>
                          handled[current_pmt_pid] = pmts[current_pmt_pid].version
               PROVE  InStep
    BY DEF NothingToWaitFor
  <2>1. current_pmt_pid = Followed
    BY DEF FollowInv, Acted
  <2>2. CASE current_pmt_pid \in PmtPids
    BY <2>1, <2>2 DEF FollowInv, Acted, InStep
  <2>3. CASE current_pmt_pid = None
    <3>1. ProfileOf = NoEmitters
      BY <2>3 DEF FollowInv, Acted, ProfileOf, NoEmitters
    <3> QED BY <2>1, <2>3, <3>1, FilteredPids DEF InStep
  <2> QED BY <2>2, <2>3, FilteredPids
<1>2. CSpec => []IInv
  BY CarouselFeedsDumper, Invariance, PTL
<1> QED BY <1>1, <1>2, FollowInvariance, PTL

-----------------------------------------------------------------------------
(* EitCarousel: versions.                                                  *)

\* Multiples of n less than n apart are the same.
LEMMA MultiplesApart ==
    ASSUME NEW n \in Nat \ {0}, NEW k \in Int, NEW l \in Int, n * l <= n * k, n * k - n * l < n
    PROVE  k = l
<1> DEFINE d == k - l
<1>1. n * k - n * l = n * (k - l)
  OBVIOUS
<1>2. d \in Int /\ n * d < n /\ n * d >= 0
  BY <1>1
<1> HIDE DEF d
<1>3. CASE d >= 1
  <2>1. n * d >= n
    BY <1>2, <1>3
  <2> QED BY <1>2, <2>1
<1>4. CASE d <= -1
  <2>1. n * d <= -n
    BY <1>2, <1>4
  <2> QED BY <1>2, <2>1
<1>5. d = 0
  BY <1>2, <1>3, <1>4
<1> QED BY <1>5 DEF d

\* Two tables fewer than Versions apart have the same version only if they are the same.
LEMMA SameVersionSameTable ==
    ASSUME NEW a \in Nat, NEW b \in Nat, a <= b, b - a < Versions, a % Versions = b % Versions
    PROVE  a = b
<1> DEFINE k == b \div Versions
           l == a \div Versions
           r == a % Versions
<1>1. Versions \in Nat \ {0}
  BY VersionsAssumption
<1>2. k \in Int /\ l \in Int /\ r \in Int /\ a = Versions * l + r /\ b = Versions * k + r
  BY <1>1
<1> HIDE DEF k, l, r
<1>3. Versions * k \in Int /\ Versions * l \in Int
  BY <1>1, <1>2
<1>4. Versions * k - Versions * l < Versions /\ Versions * l <= Versions * k
  BY <1>2, <1>3, VersionsAssumption
<1>5. k = l
  BY <1>1, <1>2, <1>4, MultiplesApart
<1> QED BY <1>2, <1>5

-----------------------------------------------------------------------------
(* EitCarousel: the latest table is shown.                                 *)

\* What the PIDs send, and how far behind what is on the air they can be.
ETypeOK ==
    /\ on_air \in [EitPids -> 0..MaxSerial]
    /\ sent \in [EitPids -> 0..MaxSerial \cup {None}]
    /\ \A pid \in EitPids : sent[pid] # None =>
          sent[pid] <= on_air[pid] /\ on_air[pid] - sent[pid] < Versions

\* The PID has last sent a table of the version handled last.
Handled(pid) == sent[pid] # None /\ sent[pid] % Versions = last_emitted_version

\* The PID's table is the one shown, or another PID has still to get from an earlier table
\* with the same version to it.
ShownOn(pid) ==
    /\ Handled(pid)
    /\ \/ shown = sent[pid]
       \/ \E other \in EitPids : Handled(other) /\ sent[other] # sent[pid]

\* Of the PIDs, one has sent the table handled last.
ShownInv ==
    /\ last_emitted_version = None => \A pid \in EitPids : sent[pid] = None
    /\ last_emitted_version # None => \E pid \in EitPids : ShownOn(pid)

\* The table on a PID, and its version.
LEMMA TableOnAir ==
    ASSUME ETypeOK, NEW serial \in 0..MaxSerial
    PROVE  /\ Tables[serial] \in Eits /\ Tables[serial].version = serial % Versions
           /\ Tables[serial].version # None /\ serial # None /\ serial \in Nat
BY TablesAssumption, EitsAssumption, NoneAssumption

\* Sending an old table changes nothing: it is the one sent before.
LEMMA SendOldIsRepeat ==
    ASSUME ETypeOK, NEW pid \in EitPids, SendOld(pid), Send(pid)
    PROVE  UNCHANGED <<on_air, sent, shown, last_emitted_version>>
<1>1. sent[pid] \in 0..MaxSerial /\ on_air[pid] \in 0..MaxSerial
  BY DEF ETypeOK, SendOld
<1>2. sent[pid] % Versions = on_air[pid] % Versions
  BY <1>1, TableOnAir DEF SendOld
<1>3. sent[pid] = on_air[pid]
  <2>1. /\ sent[pid] \in Nat /\ on_air[pid] \in Nat
        /\ sent[pid] <= on_air[pid] /\ on_air[pid] - sent[pid] < Versions
    BY <1>1, TablesAssumption DEF ETypeOK, SendOld
  <2> QED BY <1>2, <2>1, SameVersionSameTable
<1>4. sent' = [sent EXCEPT ![pid] = on_air[pid]] /\ UNCHANGED on_air
  BY DEF Send
<1>5. sent' = sent
  BY <1>3, <1>4 DEF ETypeOK
<1> QED BY <1>4, <1>5 DEF SendOld, FeedIgnored, members

\* A packet without a PCR reports no discontinuity: the records are the table's.
LEMMA EitPacketRecords ==
    ASSUME NEW pid, NEW eit \in Eits, FeedEit(EitPacket(pid), eit)
    PROVE  emitted' = EitRecords(last_emitted_version, eit)
<1>1. PcrRecord(EitPacket(pid)) = << >>
  BY DEF PcrRecord, EitPacket, PC!PcrDiscontinuity, PC!Usable
<1>2. IsSequence(EitRecords(last_emitted_version, eit))
  BY EitRecordsAre DEF AreRight
<1>3. emitted' = << >> \o EitRecords(last_emitted_version, eit)
  BY <1>1 DEF FeedEit, FeedPacket
<1> HIDE DEF EitRecords
<1> QED BY <1>2, <1>3, ConcatEmptySeq DEF IsSequence

\* A new table is shown, unless its version is that of the table handled last.
LEMMA SendNewShows ==
    ASSUME ETypeOK, NEW pid \in EitPids, SendNew(pid), Send(pid)
    PROVE  /\ last_emitted_version' = on_air[pid] % Versions
           /\ shown' = on_air[pid] \/ (last_emitted_version = on_air[pid] % Versions /\ shown' = shown)
           /\ sent[pid] # None => sent[pid] % Versions # on_air[pid] % Versions
           /\ sent' = [sent EXCEPT ![pid] = on_air[pid]] /\ UNCHANGED on_air
<1> DEFINE eit == Tables[on_air[pid]]
<1>1. on_air[pid] \in 0..MaxSerial
  BY DEF ETypeOK
<1>2. eit \in Eits /\ eit.version = on_air[pid] % Versions /\ eit.version # None
  BY <1>1, TableOnAir
<1>3. FeedEit(EitPacket(pid), eit)
  BY DEF SendNew
<1>4. emitted' = EitRecords(last_emitted_version, eit)
  BY <1>2, <1>3, EitPacketRecords
<1>5. shown' = IF emitted' = EitRecords(None, eit) THEN on_air[pid] ELSE shown
  BY DEF SendNew
<1>6. last_emitted_version # eit.version => EitRecords(last_emitted_version, eit) = EitRecords(None, eit)
  BY <1>2 DEF EitRecords
<1>7. last_emitted_version' = eit.version
  BY <1>3 DEF FeedEit
<1>8. sent[pid] # None => sent[pid] % Versions # on_air[pid] % Versions
  <2>1. sent[pid] # None => Tables[sent[pid]].version # eit.version
    BY DEF SendNew
  <2> QED BY <1>2, <2>1, TableOnAir DEF ETypeOK
<1> HIDE DEF eit
<1> QED BY <1>2, <1>4, <1>5, <1>6, <1>7, <1>8 DEF Send

\* The invariant through every step of the broadcaster.
LEMMA ShownInvariance == ESpec => [](ETypeOK /\ ShownInv)
<1>1. EInit => ETypeOK /\ ShownInv
  BY TablesAssumption DEF EInit, Init, ETypeOK, ShownInv
<1>2. ETypeOK /\ ShownInv /\ [ENext]_<<vars, eitVars>> => (ETypeOK /\ ShownInv)'
  <2> SUFFICES ASSUME ETypeOK, ShownInv, [ENext]_<<vars, eitVars>>
               PROVE  ETypeOK' /\ ShownInv'
    OBVIOUS
  <2>1. ASSUME NEW pid \in EitPids, Change(pid)
        PROVE  ETypeOK' /\ ShownInv'
    <3>1. /\ on_air[pid] < MaxSerial /\ on_air' = [on_air EXCEPT ![pid] = on_air[pid] + 1]
          /\ UNCHANGED <<sent, shown, last_emitted_version>>
      BY <2>1 DEF Change, vars, members
    <3>2. sent[pid] # None => on_air[pid] - sent[pid] < MaxUnseen
      BY <2>1 DEF Change
    <3>3. on_air[pid] \in 0..MaxSerial /\ MaxSerial \in Nat
      BY TablesAssumption DEF ETypeOK
    <3>4. on_air[pid] + 1 \in 0..MaxSerial
      BY <3>1, <3>3
    <3>5. sent[pid] # None => /\ sent[pid] <= on_air[pid] + 1
                              /\ on_air[pid] + 1 - sent[pid] < Versions
      BY <3>2, <3>3, VersionsAssumption DEF ETypeOK
    <3>6. ETypeOK'
      BY <3>1, <3>4, <3>5 DEF ETypeOK
    <3>7. ShownInv'
      BY <3>1 DEF ShownInv, ShownOn, Handled
    <3> QED BY <3>6, <3>7
  <2>2. ASSUME NEW pid \in EitPids, Send(pid), SendOld(pid)
        PROVE  ETypeOK' /\ ShownInv'
    BY <2>2, SendOldIsRepeat DEF ETypeOK, ShownInv, ShownOn, Handled
  <2>3. ASSUME NEW pid \in EitPids, Send(pid), SendNew(pid)
        PROVE  ETypeOK' /\ ShownInv'
    <3> DEFINE serial == on_air[pid]
    <3>1. serial \in 0..MaxSerial /\ serial # None /\ serial \in Nat /\ serial % Versions # None
      BY TableOnAir DEF ETypeOK
    <3>2. /\ last_emitted_version' = serial % Versions
          /\ shown' = serial \/ (last_emitted_version = serial % Versions /\ shown' = shown)
          /\ sent[pid] # None => sent[pid] % Versions # serial % Versions
          /\ sent' = [sent EXCEPT ![pid] = serial] /\ UNCHANGED on_air
      BY <2>3, SendNewShows
    <3> HIDE DEF serial
    <3>3. sent'[pid] = serial /\ \A other \in EitPids \ {pid} : sent'[other] = sent[other]
      BY <3>2 DEF ETypeOK
    <3>4. ETypeOK'
      <4>1. sent' \in [EitPids -> 0..MaxSerial \cup {None}]
        BY <3>1, <3>2 DEF ETypeOK
      <4>2. on_air' = on_air /\ on_air[pid] = serial
        BY <3>2 DEF serial
      <4>3. ASSUME NEW other \in EitPids, sent'[other] # None
            PROVE  sent'[other] <= on_air'[other] /\ on_air'[other] - sent'[other] < Versions
        <5>1. CASE other = pid
          <6>1. sent'[other] = serial /\ on_air'[other] = serial
            BY <3>3, <4>2, <5>1
          <6> QED BY <3>1, <6>1, VersionsAssumption
        <5>2. CASE other # pid
          BY <3>3, <4>2, <4>3, <5>2 DEF ETypeOK
        <5> QED BY <5>1, <5>2
      <4> QED BY <4>1, <4>2, <4>3 DEF ETypeOK
    <3>5. Handled(pid)' /\ last_emitted_version' # None
      BY <3>1, <3>2, <3>3 DEF Handled
    <3>6. CASE shown' = serial
      <4>1. ShownOn(pid)'
        BY <3>3, <3>5, <3>6 DEF ShownOn
      <4> QED BY <3>4, <3>5, <4>1 DEF ShownInv
    <3>7. CASE last_emitted_version = serial % Versions /\ shown' = shown /\ shown # serial
      <4>1. \A q \in EitPids : Handled(q) => q # pid /\ sent'[q] = sent[q] /\ Handled(q)'
        BY <3>2, <3>3, <3>7 DEF Handled
      <4>2. PICK q \in EitPids : Handled(q) /\ sent[q] # serial
        <5>1. PICK p \in EitPids : ShownOn(p)
          BY <3>1, <3>7 DEF ShownInv
        <5>2. CASE shown = sent[p]
          BY <3>7, <5>1, <5>2 DEF ShownOn
        <5>3. CASE shown # sent[p]
          <6>1. PICK other \in EitPids : Handled(other) /\ sent[other] # sent[p]
            BY <5>1, <5>3 DEF ShownOn
          <6> QED BY <5>1, <6>1 DEF ShownOn
        <5> QED BY <5>2, <5>3
      <4>3. Handled(q)' /\ sent'[q] # sent'[pid]
        BY <3>3, <4>1, <4>2
      <4>4. ShownOn(pid)'
        BY <3>5, <4>3 DEF ShownOn
      <4> QED BY <3>4, <3>5, <4>4 DEF ShownInv
    <3> QED BY <3>2, <3>6, <3>7
  <2>4. CASE UNCHANGED <<vars, eitVars>>
    BY <2>4 DEF vars, members, eitVars, ETypeOK, ShownInv, ShownOn, Handled
  <2> QED BY <2>1, <2>2, <2>3, <2>4 DEF ENext, Send
<1> QED BY <1>1, <1>2, PTL DEF ESpec

\* Once every PID has sent the same table, that table is the one shown, whatever was
\* skipped, repeated or suppressed before.
THEOREM LatestTableIsShown == ESpec => []LatestIsShown
<1>1. ETypeOK /\ ShownInv => LatestIsShown
  <2> SUFFICES ASSUME ETypeOK, ShownInv, NEW serial \in 0..MaxSerial,
                      \A pid \in EitPids : on_air[pid] = serial /\ sent[pid] = serial
               PROVE  shown = serial
    BY DEF LatestIsShown
  <2>1. serial # None
    BY TableOnAir
  <2>2. last_emitted_version # None
    BY <2>1, EitPidsAssumption DEF ShownInv
  <2> QED BY <2>2 DEF ShownInv, ShownOn, Handled
<1> QED BY <1>1, ShownInvariance, PTL
=============================================================================
