-------------------------- MODULE ServiceCarousel ---------------------------
(***************************************************************************)
(* CaptionDumper tuned in to a broadcaster that moves the service between  *)
(* PMT PIDs, takes it off the air, announces a PMT PID it may not use, and *)
(* changes its streams, while the PAT and the PMTs go round and round.     *)
(*                                                                         *)
(* A section demux hands a table over once per version and PID, and        *)
(* forgets a PID that is removed: a dumper that does not remove the PID it *)
(* leaves never gets its PMT again.  Broadcaster and demux memory are      *)
(* outside the repository; versions do not wrap (they do after 32 changes  *)
(* that go unseen).                                                        *)
(***************************************************************************)
EXTENDS CaptionDumper

CONSTANTS PatPid,       \* ts::PID_PAT
          MaxChanges    \* bound: table changes in a behaviour

ASSUME PatPidAssumption == PatPid \in ReservedSectionPids

VARIABLES pat,       \* the PAT on the air: the service's PMT PID (or None), and a version
          pmts,      \* the target service's PMT on each PMT PID
          handled    \* section_demux_: the version last handed over, per PID

carousel == <<pat, pmts, handled>>
allVars == <<vars, carousel>>

CInit ==
    /\ Init
    /\ pat \in [pmt_pid : PmtPids \cup {None}, version : {0}]
    /\ pmts \in [PmtPids -> [streams : StreamMaps, version : {0}]]
    /\ handled = [pid \in {PatPid} \cup PmtPids |-> None]

-----------------------------------------------------------------------------
(* The broadcaster.                                                        *)

\* Versions count the changes.
Changes == pat.version + FoldFunctionOnSet(LAMBDA pmt, n : n + pmt.version, 0, pmts, PmtPids)

ChangePat(pmt_pid) ==
    /\ Changes < MaxChanges
    /\ pmt_pid # pat.pmt_pid
    /\ pat' = [pmt_pid |-> pmt_pid, version |-> pat.version + 1]
    /\ UNCHANGED <<vars, pmts, handled>>

ChangePmt(pid, streams) ==
    /\ Changes < MaxChanges
    /\ streams # pmts[pid].streams
    /\ pmts' = [pmts EXCEPT ![pid] = [streams |-> streams, version |-> @.version + 1]]
    /\ UNCHANGED <<vars, pat, handled>>

-----------------------------------------------------------------------------
(* A packet that completes a table, as the section demux takes it.         *)

TablePacket(pid) == [pid |-> pid, pcr |-> None, discontinuity_indicator |-> FALSE]

New(pid, version) == pid \in section_pids /\ handled[pid] # version

\* The demux remembers what it handed over, and forgets the PIDs it no longer filters.
Remember(pid, version) ==
    handled' = [p \in DOMAIN handled |->
        IF p \notin section_pids' THEN None ELSE IF p = pid THEN version ELSE handled[p]]

SendPat ==
    /\ IF New(PatPid, pat.version)
       THEN FeedPat(TablePacket(PatPid), pat.pmt_pid) /\ Remember(PatPid, pat.version)
       ELSE FeedIgnored(TablePacket(PatPid)) /\ UNCHANGED handled
    /\ UNCHANGED <<pat, pmts>>

SendPmt(pid) ==
    /\ IF New(pid, pmts[pid].version)
       THEN /\ FeedPmt(TablePacket(pid), NullPid, pmts[pid].streams)
            /\ Remember(pid, pmts[pid].version)
       ELSE FeedIgnored(TablePacket(pid)) /\ UNCHANGED handled
    /\ UNCHANGED <<pat, pmts>>

CNext ==
    \/ \E pmt_pid \in PmtPids \cup ReservedSectionPids \cup {None} : ChangePat(pmt_pid)
    \/ \E pid \in PmtPids, streams \in StreamMaps : ChangePmt(pid, streams)
    \/ SendPat
    \/ \E pid \in PmtPids : SendPmt(pid)

\* Every table is sent again and again; nothing makes the broadcaster change one.
CSpec ==
    /\ CInit /\ [][CNext]_allVars
    /\ WF_allVars(SendPat) /\ \A pid \in PmtPids : WF_allVars(SendPmt(pid))

-----------------------------------------------------------------------------
\* The PMT PID to follow: the PAT's, or the one before if that may not be used.
Followed == IF pat.pmt_pid \in ReservedSectionPids THEN current_pmt_pid ELSE pat.pmt_pid

InStep ==
    /\ current_pmt_pid = Followed
    /\ ProfileOf = IF Followed \in PmtPids THEN Desired(Followed, pmts[Followed].streams)
                   ELSE NoEmitters

\* Whatever was announced, moved and changed before, once the tables stay as they are the
\* dumper ends up decoding the caption streams of the service's PMT, and stays with them.
Converges == <>[]InStep

\* A table handed over and not superseded is never needed again: the dumper is then
\* already in step with it.
NothingToWaitFor ==
    (/\ handled[PatPid] = pat.version
     /\ current_pmt_pid \in PmtPids => handled[current_pmt_pid] = pmts[current_pmt_pid].version)
    => InStep
=============================================================================
