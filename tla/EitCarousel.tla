----------------------------- MODULE EitCarousel -----------------------------
(***************************************************************************)
(* CaptionDumper and a broadcaster that sends the service's EIT p/f on     *)
(* both of the PIDs it is demuxed from, changing it on one a little later  *)
(* than on the other.  EitRecordEmitter has one last_emitted_version_ for  *)
(* both, and versions wrap.                                                *)
(*                                                                         *)
(* A table is known by its serial number, its version being the number     *)
(* modulo Versions; whether it has a present and a following event does    *)
(* not depend on the version.  Broadcaster and demux memory are outside    *)
(* the repository, as in ServiceCarousel.                                  *)
(***************************************************************************)
EXTENDS CaptionDumper

CONSTANTS EitPids,       \* ts::PID_EIT, ts::PID_ISDB_EIT_3
          Versions,      \* 32
          MaxUnseen,     \* how far a table may be ahead of the one last sent on its PID
          MaxSerial,     \* bound: tables
          Tables         \* the tables, by serial number

ASSUME EitPidsAssumption == EitPids \subseteq ReservedSectionPids /\ EitPids # {}
ASSUME VersionsAssumption == Versions \in Nat /\ MaxUnseen \in 1..(Versions - 1)
ASSUME TablesAssumption ==
    /\ MaxSerial \in Nat
    /\ Tables \in [0..MaxSerial -> Eits]
    /\ \A serial \in 0..MaxSerial : Tables[serial].version = serial % Versions

VARIABLES on_air,    \* per PID, the table on the air
          sent,      \* per PID, the table last sent, or None
          shown      \* the table whose records were emitted last, or None

eitVars == <<on_air, sent, shown>>

EInit ==
    /\ Init
    /\ on_air = [pid \in EitPids |-> 0]
    /\ sent = [pid \in EitPids |-> None]
    /\ shown = None

\* The next table, first on one PID and then on the other; one that was sent nowhere, such
\* as one lost on the way, may be left for the next.
Change(pid) ==
    /\ on_air[pid] < MaxSerial
    /\ \A other \in EitPids : on_air[pid] <= on_air[other]
    /\ sent[pid] # None => on_air[pid] - sent[pid] < MaxUnseen
    /\ on_air' = [on_air EXCEPT ![pid] = @ + 1]
    /\ UNCHANGED <<vars, sent, shown>>

EitPacket(pid) == [pid |-> pid, pcr |-> None, discontinuity_indicator |-> FALSE]

\* The demux hands the table over if its version is new on this PID.
SendOld(pid) ==
    /\ sent[pid] # None
    /\ Tables[sent[pid]].version = Tables[on_air[pid]].version
    /\ FeedIgnored(EitPacket(pid))
    /\ UNCHANGED shown

SendNew(pid) ==
    LET eit == Tables[on_air[pid]]
    IN  /\ sent[pid] # None => Tables[sent[pid]].version # eit.version
        /\ FeedEit(EitPacket(pid), eit)
        /\ shown' = IF emitted' = EitRecords(None, eit) THEN on_air[pid] ELSE shown

Send(pid) ==
    /\ SendOld(pid) \/ SendNew(pid)
    /\ sent' = [sent EXCEPT ![pid] = on_air[pid]]
    /\ UNCHANGED on_air

ENext == \E pid \in EitPids : Change(pid) \/ Send(pid)

\* Each PID's table is sent again and again.
ESpec ==
    /\ EInit /\ [][ENext]_<<vars, eitVars>>
    /\ \A pid \in EitPids : WF_<<vars, eitVars>>(Send(pid))

-----------------------------------------------------------------------------
\* Whatever was sent where before, once both PIDs carry the same table and have sent it, it
\* is what was emitted last: the version of one PID's older table does not hide it, though
\* the older table may have come after it on the other.
LatestIsShown ==
    \A serial \in 0..MaxSerial :
        (\A pid \in EitPids : on_air[pid] = serial /\ sent[pid] = serial) => shown = serial

\* The table that stays on both is shown in the end, and nothing after it.
EitConverges == \A serial \in 0..MaxSerial :
    (<>[](\A pid \in EitPids : on_air[pid] = serial)) => <>[](shown = serial)
=============================================================================
