---------------------------- MODULE MCEitCarousel ----------------------------
(***************************************************************************)
(* EitCarousel; the dumper gets nothing but EITs.                          *)
(***************************************************************************)
EXTENDS EitCarousel

CONSTANTS pat, eit_pid, eit_3_pid, pmt, es, video

MCReservedSectionPids == {pat, eit_pid, eit_3_pid}
MCEitPids == {eit_pid, eit_3_pid}
MCPmtPids == {pmt}
MCEsPids == {es}
MCPids == {video}
MCNone == {}
MCUnixTimes == {0}
MCEits == [version : 0..(Versions - 1), present : 0..1, following : 0..1]

\* Empty sections come and go out of step with each other and with the versions.
MCTables ==
    [serial \in 0..MaxSerial |->
        [version |-> serial % Versions, present |-> (serial \div 2) % 2,
         following |-> IF serial % 3 = 0 THEN 0 ELSE 1]]
=============================================================================
