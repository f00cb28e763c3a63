------------------------- MODULE MCServiceCarousel --------------------------
(***************************************************************************)
(* ServiceCarousel with two PMT PIDs and two elementary streams; the clock *)
(* is never fed.                                                           *)
(***************************************************************************)
EXTENDS ServiceCarousel

CONSTANTS eit_pid, pmt, one_seg_pmt, es1, es2, video

MCReservedSectionPids == {PatPid, eit_pid}
MCPmtPids == {pmt, one_seg_pmt}
MCOneSegPmtPids == {one_seg_pmt}
MCEsPids == {es1, es2}
MCPids == {video}

FullSeg == [stream_type |-> "ST_PES_PRIV", component_tag |-> "kComponentTagDefaultCaption",
            data_component_id |-> "kDataComponentProfileA"]
OneSeg == [stream_type |-> "ST_PES_PRIV", component_tag |-> "kComponentTagOneSegCaption",
           data_component_id |-> "kDataComponentProfileC"]

\* One caption stream or two, of the PMT PID's kind or of the other.
MCStreamMaps == [{es1} -> {FullSeg, OneSeg}] \cup [{es1, es2} -> {FullSeg}]

MCEits == {}
MCPesContents == {}
MCPtss == {}
MCUnixTimes == {0}
=============================================================================
