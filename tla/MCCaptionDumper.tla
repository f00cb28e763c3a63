-------------------------- MODULE MCCaptionDumper ---------------------------
(***************************************************************************)
(* CaptionDumper under any packets of a small multiplex: a full-seg and a  *)
(* one-seg PMT PID, two streams, and a PCR on one of them or on a PID of   *)
(* its own.                                                                *)
(***************************************************************************)
EXTENDS CaptionDumper

CONSTANTS pat, pmt, one_seg_pmt, es1, es2, pcr

MCReservedSectionPids == {pat}
MCPmtPids == {pmt, one_seg_pmt}
MCOneSegPmtPids == {one_seg_pmt}
MCEsPids == {es1, es2}
MCPids == {es1, pcr}
MCUnixTimes == {0}

FullSeg == [stream_type |-> "ST_PES_PRIV", component_tag |-> "kComponentTagDefaultCaption",
            data_component_id |-> "kDataComponentProfileA"]
OneSeg == [stream_type |-> "ST_PES_PRIV", component_tag |-> "kComponentTagOneSegCaption",
           data_component_id |-> "kDataComponentProfileC"]
Untagged == [FullSeg EXCEPT !.component_tag = None]
NoComponent == [FullSeg EXCEPT !.data_component_id = None]
Video == [FullSeg EXCEPT !.stream_type = "ST_MPEG2_VIDEO"]

\* One stream, a caption of one kind or the other, and two, both captions or neither.
MCStreamMaps ==
    [{es1} -> {NoComponent, OneSeg}]
      \cup {(es1 :> FullSeg @@ es2 :> FullSeg), (es1 :> Untagged @@ es2 :> Video)}

MCEits == {[version |-> 0, present |-> 1, following |-> 0]}

\* A caption in both languages, the second one announced; an error of the second decoder,
\* and of the first.
Contents ==
    {[kFirst |-> "kGotText", announces_second |-> TRUE, kSecond |-> "kGotEmpty"],
     [kFirst |-> "kGotText", announces_second |-> FALSE, kSecond |-> "kError"],
     [kFirst |-> "kError", announces_second |-> TRUE, kSecond |-> "kGotText"]}

MCPtss == {0}

\* Everything but `earlier`, on which no other variable depends, nor any property here
\* but its own type.
View == <<clock, reported, current, members, begun, emitted, flushed, listed, seen>>
=============================================================================
