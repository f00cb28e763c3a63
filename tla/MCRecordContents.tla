-------------------------- MODULE MCRecordContents --------------------------
(***************************************************************************)
(* The modules on what a record says, each on its own in one run: PesPts,  *)
(* EventText, CaptionMetadata, OutputRecords.  They share no state.        *)
(***************************************************************************)
EXTENDS PesPts, EventText, CaptionMetadata, OutputRecords

CONSTANTS red, jpn

VARIABLE part    \* the module that takes steps

\* The PTSs with at most two bits set, or clear.
Sparse == {{i, j} : i \in 0..32, j \in 0..32} \cup {{}}

MCPtss == Sparse \cup {(0..32) \ word : word \in Sparse}

\* Two opaque colors of different bytes.
MCColors ==
    {[r |-> {0}, g |-> {1, 7}, b |-> {}, a |-> 0..7], [r |-> {3, 4}, g |-> {}, b |-> {2}, a |-> 0..7]}

\* Every optional field there or not.
MCCaptions ==
    [type : {"caption"}, time_ms : {None, 0, 20}, text : {"", "text"},
     ruby : {<< >>, <<"ruby">>}, color : {None, red}, language_code : {None, jpn}]

MCDiagnostics ==
    [type : {"diagnostic"}, kind : {"captionDecodeError", "reservedPmtPidCollision"}, pid : 0..1]
      \cup [type : {"diagnostic"}, kind : {"pcrDiscontinuity"}, pid : 0..1, flagged : BOOLEAN]

Talk == [event_name |-> "talk", text |-> "", language_code |-> "jpn"]

\* Start times on either side of the two epochs, a day apart, and durations on either side
\* of the bounds; then every list empty or not, sections and versions.
MCEvents ==
    [start_time : {0, 1, 24, 32, 33, 47, 48, 80}, duration : {-1, 0, 3, 4, 5},
     short_events : {<< >>}, extended_text : {""}, genres : {<< >>},
     section : {"kPresent"}, version : {0}, service_id : {1}, ts_id : {2}, onetw_id : {3},
     event_id : {0}]
      \cup
    [start_time : {0, 48}, duration : {-1}, short_events : {<< >>, <<Talk>>, <<Talk, Talk>>},
     extended_text : {"", "text"}, genres : {<< >>, <<<<0, 1, 2, 3>>>>, <<<<1, 0, 2, 3>>>>},
     section : {"kPresent", "kFollowing"}, version : 0..1, service_id : {1},
     ts_id : {2}, onetw_id : {3}, event_id : 0..1]

NoPes == [hasLongHeader |-> FALSE, headerSize |-> 13, header |-> {}]

MCInit ==
    /\ TextInit /\ CaptionInit /\ RecordInit
    /\ \/ part = "pes" /\ PesInit
       \/ part \in {"text", "caption", "record"} /\ packet = NoPes /\ pts = {} /\ damaged = {}

MCNext ==
    /\ UNCHANGED part
    /\ \/ part = "pes" /\ PesNext /\ UNCHANGED <<textVars, regions, recordVars>>
       \/ part = "text" /\ TextNext /\ UNCHANGED <<pesVars, regions, recordVars>>
       \/ part = "caption" /\ CaptionNext /\ UNCHANGED <<pesVars, textVars, recordVars>>
       \/ part = "record" /\ RecordNext /\ UNCHANGED <<pesVars, textVars, regions>>

MCSpec == MCInit /\ [][MCNext]_<<pesVars, textVars, regions, recordVars, part>>
=============================================================================
