---------------------------- MODULE OutputRecords ----------------------------
(***************************************************************************)
(* Records on their way out: the times of an event as ParseEit takes them  *)
(* over, ToJsonLine (output_record.cc) and the two sinks.                  *)
(*                                                                         *)
(* A JSON object is a record of the same keys, a JSON line the object it   *)
(* spells.  Texts and codes are plain values.  Times are in hours; a       *)
(* formatted time is its date, in days since 1970-01-01, and time of day.  *)
(*                                                                         *)
(* The operators named Slip... are not part of the model: each is a way    *)
(* the operator after it could have been got wrong (README, "Mutants").    *)
(***************************************************************************)
EXTENDS Words, Sequences

CONSTANTS Null,            \* null in JSON
          Captions,        \* CaptionRecords
          Diagnostics,     \* the kinds of DiagnosticRecord, with their fields
          Events,          \* [start_time, duration, ...]: what an EIT says of an event
          UnixEpoch,       \* 1970-01-01T00:00 in ts::Time, which begins at Epoch = 0
          MaxUint32,       \* the largest uint32_t
          MaxRecords       \* bound: records emitted

ASSUME UnixEpochAssumption == UnixEpoch \in Nat \ {0} /\ UnixEpoch % 24 = 0
ASSUME MaxUint32Assumption == MaxUint32 \in Nat
\* The structs of output_record.hpp; ts_utils.hpp:22 wants times that are not negative.
ASSUME CaptionsAssumption == \A record \in Captions :
    /\ record = [type |-> "caption", time_ms |-> record.time_ms, text |-> record.text,
                 ruby |-> record.ruby, color |-> record.color,
                 language_code |-> record.language_code]
    /\ record.time_ms \in Nat \cup {None} /\ Null \notin {record.color, record.language_code}
ASSUME DiagnosticsAssumption == \A record \in Diagnostics :
    record = IF record.kind = "pcrDiscontinuity"
             THEN [type |-> "diagnostic", kind |-> record.kind, pid |-> record.pid,
                   flagged |-> record.flagged]
             ELSE [type |-> "diagnostic", kind |-> record.kind, pid |-> record.pid]
ASSUME EventsAssumption == \A event \in Events :
    /\ event.start_time \in Nat /\ event.duration \in Int
    /\ event.section \in {"kPresent", "kFollowing"}
ASSUME ListsAssumption == \A event \in Events :
    /\ LET short == event.short_events
       IN  short = [i \in DOMAIN short |->
                      [event_name |-> short[i].event_name, text |-> short[i].text,
                       language_code |-> short[i].language_code]]
    /\ LET genres == event.genres
       IN  genres = [i \in DOMAIN genres |->
                       <<genres[i][1], genres[i][2], genres[i][3], genres[i][4]>>]
ASSUME NoneAssumption ==
    /\ None \notin Int \cup Events
    /\ Null \notin Int \cup [date : Int, time : Int]

VARIABLES records_,    \* VectorOutputRecordSink's records
          stream_,     \* JsonlOutputRecordSink's lines
          broadcast    \* history: for each record the event it is of, or None

recordVars == <<records_, stream_, broadcast>>

-----------------------------------------------------------------------------
(* ts_utils.cc, and the numbers of ParseEit.                               *)

JstOffset == 9

\* Slip: the guard looks at the JST time.
SlipGuardBeforeOffset(time) ==
    IF time = 0 \/ time < UnixEpoch THEN None ELSE time - JstOffset - UnixEpoch

JstTimeToUnixMs(time) ==
    LET utc == time - JstOffset
    IN  IF time = 0 \/ utc < UnixEpoch THEN None ELSE utc - UnixEpoch

UnixMsToRfc3339Jst(unix_ms) ==
    LET jst_wall_clock == unix_ms + JstOffset
    IN  [date |-> jst_wall_clock \div 24, time |-> jst_wall_clock % 24]

DurationSec(duration) == IF duration \in 0..MaxUint32 THEN duration ELSE None

EitRecord(event) ==
    [type |-> "eit", start_time_ms |-> JstTimeToUnixMs(event.start_time),
     duration_sec |-> DurationSec(event.duration), short_events |-> event.short_events,
     extended_text |-> event.extended_text, genres |-> event.genres,
     section |-> event.section, version |-> event.version, service_id |-> event.service_id,
     transport_stream_id |-> event.ts_id, original_network_id |-> event.onetw_id,
     event_id |-> event.event_id]

-----------------------------------------------------------------------------
(* output_record.cc.                                                       *)

\* Slip: value_or(0).
SlipValueOrZero(value) == IF value = None THEN 0 ELSE value

AddOptional(value) == IF value = None THEN Null ELSE value

AddOptionalRfc3339(unix_ms) == IF unix_ms = None THEN Null ELSE UnixMsToRfc3339Jst(unix_ms)

ShortEventsToJson(short_events) ==
    [i \in DOMAIN short_events |->
        [eventName |-> short_events[i].event_name, text |-> short_events[i].text,
         languageCode |-> short_events[i].language_code]]

GenresToJson(genres) ==
    [i \in DOMAIN genres |->
        [contentNibbleLevel1 |-> genres[i][1], contentNibbleLevel2 |-> genres[i][2],
         userNibble1 |-> genres[i][3], userNibble2 |-> genres[i][4]]]

SectionToString(section) == IF section = "kFollowing" THEN "following" ELSE "present"

DiagnosticToJson(diagnostic) ==
    IF diagnostic.kind = "pcrDiscontinuity"
    THEN [type |-> "diagnostic", kind |-> diagnostic.kind, pid |-> diagnostic.pid,
          flagged |-> diagnostic.flagged]
    ELSE [type |-> "diagnostic", kind |-> diagnostic.kind, pid |-> diagnostic.pid]

ToJsonLine(record) ==
    CASE record.type = "caption" ->
           [type |-> "caption", time |-> AddOptionalRfc3339(record.time_ms),
            text |-> record.text, ruby |-> record.ruby, color |-> AddOptional(record.color),
            languageCode |-> AddOptional(record.language_code)]
      [] record.type = "eit" ->
           [type |-> "eit", startTime |-> AddOptionalRfc3339(record.start_time_ms),
            durationSec |-> AddOptional(record.duration_sec),
            shortEvents |-> ShortEventsToJson(record.short_events),
            extendedText |-> record.extended_text, genres |-> GenresToJson(record.genres),
            section |-> SectionToString(record.section), version |-> record.version,
            serviceId |-> record.service_id, transportStreamId |-> record.transport_stream_id,
            originalNetworkId |-> record.original_network_id, eventId |-> record.event_id]
      [] record.type = "diagnostic" -> DiagnosticToJson(record)

-----------------------------------------------------------------------------
\* The same record to either sink.
Emit(record, event) ==
    /\ Len(records_) < MaxRecords
    /\ records_' = Append(records_, record)
    /\ stream_' = Append(stream_, ToJsonLine(record))
    /\ broadcast' = Append(broadcast, event)

RecordInit == records_ = << >> /\ stream_ = << >> /\ broadcast = << >>

RecordNext ==
    \/ \E record \in Captions \cup Diagnostics : Emit(record, None)
    \/ \E event \in Events : Emit(EitRecord(event), event)

-----------------------------------------------------------------------------
\* What the records tell apart, the lines tell apart: no value shows as none, and no kind of
\* record, section or diagnostic shows as another.
LinesTellRecordsApart ==
    \A i, j \in DOMAIN stream_ : stream_[i] = stream_[j] => records_[i] = records_[j]

\* The start an event is given, in JST, is shown as it was broadcast, on any host; one that
\* is undefined or that has no Unix time is null, not a time.  A duration that does not fit
\* is null, not one cut short.
TimesAreAsBroadcast ==
    \A i \in {k \in DOMAIN stream_ : broadcast[k] # None} :
        LET event == broadcast[i]
            unix == event.start_time - UnixEpoch
        IN  /\ stream_[i].startTime =
                 IF unix < JstOffset THEN Null ELSE [date |-> unix \div 24, time |-> unix % 24]
            /\ stream_[i].durationSec \in {event.duration, Null}
            /\ stream_[i].durationSec = Null <=> event.duration \notin 0..MaxUint32
=============================================================================
