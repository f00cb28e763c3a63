-------------------------- MODULE EitRecordEmitter --------------------------
(***************************************************************************)
(* EitRecordEmitter and the part of eit_parser.cc that decides how many    *)
(* records a table gives and which section each belongs to.  What a record *)
(* says of its event (texts, genres, start time, duration) is left out.    *)
(* The module has no variables: CaptionDumper keeps last_emitted_version_. *)
(*                                                                         *)
(* A table is reduced to its version and to how many events its present    *)
(* and its following section carry; TSDuck's ts::EIT (outside the          *)
(* repository) puts them one after the other in `events`.                  *)
(*                                                                         *)
(* The operators named Slip... are not part of the model: each is a way    *)
(* the operator after it could have been got wrong (README, "Mutants").    *)
(***************************************************************************)
EXTENDS Naturals, SequencesExt

CONSTANT EitOutput    \* the sections options_.eit_output selects

ASSUME EitOutputAssumption == EitOutput \in (SUBSET {"kPresent", "kFollowing"}) \ {{}}

\* ts::EIT::events: of each event, the section it came in.
Events(eit) ==
    [i \in 1..(eit.present + eit.following) |->
        IF i <= eit.present THEN "kPresent" ELSE "kFollowing"]

EitPresentSectionHasEvent(eit) == eit.present > 0

\* Slip: the first event is always taken for the present one.
SlipByIndex(event_index, present_section_has_event) ==
    IF event_index = 0 THEN "kPresent" ELSE "kFollowing"

GetSectionKind(event_index, present_section_has_event) ==
    IF present_section_has_event /\ event_index = 0 THEN "kPresent" ELSE "kFollowing"

\* At most two records.
ParseEit(eit) ==
    LET events == Events(eit)
        count == IF Len(events) > 2 THEN 2 ELSE Len(events)
    IN  [i \in 1..count |->
            [type |-> "eit", version |-> eit.version, event_section |-> events[i],
             section |-> GetSectionKind(i - 1, EitPresentSectionHasEvent(eit))]]

\* What the loop over the parsed records makes of each.
Selected(record) == IF record.section \in EitOutput THEN <<record>> ELSE << >>

\* Slip: an older version is skipped too.
SlipOlderIsSkipped(last_emitted_version, eit) ==
    IF last_emitted_version \in eit.version..31 THEN << >>
    ELSE LET parsed == ParseEit(eit)
         IN  FlattenSeq([i \in DOMAIN parsed |-> Selected(parsed[i])])

\* The records HandleEit emits; last_emitted_version_ becomes the table's version.
EitRecords(last_emitted_version, eit) ==
    IF last_emitted_version = eit.version THEN << >>
    ELSE LET parsed == ParseEit(eit)
         IN  FlattenSeq([i \in DOMAIN parsed |-> Selected(parsed[i])])
=============================================================================
