------------------------ MODULE CaptionRecordEmitter ------------------------
(***************************************************************************)
(* CaptionRecordEmitter (core/caption_record_emitter.{hpp,cc}): one        *)
(* caption stream, decoded by a first-language decoder and, once the       *)
(* stream has announced a second language, by a second one.  The module    *)
(* has no variables: CaptionDumper keeps one emitter per stream and calls  *)
(* HandlePes.                                                              *)
(*                                                                         *)
(* libaribcaption's decoders are outside the repository: what each Decode  *)
(* returns, and whether the first decoder knows of a second language       *)
(* afterwards, come with the PES packet, unconstrained.                    *)
(*                                                                         *)
(* The operators named Slip... are not part of the model: each is a way    *)
(* the operator after it could have been got wrong (README, "Mutants").    *)
(***************************************************************************)
EXTENDS Sequences

CONSTANT EmitEmptyCaptions    \* options_.emit_empty_captions

ASSUME EmitEmptyCaptionsAssumption == EmitEmptyCaptions \in BOOLEAN

Profiles == {"kProfileA", "kProfileC"}
Languages == {"kFirst", "kSecond"}

\* What Decode returns: kError, kNoCaption, or kGotCaption with an empty text or not.
DecodeResults == {"kError", "kNoCaption", "kGotEmpty", "kGotText"}

\* A PES packet: what each decoder makes of it, and whether it lets the first one know
\* of a second language.
Pes == [kFirst : DecodeResults, announces_second : BOOLEAN, kSecond : DecodeResults]

\* An emitter: the stream's profile, and whether decoders_[1] exists.
Emitters == [profile : Profiles, second : BOOLEAN]

NewEmitter(profile) == [profile |-> profile, second |-> FALSE]

CaptionRecord(pid, language, result, time) ==
    [type |-> "caption", pid |-> pid, language |-> language, empty |-> result = "kGotEmpty",
     time_ms |-> time]

CaptionDecodeError(pid) == [type |-> "captionDecodeError", pid |-> pid]

\* A decoded caption that becomes a record.
Shows(result) == result = "kGotText" \/ (result = "kGotEmpty" /\ EmitEmptyCaptions)

\* What one decoder adds to the output.
Decoded(pid, language, result, time) ==
    IF result = "kError" THEN <<CaptionDecodeError(pid)>>
    ELSE IF Shows(result) THEN <<CaptionRecord(pid, language, result, time)>>
    ELSE << >>

\* The second decoder is made after the first one's decode, unless that failed, and stays.
EnsureSecondLanguageDecoder(emitter, pes) ==
    [emitter EXCEPT !.second = emitter.second \/ (pes.kFirst # "kError" /\ pes.announces_second)]

\* Slip: the second decoder is fed after the first one's error.
SlipGoesOnAfterError(emitter, pid, pes, time) ==
    Decoded(pid, "kFirst", pes.kFirst, time)
      \o IF EnsureSecondLanguageDecoder(emitter, pes).second
         THEN Decoded(pid, "kSecond", pes.kSecond, time) ELSE << >>

\* The records of one PES packet: both languages' in order, up to the first error.  A
\* second decoder this packet has brought about is fed this packet too.
PesRecords(emitter, pid, pes, time) ==
    Decoded(pid, "kFirst", pes.kFirst, time)
      \o IF pes.kFirst # "kError" /\ EnsureSecondLanguageDecoder(emitter, pes).second
         THEN Decoded(pid, "kSecond", pes.kSecond, time) ELSE << >>
=============================================================================
