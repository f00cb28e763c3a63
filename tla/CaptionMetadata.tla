--------------------------- MODULE CaptionMetadata ---------------------------
(***************************************************************************)
(* What a caption record takes from the decoded caption besides its text   *)
(* (caption_record_emitter.cc): ruby and color.  A caption, as             *)
(* libaribcaption builds it, is a list of regions of characters, which     *)
(* grows here a region, then a character at a time.                        *)
(*                                                                         *)
(* A text is a sequence of tokens, a 32-bit word the set of its 1 bits.    *)
(*                                                                         *)
(* The operators named Slip... are not part of the model: each is a way    *)
(* the operator after it could have been got wrong (README, "Mutants").    *)
(***************************************************************************)
EXTENDS Words, Sequences, SequencesExt

CONSTANTS Colors,       \* text colors: [r, g, b, a : words of 8 bits]
          MaxRegions, MaxChars    \* bounds

ASSUME ColorsAssumption ==
    \A color \in Colors : \A c \in {"r", "g", "b", "a"} : color[c] \subseteq 0..7

VARIABLE regions    \* caption.regions

-----------------------------------------------------------------------------
Rgba(color) == Shl(color.r, 24) \cup Shl(color.g, 16) \cup Shl(color.b, 8) \cup color.a

\* "0x{:08x}": eight hexadecimal digits, the highest first.
ColorToRgbaHex(color) == [i \in 1..8 |-> Cast(Shr(Rgba(color), 32 - 4 * i), 4)]

ASSUME NoColorAssumption == \A color \in Colors : ColorToRgbaHex(color) # None    \* std::nullopt

HasUtf8Text(ch) == ch.u8str # << >>

AppendUtf8Text(ruby_text, ch) == IF HasUtf8Text(ch) THEN ruby_text \o ch.u8str ELSE ruby_text

RubyText(chars) == FoldLeft(AppendUtf8Text, << >>, chars)

\* Slip: a ruby region goes on to the color.
SlipColorOfRuby(metadata, region) ==
    [ruby |-> IF region.is_ruby /\ RubyText(region.chars) # << >>
              THEN Append(metadata.ruby, RubyText(region.chars)) ELSE metadata.ruby,
     color |-> IF metadata.color = None /\ region.chars # << >>
               THEN ColorToRgbaHex(Head(region.chars).text_color) ELSE metadata.color]

\* A ruby region gives its text, if any; the first other one with a character its color.
AddRegion(metadata, region) ==
    IF region.is_ruby
    THEN LET ruby_text == RubyText(region.chars)
         IN  IF ruby_text = << >> THEN metadata
             ELSE [metadata EXCEPT !.ruby = Append(@, ruby_text)]
    ELSE IF metadata.color = None /\ region.chars # << >>
    THEN [metadata EXCEPT !.color = ColorToRgbaHex(Head(region.chars).text_color)]
    ELSE metadata

ExtractCaptionMetadata(rs) == FoldLeft(AddRegion, [ruby |-> << >>, color |-> None], rs)

-----------------------------------------------------------------------------
\* The characters of the regions of these kinds, ruby or not, in order.
CharsOf(rs, kinds) ==
    FlattenSeq([i \in DOMAIN rs |-> IF rs[i].is_ruby \in kinds THEN rs[i].chars ELSE << >>])

CaptionInit == regions = << >>

BeginRegion(is_ruby) ==
    /\ Len(regions) < MaxRegions
    /\ regions' = Append(regions, [is_ruby |-> is_ruby, chars |-> << >>])

\* A character with a text of its own or none, such as a graphic.
AddChar(has_text, text_color) ==
    /\ regions # << >>
    /\ Len(CharsOf(regions, BOOLEAN)) < MaxChars
    /\ LET u8str == IF has_text THEN <<Len(CharsOf(regions, BOOLEAN))>> ELSE << >>
       IN  regions' = [regions EXCEPT ![Len(regions)].chars =
                           Append(@, [u8str |-> u8str, text_color |-> text_color])]

CaptionNext ==
    \/ \E is_ruby \in BOOLEAN : BeginRegion(is_ruby)
    \/ \E has_text \in BOOLEAN, text_color \in Colors : AddChar(has_text, text_color)

-----------------------------------------------------------------------------
\* The color is that of the first character outside ruby, and its digits are, in pairs,
\* the bytes r, g, b, a; without such a character there is none.
ColorIsOfBody(color) ==
    LET body == CharsOf(regions, {FALSE})
        digits(i) == Shl(color[2 * i - 1], 4) \cup color[2 * i]
    IN  IF body = << >> THEN color = None
        ELSE LET first == body[1].text_color
             IN  /\ digits(1) = first.r /\ digits(2) = first.g
                 /\ digits(3) = first.b /\ digits(4) = first.a

\* Ruby is the text of all ruby regions in order, none of it empty, and of no other region.
RubyIsComplete(ruby) ==
    LET chars == CharsOf(regions, {TRUE})
    IN  /\ FlattenSeq(ruby) = FlattenSeq([i \in DOMAIN chars |-> chars[i].u8str])
        /\ << >> \notin ToSet(ruby)

\* However a caption is cut into regions and its characters are spread over them, a record
\* has the color of its body, not of its ruby, and all of its ruby, not some of its body.
MetadataIsOfCaption ==
    LET metadata == ExtractCaptionMetadata(regions)
    IN  ColorIsOfBody(metadata.color) /\ RubyIsComplete(metadata.ruby)
=============================================================================
