------------------------------ MODULE EventText ------------------------------
(***************************************************************************)
(* What an EIT record says of its event: ParseDescriptors of               *)
(* eit_parser.cc, fed with the descriptor lists a broadcaster can make of  *)
(* an event.  A long item is split over entries, and these over extended   *)
(* event descriptors, at any place; other descriptors come in between.     *)
(*                                                                         *)
(* A text is a sequence of tokens: each piece the broadcaster cuts is a    *)
(* token of its own.  What TSDuck decodes a descriptor to, and whether it  *)
(* finds it valid, comes with the descriptor.                              *)
(*                                                                         *)
(* The operators named Slip... are not part of the model: each is a way    *)
(* the operator after it could have been got wrong (README, "Mutants").    *)
(***************************************************************************)
EXTENDS Naturals, Sequences, SequencesExt

CONSTANTS MaxPieces,        \* bound: pieces of text
          MaxDescriptors    \* bound: descriptors of the event

Newline == "\n"
Empty == << >>

-----------------------------------------------------------------------------
\* Slip: a continuation is an item of its own.
SlipNoContinuation(items, entry) == Append(items, entry)

\* A missing description continues the item before, if there is one.
PushParsedExtendedEventItem(items, entry) ==
    IF entry.description = Empty /\ items # << >>
    THEN [items EXCEPT ![Len(items)].value = @ \o entry.value]
    ELSE Append(items, entry)

AppendPart(out, part) == IF out = Empty THEN part ELSE out \o <<Newline>> \o part

AppendItem(out, item) ==
    IF item.description # Empty
    THEN AppendPart(out, item.description \o <<Newline>> \o item.value)
    ELSE IF item.value # Empty THEN AppendPart(out, item.value) ELSE out

FormatExtendedText(items, trailing_text) ==
    LET out == FoldLeft(AppendItem, Empty, items)
    IN  IF trailing_text # Empty THEN AppendPart(out, trailing_text) ELSE out

IsRead(d, tag) == d.tag = tag /\ d.valid

\* The entries, and the texts, of the valid descriptors with this tag, in the order of the list.
Entries(descriptors, tag) ==
    FlattenSeq([i \in DOMAIN descriptors |->
                  IF IsRead(descriptors[i], tag) THEN descriptors[i].entries ELSE << >>])

Texts(descriptors) ==
    FlattenSeq([i \in DOMAIN descriptors |->
                  IF IsRead(descriptors[i], "DID_DVB_EXTENDED_EVENT") THEN descriptors[i].text
                  ELSE Empty])

ParseItems(descriptors) ==
    FoldLeft(PushParsedExtendedEventItem, << >>, Entries(descriptors, "DID_DVB_EXTENDED_EVENT"))

ParseDescriptors(descriptors) ==
    [short_events |-> Entries(descriptors, "DID_DVB_SHORT_EVENT"),
     genres |-> Entries(descriptors, "DID_DVB_CONTENT"),
     extended_text |-> FormatExtendedText(ParseItems(descriptors), Texts(descriptors))]

-----------------------------------------------------------------------------
(* The broadcaster: what it wants to say, and the list it says it with.    *)

VARIABLES descs,          \* the event's descriptors so far
          items,          \* the items it has announced, each whole
          text,           \* the free text
          short_events, genres,
          pieces          \* number of pieces so far

textVars == <<descs, items, text, short_events, genres, pieces>>

TextInit ==
    /\ descs = << >> /\ items = << >> /\ text = Empty
    /\ short_events = << >> /\ genres = << >> /\ pieces = 0

Extended == [tag |-> "DID_DVB_EXTENDED_EVENT", valid |-> TRUE, entries |-> << >>, text |-> Empty]

\* The next piece, entries or text, goes into the last descriptor, or into a new one.
Put(entries, more_text) ==
    LET Into(d) == [d EXCEPT !.entries = @ \o entries, !.text = @ \o more_text]
    IN  /\ pieces < MaxPieces
        /\ pieces' = pieces + 1
        /\ \/ /\ descs # << >>
              /\ Last(descs).tag = Extended.tag /\ Last(descs).valid
              /\ descs' = Front(descs) \o <<Into(Last(descs))>>
           \/ /\ Len(descs) < MaxDescriptors
              /\ descs' = Append(descs, Into(Extended))

PutEntry(description, value) ==
    Put(<<[description |-> description, value |-> value]>>, Empty)

Token == <<pieces>>

\* A new item with the beginning of its value; only the first can be without a name.
BeginItem(description, value) ==
    /\ description = Empty => items = << >>
    /\ PutEntry(description, value)
    /\ items' = Append(items, [description |-> description, value |-> value])
    /\ UNCHANGED <<text, short_events, genres>>

ContinueItem(value) ==
    /\ items # << >>
    /\ PutEntry(Empty, value)
    /\ items' = [items EXCEPT ![Len(items)].value = @ \o value]
    /\ UNCHANGED <<text, short_events, genres>>

AddText ==
    /\ Put(<< >>, Token)
    /\ text' = text \o Token
    /\ UNCHANGED <<items, short_events, genres>>

\* A short event descriptor, a content descriptor with up to two genres, or one of any kind
\* that is damaged.
AddOther(tag, valid, count) ==
    /\ pieces < MaxPieces
    /\ Len(descs) < MaxDescriptors
    /\ pieces' = pieces + 1
    /\ LET entries == IF tag = Extended.tag THEN <<[description |-> Token, value |-> Token]>>
                      ELSE [i \in 1..count |-> Token]
       IN  /\ descs' = Append(descs, [tag |-> tag, valid |-> valid, entries |-> entries,
                                      text |-> Token])
           /\ short_events' = IF valid /\ tag = "DID_DVB_SHORT_EVENT"
                              THEN short_events \o entries ELSE short_events
           /\ genres' = IF valid /\ tag = "DID_DVB_CONTENT" THEN genres \o entries ELSE genres
    /\ UNCHANGED <<items, text>>

TextNext ==
    \/ \E description, value \in {Empty, Token} : BeginItem(description, value)
    \/ \E value \in {Empty, Token} : ContinueItem(value)
    \/ AddText
    \/ \E valid \in BOOLEAN : AddOther("DID_DVB_SHORT_EVENT", valid, 1)
    \/ \E valid \in BOOLEAN, count \in 0..2 : AddOther("DID_DVB_CONTENT", valid, count)
    \/ AddOther(Extended.tag, FALSE, 1)

-----------------------------------------------------------------------------
\* What an item says; the parts that say something, a line break between them.
Part(item) == IF item.description = Empty THEN item.value
              ELSE item.description \o <<Newline>> \o item.value

Joined(parts) ==
    FlattenSeq([i \in DOMAIN parts |->
                  IF parts[i] # Empty /\ \E j \in 1..(i - 1) : parts[j] # Empty
                  THEN <<Newline>> \o parts[i] ELSE parts[i]])

Meant == Joined(Append([i \in DOMAIN items |-> Part(items[i])], text))

\* What a record says of the event is what was meant, wherever the broadcaster cuts items
\* and free text and whatever it mixes them with: no piece is lost, doubled, broken up or
\* out of place, each genre is on its own, and damaged descriptors add nothing.
EventIsAsMeant ==
    ParseDescriptors(descs) =
        [short_events |-> short_events, genres |-> genres, extended_text |-> Meant]
=============================================================================
