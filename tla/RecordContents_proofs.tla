----------------------- MODULE RecordContents_proofs ------------------------
(***************************************************************************)
(* What a record says: the PTS a caption is timed with is the one in its   *)
(* header (PesPts), the times of an event reach the output as broadcast,   *)
(* wherever the Unix epoch lies in ts::Time (OutputRecords), an event's    *)
(* texts are put together as they were meant (EventText), and a caption's  *)
(* color and ruby are those of its regions (CaptionMetadata).              *)
(***************************************************************************)
EXTENDS PesPts, OutputRecords, EventText, CaptionMetadata, Induction_proofs,
        SequenceTheorems, TLAPS

-----------------------------------------------------------------------------
(* PesPts: every PTS is read back, for all 2^33 of them and every single   *)
(* damaged bit.                                                            *)

\* Each bit of the result is the header's bit at its position, and there are no others:
\* no bit of the three parts overlaps another's, or is lost by mask, shift or cast.
LEMMA BitsAreInPlace ==
    ASSUME NEW header, NEW i \in 0..32
    PROVE  i \in PtsOf(header) <=> Position(i) \in header
<1> DEFINE top == Shl(Byte(header, 9) \cap (1..3), 29)
           middle == Shl(GetUInt16(header, 10) \cap (1..15), 14)
           low == Shr(GetUInt16(header, 12), 1)
<1>1. i \in PtsOf(header) <=> i \in top \/ i \in middle \/ i \in low
  BY DEF PtsOf, Cast
<1>2. i \in top <=> i >= 30 /\ <<9, i - 29>> \in header
  <2>1. i \in top <=> \E j \in Byte(header, 9) \cap (1..3) : i = j + 29
    BY DEF Shl
  <2>2. \A j \in 1..3 : j \in Byte(header, 9) <=> <<9, j>> \in header
    BY DEF Byte
  <2> HIDE DEF top
  <2> QED  BY <2>1, <2>2
<1>3. ASSUME NEW k \in Nat, NEW bit \in Int
      PROVE  bit \in GetUInt16(header, k) <=>
               \/ bit \in 8..15 /\ <<k, bit - 8>> \in header
               \/ bit \in 0..7 /\ <<k + 1, bit>> \in header
  <2>1. bit \in GetUInt16(header, k) <=>
          \/ \E j \in 0..7 : <<k, j>> \in header /\ bit = j + 8
          \/ bit \in 0..7 /\ <<k + 1, bit>> \in header
    BY DEF GetUInt16, Shl, Byte
  <2> QED  BY <2>1
<1>4. i \in middle <=>
        \/ i \in 22..29 /\ <<10, i - 22>> \in header
        \/ i \in 15..21 /\ <<11, i - 14>> \in header
  <2>1. i \in middle <=> i - 14 \in 1..15 /\ i - 14 \in GetUInt16(header, 10)
    BY DEF Shl
  <2> HIDE DEF middle
  <2> QED  BY <2>1, <1>3
<1>5. i \in low <=>
        \/ i \in 7..14 /\ <<12, i - 7>> \in header
        \/ i \in 0..6 /\ <<13, i + 1>> \in header
  <2>1. ASSUME NEW bit \in GetUInt16(header, 12)  PROVE  bit \in 0..15
    <3>1. Byte(header, 12) \subseteq 0..7 /\ Byte(header, 13) \subseteq 0..7
      BY DEF Byte
    <3>2. CASE bit \in Shl(Byte(header, 12), 8)
      BY <3>1, <3>2 DEF Shl
    <3>3. CASE bit \in Byte(header, 13)
      BY <3>1, <3>3
    <3> QED  BY <2>1, <3>2, <3>3 DEF GetUInt16
  <2>2. i \in low <=> i + 1 \in GetUInt16(header, 12)
    BY <2>1 DEF Shr
  <2> HIDE DEF low
  <2> QED  BY <2>2, <1>3
<1> HIDE DEF top, middle, low
<1> QED  BY <1>1, <1>2, <1>4, <1>5 DEF Position

\* What the code checks of flags, prefix and markers, bit by bit.
Accepted(header) ==
    /\ <<7, 7>> \in header
    /\ <<9, 4>> \in header <=> <<7, 6>> \in header
    /\ <<9, 5>> \in header
    /\ <<9, 6>> \notin header /\ <<9, 7>> \notin header
    /\ <<9, 0>> \in header /\ <<11, 0>> \in header /\ <<13, 0>> \in header

LEMMA ChecksBitByBit ==
    ASSUME NEW header
    PROVE  (PtsDtsFlags(header) \in {{7}, {6, 7}} /\ FieldIsSound(header)) <=> Accepted(header)
<1> DEFINE flags == PtsDtsFlags(header)
           prefix == Byte(header, 9) \cap {0, 4, 5, 6, 7}
<1>1. /\ flags = {7} <=> <<7, 7>> \in header /\ <<7, 6>> \notin header
      /\ flags = {6, 7} <=> <<7, 7>> \in header /\ <<7, 6>> \in header
  <2>1. flags \subseteq {6, 7}
    BY DEF PtsDtsFlags
  <2>2. 6 \in flags <=> <<7, 6>> \in header
    BY DEF PtsDtsFlags, Byte
  <2>3. 7 \in flags <=> <<7, 7>> \in header
    BY DEF PtsDtsFlags, Byte
  <2> HIDE DEF flags
  <2>4. ASSUME 7 \in flags, 6 \notin flags  PROVE  flags = {7}
    BY <2>1, <2>4
  <2>5. ASSUME 7 \in flags, 6 \in flags  PROVE  flags = {6, 7}
    BY <2>1, <2>5
  <2> QED  BY <2>2, <2>3, <2>4, <2>5
<1>2. \A bit \in {0, 4, 5, 6, 7} : bit \in prefix <=> <<9, bit>> \in header
  BY DEF Byte
<1>3. prefix \subseteq {0, 4, 5, 6, 7}
  OBVIOUS
<1>4. 0 \in Byte(header, 11) <=> <<11, 0>> \in header
  BY DEF Byte
<1>5. 0 \in Byte(header, 13) <=> <<13, 0>> \in header
  BY DEF Byte
<1>6. FieldIsSound(header) <=>
        /\ flags = {7} => prefix = {0, 5}
        /\ flags = {6, 7} => prefix = {0, 4, 5}
        /\ 0 \in Byte(header, 11)
        /\ 0 \in Byte(header, 13)
  BY DEF FieldIsSound
<1>7. /\ prefix = {0, 5} <=> 0 \in prefix /\ 5 \in prefix /\ 4 \notin prefix
                              /\ 6 \notin prefix /\ 7 \notin prefix
      /\ prefix = {0, 4, 5} <=> 0 \in prefix /\ 5 \in prefix /\ 4 \in prefix
                                 /\ 6 \notin prefix /\ 7 \notin prefix
  <2> HIDE DEF prefix
  <2>1. ASSUME 0 \in prefix, 5 \in prefix, 4 \notin prefix, 6 \notin prefix, 7 \notin prefix
        PROVE  prefix = {0, 5}
    BY <1>3, <2>1
  <2>2. ASSUME 0 \in prefix, 5 \in prefix, 4 \in prefix, 6 \notin prefix, 7 \notin prefix
        PROVE  prefix = {0, 4, 5}
    BY <1>3, <2>2
  <2>3. /\ prefix = {0, 5} => 0 \in prefix /\ 5 \in prefix /\ 4 \notin prefix
                              /\ 6 \notin prefix /\ 7 \notin prefix
        /\ prefix = {0, 4, 5} => 0 \in prefix /\ 5 \in prefix /\ 4 \in prefix
                                 /\ 6 \notin prefix /\ 7 \notin prefix
    OBVIOUS
  <2> QED  BY <2>1, <2>2, <2>3
<1> HIDE DEF flags, prefix
<1>8. flags \in {{7}, {6, 7}} <=> flags = {7} \/ flags = {6, 7}
  OBVIOUS
<1> QED  BY <1>1, <1>2, <1>4, <1>5, <1>6, <1>7, <1>8 DEF Accepted, flags

\* No bit of the PTS stands where flags, prefix and markers do.
LEMMA PositionsAreApart ==
    /\ \A i \in 0..32 : Position(i) \notin Protected
    /\ \A i, j \in 0..32 : Position(i) = Position(j) => i = j
<1>1. \A i \in 0..32 :
        \/ i >= 30 /\ Position(i) = <<9, i - 29>>
        \/ i \in 22..29 /\ Position(i) = <<10, i - 22>>
        \/ i \in 15..21 /\ Position(i) = <<11, i - 14>>
        \/ i \in 7..14 /\ Position(i) = <<12, i - 7>>
        \/ i <= 6 /\ Position(i) = <<13, i + 1>>
  BY DEF Position
<1>2. Protected = {<<7, 7>>, <<7, 6>>, <<9, 4>>, <<9, 5>>, <<9, 6>>, <<9, 7>>,
                  <<9, 0>>, <<11, 0>>, <<13, 0>>}
  BY DEF Protected, FlagBits, PrefixBits, Markers
<1>3. ASSUME NEW i \in 0..32  PROVE Position(i) \notin Protected
  <2>1. CASE i >= 30
    BY <2>1, <1>1, <1>2
  <2>2. CASE i < 30
    BY <2>2, <1>1, <1>2
  <2> QED  BY <2>1, <2>2
<1>4. ASSUME NEW i \in 0..32, NEW j \in 0..32, Position(i) = Position(j)  PROVE i = j
  BY <1>1, <1>4
<1> QED  BY <1>3, <1>4

\* Of the bits that matter, the header has those of the PTS and of flags, prefix and markers,
\* except for the damaged one, of which there is at most one.
Matters == Protected \cup {Position(i) : i \in 0..32}
PtsInv ==
    /\ pts \in SUBSET (0..32)
    /\ \A bit, other \in damaged : bit = other
    /\ \E with_dts \in BOOLEAN : \A bit \in Matters :
          (bit \in packet.header) = ((bit \in Encoded(pts, with_dts, {})) # (bit \in damaged))

LEMMA InitPtsInv == PesInit => PtsInv
<1> SUFFICES ASSUME PesInit  PROVE PtsInv
  OBVIOUS
<1>1. PICK with_dts \in BOOLEAN, others \in {{}, {<<7, 0>>, <<8, 3>>}} :
        packet.header = Encoded(pts, with_dts, others)
  BY DEF PesInit
<1>2. <<7, 0>> \notin Matters /\ <<8, 3>> \notin Matters
  <2>1. \A i \in 0..32 : Position(i) # <<7, 0>> /\ Position(i) # <<8, 3>>
    BY DEF Position
  <2> QED  BY <2>1 DEF Matters, Protected, FlagBits, PrefixBits, Markers
<1>3. \A bit \in Matters : bit \in Encoded(pts, with_dts, others) <=>
                           bit \in Encoded(pts, with_dts, {})
  BY <1>2 DEF Encoded
<1> QED  BY <1>1, <1>3, PtssAssumption DEF PesInit, PtsInv

LEMMA NextPtsInv == PtsInv /\ [PesNext]_pesVars => PtsInv'
<1> SUFFICES ASSUME PtsInv, [PesNext]_pesVars  PROVE PtsInv'
  OBVIOUS
<1>1. ASSUME NEW bit, Damage(bit)  PROVE PtsInv'
  <2>1. PICK with_dts \in BOOLEAN : \A b \in Matters :
          (b \in packet.header) = ((b \in Encoded(pts, with_dts, {})) # (b \in damaged))
    BY DEF PtsInv
  <2>2. packet' = [packet EXCEPT !.header = (@ \ {bit}) \cup ({bit} \ @)]
    BY <1>1 DEF Damage
  <2>3. packet'.header = (packet.header \ {bit}) \cup ({bit} \ packet.header)
    BY <2>2 DEF PtsInv
  <2> QED  BY <1>1, <2>1, <2>3 DEF PtsInv, Damage
<1>2. CASE UNCHANGED pesVars
  BY <1>2 DEF PtsInv, pesVars
<1> QED  BY <1>1, <1>2 DEF PesNext

LEMMA PtsInvReadsBack == PtsInv => PtsIsReadBack
<1> SUFFICES ASSUME PtsInv  PROVE PtsIsReadBack
  OBVIOUS
<1> DEFINE header == packet.header
           flipped == damaged \cap Protected
<1>1. PICK with_dts \in BOOLEAN : \A bit \in Matters :
        (bit \in header) = ((bit \in Encoded(pts, with_dts, {})) # (bit \in damaged))
  BY DEF PtsInv
<1>2. \A bit \in Protected : bit \in Encoded(pts, with_dts, {}) <=> bit \in Sealed(with_dts)
  BY PositionsAreApart DEF Encoded, PtsInv
<1>3. \A i \in 0..32 : Position(i) \in Encoded(pts, with_dts, {}) <=> i \in pts
  <2>1. \A i \in 0..32 : Position(i) \notin Sealed(with_dts)
    BY PositionsAreApart DEF Sealed, Protected, FlagBits, PrefixBits, Markers
  <2> QED  BY <2>1, PositionsAreApart DEF Encoded, PtsInv
<1>4. PtsDtsFlags(header) \in {{7}, {6, 7}} /\ FieldIsSound(header) <=> flipped = {}
  <2> DEFINE Bit(b) == b \in header
             Was(b) == b \in Sealed(with_dts)
  <2>1. \A b \in Protected : Bit(b) <=> ~(Was(b) <=> b \in flipped)
    BY <1>1, <1>2 DEF Matters
  <2>2. Protected = {<<7, 7>>, <<7, 6>>, <<9, 4>>, <<9, 5>>, <<9, 6>>, <<9, 7>>,
                     <<9, 0>>, <<11, 0>>, <<13, 0>>}
    BY DEF Protected, FlagBits, PrefixBits, Markers
  <2>3. /\ Was(<<7, 7>>) /\ Was(<<9, 5>>)
        /\ Was(<<9, 0>>) /\ Was(<<11, 0>>) /\ Was(<<13, 0>>)
        /\ Was(<<7, 6>>) <=> with_dts
        /\ Was(<<9, 4>>) <=> with_dts
        /\ ~Was(<<9, 6>>) /\ ~Was(<<9, 7>>)
    BY DEF Sealed, Markers
  <2>4. \A bit, other \in flipped : bit = other
    BY DEF PtsInv
  <2>5. flipped \subseteq Protected
    OBVIOUS
  <2> HIDE DEF Bit, Was, flipped, header
  <2>6. Accepted(header) => flipped = {}
    <3> SUFFICES ASSUME Accepted(header), NEW b \in flipped  PROVE FALSE
      OBVIOUS
    <3>1. \A c \in Protected : c \in flipped <=> c = b
      BY <2>4, <2>5
    <3>2. CASE b = <<7, 6>> \/ b = <<9, 4>>
      BY <3>1, <3>2, <2>1, <2>2, <2>3 DEF Accepted, Bit
    <3>3. CASE b \in Protected \ {<<7, 6>>, <<9, 4>>}
      BY <3>1, <3>3, <2>1, <2>2, <2>3 DEF Accepted, Bit
    <3> QED  BY <2>5, <3>2, <3>3
  <2>7. flipped = {} => Accepted(header)
    BY <2>1, <2>2, <2>3 DEF Accepted, Bit
  <2> QED  BY <2>6, <2>7, ChecksBitByBit
<1>5. PtsOf(header) = (pts \ {i \in pts : Position(i) \in damaged})
                        \cup {i \in (0..32) \ pts : Position(i) \in damaged}
  <2>1. PtsOf(header) \subseteq 0..32
    BY DEF PtsOf, Cast
  <2>2. pts \subseteq 0..32
    BY DEF PtsInv
  <2>3. ASSUME NEW i \in 0..32
        PROVE  i \in PtsOf(header) <=> ~(i \in pts <=> Position(i) \in damaged)
    BY <1>1, <1>3, BitsAreInPlace DEF Matters
  <2> QED  BY <2>1, <2>2, <2>3
<1> QED  BY <1>4, <1>5 DEF PtsIsReadBack, ParsePesPts, HasField

\* Whatever the PTS (all of Ptss, which may be all 2^33), it is read back bit for bit, and
\* a damaged bit of flags, prefix or markers makes it none.
THEOREM EveryPtsIsReadBack == PesSpec => []PtsIsReadBack
<1>1. PesInit => PtsInv  BY InitPtsInv
<1>2. PtsInv /\ [PesNext]_pesVars => PtsInv'  BY NextPtsInv
<1>3. PtsInv => PtsIsReadBack  BY PtsInvReadsBack
<1> QED  BY <1>1, <1>2, <1>3, PTL DEF PesSpec

-----------------------------------------------------------------------------
(* OutputRecords: the times of an event.                                   *)

\* What TimesAreAsBroadcast says of one event and its line.
TimesOf(line, event) ==
    LET unix == event.start_time - UnixEpoch
    IN  /\ line.startTime =
             IF unix < JstOffset THEN Null ELSE [date |-> unix \div 24, time |-> unix % 24]
        /\ line.durationSec \in {event.duration, Null}
        /\ line.durationSec = Null <=> event.duration \notin 0..MaxUint32

Records == Captions \cup Diagnostics \cup {EitRecord(event) : event \in Events}
Lines == {ToJsonLine(record) : record \in Records}

\* The inductive invariant: the lines and the events they are of grow together, and each
\* line of an event has its times.
TimesInv ==
    /\ stream_ \in Seq(Lines) /\ broadcast \in Seq(Events \cup {None})
    /\ Len(stream_) = Len(broadcast)
    /\ \A i \in 1..Len(broadcast) : broadcast[i] # None => TimesOf(stream_[i], broadcast[i])

\* The offset to UTC that ParseEit takes off, the formatter adds again: what is left is
\* the start as broadcast.  Nothing is left of a start with no Unix time.
LEMMA StartIsAsBroadcast ==
    ASSUME NEW event \in Events
    PROVE  AddOptionalRfc3339(JstTimeToUnixMs(event.start_time)) =
             LET unix == event.start_time - UnixEpoch
             IN  IF unix < JstOffset THEN Null ELSE [date |-> unix \div 24, time |-> unix % 24]
<1> DEFINE start == event.start_time
           unix == start - UnixEpoch
<1>1. start \in Nat /\ UnixEpoch \in Nat /\ UnixEpoch > 0 /\ unix \in Int /\ None \notin Int
  BY EventsAssumption, UnixEpochAssumption, NoneAssumption
<1>2. CASE unix < JstOffset
  <2>1. JstTimeToUnixMs(start) = None
    BY <1>1, <1>2 DEF JstTimeToUnixMs, JstOffset
  <2> QED BY <1>2, <2>1 DEF AddOptionalRfc3339
<1>3. CASE ~(unix < JstOffset)
  <2>1. start # 0 /\ ~((start - JstOffset) < UnixEpoch)
    BY <1>1, <1>3 DEF JstOffset
  <2>2. JstTimeToUnixMs(start) = (start - JstOffset) - UnixEpoch
    BY <2>1 DEF JstTimeToUnixMs
  <2>3. /\ JstTimeToUnixMs(start) # None
        /\ JstTimeToUnixMs(start) + JstOffset = unix
    BY <1>1, <2>2 DEF JstOffset
  <2>4. AddOptionalRfc3339(JstTimeToUnixMs(start)) = [date |-> unix \div 24, time |-> unix % 24]
    BY <2>3 DEF AddOptionalRfc3339, UnixMsToRfc3339Jst
  <2> QED BY <1>3, <2>4
<1> QED BY <1>2, <1>3

\* A duration is shown as it is, or as null if a uint32_t does not hold it.
LEMMA DurationIsAsBroadcast ==
    ASSUME NEW event \in Events
    PROVE  LET shown == AddOptional(DurationSec(event.duration))
           IN  /\ shown \in {event.duration, Null}
               /\ shown = Null <=> event.duration \notin 0..MaxUint32
<1>1. event.duration \in Int /\ None \notin Int /\ Null \notin Int
  BY EventsAssumption, NoneAssumption
<1>2. CASE event.duration \in 0..MaxUint32
  <2>1. AddOptional(DurationSec(event.duration)) = event.duration
    BY <1>1, <1>2 DEF DurationSec, AddOptional
  <2> QED BY <1>1, <1>2, <2>1
<1>3. CASE event.duration \notin 0..MaxUint32
  <2>1. AddOptional(DurationSec(event.duration)) = Null
    BY <1>3 DEF DurationSec, AddOptional
  <2> QED BY <1>3, <2>1
<1> QED BY <1>2, <1>3

\* So the line of an event has its times.
LEMMA LineHasTimes ==
    ASSUME NEW event \in Events
    PROVE  TimesOf(ToJsonLine(EitRecord(event)), event)
<1> DEFINE record == EitRecord(event)
           line == ToJsonLine(record)
<1>1. /\ record.type = "eit"
      /\ record.start_time_ms = JstTimeToUnixMs(event.start_time)
      /\ record.duration_sec = DurationSec(event.duration)
  BY DEF EitRecord
<1> HIDE DEF record
<1>2. /\ line.startTime = AddOptionalRfc3339(record.start_time_ms)
      /\ line.durationSec = AddOptional(record.duration_sec)
  BY <1>1 DEF ToJsonLine
<1> HIDE DEF line
<1>3. TimesOf(line, event)
  BY <1>1, <1>2, StartIsAsBroadcast, DurationIsAsBroadcast DEF TimesOf
<1> QED BY <1>3 DEF line, record

\* One more record leaves the lines before it alone.
LEMMA EmitKeepsTimes ==
    ASSUME TimesInv, NEW record \in Records, NEW event \in Events \cup {None},
           event # None => record = EitRecord(event), Emit(record, event)
    PROVE  TimesInv'
<1> DEFINE line == ToJsonLine(record)
           n == Len(broadcast)
<1>1. /\ line \in Lines /\ stream_' = Append(stream_, line)
      /\ broadcast' = Append(broadcast, event)
  BY DEF Emit, Lines
<1>2. event # None => TimesOf(line, event)
  BY LineHasTimes
<1> HIDE DEF line
<1>3. /\ n \in Nat
      /\ stream_' \in Seq(Lines) /\ broadcast' \in Seq(Events \cup {None})
      /\ Len(stream_') = n + 1 /\ Len(broadcast') = n + 1
      /\ stream_'[n + 1] = line /\ broadcast'[n + 1] = event
      /\ \A i \in 1..n : stream_'[i] = stream_[i] /\ broadcast'[i] = broadcast[i]
  BY <1>1, AppendProperties DEF TimesInv
<1>4. ASSUME NEW i \in 1..Len(broadcast'), broadcast'[i] # None
      PROVE  TimesOf(stream_'[i], broadcast'[i])
  <2>1. CASE i = n + 1
    BY <1>2, <1>3, <1>4, <2>1
  <2>2. CASE i \in 1..n
    BY <1>3, <1>4, <2>2 DEF TimesInv
  <2> QED BY <1>3, <2>1, <2>2
<1> QED BY <1>3, <1>4 DEF TimesInv

\* For every epoch, every start in JST, whether or not there is a Unix time for it, and
\* every duration: the line of an event shows them as broadcast, or null.
THEOREM TimesReachTheOutput ==
    RecordInit /\ [][RecordNext]_recordVars => []TimesAreAsBroadcast
<1>1. RecordInit => TimesInv
  <2> SUFFICES ASSUME RecordInit PROVE TimesInv
    OBVIOUS
  <2>1. stream_ = << >> /\ broadcast = << >>
    BY DEF RecordInit
  <2> QED BY <2>1, EmptySeq DEF TimesInv
<1>2. TimesInv /\ [RecordNext]_recordVars => TimesInv'
  <2> SUFFICES ASSUME TimesInv, [RecordNext]_recordVars PROVE TimesInv'
    OBVIOUS
  <2>1. ASSUME NEW record \in Captions \cup Diagnostics, Emit(record, None)
        PROVE  TimesInv'
    BY <2>1, EmitKeepsTimes DEF Records
  <2>2. ASSUME NEW event \in Events, Emit(EitRecord(event), event)
        PROVE  TimesInv'
    <3>1. EitRecord(event) \in Records
      BY DEF Records
    <3> QED BY <2>2, <3>1, EmitKeepsTimes
  <2>3. CASE UNCHANGED recordVars
    BY <2>3 DEF recordVars, TimesInv
  <2> QED BY <2>1, <2>2, <2>3 DEF RecordNext
<1>3. TimesInv => TimesAreAsBroadcast
  BY DEF TimesInv, TimesAreAsBroadcast, TimesOf
<1> QED BY <1>1, <1>2, <1>3, PTL

-----------------------------------------------------------------------------
(* OutputRecords: no two records show as one line.                         *)

\* A time is found again from its date and time of day.
LEMMA TimesShowApart ==
    ASSUME NEW a \in Nat \cup {None}, NEW b \in Nat \cup {None},
           AddOptionalRfc3339(a) = AddOptionalRfc3339(b)
    PROVE  a = b
<1>1. ASSUME NEW t \in Nat
      PROVE  /\ AddOptionalRfc3339(t) = UnixMsToRfc3339Jst(t)
             /\ UnixMsToRfc3339Jst(t).date = (t + 9) \div 24
             /\ UnixMsToRfc3339Jst(t).time = (t + 9) % 24
             /\ UnixMsToRfc3339Jst(t) \in [date : Int, time : Int]
  BY NoneAssumption DEF AddOptionalRfc3339, UnixMsToRfc3339Jst, JstOffset
<1>2. AddOptionalRfc3339(None) = Null
  BY DEF AddOptionalRfc3339
<1>3. CASE a \in Nat /\ b \in Nat
  <2>1. (a + 9) \div 24 = (b + 9) \div 24 /\ (a + 9) % 24 = (b + 9) % 24
    BY <1>1, <1>3
  <2> QED BY <1>3, <2>1
<1>4. CASE a = None \/ b = None
  BY <1>1, <1>2, <1>4, NoneAssumption
<1> QED BY <1>3, <1>4

\* An optional value that is never null is found again.
LEMMA OptionalsShowApart ==
    ASSUME NEW a, NEW b, a = None \/ a # Null, b = None \/ b # Null,
           AddOptional(a) = AddOptional(b)
    PROVE  a = b
BY DEF AddOptional

LEMMA CaptionsShowApart ==
    ASSUME NEW a \in Captions, NEW b \in Captions, ToJsonLine(a) = ToJsonLine(b)
    PROVE  a = b
<1>1. ASSUME NEW r \in Captions
      PROVE  /\ r = [type |-> "caption", time_ms |-> r.time_ms, text |-> r.text, ruby |-> r.ruby,
                     color |-> r.color, language_code |-> r.language_code]
             /\ r.type = "caption" /\ r.time_ms \in Nat \cup {None}
             /\ r.color # Null /\ r.language_code # Null
  BY CaptionsAssumption
<1>2. ASSUME NEW r \in Captions
      PROVE  ToJsonLine(r) =
               [type |-> "caption", time |-> AddOptionalRfc3339(r.time_ms),
                text |-> r.text, ruby |-> r.ruby, color |-> AddOptional(r.color),
                languageCode |-> AddOptional(r.language_code)]
  BY <1>1 DEF ToJsonLine
<1>3. /\ AddOptionalRfc3339(a.time_ms) = AddOptionalRfc3339(b.time_ms)
      /\ a.text = b.text /\ a.ruby = b.ruby /\ AddOptional(a.color) = AddOptional(b.color)
      /\ AddOptional(a.language_code) = AddOptional(b.language_code)
  BY <1>2
<1>4. a.time_ms = b.time_ms /\ a.color = b.color /\ a.language_code = b.language_code
  BY <1>1, <1>3, TimesShowApart, OptionalsShowApart
<1> QED BY <1>1, <1>3, <1>4

LEMMA DiagnosticsShowApart ==
    ASSUME NEW a \in Diagnostics, NEW b \in Diagnostics, ToJsonLine(a) = ToJsonLine(b)
    PROVE  a = b
<1>1. ASSUME NEW r \in Diagnostics PROVE r.type = "diagnostic"
  BY DiagnosticsAssumption
<1>2. ASSUME NEW r \in Diagnostics PROVE ToJsonLine(r) = DiagnosticToJson(r)
  BY <1>1 DEF ToJsonLine
<1>3. ASSUME NEW r \in Diagnostics PROVE DiagnosticToJson(r) = r
  BY DiagnosticsAssumption DEF DiagnosticToJson
<1> QED BY <1>2, <1>3

\* Texts and genres are found again entry by entry.
LEMMA ListsShowApart ==
    ASSUME NEW a \in Events, NEW b \in Events,
           ShortEventsToJson(a.short_events) = ShortEventsToJson(b.short_events),
           GenresToJson(a.genres) = GenresToJson(b.genres)
    PROVE  a.short_events = b.short_events /\ a.genres = b.genres
<1> DEFINE f == a.short_events
           g == b.short_events
           Short(s) == [i \in DOMAIN s |->
                          [event_name |-> s[i].event_name, text |-> s[i].text,
                           language_code |-> s[i].language_code]]
<1>1. f = Short(f) /\ g = Short(g)
  BY ListsAssumption
<1>2. ShortEventsToJson(f) = ShortEventsToJson(g)
  OBVIOUS
<1> HIDE DEF f, g
<1>3. DOMAIN f = DOMAIN g
  <2>1. DOMAIN ShortEventsToJson(f) = DOMAIN f /\ DOMAIN ShortEventsToJson(g) = DOMAIN g
    BY DEF ShortEventsToJson
  <2> QED BY <1>2, <2>1
<1>4. ASSUME NEW i \in DOMAIN f
      PROVE  /\ f[i].event_name = g[i].event_name /\ f[i].text = g[i].text
             /\ f[i].language_code = g[i].language_code
  <2>1. ShortEventsToJson(f)[i] = ShortEventsToJson(g)[i] /\ i \in DOMAIN g
    BY <1>2, <1>3
  <2>2. ASSUME NEW s, i \in DOMAIN s
        PROVE  /\ ShortEventsToJson(s)[i].eventName = s[i].event_name
               /\ ShortEventsToJson(s)[i].text = s[i].text
               /\ ShortEventsToJson(s)[i].languageCode = s[i].language_code
    BY <2>2 DEF ShortEventsToJson
  <2> QED BY <2>1, <2>2
<1>5. Short(f) = Short(g)
  BY <1>3, <1>4
<1>6. f = g
  <2> HIDE DEF Short
  <2> QED BY <1>1, <1>5
<1> DEFINE h == a.genres
           k == b.genres
           Genres(s) == [i \in DOMAIN s |-> <<s[i][1], s[i][2], s[i][3], s[i][4]>>]
<1>7. h = Genres(h) /\ k = Genres(k)
  BY ListsAssumption
<1>8. GenresToJson(h) = GenresToJson(k)
  OBVIOUS
<1> HIDE DEF h, k
<1>9. DOMAIN h = DOMAIN k
  <2>1. DOMAIN GenresToJson(h) = DOMAIN h /\ DOMAIN GenresToJson(k) = DOMAIN k
    BY DEF GenresToJson
  <2> QED BY <1>8, <2>1
<1>10. ASSUME NEW i \in DOMAIN h
       PROVE  /\ h[i][1] = k[i][1] /\ h[i][2] = k[i][2] /\ h[i][3] = k[i][3]
              /\ h[i][4] = k[i][4]
  <2>1. GenresToJson(h)[i] = GenresToJson(k)[i] /\ i \in DOMAIN k
    BY <1>8, <1>9
  <2>2. ASSUME NEW s, i \in DOMAIN s
        PROVE  /\ GenresToJson(s)[i].contentNibbleLevel1 = s[i][1]
               /\ GenresToJson(s)[i].contentNibbleLevel2 = s[i][2]
               /\ GenresToJson(s)[i].userNibble1 = s[i][3]
               /\ GenresToJson(s)[i].userNibble2 = s[i][4]
    BY <2>2 DEF GenresToJson
  <2> QED BY <2>1, <2>2
<1>11. Genres(h) = Genres(k)
  BY <1>9, <1>10
<1>12. h = k
  <2> HIDE DEF Genres
  <2> QED BY <1>7, <1>11
<1> QED BY <1>6, <1>12 DEF f, g, h, k

\* What ParseEit takes over is a time that can be formatted, or none.
LEMMA EventTimes ==
    ASSUME NEW event \in Events
    PROVE  /\ JstTimeToUnixMs(event.start_time) \in Nat \cup {None}
           /\ DurationSec(event.duration) = None \/ DurationSec(event.duration) # Null
<1>1. event.start_time \in Nat /\ event.duration \in Int /\ UnixEpoch \in Nat
  BY EventsAssumption, UnixEpochAssumption
<1>2. JstTimeToUnixMs(event.start_time) \in Nat \cup {None}
  BY <1>1 DEF JstTimeToUnixMs, JstOffset
<1>3. DurationSec(event.duration) = None \/ DurationSec(event.duration) # Null
  BY <1>1, NoneAssumption DEF DurationSec
<1> QED BY <1>2, <1>3

LEMMA EventsShowApart ==
    ASSUME NEW a \in Events, NEW b \in Events,
           ToJsonLine(EitRecord(a)) = ToJsonLine(EitRecord(b))
    PROVE  EitRecord(a) = EitRecord(b)
<1>1. ASSUME NEW event \in Events
      PROVE  ToJsonLine(EitRecord(event)) =
               [type |-> "eit",
                startTime |-> AddOptionalRfc3339(JstTimeToUnixMs(event.start_time)),
                durationSec |-> AddOptional(DurationSec(event.duration)),
                shortEvents |-> ShortEventsToJson(event.short_events),
                extendedText |-> event.extended_text, genres |-> GenresToJson(event.genres),
                section |-> SectionToString(event.section), version |-> event.version,
                serviceId |-> event.service_id, transportStreamId |-> event.ts_id,
                originalNetworkId |-> event.onetw_id, eventId |-> event.event_id]
  BY DEF EitRecord, ToJsonLine
<1>2. /\ AddOptionalRfc3339(JstTimeToUnixMs(a.start_time)) =
            AddOptionalRfc3339(JstTimeToUnixMs(b.start_time))
      /\ AddOptional(DurationSec(a.duration)) = AddOptional(DurationSec(b.duration))
      /\ ShortEventsToJson(a.short_events) = ShortEventsToJson(b.short_events)
      /\ GenresToJson(a.genres) = GenresToJson(b.genres)
      /\ SectionToString(a.section) = SectionToString(b.section)
      /\ a.extended_text = b.extended_text /\ a.version = b.version
      /\ a.service_id = b.service_id /\ a.ts_id = b.ts_id /\ a.onetw_id = b.onetw_id
      /\ a.event_id = b.event_id
  BY <1>1
<1>3. JstTimeToUnixMs(a.start_time) = JstTimeToUnixMs(b.start_time)
  BY <1>2, EventTimes, TimesShowApart
<1>4. DurationSec(a.duration) = DurationSec(b.duration)
  BY <1>2, EventTimes, OptionalsShowApart
<1>5. a.short_events = b.short_events /\ a.genres = b.genres
  BY <1>2, ListsShowApart
<1>6. a.section = b.section
  BY <1>2, EventsAssumption DEF SectionToString
<1> QED BY <1>2, <1>3, <1>4, <1>5, <1>6 DEF EitRecord

LEMMA RecordsShowApart ==
    ASSUME NEW a \in Records, NEW b \in Records, ToJsonLine(a) = ToJsonLine(b)
    PROVE  a = b
<1>1. ASSUME NEW r \in Records
      PROVE  ToJsonLine(r).type = r.type
             /\ \/ r \in Captions /\ r.type = "caption"
                \/ r \in Diagnostics /\ r.type = "diagnostic"
                \/ r.type = "eit" /\ \E event \in Events : r = EitRecord(event)
  <2>1. CASE r \in Captions
    <3>1. r.type = "caption"
      BY <2>1, CaptionsAssumption
    <3> QED BY <2>1, <3>1 DEF ToJsonLine
  <2>2. CASE r \in Diagnostics
    <3>1. r.type = "diagnostic"
      BY <2>2, DiagnosticsAssumption
    <3> QED BY <2>2, <3>1 DEF ToJsonLine, DiagnosticToJson
  <2>3. CASE \E event \in Events : r = EitRecord(event)
    <3>1. r.type = "eit"
      BY <2>3 DEF EitRecord
    <3> QED BY <2>3, <3>1 DEF ToJsonLine
  <2> QED BY <2>1, <2>2, <2>3 DEF Records
<1>2. a.type = b.type
  BY <1>1
<1> QED BY <1>1, <1>2, CaptionsShowApart, DiagnosticsShowApart, EventsShowApart

\* Both sinks have been given the same records.
LinesInv ==
    /\ records_ \in Seq(Records) /\ stream_ \in Seq(Lines)
    /\ Len(records_) = Len(stream_)
    /\ \A i \in 1..Len(records_) : stream_[i] = ToJsonLine(records_[i])

\* Whatever the captions, events and diagnostics: two lines are only the same if their
\* records are.
THEOREM LinesKeepRecordsApart ==
    RecordInit /\ [][RecordNext]_recordVars => []LinesTellRecordsApart
<1>1. RecordInit => LinesInv
  BY EmptySeq DEF RecordInit, LinesInv
<1>2. LinesInv /\ [RecordNext]_recordVars => LinesInv'
  <2> SUFFICES ASSUME LinesInv, [RecordNext]_recordVars PROVE LinesInv'
    OBVIOUS
  <2>1. ASSUME NEW record \in Records, NEW event, Emit(record, event)
        PROVE  LinesInv'
    <3> DEFINE line == ToJsonLine(record)
               n == Len(records_)
    <3>1. /\ line \in Lines /\ stream_' = Append(stream_, line)
          /\ records_' = Append(records_, record)
      BY <2>1 DEF Emit, Lines
    <3> HIDE DEF line
    <3>2. /\ n \in Nat /\ stream_' \in Seq(Lines) /\ records_' \in Seq(Records)
          /\ Len(stream_') = n + 1 /\ Len(records_') = n + 1
          /\ stream_'[n + 1] = line /\ records_'[n + 1] = record
          /\ \A i \in 1..n : stream_'[i] = stream_[i] /\ records_'[i] = records_[i]
      BY <2>1, <3>1, AppendProperties DEF LinesInv
    <3>3. ASSUME NEW i \in 1..Len(records_')
          PROVE  stream_'[i] = ToJsonLine(records_'[i])
      <4>1. CASE i = n + 1
        BY <3>2, <4>1 DEF line
      <4>2. CASE i \in 1..n
        BY <3>2, <4>2 DEF LinesInv
      <4> QED BY <3>2, <4>1, <4>2
    <3> QED BY <3>2, <3>3 DEF LinesInv
  <2>2. ASSUME NEW record \in Captions \cup Diagnostics, Emit(record, None)
        PROVE  LinesInv'
    BY <2>1, <2>2 DEF Records
  <2>3. ASSUME NEW event \in Events, Emit(EitRecord(event), event)
        PROVE  LinesInv'
    <3>1. EitRecord(event) \in Records
      BY DEF Records
    <3> QED BY <2>1, <2>3, <3>1
  <2>4. CASE UNCHANGED recordVars
    BY <2>4 DEF recordVars, LinesInv
  <2> QED BY <2>2, <2>3, <2>4 DEF RecordNext
<1>3. LinesInv => LinesTellRecordsApart
  <2> SUFFICES ASSUME LinesInv, NEW i \in DOMAIN stream_, NEW j \in DOMAIN stream_,
                      stream_[i] = stream_[j]
               PROVE  records_[i] = records_[j]
    BY DEF LinesTellRecordsApart
  <2>1. i \in 1..Len(records_) /\ j \in 1..Len(records_)
    BY DEF LinesInv
  <2>2. records_[i] \in Records /\ records_[j] \in Records
    BY <2>1 DEF LinesInv
  <2>3. ToJsonLine(records_[i]) = ToJsonLine(records_[j])
    BY <2>1 DEF LinesInv
  <2> QED BY <2>2, <2>3, RecordsShowApart
<1> QED BY <1>1, <1>2, <1>3, PTL

-----------------------------------------------------------------------------
(* EventText: the loops of the parser, which are folds, add one thing at a *)
(* time, so that each step of the broadcaster is one step of theirs.       *)

\* The fold that collects the items, and its steps.
PushAll(base, seq) == FoldLeft(PushParsedExtendedEventItem, base, seq)

PushClosed(Acc, E) == \A a \in Acc, e \in E : PushParsedExtendedEventItem(a, e) \in Acc

PushSteps(seq, Acc) ==
    [i \in 1..Len(seq) |-> [a \in Acc |-> PushParsedExtendedEventItem(a, seq[i])]]

\* It takes the steps one after the other.
LEMMA PushTrace ==
    ASSUME NEW Acc, NEW E, NEW base \in Acc, NEW seq \in Seq(E),
           PushClosed(Acc, E)
    PROVE  \E t : /\ Traces(t, base, PushSteps(seq, Acc), Len(seq), Acc)
                  /\ t[Len(seq)] = PushAll(base, seq)
<1> DEFINE n == Len(seq)
           H == PushSteps(seq, Acc)
           Folds(it) == it = [s \in SUBSET (DOMAIN seq) |->
                                IF s = {} THEN base
                                ELSE PushParsedExtendedEventItem(it[s \ {Max(s)}], seq[Max(s)])]
           c == CHOOSE it : Folds(it)
<1>1. PushAll(base, seq) = c[DOMAIN seq]
  BY DEF PushAll, FoldLeft, MapThenFoldSet
<1>2. n \in Nat /\ DOMAIN seq = 1..n /\ \A i \in 1..n : seq[i] \in E
  OBVIOUS
<1>3. /\ H \in [1..n -> [Acc -> Acc]]
      /\ \A i \in 1..n : \A a \in Acc : H[i][a] = PushParsedExtendedEventItem(a, seq[i])
  BY DEF PushSteps, PushClosed
<1> HIDE DEF n, H
<1>4. PICK it \in [SUBSET (1..n) -> Acc] : FoldsSets(it, base, H, n)
  BY <1>2, <1>3, FoldsSetsExists
<1>5. Folds(it)
  <2>1. ASSUME NEW s \in SUBSET (1..n)
        PROVE  it[s] = IF s = {} THEN base
                       ELSE PushParsedExtendedEventItem(it[s \ {Max(s)}], seq[Max(s)])
    <3>1. it[s] = IF s = {} THEN base ELSE H[Max(s)][it[s \ {Max(s)}]]
      BY <1>4 DEF FoldsSets
    <3>2. CASE s # {}
      <4>1. Max(s) \in 1..n /\ it[s \ {Max(s)}] \in Acc
        BY <1>2, <3>2, MaxIn
      <4> QED BY <1>3, <3>1, <3>2, <4>1
    <3> QED BY <3>1, <3>2
  <2>2. it = [s \in SUBSET (1..n) |-> it[s]]
    OBVIOUS
  <2> QED BY <1>2, <2>1, <2>2
<1>6. Folds(c)
  <2> HIDE DEF Folds
  <2> QED BY <1>5
<1> HIDE DEF c
<1>7. FoldedOn(c, base, H, n, Acc)
  <2>1. \A s \in SUBSET (1..n) :
           c[s] = IF s = {} THEN base ELSE PushParsedExtendedEventItem(c[s \ {Max(s)}], seq[Max(s)])
    BY <1>2, <1>6
  <2>2. ASSUME NEW s \in SUBSET (1..n), s # {}, c[s \ {Max(s)}] \in Acc
        PROVE  c[s] = H[Max(s)][c[s \ {Max(s)}]]
    <3>1. Max(s) \in 1..n
      BY <1>2, <2>2, MaxIn
    <3> QED BY <1>3, <2>1, <2>2, <3>1
  <2> QED BY <1>2, <1>3, <2>1, <2>2 DEF FoldedOn
<1> HIDE DEF Folds
<1>8. PICK t : Traces(t, base, H, n, Acc) /\ t[n] = c[1..n]
  BY <1>7, FoldTraces
<1> QED BY <1>1, <1>2, <1>8 DEF n, H

LEMMA PushType ==
    ASSUME NEW Acc, NEW E, NEW base \in Acc, NEW seq \in Seq(E), PushClosed(Acc, E)
    PROVE  PushAll(base, seq) \in Acc
<1> DEFINE n == Len(seq)
           H == PushSteps(seq, Acc)
<1>1. PICK t : Traces(t, base, H, n, Acc) /\ t[n] = PushAll(base, seq)
  BY PushTrace
<1> HIDE DEF n, H
<1>2. t[n] \in Acc
  BY <1>1, TracesAgree
<1> QED BY <1>1, <1>2

LEMMA PushEmpty ==
    ASSUME NEW Acc, NEW E, NEW base \in Acc, PushClosed(Acc, E)
    PROVE  PushAll(base, << >>) = base
<1>1. << >> \in Seq(E) /\ Len(<< >>) = 0
  BY EmptySeq
<1>2. PICK t : Traces(t, base, PushSteps(<< >>, Acc), 0, Acc) /\ t[0] = PushAll(base, << >>)
  BY <1>1, PushTrace
<1> QED BY <1>2 DEF Traces

LEMMA PushFold ==
    ASSUME NEW Acc, NEW E, NEW base \in Acc, NEW seq \in Seq(E), NEW x \in E,
           PushClosed(Acc, E)
    PROVE  PushAll(base, Append(seq, x)) = PushParsedExtendedEventItem(PushAll(base, seq), x)
<1> DEFINE n == Len(seq)
           more == Append(seq, x)
           H == PushSteps(seq, Acc)
           K == PushSteps(more, Acc)
<1>1. /\ n \in Nat /\ more \in Seq(E) /\ Len(more) = n + 1 /\ more[n + 1] = x
      /\ \A i \in 1..n : more[i] = seq[i]
  BY AppendProperties
<1>2. PICK t : Traces(t, base, H, n, Acc) /\ t[n] = PushAll(base, seq)
  BY PushTrace
<1> HIDE DEF more
<1>3. PICK u : Traces(u, base, K, Len(more), Acc) /\ u[Len(more)] = PushAll(base, more)
  BY <1>1, PushTrace
<1>4. /\ \A i \in 1..n : K[i] = H[i]
      /\ K[Len(more)] = [a \in Acc |-> PushParsedExtendedEventItem(a, x)]
  BY <1>1 DEF PushSteps
<1> HIDE DEF n, H, K
<1>5. StepsMore(H, K, n, Len(more))
  BY <1>1, <1>4 DEF StepsMore
<1>6. t[n] \in Acc /\ PushAll(base, more) = K[Len(more)][t[n]]
  BY <1>2, <1>3, <1>5, TraceMore
<1> QED BY <1>2, <1>4, <1>6 DEF more

\* The fold that lays the items out, and its steps.
LineAll(base, seq) == FoldLeft(AppendItem, base, seq)

LineClosed(Acc, E) == \A a \in Acc, e \in E : AppendItem(a, e) \in Acc

LineSteps(seq, Acc) ==
    [i \in 1..Len(seq) |-> [a \in Acc |-> AppendItem(a, seq[i])]]

\* It takes the steps one after the other.
LEMMA LineTrace ==
    ASSUME NEW Acc, NEW E, NEW base \in Acc, NEW seq \in Seq(E),
           LineClosed(Acc, E)
    PROVE  \E t : /\ Traces(t, base, LineSteps(seq, Acc), Len(seq), Acc)
                  /\ t[Len(seq)] = LineAll(base, seq)
<1> DEFINE n == Len(seq)
           H == LineSteps(seq, Acc)
           Folds(it) == it = [s \in SUBSET (DOMAIN seq) |->
                                IF s = {} THEN base
                                ELSE AppendItem(it[s \ {Max(s)}], seq[Max(s)])]
           c == CHOOSE it : Folds(it)
<1>1. LineAll(base, seq) = c[DOMAIN seq]
  BY DEF LineAll, FoldLeft, MapThenFoldSet
<1>2. n \in Nat /\ DOMAIN seq = 1..n /\ \A i \in 1..n : seq[i] \in E
  OBVIOUS
<1>3. /\ H \in [1..n -> [Acc -> Acc]]
      /\ \A i \in 1..n : \A a \in Acc : H[i][a] = AppendItem(a, seq[i])
  BY DEF LineSteps, LineClosed
<1> HIDE DEF n, H
<1>4. PICK it \in [SUBSET (1..n) -> Acc] : FoldsSets(it, base, H, n)
  BY <1>2, <1>3, FoldsSetsExists
<1>5. Folds(it)
  <2>1. ASSUME NEW s \in SUBSET (1..n)
        PROVE  it[s] = IF s = {} THEN base
                       ELSE AppendItem(it[s \ {Max(s)}], seq[Max(s)])
    <3>1. it[s] = IF s = {} THEN base ELSE H[Max(s)][it[s \ {Max(s)}]]
      BY <1>4 DEF FoldsSets
    <3>2. CASE s # {}
      <4>1. Max(s) \in 1..n /\ it[s \ {Max(s)}] \in Acc
        BY <1>2, <3>2, MaxIn
      <4> QED BY <1>3, <3>1, <3>2, <4>1
    <3> QED BY <3>1, <3>2
  <2>2. it = [s \in SUBSET (1..n) |-> it[s]]
    OBVIOUS
  <2> QED BY <1>2, <2>1, <2>2
<1>6. Folds(c)
  <2> HIDE DEF Folds
  <2> QED BY <1>5
<1> HIDE DEF c
<1>7. FoldedOn(c, base, H, n, Acc)
  <2>1. \A s \in SUBSET (1..n) :
           c[s] = IF s = {} THEN base ELSE AppendItem(c[s \ {Max(s)}], seq[Max(s)])
    BY <1>2, <1>6
  <2>2. ASSUME NEW s \in SUBSET (1..n), s # {}, c[s \ {Max(s)}] \in Acc
        PROVE  c[s] = H[Max(s)][c[s \ {Max(s)}]]
    <3>1. Max(s) \in 1..n
      BY <1>2, <2>2, MaxIn
    <3> QED BY <1>3, <2>1, <2>2, <3>1
  <2> QED BY <1>2, <1>3, <2>1, <2>2 DEF FoldedOn
<1> HIDE DEF Folds
<1>8. PICK t : Traces(t, base, H, n, Acc) /\ t[n] = c[1..n]
  BY <1>7, FoldTraces
<1> QED BY <1>1, <1>2, <1>8 DEF n, H

LEMMA LineType ==
    ASSUME NEW Acc, NEW E, NEW base \in Acc, NEW seq \in Seq(E), LineClosed(Acc, E)
    PROVE  LineAll(base, seq) \in Acc
<1> DEFINE n == Len(seq)
           H == LineSteps(seq, Acc)
<1>1. PICK t : Traces(t, base, H, n, Acc) /\ t[n] = LineAll(base, seq)
  BY LineTrace
<1> HIDE DEF n, H
<1>2. t[n] \in Acc
  BY <1>1, TracesAgree
<1> QED BY <1>1, <1>2

LEMMA LineEmpty ==
    ASSUME NEW Acc, NEW E, NEW base \in Acc, LineClosed(Acc, E)
    PROVE  LineAll(base, << >>) = base
<1>1. << >> \in Seq(E) /\ Len(<< >>) = 0
  BY EmptySeq
<1>2. PICK t : Traces(t, base, LineSteps(<< >>, Acc), 0, Acc) /\ t[0] = LineAll(base, << >>)
  BY <1>1, LineTrace
<1> QED BY <1>2 DEF Traces

LEMMA LineFold ==
    ASSUME NEW Acc, NEW E, NEW base \in Acc, NEW seq \in Seq(E), NEW x \in E,
           LineClosed(Acc, E)
    PROVE  LineAll(base, Append(seq, x)) = AppendItem(LineAll(base, seq), x)
<1> DEFINE n == Len(seq)
           more == Append(seq, x)
           H == LineSteps(seq, Acc)
           K == LineSteps(more, Acc)
<1>1. /\ n \in Nat /\ more \in Seq(E) /\ Len(more) = n + 1 /\ more[n + 1] = x
      /\ \A i \in 1..n : more[i] = seq[i]
  BY AppendProperties
<1>2. PICK t : Traces(t, base, H, n, Acc) /\ t[n] = LineAll(base, seq)
  BY LineTrace
<1> HIDE DEF more
<1>3. PICK u : Traces(u, base, K, Len(more), Acc) /\ u[Len(more)] = LineAll(base, more)
  BY <1>1, LineTrace
<1>4. /\ \A i \in 1..n : K[i] = H[i]
      /\ K[Len(more)] = [a \in Acc |-> AppendItem(a, x)]
  BY <1>1 DEF LineSteps
<1> HIDE DEF n, H, K
<1>5. StepsMore(H, K, n, Len(more))
  BY <1>1, <1>4 DEF StepsMore
<1>6. t[n] \in Acc /\ LineAll(base, more) = K[Len(more)][t[n]]
  BY <1>2, <1>3, <1>5, TraceMore
<1> QED BY <1>2, <1>4, <1>6 DEF more

TextToken == Nat \cup {Newline}
Text == Seq(TextToken)
Item == [description : Text, value : Text]

LEMMA TextAssociative ==
    ASSUME NEW p \in Text, NEW q \in Text, NEW r \in Text
    PROVE  (p \o q) \o r = p \o (q \o r)
<1>1. ASSUME NEW X, NEW s \in Seq(X), NEW t \in Seq(X), NEW u \in Seq(X)
      PROVE  (s \o t) \o u = s \o (t \o u)
  BY ConcatAssociative, SMTT(30)
<1> QED BY <1>1 DEF Text

LEMMA TextConcat ==
    ASSUME NEW p \in Text, NEW q \in Text
    PROVE  /\ p \o q \in Text /\ p \o Empty = p /\ Empty \o q = q
           /\ p \o q = Empty <=> p = Empty /\ q = Empty
           /\ Empty \in Text /\ <<Newline>> \in Text /\ <<Newline>> # Empty
<1>1. p \o q \in Text
  BY ConcatProperties DEF Text
<1>2. p \o Empty = p /\ Empty \o q = q
  BY ConcatEmptySeq DEF Text, Empty
<1>3. p \o q = Empty <=> p = Empty /\ q = Empty
  BY ConcatEqualIffEmpty DEF Text, Empty
<1>4. Empty \in Text
  BY EmptySeq DEF Text, Empty
<1>5. <<Newline>> \in Text
  <2>1. Newline \in TextToken
    BY DEF TextToken
  <2> HIDE DEF TextToken
  <2> QED BY <2>1 DEF Text
<1>6. <<Newline>> # Empty
  BY DEF Empty
<1> QED BY <1>1, <1>2, <1>3, <1>4, <1>5, <1>6

-----------------------------------------------------------------------------
(* FormatExtendedText: the loop over the items joins their parts.          *)

Said(parts, i) ==
    IF parts[i] # Empty /\ \E j \in 1..(i - 1) : parts[j] # Empty
    THEN <<Newline>> \o parts[i] ELSE parts[i]

LEMMA SaidType ==
    ASSUME NEW parts \in Seq(Text), NEW i \in 1..Len(parts)
    PROVE  Said(parts, i) \in Text /\ (Said(parts, i) = Empty <=> parts[i] = Empty)
<1>1. parts[i] \in Text
  OBVIOUS
<1>2. PICK newline \in Text : newline = <<Newline>> /\ newline # Empty
  BY <1>1, TextConcat
<1>3. newline \o parts[i] \in Text /\ newline \o parts[i] # Empty
  BY <1>1, <1>2, TextConcat
<1> QED BY <1>1, <1>2, <1>3 DEF Said

LEMMA JoinedType ==
    ASSUME NEW parts \in Seq(Text)
    PROVE  /\ Joined(parts) \in Text
           /\ Joined(parts) = Empty <=> \A i \in 1..Len(parts) : parts[i] = Empty
<1> DEFINE f == [i \in DOMAIN parts |->
                   IF parts[i] # Empty /\ \E j \in 1..(i - 1) : parts[j] # Empty
                   THEN <<Newline>> \o parts[i] ELSE parts[i]]
<1>1. Len(parts) \in Nat /\ DOMAIN parts = 1..Len(parts)
  BY LenProperties
<1>2. f = [i \in 1..Len(parts) |-> Said(parts, i)]
  BY <1>1 DEF Said
<1> HIDE DEF f
<1>3. f \in [1..Len(parts) -> Text]
  BY <1>2, SaidType
<1>4. f \in Seq(Text)
  BY <1>1, <1>3, SeqDef
<1>5. FlattenSeq(f) \in Text
  BY <1>4, FlattenSeqType DEF Text
<1>6. FlattenSeq(f) = << >> <=> \A i \in DOMAIN f : f[i] = << >>
  BY <1>4, FlattenSeqIsEmpty DEF Text
<1>7. (\A i \in DOMAIN f : f[i] = Empty) <=> (\A i \in 1..Len(parts) : parts[i] = Empty)
  BY <1>2, SaidType
<1> QED BY <1>5, <1>6, <1>7 DEF Joined, f, Empty

\* One part more.
LEMMA JoinedAppend ==
    ASSUME NEW parts \in Seq(Text), NEW part \in Text
    PROVE  Joined(Append(parts, part)) =
             IF part = Empty THEN Joined(parts) ELSE AppendPart(Joined(parts), part)
<1> DEFINE n == Len(parts)
           more == Append(parts, part)
           f == [i \in DOMAIN parts |->
                   IF parts[i] # Empty /\ \E j \in 1..(i - 1) : parts[j] # Empty
                   THEN <<Newline>> \o parts[i] ELSE parts[i]]
           g == [i \in DOMAIN more |->
                   IF more[i] # Empty /\ \E j \in 1..(i - 1) : more[j] # Empty
                   THEN <<Newline>> \o more[i] ELSE more[i]]
           said == Said(more, n + 1)
<1>1. /\ n \in Nat /\ more \in Seq(Text) /\ Len(more) = n + 1 /\ more[n + 1] = part
      /\ \A i \in 1..n : more[i] = parts[i]
  BY AppendProperties
<1>2. DOMAIN more = 1..(n + 1) /\ DOMAIN parts = 1..n
  BY <1>1, LenProperties
<1> HIDE DEF more
<1>3. /\ f = [i \in 1..n |-> Said(parts, i)]
      /\ g = [i \in 1..(n + 1) |-> Said(more, i)]
  BY <1>2 DEF Said
<1> HIDE DEF f, g
<1>4. ASSUME NEW i \in 1..n
      PROVE  Said(more, i) = Said(parts, i)
  <2>1. \A j \in 1..(i - 1) : j \in 1..n
    BY <1>1
  <2> QED BY <1>1, <2>1 DEF Said
<1>5. said \in Text
  BY <1>1, SaidType
<1>6. f \in Seq(Text) /\ Len(f) = n
  <2>1. f \in [1..n -> Text]
    BY <1>3, SaidType
  <2> HIDE DEF n
  <2> QED BY <1>1, <2>1, FunctionLen
<1> HIDE DEF n
<1>7. OneMore(Text, f, said, g)
  <2>1. (\A i \in 1..n : i \in 1..(n + 1)) /\ n + 1 \in 1..(n + 1)
    BY <1>1
  <2>2. DOMAIN g = 1..(n + 1) /\ g = [i \in DOMAIN g |-> g[i]]
    BY <1>3
  <2>3. \A i \in 1..n : g[i] = f[i]
    BY <1>3, <1>4, <2>1
  <2>4. g[n + 1] = said
    BY <1>3, <2>1
  <2> QED BY <1>5, <1>6, <2>2, <2>3, <2>4 DEF OneMore
<1>8. Joined(more) = Joined(parts) \o said
  <2>1. FlattenSeq(g) = FlattenSeq(f) \o said
    BY <1>7, FlattenMore DEF Text
  <2> QED BY <2>1 DEF Joined, f, g
<1>9. Joined(parts) \in Text
  BY JoinedType
<1>10. said = IF part # Empty /\ \E j \in 1..n : parts[j] # Empty
              THEN <<Newline>> \o part ELSE part
  <2>1. (n + 1) - 1 = n
    BY <1>1
  <2> QED BY <1>1, <2>1 DEF Said
<1> HIDE DEF said
<1>11. CASE part = Empty
  <2>1. said = Empty
    BY <1>10, <1>11
  <2> QED BY <1>8, <1>9, <1>11, <2>1, TextConcat DEF more
<1>12. CASE part # Empty /\ Joined(parts) = Empty
  <2>1. said = part
    BY <1>10, <1>12, JoinedType DEF n
  <2>2. Empty \o part = part
    BY TextConcat
  <2> QED BY <1>8, <1>12, <2>1, <2>2 DEF more, AppendPart
<1>13. CASE part # Empty /\ Joined(parts) # Empty
  <2>1. said = <<Newline>> \o part
    BY <1>10, <1>13, JoinedType DEF n
  <2>2. (Joined(parts) \o <<Newline>>) \o part = Joined(parts) \o (<<Newline>> \o part)
    <3>1. PICK newline \in Text : newline = <<Newline>>
      BY <1>9, TextConcat
    <3>2. (Joined(parts) \o newline) \o part = Joined(parts) \o (newline \o part)
      BY <1>9, TextAssociative
    <3> QED BY <3>1, <3>2
  <2> QED BY <1>8, <1>13, <2>1, <2>2 DEF more, AppendPart
<1> QED BY <1>11, <1>12, <1>13

LEMMA PartType ==
    ASSUME NEW item \in Item
    PROVE  /\ Part(item) \in Text
           /\ \A out : AppendItem(out, item) =
                         IF Part(item) = Empty THEN out ELSE AppendPart(out, Part(item))
<1>1. item.description \in Text /\ item.value \in Text
  BY DEF Item
<1>2. PICK newline \in Text : newline = <<Newline>> /\ newline # Empty
  BY <1>1, TextConcat
<1>3. item.description \o newline \in Text
  BY <1>1, <1>2, TextConcat
<1>4. /\ (item.description \o newline) \o item.value \in Text
      /\ item.description # Empty => (item.description \o newline) \o item.value # Empty
  BY <1>1, <1>2, <1>3, TextConcat
<1> QED BY <1>1, <1>2, <1>4 DEF Part, AppendItem

\* What the items say, each on its own.
Parts(its) == [i \in DOMAIN its |-> Part(its[i])]

LEMMA PartsType ==
    ASSUME NEW its \in Seq(Item)
    PROVE  Parts(its) \in Seq(Text) /\ Len(Parts(its)) = Len(its) /\ Parts(<< >>) = << >>
<1> DEFINE n == Len(its)
<1>1. n \in Nat /\ DOMAIN its = 1..n /\ \A i \in 1..n : its[i] \in Item
  BY LenProperties
<1> HIDE DEF n
<1>2. \A i \in 1..n : Part(its[i]) \in Text
  BY <1>1, PartType
<1>3. Parts(its) \in [1..n -> Text]
  BY <1>1, <1>2 DEF Parts
<1>4. Parts(its) \in Seq(Text) /\ Len(Parts(its)) = n
  BY <1>1, <1>3, FunctionLen
<1>5. Parts(<< >>) = << >>
  BY DEF Parts
<1> QED BY <1>4, <1>5 DEF n

LEMMA PartsAppend ==
    ASSUME NEW its \in Seq(Item), NEW item \in Item
    PROVE  Parts(Append(its, item)) = Append(Parts(its), Part(item))
<1> DEFINE n == Len(its)
           more == Append(its, item)
<1>1. /\ n \in Nat /\ more[n + 1] = item /\ \A i \in 1..n : more[i] = its[i]
      /\ DOMAIN more = 1..(n + 1) /\ DOMAIN its = 1..n
  <2>1. more \in Seq(Item) /\ Len(more) = n + 1
    BY AppendProperties
  <2> QED BY <2>1, AppendProperties, LenProperties
<1>2. Parts(its) \in Seq(Text) /\ Len(Parts(its)) = n /\ Part(item) \in Text
  BY PartsType, PartType
<1> HIDE DEF n, more
<1>3. OneMore(Text, Parts(its), Part(item), Parts(more))
  <2>1. (\A i \in 1..n : i \in 1..(n + 1)) /\ n + 1 \in 1..(n + 1)
    BY <1>1
  <2>2. /\ DOMAIN Parts(more) = 1..(n + 1)
        /\ Parts(more) = [i \in DOMAIN Parts(more) |-> Parts(more)[i]]
    BY <1>1 DEF Parts
  <2>3. \A i \in 1..n : Parts(more)[i] = Parts(its)[i]
    BY <1>1, <2>1 DEF Parts
  <2>4. Parts(more)[n + 1] = Part(item)
    BY <1>1, <2>1 DEF Parts
  <2> QED BY <1>2, <2>2, <2>3, <2>4 DEF OneMore
<1>4. Parts(more) = Append(Parts(its), Part(item))
  BY <1>3, AppendIs
<1> QED BY <1>4 DEF more

LEMMA LinesClosed == LineClosed(Text, Item)
<1> SUFFICES ASSUME NEW out \in Text, NEW item \in Item
             PROVE  AppendItem(out, item) \in Text
  BY DEF LineClosed
<1>1. PICK part \in Text : part = Part(item)
  BY PartType
<1>2. AppendItem(out, item) = IF part = Empty THEN out ELSE AppendPart(out, part)
  BY <1>1, PartType
<1>3. PICK newline \in Text : newline = <<Newline>>
  BY <1>1, TextConcat
<1>4. out \o newline \in Text
  BY <1>3, TextConcat
<1>5. (out \o newline) \o part \in Text
  BY <1>4, TextConcat
<1> QED BY <1>2, <1>3, <1>5 DEF AppendPart

\* The loop over the items joins what they say.
LEMMA LinesAreJoined ==
    ASSUME NEW its \in Seq(Item)
    PROVE  LineAll(Empty, its) = Joined(Parts(its))
<1> DEFINE T == {s \in Seq(Item) : LineAll(Empty, s) # Joined(Parts(s))}
<1>1. PICK none \in Text : none = Empty
  BY EmptySeq DEF Empty, Text
<1>2. << >> \notin T
  <2>1. LineAll(none, << >>) = none
    BY LinesClosed, LineEmpty
  <2>2. Parts(<< >>) = << >>
    BY PartsType
  <2>3. PICK nothing \in Seq(Text) : nothing = << >> /\ Len(nothing) = 0
    BY EmptySeq
  <2>4. Joined(nothing) = Empty
    <3>1. \A i \in 1..Len(nothing) : nothing[i] = Empty
      BY <2>3
    <3> QED BY <3>1, JoinedType
  <2> QED BY <1>1, <2>1, <2>2, <2>3, <2>4
<1>3. ASSUME NEW s \in Seq(Item), NEW item \in Item, s \notin T
      PROVE  Append(s, item) \notin T
  <2>1. LineAll(none, Append(s, item)) = AppendItem(LineAll(none, s), item)
    BY LinesClosed, LineFold
  <2>2. LineAll(none, s) = Joined(Parts(s))
    BY <1>1, <1>3
  <2>3. AppendItem(Joined(Parts(s)), item) =
          IF Part(item) = Empty THEN Joined(Parts(s)) ELSE AppendPart(Joined(Parts(s)), Part(item))
    BY PartType
  <2>4. Joined(Append(Parts(s), Part(item))) =
          IF Part(item) = Empty THEN Joined(Parts(s)) ELSE AppendPart(Joined(Parts(s)), Part(item))
    BY PartsType, PartType, JoinedAppend
  <2>5. Parts(Append(s, item)) = Append(Parts(s), Part(item))
    BY PartsAppend
  <2> QED BY <1>1, <2>1, <2>2, <2>3, <2>4, <2>5
<1>4. T \subseteq Seq(Item)
  OBVIOUS
<1> HIDE DEF T
<1>5. T = {}
  BY <1>2, <1>3, <1>4, ShortestSeq
<1> QED BY <1>5 DEF T

LEMMA FormatIsJoined ==
    ASSUME NEW its \in Seq(Item), NEW txt \in Text
    PROVE  FormatExtendedText(its, txt) = Joined(Append(Parts(its), txt))
<1>1. PICK out : out = LineAll(Empty, its) /\ out = Joined(Parts(its))
  BY LinesAreJoined
<1>2. FormatExtendedText(its, txt) = IF txt # Empty THEN AppendPart(out, txt) ELSE out
  BY <1>1 DEF FormatExtendedText, LineAll
<1>3. Joined(Append(Parts(its), txt)) =
        IF txt = Empty THEN Joined(Parts(its)) ELSE AppendPart(Joined(Parts(its)), txt)
  BY PartsType, JoinedAppend
<1> QED BY <1>1, <1>2, <1>3

-----------------------------------------------------------------------------
(* The descriptors: what is read of a list that grows at its end.          *)

Ext == "DID_DVB_EXTENDED_EVENT"
Tags == {Ext, "DID_DVB_SHORT_EVENT", "DID_DVB_CONTENT"}
EntryOf(tag) == IF tag = Ext THEN Item ELSE Text

Descriptor ==
    {d \in [tag : Tags, valid : BOOLEAN, entries : Seq(Item) \cup Seq(Text), text : Text] :
        d.entries \in Seq(EntryOf(d.tag))}

EntriesIn(d, tag) == IF IsRead(d, tag) THEN d.entries ELSE << >>
TextIn(d) == IF IsRead(d, Ext) THEN d.text ELSE Empty

LEMMA InType ==
    ASSUME NEW d \in Descriptor, NEW tag
    PROVE  EntriesIn(d, tag) \in Seq(EntryOf(tag)) /\ TextIn(d) \in Text
<1>1. << >> \in Seq(EntryOf(tag)) /\ Empty \in Text
  BY EmptySeq DEF Empty, Text
<1>2. IsRead(d, tag) => d.entries \in Seq(EntryOf(tag))
  BY DEF IsRead, Descriptor
<1>3. d.text \in Text
  BY DEF Descriptor
<1> QED BY <1>1, <1>2, <1>3 DEF EntriesIn, TextIn

LEMMA ReadType ==
    ASSUME NEW ds \in Seq(Descriptor), NEW tag
    PROVE  /\ Entries(ds, tag) \in Seq(EntryOf(tag)) /\ Entries(<< >>, tag) = << >>
           /\ Texts(ds) \in Text /\ Texts(<< >>) = Empty
<1> DEFINE n == Len(ds)
           f == [i \in DOMAIN ds |-> IF IsRead(ds[i], tag) THEN ds[i].entries ELSE << >>]
           g == [i \in DOMAIN ds |-> IF IsRead(ds[i], Ext) THEN ds[i].text ELSE Empty]
<1>1. n \in Nat /\ DOMAIN ds = 1..n /\ \A i \in 1..n : ds[i] \in Descriptor
  BY LenProperties
<1> HIDE DEF n
<1>2. \A i \in 1..n : EntriesIn(ds[i], tag) \in Seq(EntryOf(tag)) /\ TextIn(ds[i]) \in Text
  BY <1>1, InType
<1>3. f \in [1..n -> Seq(EntryOf(tag))] /\ g \in [1..n -> Text]
  BY <1>1, <1>2 DEF EntriesIn, TextIn
<1>4. /\ [i \in DOMAIN << >> |-> IF IsRead(<< >>[i], tag) THEN << >>[i].entries ELSE << >>] = << >>
      /\ [i \in DOMAIN << >> |-> IF IsRead(<< >>[i], Ext) THEN << >>[i].text ELSE Empty] = << >>
  OBVIOUS
<1>5. Entries(<< >>, tag) = << >> /\ Texts(<< >>) = Empty
  BY <1>4, FlattenSeqEmpty DEF Entries, Texts, Ext, Empty
<1> HIDE DEF f, g
<1>6. f \in Seq(Seq(EntryOf(tag))) /\ g \in Seq(Text)
  BY <1>1, <1>3, SeqDef
<1>7. FlattenSeq(f) \in Seq(EntryOf(tag)) /\ FlattenSeq(g) \in Text
  BY <1>6, FlattenSeqType DEF Text
<1> QED BY <1>5, <1>7 DEF Entries, Texts, f, g, Ext

\* One descriptor more.
LEMMA ReadAppend ==
    ASSUME NEW ds \in Seq(Descriptor), NEW d \in Descriptor, NEW tag
    PROVE  /\ Entries(Append(ds, d), tag) = Entries(ds, tag) \o EntriesIn(d, tag)
           /\ Texts(Append(ds, d)) = Texts(ds) \o TextIn(d)
<1> DEFINE n == Len(ds)
           more == Append(ds, d)
           e == [i \in DOMAIN ds |-> IF IsRead(ds[i], tag) THEN ds[i].entries ELSE << >>]
           f == [i \in DOMAIN more |-> IF IsRead(more[i], tag) THEN more[i].entries ELSE << >>]
           g == [i \in DOMAIN ds |-> IF IsRead(ds[i], Ext) THEN ds[i].text ELSE Empty]
           h == [i \in DOMAIN more |-> IF IsRead(more[i], Ext) THEN more[i].text ELSE Empty]
<1>1. /\ n \in Nat /\ more[n + 1] = d /\ \A i \in 1..n : more[i] = ds[i]
      /\ DOMAIN more = 1..(n + 1) /\ DOMAIN ds = 1..n
  <2>1. more \in Seq(Descriptor) /\ Len(more) = n + 1
    BY AppendProperties
  <2> QED BY <2>1, AppendProperties, LenProperties
<1>2. /\ \A i \in 1..n : EntriesIn(ds[i], tag) \in Seq(EntryOf(tag)) /\ TextIn(ds[i]) \in Text
      /\ EntriesIn(d, tag) \in Seq(EntryOf(tag)) /\ TextIn(d) \in Text
  BY InType
<1> HIDE DEF n, more
<1>3. /\ e \in Seq(Seq(EntryOf(tag))) /\ Len(e) = n
      /\ g \in Seq(Text) /\ Len(g) = n
  <2>1. e \in [1..n -> Seq(EntryOf(tag))] /\ g \in [1..n -> Text]
    BY <1>1, <1>2 DEF EntriesIn, TextIn
  <2> HIDE DEF e, g
  <2> QED BY <1>1, <2>1, FunctionLen
<1>4. (\A i \in 1..n : i \in 1..(n + 1)) /\ n + 1 \in 1..(n + 1)
  BY <1>1
<1>5. /\ f = [i \in DOMAIN f |-> f[i]] /\ h = [i \in DOMAIN h |-> h[i]]
      /\ DOMAIN f = 1..(n + 1) /\ DOMAIN h = 1..(n + 1)
  BY <1>1
<1>6. (\A i \in 1..n : f[i] = e[i]) /\ f[n + 1] = EntriesIn(d, tag)
  BY <1>1, <1>4 DEF EntriesIn
<1>7. (\A i \in 1..n : h[i] = g[i]) /\ h[n + 1] = TextIn(d)
  BY <1>1, <1>4 DEF TextIn
<1> HIDE DEF e, f, g, h
<1>8. OneMore(Seq(EntryOf(tag)), e, EntriesIn(d, tag), f)
  BY <1>2, <1>3, <1>5, <1>6 DEF OneMore
<1>9. OneMore(Text, g, TextIn(d), h)
  BY <1>2, <1>3, <1>5, <1>7 DEF OneMore
<1>10. FlattenSeq(f) = FlattenSeq(e) \o EntriesIn(d, tag)
  BY <1>8, FlattenMore
<1>11. FlattenSeq(h) = FlattenSeq(g) \o TextIn(d)
  BY <1>9, FlattenMore DEF Text
<1> QED BY <1>10, <1>11 DEF Entries, Texts, e, f, g, h, more, Ext

LEMMA FrontOfAppend ==
    ASSUME NEW X, NEW s \in Seq(X), NEW x \in X
    PROVE  Front(Append(s, x)) = s /\ Last(Append(s, x)) = x /\ Append(s, x) # << >>
<1> DEFINE n == Len(s)
           more == Append(s, x)
<1>1. /\ n \in Nat /\ more \in Seq(X) /\ Len(more) = n + 1 /\ more[n + 1] = x
      /\ \A i \in 1..n : more[i] = s[i]
  BY AppendProperties
<1> HIDE DEF more
<1>2. Front(more) = SubSeq(more, 1, n)
  <2>1. (n + 1) - 1 = n
    BY <1>1
  <2> QED BY <1>1, <2>1 DEF Front
<1>3. /\ SubSeq(more, 1, n) \in Seq(X) /\ Len(SubSeq(more, 1, n)) = n
      /\ \A i \in 1..n : SubSeq(more, 1, n)[i] = more[i]
  <2>1. \A i \in 1..n : more[i] \in X
    BY <1>1
  <2>2. /\ SubSeq(more, 1, n) \in Seq(X)
        /\ Len(SubSeq(more, 1, n)) = IF 1 <= n THEN n - 1 + 1 ELSE 0
        /\ \A i \in 1..(n - 1 + 1) : SubSeq(more, 1, n)[i] = more[1 + i - 1]
    BY <1>1, <2>1, SubSeqProperties
  <2>3. n - 1 + 1 = n /\ \A i \in 1..n : 1 + i - 1 = i
    BY <1>1
  <2> QED BY <1>1, <2>2, <2>3
<1>4. SubSeq(more, 1, n) = s
  BY <1>1, <1>3, SeqEqual
<1>5. Last(more) = x /\ more # << >>
  BY <1>1, EmptySeq DEF Last
<1> QED BY <1>2, <1>4, <1>5 DEF more

LEMMA ItemsConcat ==
    ASSUME NEW p \in Seq(Item), NEW q \in Seq(Item), NEW r \in Seq(Item)
    PROVE  /\ (p \o q) \o r = p \o (q \o r) /\ p \o q \in Seq(Item)
           /\ p \o << >> = p /\ << >> \o p = p
<1>1. (p \o q) \o r = p \o (q \o r)
  <2>1. ASSUME NEW X, NEW s \in Seq(X), NEW t \in Seq(X), NEW u \in Seq(X)
        PROVE  (s \o t) \o u = s \o (t \o u)
    BY ConcatAssociative, SMTT(30)
  <2> QED BY <2>1
<1>2. p \o q \in Seq(Item)
  BY ConcatProperties
<1>3. p \o << >> = p /\ << >> \o p = p
  BY ConcatEmptySeq
<1> QED BY <1>1, <1>2, <1>3

\* A descriptor with more entries and more text.
Into(d, entries, more) == [d EXCEPT !.entries = @ \o entries, !.text = @ \o more]

LEMMA IntoIs ==
    ASSUME NEW d \in Descriptor, IsRead(d, Ext), NEW entries \in Seq(Item), NEW more \in Text
    PROVE  LET new == Into(d, entries, more)
           IN  /\ new \in Descriptor
               /\ EntriesIn(new, Ext) = EntriesIn(d, Ext) \o entries
               /\ TextIn(new) = TextIn(d) \o more
               /\ \A tag : tag # Ext => EntriesIn(new, tag) = << >> /\ EntriesIn(d, tag) = << >>
<1> DEFINE new == Into(d, entries, more)
<1>1. /\ d.tag = Ext /\ d.valid = TRUE /\ d.entries \in Seq(Item) /\ d.text \in Text
      /\ d = [tag |-> d.tag, valid |-> d.valid, entries |-> d.entries, text |-> d.text]
  BY DEF Descriptor, IsRead, EntryOf
<1>2. d.entries \o entries \in Seq(Item) /\ d.text \o more \in Text
  BY <1>1, ItemsConcat, TextConcat
<1>3. new = [tag |-> Ext, valid |-> TRUE, entries |-> d.entries \o entries, text |-> d.text \o more]
  <2>1. DOMAIN d = {"tag", "valid", "entries", "text"}
    BY <1>1
  <2>2. DOMAIN new = DOMAIN d /\ new = [k \in DOMAIN new |-> new[k]]
    BY DEF Into
  <2>3. new.tag = Ext /\ new.valid = TRUE
    BY <1>1, <2>1 DEF Into
  <2>4. new.entries = d.entries \o entries
    BY <2>1 DEF Into
  <2>5. new.text = d.text \o more
    BY <2>1 DEF Into
  <2> HIDE DEF new
  <2> QED BY <2>1, <2>2, <2>3, <2>4, <2>5
<1> HIDE DEF new
<1>4. new \in Descriptor
  BY <1>2, <1>3 DEF Descriptor, Tags, EntryOf
<1>5. /\ EntriesIn(new, Ext) = d.entries \o entries /\ EntriesIn(d, Ext) = d.entries
      /\ TextIn(new) = d.text \o more /\ TextIn(d) = d.text
      /\ \A tag : tag # Ext => EntriesIn(new, tag) = << >> /\ EntriesIn(d, tag) = << >>
  BY <1>1, <1>3 DEF EntriesIn, TextIn, IsRead
<1> QED BY <1>4, <1>5 DEF new

LEMMA ExtendedIs ==
    /\ Extended \in Descriptor /\ IsRead(Extended, Ext)
    /\ \A tag : EntriesIn(Extended, tag) = << >>
    /\ TextIn(Extended) = Empty
<1>1. << >> \in Seq(Item) /\ Empty \in Text
  BY EmptySeq DEF Empty, Text
<1> QED BY <1>1 DEF Extended, Descriptor, Tags, EntryOf, EntriesIn, TextIn, IsRead, Ext

\* Into the last descriptor or into a new one: the entries and the text are read after the
\* ones before.
LEMMA PutIsRead ==
    ASSUME descs \in Seq(Descriptor), NEW entries \in Seq(Item), NEW more \in Text,
           Put(entries, more)
    PROVE  /\ descs' \in Seq(Descriptor)
           /\ Entries(descs', Ext) = Entries(descs, Ext) \o entries
           /\ Texts(descs') = Texts(descs) \o more
           /\ \A tag : tag # Ext => Entries(descs', tag) = Entries(descs, tag)
<1>1. PICK front \in Seq(Descriptor), d \in Descriptor :
         /\ IsRead(d, Ext) /\ descs' = Append(front, Into(d, entries, more))
         /\ \A tag : Entries(descs, tag) = Entries(front, tag) \o EntriesIn(d, tag)
         /\ Texts(descs) = Texts(front) \o TextIn(d)
  <2>1. CASE /\ descs # << >> /\ Last(descs).tag = Extended.tag /\ Last(descs).valid
             /\ descs' = Front(descs) \o <<Into(Last(descs), entries, more)>>
    <3>1. PICK front \in Seq(Descriptor), d \in Descriptor : descs = Append(front, d)
      BY <2>1, SequenceEmptyOrAppend
    <3>2. Front(descs) = front /\ Last(descs) = d
      BY <3>1, FrontOfAppend
    <3>3. IsRead(d, Ext)
      BY <2>1, <3>2 DEF IsRead, Extended, Ext
    <3>4. Into(d, entries, more) \in Descriptor
      BY <3>3, IntoIs
    <3>5. front \o <<Into(d, entries, more)>> = Append(front, Into(d, entries, more))
      BY <3>4, AppendIsConcat
    <3>6. /\ \A tag : Entries(descs, tag) = Entries(front, tag) \o EntriesIn(d, tag)
          /\ Texts(descs) = Texts(front) \o TextIn(d)
      BY <3>1, ReadAppend
    <3> QED BY <2>1, <3>2, <3>3, <3>5, <3>6
  <2>2. CASE descs' = Append(descs, Into(Extended, entries, more))
    <3>1. \A tag : Entries(descs, tag) = Entries(descs, tag) \o EntriesIn(Extended, tag)
      <4>1. \A X : \A s \in Seq(X) : s \o << >> = s
        BY ConcatEmptySeq
      <4> QED BY <4>1, ReadType, ExtendedIs
    <3>2. Texts(descs) = Texts(descs) \o TextIn(Extended)
      BY ReadType, ExtendedIs, TextConcat
    <3> QED BY <2>2, <3>1, <3>2, ExtendedIs
  <2> QED BY <2>1, <2>2 DEF Put, Into
<1>2. PICK new \in Descriptor :
         /\ new = Into(d, entries, more)
         /\ EntriesIn(new, Ext) = EntriesIn(d, Ext) \o entries
         /\ TextIn(new) = TextIn(d) \o more
         /\ \A tag : tag # Ext => EntriesIn(new, tag) = << >> /\ EntriesIn(d, tag) = << >>
  BY <1>1, IntoIs
<1>3. descs' = Append(front, new)
  BY <1>1, <1>2
<1>4. /\ descs' \in Seq(Descriptor)
      /\ \A tag : Entries(descs', tag) = Entries(front, tag) \o EntriesIn(new, tag)
      /\ Texts(descs') = Texts(front) \o TextIn(new)
  BY <1>3, ReadAppend, AppendProperties
<1>5. Entries(descs', Ext) = Entries(descs, Ext) \o entries
  <2>1. Entries(front, Ext) \in Seq(Item) /\ EntriesIn(d, Ext) \in Seq(Item)
    BY ReadType, InType DEF EntryOf
  <2>2. (Entries(front, Ext) \o EntriesIn(d, Ext)) \o entries
          = Entries(front, Ext) \o (EntriesIn(d, Ext) \o entries)
    BY <2>1, ItemsConcat
  <2>3. /\ Entries(descs', Ext) = Entries(front, Ext) \o EntriesIn(new, Ext)
        /\ Entries(descs, Ext) = Entries(front, Ext) \o EntriesIn(d, Ext)
    BY <1>1, <1>4
  <2> QED BY <1>2, <2>2, <2>3
<1>6. Texts(descs') = Texts(descs) \o more
  <2>1. Texts(front) \in Text /\ TextIn(d) \in Text
    BY ReadType, InType
  <2>2. (Texts(front) \o TextIn(d)) \o more = Texts(front) \o (TextIn(d) \o more)
    BY <2>1, TextAssociative
  <2> QED BY <1>1, <1>2, <1>4, <2>2
<1>7. ASSUME NEW tag, tag # Ext PROVE Entries(descs', tag) = Entries(descs, tag)
  BY <1>1, <1>2, <1>4, <1>7
<1> QED BY <1>4, <1>5, <1>6, <1>7

-----------------------------------------------------------------------------
(* The items: the fold puts together what the broadcaster took apart.      *)

LEMMA ItemsClosed == PushClosed(Seq(Item), Item)
<1> SUFFICES ASSUME NEW its \in Seq(Item), NEW entry \in Item
             PROVE  PushParsedExtendedEventItem(its, entry) \in Seq(Item)
  BY DEF PushClosed
<1>1. CASE its # << >>
  <2> DEFINE n == Len(its)
             item == [its[n] EXCEPT !.value = @ \o entry.value]
  <2>1. n \in 1..n /\ its[n] \in Item
    BY <1>1, EmptySeq
  <2>2. its[n].value \o entry.value \in Text
    BY <2>1, TextConcat DEF Item
  <2>3. item \in Item
    BY <2>1, <2>2 DEF Item
  <2>4. [its EXCEPT ![n] = item] \in Seq(Item)
    <3> HIDE DEF item
    <3> QED BY <2>1, <2>3, ExceptSeq
  <2>5. [its EXCEPT ![n].value = @ \o entry.value] = [its EXCEPT ![n] = item]
    OBVIOUS
  <2>6. Append(its, entry) \in Seq(Item)
    BY AppendProperties
  <2> QED BY <2>4, <2>5, <2>6 DEF PushParsedExtendedEventItem
<1>2. CASE its = << >>
  BY <1>2, AppendProperties DEF PushParsedExtendedEventItem
<1> QED BY <1>1, <1>2

LEMMA ParseItemsIs ==
    ASSUME NEW entries \in Seq(Item), NEW entry \in Item
    PROVE  /\ PushAll(<< >>, << >>) = << >> /\ PushAll(<< >>, entries) \in Seq(Item)
           /\ PushAll(<< >>, entries \o <<entry>>) =
                PushParsedExtendedEventItem(PushAll(<< >>, entries), entry)
<1>1. PICK none \in Seq(Item) : none = << >>
  BY EmptySeq
<1>2. PushAll(none, << >>) = none
  BY ItemsClosed, PushEmpty
<1>3. PushAll(none, entries) \in Seq(Item)
  BY ItemsClosed, PushType
<1>4. PushAll(none, Append(entries, entry)) =
        PushParsedExtendedEventItem(PushAll(none, entries), entry)
  BY ItemsClosed, PushFold
<1>5. Append(entries, entry) = entries \o <<entry>>
  BY AppendIsConcat
<1> QED BY <1>1, <1>2, <1>3, <1>4, <1>5

\* What the parser reads of the list is at every time what was announced.
TextIInv ==
    /\ pieces \in Nat /\ descs \in Seq(Descriptor)
    /\ short_events = Entries(descs, "DID_DVB_SHORT_EVENT")
    /\ genres = Entries(descs, "DID_DVB_CONTENT")
    /\ text = Texts(descs)
    /\ items = PushAll(<< >>, Entries(descs, Ext))

LEMMA TextIInvTypes ==
    ASSUME TextIInv
    PROVE  /\ Entries(descs, Ext) \in Seq(Item) /\ items \in Seq(Item)
           /\ text \in Text /\ Token \in Text
<1>1. Entries(descs, Ext) \in Seq(Item)
  BY ReadType DEF TextIInv, EntryOf
<1>2. items \in Seq(Item)
  <2>1. PICK none \in Seq(Item) : none = << >>
    BY EmptySeq
  <2> QED BY <1>1, <2>1, ItemsClosed, PushType DEF TextIInv
<1>3. text \in Text
  BY ReadType DEF TextIInv
<1>4. Token \in Text
  <2>1. pieces \in TextToken
    BY DEF TextIInv, TextToken
  <2> HIDE DEF TextToken
  <2> QED BY <2>1 DEF Token, Text
<1> QED BY <1>1, <1>2, <1>3, <1>4

LEMMA TextIInvInit == TextInit => TextIInv
<1> SUFFICES ASSUME TextInit PROVE TextIInv
  OBVIOUS
<1>1. << >> \in Seq(Descriptor)
  BY EmptySeq
<1>2. /\ \A tag : Entries(<< >>, tag) = << >>
      /\ Texts(<< >>) = Empty
  BY <1>1, ReadType
<1>3. PushAll(<< >>, << >>) = << >>
  <2>1. PICK none \in Seq(Item) : none = << >>
    BY EmptySeq
  <2> QED BY <2>1, ItemsClosed, PushEmpty
<1>4. descs = << >> /\ items = << >> /\ text = Empty /\ short_events = << >> /\ genres = << >>
      /\ pieces = 0
  BY DEF TextInit
<1> QED BY <1>1, <1>2, <1>3, <1>4 DEF TextIInv

\* An entry put into the list is the next one of the fold.
LEMMA PutEntryIsRead ==
    ASSUME TextIInv, NEW description \in Text, NEW value \in Text,
           PutEntry(description, value),
           items' = PushParsedExtendedEventItem(
                       items, [description |-> description, value |-> value]),
           UNCHANGED <<text, short_events, genres>>
    PROVE  TextIInv'
<1>1. PICK entry \in Item : entry = [description |-> description, value |-> value]
  BY DEF Item
<1>2. PICK entries \in Seq(Item) : entries = <<entry>>
  <2>1. <<entry>> \in Seq(Item)
    OBVIOUS
  <2> QED BY <2>1
<1>3. Put(entries, Empty)
  BY <1>1, <1>2 DEF PutEntry
<1>4. /\ descs' \in Seq(Descriptor)
      /\ Entries(descs', Ext) = Entries(descs, Ext) \o entries
      /\ Texts(descs') = Texts(descs) \o Empty
      /\ \A tag : tag # Ext => Entries(descs', tag) = Entries(descs, tag)
  BY <1>3, TextConcat, PutIsRead DEF TextIInv
<1>5. Texts(descs) \o Empty = Texts(descs)
  BY TextIInvTypes, TextConcat DEF TextIInv
<1>6. PushAll(<< >>, Entries(descs', Ext)) = PushParsedExtendedEventItem(items, entry)
  <2>1. PushAll(<< >>, Entries(descs, Ext) \o <<entry>>) =
          PushParsedExtendedEventItem(PushAll(<< >>, Entries(descs, Ext)), entry)
    BY TextIInvTypes, ParseItemsIs
  <2> QED BY <1>2, <1>4, <2>1 DEF TextIInv
<1>7. pieces' \in Nat
  BY <1>3 DEF Put, TextIInv
<1> QED BY <1>1, <1>4, <1>5, <1>6, <1>7 DEF TextIInv, Ext

LEMMA TextIInvStep == TextIInv /\ [TextNext]_textVars => TextIInv'
<1> SUFFICES ASSUME TextIInv, [TextNext]_textVars PROVE TextIInv'
  OBVIOUS
<1>0. Token \in Text /\ Empty \in Text /\ items \in Seq(Item)
  BY TextIInvTypes, TextConcat
<1>1. ASSUME NEW description \in {Empty, Token}, NEW value \in {Empty, Token},
             BeginItem(description, value)
      PROVE  TextIInv'
  <2>1. PICK d, v : d = description /\ v = value /\ d \in Text /\ v \in Text
    BY <1>0
  <2>2. PushParsedExtendedEventItem(items, [description |-> d, value |-> v])
          = Append(items, [description |-> d, value |-> v])
    BY <1>1, <2>1 DEF BeginItem, PushParsedExtendedEventItem
  <2>3. BeginItem(d, v)
    BY <1>1, <2>1
  <2> QED BY <2>1, <2>2, <2>3, PutEntryIsRead DEF BeginItem
<1>2. ASSUME NEW value \in {Empty, Token}, ContinueItem(value)
      PROVE  TextIInv'
  <2>1. PICK v : v = value /\ v \in Text
    BY <1>0
  <2>2. PushParsedExtendedEventItem(items, [description |-> Empty, value |-> v])
          = [items EXCEPT ![Len(items)].value = @ \o v]
    BY <1>2 DEF ContinueItem, PushParsedExtendedEventItem
  <2>3. ContinueItem(v)
    BY <1>2, <2>1
  <2> QED BY <1>0, <2>1, <2>2, <2>3, PutEntryIsRead DEF ContinueItem
<1>3. CASE AddText
  <2>1. PICK more \in Text : more = Token
    BY <1>0
  <2>2. PICK entries \in Seq(Item) : entries = << >>
    BY EmptySeq
  <2>3. Put(entries, more) /\ text' = text \o more /\ UNCHANGED <<items, short_events, genres>>
    BY <1>3, <2>1, <2>2 DEF AddText
  <2>4. /\ descs' \in Seq(Descriptor)
        /\ Entries(descs', Ext) = Entries(descs, Ext) \o entries
        /\ Texts(descs') = Texts(descs) \o more
        /\ \A tag : tag # Ext => Entries(descs', tag) = Entries(descs, tag)
    BY <2>3, PutIsRead DEF TextIInv
  <2>5. Entries(descs, Ext) \o entries = Entries(descs, Ext)
    BY <2>2, TextIInvTypes, ItemsConcat
  <2>6. pieces' \in Nat
    BY <2>3 DEF Put, TextIInv
  <2> QED BY <2>3, <2>4, <2>5, <2>6 DEF TextIInv, Ext
<1>4. ASSUME NEW tag \in Tags, NEW valid \in BOOLEAN, NEW count \in 0..2,
             AddOther(tag, valid, count), tag = Ext => ~valid
      PROVE  TextIInv'
  <2>1. PICK token \in Text : token = Token
    BY <1>0
  <2>2. PICK entries \in Seq(EntryOf(tag)) :
           entries = IF tag = Ext THEN <<[description |-> token, value |-> token]>>
                     ELSE [i \in 1..count |-> token]
    <3>1. [description |-> token, value |-> token] \in Item
      BY DEF Item
    <3>2. \A item \in Item : <<item>> \in Seq(Item)
      OBVIOUS
    <3>3. [i \in 1..count |-> token] \in [1..count -> Text] /\ count \in Nat
      OBVIOUS
    <3>4. [i \in 1..count |-> token] \in Seq(Text)
      BY <3>3, SeqDef
    <3> QED BY <3>1, <3>2, <3>4 DEF EntryOf
  <2>3. PICK d : d = [tag |-> tag, valid |-> valid, entries |-> entries, text |-> token]
    OBVIOUS
  <2>4. d \in Descriptor
    BY <2>3 DEF Descriptor, EntryOf, Tags
  <2>5. /\ descs' = Append(descs, d) /\ pieces' = pieces + 1
        /\ short_events' = IF valid /\ tag = "DID_DVB_SHORT_EVENT"
                           THEN short_events \o entries ELSE short_events
        /\ genres' = IF valid /\ tag = "DID_DVB_CONTENT" THEN genres \o entries ELSE genres
        /\ UNCHANGED <<items, text>>
    BY <1>4, <2>1, <2>2, <2>3 DEF AddOther, Extended, Ext
  <2>6. /\ descs' \in Seq(Descriptor)
        /\ \A t : Entries(descs', t) = Entries(descs, t) \o EntriesIn(d, t)
        /\ Texts(descs') = Texts(descs) \o TextIn(d)
    BY <2>4, <2>5, ReadAppend, AppendProperties DEF TextIInv
  <2>7. /\ \A t : EntriesIn(d, t) = IF t = tag /\ valid THEN entries ELSE << >>
        /\ TextIn(d) = Empty
    BY <1>4, <2>3 DEF EntriesIn, TextIn, IsRead
  <2>8. /\ \A t : Entries(descs, t) \o << >> = Entries(descs, t)
        /\ Texts(descs) \o Empty = Texts(descs)
    <3>1. \A X : \A s \in Seq(X) : s \o << >> = s
      BY ConcatEmptySeq
    <3> QED BY <3>1, ReadType, TextConcat DEF TextIInv
  <2>9. \A t : Entries(descs', t) = IF t = tag /\ valid THEN Entries(descs, t) \o entries
                                    ELSE Entries(descs, t)
    <3>1. ASSUME NEW t, t = tag /\ valid PROVE Entries(descs', t) = Entries(descs, t) \o entries
      <4>1. EntriesIn(d, t) = entries
        BY <2>7, <3>1
      <4> QED BY <2>6, <4>1
    <3>2. ASSUME NEW t, ~(t = tag /\ valid) PROVE Entries(descs', t) = Entries(descs, t)
      <4>1. EntriesIn(d, t) = << >>
        BY <2>7, <3>2
      <4>2. Entries(descs', t) = Entries(descs, t) \o << >>
        BY <2>6, <4>1
      <4> QED BY <2>8, <4>2
    <3> QED BY <3>1, <3>2
  <2>10. items' = PushAll(<< >>, Entries(descs', Ext))
    BY <1>4, <2>5, <2>9 DEF TextIInv
  <2>11. pieces' \in Nat
    BY <2>5 DEF TextIInv
  <2> QED BY <2>5, <2>6, <2>7, <2>8, <2>9, <2>10, <2>11 DEF TextIInv
<1>5. CASE UNCHANGED textVars
  BY <1>5 DEF TextIInv, textVars
<1>6. ASSUME NEW valid \in BOOLEAN, AddOther("DID_DVB_SHORT_EVENT", valid, 1) PROVE TextIInv'
  BY <1>4, <1>6 DEF Tags, Ext
<1>7. ASSUME NEW valid \in BOOLEAN, NEW count \in 0..2, AddOther("DID_DVB_CONTENT", valid, count)
      PROVE  TextIInv'
  BY <1>4, <1>7 DEF Tags, Ext
<1>8. CASE AddOther(Extended.tag, FALSE, 1)
  <2>1. AddOther(Ext, FALSE, 1)
    BY <1>8 DEF Extended, Ext
  <2>2. PICK valid \in BOOLEAN : AddOther(Ext, valid, 1) /\ ~valid
    BY <2>1, Zenon
  <2>3. Ext \in Tags /\ 1 \in 0..2
    BY DEF Tags
  <2> QED BY <1>4, <2>2, <2>3
<1> QED BY <1>1, <1>2, <1>3, <1>5, <1>6, <1>7, <1>8 DEF TextNext

\* However items and free text are cut over however many descriptors, with whatever else in
\* between: what ParseDescriptors makes of the list is what was meant, piece by piece.
THEOREM EventIsRead == TextInit /\ [][TextNext]_textVars => []EventIsAsMeant
<1>1. TextIInv => EventIsAsMeant
  <2> SUFFICES ASSUME TextIInv PROVE EventIsAsMeant
    OBVIOUS
  <2>1. ParseItems(descs) = items
    BY DEF ParseItems, PushAll, TextIInv, Ext
  <2>2. FormatExtendedText(items, text) = Joined(Append(Parts(items), text))
    BY TextIInvTypes, FormatIsJoined
  <2>3. Meant = Joined(Append(Parts(items), text))
    BY DEF Meant, Parts
  <2> QED BY <2>1, <2>2, <2>3 DEF EventIsAsMeant, ParseDescriptors, TextIInv
<1> QED BY <1>1, TextIInvInit, TextIInvStep, PTL

-----------------------------------------------------------------------------
(* CaptionMetadata: the loops over the regions and over the characters of  *)
(* a ruby region.                                                          *)

\* The fold over the regions, and its steps.
RegionAll(base, seq) == FoldLeft(AddRegion, base, seq)

RegionClosed(Acc, E) == \A a \in Acc, e \in E : AddRegion(a, e) \in Acc

RegionSteps(seq, Acc) ==
    [i \in 1..Len(seq) |-> [a \in Acc |-> AddRegion(a, seq[i])]]

\* It takes the steps one after the other.
LEMMA RegionTrace ==
    ASSUME NEW Acc, NEW E, NEW base \in Acc, NEW seq \in Seq(E),
           RegionClosed(Acc, E)
    PROVE  \E t : /\ Traces(t, base, RegionSteps(seq, Acc), Len(seq), Acc)
                  /\ t[Len(seq)] = RegionAll(base, seq)
<1> DEFINE n == Len(seq)
           H == RegionSteps(seq, Acc)
           Folds(it) == it = [s \in SUBSET (DOMAIN seq) |->
                                IF s = {} THEN base
                                ELSE AddRegion(it[s \ {Max(s)}], seq[Max(s)])]
           c == CHOOSE it : Folds(it)
<1>1. RegionAll(base, seq) = c[DOMAIN seq]
  BY DEF RegionAll, FoldLeft, MapThenFoldSet
<1>2. n \in Nat /\ DOMAIN seq = 1..n /\ \A i \in 1..n : seq[i] \in E
  OBVIOUS
<1>3. /\ H \in [1..n -> [Acc -> Acc]]
      /\ \A i \in 1..n : \A a \in Acc : H[i][a] = AddRegion(a, seq[i])
  BY DEF RegionSteps, RegionClosed
<1> HIDE DEF n, H
<1>4. PICK it \in [SUBSET (1..n) -> Acc] : FoldsSets(it, base, H, n)
  BY <1>2, <1>3, FoldsSetsExists
<1>5. Folds(it)
  <2>1. ASSUME NEW s \in SUBSET (1..n)
        PROVE  it[s] = IF s = {} THEN base
                       ELSE AddRegion(it[s \ {Max(s)}], seq[Max(s)])
    <3>1. it[s] = IF s = {} THEN base ELSE H[Max(s)][it[s \ {Max(s)}]]
      BY <1>4 DEF FoldsSets
    <3>2. CASE s # {}
      <4>1. Max(s) \in 1..n /\ it[s \ {Max(s)}] \in Acc
        BY <1>2, <3>2, MaxIn
      <4> QED BY <1>3, <3>1, <3>2, <4>1
    <3> QED BY <3>1, <3>2
  <2>2. it = [s \in SUBSET (1..n) |-> it[s]]
    OBVIOUS
  <2> QED BY <1>2, <2>1, <2>2
<1>6. Folds(c)
  <2> HIDE DEF Folds
  <2> QED BY <1>5
<1> HIDE DEF c
<1>7. FoldedOn(c, base, H, n, Acc)
  <2>1. \A s \in SUBSET (1..n) :
           c[s] = IF s = {} THEN base ELSE AddRegion(c[s \ {Max(s)}], seq[Max(s)])
    BY <1>2, <1>6
  <2>2. ASSUME NEW s \in SUBSET (1..n), s # {}, c[s \ {Max(s)}] \in Acc
        PROVE  c[s] = H[Max(s)][c[s \ {Max(s)}]]
    <3>1. Max(s) \in 1..n
      BY <1>2, <2>2, MaxIn
    <3> QED BY <1>3, <2>1, <2>2, <3>1
  <2> QED BY <1>2, <1>3, <2>1, <2>2 DEF FoldedOn
<1> HIDE DEF Folds
<1>8. PICK t : Traces(t, base, H, n, Acc) /\ t[n] = c[1..n]
  BY <1>7, FoldTraces
<1> QED BY <1>1, <1>2, <1>8 DEF n, H

LEMMA RegionType ==
    ASSUME NEW Acc, NEW E, NEW base \in Acc, NEW seq \in Seq(E), RegionClosed(Acc, E)
    PROVE  RegionAll(base, seq) \in Acc
<1> DEFINE n == Len(seq)
           H == RegionSteps(seq, Acc)
<1>1. PICK t : Traces(t, base, H, n, Acc) /\ t[n] = RegionAll(base, seq)
  BY RegionTrace
<1> HIDE DEF n, H
<1>2. t[n] \in Acc
  BY <1>1, TracesAgree
<1> QED BY <1>1, <1>2

LEMMA RegionEmpty ==
    ASSUME NEW Acc, NEW E, NEW base \in Acc, RegionClosed(Acc, E)
    PROVE  RegionAll(base, << >>) = base
<1>1. << >> \in Seq(E) /\ Len(<< >>) = 0
  BY EmptySeq
<1>2. PICK t : Traces(t, base, RegionSteps(<< >>, Acc), 0, Acc) /\ t[0] = RegionAll(base, << >>)
  BY <1>1, RegionTrace
<1> QED BY <1>2 DEF Traces

LEMMA RegionFold ==
    ASSUME NEW Acc, NEW E, NEW base \in Acc, NEW seq \in Seq(E), NEW x \in E,
           RegionClosed(Acc, E)
    PROVE  RegionAll(base, Append(seq, x)) = AddRegion(RegionAll(base, seq), x)
<1> DEFINE n == Len(seq)
           more == Append(seq, x)
           H == RegionSteps(seq, Acc)
           K == RegionSteps(more, Acc)
<1>1. /\ n \in Nat /\ more \in Seq(E) /\ Len(more) = n + 1 /\ more[n + 1] = x
      /\ \A i \in 1..n : more[i] = seq[i]
  BY AppendProperties
<1>2. PICK t : Traces(t, base, H, n, Acc) /\ t[n] = RegionAll(base, seq)
  BY RegionTrace
<1> HIDE DEF more
<1>3. PICK u : Traces(u, base, K, Len(more), Acc) /\ u[Len(more)] = RegionAll(base, more)
  BY <1>1, RegionTrace
<1>4. /\ \A i \in 1..n : K[i] = H[i]
      /\ K[Len(more)] = [a \in Acc |-> AddRegion(a, x)]
  BY <1>1 DEF RegionSteps
<1> HIDE DEF n, H, K
<1>5. StepsMore(H, K, n, Len(more))
  BY <1>1, <1>4 DEF StepsMore
<1>6. t[n] \in Acc /\ RegionAll(base, more) = K[Len(more)][t[n]]
  BY <1>2, <1>3, <1>5, TraceMore
<1> QED BY <1>2, <1>4, <1>6 DEF more

\* The fold over the characters of a region, and its steps.
CharAll(base, seq) == FoldLeft(AppendUtf8Text, base, seq)

CharClosed(Acc, E) == \A a \in Acc, e \in E : AppendUtf8Text(a, e) \in Acc

CharSteps(seq, Acc) ==
    [i \in 1..Len(seq) |-> [a \in Acc |-> AppendUtf8Text(a, seq[i])]]

\* It takes the steps one after the other.
LEMMA CharTrace ==
    ASSUME NEW Acc, NEW E, NEW base \in Acc, NEW seq \in Seq(E),
           CharClosed(Acc, E)
    PROVE  \E t : /\ Traces(t, base, CharSteps(seq, Acc), Len(seq), Acc)
                  /\ t[Len(seq)] = CharAll(base, seq)
<1> DEFINE n == Len(seq)
           H == CharSteps(seq, Acc)
           Folds(it) == it = [s \in SUBSET (DOMAIN seq) |->
                                IF s = {} THEN base
                                ELSE AppendUtf8Text(it[s \ {Max(s)}], seq[Max(s)])]
           c == CHOOSE it : Folds(it)
<1>1. CharAll(base, seq) = c[DOMAIN seq]
  BY DEF CharAll, FoldLeft, MapThenFoldSet
<1>2. n \in Nat /\ DOMAIN seq = 1..n /\ \A i \in 1..n : seq[i] \in E
  OBVIOUS
<1>3. /\ H \in [1..n -> [Acc -> Acc]]
      /\ \A i \in 1..n : \A a \in Acc : H[i][a] = AppendUtf8Text(a, seq[i])
  BY DEF CharSteps, CharClosed
<1> HIDE DEF n, H
<1>4. PICK it \in [SUBSET (1..n) -> Acc] : FoldsSets(it, base, H, n)
  BY <1>2, <1>3, FoldsSetsExists
<1>5. Folds(it)
  <2>1. ASSUME NEW s \in SUBSET (1..n)
        PROVE  it[s] = IF s = {} THEN base
                       ELSE AppendUtf8Text(it[s \ {Max(s)}], seq[Max(s)])
    <3>1. it[s] = IF s = {} THEN base ELSE H[Max(s)][it[s \ {Max(s)}]]
      BY <1>4 DEF FoldsSets
    <3>2. CASE s # {}
      <4>1. Max(s) \in 1..n /\ it[s \ {Max(s)}] \in Acc
        BY <1>2, <3>2, MaxIn
      <4> QED BY <1>3, <3>1, <3>2, <4>1
    <3> QED BY <3>1, <3>2
  <2>2. it = [s \in SUBSET (1..n) |-> it[s]]
    OBVIOUS
  <2> QED BY <1>2, <2>1, <2>2
<1>6. Folds(c)
  <2> HIDE DEF Folds
  <2> QED BY <1>5
<1> HIDE DEF c
<1>7. FoldedOn(c, base, H, n, Acc)
  <2>1. \A s \in SUBSET (1..n) :
           c[s] = IF s = {} THEN base ELSE AppendUtf8Text(c[s \ {Max(s)}], seq[Max(s)])
    BY <1>2, <1>6
  <2>2. ASSUME NEW s \in SUBSET (1..n), s # {}, c[s \ {Max(s)}] \in Acc
        PROVE  c[s] = H[Max(s)][c[s \ {Max(s)}]]
    <3>1. Max(s) \in 1..n
      BY <1>2, <2>2, MaxIn
    <3> QED BY <1>3, <2>1, <2>2, <3>1
  <2> QED BY <1>2, <1>3, <2>1, <2>2 DEF FoldedOn
<1> HIDE DEF Folds
<1>8. PICK t : Traces(t, base, H, n, Acc) /\ t[n] = c[1..n]
  BY <1>7, FoldTraces
<1> QED BY <1>1, <1>2, <1>8 DEF n, H

LEMMA CharType ==
    ASSUME NEW Acc, NEW E, NEW base \in Acc, NEW seq \in Seq(E), CharClosed(Acc, E)
    PROVE  CharAll(base, seq) \in Acc
<1> DEFINE n == Len(seq)
           H == CharSteps(seq, Acc)
<1>1. PICK t : Traces(t, base, H, n, Acc) /\ t[n] = CharAll(base, seq)
  BY CharTrace
<1> HIDE DEF n, H
<1>2. t[n] \in Acc
  BY <1>1, TracesAgree
<1> QED BY <1>1, <1>2

LEMMA CharEmpty ==
    ASSUME NEW Acc, NEW E, NEW base \in Acc, CharClosed(Acc, E)
    PROVE  CharAll(base, << >>) = base
<1>1. << >> \in Seq(E) /\ Len(<< >>) = 0
  BY EmptySeq
<1>2. PICK t : Traces(t, base, CharSteps(<< >>, Acc), 0, Acc) /\ t[0] = CharAll(base, << >>)
  BY <1>1, CharTrace
<1> QED BY <1>2 DEF Traces

LEMMA CharFold ==
    ASSUME NEW Acc, NEW E, NEW base \in Acc, NEW seq \in Seq(E), NEW x \in E,
           CharClosed(Acc, E)
    PROVE  CharAll(base, Append(seq, x)) = AppendUtf8Text(CharAll(base, seq), x)
<1> DEFINE n == Len(seq)
           more == Append(seq, x)
           H == CharSteps(seq, Acc)
           K == CharSteps(more, Acc)
<1>1. /\ n \in Nat /\ more \in Seq(E) /\ Len(more) = n + 1 /\ more[n + 1] = x
      /\ \A i \in 1..n : more[i] = seq[i]
  BY AppendProperties
<1>2. PICK t : Traces(t, base, H, n, Acc) /\ t[n] = CharAll(base, seq)
  BY CharTrace
<1> HIDE DEF more
<1>3. PICK u : Traces(u, base, K, Len(more), Acc) /\ u[Len(more)] = CharAll(base, more)
  BY <1>1, CharTrace
<1>4. /\ \A i \in 1..n : K[i] = H[i]
      /\ K[Len(more)] = [a \in Acc |-> AppendUtf8Text(a, x)]
  BY <1>1 DEF CharSteps
<1> HIDE DEF n, H, K
<1>5. StepsMore(H, K, n, Len(more))
  BY <1>1, <1>4 DEF StepsMore
<1>6. t[n] \in Acc /\ CharAll(base, more) = K[Len(more)][t[n]]
  BY <1>2, <1>3, <1>5, TraceMore
<1> QED BY <1>2, <1>4, <1>6 DEF more

CaptionChar == [u8str : Seq(Nat), text_color : Colors]
Region == [is_ruby : BOOLEAN, chars : Seq(CaptionChar)]

\* The text of all these characters.
Utf8(chars) == FlattenSeq([i \in DOMAIN chars |-> chars[i].u8str])

LEMMA Utf8Append ==
    ASSUME NEW chars \in Seq(CaptionChar), NEW ch \in CaptionChar
    PROVE  Utf8(Append(chars, ch)) = Utf8(chars) \o ch.u8str
<1> DEFINE n == Len(chars)
           more == Append(chars, ch)
           f == [i \in DOMAIN chars |-> chars[i].u8str]
           g == [i \in DOMAIN more |-> more[i].u8str]
<1>1. /\ n \in Nat /\ more[n + 1] = ch /\ \A i \in 1..n : more[i] = chars[i]
      /\ DOMAIN more = 1..(n + 1) /\ DOMAIN chars = 1..n
  <2>1. more \in Seq(CaptionChar) /\ Len(more) = n + 1
    BY AppendProperties
  <2> QED BY <2>1, AppendProperties, LenProperties
<1>2. /\ \A i \in 1..n : chars[i].u8str \in Seq(Nat)
      /\ ch.u8str \in Seq(Nat)
  <2>1. \A c \in CaptionChar : c.u8str \in Seq(Nat)
    BY DEF CaptionChar
  <2> QED BY <2>1
<1> HIDE DEF n, more
<1>3. f \in Seq(Seq(Nat)) /\ Len(f) = n
  <2>1. f \in [1..n -> Seq(Nat)]
    BY <1>1, <1>2
  <2> HIDE DEF f
  <2> QED BY <1>1, <2>1, FunctionLen
<1>4. OneMore(Seq(Nat), f, ch.u8str, g)
  <2>1. (\A i \in 1..n : i \in 1..(n + 1)) /\ n + 1 \in 1..(n + 1)
    BY <1>1
  <2>2. DOMAIN g = 1..(n + 1) /\ (\A i \in 1..n : g[i] = f[i]) /\ g[n + 1] = ch.u8str
    BY <1>1, <2>1
  <2>3. g = [i \in DOMAIN g |-> g[i]]
    OBVIOUS
  <2> HIDE DEF f, g
  <2> QED BY <1>2, <1>3, <2>2, <2>3 DEF OneMore
<1>5. FlattenSeq(g) = FlattenSeq(f) \o ch.u8str
  <2> HIDE DEF f, g
  <2> QED BY <1>4, FlattenMore
<1> QED BY <1>5 DEF Utf8, more

LEMMA Utf8Type ==
    ASSUME NEW chars \in Seq(CaptionChar)
    PROVE  Utf8(chars) \in Seq(Nat) /\ Utf8(<< >>) = << >>
<1> DEFINE f == [i \in DOMAIN chars |-> chars[i].u8str]
<1>1. f \in Seq(Seq(Nat))
  <2>1. DOMAIN chars = 1..Len(chars) /\ Len(chars) \in Nat
    BY LenProperties
  <2>2. \A i \in 1..Len(chars) : chars[i].u8str \in Seq(Nat)
    <3>1. \A c \in CaptionChar : c.u8str \in Seq(Nat)
      BY DEF CaptionChar
    <3> QED BY <3>1
  <2>3. f \in [1..Len(chars) -> Seq(Nat)]
    BY <2>1, <2>2
  <2> HIDE DEF f
  <2> QED BY <2>1, <2>3, SeqDef
<1>2. FlattenSeq(f) \in Seq(Nat)
  <2> HIDE DEF f
  <2> QED BY <1>1, FlattenSeqType
<1>3. [i \in DOMAIN << >> |-> << >>[i].u8str] = << >>
  OBVIOUS
<1> QED BY <1>2, <1>3, FlattenSeqEmpty DEF Utf8

LEMMA Utf8Associative ==
    ASSUME NEW p \in Seq(Nat), NEW q \in Seq(Nat), NEW r \in Seq(Nat)
    PROVE  (p \o q) \o r = p \o (q \o r)
BY ConcatAssociative, SMTT(30)

LEMMA Utf8Concat ==
    ASSUME NEW a \in Seq(CaptionChar), NEW b \in Seq(CaptionChar)
    PROVE  Utf8(a \o b) = Utf8(a) \o Utf8(b)
<1> DEFINE T == {s \in Seq(CaptionChar) : Utf8(a \o s) # Utf8(a) \o Utf8(s)}
<1>1. T \subseteq Seq(CaptionChar)
  OBVIOUS
<1>2. << >> \notin T
  <2>1. a \o << >> = a
    BY ConcatEmptySeq
  <2>2. Utf8(a) \o << >> = Utf8(a)
    BY Utf8Type, ConcatEmptySeq
  <2>3. Utf8(a \o << >>) = Utf8(a) \o Utf8(<< >>)
    BY <2>1, <2>2, Utf8Type
  <2> QED BY <2>3
<1>3. ASSUME NEW s \in Seq(CaptionChar), NEW ch \in CaptionChar, s \notin T
      PROVE  Append(s, ch) \notin T
  <2>1. a \o Append(s, ch) = Append(a \o s, ch)
    <3>1. /\ a \o s \in Seq(CaptionChar) /\ <<ch>> \in Seq(CaptionChar)
          /\ Append(s, ch) = s \o <<ch>>
      BY ConcatProperties, AppendIsConcat
    <3>2. Append(a \o s, ch) = (a \o s) \o <<ch>>
      BY <3>1, AppendIsConcat
    <3>3. (a \o s) \o <<ch>> = a \o (s \o <<ch>>)
      BY <3>1, ConcatAssociative
    <3> QED BY <3>1, <3>2, <3>3
  <2>2. Utf8(a \o Append(s, ch)) = Utf8(a \o s) \o ch.u8str
    <3>1. a \o s \in Seq(CaptionChar)
      BY ConcatProperties
    <3> QED BY <2>1, <3>1, Utf8Append
  <2>3. Utf8(a \o s) = Utf8(a) \o Utf8(s)
    BY <1>3
  <2>4. Utf8(Append(s, ch)) = Utf8(s) \o ch.u8str
    BY Utf8Append
  <2>5. (Utf8(a) \o Utf8(s)) \o ch.u8str = Utf8(a) \o (Utf8(s) \o ch.u8str)
    <3>1. Utf8(a) \in Seq(Nat) /\ Utf8(s) \in Seq(Nat) /\ ch.u8str \in Seq(Nat)
      BY Utf8Type DEF CaptionChar
    <3> QED BY <3>1, Utf8Associative
  <2> QED BY <2>2, <2>3, <2>4, <2>5
<1> HIDE DEF T
<1>4. T = {}
  BY <1>1, <1>2, <1>3, ShortestSeq
<1> QED BY <1>4 DEF T

\* The text of a ruby region is that of its characters: skipping those without loses none.
LEMMA RubyTextIs ==
    ASSUME NEW chars \in Seq(CaptionChar)
    PROVE  RubyText(chars) = Utf8(chars)
<1> DEFINE T == {s \in Seq(CaptionChar) : RubyText(s) # Utf8(s)}
<1>1. CharClosed(Seq(Nat), CaptionChar)
  BY DEF CharClosed, AppendUtf8Text, CaptionChar
<1>2. PICK none \in Seq(Nat) : none = << >>
  BY EmptySeq
<1>3. /\ RubyText(<< >>) = << >>
      /\ \A s \in Seq(CaptionChar), ch \in CaptionChar :
            RubyText(Append(s, ch)) = AppendUtf8Text(RubyText(s), ch)
  <2>1. \A s : RubyText(s) = CharAll(<< >>, s)
    BY DEF RubyText, CharAll
  <2>2. CharAll(none, << >>) = none
    BY <1>1, CharEmpty
  <2>3. ASSUME NEW s \in Seq(CaptionChar), NEW ch \in CaptionChar
        PROVE  CharAll(none, Append(s, ch)) = AppendUtf8Text(CharAll(none, s), ch)
    BY <1>1, CharFold
  <2> QED BY <1>2, <2>1, <2>2, <2>3
<1>4. T \subseteq Seq(CaptionChar) /\ << >> \notin T
  BY <1>3, Utf8Type
<1>5. ASSUME NEW s \in Seq(CaptionChar), NEW ch \in CaptionChar, s \notin T
      PROVE  Append(s, ch) \notin T
  <2>1. RubyText(Append(s, ch)) = AppendUtf8Text(Utf8(s), ch)
    BY <1>3, <1>5
  <2>2. AppendUtf8Text(Utf8(s), ch) = Utf8(s) \o ch.u8str
    <3>1. Utf8(s) \o << >> = Utf8(s)
      BY Utf8Type, ConcatEmptySeq
    <3> QED BY <3>1 DEF AppendUtf8Text, HasUtf8Text
  <2> QED BY <2>1, <2>2, Utf8Append
<1> HIDE DEF T
<1>6. T = {}
  BY <1>4, <1>5, ShortestSeq
<1> QED BY <1>6 DEF T

\* The characters of one region more.
CharsIn(region, kinds) == IF region.is_ruby \in kinds THEN region.chars ELSE << >>

LEMMA CharsInType ==
    ASSUME NEW region \in Region, NEW kinds
    PROVE  CharsIn(region, kinds) \in Seq(CaptionChar)
<1>1. << >> \in Seq(CaptionChar)
  BY EmptySeq
<1> QED BY <1>1 DEF CharsIn, Region

LEMMA CharsOfType ==
    ASSUME NEW rs \in Seq(Region), NEW kinds
    PROVE  CharsOf(rs, kinds) \in Seq(CaptionChar) /\ CharsOf(<< >>, kinds) = << >>
<1> DEFINE f == [i \in DOMAIN rs |-> IF rs[i].is_ruby \in kinds THEN rs[i].chars ELSE << >>]
<1>1. f \in Seq(Seq(CaptionChar))
  <2>1. DOMAIN rs = 1..Len(rs) /\ Len(rs) \in Nat
    BY LenProperties
  <2>2. \A i \in 1..Len(rs) : CharsIn(rs[i], kinds) \in Seq(CaptionChar)
    BY CharsInType
  <2>3. f \in [1..Len(rs) -> Seq(CaptionChar)]
    BY <2>1, <2>2 DEF CharsIn
  <2> HIDE DEF f
  <2> QED BY <2>1, <2>3, SeqDef
<1>2. FlattenSeq(f) \in Seq(CaptionChar)
  <2> HIDE DEF f
  <2> QED BY <1>1, FlattenSeqType
<1>3. [i \in DOMAIN << >> |->
         IF << >>[i].is_ruby \in kinds THEN << >>[i].chars ELSE << >>] = << >>
  OBVIOUS
<1> QED BY <1>2, <1>3, FlattenSeqEmpty DEF CharsOf

LEMMA CharsOfAppend ==
    ASSUME NEW rs \in Seq(Region), NEW region \in Region, NEW kinds
    PROVE  CharsOf(Append(rs, region), kinds) = CharsOf(rs, kinds) \o CharsIn(region, kinds)
<1> DEFINE n == Len(rs)
           more == Append(rs, region)
           f == [i \in DOMAIN rs |-> IF rs[i].is_ruby \in kinds THEN rs[i].chars ELSE << >>]
           g == [i \in DOMAIN more |->
                   IF more[i].is_ruby \in kinds THEN more[i].chars ELSE << >>]
<1>1. /\ n \in Nat /\ more[n + 1] = region /\ \A i \in 1..n : more[i] = rs[i]
      /\ DOMAIN more = 1..(n + 1) /\ DOMAIN rs = 1..n
  <2>1. more \in Seq(Region) /\ Len(more) = n + 1
    BY AppendProperties
  <2> QED BY <2>1, AppendProperties, LenProperties
<1>2. /\ \A i \in 1..n : CharsIn(rs[i], kinds) \in Seq(CaptionChar)
      /\ CharsIn(region, kinds) \in Seq(CaptionChar)
  BY CharsInType
<1> HIDE DEF n, more
<1>3. f \in Seq(Seq(CaptionChar)) /\ Len(f) = n
  <2>1. f \in [1..n -> Seq(CaptionChar)]
    BY <1>1, <1>2 DEF CharsIn
  <2> HIDE DEF f
  <2> QED BY <1>1, <2>1, FunctionLen
<1>4. OneMore(Seq(CaptionChar), f, CharsIn(region, kinds), g)
  <2>1. (\A i \in 1..n : i \in 1..(n + 1)) /\ n + 1 \in 1..(n + 1)
    BY <1>1
  <2>2. DOMAIN g = 1..(n + 1) /\ (\A i \in 1..n : g[i] = f[i])
    BY <1>1, <2>1
  <2>3. g[n + 1] = CharsIn(region, kinds)
    BY <1>1, <2>1 DEF CharsIn
  <2>4. g = [i \in DOMAIN g |-> g[i]]
    OBVIOUS
  <2> HIDE DEF f, g
  <2> QED BY <1>2, <1>3, <2>2, <2>3, <2>4 DEF OneMore
<1>5. FlattenSeq(g) = FlattenSeq(f) \o CharsIn(region, kinds)
  <2> HIDE DEF f, g
  <2> QED BY <1>4, FlattenMore
<1> QED BY <1>5 DEF CharsOf, more

-----------------------------------------------------------------------------
ColorHexes == {None} \cup {ColorToRgbaHex(color) : color \in Colors}
Metadata == [ruby : Seq(Seq(Nat)), color : ColorHexes]

\* What the metadata of these regions has to be.
ColorOf(body) == IF body = << >> THEN None ELSE ColorToRgbaHex(body[1].text_color)

IsMetadataOf(metadata, rs) ==
    /\ metadata \in Metadata
    /\ metadata.color = ColorOf(CharsOf(rs, {FALSE}))
    /\ FlattenSeq(metadata.ruby) = Utf8(CharsOf(rs, {TRUE}))
    /\ \A i \in DOMAIN metadata.ruby : metadata.ruby[i] # << >>

LEMMA AddRegionType == RegionClosed(Metadata, Region)
<1> SUFFICES ASSUME NEW metadata \in Metadata, NEW region \in Region
             PROVE  AddRegion(metadata, region) \in Metadata
  BY DEF RegionClosed
<1>1. region.chars \in Seq(CaptionChar) /\ RubyText(region.chars) \in Seq(Nat)
  BY RubyTextIs, Utf8Type DEF Region
<1>2. metadata.ruby \in Seq(Seq(Nat)) /\ metadata.color \in ColorHexes
  BY DEF Metadata
<1>3. Append(metadata.ruby, RubyText(region.chars)) \in Seq(Seq(Nat))
  BY <1>1, <1>2, AppendProperties
<1>4. region.chars # << >> => ColorToRgbaHex(Head(region.chars).text_color) \in ColorHexes
  <2>1. region.chars # << >> => Head(region.chars) \in CaptionChar
    BY <1>1, HeadTailProperties
  <2> QED BY <2>1 DEF CaptionChar, ColorHexes
<1> HIDE DEF ColorHexes
<1> QED BY <1>2, <1>3, <1>4 DEF AddRegion, Metadata

\* One region more: it gives ruby, or the color if there is none yet.
LEMMA AddRegionKeepsMetadata ==
    ASSUME NEW rs \in Seq(Region), NEW region \in Region, NEW metadata,
           IsMetadataOf(metadata, rs)
    PROVE  IsMetadataOf(AddRegion(metadata, region), Append(rs, region))
<1> DEFINE more == Append(rs, region)
           new == AddRegion(metadata, region)
           body == CharsOf(rs, {FALSE})
           ruby == CharsOf(rs, {TRUE})
           chars == region.chars
<1> SUFFICES IsMetadataOf(new, more)
  OBVIOUS
<1>0. /\ CharsOf(more, {FALSE}) = body \o CharsIn(region, {FALSE})
      /\ CharsOf(more, {TRUE}) = ruby \o CharsIn(region, {TRUE})
  BY CharsOfAppend
<1>1. metadata \in Metadata /\ new \in Metadata
  BY AddRegionType DEF IsMetadataOf, RegionClosed
<1>2. metadata.ruby \in Seq(Seq(Nat)) /\ metadata.color \in ColorHexes
  BY <1>1 DEF Metadata
<1>3. chars \in Seq(CaptionChar) /\ body \in Seq(CaptionChar) /\ ruby \in Seq(CaptionChar)
  BY CharsOfType DEF Region
<1>4. CASE region.is_ruby
  <2>1. CharsOf(more, {FALSE}) = body /\ CharsOf(more, {TRUE}) = ruby \o chars
    <3>1. CharsIn(region, {FALSE}) = << >> /\ CharsIn(region, {TRUE}) = chars
      BY <1>4 DEF CharsIn, Region
    <3>2. body \o << >> = body
      BY <1>3, ConcatEmptySeq
    <3> HIDE DEF more, body, ruby, chars
    <3> QED BY <1>0, <3>1, <3>2
  <2>2. new.color = metadata.color
    BY <1>1, <1>4 DEF AddRegion, Metadata
  <2>3. /\ RubyText(chars) = Utf8(chars) /\ Utf8(chars) \in Seq(Nat)
        /\ Utf8(ruby \o chars) = Utf8(ruby) \o Utf8(chars)
    BY <1>3, RubyTextIs, Utf8Type, Utf8Concat
  <2>4. CASE RubyText(chars) = << >>
    <3>1. new = metadata
      BY <1>4, <2>4 DEF AddRegion
    <3>2. Utf8(ruby) \o Utf8(chars) = Utf8(ruby)
      BY <1>3, <2>3, <2>4, Utf8Type, ConcatEmptySeq
    <3> HIDE DEF new, more, body, ruby, chars
    <3> QED BY <2>1, <2>3, <3>1, <3>2 DEF IsMetadataOf, body, ruby
  <2>5. CASE RubyText(chars) # << >>
    <3>1. new.ruby = Append(metadata.ruby, Utf8(chars))
      BY <1>1, <1>4, <2>3, <2>5 DEF AddRegion, Metadata
    <3>2. FlattenSeq(new.ruby) = FlattenSeq(metadata.ruby) \o Utf8(chars)
      BY <1>2, <2>3, <3>1, FlattenSeqAppend
    <3>3. \A i \in DOMAIN new.ruby : new.ruby[i] # << >>
      <4>1. PICK s \in Seq(Seq(Nat)), x \in Seq(Nat) :
              s = metadata.ruby /\ x = Utf8(chars) /\ x # << >>
        BY <1>2, <2>3, <2>5
      <4>2. /\ Len(s) \in Nat /\ DOMAIN s = 1..Len(s)
            /\ DOMAIN Append(s, x) = 1..(Len(s) + 1) /\ Append(s, x)[Len(s) + 1] = x
            /\ \A i \in 1..Len(s) : Append(s, x)[i] = s[i]
        <5>1. Append(s, x) \in Seq(Seq(Nat)) /\ Len(Append(s, x)) = Len(s) + 1
          BY AppendProperties
        <5> QED BY <5>1, AppendProperties, LenProperties
      <4>3. \A i \in 1..(Len(s) + 1) : i \in 1..Len(s) \/ i = Len(s) + 1
        BY <4>2
      <4>4. \A i \in DOMAIN s : s[i] # << >>
        BY <4>1 DEF IsMetadataOf
      <4> HIDE DEF new
      <4> QED BY <3>1, <4>1, <4>2, <4>3, <4>4
    <3> HIDE DEF new, more, body, ruby, chars
    <3> QED BY <1>1, <2>1, <2>2, <2>3, <3>2, <3>3 DEF IsMetadataOf, body, ruby
  <2> QED BY <2>4, <2>5
<1>5. CASE ~region.is_ruby
  <2>1. CharsOf(more, {FALSE}) = body \o chars /\ CharsOf(more, {TRUE}) = ruby
    <3>1. CharsIn(region, {FALSE}) = chars /\ CharsIn(region, {TRUE}) = << >>
      BY <1>5 DEF CharsIn, Region
    <3>2. ruby \o << >> = ruby
      BY <1>3, ConcatEmptySeq
    <3> HIDE DEF more, body, ruby, chars
    <3> QED BY <1>0, <3>1, <3>2
  <2>2. new.ruby = metadata.ruby
    BY <1>1, <1>5 DEF AddRegion, Metadata
  <2>3. new.color = ColorOf(body \o chars)
    <3>1. CASE body # << >>
      <4>1. body \o chars # << >> /\ (body \o chars)[1] = body[1]
        <5>1. Len(body) \in Nat \ {0} /\ Len(chars) \in Nat
          BY <1>3, <3>1, EmptySeq
        <5>2. (body \o chars)[1] = body[1]
          BY <1>3, <5>1, ConcatProperties
        <5>3. body \o chars # << >>
          BY <1>3, <3>1, ConcatEqualIffEmpty
        <5> QED BY <5>2, <5>3
      <4>2. body[1] \in CaptionChar
        BY <1>3, <3>1, EmptySeq
      <4>3. metadata.color # None
        BY <3>1, <4>2, NoColorAssumption DEF IsMetadataOf, ColorOf, CaptionChar
      <4>4. new = metadata
        BY <1>5, <4>3 DEF AddRegion
      <4>5. metadata.color = ColorOf(body)
        BY DEF IsMetadataOf
      <4> HIDE DEF new, body, chars
      <4> QED BY <3>1, <4>1, <4>4, <4>5 DEF ColorOf
    <3>2. CASE body = << >>
      <4>1. body \o chars = chars
        BY <1>3, <3>2, ConcatEmptySeq
      <4>2. metadata.color = None
        BY <3>2 DEF IsMetadataOf, ColorOf
      <4>3. new.color = IF chars = << >> THEN None
                        ELSE ColorToRgbaHex(Head(chars).text_color)
        BY <1>1, <1>5, <4>2 DEF AddRegion, Metadata
      <4>4. chars # << >> => Head(chars) = chars[1]
        BY <1>3
      <4> HIDE DEF new, body, chars
      <4> QED BY <4>1, <4>3, <4>4 DEF ColorOf
    <3> QED BY <3>1, <3>2
  <2> HIDE DEF new, more, body, ruby, chars
  <2> QED BY <1>1, <2>1, <2>2, <2>3 DEF IsMetadataOf, body, ruby
<1> QED BY <1>4, <1>5

LEMMA ExtractsMetadata ==
    ASSUME NEW rs \in Seq(Region)
    PROVE  IsMetadataOf(ExtractCaptionMetadata(rs), rs)
<1> DEFINE T == {s \in Seq(Region) : ~IsMetadataOf(ExtractCaptionMetadata(s), s)}
<1>1. PICK none \in Metadata : none = [ruby |-> << >>, color |-> None]
  <2>1. << >> \in Seq(Seq(Nat))
    BY EmptySeq
  <2> QED BY <2>1 DEF Metadata, ColorHexes
<1>2. \A s : ExtractCaptionMetadata(s) = RegionAll(none, s)
  BY <1>1 DEF ExtractCaptionMetadata, RegionAll
<1>3. ExtractCaptionMetadata(<< >>) = none
  <2>1. RegionAll(none, << >>) = none
    BY AddRegionType, RegionEmpty
  <2> QED BY <1>2, <2>1
<1>4. << >> \notin T
  <2>1. CharsOf(<< >>, {FALSE}) = << >> /\ CharsOf(<< >>, {TRUE}) = << >>
    BY CharsOfType
  <2>2. Utf8(<< >>) = << >>
    <3>1. << >> \in Seq(CaptionChar)
      BY EmptySeq
    <3> QED BY <3>1, Utf8Type
  <2>3. none.ruby = << >> /\ none.color = None
    BY <1>1
  <2>4. DOMAIN << >> = {}
    OBVIOUS
  <2>5. IsMetadataOf(none, << >>)
    BY <2>1, <2>2, <2>3, <2>4, FlattenSeqEmpty DEF IsMetadataOf, ColorOf
  <2> QED BY <1>3, <2>5
<1>5. ASSUME NEW s \in Seq(Region), NEW region \in Region, s \notin T
      PROVE  Append(s, region) \notin T
  <2>1. RegionAll(none, Append(s, region)) = AddRegion(RegionAll(none, s), region)
    BY AddRegionType, RegionFold
  <2>2. IsMetadataOf(RegionAll(none, s), s)
    BY <1>2, <1>5
  <2>3. IsMetadataOf(RegionAll(none, Append(s, region)), Append(s, region))
    BY <2>1, <2>2, AddRegionKeepsMetadata
  <2> QED BY <1>2, <2>3
<1>6. T \subseteq Seq(Region)
  OBVIOUS
<1> HIDE DEF T
<1>7. T = {}
  BY <1>4, <1>5, <1>6, ShortestSeq
<1> QED BY <1>7 DEF T

\* The digits of a color are its bytes: none is shifted out or overlaps another.
LEMMA DigitsAreBytes ==
    ASSUME NEW color \in Colors
    PROVE  LET hex == ColorToRgbaHex(color)
               digits(i) == Shl(hex[2 * i - 1], 4) \cup hex[2 * i]
           IN  /\ digits(1) = color.r /\ digits(2) = color.g
               /\ digits(3) = color.b /\ digits(4) = color.a
<1> DEFINE hex == ColorToRgbaHex(color)
           word == Rgba(color)
<1>1. /\ color.r \subseteq 0..7 /\ color.g \subseteq 0..7
      /\ color.b \subseteq 0..7 /\ color.a \subseteq 0..7
  BY ColorsAssumption
<1>2. ASSUME NEW bit \in Int
      PROVE  bit \in word <=> \/ bit - 24 \in color.r \/ bit - 16 \in color.g
                              \/ bit - 8 \in color.b \/ bit \in color.a
  <2>1. /\ bit \in Shl(color.r, 24) <=> bit - 24 \in color.r
        /\ bit \in Shl(color.g, 16) <=> bit - 16 \in color.g
        /\ bit \in Shl(color.b, 8) <=> bit - 8 \in color.b
    BY <1>1 DEF Shl
  <2> QED BY <2>1 DEF Rgba
<1>3. word \subseteq 0..31
  BY <1>1 DEF Rgba, Shl
<1>4. ASSUME NEW k \in 1..8, NEW x
      PROVE  x \in hex[k] <=> x \in 0..3 /\ x + (32 - 4 * k) \in word
  <2>1. hex[k] = Cast(Shr(word, 32 - 4 * k), 4)
    BY DEF ColorToRgbaHex
  <2> HIDE DEF word, hex
  <2> DEFINE n == 32 - 4 * k
  <2>2. n \in Nat
    OBVIOUS
  <2> HIDE DEF n
  <2>3. x \in Cast(Shr(word, n), 4) <=> x \in 0..3 /\ x + n \in word
    <3>1. x \in Cast(Shr(word, n), 4) <=> x \in 0..3 /\ \E j \in word : j >= n /\ x = j - n
      BY DEF Cast, Shr
    <3>2. ASSUME x \in 0..3 PROVE (\E j \in word : j >= n /\ x = j - n) <=> x + n \in word
      <4>1. \A j \in word : j \in Int
        BY <1>3
      <4>2. \A j \in Int : x = j - n <=> j = x + n
        BY <2>2, <3>2
      <4>3. x + n >= n /\ x + n \in Int
        BY <2>2, <3>2
      <4> QED BY <4>1, <4>2, <4>3
    <3> QED BY <3>1, <3>2
  <2> QED BY <2>1, <2>3 DEF n
<1> HIDE DEF word, hex
<1>5. ASSUME NEW i \in 1..4, NEW x
      PROVE  x \in Shl(hex[2 * i - 1], 4) \cup hex[2 * i] <=>
               x \in 0..7 /\ x + (32 - 8 * i) \in word
  <2>1. 2 * i - 1 \in 1..8 /\ 2 * i \in 1..8
    OBVIOUS
  <2>2. x \in Shl(hex[2 * i - 1], 4) <=> x \in 4..7 /\ x + (32 - 8 * i) \in word
    <3>1. x \in Shl(hex[2 * i - 1], 4) <=> \E j \in hex[2 * i - 1] : x = j + 4
      BY DEF Shl
    <3>2. \A j : j \in hex[2 * i - 1] <=> j \in 0..3 /\ j + (32 - 4 * (2 * i - 1)) \in word
      BY <1>4, <2>1
    <3>3. \A j \in 0..3 : j + (32 - 4 * (2 * i - 1)) = (j + 4) + (32 - 8 * i)
      OBVIOUS
    <3>4. \A j : j \in hex[2 * i - 1] <=> j \in 0..3 /\ (j + 4) + (32 - 8 * i) \in word
      BY <3>2, <3>3
    <3>5. ASSUME x \in 4..7 PROVE x - 4 \in 0..3 /\ (x - 4) + 4 = x
      BY <3>5
    <3>6. ASSUME NEW j \in 0..3 PROVE j + 4 \in 4..7
      OBVIOUS
    <3> QED BY <3>1, <3>4, <3>5, <3>6
  <2>3. x \in hex[2 * i] <=> x \in 0..3 /\ x + (32 - 8 * i) \in word
    <3>1. 32 - 4 * (2 * i) = 32 - 8 * i
      OBVIOUS
    <3> QED BY <1>4, <2>1, <3>1
  <2> QED BY <2>2, <2>3
<1>6. ASSUME NEW x \in 0..7
      PROVE  /\ x + 24 \in word <=> x \in color.r
             /\ x + 16 \in word <=> x \in color.g
             /\ x + 8 \in word <=> x \in color.b
             /\ x \in word <=> x \in color.a
  BY <1>1, <1>2
<1> DEFINE digits(i) == Shl(hex[2 * i - 1], 4) \cup hex[2 * i]
<1>7. /\ \A x : x \in digits(1) <=> x \in 0..7 /\ x + 24 \in word
      /\ \A x : x \in digits(2) <=> x \in 0..7 /\ x + 16 \in word
      /\ \A x : x \in digits(3) <=> x \in 0..7 /\ x + 8 \in word
      /\ \A x : x \in digits(4) <=> x \in 0..7 /\ x \in word
  <2>1. \A i \in 1..4 : \A x : x \in digits(i) <=> x \in 0..7 /\ x + (32 - 8 * i) \in word
    BY <1>5
  <2> HIDE DEF digits
  <2>2. 1 \in 1..4 /\ 2 \in 1..4 /\ 3 \in 1..4 /\ 4 \in 1..4
    OBVIOUS
  <2>3. 32 - 8 * 1 = 24 /\ 32 - 8 * 2 = 16 /\ 32 - 8 * 3 = 8 /\ \A x \in 0..7 : x + (32 - 8 * 4) = x
    OBVIOUS
  <2> QED BY <2>1, <2>2, <2>3
<1>8. digits(1) = color.r /\ digits(2) = color.g /\ digits(3) = color.b /\ digits(4) = color.a
  <2> HIDE DEF digits
  <2>1. \A x : x \in digits(1) <=> x \in color.r
    BY <1>1, <1>6, <1>7
  <2>2. \A x : x \in digits(2) <=> x \in color.g
    BY <1>1, <1>6, <1>7
  <2>3. \A x : x \in digits(3) <=> x \in color.b
    BY <1>1, <1>6, <1>7
  <2>4. \A x : x \in digits(4) <=> x \in color.a
    BY <1>1, <1>6, <1>7
  <2> QED BY <2>1, <2>2, <2>3, <2>4
<1> QED BY <1>8 DEF hex

\* Any caption at all: what the emitter takes from it is right.
LEMMA MetadataIsRight ==
    ASSUME regions \in Seq(Region)
    PROVE  MetadataIsOfCaption
<1> DEFINE body == CharsOf(regions, {FALSE})
<1>1. PICK metadata : /\ metadata = ExtractCaptionMetadata(regions)
                      /\ IsMetadataOf(metadata, regions)
  BY ExtractsMetadata
<1>2. ColorIsOfBody(metadata.color)
  <2>1. metadata.color = ColorOf(body)
    BY <1>1 DEF IsMetadataOf
  <2>2. CASE body = << >>
    BY <2>1, <2>2 DEF ColorIsOfBody, ColorOf
  <2>3. CASE body # << >>
    <3>1. body[1] \in CaptionChar
      <4>1. body \in Seq(CaptionChar)
        BY CharsOfType
      <4> HIDE DEF body
      <4> QED BY <2>3, <4>1, EmptySeq
    <3>2. PICK color \in Colors : color = body[1].text_color
      BY <3>1 DEF CaptionChar
    <3>3. metadata.color = ColorToRgbaHex(color)
      BY <2>1, <2>3, <3>2 DEF ColorOf
    <3> QED BY <2>3, <3>2, <3>3, DigitsAreBytes DEF ColorIsOfBody
  <2> QED BY <2>2, <2>3
<1>3. RubyIsComplete(metadata.ruby)
  BY <1>1 DEF IsMetadataOf, RubyIsComplete, Utf8, ToSet
<1> QED BY <1>1, <1>2, <1>3 DEF MetadataIsOfCaption

\* However a caption is cut into regions, and however many there are: a record has the
\* color of its body and all of its ruby.
THEOREM MetadataIsTaken ==
    CaptionInit /\ [][CaptionNext]_regions => []MetadataIsOfCaption
<1> DEFINE Inv == regions \in Seq(Region)
<1>1. CaptionInit => Inv
  BY EmptySeq DEF CaptionInit
<1>2. Inv /\ [CaptionNext]_regions => Inv'
  <2> SUFFICES ASSUME Inv, [CaptionNext]_regions PROVE Inv'
    OBVIOUS
  <2>1. ASSUME NEW is_ruby \in BOOLEAN, BeginRegion(is_ruby) PROVE Inv'
    <3>1. [is_ruby |-> is_ruby, chars |-> << >>] \in Region
      <4>1. << >> \in Seq(CaptionChar)
        BY EmptySeq
      <4> QED BY <4>1 DEF Region
    <3> QED BY <2>1, <3>1, AppendProperties DEF BeginRegion
  <2>2. ASSUME NEW has_text \in BOOLEAN, NEW text_color \in Colors, AddChar(has_text, text_color)
        PROVE  Inv'
    <3> DEFINE n == Len(regions)
               u8str == IF has_text THEN <<Len(CharsOf(regions, BOOLEAN))>> ELSE << >>
               ch == [u8str |-> u8str, text_color |-> text_color]
               region == [regions[n] EXCEPT !.chars = Append(@, ch)]
    <3>1. u8str \in Seq(Nat)
      <4>1. Len(CharsOf(regions, BOOLEAN)) \in Nat
        BY CharsOfType, LenProperties
      <4>2. \A k \in Nat : <<k>> \in Seq(Nat)
        OBVIOUS
      <4>3. << >> \in Seq(Nat)
        BY EmptySeq
      <4> QED BY <4>1, <4>2, <4>3
    <3> HIDE DEF u8str
    <3>2. ch \in CaptionChar
      BY <3>1 DEF CaptionChar
    <3>3. n \in 1..n /\ regions[n] \in Region
      BY <2>2, EmptySeq DEF AddChar
    <3> HIDE DEF ch, n
    <3>4. Append(regions[n].chars, ch) \in Seq(CaptionChar)
      BY <3>2, <3>3, AppendProperties DEF Region
    <3>5. region \in Region
      BY <3>3, <3>4 DEF Region
    <3>6. regions' = [regions EXCEPT ![n] = region]
      BY <2>2 DEF AddChar, n, ch, u8str
    <3> HIDE DEF region
    <3> QED BY <3>3, <3>5, <3>6, ExceptSeq DEF n
  <2>3. CASE UNCHANGED regions
    BY <2>3
  <2> QED BY <2>1, <2>2, <2>3 DEF CaptionNext
<1>3. Inv => MetadataIsOfCaption
  BY MetadataIsRight
<1> QED BY <1>1, <1>2, <1>3, PTL
=============================================================================
