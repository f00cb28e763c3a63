------------------------------- MODULE PesPts --------------------------------
(***************************************************************************)
(* ParsePesPts (ts_utils.cc) on PES headers as ISO/IEC 13818-1 lays them   *)
(* out, sound or with one bit of the header damaged.                       *)
(*                                                                         *)
(* A header is the set of its 1 bits, each a pair of byte index and bit;   *)
(* the code's literals stand as the positions of their 1 bits.             *)
(*                                                                         *)
(* The operators named Slip... are not part of the model: each is a way    *)
(* the operator after it could have been got wrong (README, "Mutants").    *)
(***************************************************************************)
EXTENDS Words

CONSTANT Ptss    \* the PTSs tried, as words

ASSUME PtssAssumption == Ptss \subseteq SUBSET (0..32)

VARIABLES packet,    \* [hasLongHeader, headerSize, header]
          pts,       \* the PTS that was put in
          damaged    \* the header's bits damaged since: none or one

pesVars == <<packet, pts, damaged>>

-----------------------------------------------------------------------------
\* header[i], and ts::GetUInt16(header + i), which is big-endian.
Byte(header, i) == {bit \in 0..7 : <<i, bit>> \in header}
GetUInt16(header, i) == Shl(Byte(header, i), 8) \cup Byte(header, i + 1)

PtsDtsFlags(header) == Byte(header, 7) \cap {6, 7}

\* Slip: the second marker bit is not looked at.
SlipTwoMarkers(header) ==
    LET flags == PtsDtsFlags(header)
        prefix == Byte(header, 9) \cap {0, 4, 5, 6, 7}
    IN  /\ flags = {7} => prefix = {0, 5}
        /\ flags = {6, 7} => prefix = {0, 4, 5}
        /\ 0 \in Byte(header, 13)

\* The prefix goes with the flags, and the marker bits are set.
FieldIsSound(header) ==
    LET flags == PtsDtsFlags(header)
        prefix == Byte(header, 9) \cap {0, 4, 5, 6, 7}
    IN  /\ flags = {7} => prefix = {0, 5}
        /\ flags = {6, 7} => prefix = {0, 4, 5}
        /\ 0 \in Byte(header, 11)
        /\ 0 \in Byte(header, 13)

\* The three parts of the field, put together and masked with PTS_DTS_MASK.
PtsOf(header) ==
    Cast(Shl(Byte(header, 9) \cap (1..3), 29)
           \cup Shl(GetUInt16(header, 10) \cap (1..15), 14)
           \cup Shr(GetUInt16(header, 12), 1), 33)

ParsePesPts(p) ==
    IF /\ p.hasLongHeader /\ p.headerSize >= 14
       /\ PtsDtsFlags(p.header) \in {{7}, {6, 7}}
       /\ FieldIsSound(p.header)
    THEN PtsOf(p.header) ELSE None

-----------------------------------------------------------------------------
\* Where bit i of the PTS stands: 3 bits in byte 9, then 15 in each of two byte pairs, each
\* group followed by a marker bit.
Position(i) ==
    CASE i >= 30 -> <<9, i - 29>>
      [] i \in 22..29 -> <<10, i - 22>>
      [] i \in 15..21 -> <<11, i - 14>>
      [] i \in 7..14 -> <<12, i - 7>>
      [] i <= 6 -> <<13, i + 1>>

Markers == {<<9, 0>>, <<11, 0>>, <<13, 0>>}

\* '10' and '0010' for a PTS alone, '11' and '0011' with a DTS; byte 7 has other flags.
FlagBits == {<<7, 7>>, <<7, 6>>}
PrefixBits == {<<9, bit>> : bit \in 4..7}

Sealed(with_dts) ==
    Markers \cup {<<7, 7>>, <<9, 5>>} \cup (IF with_dts THEN {<<7, 6>>, <<9, 4>>} ELSE {})

Encoded(word, with_dts, others) ==
    Sealed(with_dts) \cup {Position(i) : i \in word} \cup others

PesInit ==
    /\ pts \in Ptss
    /\ damaged = {}
    /\ \E with_dts \in BOOLEAN, long \in BOOLEAN, size \in 13..14,
         others \in {{}, {<<7, 0>>, <<8, 3>>}} :
          packet = [hasLongHeader |-> long, headerSize |-> size,
                    header |-> Encoded(pts, with_dts, others)]

\* One bit of the flags or of the field is damaged.
Damage(bit) ==
    /\ damaged = {}
    /\ damaged' = {bit}
    /\ packet' = [packet EXCEPT !.header = (@ \ {bit}) \cup ({bit} \ @)]
    /\ UNCHANGED pts

PesNext == \E bit \in {7} \X (0..7) \cup (9..13) \X (0..7) : Damage(bit)

PesSpec == PesInit /\ [][PesNext]_pesVars

-----------------------------------------------------------------------------
HasField == packet.hasLongHeader /\ packet.headerSize >= 14

Protected == FlagBits \cup PrefixBits \cup Markers

\* A PTS is read back bit for bit, whatever else the header says; a header too short gives
\* none; a damaged bit of flags, prefix or markers makes it none rather than another.
PtsIsReadBack ==
    ParsePesPts(packet) =
        IF ~HasField \/ damaged \cap Protected # {} THEN None
        ELSE (pts \ {i \in pts : Position(i) \in damaged})
               \cup {i \in (0..32) \ pts : Position(i) \in damaged}
=============================================================================
