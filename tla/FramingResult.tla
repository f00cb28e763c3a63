---------------------------- MODULE FramingResult ----------------------------
(***************************************************************************)
(* The packets of an input and the verdict on it, computed from the whole  *)
(* of it, and that this is what PacketFramer comes to however the input is *)
(* chunked.                                                                *)
(***************************************************************************)
EXTENDS PacketFramer, SequencesExt

Starts(s, q) == q < s.len /\ q \in s.sync
Locks(s, q) ==
    /\ q + kSyncProbeSize <= s.len
    /\ \A i \in 0..(SyncProbePackets - 1) : Starts(s, q + i * PktSize)

\* Sync is found in the first packet's length of the input.
HasSync(s) == \E q \in 0..(PktSize - 1) : Locks(s, q)

Past(cut) == cut[Len(cut)][1] + PktSize

\* After the packets already cut, one begins at q: where the last one ends, if it starts
\* with a sync byte, and where an alignment starts.
Begins(s, cut, q) ==
    /\ cut # << >> => Past(cut) <= q
    /\ \/ Locks(s, q)
       \/ cut # << >> /\ q = Past(cut) /\ Starts(s, q) /\ q + PktSize <= s.len

Extended(s, cut, q) ==
    IF Begins(s, cut, q) THEN Append(cut, Bytes(q, q + PktSize)) ELSE cut

\* The packets that begin at the first n offsets, for each n.
Cut(s) ==
    LET cut[n \in 0..s.len] == IF n = 0 THEN << >> ELSE Extended(s, cut[n - 1], n - 1)
    IN  cut

PacketsIn(s) == IF HasSync(s) THEN Cut(s)[s.len] ELSE << >>
VerdictOn(s) == IF HasSync(s) THEN "kOk" ELSE "kNoSync"

\* What is delivered, and the verdict, do not depend on how the reader chunks the
\* stream: they are those of framing it as one piece, and a refusal or a read error
\* only cuts the delivery short.
ChunkingDoesNotShow ==
    /\ IsPrefix(delivered, PacketsIn(stream))
    /\ ~Running /\ ReadFrameStatus # "kFailed" =>
         /\ ReadFrameStatus = VerdictOn(stream)
         /\ delivered = PacketsIn(stream)
=============================================================================
