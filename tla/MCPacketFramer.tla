--------------------------- MODULE MCPacketFramer ---------------------------
(***************************************************************************)
(* PacketFramer on every small input and every way to chunk it.            *)
(***************************************************************************)
EXTENDS FramingResult

CONSTANTS MaxLen,    \* every input of at most MaxLen bytes
          TailLen    \* and every TailLen bytes after a locked probe window

Short == UNION {{[len |-> n, sync |-> S] : S \in SUBSET (0..(n - 1))} : n \in 0..MaxLen}

Probe == {i * PktSize : i \in 0..(SyncProbePackets - 1)}

Resyncing ==
    {[len |-> kSyncProbeSize + TailLen, sync |-> Probe \cup S] :
        S \in SUBSET (kSyncProbeSize..(kSyncProbeSize + TailLen - 1))}

MCStreams == Short \cup Resyncing

\* packet_framer.hpp:50 of a true result: "the input reached EOF with sync established
\* and every packet delivered".  Violated: a resync window can be left unconfirmed.
EofLeavesNoWholePacket == status = "true" => Len(pending) < PktSize
=============================================================================
