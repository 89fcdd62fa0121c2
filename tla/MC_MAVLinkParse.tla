-------------------------- MODULE MC_MAVLinkParse --------------------------
(* A four-symbol byte alphabet with 3 as the start marker; CRC_EXTRA       *)
(* values that differ between msgids.  MCKnown leaves msgid 3 out of the   *)
(* registry, so its frames fail their CRC on receipt.                      *)
EXTENDS MAVLinkParse

MCBytes == 0..3
MCKnown == 0..2
MCCrcExtra == [b \in 0..3 |-> (b * 3 + 1) % 4]
=============================================================================
