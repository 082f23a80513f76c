------------------------- MODULE MCRTCPPacketBuilder -------------------------
(***************************************************************************)
(* Constants for the runs of RTCPPacketBuilder.  A sender report leaves    *)
(* room for two blocks, a receiver report for three; two items fill more   *)
(* than a packet.                                                          *)
(***************************************************************************)
EXTENDS RTCPPacketBuilder

MCSources == <<"s1", "s2", "s3", "s4", "s5">>
MCMemberships == {{}, {"s1"}, {"s1", "s2", "s3"}, {"s2", "s3", "s4", "s5"}}
MCInterval == [t \in Items |-> CASE t = "NAME" -> 1 [] t = "NOTE" -> 2 [] OTHER -> -1]
MCItemLength == [t \in Items |-> IF t = "NAME" THEN 30 ELSE 40]

===============================================================================
