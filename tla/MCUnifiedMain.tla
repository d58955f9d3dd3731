--------------------------- MODULE MCUnifiedMain ---------------------------
(* The cross-platform program on each board. Addresses are of one byte; the packets *)
(* hold each kind of byte the framing treats on its own, in the address and behind.  *)
EXTENDS UnifiedMain

MCPackets == { << <<1>>, <<2>> >>,
               << <<5>>, <<6, 7>> >>,
               << <<1>>, <<3, START_BYTE>> >>,
               << <<END_BYTE>>, <<4>> >> }
MCStrays == {0}
=============================================================================
