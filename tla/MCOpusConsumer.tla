--------------------------- MODULE MCOpusConsumer ---------------------------
(* Java and the two loops, over the inputs of OpusSamples.                 *)
EXTENDS OpusConsumer, OpusSamples
=============================================================================
