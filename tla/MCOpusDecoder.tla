---------------------------- MODULE MCOpusDecoder ----------------------------
(* Java, the loop of ValidateComplete and the gate, over the inputs of      *)
(* OpusSamples; three threads restore.                                      *)
EXTENDS OpusDecoder, OpusSamples

CONSTANTS r1, r2, r3
MCGateStream == S(Cut, 2, CutSound, TRUE)
=============================================================================
