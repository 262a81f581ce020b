----------------------------- MODULE OpusDecoder -----------------------------
(***************************************************************************)
(* The native side of Java's OpusDecoder: one stream with whoever drives it *)
(* (OpusConsumer), or, in the mode "gate", threads that restore streams     *)
(* from a checkpoint already taken and meet at the gate (RestoreGate).  A   *)
(* restored stream is a copy of an immutable checkpoint and shares nothing  *)
(* with the one it was taken from; what becomes of it is the mode "free".   *)
(***************************************************************************)
EXTENDS OpusConsumer, RestoreGate

CONSTANT GateStream   \* the stream nobody touches while the gate is used

ASSUME GateStreamAssumption == GateStream \in Streams

DecoderInit ==
  /\ Init /\ GateInit
  /\ chunk = 0
  /\ \/ mode \in IF DrainsEachFeed THEN {"free", "next"} ELSE {"drain"}
     \/ DrainsEachFeed /\ mode = "gate" /\ stream = GateStream

DecoderNext ==
  \/ (JavaDrives \/ LoopNext) /\ UNCHANGED gateVars
  \/ mode = "gate" /\ GateNext /\ UNCHANGED cvars

DecoderSpec ==
  /\ DecoderInit /\ [][DecoderNext]_<<cvars, gateVars>>
  /\ WF_cvars(LoopNext) /\ GateFairness
=============================================================================
