---------------------------- MODULE OpusConsumer ----------------------------
(***************************************************************************)
(* Who drives a stream.  Java may call anything at any time (OpusStream's  *)
(* own Next), or a loop feeds it chunk by chunk and drains it: with        *)
(* DrainsEachFeed, ValidateComplete of modules/codec/src/codec/audio.cc,   *)
(* which decodes all there is after every Feed; without, the loop printed  *)
(* in docs/infrastructure/opus_cn.md, which decodes between chunks only.   *)
(* Both loops take a Feed that consumed nothing for an error.              *)
(***************************************************************************)
EXTENDS OpusStream

CONSTANTS
  DrainsEachFeed,   \* which of the two loops
  Buffer            \* the size of its output buffer

ASSUME ConsumerAssumption == DrainsEachFeed \in BOOLEAN /\ Buffer \in Capacities \ {0}

VARIABLES
  mode,    \* "free" for Java; where the loop is: "next", "feed", "drain", "end"; its answer
  chunk    \* what is left of the current chunk

cvars == <<vars, mode, chunk>>

Looped  == {"next", "feed", "drain", "end"}
Answers == {"ok", "refused", "no_progress"}

ConsumerInit ==
  /\ Init
  /\ mode \in IF DrainsEachFeed THEN {"free", "next"} ELSE {"drain"}
  /\ chunk = 0

NextChunk ==
  /\ mode = "next" /\ fed < Units(stream)
  /\ \E n \in 1 .. Units(stream) - fed : chunk' = n
  /\ mode' = "feed"
  /\ UNCHANGED vars

NoMoreChunks ==
  /\ mode = "next" /\ fed = Units(stream)
  /\ EndInput
  /\ mode' = "end"
  /\ UNCHANGED chunk

\* What the loop does with the result of a Feed that has returned.
AfterFeedKeepsOn(left) == IF left = 0 THEN "drain" ELSE "feed"     \* mutant
AfterFeed(left) == IF DrainsEachFeed \/ left = 0 THEN "drain" ELSE "feed"

Left(count) == chunk - count

FeedAnswered ==
  LET count == fed' - fed IN
  IF status' \in {"feed_error", "exception"}
  THEN mode' = "refused" /\ UNCHANGED chunk
  ELSE IF count = 0
  THEN mode' = "no_progress" /\ UNCHANGED chunk
  ELSE chunk' = Left(count) /\ mode' = AfterFeed(chunk')

FeedChunk ==
  /\ mode = "feed"
  /\ \/ Feed(chunk)
     \/ Step
  /\ IF at' = "idle" THEN FeedAnswered ELSE UNCHANGED <<mode, chunk>>

AfterDrain == IF chunk > 0 THEN "feed" ELSE "next"
Drain ==
  /\ mode = "drain"
  /\ Decode(Buffer)
  /\ UNCHANGED chunk
  /\ mode' = CASE status' = "pcm" -> "drain"
               [] status' = "need_input" -> AfterDrain
               [] OTHER -> "refused"

CountedFrames == Len(heard) = stream.expected

DrainEnd ==
  /\ mode = "end"
  /\ Decode(Buffer)
  /\ UNCHANGED chunk
  /\ mode' = CASE status' = "pcm" -> "end"
               [] status' = "eof" -> IF CountedFrames THEN "ok" ELSE "refused"
               [] OTHER -> "refused"

JavaDrives == mode = "free" /\ Next /\ UNCHANGED <<mode, chunk>>

LoopNext == NextChunk \/ NoMoreChunks \/ FeedChunk \/ Drain \/ DrainEnd

\* One thread runs a loop to its answer; nothing makes Java call again.
ConsumerSpec == ConsumerInit /\ [][JavaDrives \/ LoopNext]_cvars /\ WF_cvars(LoopNext)

-----------------------------------------------------------------------------
(* Properties.                                                             *)

\* A sound stream is accepted, wherever the chunks are cut, unless something
\* threw: no Feed that takes nothing is mistaken for a broken stream.  Nor does
\* it fail Java, whatever is captured and restored: a Feed only fails after
\* EndInput, a Decode only when that came too early.
GoodStreamsAccepted ==
  stream.good /\ ~threw =>
    /\ mode \notin {"refused", "no_progress"}
    /\ status = "feed_error"   => st.input_ended
    /\ status = "decode_error" => fed < Units(stream)

\* A loop comes to an answer.
Answered == mode \in Looped ~> mode \in Answers
=============================================================================
