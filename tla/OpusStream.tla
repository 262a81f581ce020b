----------------------------- MODULE OpusStream -----------------------------
(***************************************************************************)
(* OpusAudioStream of modules/codec/src/codec/opus.cc: one logical         *)
(* Ogg/Opus stream fed in pieces of any size, decoded to PCM, captured in  *)
(* checkpoints and restored from them, with the page reader of mini_ogg.cc.*)
(* Every allocation may throw; nothing then marks the stream as failed.    *)
(*                                                                         *)
(* A page arrives in two units, its header and the rest; unit u belongs to *)
(* page u \div 2.  A packet is the sequence of its pieces.  The libopus    *)
(* decoder is the list of the packets it has decoded, a sample that list   *)
(* and an offset: two samples are equal when every input they depend on    *)
(* is.  Java holds the stream, knows how far it has fed and keeps what it  *)
(* has heard; after a call that throws it may call anything again.         *)
(***************************************************************************)
EXTENDS Naturals, Sequences, SequencesExt

CONSTANTS
  Packets,     \* for each packet: [kind, frames, parts]
  Streams,     \* the inputs: [pages, expected, pcm, good]
  PreSkip,     \* pre_skip of the header
  Capacities   \* sizes of the buffers passed to Decode, in samples

Unknown == 999      \* kOggUnknownGranule
Page == [sequence : Nat, serial : Nat, granule : Nat, bos : BOOLEAN, eos : BOOLEAN,
         continuation : BOOLEAN, crc : BOOLEAN,
         pieces : Seq([packet : DOMAIN Packets, part : Nat, last : BOOLEAN])]

ASSUME PacketsAssumption ==
  \A p \in DOMAIN Packets : Packets[p] \in [kind : {"head", "tags", "audio"}, frames : Nat,
                                            parts : Nat \ {0}]
ASSUME StreamsAssumption ==
  \A s \in Streams : s.pages \in Seq(Page) /\ s.expected \in Nat /\ s.good \in BOOLEAN
ASSUME NumbersAssumption == PreSkip \in Nat /\ Capacities \subseteq Nat

VARIABLES
  stream,        \* the input
  \* OpusStreamState, and the members a checkpoint treats one by one
  st, decoder_, page_buffer_, packet_buffer_, pcm_buffer_, checkpoint,
  \* Feed in progress: its input, the page and the packets of it left to decode
  at, input, consumed, page, packets,
  \* Java: units fed, samples heard, the last result, whether a call threw
  fed, heard, status, threw

decoding == <<st, decoder_, page_buffer_, packet_buffer_, pcm_buffer_>>
feeding  == <<at, input, consumed, page, packets>>
java     == <<fed, heard, status, threw>>
vars     == <<stream, decoding, checkpoint, feeding, java>>

-----------------------------------------------------------------------------

Units(s)  == 2 * Len(s.pages)
PageAt(u) == stream.pages[(u \div 2) + 1]

Fresh(expected) ==
  [expected_frames |-> expected, decoded_frames |-> 0, emitted_frames |-> 0, origin |-> 0,
   previous_granule |-> 0, serial |-> 0, next_sequence |-> 0, header_state |-> "head",
   has_stream |-> FALSE, has_origin |-> FALSE, has_granule |-> FALSE,
   eos_seen |-> FALSE, input_ended |-> FALSE, failed |-> FALSE]

NoPage == [pieces |-> <<>>, eos |-> FALSE, granule |-> 0]
NoCheckpoint == [st |-> Fresh(0), decoder |-> <<>>, packet |-> <<>>, fed |-> 0, taken |-> FALSE]

Init ==
  /\ stream \in Streams
  /\ st = Fresh(stream.expected)
  /\ decoder_ = <<>> /\ page_buffer_ = <<>> /\ packet_buffer_ = <<>> /\ pcm_buffer_ = <<>>
  /\ checkpoint = NoCheckpoint
  /\ at = "idle" /\ input = 0 /\ consumed = 0 /\ page = NoPage /\ packets = <<>>
  /\ fed = 0 /\ heard = <<>> /\ status = "none" /\ threw = FALSE

\* Feed returns: Java moves on by what was consumed.
Return(result, count) ==
  /\ status' = result
  /\ fed' = fed + count
  /\ at' = "idle" /\ input' = 0 /\ consumed' = 0 /\ page' = NoPage /\ packets' = <<>>
  /\ UNCHANGED <<stream, checkpoint, heard, threw>>

\* FailFeed.  Nothing reads the rest of a failed stream again.
FailFeed ==
  /\ st' = [st EXCEPT !.failed = TRUE]
  /\ pcm_buffer_' = <<>>
  /\ Return("feed_error", 0)
  /\ UNCHANGED <<decoder_, page_buffer_, packet_buffer_>>

\* An exception leaves Feed: Java learns nothing of what was consumed.
Throw ==
  /\ status' = "exception" /\ threw' = TRUE
  /\ at' = "idle" /\ input' = 0 /\ consumed' = 0 /\ page' = NoPage /\ packets' = <<>>
  /\ UNCHANGED <<stream, checkpoint, fed, heard>>

-----------------------------------------------------------------------------

Feed(n) ==
  /\ at = "idle"
  /\ ~st.failed
  /\ IF st.input_ended \/ (st.eos_seen /\ n > 0)
     THEN FailFeed
     ELSE IF pcm_buffer_ # <<>>
     THEN Return("output_ready", 0) /\ UNCHANGED decoding
     ELSE /\ at' = "loop" /\ input' = n /\ consumed' = 0 /\ status' = "none"
          /\ UNCHANGED <<stream, decoding, checkpoint, page, packets, fed, heard, threw>>

Looping == at = "loop" /\ (consumed < input \/ page_buffer_ # <<>>)

FeedReturns ==
  /\ at = "loop" /\ ~Looping
  /\ Return(IF consumed = 0 THEN "need_input" ELSE "progress", consumed)
  /\ UNCHANGED decoding

\* The units ReadOggPage is given, as far as there are any: what is staged,
\* or else the input itself.
Offered == IF page_buffer_ # <<>> THEN page_buffer_
           ELSE [i \in 1 .. IF input - consumed < 2 THEN input - consumed ELSE 2 |->
                   fed + consumed + i - 1]

Incomplete(units) == Len(units) < 2
ReadablePage(units) ==
  /\ units[1] % 2 = 0
  /\ Len(units) = 2 => units[2] = units[1] + 1 /\ PageAt(units[1]).crc

Taken == consumed
InputSpentNever == FALSE                                          \* mutant
InputSpent == consumed = input

NeedInput ==
  /\ Looping
  /\ Incomplete(Offered) /\ InputSpent
  /\ Return("need_input", Taken)
  /\ UNCHANGED decoding

\* CopyPageFragment, one unit at a time.
CopyPageFragment ==
  /\ Looping
  /\ Incomplete(Offered) /\ consumed < input
  /\ \/ /\ page_buffer_' = Append(page_buffer_, fed + consumed)
        /\ consumed' = consumed + 1
        /\ UNCHANGED <<stream, st, decoder_, packet_buffer_, pcm_buffer_, checkpoint>>
        /\ UNCHANGED <<at, input, page, packets, java>>
     \/ Throw /\ UNCHANGED decoding

BadPage ==
  /\ Looping
  /\ ~Incomplete(Offered)
  /\ ~ReadablePage(Offered)
  /\ FailFeed

-----------------------------------------------------------------------------
(* ProcessPage.                                                            *)

\* Pieces of a page continue the packet left open by the page before it.
Assembled(p) ==
  FoldLeft(LAMBDA acc, piece :
             IF piece.last
             THEN [done |-> Append(acc.done, Append(acc.open, piece)), open |-> <<>>]
             ELSE [acc EXCEPT !.open = Append(@, piece)],
           [done |-> <<>>, open |-> packet_buffer_], p.pieces)

\* A packet put together from the wrong pieces is still decoded as something.
Whole(pk) == \A i \in 1 .. Len(pk) :
               /\ pk[i].packet = pk[1].packet /\ pk[i].part = i
               /\ Packets[pk[1].packet].parts = Len(pk)
Kind(pk)   == IF Whole(pk) THEN Packets[pk[1].packet].kind ELSE "audio"
Frames(pk) == IF Whole(pk) THEN Packets[pk[1].packet].frames ELSE 1
Name(pk)   == IF Whole(pk) THEN pk[1].packet ELSE "garbage"

ContinuesStreamAnySequence(p) ==                                  \* mutant
  IF ~st.has_stream THEN p.bos ELSE ~p.bos /\ p.serial = st.serial
ContinuesStream(p) ==
  IF ~st.has_stream
  THEN p.bos /\ ~p.continuation /\ p.sequence = 0
  ELSE ~p.bos /\ p.serial = st.serial /\ p.sequence = st.next_sequence

ContinuesPacket(p) == p.continuation <=> packet_buffer_ # <<>>

\* The headers still to come, and how many packets of the page they take.
Headers == IF st.header_state = "head" THEN <<"head", "tags">>
           ELSE IF st.header_state = "tags" THEN <<"tags">> ELSE <<>>
HeaderCount(done) == IF Len(done) < Len(Headers) THEN Len(done) ELSE Len(Headers)
HeadersRead(done) == \A i \in 1 .. HeaderCount(done) : Kind(done[i]) = Headers[i]
HeaderStateAfter(done) ==
  CASE Len(Headers) - HeaderCount(done) = 0 -> "audio"
    [] Len(Headers) - HeaderCount(done) = 1 -> "tags"
    [] OTHER -> "head"

Audio(done) == SubSeq(done, HeaderCount(done) + 1, Len(done))
DecodedAfter(done) ==
  st.decoded_frames + FoldLeft(LAMBDA sum, pk : sum + Frames(pk), 0, Audio(done))

\* The position of the first sample, from the first page of audio.
Origin(p, after) ==
  IF st.has_origin THEN st.origin
  ELSE IF p.granule < after THEN 0 ELSE p.granule - after

GranuleFits(p, after) ==
  LET origin == Origin(p, after) IN
  /\ p.granule # Unknown
  /\ st.has_origin \/ p.eos \/ p.granule >= after
  /\ p.granule >= origin
  /\ st.has_granule => p.granule >= st.previous_granule
  /\ IF p.eos THEN p.granule - origin \in st.decoded_frames .. after
     ELSE p.granule - origin = after

PageFits(p) ==
  LET a == Assembled(p) IN
  /\ ContinuesStream(p)
  /\ ContinuesPacket(p)
  /\ ~st.eos_seen
  /\ p.eos => a.open = <<>>
  /\ HeadersRead(a.done)
  /\ \A i \in DOMAIN Audio(a.done) : Frames(Audio(a.done)[i]) > 0
  /\ Audio(a.done) # <<>> => GranuleFits(p, DecodedAfter(a.done))
  /\ p.eos => Audio(a.done) # <<>>

\* Everything before the first packet is decoded.
ProcessPage ==
  /\ Looping
  /\ ~Incomplete(Offered)
  /\ ReadablePage(Offered)
  /\ LET p == PageAt(Offered[1])
         a == Assembled(p)
     IN  IF ~PageFits(p)
         THEN FailFeed
         ELSE /\ st' = [st EXCEPT
                   !.has_stream = TRUE, !.serial = p.serial, !.next_sequence = @ + 1,
                   !.header_state = HeaderStateAfter(a.done),
                   !.origin = IF Audio(a.done) # <<>>
                              THEN Origin(p, DecodedAfter(a.done)) ELSE @,
                   !.has_origin = @ \/ Audio(a.done) # <<>>,
                   !.previous_granule = IF Audio(a.done) # <<>> THEN p.granule ELSE @,
                   !.has_granule = @ \/ Audio(a.done) # <<>>]
              /\ packet_buffer_' = a.open
              /\ page' = [pieces |-> p.pieces, eos |-> p.eos, granule |-> p.granule]
              /\ packets' = Audio(a.done)
              /\ consumed' = IF page_buffer_ = <<>> THEN consumed + 2 ELSE consumed
              /\ at' = "decode"
              /\ UNCHANGED <<stream, decoder_, page_buffer_, pcm_buffer_, checkpoint, input, java>>

\* Append throws while the packets are put together: the page counts as seen,
\* and the open packet may have got a fragment (part 0) of its next piece.
ProcessPageThrows ==
  /\ Looping
  /\ ~Incomplete(Offered)
  /\ ReadablePage(Offered)
  /\ LET p == PageAt(Offered[1]) IN
     /\ ContinuesStream(p) /\ ContinuesPacket(p) /\ ~st.eos_seen
     /\ st' = [st EXCEPT !.has_stream = TRUE, !.serial = p.serial, !.next_sequence = @ + 1]
     /\ \/ /\ packet_buffer_ # <<>> /\ p.pieces # <<>>
           /\ packet_buffer_' \in {packet_buffer_,
                                 Append(packet_buffer_, [p.pieces[1] EXCEPT !.part = 0])}
        \/ /\ packet_buffer_ = <<>> \/ Assembled(p).done # <<>>
           /\ Assembled(p).open # <<>>
           /\ packet_buffer_' = <<>>
     /\ Throw
     /\ UNCHANGED <<decoder_, page_buffer_, pcm_buffer_>>

-----------------------------------------------------------------------------
(* The loop over the audio packets.                                        *)

ValidEnd(after) == IF page.eos THEN page.granule - st.origin ELSE after

Least(a, b) == IF a < b THEN a ELSE b
Most(a, b)  == IF a > b THEN a ELSE b

\* valid_end is taken after the last packet of the page.
PageEnd ==
  ValidEnd(st.decoded_frames + FoldLeft(LAMBDA sum, pk : sum + Frames(pk), 0, packets))

Kept == LET start == st.decoded_frames IN
        [from |-> Most(start, PreSkip),
         to   |-> Least(start + Frames(packets[1]), PageEnd)]

Samples(list) == [i \in 1 .. Kept.to - Kept.from |->
                    <<list, Kept.from - st.decoded_frames + i - 1>>]

WithinExpected(frames) == st.emitted_frames + frames <= st.expected_frames

DecodePacket ==
  /\ at = "decode" /\ packets # <<>>
  /\ decoder_' = Append(decoder_, Name(packets[1]))
  /\ IF Kept.to <= Kept.from
     THEN /\ st' = [st EXCEPT !.decoded_frames = @ + Frames(packets[1])]
          /\ UNCHANGED pcm_buffer_
     ELSE /\ WithinExpected(Kept.to - Kept.from)
          /\ pcm_buffer_' = pcm_buffer_ \o Samples(decoder_')
          /\ st' = [st EXCEPT !.decoded_frames = @ + Frames(packets[1]),
                              !.emitted_frames = @ + (Kept.to - Kept.from)]
  /\ packets' = Tail(packets)
  /\ UNCHANGED <<stream, page_buffer_, packet_buffer_, checkpoint, at, input, consumed, page, java>>

TooManyFrames ==
  /\ at = "decode" /\ packets # <<>>
  /\ Kept.to > Kept.from
  /\ ~WithinExpected(Kept.to - Kept.from)
  /\ FailFeed

\* AppendPcm throws: the packet is in the decoder and nowhere else.
DecodeThrows ==
  /\ at = "decode" /\ packets # <<>>
  /\ Kept.to > Kept.from
  /\ WithinExpected(Kept.to - Kept.from)
  /\ decoder_' = Append(decoder_, Name(packets[1]))
  /\ Throw
  /\ UNCHANGED <<st, page_buffer_, packet_buffer_, pcm_buffer_>>

\* The rest of Feed's loop body.
PageProcessed ==
  /\ at = "decode" /\ packets = <<>>
  /\ IF page.eos /\ pcm_buffer_ = <<>> /\ consumed # input
     THEN FailFeed
     ELSE /\ st' = [st EXCEPT !.eos_seen = @ \/ page.eos]
          /\ page_buffer_' = <<>>
          /\ UNCHANGED <<decoder_, packet_buffer_, pcm_buffer_>>
          /\ IF pcm_buffer_ # <<>>
             THEN Return("output_ready", consumed)
             ELSE IF page.eos
             THEN Return(IF consumed = 0 THEN "need_input" ELSE "progress", consumed)
             ELSE /\ at' = "loop" /\ page' = NoPage
                  /\ UNCHANGED <<stream, checkpoint, input, consumed, packets, java>>

-----------------------------------------------------------------------------

EndInput ==
  /\ at = "idle" /\ ~st.input_ended
  /\ st' = [st EXCEPT !.input_ended = TRUE]
  /\ status' = "none"
  /\ UNCHANGED <<stream, decoder_, page_buffer_, packet_buffer_, pcm_buffer_, checkpoint, feeding>>
  /\ UNCHANGED <<fed, heard, threw>>

VerifiedEofAnyCount == page_buffer_ = <<>> /\ packet_buffer_ = <<>>   \* mutant
VerifiedEof ==
  /\ page_buffer_ = <<>> /\ packet_buffer_ = <<>>
  /\ st.eos_seen /\ st.header_state = "audio"
  /\ st.emitted_frames = st.expected_frames

Decode(capacity) ==
  /\ at = "idle" /\ ~st.failed
  /\ UNCHANGED <<stream, decoder_, page_buffer_, packet_buffer_, checkpoint, feeding, fed, threw>>
  /\ IF capacity > 0 /\ pcm_buffer_ # <<>>
     THEN LET size == Least(capacity, Len(pcm_buffer_)) IN
          /\ heard' = heard \o SubSeq(pcm_buffer_, 1, size)
          /\ pcm_buffer_' = SubSeq(pcm_buffer_, size + 1, Len(pcm_buffer_))
          /\ status' = "pcm"
          /\ UNCHANGED st
     ELSE /\ UNCHANGED <<heard, pcm_buffer_>>
          /\ IF capacity > 0 /\ ~st.input_ended
             THEN status' = "need_input" /\ UNCHANGED st
             ELSE IF capacity > 0 /\ VerifiedEof
             THEN status' = "eof" /\ UNCHANGED st
             ELSE /\ status' = IF capacity > 0 THEN "decode_error" ELSE "too_small"
                  /\ st' = [st EXCEPT !.failed = TRUE]

CheckpointReady ==
  /\ ~st.failed /\ ~st.input_ended /\ ~st.eos_seen
  /\ st.header_state = "audio"
  /\ page_buffer_ = <<>> /\ pcm_buffer_ = <<>>

CapturedPacketDropped == <<>>                                     \* mutant
CapturedPacket == packet_buffer_

\* CheckpointSize, then Capture; Java notes how far it had fed.
CaptureCheckpoint ==
  /\ at = "idle"
  /\ CheckpointReady
  /\ checkpoint' = [st |-> st, decoder |-> decoder_, packet |-> CapturedPacket,
                    fed |-> fed, taken |-> TRUE]
  /\ status' = "captured"
  /\ UNCHANGED <<stream, decoding, feeding, fed, heard, threw>>

\* A new stream from the checkpoint takes the place of the old one; Java
\* feeds and hears on from where the checkpoint was taken.
Restore ==
  /\ at = "idle" /\ checkpoint.taken
  /\ st' = checkpoint.st
  /\ decoder_' = checkpoint.decoder /\ packet_buffer_' = checkpoint.packet
  /\ page_buffer_' = <<>> /\ pcm_buffer_' = <<>>
  /\ fed' = checkpoint.fed
  /\ heard' = SubSeq(heard, 1, checkpoint.st.emitted_frames)
  /\ status' = "restored"
  /\ UNCHANGED <<stream, checkpoint, feeding, threw>>

Step ==
  \/ FeedReturns \/ NeedInput \/ CopyPageFragment \/ BadPage \/ ProcessPage
  \/ ProcessPageThrows \/ DecodePacket \/ TooManyFrames \/ DecodeThrows \/ PageProcessed

Next ==
  \/ \E n \in 0 .. Units(stream) - fed : Feed(n)
  \/ EndInput
  \/ \E capacity \in Capacities : Decode(capacity)
  \/ CaptureCheckpoint
  \/ Restore
  \/ Step

Spec == Init /\ [][Next]_vars /\ WF_vars(Step)

-----------------------------------------------------------------------------
(* Properties.                                                             *)

\* What was heard is the start of the sound, sample by sample, each decoded
\* after exactly the packets before it: however the input is cut, whichever
\* pages are missing, repeated or damaged, whatever threw and was tried
\* again, and across a restore that resumes at EmittedFrames.
HeardIsTheSound == IsPrefix(heard, stream.pcm)

\* End of file is reported after the whole sound and nothing else.
EofMeansComplete ==
  status = "eof" =>
    /\ heard = stream.pcm
    /\ Len(heard) = stream.expected
=============================================================================
