---------------------------- MODULE OpusSamples -----------------------------
(***************************************************************************)
(* Inputs for the runs of OpusStream and OpusConsumer: a stream whose      *)
(* comment header and second packet of sound go on from one page to the    *)
(* next and whose end is trimmed, a cut out of a longer one that does not  *)
(* start at zero, and what may happen to them on the way.                  *)
(***************************************************************************)
EXTENDS Naturals, Sequences

MCPackets == [p \in {"head", "tags", "tags_short", "one", "two", "three", "noise"} |->
  CASE p = "head"       -> [kind |-> "head", frames |-> 0, parts |-> 1]
    [] p = "tags"       -> [kind |-> "tags", frames |-> 0, parts |-> 2]
    [] p = "tags_short" -> [kind |-> "tags", frames |-> 0, parts |-> 1]
    [] p = "one"        -> [kind |-> "audio", frames |-> 2, parts |-> 1]
    [] p = "two"        -> [kind |-> "audio", frames |-> 3, parts |-> 2]
    [] p = "three"      -> [kind |-> "audio", frames |-> 1, parts |-> 1]
    [] p = "noise"      -> [kind |-> "audio", frames |-> 2, parts |-> 1]]

Piece(p, n, l) == [packet |-> p, part |-> n, last |-> l]
P(seq, g, pieces) ==
  [sequence |-> seq, serial |-> 1, granule |-> g, bos |-> seq = 0, eos |-> FALSE,
   continuation |-> pieces # <<>> /\ Head(pieces).part > 1, crc |-> TRUE, pieces |-> pieces]
Eos(p) == [p EXCEPT !.eos = TRUE]

Trimmed ==
  <<P(0, 0, <<Piece("head", 1, TRUE)>>),
    P(1, 0, <<Piece("tags", 1, FALSE)>>),
    P(2, 2, <<Piece("tags", 2, TRUE), Piece("one", 1, TRUE), Piece("two", 1, FALSE)>>),
    Eos(P(3, 4, <<Piece("two", 2, TRUE)>>))>>
TrimmedSound == << <<<<"one">>, 1>>, <<<<"one", "two">>, 0>>, <<<<"one", "two">>, 1>> >>

Cut ==
  <<P(0, 0, <<Piece("head", 1, TRUE)>>),
    P(1, 0, <<Piece("tags_short", 1, TRUE)>>),
    P(2, 12, <<Piece("one", 1, TRUE)>>),
    Eos(P(3, 13, <<Piece("three", 1, TRUE)>>))>>
CutSound == << <<<<"one">>, 1>>, <<<<"one", "three">>, 0>> >>

S(pages, e, sound, good) == [pages |-> pages, expected |-> e, pcm |-> sound, good |-> good]

MCStreams ==
  {S(Trimmed, 3, TrimmedSound, TRUE), S(Cut, 2, CutSound, TRUE)} \cup
  \* a page too few, twice, or changed; an end that is missing or not the end
  {S(pages, 3, TrimmedSound, FALSE) : pages \in
     {SubSeq(Trimmed, 1, 3),
      Trimmed \o SubSeq(Trimmed, 3, 4),
      SubSeq(Trimmed, 1, 3) \o SubSeq(Trimmed, 3, 4),
      [Trimmed EXCEPT ![3].crc = FALSE, ![3].pieces[2].packet = "noise"],
      [Trimmed EXCEPT ![4].granule = 999]}} \cup
  {S(pages, 2, CutSound, FALSE) : pages \in
     {SubSeq(Cut, 1, 2) \o SubSeq(Cut, 4, 4), <<Cut[1], Cut[3], Cut[2], Cut[4]>>}} \cup
  \* the wrong number of frames
  {S(Trimmed, e, TrimmedSound, FALSE) : e \in {2, 4}}
=============================================================================
