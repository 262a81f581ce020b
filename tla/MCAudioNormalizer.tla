-------------------------- MODULE MCAudioNormalizer -------------------------
(***************************************************************************)
(* Opus files whose audio starts late, whose end is trimmed within the     *)
(* last packet or by whole packets, whose packets span pages; a Vorbis     *)
(* file; and files that are damaged, cut off or of an unknown kind.        *)
(***************************************************************************)
EXTENDS AudioNormalizer

A(n, f, s) == [name |-> n, frames |-> f, size |-> s]
H == A("head", 0, 1)
T == A("tags", 0, 3)

Done(p)  == [packet |-> p, last |-> TRUE]
Part(p)  == [packet |-> p, last |-> FALSE]
P(seq, g, pieces) ==
  [sequence |-> seq, serial |-> 1, granule |-> g, bos |-> seq = 0, eos |-> FALSE,
   continuation |-> FALSE, crc |-> TRUE, pieces |-> pieces]
Eos(p)  == [p EXCEPT !.eos = TRUE]
Cont(p) == [p EXCEPT !.continuation = TRUE]

File(codec, preSkip, rate, pages) ==
  [codec |-> codec, profile |-> "ok", decodes |-> TRUE, preSkip |-> preSkip,
   rate |-> rate, cut |-> FALSE, pages |-> pages,
   gain |-> 0, comments |-> <<>>, extension |-> FALSE]
Opus(preSkip, pages) == File("opus", preSkip, 2, pages)

Heads == <<P(0, 0, <<Done(H)>>), P(1, 0, <<Done(T)>>)>>
a == A("a", 2, 1)
b == A("b", 3, 5)
c == A("c", 2, 2)

\* b spans two pages; the end is trimmed by one frame
Trimmed == Heads \o <<P(2, 2, <<Done(a), Part(b)>>), Cont(Eos(P(3, 4, <<Done(b)>>)))>>
\* starts ten frames late; not trimmed
Late    == Heads \o <<P(2, 12, <<Done(a)>>), Eos(P(3, 14, <<Done(c)>>))>>
\* starts ten frames late and is trimmed
LateTrimmed == Heads \o <<P(2, 12, <<Done(a)>>), Eos(P(3, 13, <<Done(c)>>))>>
\* the last page is trimmed by a whole packet and more
DeepTrimmed == Heads \o <<P(2, 2, <<Done(a)>>), Eos(P(3, 4, <<Done(b), Done(c)>>))>>

Vorbis(rate) ==
  File("vorbis", 0, rate,
       <<P(0, 0, <<Done(H)>>), P(1, 0, <<Done(T), Done(T)>>),
         Eos(P(2, 50, <<Done(a), Done(b)>>))>>)

Plain == Opus(1, Trimmed)

\* The tags of an Opus file.
Gain(key, n) == [key |-> key, value |-> [size |-> 3, numeric |-> TRUE, number |-> n]]
Album == Gain("album", 32767)
Track == Gain("track", -32768)
BadGains ==
  {[Track EXCEPT !.value.size = 0], [Track EXCEPT !.value.size = 7],
   [Album EXCEPT !.value.numeric = FALSE], Gain("album", 32768), Gain("track", -32769)}

Comments ==
  {<<Album, Gain("other", 99999), Track>>, <<Track>>, <<Album, Album>>, <<Gain("cut", 0)>>}
  \cup {<<Gain("other", 0), bad>> : bad \in BadGains}

Tagged == {[Plain EXCEPT !.gain = 256, !.comments = cs] : cs \in Comments}

MCSources ==
  Tagged \cup {[Plain EXCEPT !.extension = TRUE], [Plain EXCEPT !.gain = -7]} \cup
  {Plain, Opus(0, Late), Opus(1, LateTrimmed), Opus(0, DeepTrimmed), Vorbis(2), Vorbis(3), Vorbis(30),
   Opus(4, Trimmed),
   [Plain EXCEPT !.profile = "Unimplemented"], [Plain EXCEPT !.decodes = FALSE],
   [Plain EXCEPT !.codec = "other"], [Plain EXCEPT !.cut = TRUE], Opus(1, <<>>),
   [Plain EXCEPT !.pages[3].crc = FALSE], Opus(1, Front(Trimmed)),
   [Plain EXCEPT !.pages = SubSeq(@, 1, 2) \o SubSeq(@, 4, 4)],
   [Vorbis(2) EXCEPT !.pages[3].granule = Unknown],
   [Vorbis(2) EXCEPT !.profile = "DataLoss"], [Vorbis(2) EXCEPT !.decodes = FALSE]}
=============================================================================
