--------------------------- MODULE LegacyEnvelope ---------------------------
(***************************************************************************)
(* The reader of the historical encrypted container                        *)
(* (legacy/src/v3/codec/envelope.cc): it checks the envelope, decrypts its  *)
(* body in chunks of changing size, drops the salt at its start, walks the  *)
(* zstd frame inside block by block with the "dirty" block headers put      *)
(* right, and hands the plaintext to the decoder in reads of any size.      *)
(*                                                                          *)
(* One unit stands for a run of bytes the code treats alike: the body is a  *)
(* sequence of tokens (salt, frame header, block header, a piece of a       *)
(* block's payload, checksum), the plaintext a sequence of numbers.  The    *)
(* ciphers are left out: what they do is undone by them, and what matters   *)
(* is where a chunk ends.  zstd is external: ZstdCall is what one call of   *)
(* ZSTD_decompressStream does, the byte of input it holds back while output *)
(* is still to be flushed included.                                         *)
(***************************************************************************)
EXTENDS Integers, Sequences, SequencesExt

CONSTANTS
    Frames,        \* the zstd frames a writer may have put in the body
    Salts,         \* lengths of the salt, in units
    Damages,       \* what may be wrong with the envelope
    ChunkMax,      \* a cipher chunk is 1..ChunkMax units long
    PlaintextSize, \* kPlaintextBufferSize in units
    CompressedSize,\* kCompressedBufferSize in units
    ReadMax        \* the longest read of the decoder

ASSUME SizesAssumption ==
    /\ {ChunkMax, PlaintextSize, CompressedSize, ReadMax} \subseteq Nat \ {0}
    /\ Salts \subseteq Nat
    /\ \A f \in Frames : \A b \in DOMAIN f.blocks :
           f.blocks[b].in \in Nat /\ (f.blocks[b].in = 0 => f.blocks[b].out = 0)

VARIABLES
    env,       \* the envelope: frame, salt, damage
    reader,        \* where the caller or the reader stands
    ask,       \* units the decoder will still read before Finish
    dest,      \* units the current ReadExact still owes
    got,       \* plaintext handed to the decoder
    plaintext, \* plaintext_[plaintext_begin_, plaintext_end_)
    out,       \* output of the current DecompressInto
    phase,     \* phase_
    need,      \* units the current ReadEncryptedExact still owes
    input,     \* units it has read
    remaining, \* block_remaining_
    last,      \* last_block_
    pending,   \* pending_input_
    frameDone, \* frame_done_
    at,        \* decrypted_offset_, as a position in the body
    consumed,  \* content_consumed_: the decrypted chunk ends there
    zstd       \* the state of the zstd stream

readerVars == <<dest, got, plaintext, out>>
cipherVars == <<at, consumed>>
phaseVars  == <<phase, remaining, last, frameDone>>
envelopeVars == <<env, reader, ask, readerVars, phaseVars, need, input, pending, cipherVars,
          zstd>>

-----------------------------------------------------------------------------
(* The envelope. *)

Blocks == env.frame.blocks

Token(kind, b) == [kind |-> kind, block |-> b]

BlockTokens(b, n) == <<Token("block", b)>> \o [i \in 1..n |-> Token("payload", b)]

\* What a writer stores: salt, frame header, blocks, the optional checksum.
WholeBody(e) ==
    [i \in 1..e.salt |-> Token("salt", 0)] \o <<Token("header", 0)>>
    \o FlattenSeq([b \in DOMAIN e.frame.blocks |->
                       BlockTokens(b, e.frame.blocks[b].in)])
    \o (IF e.frame.checksum THEN <<Token("checksum", 0)>> ELSE <<>>)

\* A body that passes the envelope's hash but was written wrongly.
BodyStored ==
    CASE env.damage = "cut"      -> Front(WholeBody(env))
      [] env.damage = "trailing" -> Append(WholeBody(env), Token("junk", 0))
      [] env.damage = "magic"    ->
             ReplaceAt(WholeBody(env), env.salt + 1, Token("junk", 0))
      [] env.damage = "reserved" ->
             ReplaceAt(WholeBody(env), env.salt + 2, Token("junk", 0))
      [] OTHER -> WholeBody(env)

ContentSize == Len(BodyStored)

IsLast(b) == b = Len(Blocks) /\ env.damage /= "not last"

\* The plaintext of the blocks before b, and of b, as numbers 1, 2, ...
PlainBefore(b) == FoldSeq(LAMBDA blk, n : n + blk.out, 0, SubSeq(Blocks, 1, b - 1))
PlainOf(b)     == [i \in 1..Blocks[b].out |-> PlainBefore(b) + i]
PlainSize(e)   == FoldSeq(LAMBDA blk, n : n + blk.out, 0, e.frame.blocks)

\* Faults Initialize finds before it decrypts anything.
EnvelopeFaults == {"source limit", "raw", "not v3", "summary limit", "summary",
                   "version", "no body", "hash"}

-----------------------------------------------------------------------------
(* zstd, as far as the reader can tell. *)

Least(a, b) == IF a < b THEN a ELSE b

AfterBlock(b) == IF ~IsLast(b) THEN "block"
                 ELSE IF env.frame.checksum THEN "checksum" ELSE "end"

\* The decoder swallows a piece of input: it reads headers, gathers the
\* payload of a block, and decodes the block once its payload is complete.
Swallow(z, in) ==
    CASE z.stage = "header"  -> [z EXCEPT !.stage = "block"]
      [] z.stage = "block"   ->
             LET b == in[1].block
             IN  [z EXCEPT !.block = b, !.left = Blocks[b].in,
                           !.stage = IF Blocks[b].in = 0 THEN AfterBlock(b)
                                     ELSE "payload"]
      [] z.stage = "payload" ->
             IF Len(in) < z.left
             THEN [z EXCEPT !.left = @ - Len(in)]
             ELSE [z EXCEPT !.left = 0, !.flush = PlainOf(z.block),
                            !.stage = AfterBlock(z.block)]
      [] OTHER -> [z EXCEPT !.stage = "end"]

ZstdFails(z, in) ==
    \/ z.stage = "payload" /\ env.damage = "payload" /\ Len(in) = z.left
    \/ z.stage = "checksum" /\ env.damage = "checksum"

\* One ZSTD_decompressStream with `room' units of output: flush what is left
\* from before, then take the input, then flush again.  While the frame is
\* decoded but not flushed, the last unit of input is not taken.
ZstdCall(z, in, room) ==
    IF room < Len(z.flush)
    THEN [z |-> [z EXCEPT !.flush = SubSeq(@, room + 1, Len(@))],
          used |-> 0, out |-> SubSeq(z.flush, 1, room), result |-> "more"]
    ELSE IF z.stage = "end"
    THEN [z |-> [z EXCEPT !.flush = <<>>], used |-> 1, out |-> z.flush,
          result |-> "end"]
    ELSE LET taken == Swallow([z EXCEPT !.flush = <<>>], in)
             left  == Least(room - Len(z.flush), Len(taken.flush))
             more  == SubSeq(taken.flush, 1, left)
             rest  == SubSeq(taken.flush, left + 1, Len(taken.flush))
             ended == taken.stage = "end"
         IN  [z |-> [taken EXCEPT !.flush = rest],
              used |-> IF ended /\ rest /= <<>> THEN Len(in) - 1 ELSE Len(in),
              out |-> z.flush \o more,
              result |-> IF ZstdFails(z, in) THEN "error"
                         ELSE IF ended /\ rest = <<>> THEN "end" ELSE "more"]

-----------------------------------------------------------------------------
Envelopes == {e \in [frame : Frames, salt : Salts, damage : Damages,
                     asks : 0..10] :
                  /\ e.asks \in PlainSize(e) - 1 .. PlainSize(e) + 1
                  /\ e.damage = "checksum" => e.frame.checksum
                  /\ e.damage = "payload" =>
                         \E b \in DOMAIN e.frame.blocks : e.frame.blocks[b].in > 0}

\* A reader made for an envelope.
NewReader ==
    /\ reader = "new"
    /\ ask = env.asks
    /\ dest = 0 /\ got = <<>> /\ plaintext = <<>> /\ out = <<>>
    /\ phase = "header" /\ remaining = 0 /\ last = FALSE /\ frameDone = FALSE
    /\ need = 0 /\ input = <<>> /\ pending = <<>>
    /\ at = 0 /\ consumed = 0
    /\ zstd = [stage |-> "header", left |-> 0, block |-> 0, flush |-> <<>>]

FailReader == reader' = "failed"

Initialize ==
    /\ reader = "new"
    /\ IF env.damage \in EnvelopeFaults THEN FailReader ELSE reader' = "decoder"
    /\ UNCHANGED <<env, ask, readerVars, phaseVars, need, input, pending,
                   cipherVars, zstd>>

-----------------------------------------------------------------------------
(* ReadExact and the loop of DecompressInto. *)

\* The decoder asks for its next n units, or for the end of the source.
ReadExact ==
    /\ reader = "decoder"
    /\ \E n \in 1..ReadMax :
           /\ n <= ask
           /\ ask' = ask - n
           /\ dest' = n
    /\ reader' = "read"
    /\ UNCHANGED <<env, got, plaintext, out, phaseVars, need, input, pending,
                   cipherVars, zstd>>

CopyPlaintext ==
    /\ reader = "read" /\ plaintext /= <<>>
    /\ LET count == Least(dest, Len(plaintext))
       IN  /\ got' = got \o SubSeq(plaintext, 1, count)
           /\ plaintext' = SubSeq(plaintext, count + 1, Len(plaintext))
           /\ dest' = dest - count
           /\ reader' = IF dest' = 0 THEN "decoder" ELSE "read"
    /\ UNCHANGED <<env, ask, out, phaseVars, need, input, pending, cipherVars,
                   zstd>>

\* A destination as long as the buffer is filled directly.
Direct == dest >= PlaintextSize

StartDecompress ==
    /\ reader = "read" /\ plaintext = <<>>
    /\ out' = <<>>
    /\ reader' = "decompress"
    /\ UNCHANGED <<env, ask, dest, got, plaintext, phaseVars, need, input,
                   pending, cipherVars, zstd>>

Room == (IF Direct THEN dest ELSE PlaintextSize) - Len(out)

\* DecompressInto is done: the destination is full or the frame has ended.
EndDecompress ==
    /\ reader = "decompress" /\ (Room = 0 \/ frameDone)
    /\ IF out = <<>>
       THEN FailReader /\ UNCHANGED <<dest, got, plaintext>>
       ELSE IF Direct
       THEN /\ got' = got \o out
            /\ dest' = dest - Len(out)
            /\ reader' = IF dest' = 0 THEN "decoder" ELSE "read"
            /\ UNCHANGED plaintext
       ELSE /\ plaintext' = out
            /\ reader' = "read"
            /\ UNCHANGED <<dest, got>>
    /\ UNCHANGED <<env, ask, out, phaseVars, need, input, pending, cipherVars,
                   zstd>>

\* What zstd did not take stays pending.
Unread(call) == SubSeq(pending, call.used + 1, Len(pending))

\* One turn of the loop of DecompressInto, its input at hand.
Decompress ==
    /\ reader = "decompress" /\ Room > 0 /\ ~frameDone /\ pending /= <<>>
    /\ LET call == ZstdCall(zstd, pending, Room)
           left == Unread(call)
       IN  /\ zstd' = call.z
           /\ out' = out \o call.out
           /\ pending' = left
           /\ frameDone' = (call.result = "end" /\ left = <<>>)
           /\ IF \/ call.result = "error"
                 \/ call.result = "end" /\ left /= <<>>
                 \/ call.used = 0 /\ call.out = <<>>
              THEN FailReader ELSE reader' = reader
    /\ UNCHANGED <<env, ask, dest, got, plaintext, phase, remaining, last, need,
                   input, cipherVars>>

-----------------------------------------------------------------------------
(* PrepareInput: the next piece of the frame for zstd. *)

\* Finish reads on after the decoder has all it asked for.
Reading == reader \in {"decompress", "finish"}
Caller(p) == IF p = "prepare" THEN "decompress" ELSE "finish"
Preparing == reader \in {"prepare", "prepare to finish"}

PrepareInput ==
    /\ Reading /\ pending = <<>> /\ ~frameDone
    /\ reader = "decompress" => Room > 0
    /\ IF phase = "done"
       THEN FailReader /\ UNCHANGED need
       ELSE /\ reader' = IF reader = "decompress" THEN "prepare" ELSE "prepare to finish"
            /\ need' = IF phase = "payload" THEN Least(remaining, CompressedSize)
                       ELSE 1
    /\ input' = <<>>
    /\ UNCHANGED <<env, ask, readerVars, phaseVars, pending, cipherVars, zstd>>

\* Where the next chunk may end: the hash of the chunk before decides.
ChunkEnds == {Least(consumed + n, ContentSize) : n \in 1..ChunkMax}

\* What of a chunk up to `end' is left behind the salt at the body's start.
SaltDropped(end) == IF env.salt <= at THEN at ELSE Least(env.salt, end)

\* The chunk is used up: decrypt the next one.
FillDecrypted ==
    /\ Preparing /\ need > 0 /\ at = consumed
    /\ IF consumed >= ContentSize
       THEN FailReader /\ UNCHANGED cipherVars
       ELSE /\ consumed' \in ChunkEnds
            /\ at' = SaltDropped(consumed')
            /\ reader' = reader
    /\ UNCHANGED <<env, ask, readerVars, phaseVars, need, input, pending, zstd>>

ReadDecrypted ==
    /\ Preparing /\ need > 0 /\ at < consumed
    /\ LET count == Least(need, consumed - at)
       IN  /\ input' = input \o SubSeq(BodyStored, at + 1, at + count)
           /\ at' = at + count
           /\ need' = need - count
    /\ UNCHANGED <<env, reader, ask, readerVars, phaseVars, pending, consumed, zstd>>

AdvanceAfterBlock(l) == IF ~l THEN "block"
                        ELSE IF env.frame.checksum THEN "checksum" ELSE "done"

\* The piece has been read: check it, and move to the phase after it.
InputPrepared ==
    /\ Preparing /\ need = 0
    /\ reader' = Caller(reader)
    /\ pending' = input
    /\ UNCHANGED <<env, ask, readerVars, frameDone, need, input, cipherVars, zstd>>
    /\ CASE phase = "header" ->
              /\ input[1].kind = "header"
              /\ phase' = "block" /\ UNCHANGED <<remaining, last>>
         [] phase = "block" ->
              /\ input[1].kind = "block"
              /\ LET b == input[1].block
                 IN  /\ remaining' = Blocks[b].in
                     /\ last' = IsLast(b)
                     /\ phase' = IF remaining' = 0 THEN AdvanceAfterBlock(last')
                                 ELSE "payload"
         [] phase = "payload" ->
              /\ remaining' = remaining - Len(input)
              /\ phase' = IF remaining' = 0 THEN AdvanceAfterBlock(last)
                          ELSE "payload"
              /\ UNCHANGED last
         [] phase = "checksum" ->
              /\ phase' = "done" /\ UNCHANGED <<remaining, last>>

\* The frame's magic is wrong, or the type of a block is the reserved one.
InputRefused ==
    /\ Preparing /\ need = 0
    /\ phase \in {"header", "block"} /\ input[1].kind /= phase
    /\ FailReader
    /\ UNCHANGED <<env, ask, readerVars, phaseVars, need, input, pending,
                   cipherVars, zstd>>

-----------------------------------------------------------------------------
(* Finish: nothing may follow what the decoder has read. *)

Finish ==
    /\ reader = "decoder" /\ ask = 0
    /\ IF plaintext /= <<>> THEN FailReader ELSE reader' = "finish"
    /\ UNCHANGED <<env, ask, readerVars, phaseVars, need, input, pending,
                   cipherVars, zstd>>

\* Run the frame to its end with one unit of room, which must stay empty.
FinishFrame ==
    /\ reader = "finish" /\ ~frameDone /\ pending /= <<>>
    /\ LET call == ZstdCall(zstd, pending, 1)
           left == Unread(call)
       IN  /\ zstd' = call.z
           /\ pending' = left
           /\ frameDone' = (call.result = "end" /\ left = <<>>)
           /\ IF \/ call.result = "error"
                 \/ call.out /= <<>>
                 \/ call.result = "end" /\ left /= <<>>
                 \/ call.used = 0
              THEN FailReader ELSE reader' = reader
    /\ UNCHANGED <<env, ask, readerVars, phase, remaining, last, need, input,
                   cipherVars>>

TrailingBodyIgnored == phase /= "done" \/ pending /= <<>>   \* mutant
TrailingData ==
    \/ phase /= "done" \/ pending /= <<>>
    \/ at /= consumed \/ consumed /= ContentSize

FinishEnvelope ==
    /\ reader = "finish" /\ frameDone
    /\ IF TrailingData THEN FailReader ELSE reader' = "accepted"
    /\ UNCHANGED <<env, ask, readerVars, phaseVars, need, input, pending,
                   cipherVars, zstd>>

\* What goes on below a read and below Finish.
Stages ==
    \/ CopyPlaintext
    \/ StartDecompress \/ Decompress \/ EndDecompress
    \/ PrepareInput \/ FillDecrypted \/ ReadDecrypted
    \/ InputPrepared \/ InputRefused

ReaderNext == Initialize \/ ReadExact \/ Stages \/ Finish \/ FinishFrame \/ FinishEnvelope

EnvelopeSpec == env \in Envelopes /\ NewReader /\ [][ReaderNext]_envelopeVars

-----------------------------------------------------------------------------
(* Properties. *)

\* Nothing wrong with the envelope, and the decoder asks for what is in it.
SoundEnvelope == env.damage = "none" /\ env.asks = PlainSize(env)

\* What Finish accepts is the whole of an undamaged envelope, and the decoder
\* got its plaintext in order, no unit lost or twice, however its reads, the
\* cipher's chunks and the frame's blocks happened to overlap.
AcceptedIsWhole ==
    reader = "accepted" =>
        /\ SoundEnvelope
        /\ got = [i \in 1..PlainSize(env) |-> i]
        /\ at = ContentSize /\ zstd.flush = <<>>
=============================================================================
