--------------------------- MODULE AudioNormalizer --------------------------
(***************************************************************************)
(* NormalizeAudio of modules/codec/src/codec/audio.cc with the page        *)
(* planner of ogg_muxer.cc, and the JNI entry of audio_normalizer.cc that  *)
(* hands the result to Java: a whole Ogg file is parsed and inspected,     *)
(* then either put on new pages (retained) or decoded, resampled and       *)
(* encoded again (transcoded), validated and delivered.  Another thread    *)
(* may cancel; libopus, libvorbis, speex, the allocator and the JVM may    *)
(* fail at each use.                                                       *)
(*                                                                         *)
(* A packet of audio is a record of its name, frames and size.  A page, on *)
(* the source's side and on the new file's, is what of it the timeline     *)
(* depends on: the packets of audio it completes, its granule position and *)
(* whether it is the last.                                                 *)
(***************************************************************************)
EXTENDS Integers, Sequences, SequencesExt

CONSTANTS
  Sources,         \* the files
  PageLimits,      \* values of options.page_limit
  kOggPageHeaderSize, kOggMaxSegments, kSegment, kMaxPageLimit,
  TagsSize,        \* bytes of the canonical OpusTags packet without comments
  CommentSize,     \* bytes of a comment of it
  kOpusFrameSize, Lookahead, kNormalizedSampleRate

Unknown == 999      \* kOggUnknownGranule
Roles == {"retained", "transcoded"}

ASSUME SizesAssumption ==
  /\ {kOggPageHeaderSize, kMaxPageLimit, TagsSize, CommentSize, Lookahead} \subseteq Nat
  /\ {kOggMaxSegments, kSegment, kOpusFrameSize, kNormalizedSampleRate} \subseteq Nat \ {0}
  /\ PageLimits \subseteq Nat

VARIABLES
  source, role, page_limit,   \* the call
  cancelled,                  \* the AtomicBoolean of Java
  at, packet,                 \* where NormalizeAudio is; packets transcoded
  emitted, produced,          \* frames decoded, frames resampled
  candidate,                  \* the new pages, facts and chunks
  result,                     \* NormalizeAudioResult
  thrown,                     \* a pending Java exception of the callback
  delivered, handle,          \* what Java got, and whether it owns a handle
  trouble                     \* a library, the allocator or the JVM failed

call == <<source, role, page_limit>>
work == <<packet, emitted, produced>>
vars == <<call, cancelled, at, work, candidate, result, thrown, delivered, handle, trouble>>

-----------------------------------------------------------------------------
(* Parsing and inspecting.                                                 *)

Completed(page) == SelectSeq(page.pieces, LAMBDA piece : piece.last)
Open(page)      == page.pieces # <<>> /\ ~Last(page.pieces).last

\* ParseContainer goes from page to page and stops at the first that does
\* not fit; a file that ends within a page is reported by ReadOggPage.
PageOK(pages, i) ==
  LET page == pages[i] IN
  /\ page.crc
  /\ IF i = 1 THEN page.bos /\ ~page.continuation
              ELSE ~page.bos /\ page.serial = pages[1].serial
  /\ page.sequence = i - 1
  /\ i > 1 => (page.continuation <=> Open(pages[i - 1]))
  /\ Completed(page) = <<>> => page.granule = Unknown
  /\ page.eos => ~Open(page) /\ i = Len(pages)

Whole(file) == IF file.cut THEN Front(file.pages) ELSE file.pages

ParseContainer(file) ==
  IF file.pages = <<>> THEN "InvalidArgument"
  ELSE IF \E i \in DOMAIN Whole(file) : ~PageOK(file.pages, i) THEN "DataLoss"
  ELSE IF file.cut THEN "OutOfRange"
  ELSE IF ~Last(file.pages).eos THEN "DataLoss" ELSE "ok"

\* The packets after the headers, page by page.
HeaderCount(file) == IF file.codec = "vorbis" THEN 3 ELSE 2
PacketsUpTo(file, i) == FlattenSeq([j \in 1 .. i |-> Completed(file.pages[j])])

AudioPages(file) ==
  [i \in DOMAIN file.pages |->
     LET before == Len(PacketsUpTo(file, i - 1))
         done   == Completed(file.pages[i])
         first  == IF before < HeaderCount(file) THEN HeaderCount(file) - before + 1 ELSE 1
     IN  [audio   |-> [k \in 1 .. Len(SubSeq(done, first, Len(done))) |->
                         SubSeq(done, first, Len(done))[k].packet],
          granule |-> file.pages[i].granule,
          eos     |-> file.pages[i].eos]]

AudioOf(pages) == FlattenSeq([i \in DOMAIN pages |-> pages[i].audio])
FramesOf(audio) == FoldLeft(LAMBDA sum, p : sum + p.frames, 0, audio)

\* The timeline Ogg granules tell, as InspectOpus and OpusAudioStream follow
\* it: the first page of audio gives the origin, the last trims the end.
FollowPage(t, p) ==
  IF ~t.ok \/ p.audio = <<>>
  THEN t
  ELSE LET after  == t.decoded + FramesOf(p.audio)
           origin == IF t.started THEN t.origin
                     ELSE IF p.granule < after THEN 0 ELSE p.granule - after
       IN  [ok |-> /\ \A i \in DOMAIN p.audio : p.audio[i].frames > 0
                   /\ p.granule # Unknown
                   /\ t.started \/ p.eos \/ p.granule >= after
                   /\ p.granule >= origin /\ p.granule >= t.previous
                   /\ IF p.eos THEN p.granule - origin \in t.decoded .. after
                               ELSE p.granule - origin = after,
            decoded |-> after, origin |-> origin, previous |-> p.granule,
            started |-> TRUE, ended |-> t.ended \/ p.eos]

Follow(pages) ==
  FoldLeft(FollowPage, [ok |-> TRUE, decoded |-> 0, origin |-> 0, previous |-> 0,
                        started |-> FALSE, ended |-> FALSE], pages)

\* Where the sound begins and ends among the frames decoded.
Interval(pages, preSkip) ==
  [from |-> preSkip, to |-> Follow(pages).previous - Follow(pages).origin]

\* The comments of an OpusTags packet: [key, value], a value being [size,
\* numeric, number], and the key "cut" that of one that runs past the packet.
\* What follows them may be a required extension.
GainKeys == {"track", "album"}

ParseR128(value) ==
  value.size \in 1 .. 6 /\ value.numeric /\ value.number \in -32768 .. 32767

GainsOf(file, key) == SelectSeq(file.comments, LAMBDA c : c.key = key)

ParseOpusTags(file) ==
  IF \/ \E c \in Range(file.comments) :
            c.key = "cut" \/ (c.key \in GainKeys /\ ~ParseR128(c.value))
     \/ \E key \in GainKeys : Len(GainsOf(file, key)) > 1
  THEN "DataLoss"
  ELSE IF file.extension THEN "Unimplemented" ELSE "ok"

\* The comments of the new file: R128 gains, the track's first, or none.
CanonicalTags(file, retain) ==
  IF retain THEN GainsOf(file, "track") \o GainsOf(file, "album") ELSE <<>>

InspectOpus(file) ==
  LET pages == AudioPages(file)
      t     == Follow(pages)
  IN  IF Len(PacketsUpTo(file, Len(file.pages))) < 3 THEN "DataLoss"
      ELSE IF file.profile # "ok" THEN file.profile
      ELSE IF ParseOpusTags(file) # "ok" THEN ParseOpusTags(file)
      ELSE IF \/ ~t.ok \/ ~t.ended
              \/ t.previous - t.origin <= file.preSkip
              \/ ~file.decodes
      THEN "DataLoss" ELSE "ok"

InspectVorbis(file) ==
  IF Len(PacketsUpTo(file, Len(file.pages))) < 4 THEN "DataLoss"
  ELSE IF file.profile # "ok" THEN file.profile
  ELSE IF \/ Last(file.pages).granule \in {0, Unknown}
          \/ ~file.decodes
          \/ FramesOf(AudioOf(AudioPages(file))) = 0
  THEN "DataLoss" ELSE "ok"

InspectParsed(file) ==
  CASE file.codec = "opus"   -> InspectOpus(file)
    [] file.codec = "vorbis" -> InspectVorbis(file)
    [] OTHER                 -> "Unimplemented"

\* AudioFacts::frames, and the interval of the decoded frames they are.
SourceInterval(file) ==
  IF file.codec = "opus" THEN Interval(AudioPages(file), file.preSkip)
  ELSE [from |-> 0, to |-> FramesOf(AudioOf(AudioPages(file)))]
SourceFrames(file) == SourceInterval(file).to - SourceInterval(file).from

-----------------------------------------------------------------------------
(* Planning pages: PlanOggPage, PlanPacketGroup and PackChunks.            *)

\* The lacing of a packet: full segments and one that is not.
Segments(packets) ==
  FlattenSeq([i \in DOMAIN packets |->
    [s \in 1 .. packets[i].size \div kSegment + 1 |->
       [packet |-> i,
        size   |-> IF s <= packets[i].size \div kSegment THEN kSegment
                   ELSE packets[i].size % kSegment]]])

EmptyPlan == [segment_count |-> 0, body_size |-> 0, done |-> <<>>]
PlanSize(plan) == kOggPageHeaderSize + plan.segment_count + plan.body_size

Plan(packets, limit) ==
  LET add(plan, seg) ==
        [segment_count |-> plan.segment_count + 1,
         body_size     |-> plan.body_size + seg.size,
         done          |-> IF seg.size < kSegment THEN Append(plan.done, seg.packet)
                           ELSE plan.done]
      place(plans, seg) ==
        IF /\ Last(plans).segment_count < kOggMaxSegments
           /\ PlanSize(add(Last(plans), seg)) <= limit
        THEN Append(Front(plans), add(Last(plans), seg))
        ELSE Append(plans, add(EmptyPlan, seg))
  IN  FoldLeft(place, <<EmptyPlan>>, Segments(packets))

\* A segment too large for any page leaves a page without segments, or one
\* beyond the limit.
PlanOK(plans, limit) ==
  \A i \in DOMAIN plans : plans[i].segment_count > 0 /\ PlanSize(plans[i]) <= limit

\* The pages of audio.  granules[i] is the position of the end of packet i.
PlannedPages(packets, granules, limit) ==
  LET plans == Plan(packets, limit) IN
  [i \in DOMAIN plans |->
     [audio   |-> [k \in DOMAIN plans[i].done |-> packets[plans[i].done[k]]],
      granule |-> IF plans[i].done = <<>> THEN Unknown ELSE granules[Last(plans[i].done)],
      eos     |-> i = Len(plans),
      size    |-> PlanSize(plans[i])]]

\* How many pages the first chunk takes: up to the first that yields sound.
Sounding(page, start) == page.granule # Unknown /\ page.granule > start
PrefixCount(pages, start) == SelectInSeq(pages, LAMBDA p : Sounding(p, start))

\* The other chunks take pages as long as they fit.
Chunks(pages, limit) ==
  FoldLeft(LAMBDA chunks, p :
             LET used == IF chunks = <<>> THEN limit
                         ELSE FoldLeft(LAMBDA sum, q : sum + q.size, 0, Last(chunks))
             IN  IF chunks # <<>> /\ p.size <= limit - used
                 THEN Append(Front(chunks), Append(Last(chunks), p))
                 ELSE Append(chunks, <<p>>),
           <<>>, pages)

PackChunks(pages, start, limit) ==
  LET n == PrefixCount(pages, start) IN
  <<SubSeq(pages, 1, n)>> \o Chunks(SubSeq(pages, n + 1, Len(pages)), limit)

-----------------------------------------------------------------------------

NoCandidate == [chunks |-> <<>>, frames |-> 0, preSkip |-> 0, gain |-> 0, tags |-> <<>>]
Pages(c) == FlattenSeq(c.chunks)

Init ==
  /\ source \in Sources /\ role \in Roles /\ page_limit \in PageLimits
  /\ cancelled = FALSE /\ at = "begin"
  /\ packet = 0 /\ emitted = 0 /\ produced = 0
  /\ candidate = NoCandidate
  /\ result = [kind |-> "none", stage |-> "none"]
  /\ thrown = FALSE /\ delivered = "none" /\ handle = FALSE /\ trouble = FALSE

FailureKind(status) ==
  CASE status = "Cancelled"     -> "Cancelled"
    [] status = "Unimplemented" -> "UnsupportedProfile"
    [] status \in {"DataLoss", "InvalidArgument"} -> "SourceInvalid"
    [] role = "transcoded" /\ status = "FailedPrecondition" -> "OptionalCandidateFailure"
    [] OTHER -> "EnvironmentFailure"

FailResult(status, stage) ==
  /\ result' = [kind |-> FailureKind(status), stage |-> stage]
  /\ at' = "deliver"
  /\ candidate' = NoCandidate
  /\ UNCHANGED <<call, cancelled, work, delivered, handle>>

Fails(status, stage) == FailResult(status, stage) /\ UNCHANGED <<thrown, trouble>>

\* A library fails.
Trouble(statuses, stage) ==
  /\ trouble' = TRUE /\ UNCHANGED thrown
  /\ \E status \in statuses : FailResult(status, stage)

\* The allocator throws: the handler around normalization reports it.
OutOfMemory == Trouble({"ResourceExhausted"}, "Mux")

GoOn(place) ==
  /\ at' = place
  /\ UNCHANGED <<call, cancelled, candidate, result, thrown, delivered, handle, trouble>>

\* The callback: it reads the flag, or throws, which counts as cancelled.
Poll(stage, otherwise) ==
  \/ cancelled /\ Fails("Cancelled", stage)
  \/ /\ thrown' = TRUE /\ trouble' = TRUE
     /\ FailResult("Cancelled", stage)
  \/ ~cancelled /\ otherwise

Cancel ==
  /\ at \notin {"deliver", "done"} /\ ~cancelled
  /\ cancelled' = TRUE
  /\ UNCHANGED <<call, at, work, candidate, result, thrown, delivered, handle, trouble>>

Begin ==
  /\ at = "begin"
  /\ Poll("Inspect",
          IF page_limit \in kOggPageHeaderSize + 1 .. kMaxPageLimit
          THEN GoOn("parse") /\ UNCHANGED work
          ELSE Fails("InvalidArgument", "Mux"))

ParseAndInspect ==
  /\ at = "parse"
  /\ \/ IF ParseContainer(source) # "ok" THEN Fails(ParseContainer(source), "Inspect")
        ELSE IF InspectParsed(source) # "ok" THEN Fails(InspectParsed(source), "Inspect")
        ELSE GoOn("inspected") /\ UNCHANGED work
     \/ Trouble({"ResourceExhausted"}, "Inspect")

\* An allocation of the parser throws: nothing in NormalizeAudio catches it,
\* and the entry turns it into a Java exception.
InspectThrows ==
  /\ at = "parse"
  /\ at' = "done" /\ delivered' = "exception" /\ trouble' = TRUE
  /\ UNCHANGED <<call, cancelled, work, candidate, result, thrown, handle>>

\* round(frames * 48000 / rate), half up, without a wide product.
ResampledFrameCount(frames, rate) ==
  (frames \div rate) * kNormalizedSampleRate
    + ((frames % rate) * kNormalizedSampleRate + rate \div 2) \div rate

Target == ResampledFrameCount(SourceFrames(source), source.rate)

\* A sound too short to have a frame at the new rate is refused.
Inspected ==
  /\ at = "inspected"
  /\ Poll("Inspect",
          IF role = "retained" THEN GoOn("retain") /\ UNCHANGED work
          ELSE IF Target = 0 THEN Fails("DataLoss", "Resample")
          ELSE GoOn("open") /\ UNCHANGED work)

\* NormalizeRetained: the last packet gets the source's last granule, so
\* that the end stays trimmed; the origin stays where it was.
LastGranuleDecoded(audio, file) == Follow(AudioPages(file)).origin + FramesOf(audio)  \* mutant
LastGranule(audio, file) == Follow(AudioPages(file)).previous

RetainedGranules(audio, file) ==
  [i \in DOMAIN audio |->
     IF i = Len(audio) THEN LastGranule(audio, file)
     ELSE Follow(AudioPages(file)).origin + FramesOf(SubSeq(audio, 1, i))]

\* Writes the file: head and tags have pages of their own.
Mux(audio, granules, start, facts) ==
  LET pages == PlannedPages(audio, granules, page_limit)
      comments == CanonicalTags(source, role = "retained")
      tags  == Plan(<<[size |-> TagsSize + CommentSize * Len(comments)]>>, page_limit)
  IN  IF ~PlanOK(tags, page_limit) \/ ~PlanOK(Plan(audio, page_limit), page_limit)
      THEN Fails("ResourceExhausted", "Mux")
      ELSE IF PrefixCount(pages, start) = 0
      THEN Fails("DataLoss", "Mux")
      ELSE /\ candidate' = [chunks  |-> PackChunks(pages, start, page_limit),
                            frames |-> facts.frames, preSkip |-> facts.preSkip,
                            gain |-> facts.gain, tags |-> comments]
           /\ at' = "validate"
           /\ UNCHANGED <<call, cancelled, work, result, thrown, delivered, handle, trouble>>

NormalizeRetained ==
  /\ at = "retain"
  /\ LET audio == AudioOf(AudioPages(source)) IN
     \/ IF source.codec # "opus"
        THEN Fails("InvalidArgument", "Mux")
        ELSE Mux(audio, RetainedGranules(audio, source),
                 Follow(AudioPages(source)).origin + source.preSkip,
                 [frames |-> SourceFrames(source), preSkip |-> source.preSkip,
                  gain |-> source.gain])
     \/ OutOfMemory

-----------------------------------------------------------------------------
(* Transcoding.                                                            *)

Least(a, b) == IF a < b THEN a ELSE b
Most(a, b)  == IF a > b THEN a ELSE b

\* The frames of the next packet that belong to the sound.
KeptFrames ==
  LET audio == AudioOf(AudioPages(source))
      start == FramesOf(SubSeq(audio, 1, packet))
      begin == Most(start, SourceInterval(source).from)
      end   == Least(start + audio[packet + 1].frames, SourceInterval(source).to)
  IN  IF begin < end THEN end - begin ELSE 0

NeedsResampler == source.rate # kNormalizedSampleRate

\* OpusEncodeSink::Create and ResamplePipe::Create.
OpenCodecs ==
  /\ at = "open"
  /\ \/ GoOn("decode") /\ UNCHANGED work
     \/ Trouble({"FailedPrecondition", "ResourceExhausted"}, "Encode")
     \/ /\ NeedsResampler
        /\ Trouble({"FailedPrecondition", "ResourceExhausted"}, "Resample")
     \/ OutOfMemory

\* One packet: the callback, the decoder, the resampler and the encoder.
\* Without a resampler the frames go through; with one, it holds some back.
DecodePacket ==
  /\ at = "decode"
  /\ packet < Len(AudioOf(AudioPages(source)))
  /\ Poll("Decode",
       \/ /\ GoOn("decode")
          /\ packet' = packet + 1
          /\ emitted' = emitted + KeptFrames
          /\ IF NeedsResampler
             THEN produced' \in IF KeptFrames = 0 THEN {produced} ELSE produced .. Target
             ELSE produced' = produced + KeptFrames
       \/ Trouble({"DataLoss", "ResourceExhausted"}, "Decode")
       \/ Trouble({"FailedPrecondition", "DataLoss", "ResourceExhausted"}, "Resample")
       \/ Trouble({"FailedPrecondition", "ResourceExhausted"}, "Encode")
       \/ OutOfMemory)

\* The rest of the resampler's and of the encoder's frames.
FinishTranscoding ==
  /\ at = "decode"
  /\ packet = Len(AudioOf(AudioPages(source)))
  /\ \/ IF emitted # SourceFrames(source)
        THEN Fails("DataLoss", "Decode")
        ELSE GoOn("mux") /\ produced' = Target /\ UNCHANGED <<packet, emitted>>
     \/ Trouble({"FailedPrecondition"}, "Resample")
     \/ Trouble({"FailedPrecondition"}, "Encode")
     \/ OutOfMemory

EncodedPackets ==
  [i \in 1 .. (Target + Lookahead + kOpusFrameSize - 1) \div kOpusFrameSize |->
     [name |-> "encoded", frames |-> kOpusFrameSize, size |-> 1]]

EncodedGranules ==
  [i \in DOMAIN EncodedPackets |->
     IF i = Len(EncodedPackets) THEN Lookahead + Target ELSE i * kOpusFrameSize]

NormalizeTranscoded ==
  /\ at = "mux"
  /\ \/ Mux(EncodedPackets, EncodedGranules, Lookahead,
            [frames |-> Target, preSkip |-> Lookahead,
             gain |-> IF source.codec = "opus" THEN source.gain ELSE 0])
     \/ OutOfMemory

-----------------------------------------------------------------------------

\* ValidateComplete decodes the new file: it must follow its own timeline to
\* the end and yield the frames of the facts, and its first chunk some sound.
ExactFramesUnchecked(c) == TRUE                                   \* mutant
ExactFrames(c) ==
  Interval(Pages(c), c.preSkip).to = c.preSkip + c.frames

ValidateComplete(c) ==
  /\ Follow(Pages(c)).ok /\ Follow(Pages(c)).ended
  /\ Interval(Pages(c), c.preSkip).to > c.preSkip
  /\ ExactFrames(c)
  /\ FramesOf(AudioOf(c.chunks[1])) > c.preSkip

Validate ==
  /\ at = "validate"
  /\ \/ IF ValidateComplete(candidate)
        THEN /\ result' = [kind |-> "ok", stage |-> "none"]
             /\ at' = "deliver"
             /\ UNCHANGED <<call, cancelled, work, candidate, thrown, delivered, handle, trouble>>
        ELSE Fails("DataLoss", "Validate")
     \/ OutOfMemory

\* Normalize of the JNI entry.  The buffers given to Java are views of the
\* owner; a handle made before the JVM fails is destroyed again.
Deliver ==
  /\ at = "deliver"
  /\ at' = "done"
  /\ UNCHANGED <<call, cancelled, work, candidate, result, thrown>>
  /\ \/ /\ ~thrown
        /\ delivered' = IF result.kind = "ok" THEN "success" ELSE "failure"
        /\ handle' = (result.kind = "ok")
        /\ UNCHANGED trouble
     \/ /\ delivered' = "exception"
        /\ trouble' = TRUE
        /\ UNCHANGED handle

Next ==
  \/ Cancel \/ Begin \/ ParseAndInspect \/ InspectThrows \/ Inspected
  \/ NormalizeRetained \/ OpenCodecs \/ DecodePacket \/ FinishTranscoding \/ NormalizeTranscoded
  \/ Validate \/ Deliver

Spec == Init /\ [][Next]_vars

-----------------------------------------------------------------------------
(* Properties.                                                             *)

Supported == ParseContainer(source) = "ok" /\ InspectParsed(source) = "ok"
Undisturbed == at = "done" /\ ~cancelled /\ ~trouble

\* A file Java is given holds the very sound of its source: retained, the
\* same packets from the same frame to the same frame, and every R128 gain it
\* told; transcoded, as many frames as the source's at the new rate, nothing of
\* the encoder's run-in or padding, and no gain that was measured of the old
\* packets.  Either way the output gain is the source's.  And Java owns a handle
\* exactly when it was given a file.
TimelineKept ==
  at = "done" =>
    /\ handle <=> delivered = "success"
    /\ handle =>
         LET new == Interval(Pages(candidate), candidate.preSkip) IN
         /\ candidate.gain = IF source.codec = "opus" THEN source.gain ELSE 0
         /\ IF role = "retained"
            THEN /\ AudioOf(Pages(candidate)) = AudioOf(AudioPages(source))
                 /\ new = SourceInterval(source)
                 /\ Range(candidate.tags) =
                      {c \in Range(source.comments) : c.key \in GainKeys}
            ELSE new.to - new.from = Target /\ candidate.tags = <<>>

\* An end trimmed within the last packet, and a start at zero or audio on
\* more than one page: such a source is always kept, at every page limit from
\* that of a page with one full segment and its two lacing values on.
PlainTrim ==
  LET audio == AudioOf(AudioPages(source))
      t     == Follow(AudioPages(source))
  IN  /\ t.previous - t.origin >= FramesOf(Front(audio))
      /\ t.origin = 0 \/ t.previous - t.origin = t.decoded

PlainSourcesKept ==
  /\ Undisturbed
  /\ page_limit \in kOggPageHeaderSize + 2 + kSegment .. kMaxPageLimit
  /\ Supported
  /\ IF role = "retained" THEN source.codec = "opus" /\ PlainTrim ELSE Target > 0
  => delivered = "success"

\* Retained normalization keeps the exact timeline of any supported Opus
\* stream, as its documentation has it.
SupportedOpusRetained ==
  /\ Undisturbed /\ page_limit = kMaxPageLimit
  /\ Supported /\ role = "retained" /\ source.codec = "opus"
  => delivered = "success"
=============================================================================
