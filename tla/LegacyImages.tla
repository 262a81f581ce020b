---------------------------- MODULE LegacyImages ----------------------------
(***************************************************************************)
(* What becomes of an image while a historical model is read: PrepareImage  *)
(* of legacy/src/v3/container/image.cc and, below it, the probes, the        *)
(* choice of an encoder and the scaling of modules/codec.                   *)
(*                                                                          *)
(* Pixels are left out.  A stored image is what the section says of it and   *)
(* what its bytes are:                                                      *)
(*   format, width, height, frames   the fields                             *)
(*   size                            the number of bytes                    *)
(*   content                         [codec, width, height, frames, intact]: *)
(*                                   the codec whose signature the bytes     *)
(*                                   have, or "none"; what its header says;  *)
(*                                   whether the pixels can be decoded       *)
(* A prepared one is [format, width, height].                               *)
(***************************************************************************)
EXTENDS Naturals, Sequences

kImageDimensionLimit == 4096
kNonSoundByteLimit   == 66 * 1024 * 1024
kMinLossySize        == 96

Builds  == {"desktop", "android"}
Roles   == {"texture", "gui", "avatar", "icon", "thumbnail"}
Formats == {"rgba", "png", "jpeg", "webp", "avif"}

-----------------------------------------------------------------------------
(* What is read. *)

\* Before version 23 an image is raw pixels and nothing says so.
AsRead(version, image) ==
    IF version >= 23 THEN image ELSE [image EXCEPT !.format = "rgba", !.frames = 1]

\* Only AVIF tells its frames: an animated WebP counts as one.
FramesTold(content) == IF content.codec = "avif" THEN content.frames ELSE 1

\* A WebP has no empty side, and a ZTX is taken at its word.
EmptySide(content) == content.codec # "ztx" /\ 0 \in {content.width, content.height}

ImageProbe(content) ==
    IF content.codec = "none" \/ EmptySide(content) THEN <<>>
    ELSE <<[format |-> content.codec, width |-> content.width, height |-> content.height,
            frames |-> FramesTold(content)]>>

BytesAsDescribed(image) ==
    IF image.format = "rgba" THEN image.size = image.width * image.height * 4
    ELSE ImageProbe(image.content) =
             <<[format |-> image.format, width |-> image.width,
                height |-> image.height, frames |-> 1]>>

ValidateHistoricalImage(image) ==
    IF 0 \in {image.width, image.height} THEN "DataLoss"
    ELSE IF image.width > kImageDimensionLimit \/ image.height > kImageDimensionLimit
    THEN "ResourceExhausted"
    ELSE IF image.frames # 1 \/ ~BytesAsDescribed(image) THEN "DataLoss" ELSE "ok"

-----------------------------------------------------------------------------
(* What is written. *)

\* The largest size of each role that is shrunk.
Box == [gui |-> <<260, 450>>, avatar |-> <<320, 320>>,
        icon |-> <<192, 192>>, thumbnail |-> <<156, 270>>]

Fits(image, box) == image.width <= box[1] /\ image.height <= box[2]

\* round(a / b), of two natural numbers.
Rounded(a, b) == (2 * a + b) \div (2 * b)

\* The relatively longer side becomes the box's.
Wider(image, box) == image.width * box[2] >= image.height * box[1]

Shrunk(image, box) ==
    IF Wider(image, box) THEN <<box[1], Rounded(image.height * box[1], image.width)>>
    ELSE <<Rounded(image.width * box[2], image.height), box[2]>>

AtLeastOne(side) == IF side = 0 THEN 1 ELSE side

FitWithin(image, box) ==
    IF Fits(image, box) THEN <<image.width, image.height>>
    ELSE <<AtLeastOne(Shrunk(image, box)[1]), AtLeastOne(Shrunk(image, box)[2])>>

Written(format, size) == <<[format |-> format, width |-> size[1], height |-> size[2]]>>

ImageEncodeLossless(build, image) ==
    Written(IF build = "android" THEN "ztx" ELSE "webp", <<image.width, image.height>>)

\* An image cannot be scaled to an empty one.
AvifEncodeLossy(image, box) ==
    IF Fits(image, box) THEN Written("avif", <<image.width, image.height>>)
    ELSE IF 0 \in {Shrunk(image, box)[1], Shrunk(image, box)[2]} THEN <<>>
    ELSE Written("avif", Shrunk(image, box))

ImageEncodeLossy(build, image, box) ==
    IF build = "android" THEN Written("ztx", FitWithin(image, box))
    ELSE IF image.width * image.height <= kMinLossySize * kMinLossySize /\ Fits(image, box)
    THEN ImageEncodeLossless(build, image)
    ELSE AvifEncodeLossy(image, box)

EncodeForRole(build, image, role) ==
    IF role = "texture" THEN ImageEncodeLossless(build, image)
    ELSE ImageEncodeLossy(build, image, Box[role])

-----------------------------------------------------------------------------

\* Raw pixels and PNG are encoded again, the rest stays as it is, of any size.
EncodedAgain(image) == image.format \in {"rgba", "png"}

PrepareImage(build, image, role) ==
    IF ValidateHistoricalImage(image) # "ok" THEN ValidateHistoricalImage(image)
    ELSE IF image.format = "png" /\ ~image.content.intact THEN "DataLoss"
    ELSE IF EncodedAgain(image) /\ EncodeForRole(build, image, role) = <<>>
    THEN "FailedPrecondition" ELSE "ok"

\* The status of an image, and what it becomes if that is "ok".
ParseImage(build, version, image, role) ==
    LET read == AsRead(version, image)
    IN  IF read.size > kNonSoundByteLimit THEN "ResourceExhausted"
        ELSE IF read.format \notin Formats THEN "DataLoss"
        ELSE PrepareImage(build, read, role)

ParsedImage(build, version, image, role) ==
    LET read == AsRead(version, image)
    IN  IF EncodedAgain(read) THEN EncodeForRole(build, read, role)[1]
        ELSE Written(read.format, <<read.width, read.height>>)[1]
=============================================================================
