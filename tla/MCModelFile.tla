---------------------------- MODULE MCModelFile ----------------------------
(* A small instance of ModelFile for TLC.  The archives are those of           *)
(* ArchiveSamples.  Of the documents every section in turn takes all its     *)
(* small values, in every version where it exists, the others being as in a  *)
(* plain model; some let the sections interact; a few are put in every       *)
(* envelope, sound and damaged.                                              *)
EXTENDS ModelFile, ArchiveSamples

Texture(n, types) == [name |-> n, pbr |-> types]
Sound(n, k) == [name |-> n, kind |-> k]
Text(n, x) == [name |-> n, text |-> x]

Pairs(S) == {<<>>} \cup {<<x>> : x \in S} \cup {<<x, y>> : x, y \in S}

NoSettings == [wheel |-> <<>>, buttons |-> <<>>, classify |-> <<>>, scale |-> 7, texture |-> 0]

Plain(v) == [version |-> v, player |-> TRUE, textures |-> <<Texture(2, <<>>)>>,
             geos |-> <<>>, animations |-> <<>>, controllers |-> <<>>, names |-> <<>>,
             functions |-> <<>>, languages |-> <<>>,
             projectiles |-> <<>>, vehicles |-> <<>>, sounds |-> <<>>,
             info |-> v /= 1, settings |-> NoSettings,
             authors |-> <<>>, links |-> <<>>, contacts |-> <<>>, avatars |-> <<>>, gui |-> <<>>,
             images |-> <<>>, build |-> "desktop", identity |-> TRUE,
             geo_hashes |-> <<>>, animation_hashes |-> <<>>, texture_hashes |-> <<>>,
             sound_hashes |-> <<>>, function_hashes |-> <<>>, language_hashes |-> <<>>]

Versions == {1, 3, 5, 9, 11, 18, 19, 21, 26, 27, 32}

HasSection(v, f) == f \in Range(Sections(v, TRUE))

With(vs, f, values) ==
    {[Plain(v) EXCEPT ![f] = x] : v \in {w \in vs : HasSection(w, f)}, x \in values}

-----------------------------------------------------------------------------
(* Bodies. *)

\* Faces that share corners, texture coordinates, both or nothing.
FaceA == <<<<1, 1>>, <<2, 1>>, <<3, 2>>, <<4, 2>>>>
FaceB == <<<<2, 1>>, <<1, 2>>, <<3, 3>>, <<2, 2>>>>
FaceC == <<<<4, 3>>, <<4, 3>>, <<5, 1>>, <<4, 1>>>>

Bone(n, parent, body) == [name |-> n, parent |-> parent, body |-> body]
Geo(bones, scale) == [bones |-> bones, extra |-> <<>>, scale |-> scale, variables |-> <<>>]

\* A list of cubes, in version 5 of the faces they have.
Body(v, cubes) == IF v = 5 THEN FlattenSeq(cubes) ELSE cubes

Bones(v) == {Bone(1, 0, Body(v, cubes)) :
                cubes \in Pairs({<<>>, <<FaceA>>, <<FaceA, FaceB>>, <<FaceC, FaceB>>})}

LargeCube == <<FaceA, FaceA, FaceB>>

GeoBones(v) ==
    {<<>>} \cup {<<b>> : b \in Bones(v)}
    \cup {<<b, Bone(2, 1, Body(v, <<<<FaceC>>>>))>> : b \in Bones(v)}
    \cup {<<Bone(1, 0, Body(v, <<LargeCube>>))>>,
          [i \in 1 .. 4 |-> Bone(i, 0, <<>>)]}

SmallGeo(v, n) ==
    Geo(<<Bone(n, 0, Body(v, IF n = 2 THEN <<>> ELSE <<<<FaceA, FaceB>>>>))>>, n)
LargeGeo(v) == Geo(<<Bone(1, 0, Body(v, <<LargeCube>>))>>, 1)

\* An entry without a value is one of the old versions.
Known(v, all) == {e \in all : v < 19 \/ Has(e.value)}

Shaped ==
    UNION {{[Plain(v) EXCEPT !.geos = <<Entry(Main, <<Geo(b, 3)>>)>>] : b \in GeoBones(v)} :
               v \in {3, 5, 19}}
    \cup {[Plain(v) EXCEPT !.geos = <<Entry(Main, <<[SmallGeo(v, 1) EXCEPT !.variables = x]>>)>>] :
             v \in {3, 19}, x \in Pairs({1, 2})}

\* Which geometries there are, of which types.
Typed ==
    UNION {{[Plain(v) EXCEPT !.geos = g] :
                g \in Pairs(Known(v, {Entry(k, <<SmallGeo(v, k)>>) : k \in 1 .. 4} \cup
                                     {Entry(3, <<>>), Entry(1, <<>>)}))} :
               v \in {3, 5, 19}}

Value(kind) == [kind |-> kind, value |-> 1]
Values3(kind) == <<Value("number"), Value(kind), Value("string")>>
Frame(easing, pre, post) ==
    [tick |-> 1, easing |-> easing, pre |-> Values3(pre),
     post |-> IF post = "absent" THEN <<>> ELSE <<Values3(post)>>]

Animation(n) ==
    [name |-> n, loop |-> 1, delays |-> <<>>, weight |-> <<>>, bones |-> <<>>,
     programs |-> <<>>, sounds |-> <<>>]

KeyFrameList == {Frame(e, p, q) : e \in {1, 4}, p \in {"string", "none", "other"},
                            q \in {"absent", "number", "none"}}

OneFrame(f) == [Animation(1) EXCEPT
                   !.bones = <<[name |-> 1, channels |-> <<<<>>, <<f>>, <<>>>>]>>]

OldAnimations ==
    {Animation(1), [Animation(1) EXCEPT !.loop = 4],
     [Animation(2) EXCEPT !.programs = <<<<1, 2>>, <<>>>>]}
    \cup {OneFrame(f) : f \in KeyFrameList}

LateAnimations ==
    {[Animation(1) EXCEPT !.delays = <<d, e>>, !.weight = w] :
        d \in {<<>>, <<Value("none")>>, <<Value("other")>>}, e \in {<<>>, <<Value("string")>>},
        w \in {<<>>, <<Value("number")>>, <<Value("none")>>}}

Animations(v) ==
    OldAnimations \cup (IF v < 10 THEN {} ELSE LateAnimations)
    \cup (IF v < 11 THEN {} ELSE {[Animation(3) EXCEPT !.sounds = <<1, 2>>]})

File(n) == <<Animation(n)>>

Animated ==
    UNION {{[Plain(v) EXCEPT !.animations = <<Entry(Main, <<<<a>>>>)>>] : a \in Animations(v)} :
               v \in {9, 11, 19}}
    \cup UNION {{[Plain(v) EXCEPT !.animations = s] :
                    s \in Pairs(Known(v, {Entry(k, <<File(k)>>) : k \in {1, 2, 4, 5, 11, 12, 14}} \cup
                                         {Entry(5, <<>>)}))} :
                   v \in {9, 18, 19}}

State(n, late) ==
    [name |-> n, animations |-> <<[name |-> 1, condition |-> 0], [name |-> 2, condition |-> 3]>>,
     transitions |-> <<n>>, length |-> IF late THEN <<>> ELSE <<1>>,
     points |-> IF late THEN <<<<2, 1>>, <<1, 1>>>> ELSE <<>>,
     effects |-> <<<<1>>, <<>>, <<>>>>]

States == {<<State(1, FALSE)>>, <<State(2, FALSE), State(1, FALSE)>>,
           <<State(1, FALSE), State(1, FALSE)>>}
LateStates == {<<State(1, TRUE)>>,
               <<[State(1, TRUE) EXCEPT !.points = <<<<1, 1>>, <<1, 2>>>>]>>}

Controller(n, s) == [name |-> n, initial |-> 0, states |-> s]

Files == {<<>>, <<Controller(2, <<>>), Controller(1, <<>>)>>,
          <<Controller(1, <<>>), Controller(1, <<>>)>>}
         \cup {<<Controller(1, s)>> : s \in States}
LateFiles == {<<Controller(1, s)>> : s \in LateStates}

Plainly == <<Controller(1, <<State(1, FALSE)>>)>>

Controlled ==
    {[Plain(19) EXCEPT !.controllers = <<Entry(1, <<f>>)>>] : f \in Files \cup LateFiles}
    \cup {[Plain(19) EXCEPT !.controllers = s] :
             s \in Pairs({Entry(2, <<Plainly>>), Entry(1, <<<<>>>>)})}
    \cup {[Plain(11) EXCEPT !.controllers = s, !.names = n] :
             s \in Pairs({Entry(0, <<>>), Entry(0, <<Plainly>>)}), n \in Pairs({1, 2})}

-----------------------------------------------------------------------------
(* The other sections. *)

TextureLists ==
    Pairs({Texture(n, <<>>) : n \in {2, 3, 4, 5}} \cup
          {Texture(2, <<"specular", "normal">>)})

OldTextures ==
    Pairs({Texture(n, <<>>) : n \in {1, 2, 3, 5}}) \cup
    {<<Texture(2, <<t, u>>)>> : t, u \in {"normal", "specular", "other"}}

\* Names 3 to 6 are too long, alone or together, or just not.
MCNameSize ==
    [name \in 0 .. 6 |->
        CASE name = 0 -> 0
          [] name = 3 -> kMaxDescriptorSize
          [] name = 4 -> kMaxDescriptorSize - 265   \* one more than fits Plain
          [] name = 5 -> kMaxDescriptorSize - 266
          [] name = 6 -> kMaxDescriptorSize - 307   \* fits with one of a byte
          [] OTHER    -> 1]

LongNamed ==
    {<<Sound(n, k)>> : n \in 3 .. 6, k \in {"playable", "unknown"}}
    \cup {<<Sound(m, "playable"), Sound(n, "playable")>> : m, n \in {2, 3, 5, 6}}

SoundLists ==
    LongNamed \cup Pairs({Sound(n, k) : n \in {0, 1, 2}, k \in {"playable", "unknown"}} \cup
          {Sound(1, "corrupt")})

Named ==
    With(Versions, "functions", Pairs({Text(n, n) : n \in {1, 2}}))
    \cup With(Versions, "languages",
              Pairs({[name |-> n, entries |-> e] : n \in {1, 2},
                        e \in {<<>>, <<Text(2, 1), Text(1, 2)>>, <<Text(1, 1), Text(1, 2)>>}}))
    \cup {[Plain(v) EXCEPT !.settings.wheel = w] :
             v \in {3, 19}, w \in Pairs({Text(1, 1), Text(2, 2)})}
    \cup {[Plain(18) EXCEPT !.settings.buttons = <<[id |-> 1, forms |-> f]>>] :
             f \in Pairs({[value |-> n, labels |-> l] : n \in {0, 3},
                             l \in {<<Text(2, 1), Text(1, 1)>>, <<Text(1, 1), Text(1, 1)>>}})}
    \cup {[Plain(19) EXCEPT !.settings.classify = <<[id |-> 1, wheel |-> w]>>] :
             w \in Pairs({Text(1, 1), Text(2, 2)})}

Hashed ==
    UNION {With(Versions, table, Pairs({1, 2})) :
               table \in {"sound_hashes", "function_hashes", "language_hashes"}}
    \cup With(Versions, "geo_hashes", Pairs({0, 1, 3, 4}))
    \cup With(Versions, "animation_hashes", Pairs({1, 11, 12}))
    \cup With(Versions, "texture_hashes", Pairs({Texture(1, <<>>), Texture(2, <<>>)}))
    \cup With(Versions \ {1}, "texture_hashes",
              {<<Texture(1, <<t, u>>)>> : t, u \in {"normal", "other"}})

\* Up to three authors, who may share the avatars.
Authored ==
    {[Plain(v) EXCEPT !.authors = a, !.avatars = b] :
         v \in {w \in Versions : HasSection(w, "avatars")},
         a \in Pairs({1, 2}) \cup {<<1, 2, 1>>, <<1, 1, 2>>}, b \in Pairs({1, 2})}
    \cup {[Plain(v) EXCEPT !.authors = <<1, 2>>, !.links = l, !.contacts = c] :
             v \in {3, 32}, l \in Pairs({1, 2}), c \in {<<>>} \cup {<<k, <<1>>>> : k \in Pairs({1, 2})}}

\* No info section: the main geometry may have what is missing, or be missing.
Uninformed ==
    UNION {{[Plain(v) EXCEPT !.info = FALSE, !.avatars = b,
                      !.geos = <<Entry(k, <<[SmallGeo(v, 2) EXCEPT !.extra = x]>>)>>] :
                k \in {1, 2},
                x \in {<<>>} \cup {<<[authors |-> a, wheel |-> w]>> :
                                      a \in {<<>>, <<1, 2>>, <<2>>}, w \in {<<>>, <<3, 1>>}},
                b \in IF v = 1 THEN {<<>>} ELSE Pairs({1, 2})} : v \in {1, 5, 18}}

BodyOf(v, k, i) ==
    [key |-> k, animation |-> IF i = 1 THEN <<>> ELSE <<File(i)>>,
     controller |-> IF v < 22 \/ i = 1 THEN <<>> ELSE <<Plainly>>, pbr |-> <<>>,
     geo |-> SmallGeo(v, i)]

Bodied(v, keys, first) == [i \in DOMAIN keys |-> BodyOf(v, keys[i], first + i)]

Replaced ==
    {[Plain(v) EXCEPT !.projectiles = Bodied(v, a, 0), !.vehicles = Bodied(v, b, 2),
                      !.player = p, !.textures = IF p THEN @ ELSE <<>>] :
         v \in {21, 26, 27}, a \in Pairs({1, 2}), b \in Pairs({1, 2}), p \in BOOLEAN}
    \cup UNION {{[Plain(v) EXCEPT ![s] = <<[BodyOf(v, 1, 1) EXCEPT !.pbr = t], BodyOf(v, 2, 2)>>] :
                    t \in Pairs({"normal", "specular", "other"})} :
                   v \in {21, 27}, s \in {"projectiles", "vehicles"}}
    \cup {[Plain(27) EXCEPT !.vehicles = <<[BodyOf(27, 1, 1) EXCEPT !.geo = LargeGeo(27)]>>],
          [Plain(27) EXCEPT !.vehicles =
              <<[BodyOf(27, 1, 1) EXCEPT !.geo.variables = <<1, 1>>]>>],
          [Plain(27) EXCEPT !.vehicles =
              <<[BodyOf(27, 1, 1) EXCEPT !.animation = <<<<[Animation(1) EXCEPT !.loop = 4]>>>>]>>],
          [Plain(27) EXCEPT !.vehicles =
              <<[BodyOf(27, 1, 1) EXCEPT !.controller = <<Plainly \o Plainly>>]>>]}

\* In version 1 a texture is named by its file and has no other images.
OldTexturesOf(v) ==
    IF v /= 1 THEN OldTextures
    ELSE {t \in OldTextures : \A i \in DOMAIN t : t[i].name /= Arrow /\ t[i].pbr = <<>>}

Arrows ==
    UNION {{[Plain(v) EXCEPT !.geos = g, !.animations = a, !.textures = t] :
                g \in {<<>>, <<Entry(3, <<>>)>>, <<Entry(3, <<SmallGeo(v, 1)>>)>>},
                a \in {<<>>, <<Entry(5, <<File(1)>>)>>}, t \in OldTexturesOf(v)} :
               v \in {1, 3, 18}}

-----------------------------------------------------------------------------
(* Images. *)

Content(codec, size) ==
    [codec |-> codec, width |-> size[1], height |-> size[2], frames |-> 1, intact |-> TRUE]

Stored(format, size) ==
    [format |-> format, width |-> size[1], height |-> size[2], frames |-> 1,
     size |-> IF format = "rgba" THEN 4 * size[1] * size[2] ELSE 1,
     content |-> IF format = "rgba" THEN Content("none", <<0, 0>>) ELSE Content(format, size)]

\* Around the sizes where an encoder or a side changes; some so thin that
\* scaling leaves nothing of them.
ImageSizes ==
    {<<1, 1>>, <<96, 96>>, <<97, 96>>, <<192, 48>>, <<260, 450>>, <<261, 450>>, <<260, 451>>,
     <<320, 321>>, <<599, 1000>>, <<4096, 4096>>, <<4096, 1>>, <<4096, 8>>, <<1, 4096>>,
     <<313, 1>>, <<312, 1>>, <<1, 640>>, <<1, 641>>, <<0, 1>>, <<1, 0>>, <<4097, 1>>, <<1, 4097>>}

SomeSize == <<300, 500>>

OddImages ==
    {Stored(f, SomeSize) : f \in {"jpeg", "webp", "avif", "ztx", "none"}}
    \cup {[Stored("avif", SomeSize) EXCEPT !.content.frames = 2],
          [Stored("webp", SomeSize) EXCEPT !.content.frames = 2],
          [Stored("webp", SomeSize) EXCEPT !.frames = 2],
          [Stored("rgba", SomeSize) EXCEPT !.frames = 2],
          [Stored("rgba", SomeSize) EXCEPT !.size = @ - 1],
          [Stored("png", SomeSize) EXCEPT !.content.intact = FALSE],
          [Stored("jpeg", SomeSize) EXCEPT !.content.intact = FALSE],
          [Stored("png", SomeSize) EXCEPT !.content.codec = "webp"],
          [Stored("webp", SomeSize) EXCEPT !.content.width = 299],
          [Stored("png", SomeSize) EXCEPT !.content.codec = "none"],
          [Stored("jpeg", SomeSize) EXCEPT !.size = kNonSoundByteLimit],
          [Stored("jpeg", SomeSize) EXCEPT !.size = kNonSoundByteLimit + 1]}

Images == OddImages \cup {Stored(f, size) : f \in {"rgba", "png"}, size \in ImageSizes}

\* One image of every role at a time.
Places(v) ==
    {<<"texture", <<"textures", 0>>, 2, "uv">>}
    \cup (IF HasSection(v, "avatars") THEN {<<"avatar", 1>>} ELSE {})
    \cup (IF HasSection(v, "gui")
          THEN {<<"gui", n>> : n \in {"gui_background", "thumb-button", "thumb-icon"}} ELSE {})

Illustrated ==
    UNION {{[Plain(v) EXCEPT !.images = p :> image, !.build = b,
                             !.authors = IF p[1] = "avatar" THEN <<1, 1>> ELSE <<>>,
                             !.avatars = IF p[1] = "avatar" THEN <<1>> ELSE <<>>,
                             !.gui = IF p[1] = "gui" THEN <<p[2]>> ELSE <<>>] :
                p \in Places(v), image \in Images, b \in Builds} : v \in {1, 5, 21, 27}}
    \cup {[Plain(27) EXCEPT !.vehicles = Bodied(27, <<1>>, 0),
                            !.images = <<"texture", <<"vehicles", 1>>, 0, "uv">> :> image] :
             image \in Images}
    \cup {[Plain(27) EXCEPT !.projectiles = <<[BodyOf(27, 1, 1) EXCEPT !.pbr = <<"specular">>]>>,
                            !.images = <<"texture", <<"projectiles", 1>>, 0, "specular">> :> image] :
             image \in Images}
    \cup {[Plain(19) EXCEPT !.textures = <<Texture(2, <<"normal">>)>>,
                            !.images = <<"texture", <<"textures", 0>>, 2, "normal">> :> image] :
             image \in Images}

\* Everything at once, around the payload limit.
Full ==
    {[Plain(27) EXCEPT !.textures = <<Texture(3, <<"specular">>), Texture(2, <<"normal">>)>>,
                       !.projectiles = Bodied(27, <<2, 1>>, 0), !.vehicles = Bodied(27, <<1>>, 0),
                       !.authors = <<2, 1, 2>>,
                       !.avatars = <<1, 2>>, !.gui = g, !.sounds = s] :
         g \in Pairs({"gui_foreground", "thumb-icon", "thumb-button"}),
         s \in {<<>>, <<Sound(2, "playable"), Sound(1, "playable")>>}}

MCDocuments ==
    With(Versions \ {1, 3, 5, 9, 11, 18}, "textures", TextureLists)
    \cup With(Versions, "sounds", SoundLists)
    \cup With(Versions, "gui", Pairs(GuiNames \cup {"other"}))
    \cup Shaped \cup Typed \cup Animated \cup Controlled \cup Named \cup Hashed
    \cup {Plain(0), Plain(33)} \cup {[Plain(v) EXCEPT !.identity = FALSE] : v \in Versions}
    \cup Authored \cup Uninformed \cup Replaced \cup Arrows \cup Illustrated \cup Full

-----------------------------------------------------------------------------
(* Envelopes. *)

Block(i, o) == [in |-> i, out |-> o]

\* One block; a block longer than both buffers followed by an empty last
\* block; a run that gives more than it takes; a frame with no plaintext.
MCFrames ==
    [blocks : {<<Block(1, 2)>>,
               <<Block(3, 3), Block(0, 0)>>,
               <<Block(1, 5), Block(2, 1)>>,
               <<Block(0, 0)>>},
     checksum : BOOLEAN]

MCDamages == EnvelopeFaults \cup
    {"none", "cut", "trailing", "magic", "reserved", "payload", "checksum",
     "not last"}

MCPlainest == [frame |-> [blocks |-> <<Block(0, 0)>>, checksum |-> FALSE], salt |-> 0,
               damage |-> "none", asks |-> 0]

\* One of an unknown version, one that is imported, one refused for its names.
MCWrapped == {Plain(0), Plain(1),
              [Plain(1) EXCEPT !.textures = <<Texture(2, <<>>), Texture(2, <<>>)>>]}
=============================================================================
