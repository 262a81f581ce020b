---------------------------- MODULE LegacyImport ----------------------------
(***************************************************************************)
(* From the plaintext of a historical model to the result Java holds:       *)
(*   decode   legacy/src/v3/container/decoder.cc reads the sections its      *)
(*            version has and refuses what it cannot represent;              *)
(*   convert  legacy/src/v3/conversion/projector.cc lays the model out as a  *)
(*            list of payloads and a manifest that refers to them by id;     *)
(*   create   lib-jni/src/legacy/result_owner.cc checks the list once more   *)
(*            before it writes the descriptor;                               *)
(*   bridge   lib-jni/src/legacy/result_bridge.cc builds the Java object.    *)
(*                                                                          *)
(* A name is a number, its rank in unsigned UTF-8 order, 0 the empty one.   *)
(* Of a table of source hashes, which has no place in the target, and of the *)
(* links and contacts, whose texts the manifest repeats, the keys are kept:  *)
(* they count and may be refused.                                            *)
(***************************************************************************)
EXTENDS LegacyBodies, LegacyImages

CONSTANTS
    Documents,    \* the plaintexts: see the fields below
    EntryLimit,   \* kCollectionEntryLimit
    PayloadLimit, \* kMaxPayloadCount
    NameSize      \* of the name of a sound, in bytes

ASSUME LimitsAssumption == {EntryLimit, PayloadLimit} \subseteq Nat \ {0}

\* A document has the fields
\*   version, player            the version, and whether there is a player
\*   textures                   <<[name, pbr]>>, pbr a list of types
\*   geos, animations, controllers
\*                              of the player <<[key, value]>>: in an old version
\*                              the value is optional, and a controller has its
\*                              name in the list `names' and not in its key
\*   projectiles, vehicles      <<[key, animation, controller, pbr, geo]>>, the
\*                              animation and the controller optional
\*   functions, languages       <<[name, text]>> and <<[name, entries]>>
\*   geo_hashes, animation_hashes, sound_hashes, function_hashes,
\*   language_hashes            of an old version, the keys of the tables
\*   texture_hashes             the same, <<[name, pbr]>>
\*   info, settings             whether there is an info section, and its
\*                              settings
\*   sounds                     <<[name, kind]>>
\*   authors, avatars           names
\*   links, contacts            keys, and for each author with contacts the
\*                              keys of these
\*   gui                        names of GUI images
\*   images                     from the place of an image to the image, for
\*                              those that are not like PlainImage: a place is
\*                              <<"texture", <<section, place>>, name, type>>,
\*                              <<"avatar", name>> or <<"gui", name>>.  A null
\*                              texture of an old version has no size
\*   build                      the platform the library was built for
\*   identity                   whether the model's hash is 32 hex digits

VARIABLES
    doc,       \* the source being imported
    pc,        \* the step to run next, or the outcome
    status,    \* of the import, once it has failed
    trouble,   \* the allocator failed
    sections,  \* sections still to decode
    entries,   \* context.budget.collection_entries
    model,     \* LegacyModel
    targets,   \* the targets to project
    projected, \* TargetProjection of the first of them
    images,    \* ImageCollector
    payloads   \* ImportResult::payloads

vars == <<doc, pc, status, trouble, sections, entries, model, targets, projected, images, payloads>>

-----------------------------------------------------------------------------
(* decode *)

Arrow    == 1   \* "/ARROW\", the name under which a texture is the arrow's
ArrowPng == 5   \* "arrow.png"; other odd numbers are the even ones plus ".png"

LegacyTextureName(version, name) ==
    IF version /= 1 THEN name
    ELSE IF name = ArrowPng THEN Arrow
    ELSE IF name % 2 = 1 /\ name /= Arrow THEN name - 1 ELSE name

HashTables == {"geo_hashes", "animation_hashes", "texture_hashes", "sound_hashes",
               "function_hashes", "language_hashes"}

Collections == {"geos", "animations", "controllers", "names", "textures", "sounds",
                "functions", "languages", "projectiles", "vehicles", "authors",
                "avatars", "gui"} \cup HashTables

\* The sections a version has, in the order they are read.
If(condition, s) == IF condition THEN s ELSE <<>>

LegacySections(version) ==
    <<"geos", "animations">> \o If(version >= 10, <<"controllers", "names">>)
    \o <<"textures">> \o If(version >= 11, <<"sounds", "sound_hashes">>)
    \o If(version >= 16, <<"functions", "function_hashes">>)
    \o If(version >= 18, <<"languages", "language_hashes">>)
    \o If(version >= 4, <<"avatars">>)
    \o <<"geo_hashes", "animation_hashes", "texture_hashes">>
    \o If(version >= 2, <<"authors", "settings">>)

ReplacementSections(version) ==
    IF version >= 27 THEN <<"vehicles", "projectiles">>
    ELSE <<"projectiles">> \o If(version >= 21, <<"vehicles">>)

PlayerSections == <<"animations", "controllers", "textures", "geos">>

InfoSections(version) ==
    <<"authors", "settings", "avatars">> \o If(version >= 20, <<"gui">>)

Sections(version, player) ==
    IF version < 19 THEN LegacySections(version)
    ELSE <<"sounds", "functions", "languages">> \o ReplacementSections(version)
         \o If(player, PlayerSections) \o InfoSections(version)

\* A name is read as a string of at most kStringByteLimit bytes.
ASSUME NameSizeAssumption ==
    \A d \in Documents : \A sound \in Range(d.sounds) :
        /\ sound.name \in DOMAIN NameSize
        /\ NameSize[sound.name] \in 0 .. 16 * 1024 * 1024
        /\ NameSize[sound.name] = 0 <=> sound.name = 0

\* A version without a section has nothing in it.
ASSUME DocumentsAssumption ==
    \A d \in Documents :
        /\ \A f \in Collections :
               d[f] /= <<>> => f \in Range(Sections(d.version, d.player))
        /\ d.version = 1 => ~d.info
        /\ d.version < 3 => \A t \in Range(d.textures) \cup Range(d.texture_hashes) :
                               t.pbr = <<>>
        /\ ~d.info => /\ d.authors = <<>> /\ d.links = <<>>
                      /\ SettingsEntries(d.settings) = 0
        /\ Len(d.contacts) <= Len(d.authors)

\* Every geometry, animation file and controller file of the source.
Values(s) == FlattenSeq([i \in DOMAIN s |-> s[i].value])

Replacements(d) == d.projectiles \o d.vehicles

GeosIn(d, s) ==
    IF s = "geos" THEN Values(d.geos) ELSE [i \in DOMAIN d[s] |-> d[s][i].geo]
FilesIn(d, s) ==
    IF s = "animations" THEN Values(d.animations)
    ELSE FlattenSeq([i \in DOMAIN d[s] |-> d[s][i].animation])
ControllersIn(d, s) ==
    IF s = "controllers" THEN Values(d.controllers)
    ELSE FlattenSeq([i \in DOMAIN d[s] |-> d[s][i].controller])

\* The three ways to refuse: YSM_LEGACY_INVALID, YSM_LEGACY_RESOURCE_LIMIT and
\* YSM_LEGACY_TARGET_REPRESENTATION.
Invalid(fault)   == IF fault THEN {"DataLoss"} ELSE {}
Limit(fault)     == IF fault THEN {"ResourceExhausted"} ELSE {}
NoTarget(fault)  == IF fault THEN {"FailedPrecondition"} ELSE {}

BodyFaults(s) ==
    Limit(/\ s \in {"geos", "projectiles", "vehicles"}
          /\ \E geo \in Range(GeosIn(doc, s)) : GeoRefused(doc.version, geo))
    \cup NoTarget(/\ s \in {"geos", "projectiles", "vehicles"}
                  /\ \E geo \in Range(GeosIn(doc, s)) : HasDuplicate(geo.variables))
    \cup Invalid(/\ s \in {"animations", "projectiles", "vehicles"}
                 /\ \E file \in Range(FilesIn(doc, s)) : FileRefused(file))
    \cup NoTarget(/\ s \in {"controllers", "projectiles", "vehicles"}
                  /\ \E file \in Range(ControllersIn(doc, s)) : ControllersRefused(file))

Renamed == [i \in DOMAIN doc.textures |->
               [doc.textures[i] EXCEPT
                   !.name = LegacyTextureName(doc.version, @)]]

\* The texture set of a replacement, which has no name.
ReplacementTexture(r) == [name |-> 0, pbr |-> r.pbr]

\* The places of the images a section reads.
TexturePlaces(of, t) == {<<"texture", of, t.name, type>> : type \in {"uv"} \cup Range(t.pbr)}

ImagesIn(s) ==
    CASE s = "textures" -> UNION {TexturePlaces(<<"textures", 0>>, t) : t \in Range(Renamed)}
      [] s \in {"projectiles", "vehicles"} ->
             UNION {TexturePlaces(<<s, i>>, ReplacementTexture(doc[s][i])) : i \in DOMAIN doc[s]}
      [] s = "avatars"  -> {<<"avatar", name>> : name \in Range(doc.avatars)}
      [] s = "gui"      -> {<<"gui", name>> : name \in Range(doc.gui)}
      [] OTHER          -> {}

\* The role an image is prepared for.
PreparedRole(image) ==
    CASE image[1] = "texture" -> "texture"
      [] image[1] = "avatar"  -> "avatar"
      [] image = <<"gui", "thumb-button">> -> "thumbnail"
      [] image = <<"gui", "thumb-icon">>   -> "icon"
      [] OTHER -> "gui"

\* One pixel.
PlainImage == [format |-> "rgba", width |-> 1, height |-> 1, frames |-> 1, size |-> 4,
               content |-> [codec |-> "none", width |-> 0, height |-> 0, frames |-> 0,
                            intact |-> FALSE]]

ImageOf(d, image) == IF image \in DOMAIN d.images THEN d.images[image] ELSE PlainImage

Prepared(image) ==
    ParsedImage(doc.build, doc.version, ImageOf(doc, image), PreparedRole(image))

ImageFaults(s) ==
    {ParseImage(doc.build, doc.version, ImageOf(doc, image), PreparedRole(image)) :
         image \in ImagesIn(s)} \ {"ok"}

\* What the loop of ReadMap or of a sound map refuses.
GuiNames == {"gui_foreground", "gui_background", "thumb-button", "thumb-icon"}

SoundsEmitted(s) == SelectSeq(s, LAMBDA sound : sound.kind = "playable")

OutOf(s, types) == ~(Range(s) \subseteq types)

KeyFaults(s) ==
    CASE s = "geos"        -> NoTarget(HasDuplicate(Keys(doc.geos))) \cup
                              Invalid(doc.version < 19 /\ OutOf(Keys(doc.geos), 1 .. 3))
      [] s = "animations"  -> NoTarget(HasDuplicate(Keys(doc.animations))) \cup
                              Invalid(doc.version < 19 /\ OutOf(Keys(doc.animations), 1 .. 11))
      [] s = "controllers" -> NoTarget(doc.version >= 19 /\ HasDuplicate(Keys(doc.controllers)))
      [] s \in {"names", "avatars", "sound_hashes", "function_hashes", "language_hashes"} ->
                              NoTarget(HasDuplicate(doc[s]))
      [] s = "geo_hashes"  -> NoTarget(HasDuplicate(doc[s])) \cup Invalid(OutOf(doc[s], 1 .. 3))
      [] s = "animation_hashes" ->
                              NoTarget(HasDuplicate(doc[s])) \cup Invalid(OutOf(doc[s], 1 .. 11))
      [] s = "functions"   -> NoTarget(HasDuplicate(Names(doc.functions)))
      [] s = "languages"   -> NoTarget(\/ HasDuplicate(Names(doc.languages))
                                       \/ \E language \in Range(doc.languages) :
                                              HasDuplicate(Names(language.entries)))
      [] s = "settings"    -> NoTarget(SettingsRefused(doc.settings))
      [] s = "sounds"      -> NoTarget(HasDuplicate(Names(SoundsEmitted(doc.sounds)))) \cup
                              Invalid(\E i \in DOMAIN doc.sounds :
                                          doc.sounds[i].kind = "corrupt")
      [] s \in {"textures", "texture_hashes"} ->
                              NoTarget(\/ HasDuplicate(Names(doc[s]))
                                       \/ \E t \in Range(doc[s]) : HasDuplicate(t.pbr))
      [] s \in {"projectiles", "vehicles"} ->
                              NoTarget(\/ doc.version < 27 /\ HasDuplicate(Keys(doc[s]))
                                       \/ \E r \in Range(doc[s]) : HasDuplicate(r.pbr))
      [] s = "authors"     -> NoTarget(\/ HasDuplicate(doc.links)
                                       \/ \E keys \in Range(doc.contacts) : HasDuplicate(keys))
      [] s = "gui"         -> NoTarget(HasDuplicate(doc.gui) \/ OutOf(doc.gui, GuiNames))
      [] OTHER             -> {}

\* The entries ReadCount charges for a section.
NestedEntries(d, s) ==
    CASE s \in {"textures", "texture_hashes"} -> SumOver(d[s], LAMBDA t : Len(t.pbr))
      [] s = "geos"        -> SumOver(GeosIn(d, s), LAMBDA geo : GeoEntries(d.version, geo))
      [] s = "animations"  -> SumOver(FilesIn(d, s), FileEntries)
      [] s = "controllers" -> SumOver(ControllersIn(d, s), ControllersEntries)
      [] s = "languages"   -> SumOver(d.languages, LAMBDA l : Len(l.entries))
      [] s = "authors"     -> Len(d.links) + SumOver(d.contacts, Len)
      [] s \in {"projectiles", "vehicles"} ->
             SumOver(GeosIn(d, s), LAMBDA geo : GeoEntries(d.version, geo))
               + SumOver(FilesIn(d, s), FileEntries)
               + SumOver(ControllersIn(d, s), ControllersEntries)
               + SumOver(d[s], LAMBDA r : Len(r.pbr))
               + (IF d.version >= 27 THEN Len(d[s]) ELSE 0)   \* what each matches
      [] OTHER -> 0

SectionEntries(s) ==
    IF s = "settings" THEN SettingsEntries(doc.settings)
    ELSE Len(doc[s]) + NestedEntries(doc, s)

\* Whichever fault of a section comes first among its bytes is reported.
SectionFaults(s) ==
    Limit(SectionEntries(s) > EntryLimit - entries)
    \cup KeyFaults(s) \cup BodyFaults(s) \cup ImageFaults(s)

\* A target to project: where its texture sets stand in the source, and what
\* it is made of, by type.
Main == 1   \* PlayerModelType::kMain, PlayerAnimationType::kMain, "main"

Entry(key, value) == [key |-> key, value |-> value]
Single(option) == [i \in DOMAIN option |-> Entry(Main, option[i])]

Replacement(kind, s, i) ==
    [id |-> <<kind, i>>, key |-> doc[s][i].key, of |-> <<s, i>>,
     textures |-> <<ReplacementTexture(doc[s][i])>>, match |-> <<doc[s][i].key>>,
     geos |-> <<Entry(Main, DecodedGeo(doc.version, doc[s][i].geo))>>,
     animations |-> Single(doc[s][i].animation),
     controllers |-> Single(doc[s][i].controller)]

ReplacementsOf(kind, s) == [i \in DOMAIN doc[s] |-> Replacement(kind, s, i)]

\* Up to version 18 what belongs to the arrow is among the player's, and any
\* of it creates the one projectile; so does a geometry of the arrow that is
\* null.
ArrowGeo       == 3
ArrowAnimation == 5

ArrowTextures == SelectSeq(Renamed, LAMBDA t : t.name = Arrow)

\* The entries that have a value, each with it.
Present(s) == LET present == SelectSeq(s, LAMBDA e : Has(e.value))
              IN  [i \in DOMAIN present |-> Entry(present[i].key, present[i].value[1])]

Geos == LET geos == Present(doc.geos)
        IN  [i \in DOMAIN geos |->
                Entry(geos[i].key, DecodedGeo(doc.version, geos[i].value))]

ArrowsOwn(s, key) ==
    LET own == SelectSeq(s, LAMBDA e : e.key = key)
    IN  [i \in DOMAIN own |-> Entry(Main, own[i].value)]

NotArrows(s, key) == SelectSeq(s, LAMBDA e : e.key /= key)

LegacyProjectiles ==
    IF /\ ArrowGeo \notin Range(Keys(doc.geos)) /\ ArrowTextures = <<>>
       /\ ArrowAnimation \notin Range(Keys(Present(doc.animations)))
    THEN <<>>
    ELSE <<[id |-> <<"projectile", 1>>, key |-> 0, of |-> <<"textures", 0>>,
            textures |-> IF ArrowTextures = <<>> THEN <<>> ELSE <<Last(ArrowTextures)>>,
            match |-> <<0>>, geos |-> ArrowsOwn(Geos, ArrowGeo),
            animations |-> ArrowsOwn(Present(doc.animations), ArrowAnimation),
            controllers |-> <<>>]>>

\* The names of the old controllers are the keys of the table of their hashes.
Controllers ==
    IF doc.version >= 19 THEN Present(doc.controllers)
    ELSE Present([i \in DOMAIN doc.controllers |->
                     Entry(doc.names[i], doc.controllers[i].value)])

Player(textures, geos, animations) ==
    [id |-> <<"player", 0>>, key |-> 0, of |-> <<"textures", 0>>, textures |-> textures,
     match |-> <<>>, geos |-> geos, animations |-> animations,
     controllers |-> Controllers]

LegacyPlayer == Player(SelectSeq(Renamed, LAMBDA t : t.name /= Arrow),
                       NotArrows(Geos, ArrowGeo),
                       NotArrows(Present(doc.animations), ArrowAnimation))

\* Without an info section the main geometry and the first texture stand in.
MainGeos == LET main == SelectSeq(Geos, LAMBDA e : e.key = Main)
            IN  [i \in DOMAIN main |-> main[i].value]

OldAuthors == FlattenSeq([i \in DOMAIN MainGeos |->
                  FlattenSeq([j \in DOMAIN MainGeos[i].extra |-> MainGeos[i].extra[j].authors])])
OldWheel   == FlattenSeq([i \in DOMAIN MainGeos |->
                  FlattenSeq([j \in DOMAIN MainGeos[i].extra |-> MainGeos[i].extra[j].wheel])])

DefaultScale == 1   \* ModelProperties has 0.7

OldSettings ==
    [wheel |-> IF Has(MainGeos) /\ Has(MainGeos[1].extra) THEN Extras(OldWheel)
               ELSE EmptyWheel,
     buttons |-> <<>>, classify |-> <<>>,
     scale |-> IF Has(MainGeos) THEN MainGeos[1].scale ELSE DefaultScale,
     texture |-> IF Has(LegacyPlayer.textures) THEN LegacyPlayer.textures[1].name ELSE 0]

DecodedModel ==
    [player |-> IF doc.version < 19 THEN <<LegacyPlayer>>
                ELSE IF doc.player
                THEN <<Player(doc.textures, Geos, Present(doc.animations))>> ELSE <<>>,
     projectiles |-> IF doc.version < 19 THEN LegacyProjectiles
                     ELSE ReplacementsOf("projectile", "projectiles"),
     vehicles |-> ReplacementsOf("vehicle", "vehicles"),
     sounds   |-> Names(SoundsEmitted(doc.sounds)),
     functions |-> doc.functions, languages |-> doc.languages,
     settings |-> IF doc.info THEN doc.settings ELSE OldSettings,
     authors  |-> IF doc.info THEN doc.authors ELSE OldAuthors,
     avatars |-> doc.avatars, gui |-> doc.gui]

NoModel == [player |-> <<>>, projectiles |-> <<>>, vehicles |-> <<>>, sounds |-> <<>>,
            functions |-> <<>>, languages |-> <<>>, settings |-> [wheel |-> <<>>],
            authors |-> <<>>, avatars |-> <<>>, gui |-> <<>>]

NoImages == [next |-> 0, blobs |-> <<>>, named |-> <<>>, cache |-> <<>>,
             taken |-> {}, refs |-> {}, ok |-> TRUE]

\* An import about to begin.
NewImport ==
    /\ pc = "version" /\ status = "ok" /\ trouble = FALSE
    /\ sections = Sections(doc.version, doc.player)
    /\ entries = 0 /\ model = NoModel
    /\ targets = <<>> /\ projected = <<>> /\ images = NoImages /\ payloads = <<>>

convertVars == <<targets, projected, images, payloads>>

GoOn(step) == pc' = step /\ UNCHANGED <<status, trouble>>

Fail(why) == pc' = "failed" /\ status' = why /\ UNCHANGED trouble

ReadVersion ==
    /\ pc = "version"
    /\ IF doc.version \in 1 .. 32 THEN GoOn("decode") ELSE Fail("Unimplemented")
    /\ UNCHANGED <<doc, sections, entries, model, convertVars>>

DecodeSection ==
    /\ pc = "decode" /\ sections /= <<>>
    /\ LET s == Head(sections)
       IN  \/ \E fault \in SectionFaults(s) : Fail(fault) /\ UNCHANGED <<sections, entries>>
           \/ /\ SectionFaults(s) = {}
              /\ entries' = entries + SectionEntries(s)
              /\ sections' = Tail(sections)
              /\ GoOn(pc)
    /\ UNCHANGED <<doc, model, convertVars>>

\* The families end with what concerns several sections; the hash comes last.
DecodeModel ==
    /\ pc = "decode" /\ sections = <<>>
    /\ IF doc.version < 19 /\ Len(doc.controllers) /= Len(doc.names)
       THEN Fail("FailedPrecondition") /\ UNCHANGED model
       ELSE IF ~doc.identity THEN Fail("DataLoss") /\ UNCHANGED model
       ELSE model' = DecodedModel /\ GoOn("count")
    /\ UNCHANGED <<doc, sections, entries, convertVars>>

\* Import catches what any of its allocations throws.
OutOfMemory ==
    /\ pc \in {"version", "decode", "count", "order", "targets", "payloads"}
    /\ pc' = "failed" /\ status' = "ResourceExhausted" /\ trouble' = TRUE
    /\ UNCHANGED <<doc, sections, entries, model, convertVars>>

-----------------------------------------------------------------------------
(* convert *)

AllTargets(m) == m.player \o m.projectiles \o m.vehicles

TextureCount(ts) == SumOver(ts, LAMBDA t : 1 + Len(t.pbr))

WithAvatar(m) == SelectSeq(m.authors, LAMBDA a : a \in Range(m.avatars))

AvatarsCounted(m) == Len(m.avatars)   \* mutant
AuthorsCounted(m) == Len(WithAvatar(m))

ProjectedPayloadCount(m) ==
    2 + Len(AllTargets(m))
      + SumOver(AllTargets(m), LAMBDA t : TextureCount(t.textures))
      + Len(m.gui) + AuthorsCounted(m) + Len(m.sounds)

CountPayloads ==
    /\ pc = "count"
    /\ IF ProjectedPayloadCount(model) > PayloadLimit THEN Fail("ResourceExhausted") ELSE GoOn("order")
    /\ UNCHANGED <<doc, sections, entries, model, convertVars>>

\* Up to version 26 the replacements came from a map: by key.  A target is
\* numbered by its place in this order.
OrderedReplacements(ts) ==
    IF doc.version <= 26 THEN ByKey(ts) ELSE ts

Numbered(ts) == [i \in DOMAIN ts |-> [ts[i] EXCEPT !.id[2] = i]]

OrderTargets ==
    /\ pc = "order"
    /\ IF /\ doc.version <= 26
          /\ HasDuplicate(Keys(model.projectiles)) \/ HasDuplicate(Keys(model.vehicles))
       THEN Fail("FailedPrecondition") /\ UNCHANGED <<targets, images>>
       ELSE /\ targets' = model.player
                   \o Numbered(OrderedReplacements(model.projectiles))
                   \o Numbered(OrderedReplacements(model.vehicles))
            /\ images' = [images EXCEPT !.next = 2 + Len(targets')]
            /\ GoOn("targets")
    /\ UNCHANGED <<doc, sections, entries, model, projected, payloads>>

\* Taking an image moves its bytes out of the model; what was prepared is
\* checked again.
CanTake(c, image, role) ==
    /\ PreparedRole(image) = role /\ image \notin c.taken
    /\ Prepared(image).width /= 0 /\ Prepared(image).height /= 0
    /\ Prepared(image).format /= "rgba"

Cached(c, image) == image \in DOMAIN c.cache

CachedBytesLatest(c, image) == Last(c.blobs).bytes   \* mutant
CachedBytes(c, image) == c.blobs[c.cache[image]].bytes

\* ImageCollector::AddBlob: a payload of its own for each use of an image;
\* `slot' is the place in the manifest that will refer to it.
AddBlob(c, image, role, slot) ==
    IF ~c.ok \/ (~Cached(c, image) /\ ~CanTake(c, image, role))
    THEN [c EXCEPT !.ok = FALSE]
    ELSE LET bytes == IF Cached(c, image) THEN CachedBytes(c, image) ELSE image
         IN  [c EXCEPT
                !.next = @ + 1,
                !.blobs = Append(@, [kind |-> "blob", id |-> c.next, name |-> 0,
                                     bytes |-> bytes, info |-> Prepared(image)]),
                !.cache = IF Cached(c, image) THEN @
                          ELSE (image :> Len(c.blobs) + 1) @@ @,
                !.taken = @ \cup {image},
                !.refs = @ \cup {<<slot, c.next, Prepared(image)>>}]

AddNamed(c, image, role) ==
    IF ~c.ok \/ ~CanTake(c, image, role) THEN [c EXCEPT !.ok = FALSE]
    ELSE [c EXCEPT !.named = Append(@, [kind |-> "named", id |-> 0,
                                        name |-> image[2], bytes |-> image,
                                        info |-> Prepared(image)]),
                   !.taken = @ \cup {image}]

\* The images of a texture set in the order they get their ids.
TextureImages(target, t) ==
    LET image(type) == <<"texture", target.of, t.name, type>>
        has(type)   == IF type \in Range(t.pbr) THEN <<image(type)>> ELSE <<>>
    IN  <<image("uv")>> \o has("normal") \o has("specular")

ProjectTextures(c, target) ==
    FoldLeft(LAMBDA acc, image : AddBlob(acc, image, "texture", image), c,
             FlattenSeq([i \in DOMAIN target.textures |->
                            TextureImages(target, ByName(target.textures)[i])]))

TexturesFail(textures) ==
    \/ HasDuplicate(Names(textures))
    \/ \E i \in DOMAIN textures :
           ~(Range(textures[i].pbr) \subseteq {"normal", "specular"})

\* PlayerGeoName and PlayerAnimationName: the types there is a name for, in the
\* order of the names.
GeoNames       == <<2, 1>>
AnimationNames == <<2, 6, 3, 11, 12, 13, 1, 7, 9, 8, 4, 10>>

InNameOrder(s, names) ==
    FlattenSeq([i \in DOMAIN names |-> SelectSeq(s, LAMBDA e : e.key = names[i])])

Nameless(s, names) == ~(Range(Keys(s)) \subseteq Range(names))

TargetFails(target) ==
    \/ target.id[1] = "player" /\ target.textures = <<>>
    \/ Nameless(target.geos, GeoNames) \/ Nameless(target.animations, AnimationNames)
    \/ HasDuplicate(Keys(target.controllers))
    \/ \E file \in Range(target.animations) : FileUnprojectable(file.value)
    \/ TexturesFail(target.textures)

EachValue(s, Project(_)) == [i \in DOMAIN s |-> Entry(s[i].key, Project(s[i].value))]

ModelData(target) ==
    [geos |-> EachValue(InNameOrder(target.geos, GeoNames), ProjectGeo),
     animations |-> EachValue(InNameOrder(target.animations, AnimationNames), ProjectFile),
     controllers |-> EachValue(ByKey(target.controllers), ProjectControllers)]

\* Of the player's geometries the main one is measured.
TargetStats(target) ==
    LET main == SelectSeq(target.geos, LAMBDA e : e.key = Main)
    IN  IF Has(main) THEN GeoStats(main[1].value) ELSE NoStats

Projection(target) ==
    [manifest |-> [id |-> target.id, match |-> target.match, blob |-> Len(projected) + 2,
                   scale |-> model.settings.scale, stats |-> TargetStats(target)],
     data |-> ModelData(target)]

\* ProjectPlayer and ProjectReplacement.
ProjectTarget ==
    /\ pc = "targets" /\ Len(projected) < Len(targets)
    /\ LET target == targets[Len(projected) + 1]
       IN  /\ images' = ProjectTextures(images, target)
           /\ IF TargetFails(target) \/ ~images'.ok
              THEN Fail("FailedPrecondition") /\ UNCHANGED projected
              ELSE GoOn(pc) /\ projected' = Append(projected, Projection(target))
    /\ UNCHANGED <<doc, sections, entries, model, targets, payloads>>

AddGui(c, name) ==
    IF name \notin Range(model.gui) THEN c
    ELSE AddBlob(c, <<"gui", name>>, "gui", <<"gui", name>>)

AddAvatars(c) ==
    FoldLeft(LAMBDA acc, i :
                 IF model.authors[i] \notin Range(model.avatars) THEN acc
                 ELSE AddBlob(acc, <<"avatar", model.authors[i]>>, "avatar",
                              <<"author", i>>),
             c, [i \in DOMAIN model.authors |-> i])

AddThumb(c, name, role) ==
    IF name \notin Range(model.gui) THEN c ELSE AddNamed(c, <<"gui", name>>, role)

ProjectInfo ==
    /\ pc = "targets" /\ Len(projected) = Len(targets)
    /\ LET gui    == AddGui(AddGui(images, "gui_foreground"), "gui_background")
           thumbs == AddThumb(AddThumb(AddAvatars(gui), "thumb-button", "thumbnail"),
                              "thumb-icon", "icon")
       IN  images' = thumbs
    /\ IF ~images'.ok \/ ~(Range(model.avatars) \subseteq Range(model.authors))
       THEN Fail("FailedPrecondition") ELSE GoOn("payloads")
    /\ UNCHANGED <<doc, sections, entries, model, targets, projected, payloads>>

Languages ==
    [i \in DOMAIN model.languages |->
        [ByName(model.languages)[i] EXCEPT !.entries = ByName(@)]]

Manifest ==
    [targets |-> [i \in DOMAIN projected |-> projected[i].manifest],
     settings |-> ProjectSettings(model.settings), languages |-> Languages]

SortedSounds(names) == SortSeq(names, LAMBDA a, b : a < b)

BuildPayloads ==
    /\ pc = "payloads"
    /\ payloads' =
           <<[kind |-> "manifest", id |-> 0, name |-> 0, bytes |-> Manifest],
             [kind |-> "strings", id |-> 1, name |-> 0, bytes |-> ByName(model.functions)]>>
           \o [i \in DOMAIN targets |->
                  [kind |-> "model", id |-> i + 1, name |-> targets[i].id,
                   bytes |-> projected[i].data]]
           \o images.blobs \o images.named
           \o [i \in DOMAIN model.sounds |->
                  [kind |-> "sound", id |-> i, name |-> SortedSounds(model.sounds)[i],
                   bytes |-> <<"sound", SortedSounds(model.sounds)[i]>>]]
    /\ GoOn("create")
    /\ UNCHANGED <<doc, sections, entries, model, targets, projected, images>>

-----------------------------------------------------------------------------
(* create *)

kMaxImageDimension == 4096

Place(kind) == CASE kind = "manifest" -> 0 [] kind = "strings" -> 1
                 [] kind = "model" -> 2 [] kind = "blob" -> 3
                 [] kind = "named" -> 4 [] kind = "sound" -> 5

OfKind(ps, kinds) == {i \in DOMAIN ps : ps[i].kind \in kinds}

\* ValidatePayload: what a payload must be whatever comes before it.
ValidImage(info) ==
    /\ info.format \in {"png", "jpeg", "webp", "avif", "ztx"}
    /\ info.width \in 1 .. kMaxImageDimension /\ info.height \in 1 .. kMaxImageDimension

ValidPayload(p) ==
    CASE p.kind = "blob"  -> ValidImage(p.info) /\ p.id /= 0
      [] p.kind = "named" -> ValidImage(p.info) /\ p.name \in {"thumb-button", "thumb-icon"}
      [] p.kind = "sound" -> p.id /= 0 /\ p.name /= 0
      [] OTHER -> TRUE

\* ValidateCanonicalOrder.
CanonicalOrder(ps) ==
    /\ \A i \in DOMAIN ps : ValidPayload(ps[i])
    /\ \A i \in DOMAIN ps : ps[i].kind = "manifest" <=> i = 1
    /\ \A i \in DOMAIN ps : ps[i].kind = "strings" <=> i = 2
    /\ \A i, j \in DOMAIN ps : i < j => Place(ps[i].kind) <= Place(ps[j].kind)
    /\ \A i \in OfKind(ps, {"strings", "model", "blob"}) : ps[i].id = i - 1
    /\ \A i, j \in OfKind(ps, {"model"}) : i /= j => ps[i].name /= ps[j].name
    /\ \A i, j \in OfKind(ps, {"named"}) :
           i < j => ps[i].name = "thumb-button" /\ ps[j].name = "thumb-icon"
    /\ LET sounds == OfKind(ps, {"sound"})
       IN  \A i \in sounds :
              /\ ps[i].id = Cardinality({j \in sounds : j <= i})
              /\ i - 1 \in sounds => ps[i - 1].name < ps[i].name

\* EncodeDescriptor: a header, and for each payload a prefix and its name.
kHeaderSize        == 60
kPayloadPrefixSize == 40
kMaxDescriptorSize == 16 * 1024 * 1024

Digits(n) == Cardinality({power \in {1, 10, 100, 1000, 10000} : power <= n})

\* "player", "projectile-1", "vehicle-1".
TargetNameSize(id) ==
    CASE id[1] = "player"     -> 6
      [] id[1] = "projectile" -> 11 + Digits(id[2])
      [] id[1] = "vehicle"    -> 8 + Digits(id[2])

ThumbNameSize(name) == IF name = "thumb-button" THEN 12 ELSE 10

PayloadNameSize(p) ==
    CASE p.kind = "model" -> TargetNameSize(p.name)
      [] p.kind = "named" -> ThumbNameSize(p.name)
      [] p.kind = "sound" -> NameSize[p.name]
      [] OTHER -> 0

DescriptorSize(ps) ==
    kHeaderSize + SumOver(ps, LAMBDA p : kPayloadPrefixSize + PayloadNameSize(p))

CreateOwner ==
    /\ pc = "create"
    /\ IF \/ Len(payloads) > PayloadLimit \/ ~CanonicalOrder(payloads)
          \/ DescriptorSize(payloads) > kMaxDescriptorSize
       THEN GoOn("refused") ELSE GoOn("result")
    /\ UNCHANGED <<doc, sections, entries, model, convertVars>>

-----------------------------------------------------------------------------
(* bridge *)

\* The code NewFailureResult gives Java.
FailureCode(why) ==
    CASE why = "Unimplemented"                    -> 2
      [] why \in {"InvalidArgument", "DataLoss"}  -> 3
      [] why = "ResourceExhausted"                -> 4
      [] why \in {"NotFound", "PermissionDenied", "Unavailable"} -> 5
      [] why = "FailedPrecondition"               -> 11
      [] OTHER                                    -> 8

\* Any JNI call may leave an exception pending; an owner is then destroyed.
JniFails ==
    /\ pc \in {"result", "failed"} /\ GoOn("exception")
    /\ UNCHANGED <<doc, sections, entries, model, convertVars>>

DeliverFailure ==
    /\ pc = "failed" /\ GoOn("failure")
    /\ UNCHANGED <<doc, sections, entries, model, convertVars>>

Deliver ==
    /\ pc = "result" /\ GoOn("success")
    /\ UNCHANGED <<doc, sections, entries, model, convertVars>>

Decode  == ReadVersion \/ DecodeSection
Convert ==
    \/ CountPayloads \/ OrderTargets \/ ProjectTarget \/ ProjectInfo \/ BuildPayloads
    \/ CreateOwner
Report  == Deliver \/ DeliverFailure \/ JniFails

-----------------------------------------------------------------------------
(* Properties. *)

\* What a plaintext must be for the target format to hold it, said of the
\* source alone: names do not collide, images have a role, and the limits hold.
SameTexture(d, a, b) ==
    \/ a = b
    \/ d.version = 1 /\ {a, b} \cap {Arrow, ArrowPng} = {} /\ a \div 2 = b \div 2

IsArrows(d, name) ==
    d.version < 19 /\ name = (IF d.version = 1 THEN ArrowPng ELSE Arrow)

Distinct(s) == Cardinality(Range(s)) = Len(s)

\* The PBR maps of every texture set of the source.
PbrMaps(d) == [i \in DOMAIN d.textures |-> d.textures[i].pbr]
              \o [i \in DOMAIN Replacements(d) |-> Replacements(d)[i].pbr]
PbrCount(d) == Len(FlattenSeq(PbrMaps(d)))

\* Every collection of the source counts, the nested ones too.
EntryCount(d) ==
    MapThenSumSet(LAMBDA f : Len(d[f]) + NestedEntries(d, f), Collections)
    + SettingsEntries(d.settings)

HasArrow(d) ==
    \/ \E i \in DOMAIN d.geos : d.geos[i].key = ArrowGeo
    \/ \E i \in DOMAIN d.animations :
           d.animations[i].key = ArrowAnimation /\ Has(d.animations[i].value)
    \/ \E i \in DOMAIN d.textures : IsArrows(d, d.textures[i].name)

\* The authors named by the info section, or else by the main geometry.
MainGeo(d) == {g \in Range(d.geos) : g.key = Main /\ Has(g.value)}
ExtraInfo(d) == {g.value[1].extra[1] : g \in {h \in MainGeo(d) : Has(h.value[1].extra)}}

SourceAuthors(d) ==
    IF d.info THEN d.authors
    ELSE IF ExtraInfo(d) = {} THEN <<>> ELSE (CHOOSE e \in ExtraInfo(d) : TRUE).authors

Playable(d) == {i \in DOMAIN d.sounds : d.sounds[i].kind = "playable"}

\* The targets of the result: the old versions have no replacement but the
\* arrow.
TargetIds(d) ==
    {id \in {<<"player", 0>>} : d.version < 19 \/ d.player}
    \cup {id \in {<<"projectile", 1>>} : d.version < 19 /\ HasArrow(d)}
    \cup {<<"projectile", i>> : i \in DOMAIN d.projectiles}
    \cup {<<"vehicle", i>> : i \in DOMAIN d.vehicles}

\* Two fixed payloads, one for each target, each use of an image, each sound.
PayloadCount(d) ==
    2 + Cardinality(TargetIds(d))
      + Len(PbrMaps(d)) + PbrCount(d) + Len(d.gui)
      + Cardinality({i \in DOMAIN SourceAuthors(d) :
                         SourceAuthors(d)[i] \in Range(d.avatars)})
      + Cardinality(Playable(d))

Every(s, Holds(_)) == \A x \in Range(s) : Holds(x)

GeosOf(d) == UNION {Range(GeosIn(d, s)) : s \in {"geos", "projectiles", "vehicles"}}

GeometryFits(d) ==
    \A g \in GeosOf(d) :
        /\ Len(g.bones) <= BoneLimit
        /\ d.version /= 5 => \A b \in Range(g.bones) :
                                 Every(b.body, LAMBDA cube : Len(cube) <= CubeFaceLimit)

\* A delay may be of the kind `none': it is not projected.
AnimationFits(a) ==
    /\ a.loop <= EnumLimit
    /\ Every(a.weight, LAMBDA m : m.kind /= "none")
    /\ \A f \in AnimationFrames(a) :
           /\ f.easing <= EnumLimit
           /\ Every(f.pre, LAMBDA m : m.kind /= "none")
           /\ Every(FlattenSeq(f.post), LAMBDA m : m.kind /= "none")

MolangKnown(a) ==
    /\ Every(a.weight \o FlattenSeq(a.delays), LAMBDA m : m.kind \in MolangKinds)
    /\ \A f \in AnimationFrames(a) :
           Every(f.pre \o FlattenSeq(f.post), LAMBDA m : m.kind \in MolangKinds)

ControllersFit(file) ==
    /\ Distinct(Names(file))
    /\ \A c \in Range(file) :
           /\ Distinct(Names(c.states))
           /\ \A s \in Range(c.states) : Distinct(PointKeys(s))

TypesFit(d) ==
    /\ Distinct(Keys(d.geos)) /\ Distinct(Keys(d.animations))
    /\ IF d.version < 19
       THEN Distinct(d.names) /\ Len(d.names) = Len(d.controllers)
       ELSE /\ Range(Keys(d.geos)) \subseteq {1, 2}
            /\ Range(Keys(d.animations)) \subseteq (1 .. 13) \ {5}
            /\ Distinct(Keys(d.controllers))

HashesFit(d) ==
    /\ \A table \in HashTables \ {"texture_hashes"} : Distinct(d[table])
    /\ Distinct(Names(d.texture_hashes))
    /\ Every(d.texture_hashes, LAMBDA t : Distinct(t.pbr))

FilesOf(d)       == UNION {Range(FilesIn(d, s)) : s \in {"animations", "projectiles", "vehicles"}}
ControllersOf(d) ==
    UNION {Range(ControllersIn(d, s)) : s \in {"controllers", "projectiles", "vehicles"}}

BodiesFit(d) ==
    /\ TypesFit(d) /\ HashesFit(d)
    /\ \A geo \in GeosOf(d) : Distinct(geo.variables)
    /\ Distinct(d.links) /\ Every(d.contacts, Distinct)
    /\ \A file \in FilesOf(d) : Every(file, AnimationFits)
    /\ \A file \in ControllersOf(d) : ControllersFit(file)
    /\ Distinct(Names(d.functions)) /\ Distinct(Names(d.languages))
    /\ Every(d.languages, LAMBDA l : Distinct(Names(l.entries)))
    /\ \A map \in TextMaps(d.settings) : Distinct(Names(map))

\* The images of the source.
SourceImages ==
    UNION {ImagesIn(s) : s \in {"textures", "projectiles", "vehicles", "avatars", "gui"}}

Raw(d, image) == d.version < 23 \/ image.format = "rgba"
KeptAsStored(d, image) == ~Raw(d, image) /\ image.format /= "png"

\* An image is a still one, its bytes are what its fields say, and what is to
\* be encoded again can be decoded.
ImageWellFormed(d, image) ==
    /\ image.width > 0 /\ image.height > 0
    /\ d.version >= 23 => image.frames = 1
    /\ IF Raw(d, image) THEN image.size = 4 * image.width * image.height
       ELSE /\ image.format \in {"png", "jpeg", "webp", "avif"}
            /\ image.content.codec = image.format
            /\ <<image.content.width, image.content.height>> = <<image.width, image.height>>
            /\ image.format = "avif" => image.content.frames = 1
            /\ image.format = "png" => image.content.intact

ImageWithinLimits(image) ==
    /\ image.width <= kImageDimensionLimit /\ image.height <= kImageDimensionLimit
    /\ image.size <= kNonSoundByteLimit

\* Scaled by the encoder of the desktop, half a pixel is left on either side.
ScalesTo(image, box) ==
    \/ Fits(image, box)
    \/ /\ 2 * image.height * box[1] >= image.width
       /\ 2 * image.width * box[2] >= image.height

ImageFits(d, place) ==
    LET image == ImageOf(d, place)
        role  == PreparedRole(place)
    IN  \/ role = "texture" \/ KeptAsStored(d, image) \/ d.build = "android"
        \/ ScalesTo(image, Box[role])

WithinLimits(d) ==
    /\ EntryCount(d) <= EntryLimit /\ PayloadCount(d) <= PayloadLimit
    /\ GeometryFits(d)
    /\ \A place \in SourceImages : ImageWithinLimits(ImageOf(d, place))

WellFormed(d) ==
    /\ d.identity
    /\ d.version < 19 => /\ Range(Keys(d.geos)) \cup Range(d.geo_hashes) \subseteq 1 .. 3
                         /\ Range(Keys(d.animations)) \cup Range(d.animation_hashes)
                               \subseteq 1 .. 11
    /\ \A file \in FilesOf(d) : Every(file, MolangKnown)
    /\ \A i \in DOMAIN d.sounds : d.sounds[i].kind /= "corrupt"
    /\ \A place \in SourceImages : ImageWellFormed(d, ImageOf(d, place))

TargetHolds(d) ==
    /\ BodiesFit(d) /\ \A place \in SourceImages : ImageFits(d, place)
    /\ d.version < 19 \/ d.player =>
           \E i \in DOMAIN d.textures : ~IsArrows(d, d.textures[i].name)
    /\ \A i, j \in DOMAIN d.textures :
           i /= j => ~SameTexture(d, d.textures[i].name, d.textures[j].name)
    /\ Every(PbrMaps(d), LAMBDA pbr : /\ Distinct(pbr)
                                      /\ Range(pbr) \subseteq {"normal", "specular"})
    /\ d.version < 27 => Distinct(Keys(d.projectiles)) /\ Distinct(Keys(d.vehicles))
    /\ Distinct(d.avatars) /\ Range(d.avatars) \subseteq Range(SourceAuthors(d))
    /\ Distinct(d.gui) /\ Range(d.gui) \subseteq GuiNames
    /\ \A i, j \in DOMAIN d.sounds :
           i < j /\ d.sounds[i].kind = "playable" /\ d.sounds[j].kind = "playable"
               => d.sounds[i].name /= d.sounds[j].name

KnownVersion(d) == d.version >= 1 /\ d.version <= 32

Representable(d) == KnownVersion(d) /\ WithinLimits(d) /\ WellFormed(d) /\ TargetHolds(d)

NamelessSound(d) == \E i \in Playable(d) : d.sounds[i].name = 0

\* More than the descriptor can hold: only the names of sounds have no limit
\* that would keep it small.
LongNames(d) ==
    60 + 40 * PayloadCount(d)
       + MapThenSumSet(TargetNameSize, TargetIds(d))
       + MapThenSumSet(ThumbNameSize, {"thumb-button", "thumb-icon"} \cap Range(d.gui))
       + MapThenSumSet(LAMBDA i : NameSize[d.sounds[i].name], Playable(d))
    > kMaxDescriptorSize

\* A refusal gives a reason the document has.
ReasonHolds(code) ==
    CASE code = 2  -> ~KnownVersion(doc)
      [] code = 3  -> ~WellFormed(doc)
      [] code = 4  -> trouble \/ ~WithinLimits(doc)
      [] code = 11 -> ~TargetHolds(doc)
      [] OTHER -> FALSE

\* The image a place of the manifest must show.
ImageAt(slot) == IF slot[1] = "author" THEN <<"avatar", SourceAuthors(doc)[slot[2]]>> ELSE slot

\* The places of the manifest that must show an image.
SlotsWanted ==
    {place \in SourceImages : place[1] = "texture"}
    \cup {<<"gui", n>> : n \in Range(doc.gui) \cap {"gui_foreground", "gui_background"}}
    \cup {<<"author", i>> : i \in {j \in DOMAIN SourceAuthors(doc) :
                              SourceAuthors(doc)[j] \in Range(doc.avatars)}}

\* x is num / den to half a unit, or the 1 that stands for less than half.
Near(x, num, den) ==
    \/ x = 1 /\ num <= den
    \/ 2 * x * den <= 2 * num + den /\ 2 * num <= 2 * x * den + den

\* A prepared image shows a source: in its own size if it is a texture, was
\* kept as stored or fits the box of its role, else in its own proportions,
\* as large as the box allows.
Shows(info, place) ==
    LET image == ImageOf(doc, place)
        role  == PreparedRole(place)
        box   == Box[role]
    IN  IF role = "texture" \/ KeptAsStored(doc, image) \/ Fits(image, box)
        THEN <<info.width, info.height>> = <<image.width, image.height>>
        ELSE /\ Fits(info, box)
             /\ \/ /\ info.width = box[1]
                   /\ Near(info.height, image.height * box[1], image.width)
                \/ /\ info.height = box[2]
                   /\ Near(info.width, image.width * box[2], image.height)

\* Every image id in the manifest of a delivered result is the id of a payload
\* of its own that holds the bytes of the image meant there - also when several
\* authors share one avatar, whose bytes were moved out at its first use, and
\* whatever the order in which targets, textures and authors were numbered.
\* Manifest and payload agree on its format and size, which are those of the
\* source or of what was scaled into the box of its role.
ReferencesResolve ==
    pc = "success" =>
        /\ {r[1] : r \in images.refs} = SlotsWanted
        /\ \A r, q \in images.refs : r[2] = q[2] => r = q
        /\ \A r \in images.refs :
               \E i \in OfKind(payloads, {"blob"}) :
                   /\ payloads[i].id = r[2] /\ payloads[i].bytes = ImageAt(r[1])
                   /\ payloads[i].info = r[3]
        /\ \A i \in OfKind(payloads, {"blob", "named"}) :
               Shows(payloads[i].info, payloads[i].bytes)

\* A geometry of the target as its reader expands it: the cubes of a bone are
\* the next ones of the list, a vertex is where its indices point.
Expanded(geo) ==
    LET cubesBefore(i) == SumOver(SubSeq(geo.bones, 1, i - 1), LAMBDA b : b.cubeCount)
        vertex(cube, j) == <<cube.pos[cube.pos_indices[j] + 1], cube.uv[cube.uv_indices[j] + 1]>>
        vertices(cube) == [j \in DOMAIN cube.pos_indices |-> vertex(cube, j)]
    IN  [i \in DOMAIN geo.bones |->
            [name |-> geo.bones[i].name, parent |-> geo.bones[i].parent,
             cubes |-> [k \in 1 .. geo.bones[i].cubeCount |->
                           vertices(geo.cubes[cubesBefore(i) + k])]]]

\* The same of the source: in version 5 every face is a cube of its own.
Drawn(geo) ==
    [i \in DOMAIN geo.bones |->
        [name |-> geo.bones[i].name, parent |-> geo.bones[i].parent,
         cubes |-> [k \in DOMAIN geo.bones[i].body |->
                       IF doc.version = 5 THEN geo.bones[i].body[k]
                       ELSE FlattenSeq(geo.bones[i].body[k])]]]

FaceCount(geo) ==
    SumOver(geo.bones, LAMBDA b : IF doc.version = 5 THEN Len(b.body) ELSE SumOver(b.body, Len))

StatsOf(geo) == [bones |-> Len(geo.bones), cubes |-> SumOver(geo.bones, LAMBDA b : Len(b.body)),
                 faces |-> FaceCount(geo)]

\* What of an animation, of a controller, has a place in the target.
Played(a) == <<a.name, a.loop, a.weight, a.bones, a.programs, a.sounds>>

Steered(state) == <<state.name, state.transitions, state.effects,
                    [i \in DOMAIN state.animations |-> state.animations[i].name]>>

\* The geometries, animations and controllers a target of the source has, as
\* sets of <<key, body>>.
Old == doc.version < 19

OfTarget(target, s, isArrows(_)) ==
    IF target[1] = "player"
    THEN {<<e.key, e.value[1]>> : e \in {x \in Range(doc[s]) :
             Has(x.value) /\ ~(Old /\ isArrows(x.key))}}
    ELSE {<<Main, e.value[1]>> : e \in {x \in Range(doc[s]) :
             Has(x.value) /\ isArrows(x.key)}}

SourceGeos(target) ==
    IF Old \/ target[1] = "player" THEN OfTarget(target, "geos", LAMBDA k : k = ArrowGeo)
    ELSE {<<Main, doc[target[1]][target[2]].geo>>}

SourceAnimations(target) ==
    IF Old \/ target[1] = "player"
    THEN OfTarget(target, "animations", LAMBDA k : k = ArrowAnimation)
    ELSE {<<Main, f>> : f \in Range(doc[target[1]][target[2]].animation)}

SourceControllers(target) ==
    IF target[1] = "player"
    THEN {<<IF Old THEN doc.names[i] ELSE doc.controllers[i].key,
            doc.controllers[i].value[1]>> :
              i \in {j \in DOMAIN doc.controllers : Has(doc.controllers[j].value)}}
    ELSE IF Old THEN {}
    ELSE {<<Main, f>> : f \in Range(doc[target[1]][target[2]].controller)}

Entries(s, View(_)) == {<<e.key, View(e.value)>> : e \in Range(s)}
Views(source, View(_)) == {<<p[1], View(p[2])>> : p \in source}

PlayedFile(file) == [i \in DOMAIN file |-> Played(file[i])]

SteeredFile(file) ==
    {<<c.name, c.initial, {Steered(s) : s \in Range(c.states)}>> : c \in Range(file)}

DataKept(target, manifest, data) ==
    /\ Entries(data.geos, Expanded) = Views(SourceGeos(target), Drawn)
    /\ Entries(data.animations, PlayedFile) = Views(SourceAnimations(target), PlayedFile)
    /\ Entries(data.controllers, SteeredFile) = Views(SourceControllers(target), SteeredFile)
    /\ Len(data.geos) = Cardinality(SourceGeos(target))
    /\ \A pair \in SourceGeos(target) : pair[1] = Main => manifest.stats = StatsOf(pair[2])

\* The part of the source a target is made from: the replacements are numbered
\* by key as long as they have one, else as they stand.
Rank(s, i) == Cardinality({j \in DOMAIN doc[s] : doc[s][j].key < doc[s][i].key})

SourceOf(id) ==
    IF id[1] = "player" THEN id
    ELSE LET s == IF id[1] = "projectile" THEN "projectiles" ELSE "vehicles"
         IN  IF doc.version <= 26 /\ ~Old
             THEN <<s, CHOOSE i \in DOMAIN doc[s] : Rank(s, i) + 1 = id[2]>>
             ELSE <<s, id[2]>>

\* The settings of the source: those of the info section, or what the main
\* geometry and the first texture say; without any entry the wheel has eight
\* empty ones.
SourceTexts(d) ==
    IF d.info THEN [i \in DOMAIN d.settings.wheel |-> d.settings.wheel[i].text]
    ELSE IF ExtraInfo(d) = {} THEN <<>> ELSE (CHOOSE e \in ExtraInfo(d) : TRUE).wheel

SourceScale(d) ==
    IF d.info THEN d.settings.scale
    ELSE IF MainGeo(d) = {} THEN DefaultScale
    ELSE (CHOOSE g \in MainGeo(d) : TRUE).value[1].scale

\* A form writes what it reads, or nothing when it reads nothing.
FormsKept(settings) ==
    /\ Len(Forms(settings)) = Len(Forms(doc.settings))
    /\ \A i \in DOMAIN Forms(settings) :
           LET form == Forms(settings)[i]
               from == Forms(doc.settings)[i]
           IN  /\ (form.write = <<"return">>) <=> (from.value = 0)
               /\ from.value /= 0 => form.read[2] = from.value /\ form.write[2] = from.value
               /\ Range(form.labels) = Range(from.labels)

SettingsKept(manifest) ==
    LET texts(wheel) == [i \in DOMAIN wheel |-> wheel[i].text]
        wanted       == SourceTexts(doc)
        settings     == manifest.settings
    IN  /\ IF wanted = <<>> THEN texts(settings.wheel) = [i \in 1 .. 8 |-> 0]
           ELSE ToBag(texts(settings.wheel)) = ToBag(wanted)
        /\ FormsKept(settings)
        /\ Every(manifest.targets, LAMBDA target : target.scale = SourceScale(doc))
        /\ ~doc.info => \E i \in DOMAIN doc.textures :
                           /\ ~IsArrows(doc, doc.textures[i].name)
                           /\ SameTexture(doc, doc.textures[i].name, settings.texture)

\* The model payload of a target holds the bodies of its part of the source and
\* no others, under their keys: every face of every bone with the vertices the
\* source gave it, whatever indices the packing chose; every frame, program and
\* sound of every animation; every state of every controller.  In the versions
\* that keep the arrow's parts among the player's, each goes to the target it
\* belongs to, and in version 5 no face is lost or joined to another.  The
\* manifest has the settings of the source.
BodiesKept ==
    pc = "success" =>
        /\ SettingsKept(payloads[1].bytes)
        /\ \A i \in OfKind(payloads, {"model"}) :
            LET manifest == payloads[1].bytes.targets[i - 2]
            IN  /\ manifest.id = payloads[i].name /\ manifest.blob = payloads[i].id
                /\ DataKept(SourceOf(manifest.id), manifest, payloads[i].bytes)
=============================================================================
