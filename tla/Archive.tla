------------------------------- MODULE Archive -------------------------------
(***************************************************************************)
(* Java's NativeArchive (lib-jni/src/archive/archive.cc): a .zip, a .7z or  *)
(* an old .ysm bundle, opened by its extension, listed, and read file by     *)
(* file.  The names of its entries make a tree (core/src/hierarchy), below   *)
(* whose collapsed root Java lists and asks.  A file's bytes go to one       *)
(* buffer, which Java is lent until the next file is extracted.              *)
(*                                                                         *)
(* A path is the sequence of what stands between its slashes, the empty     *)
(* string included: "/a//b" is <<"", "a", "", "b">>.  A file's bytes are     *)
(* numbered units, so that every one can be told from every other.          *)
(***************************************************************************)
EXTENDS Integers, Sequences, SequencesExt

CONSTANTS
  Archives,   \* the files Java may open: see the fields below
  Paths,      \* what Java lists and asks for
  kMaxSize    \* BufferManaged::kMaxSize, in units

\* An archive has the fields
\*   format    by its extension; "other" has no reader
\*   sound     whether its reader can open it
\*   entries   <<[path, kind, size, folder, packed, damage]>>: the folder of a
\*             7z whose block a file is part of, the size of a bundle's file
\*             compressed, and what is wrong with it
\*   visited   how many entries a visit gets to
ArchiveFormats == {"zip", "7z", "bundle 1", "bundle 2", "other"}

ASSUME ArchivesAssumption ==
  /\ kMaxSize \in Nat \ {0}
  /\ \A a \in Archives :
       /\ a.format \in ArchiveFormats /\ a.visited \in 0 .. Len(a.entries)
       /\ \A e \in Range(a.entries) : e.size \in 0 .. kMaxSize /\ e.packed \in 0 .. kMaxSize

VARIABLES
  archive,  \* the file
  stage,    \* of its handle: new, open, refused
  root,     \* Archive::root_, as a path
  tree,     \* Archive::tree_: from paths to entries, and the directories
  folders,  \* Catalog::blocks: absent, whole, or after a failure undecoded or empty
  cache,    \* Wrapper::cache
  lent,     \* the file whose bytes Java was given last, until the next extraction
  answer    \* what the last call returned

archiveVars == <<archive, stage, root, tree, folders, cache, lent, answer>>

Members == archive.entries

-----------------------------------------------------------------------------
(* core/src/hierarchy.                                                     *)

\* PathWalker drops the slashes at both ends, and no others.
Walked(path) ==
  LET named == {i \in DOMAIN path : path[i] /= ""}
  IN  IF named = {} THEN <<>> ELSE SubSeq(path, Min(named), Max(named))

Parents(p) == {SubSeq(p, 1, k) : k \in 0 .. Len(p) - 1}

\* A directory cannot have the name of a file that is there already; a file
\* can have the name of a directory.
ConflictNever(t, p) == FALSE                                      \* mutant
Conflict(t, p) == Parents(p) \cap DOMAIN t.files /= {}

\* Tree::emplace; of two files with one path the first stays.
Emplace(t, path, i) ==
  LET p == Walked(path)
  IN  IF p = <<>> \/ Conflict(t, p) THEN t
      ELSE [files |-> t.files @@ (p :> i), directories |-> t.directories \cup Parents(p)]

EmptyTree == [files |-> <<>>, directories |-> {<<>>}]

\* Names and directories directly in a directory.
ValuesIn(t, d) == {Last(p) : p \in {q \in DOMAIN t.files : Front(q) = d}}
ChildrenIn(t, d) == {Last(p) : p \in {q \in t.directories \ {<<>>} : Front(q) = d}}

-----------------------------------------------------------------------------
(* codec::Archive.                                                         *)

\* What the formats' Visit shows, up to an entry that cannot be read: no
\* directories, and in a zip no symbolic links.
Visited(i) ==
  /\ i <= archive.visited
  /\ Members[i].kind \notin {"directory"} \cup IF archive.format = "zip" THEN {"symlink"} ELSE {}

Visits == SelectSeq([i \in DOMAIN Members |-> i], Visited)

BuiltTree == FoldLeft(LAMBDA t, i : Emplace(t, Members[i].path, i), EmptyTree, Visits)

\* BuildTree goes down while there is nothing but one directory.
Collapses(t, d) == ValuesIn(t, d) = {} /\ Cardinality(ChildrenIn(t, d)) = 1

CollapsedRoot(t) ==
  CHOOSE d \in t.directories : ~Collapses(t, d) /\ \A q \in Parents(d) : Collapses(t, q)

\* Node::operator[] and Node::GetChild, which find nothing under a path
\* without a name; 0 is no entry.
Find(path) ==
  LET p == root \o Walked(path)
  IN  IF Walked(path) /= <<>> /\ p \in DOMAIN tree.files THEN tree.files[p] ELSE 0

\* Only the empty path is the root: "/" is the path of nothing.
Listed(path, In(_, _)) ==
  LET p == Walked(path)
  IN  IF path = <<"">> THEN In(tree, root)
      ELSE IF p /= <<>> /\ root \o p \in tree.directories THEN In(tree, root \o p)
      ELSE {}

-----------------------------------------------------------------------------
(* The bytes of the files.                                                 *)

BytesOf(i) == [k \in 1 .. Members[i].size |-> <<i, k>>]

\* Bytes that are nobody's: what resize leaves, a decoder gave up.
Garbage(n) == [k \in 1 .. n |-> <<0, 0>>]

Error(buffer) == [ok |-> FALSE, bytes |-> buffer]
Bytes(buffer) == [ok |-> TRUE, bytes |-> buffer]

\* The outcomes of an extraction: what is in the buffer then, and whether the
\* caller is told of an error.  The buffer is reused from call to call.

\* Zip::Extract: the entry is not found, cannot be opened, or gives less than
\* its size.
ZipExtracts(i) == {Bytes(BytesOf(i)), Error(cache), Error(Garbage(Members[i].size))}

\* SevenZip: the block of a folder is decoded at its first use.
Folder(i) == Members[i].folder
FolderFiles(f) == SelectSeq([i \in DOMAIN Members |-> i], LAMBDA i : Members[i].folder = f)
WholeBlock(f) == FlattenSeq([n \in DOMAIN FolderFiles(f) |-> BytesOf(FolderFiles(f)[n])])

FolderBlock(f, state) ==
  CASE state = "whole"     -> WholeBlock(f)
    [] state = "undecoded" -> Garbage(Len(WholeBlock(f)))
    [] state = "empty"     -> <<>>

\* UnpackPositions of the file, less that of the first file of its folder.
UnpackPosition(i) == FoldLeft(LAMBDA n, e : n + e.size, 0, SubSeq(Members, 1, i - 1))
DataOffsetOfFolder(i) == 0                                        \* mutant
DataOffset(i) == UnpackPosition(i) - UnpackPosition(FolderFiles(Folder(i))[1])

\* Only the size of the block is checked.
CopyFile(i, state) ==
  LET block == FolderBlock(Folder(i), state)
      end   == DataOffset(i) + Members[i].size
  IN  IF end <= Len(block) THEN Bytes(SubSeq(block, DataOffset(i) + 1, end)) ELSE Error(cache)

\* A file without bytes has no folder.
NeedsFolder(i) == archive.format = "7z" /\ Members[i].size > 0

\* ZlibDecompress doubles the buffer it is given until the output fits.
Doubled(n) == {n * 2 ^ k : k \in 0 .. kMaxSize} \cap 1 .. kMaxSize

Inflate(i, n) ==
  IF Members[i].damage = "stream" THEN Error(Garbage(n))
  ELSE IF Max(Doubled(n)) < Members[i].size THEN Error(Garbage(Max(Doubled(n))))
  ELSE Bytes(BytesOf(i))

\* DecodeFile and DecodeFile2, which has the buffer hold the compressed size.
LegacyExtracts(i) ==
  IF Members[i].damage = "cipher" THEN {Error(cache)}
  ELSE {Inflate(i, Max({1, Len(cache)}
                       \cup IF archive.format = "bundle 2" THEN {Members[i].packed} ELSE {}))}

-----------------------------------------------------------------------------
(* NativeArchive.                                                          *)

NoAnswer == [call |-> "none", path |-> <<"">>, is |-> {}]

NewArchive ==
  /\ stage = "new" /\ root = <<>> /\ tree = EmptyTree
  /\ folders = [f \in {e.folder : e \in Range(Members)} |-> "absent"]
  /\ cache = <<>> /\ lent = 0 /\ answer = NoAnswer

ArchiveInit == archive \in Archives /\ NewArchive

\* A bundle without files is taken for one that could not be read.
Opens ==
  /\ archive.sound /\ archive.format /= "other"
  /\ archive.format \in {"bundle 1", "bundle 2"} => Members /= <<>>

nCreate ==
  /\ stage = "new"
  /\ IF Opens
     THEN /\ stage' = "open"
          /\ tree' = BuiltTree /\ root' = CollapsedRoot(tree')
     ELSE stage' = "refused" /\ UNCHANGED <<tree, root>>
  /\ UNCHANGED <<archive, folders, cache, lent, answer>>

Answers(call, path, is) == answer' = [call |-> call, path |-> path, is |-> is]

nList ==
  /\ stage = "open"
  /\ \E path \in Paths :
       \/ Answers("files", path, Listed(path, ValuesIn))
       \/ Answers("directories", path, Listed(path, ChildrenIn))
  /\ UNCHANGED <<archive, stage, root, tree, folders, cache, lent>>

\* Nothing is read when there is no such file, or Java only asks whether there
\* is one.
GetFileDry ==
  /\ stage = "open"
  /\ \E path \in Paths :
       \/ Find(path) = 0 /\ Answers("file", path, {})
       \/ Find(path) /= 0 /\ Answers("file", path, {Find(path)})
  /\ UNCHANGED <<archive, stage, root, tree, folders, cache, lent>>

\* Into the buffer, and if that goes well to Java.
Lends(i, path, result) ==
  /\ cache' = result.bytes
  /\ lent' = IF result.ok THEN i ELSE 0
  /\ IF result.ok THEN Answers("file", path, {i}) ELSE Answers("error", path, {})

GetFile ==
  /\ stage = "open"
  /\ \E path \in Paths :
       /\ Find(path) /= 0 /\ ~NeedsFolder(Find(path))
       /\ \E result \in CASE archive.format = "zip" -> ZipExtracts(Find(path))
                          [] archive.format = "7z"  -> {Bytes(<<>>)}
                          [] OTHER                  -> LegacyExtracts(Find(path)) :
            Lends(Find(path), path, result)
  /\ UNCHANGED <<archive, stage, root, tree, folders>>

\* The block of the folder is there before it has its size and before it is
\* decoded, and stays there when either fails.
DecodeFolder ==
  /\ stage = "open"
  /\ \E path \in Paths, state \in {"whole", "undecoded", "empty"} :
       LET i == Find(path)
       IN  /\ i /= 0 /\ NeedsFolder(i) /\ folders[Folder(i)] = "absent"
           /\ folders' = [folders EXCEPT ![Folder(i)] = state]
           /\ Lends(i, path, IF state = "whole" THEN CopyFile(i, state) ELSE Error(cache))
  /\ UNCHANGED <<archive, stage, root, tree>>

CopyFromFolder ==
  /\ stage = "open"
  /\ \E path \in Paths :
       LET i == Find(path)
       IN  /\ i /= 0 /\ NeedsFolder(i) /\ folders[Folder(i)] /= "absent"
           /\ Lends(i, path, CopyFile(i, folders[Folder(i)]))
  /\ UNCHANGED <<archive, stage, root, tree, folders>>

nGetFile == GetFileDry \/ GetFile \/ DecodeFolder \/ CopyFromFolder

ArchiveNext == nCreate \/ nList \/ nGetFile

ArchiveSpec == ArchiveInit /\ [][ArchiveNext]_archiveVars

-----------------------------------------------------------------------------
(* Properties.                                                             *)

\* The entries an archive keeps, said of their paths and their order alone: no
\* earlier one has the same path or is a file where this one needs a directory.
PathOf(i) == Walked(Members[i].path)

Kept ==
  {i \in 1 .. archive.visited :
     /\ Visited(i) /\ PathOf(i) /= <<>>
     /\ \A j \in 1 .. i - 1 :
          Visited(j) /\ PathOf(j) /= <<>> => ~IsPrefix(PathOf(j), PathOf(i))}

\* All that is kept is below this directory, and not all below one in it.
Top == LongestCommonPrefix({Front(PathOf(i)) : i \in Kept})

\* As Java names it.
Name(i) == SubSeq(PathOf(i), Len(Top) + 1, Len(PathOf(i)))

\* Java finds by listing the archive from its root down exactly the files the
\* archive keeps, under the names that nGetFile knows: whatever slashes their
\* paths have, whichever entries share a path or a part of it and in which
\* order, and however many directories were collapsed into the root.
ListsWhatIsKept ==
  stage = "open" /\ Kept /= {} /\ answer.call \in {"files", "directories"} =>
    LET d     == Walked(answer.path)
        below == {Name(i) : i \in {j \in Kept : IsPrefix(d, Front(Name(j)))}}
    IN  IF d = <<>> /\ answer.path /= <<"">> THEN answer.is = {}
        ELSE answer.is = IF answer.call = "files"
                         THEN {Last(n) : n \in {m \in below : Len(m) = Len(d) + 1}}
                         ELSE {n[Len(d) + 1] : n \in {m \in below : Len(m) > Len(d) + 1}}

\* The bytes Java was given last are those of the file it asked for, until it
\* extracts another: in whatever order the files are read, whatever the shared
\* buffer held before and whatever failed in between.
GivesWhatIsStored == lent /= 0 => lent \in Kept /\ cache = BytesOf(lent)

\* The same but for a file whose folder could not be decoded before; and what
\* nGetFile says of a file is true: there is one if and only if one is kept.
AnswersAreTrue ==
  /\ lent /= 0 /\ (NeedsFolder(lent) => folders[Folder(lent)] /= "undecoded")
       => lent \in Kept /\ cache = BytesOf(lent)
  /\ answer.call = "file" => answer.is = {i \in Kept : Name(i) = Walked(answer.path)}
=============================================================================
