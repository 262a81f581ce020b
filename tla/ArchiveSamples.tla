--------------------------- MODULE ArchiveSamples ---------------------------
(* Archives of up to four files: what the instances of Archive open and ask.*)
EXTENDS Naturals, Sequences

FormatNames == {"zip", "7z", "bundle 1", "bundle 2", "other"}

Member(path, kind, size) ==
  [path |-> path, kind |-> kind, size |-> size, folder |-> 0, packed |-> 0, damage |-> "none"]

\* Paths that are equal, one in another, or both but for their slashes.
SomePaths ==
  {<<"a">>, <<"a", "b">>, <<"", "a", "b">>, <<"a", "b", "c">>, <<"a", "", "b">>, <<"c", "b">>,
   <<"">>}

ZipOf(members, n) == [format |-> "zip", sound |-> TRUE, entries |-> members, visited |-> n]

Trees ==
  {ZipOf(<<Member(p, "file", 0), Member(q, "file", 2), Member(r, "file", 0)>>, 3) :
     p, q, r \in SomePaths}
  \cup {ZipOf(<<Member(p, "file", 1), Member(q, "file", 2), Member(<<"b">>, "file", 1)>>, 2) :
          p, q \in {<<"a">>, <<"c", "b">>}}
  \cup {ZipOf(<<Member(p, kind, 0), Member(q, "file", 1)>>, 2) :
          p, q \in SomePaths, kind \in {"directory", "symlink"}}

\* Two folders, the second of two files, one empty file without a folder.
Solid(paths, sizes) ==
  [format |-> "7z", sound |-> TRUE, visited |-> 4,
   entries |-> [i \in 1 .. 4 |->
                  [Member(paths[i], "file", sizes[i]) EXCEPT
                     !.folder = IF sizes[i] = 0 THEN 0 ELSE IF i < 3 THEN 1 ELSE 2]]]

Solids ==
  {Solid(<<<<"a">>, <<"c", "b">>, <<"c">>, <<"a", "b">>>>, sizes) :
     sizes \in {<<1, 2, 1, 1>>, <<2, 0, 2, 1>>, <<1, 1, 0, 2>>}}

Linked == {[z EXCEPT !.entries[2].kind = "symlink"] : z \in Solids}

Bundle(version, sizes, packed, damage) ==
  [format |-> version, sound |-> TRUE, visited |-> 3,
   entries |-> [i \in 1 .. 3 |->
                  [Member(<<<<"a">>, <<"c">>, <<"c", "b">>>>[i], "file", sizes[i]) EXCEPT
                     !.packed = packed, !.damage = IF i = 2 THEN damage ELSE "none"]]]

Bundles ==
  {Bundle(version, sizes, packed, damage) :
     version \in {"bundle 1", "bundle 2"}, sizes \in {<<1, 3, 0>>, <<2, 1, 5>>, <<5, 4, 3>>},
     packed \in {1, 3}, damage \in {"none", "cipher", "stream"}}

Unreadable ==
  {[Solid(<<<<"a">>, <<"b">>, <<"c">>, <<"">>>>, <<0, 0, 0, 0>>) EXCEPT
      !.format = f, !.sound = s] : f \in FormatNames, s \in BOOLEAN}
  \cup {[format |-> f, sound |-> TRUE, entries |-> <<>>, visited |-> 0] : f \in FormatNames}

SampleArchives == Trees \cup Solids \cup Linked \cup Bundles \cup Unreadable

SamplePaths == SomePaths \cup {<<"b">>, <<"c">>, <<"b", "">>, <<"", "">>}
=============================================================================
