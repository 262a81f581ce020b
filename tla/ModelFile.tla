------------------------------ MODULE ModelFile ------------------------------
(***************************************************************************)
(* A file Java has the library read a model from: NativeArchive (Archive)   *)
(* opens .zip and .7z files and bundles, the .ysm files of the first two     *)
(* versions; a .ysm file of version 3 is none of these, and is imported      *)
(* (LegacyFile).  The native side leaves the order to Java; here Java tries  *)
(* the archive and imports what it refuses.                                  *)
(***************************************************************************)
EXTENDS Archive, LegacyFile

\* What codec and bundle.cc see of a container of version 3.
Container == [format |-> "bundle 1", sound |-> FALSE, entries |-> <<>>, visited |-> 0]

\* What the reader of the envelope sees of any other file.
NoContainer == [Plainest EXCEPT !.damage = "not v3"]

\* A refused envelope's document is never looked at.
Unlooked == CHOOSE d \in Documents : TRUE

ModelFileInit ==
    /\ \/ archive = Container /\ FileInit
       \/ /\ archive \in Archives /\ env = NoContainer
          /\ doc = Unlooked
          /\ NewReader /\ NewImport
    /\ NewArchive

Imports == stage = "refused" /\ FileNext /\ UNCHANGED archiveVars

ModelFileNext ==
    \/ ArchiveNext /\ UNCHANGED <<importVars, envelopeVars>>
    \/ Imports

ModelFileSpec ==
    ModelFileInit /\ [][ModelFileNext]_<<archiveVars, importVars, envelopeVars>>
=============================================================================
