------------------------------ MODULE MCArchive ------------------------------
(* A 7z whose folders are decoded at their first use, for TLC.             *)
EXTENDS Archive, ArchiveSamples
=============================================================================
