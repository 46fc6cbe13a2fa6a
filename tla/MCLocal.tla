------------------------------ MODULE MCLocal ------------------------------
(* Instances of the local installation's modules for TLC. A run of the      *)
(* backfill holds the directory's lock, so the commands of DataDirectory    *)
(* that take it, and the migration, are explored apart from it.             *)
EXTENDS LocalMigration, SourceIndex

VARIABLE explored

Explored(part) == explored = part /\ UNCHANGED explored

MCInit == Init /\ IndexInit /\ explored \in {"library", "index"}

MCNext ==
  \/ Explored("library") /\ Next /\ UNCHANGED indexVars
  \/ Explored("index") /\ IndexNext /\ UNCHANGED vars

MCSpec == MCInit /\ [][MCNext]_<<vars, indexVars, explored>>

ThreeChapters == <<3, 0, 1>>
=============================================================================
