------------------------- MODULE MCArchivePipeline -------------------------
(* Small instances of ArchivePipeline for TLC. *)
EXTENDS ArchivePipeline, TLC

\* Jobs and requests are interchangeable; rows are ordered by id and are not.
Interchangeable == Permutations(Job) \cup Permutations(Request)
=============================================================================
