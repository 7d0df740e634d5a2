------------------------ MODULE MCPublicationService ------------------------
(***************************************************************************)
(* A small instance of PublicationService: two processes, which may be     *)
(* given the same published_at or not.                                     *)
(***************************************************************************)
EXTENDS PublicationService, TLC

Interchangeable == Permutations(Runners)
=============================================================================
