---------------------------- MODULE MCNetflixLibrary ----------------------------
(* The finite instances of NetflixLibrary that TLC checks. *)
EXTENDS NetflixLibraryLifecycle, TLC

(* IDs are random, requests and titles interchangeable: no action and no     *)
(* property distinguishes one from another.                                  *)
Symmetry == Permutations(GenID) \cup Permutations(Deleters) \cup Permutations(Titles)
=============================================================================
