------------------------- MODULE NetflixLibraryLifecycle -------------------------
(***************************************************************************)
(* NetflixLibrary implements GenerationLifecycle: the life of a generation *)
(* is read off the state in memory.                                        *)
(***************************************************************************)
EXTENDS NetflixLibrary

LifeOf(s, g) ==
  CASE StateOf(s, g) = "receiving" -> "offered"
    [] StateOf(s, g) \in {"validating", "importing", "enriching"} -> "building"
    [] OTHER -> StateOf(s, g)

LivesOf(s) == [g \in GenID |-> LifeOf(s, g)]

Lifecycle == INSTANCE GenerationLifecycle WITH life <- LivesOf(mem), active <- mem.active

(* Every step of the library, a crash that reveals a state file ahead of     *)
(* memory included, is one step of a generation's life, or none.             *)
LifecycleFollowed == Lifecycle!Spec
=============================================================================
