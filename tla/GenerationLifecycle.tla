-------------------------- MODULE GenerationLifecycle --------------------------
(***************************************************************************)
(* What a Netflix library promises about its generations, whatever its     *)
(* requests, jobs, failures of storage and crashes do: at most one         *)
(* generation is open, a generation ends once, and the active pointer      *)
(* moves only to a generation that has just become ready.                  *)
(***************************************************************************)
CONSTANTS
  GenID,   \* the IDs of generations
  None     \* no generation

VARIABLES
  life,    \* where each generation is in its life
  active   \* the published generation

vars == <<life, active>>

Lives == {"absent", "offered", "building", "ready", "failed"}

IsOpen(g) == life[g] \in {"offered", "building"}

Init == life = [g \in GenID |-> "absent"] /\ active = None

Becomes(g, l) == life' = [life EXCEPT ![g] = l]

(* A generation waits for its upload, or starts from the published one. *)
Begin(g) ==
  /\ life[g] = "absent" /\ \A h \in GenID : ~IsOpen(h)
  /\ \/ Becomes(g, "offered")
     \/ active # None /\ Becomes(g, "building")
  /\ UNCHANGED active

Accept(g) == life[g] = "offered" /\ Becomes(g, "building") /\ UNCHANGED active

Publish(g) == life[g] = "building" /\ Becomes(g, "ready") /\ active' = g

Discard(g) == IsOpen(g) /\ Becomes(g, "failed") /\ UNCHANGED active

Forget(g) ==
  life[g] \in {"ready", "failed"} /\ g # active /\ Becomes(g, "absent") /\ UNCHANGED active

Clear == life' = [g \in GenID |-> "absent"] /\ active' = None

Next ==
  \/ \E g \in GenID : Begin(g) \/ Accept(g) \/ Publish(g) \/ Discard(g) \/ Forget(g)
  \/ Clear

Spec == Init /\ [][Next]_vars
=============================================================================
