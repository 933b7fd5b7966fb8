---------------------------- MODULE MCMediaWorkspace ----------------------------
(* The finite instances of MediaWorkspace that TLC checks. *)
EXTENDS MediaWorkspace

(* Every archive holds all titles. *)
AllTitles == [a \in Archives |-> Titles]
=============================================================================
