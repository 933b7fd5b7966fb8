-------------------------- MODULE MCConversationArchive --------------------------
(* The finite instances of ConversationArchive that TLC checks. *)
EXTENDS ConversationArchive, TLC

CONSTANTS t1, t2

(* Two exports: the second changes a message of the first and hides another. *)
TwoExports ==
  [e \in Exports |-> IF e = "first" THEN 1 :> t1 @@ 2 :> t1 ELSE 1 :> t2 @@ 2 :> Hidden]
=============================================================================
