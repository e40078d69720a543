---------------------------- MODULE MCTurnStore ----------------------------
(* Small instances of TurnStore. *)
EXTENDS TurnStore

CONSTANT conversation

\* All turns share a conversation: they compete for its capacity and a scan meets them all.
OneConversation == [t \in Turns |-> conversation]
=============================================================================
