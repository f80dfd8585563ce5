--------------------------- MODULE MCConversations ---------------------------
(* Conversations for TLC: the keys and contents of a small conversation. *)
EXTENDS Conversations, TLC

MCKey == Message \cup {MetaKey, CostKey}
MCData == Message \cup Session \cup (0 .. Cardinality(Message))

\* Processes, messages and sessions are alike.
Symmetry == Permutations(Process) \cup Permutations(Message) \cup Permutations(Session)
=============================================================================
