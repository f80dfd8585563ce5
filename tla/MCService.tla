----------------------------- MODULE MCService -----------------------------
(* Instances of Service for TLC.                                           *)
EXTENDS Service

\* All requests carry the same token.
OneToken == [r \in Request |-> "token"]
=============================================================================
