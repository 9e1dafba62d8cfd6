----------------------------- MODULE MCPcapPairing -----------------------------
(* Instances of PcapPairing for TLC. *)
EXTENDS PcapPairing, TLC

MCRejectPhrases == {[code |-> 403, reason |-> "Forbidden"]}

MCAnswers == MCRejectPhrases \union
    {[code |-> 401, reason |-> "Unauthorized"], [code |-> 403, reason |-> "Registration Required"]}

\* Remote addresses and Call-IDs are interchangeable.
Symmetry == Permutations(Remotes) \union Permutations(Calls)
=============================================================================
