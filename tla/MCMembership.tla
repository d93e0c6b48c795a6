---------------------------- MODULE MCMembership ----------------------------
(* Instances of Membership for TLC. *)
EXTENDS Membership, TLC

\* Requests and users are interchangeable.
Symmetry == Permutations(Requests) \cup Permutations(Users)

\* The pairs of operations that must be apart; each is needed by a property.
Transfers ==
    {{"transfer", op} : op \in {"transfer", "updateSpace", "deleteSpace",
                                "updateMember", "removeMember", "accept"}}
Edits ==
    {{"settings"}, {"settings", "updateSpace"}, {"settings", "deleteSpace"},
     {"updateSpace", "deleteSpace"}, {"removeMember", "updateMember"},
     {"removeMember", "addMember"}, {"createProject"}}
Saves ==
    {{"invite"}, {"invite", "revoke"}, {"invite", "preview"}, {"invite", "accept"},
     {"accept"}, {"revoke", "preview"}, {"revoke", "accept"}, {"preview", "accept"}}
Orderly == Transfers \cup Edits \cup Saves
=============================================================================
