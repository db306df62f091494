----------------------------- MODULE MCIdentity -----------------------------
(* Small instances of Identity for TLC: an org admin, who founded the       *)
(* organization, and a chapter lead, who goes dormant and asks for her data. *)
EXTENDS Identity, TLC

CONSTANTS admin, leader, chapter

AskedFor == {[role |-> "chapter_lead", scope |-> chapter], [role |-> "mentor", scope |-> chapter],
             [role |-> "org_admin", scope |-> Global]}
PolicyFacts == (admin :> {Fact("org_admin", Global)}) @@ (leader :> {Fact("chapter_lead", chapter)})

Symmetry == Permutations(Worker) \cup Permutations(RowId)
=============================================================================
