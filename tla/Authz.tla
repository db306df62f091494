------------------------------- MODULE Authz -------------------------------
(***************************************************************************)
(* packages/authz: the pure decision every use case asks for before it     *)
(* writes.  A fact is one row of a person's role assignments; a scope is   *)
(* `Global` (an org-wide resource) or a chapter.                           *)
(***************************************************************************)
Global == "global"

\* A role assignment as the policy sees it.  `active` is revokedAt = null:
\* the queries return active rows only, and the rule looks again.
Fact(role, scope) == [role |-> role, scope |-> scope, active |-> TRUE]

\* The resource of a decision: where it lives, who owns it ("nobody" for
\* none) and, for a decision about an assignment, its role ("none").
InScope(scope) == [scope |-> scope, owner |-> "nobody", role |-> "none"]
OwnedBy(person) == [scope |-> Global, owner |-> person, role |-> "none"]
AssignmentOf(role, scope) == [scope |-> scope, owner |-> "nobody", role |-> role]

HasRoleInScope(facts, role, scope) ==
    \E f \in facts : f.role = role /\ f.active /\ f.scope = scope

IsOrgAdmin(facts) == HasRoleInScope(facts, "org_admin", Global)

\* A role that counts for the resource when it is held in its chapter.
HoldsInChapter(facts, role, resource) ==
    resource.scope # Global /\ HasRoleInScope(facts, role, resource.scope)

HasChapterManagementAuthority(resource, facts) ==
    IsOrgAdmin(facts) \/ HoldsInChapter(facts, "chapter_lead", resource)

HasApprovalAuthority(resource, facts) ==
    \/ HasChapterManagementAuthority(resource, facts)
    \/ HasRoleInScope(facts, "mentor", Global)
    \/ HoldsInChapter(facts, "mentor", resource)

ChapterLeadMayGrantOrRevoke(resource, facts) ==
    /\ resource.role \in {"mentor", "volunteer"}
    /\ HoldsInChapter(facts, "chapter_lead", resource)

HasContentAuthority(facts) ==
    IsOrgAdmin(facts) \/ HasRoleInScope(facts, "content_admin", Global)

HasModerationAuthorityForScope(resource, facts) ==
    \/ IsOrgAdmin(facts)
    \/ HasRoleInScope(facts, "moderator", Global)
    \/ HoldsInChapter(facts, "moderator", resource)

\* The rules, by the authority that each action asks for.
OrgAdminOnly == {"chapter.create", "chapter.assign_lead", "points.adjust", "badge.award",
                 "post.create_org_scope", "report_definition.manage", "export.request",
                 "dsar.orchestrate", "audit_log.search"}
ChapterManagement == {"opportunity.create", "opportunity.manage", "shift.manage", "hours.export"}
Approval == {"application.decide", "hour_entry.approve", "hour_entry.reject"}
Content == {"course.manage", "video.captions.approve"}
OwnerOrOrgAdmin == {"dsar.export.request", "dsar.erasure.request", "report.resolve",
                    "report.release_claim", "moderation_action.revoke", "export.download"}

Allows(id, action, resource, facts) ==
    \/ action \in OrgAdminOnly /\ IsOrgAdmin(facts)
    \/ action \in {"role.grant", "role.revoke"}
         /\ (IsOrgAdmin(facts) \/ ChapterLeadMayGrantOrRevoke(resource, facts))
    \/ action \in ChapterManagement /\ HasChapterManagementAuthority(resource, facts)
    \/ action \in Approval /\ HasApprovalAuthority(resource, facts)
    \/ action \in Content /\ HasContentAuthority(facts)
    \/ action = "video.play" /\ (resource.owner = id \/ HasContentAuthority(facts))
    \/ action \in {"report.claim", "moderation_action.take"}
         /\ HasModerationAuthorityForScope(resource, facts)
    \/ action \in OwnerOrOrgAdmin /\ (resource.owner = id \/ IsOrgAdmin(facts))
    \/ action = "notification.preference.manage" /\ resource.owner = id

\* Nobody whose account is not active may do anything.
Can(subject, action, resource, facts) ==
    subject.status = "active" /\ Allows(subject.id, action, resource, facts)
=============================================================================
