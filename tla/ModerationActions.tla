------------------------- MODULE ModerationActions -------------------------
(***************************************************************************)
(* Sanctions of the moderation module and what they stop in the community  *)
(* module: taking and revoking an action, the time at which it ends, the   *)
(* retention sweep over old actions, and the posts and kudos of the people *)
(* concerned, which look for an active suspension or ban before their      *)
(* transaction and not in it.                                              *)
(***************************************************************************)
EXTENDS Naturals, Authz, Tables

CONSTANTS
    Person, Status,      \* persons, and [Person -> account status]
    Facts,               \* [Person -> set of Authz facts], their active roles
    Chapter, ChapterOf,  \* chapters, and [Person -> primaryChapterId]
    Target,              \* bound: the persons that are sanctioned, and that write
    Sanction,            \* bound: the [type, scope, ends] that are asked for
    ActionId, ContentId, \* bounds: ids of actions; ids of posts and kudos
    Worker               \* requests that may overlap

VARIABLES
    actions,       \* [ids taken -> Row]
    content,       \* [ids written -> [author, scope]], posts and kudos
    request,       \* [Worker -> Request], requests between their read and their write
    sweptActions,  \* rows the sweep still has to update: id -> the revoker it read
    lostRevokers   \* history: actions revoked after the sweep read them

vars == <<actions, content, request, sweptActions, lostRevokers>>

Nobody == "nobody"
Anonymous == "anonymous"

Scope == {Global} \cup Chapter
ActionType == {"warn", "mute", "suspend", "ban"}
Ends == {"never", "later", "past"}   \* endsAt: null, in the future, gone by
Row == [type : ActionType, target : Target, moderator : Person \cup {Anonymous},
        scope : Scope, status : {"active", "revoked"}, ends : Ends,
        revokedBy : Person \cup {Nobody, Anonymous}, old : BOOLEAN]
\* chk_moderation_action_duration and chk_moderation_action_ban_org.
RowChecks(row) ==
    /\ row.type \in {"warn", "ban"} => row.ends = "never"
    /\ row.type = "ban" => row.scope = Global

Free == [op |-> "free", caller |-> Nobody, about |-> Nobody]
Request == [op : {"revoke"}, caller : Person, about : ActionId]
             \cup [op : {"post", "kudos"}, caller : Person, about : Scope]

TypeOK ==
    /\ \E taken \in SUBSET ActionId :
         /\ actions \in [taken -> Row] /\ \A a \in taken : RowChecks(actions[a])
         /\ DOMAIN sweptActions \subseteq taken /\ lostRevokers \subseteq taken
    /\ DOMAIN content \subseteq ContentId
    /\ \A p \in DOMAIN content : content[p] \in [author : Person, scope : Scope]
    /\ request \in [Worker -> Request \cup {Free}]

Init ==
    /\ actions = <<>> /\ content = <<>>
    /\ request = [w \in Worker |-> Free]
    /\ sweptActions = <<>> /\ lostRevokers = {}

Subject(p) == [id |-> p, status |-> Status[p]]
Taken == DOMAIN actions
-----------------------------------------------------------------------------
\* Mutant: the rule that a ban is always org-wide is dropped.
AnyScopeFits(type, scope) == TRUE

ScopeFits(type, scope) == type = "ban" => scope = Global
DurationFits(type, ends) ==
    ends \in (IF type \in {"warn", "ban"} THEN {"never"} ELSE {"never", "later"})

TakeModerationAction(a, c, type, target, scope, ends) ==
    /\ a \notin Taken
    /\ ScopeFits(type, scope) /\ DurationFits(type, ends)
    /\ Can(Subject(c), "moderation_action.take", InScope(scope), Facts[c])
    /\ actions' = Inserted(actions, a,
         [type |-> type, target |-> target, moderator |-> c, scope |-> scope,
          status |-> "active", ends |-> ends, revokedBy |-> Nobody, old |-> FALSE])
    /\ UNCHANGED <<content, request, sweptActions, lostRevokers>>

\* Mutant: whoever may take an action in a scope may revoke any action of it.
ReadToRevokeInScope(w, c, a) ==
    /\ request[w] = Free
    /\ actions[a].status = "active"
    /\ Can(Subject(c), "moderation_action.take", InScope(actions[a].scope), Facts[c])
    /\ request' = [request EXCEPT ![w] = [op |-> "revoke", caller |-> c, about |-> a]]
    /\ UNCHANGED <<actions, content, sweptActions, lostRevokers>>

ReadToRevoke(w, c, a) ==
    /\ request[w] = Free
    /\ actions[a].status = "active"
    /\ Can(Subject(c), "moderation_action.revoke", OwnedBy(actions[a].moderator), Facts[c])
    /\ request' = [request EXCEPT ![w] = [op |-> "revoke", caller |-> c, about |-> a]]
    /\ UNCHANGED <<actions, content, sweptActions, lostRevokers>>

Revoke(w) == LET a == request[w].about IN
    /\ request[w].op = "revoke"
    /\ actions' = [actions EXCEPT ![a] = [@ EXCEPT !.status = "revoked", !.revokedBy = request[w].caller]]
    /\ request' = [request EXCEPT ![w] = Free]
    /\ UNCHANGED <<content, sweptActions, lostRevokers>>
-----------------------------------------------------------------------------
\* Mutant: an org-wide action does not count in a chapter.
ActiveActionsOfScope(p, scope) ==
    {a \in Taken : /\ actions[a].target = p /\ actions[a].status = "active"
                   /\ actions[a].ends # "past" /\ actions[a].scope = scope}

\* getActiveActionsForPerson: `active` rows whose end has not passed; one of
\* org scope applies everywhere, one of a chapter in that chapter only.
ActiveActions(p, scope) ==
    {a \in Taken : /\ actions[a].target = p /\ actions[a].status = "active"
                   /\ actions[a].ends # "past"
                   /\ actions[a].scope \in {Global, scope}}

Blocked(p, scope) == \E a \in ActiveActions(p, scope) : actions[a].type \in {"suspend", "ban"}

\* An org-wide post is for org admins, another one for the author's chapter.
MayPostIn(p, scope) ==
    IF scope = Global THEN Can(Subject(p), "post.create_org_scope", InScope(Global), Facts[p])
                      ELSE scope = ChapterOf[p]

Accept(w, op, p, scope) ==
    /\ request[w] = Free
    /\ ~Blocked(p, scope)
    /\ request' = [request EXCEPT ![w] = [op |-> op, caller |-> p, about |-> scope]]
    /\ UNCHANGED <<actions, content, sweptActions, lostRevokers>>

ReadToPost(w, p, scope) == MayPostIn(p, scope) /\ Accept(w, "post", p, scope)
ReadToGiveKudos(w, p, to) == p # to /\ Accept(w, "kudos", p, Global)

\* The transaction: the row, its feed entry and its event.
Publish(w, op, id) ==
    /\ request[w].op = op
    /\ id \notin DOMAIN content
    /\ content' = Inserted(content, id, [author |-> request[w].caller, scope |-> request[w].about])
    /\ request' = [request EXCEPT ![w] = Free]
    /\ UNCHANGED <<actions, sweptActions, lostRevokers>>

CreatePost(w, id) == Publish(w, "post", id)
GiveKudos(w, id) == Publish(w, "kudos", id)

Abandon(w) ==
    /\ request[w] # Free
    /\ request' = [request EXCEPT ![w] = Free]
    /\ UNCHANGED <<actions, content, sweptActions, lostRevokers>>
-----------------------------------------------------------------------------
\* The end of an action comes; the cutoff of the retention policy passes it.
End(a) ==
    /\ actions[a].ends = "later"
    /\ actions' = [actions EXCEPT ![a].ends = "past"]
    /\ UNCHANGED <<content, request, sweptActions, lostRevokers>>

GrowOld(a) ==
    /\ ~actions[a].old
    /\ actions' = [actions EXCEPT ![a].old = TRUE]
    /\ UNCHANGED <<content, request, sweptActions, lostRevokers>>

\* sweepModerationLogs, its second half: a list, then each row from the list.
SweepRead ==
    /\ sweptActions = <<>>
    /\ LET stale == {a \in Taken : actions[a].old /\ actions[a].moderator # Anonymous}
       IN stale # {} /\ sweptActions' = [a \in stale |-> actions[a].revokedBy]
    /\ UNCHANGED <<actions, content, request, lostRevokers>>

SweepAction(a) ==
    /\ actions' = [actions EXCEPT ![a] =
         [@ EXCEPT !.moderator = Anonymous,
                   !.revokedBy = IF sweptActions[a] = Nobody THEN Nobody ELSE Anonymous]]
    /\ lostRevokers' = IF actions[a].revokedBy = sweptActions[a] THEN lostRevokers
                       ELSE lostRevokers \cup {a}
    /\ sweptActions' = [other \in DOMAIN sweptActions \ {a} |-> sweptActions[other]]
    /\ UNCHANGED <<content, request>>
-----------------------------------------------------------------------------
\* The mutations of the two routers, for a caller with a registered person.
TakeRequest ==
    \E a \in ActionId, c \in Person, t \in Target, s \in Sanction :
        TakeModerationAction(a, c, s.type, t, s.scope, s.ends)
RevokeRequest(w) == \E c \in Person, a \in Taken : ReadToRevoke(w, c, a)
PostRequest(w) == \E p \in Target, scope \in Scope : ReadToPost(w, p, scope)
KudosRequest(w) == \E p \in Target, to \in Person : ReadToGiveKudos(w, p, to)

Next ==
    \/ TakeRequest
    \/ \E w \in Worker :
         \/ RevokeRequest(w) \/ PostRequest(w) \/ KudosRequest(w)
         \/ Revoke(w) \/ Abandon(w)
         \/ \E id \in ContentId : CreatePost(w, id) \/ GiveKudos(w, id)
    \/ \E a \in Taken : End(a) \/ GrowOld(a)
    \/ SweepRead \/ \E a \in DOMAIN sweptActions : SweepAction(a)

Spec == Init /\ [][Next]_vars
-----------------------------------------------------------------------------
\* A revoked action tells who revoked it, and that was its moderator or an org
\* admin, however revocations overlap: unless the sweep had read the action
\* before it was revoked, which erases the revoker instead of anonymizing it.
RevocationAttributed ==
    \A a \in Taken \ lostRevokers : LET row == actions[a] IN
        /\ row.status = "revoked" <=> row.revokedBy # Nobody
        /\ row.revokedBy \in Person =>
             \/ row.revokedBy = row.moderator \/ row.moderator = Anonymous
             \/ IsOrgAdmin(Facts[row.revokedBy])

\* Who is banned, or suspended in the whole organization, publishes nothing
\* anywhere once the requests that were under way have ended; and the silence
\* lasts until the sanction itself is revoked or over.
Silenced(p) ==
    \E a \in Taken : /\ actions[a].target = p
                     /\ actions[a].status = "active" /\ actions[a].ends # "past"
                     /\ \/ actions[a].type = "ban"
                        \/ actions[a].type = "suspend" /\ actions[a].scope = Global
Writing(p) == \E w \in Worker : request[w].caller = p /\ request[w].op \in {"post", "kudos"}
By(p) == {id \in DOMAIN content : content[id].author = p}
SilencedStaySilent ==
    [][\A p \in Target :
         Silenced(p) /\ ~Writing(p) /\ Silenced(p)' => ~Writing(p)' /\ By(p)' = By(p)]_vars
=============================================================================
