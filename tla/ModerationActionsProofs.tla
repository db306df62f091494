----------------------- MODULE ModerationActionsProofs -----------------------
(***************************************************************************)
(* Theorems about the sanctions, for any persons, policy facts, chapters,  *)
(* sanctions asked for, ids and number of overlapping requests.            *)
(*                                                                         *)
(* The argument for revocations: from the read of a revocation on, its     *)
(* caller is the moderator of the action, or that moderator has been       *)
(* erased, or the caller is an org admin (RevokersMay); the update writes  *)
(* that caller.  For silence: the check before a post finds the sanction,  *)
(* because a ban is org-wide in every row (RowChecks).                     *)
(***************************************************************************)
EXTENDS ModerationActions, TLAPS

\* Ids are generated and never one of the words for a missing or an erased
\* person; the requests that are considered are well formed.
Identifiers ==
    /\ Nobody \notin Person /\ Anonymous \notin Person
    /\ Target \subseteq Person
    /\ Sanction \subseteq [type : ActionType, scope : Scope, ends : Ends]

Holder == Person \cup {Nobody, Anonymous}

\* TypeOK with its witness, what the list of the sweep holds, and that a
\* revocation under way is about an action that was taken.
Typed ==
    /\ Taken \subseteq ActionId
    /\ actions \in [Taken -> Row]
    /\ \A a \in Taken : RowChecks(actions[a])
    /\ DOMAIN sweptActions \subseteq Taken /\ lostRevokers \subseteq Taken
    /\ \A a \in DOMAIN sweptActions : sweptActions[a] \in Holder
    /\ DOMAIN content \subseteq ContentId
    /\ \A p \in DOMAIN content : content[p] \in [author : Person, scope : Scope]
    /\ request \in [Worker -> Request \cup {Free}]
    /\ \A w \in Worker : request[w].op = "revoke" => request[w].about \in Taken

MayRevoke(c, row) == c = row.moderator \/ row.moderator = Anonymous \/ IsOrgAdmin(Facts[c])

RevokersMay ==
    \A w \in Worker :
        request[w].op = "revoke" => MayRevoke(request[w].caller, actions[request[w].about])

IInv == Typed /\ RevokersMay /\ RevocationAttributed

-----------------------------------------------------------------------------
(* Rows and tables. *)

\* The rows an update can produce.
LEMMA RevokedUpdate ==
  ASSUME NEW row \in Row, NEW c \in Person
  PROVE  LET new == [row EXCEPT !.status = "revoked", !.revokedBy = c] IN
         /\ new \in Row
         /\ new.status = "revoked" /\ new.revokedBy = c /\ new.moderator = row.moderator
         /\ new.type = row.type /\ new.scope = row.scope /\ new.ends = row.ends
  BY DEF Row

LEMMA SweptUpdate ==
  ASSUME NEW row \in Row, NEW h \in Holder
  PROVE  LET new == [row EXCEPT !.moderator = Anonymous, !.revokedBy = h] IN
         /\ new \in Row
         /\ new.status = row.status /\ new.revokedBy = h /\ new.moderator = Anonymous
         /\ new.type = row.type /\ new.scope = row.scope /\ new.ends = row.ends
  BY DEF Row, Holder

LEMMA EndedUpdate ==
  ASSUME NEW row \in Row
  PROVE  LET new == [row EXCEPT !.ends = "past"] IN
         /\ new \in Row
         /\ new.status = row.status /\ new.revokedBy = row.revokedBy /\ new.moderator = row.moderator
         /\ new.type = row.type /\ new.scope = row.scope /\ new.ends = "past"
  BY DEF Row, Ends

LEMMA OldUpdate ==
  ASSUME NEW row \in Row
  PROVE  LET new == [row EXCEPT !.old = TRUE] IN
         /\ new \in Row
         /\ new.status = row.status /\ new.revokedBy = row.revokedBy /\ new.moderator = row.moderator
         /\ new.type = row.type /\ new.scope = row.scope /\ new.ends = row.ends
  BY DEF Row

\* The table with one row replaced.
LEMMA TableSet ==
  ASSUME Typed, NEW a \in Taken, NEW row \in Row, actions' = [actions EXCEPT ![a] = row]
  PROVE  /\ Taken' = Taken /\ actions' \in [Taken -> Row]
         /\ actions'[a] = row
         /\ \A x \in Taken : x # a => actions'[x] = actions[x]
  BY DEF Typed, Taken

LEMMA TypedRow ==
  ASSUME Typed, NEW a \in Taken
  PROVE  /\ actions[a] \in Row /\ RowChecks(actions[a])
         /\ actions[a].moderator \in Person \cup {Anonymous} /\ actions[a].revokedBy \in Holder
  BY DEF Typed, Row, Holder

\* A request that has ended revokes and writes nothing any more.
LEMMA RequestEnds ==
  ASSUME Typed, NEW w \in Worker, request' = [request EXCEPT ![w] = Free]
  PROVE  /\ request' \in [Worker -> Request \cup {Free}]
         /\ request'[w].op = "free"
         /\ \A v \in Worker : v # w => request'[v] = request[v]
  BY DEF Typed, Free

-----------------------------------------------------------------------------
(* The steps, by what they do to the tables. *)

\* An action is taken with a row that fits the checks of the schema.
LEMMA Taking ==
  ASSUME Identifiers, Typed, TakeRequest
  PROVE  \E a \in ActionId \ Taken :
           /\ Taken' = Taken \cup {a} /\ actions' \in [Taken \cup {a} -> Row]
           /\ RowChecks(actions'[a])
           /\ actions'[a].status = "active" /\ actions'[a].revokedBy = Nobody
           /\ \A x \in Taken : actions'[x] = actions[x]
           /\ UNCHANGED <<content, request, sweptActions, lostRevokers>>
  <1>1. PICK a \in ActionId, c \in Person, t \in Target, s \in Sanction :
           TakeModerationAction(a, c, s.type, t, s.scope, s.ends)
    BY DEF TakeRequest
  <1> DEFINE row == [type |-> s.type, target |-> t, moderator |-> c, scope |-> s.scope,
                     status |-> "active", ends |-> s.ends, revokedBy |-> Nobody, old |-> FALSE]
  <1>2. row \in Row
    <2>1. s.type \in ActionType /\ s.scope \in Scope /\ s.ends \in Ends
      BY DEF Identifiers
    <2> QED
      BY <2>1 DEF Row, Scope
  <1>3. /\ row.type = s.type /\ row.scope = s.scope /\ row.ends = s.ends
        /\ row.status = "active" /\ row.revokedBy = Nobody
    OBVIOUS
  <1>4. /\ actions' = [x \in Taken \cup {a} |-> IF x = a THEN row ELSE actions[x]]
        /\ a \in ActionId \ Taken
        /\ ScopeFits(s.type, s.scope) /\ DurationFits(s.type, s.ends)
        /\ UNCHANGED <<content, request, sweptActions, lostRevokers>>
    BY <1>1 DEF TakeModerationAction, Inserted, Taken
  <1> HIDE DEF row
  <1>5. RowChecks(row)
    BY <1>3, <1>4 DEF RowChecks, ScopeFits, DurationFits
  <1>6. actions'[a] = row /\ \A x \in Taken : actions'[x] = actions[x]
    BY <1>4
  <1>7. Taken' = Taken \cup {a} /\ actions' \in [Taken \cup {a} -> Row]
    BY <1>2, <1>4 DEF Taken, Typed
  <1> QED
    BY <1>3, <1>4, <1>5, <1>6, <1>7

\* Whom the policy lets revoke an action.
LEMMA RevokersAllowed ==
  ASSUME NEW c, NEW owner, Can(Subject(c), "moderation_action.revoke", OwnedBy(owner), Facts[c])
  PROVE  owner = c \/ IsOrgAdmin(Facts[c])
  BY DEF Can, Allows, Subject, OwnedBy, OrgAdminOnly, ChapterManagement, Approval, Content,
         OwnerOrOrgAdmin

LEMMA RevocationRead ==
  ASSUME Typed, NEW w \in Worker, RevokeRequest(w)
  PROVE  \E c \in Person, a \in Taken :
           /\ MayRevoke(c, actions[a])
           /\ request' = [request EXCEPT ![w] = [op |-> "revoke", caller |-> c, about |-> a]]
           /\ UNCHANGED <<actions, content, sweptActions, lostRevokers>>
  <1>1. PICK c \in Person, a \in Taken : ReadToRevoke(w, c, a)
    BY DEF RevokeRequest
  <1>2. actions[a].moderator = c \/ IsOrgAdmin(Facts[c])
    BY <1>1, RevokersAllowed DEF ReadToRevoke
  <1> QED
    BY <1>1, <1>2 DEF ReadToRevoke, MayRevoke

\* A post or kudos is accepted of somebody the check finds no sanction of.
LEMMA WritingRead ==
  ASSUME Identifiers, Typed, NEW w \in Worker, PostRequest(w) \/ KudosRequest(w)
  PROVE  \E op \in {"post", "kudos"}, p \in Person, scope \in Scope :
           /\ ~Blocked(p, scope)
           /\ request' = [request EXCEPT ![w] = [op |-> op, caller |-> p, about |-> scope]]
           /\ UNCHANGED <<actions, content, sweptActions, lostRevokers>>
  <1>1. CASE PostRequest(w)
    <2>1. PICK p \in Target, scope \in Scope : ReadToPost(w, p, scope)
      BY <1>1 DEF PostRequest
    <2> QED
      BY <2>1 DEF ReadToPost, Accept, Identifiers
  <1>2. CASE KudosRequest(w)
    <2>1. PICK p \in Target, to \in Person : ReadToGiveKudos(w, p, to)
      BY <1>2 DEF KudosRequest
    <2>2. Global \in Scope
      BY DEF Scope
    <2> QED
      BY <2>1, <2>2 DEF ReadToGiveKudos, Accept, Identifiers
  <1> QED
    BY <1>1, <1>2

LEMMA Revoking ==
  ASSUME Typed, NEW w \in Worker, Revoke(w)
  PROVE  LET a == request[w].about IN
         /\ a \in Taken /\ request[w].op = "revoke" /\ request[w].caller \in Person
         /\ Taken' = Taken /\ actions' \in [Taken -> Row] /\ RowChecks(actions'[a])
         /\ actions'[a].status = "revoked" /\ actions'[a].revokedBy = request[w].caller
         /\ actions'[a].moderator = actions[a].moderator
         /\ \A x \in Taken : x # a => actions'[x] = actions[x]
         /\ request' = [request EXCEPT ![w] = Free]
         /\ UNCHANGED <<content, sweptActions, lostRevokers>>
  <1> DEFINE a == request[w].about
             caller == request[w].caller
             row == [actions[a] EXCEPT !.status = "revoked", !.revokedBy = caller]
  <1>1. /\ request[w].op = "revoke" /\ actions' = [actions EXCEPT ![a] = row]
        /\ request' = [request EXCEPT ![w] = Free]
        /\ UNCHANGED <<content, sweptActions, lostRevokers>>
    BY DEF Revoke
  <1>2. a \in Taken /\ caller \in Person
    BY <1>1 DEF Typed, Request, Free
  <1>3. actions[a] \in Row /\ RowChecks(actions[a])
    BY <1>2, TypedRow
  <1>4. /\ row \in Row /\ row.status = "revoked" /\ row.revokedBy = caller
        /\ row.moderator = actions[a].moderator
        /\ row.type = actions[a].type /\ row.scope = actions[a].scope /\ row.ends = actions[a].ends
    <2> HIDE DEF caller, a
    <2> QED
      BY <1>2, <1>3, RevokedUpdate
  <1> HIDE DEF row, caller, a
  <1>5. RowChecks(row)
    BY <1>3, <1>4 DEF RowChecks
  <1>6. /\ Taken' = Taken /\ actions' \in [Taken -> Row] /\ actions'[a] = row
        /\ \A x \in Taken : x # a => actions'[x] = actions[x]
    BY <1>1, <1>2, <1>4, TableSet
  <1> QED
    BY <1>1, <1>2, <1>4, <1>5, <1>6 DEF a, caller

\* The sweep replaces the persons of one row, and remembers when it was late.
LEMMA Sweeping ==
  ASSUME Typed, NEW a \in DOMAIN sweptActions, SweepAction(a)
  PROVE  /\ a \in Taken
         /\ Taken' = Taken /\ actions' \in [Taken -> Row] /\ RowChecks(actions'[a])
         /\ actions'[a].status = actions[a].status /\ actions'[a].moderator = Anonymous
         /\ actions'[a].revokedBy = IF sweptActions[a] = Nobody THEN Nobody ELSE Anonymous
         /\ \A x \in Taken : x # a => actions'[x] = actions[x]
         /\ a \in lostRevokers' \/ actions[a].revokedBy = sweptActions[a]
         /\ lostRevokers \subseteq lostRevokers' /\ lostRevokers' \subseteq Taken
         /\ DOMAIN sweptActions' \subseteq DOMAIN sweptActions
         /\ \A x \in DOMAIN sweptActions' : sweptActions'[x] = sweptActions[x]
         /\ UNCHANGED <<content, request>>
  <1> DEFINE revoker == IF sweptActions[a] = Nobody THEN Nobody ELSE Anonymous
             row == [actions[a] EXCEPT !.moderator = Anonymous, !.revokedBy = revoker]
  <1>1. actions' = [actions EXCEPT ![a] = row] /\ UNCHANGED <<content, request>>
    BY DEF SweepAction
  <1>2. a \in Taken /\ actions[a] \in Row /\ RowChecks(actions[a])
    BY TypedRow DEF Typed
  <1>3. revoker \in Holder
    BY DEF Holder
  <1>4. /\ row \in Row /\ row.status = actions[a].status /\ row.revokedBy = revoker
        /\ row.moderator = Anonymous
        /\ row.type = actions[a].type /\ row.scope = actions[a].scope /\ row.ends = actions[a].ends
    <2> HIDE DEF revoker
    <2> QED
      BY <1>2, <1>3, SweptUpdate
  <1> HIDE DEF row, revoker
  <1>5. RowChecks(row)
    BY <1>2, <1>4 DEF RowChecks
  <1>6. /\ Taken' = Taken /\ actions' \in [Taken -> Row] /\ actions'[a] = row
        /\ \A x \in Taken : x # a => actions'[x] = actions[x]
    BY <1>1, <1>2, <1>4, TableSet
  <1>7. /\ a \in lostRevokers' \/ actions[a].revokedBy = sweptActions[a]
        /\ lostRevokers \subseteq lostRevokers' /\ lostRevokers' \subseteq Taken
        /\ DOMAIN sweptActions' \subseteq DOMAIN sweptActions
        /\ \A x \in DOMAIN sweptActions' : sweptActions'[x] = sweptActions[x]
    BY <1>2 DEF SweepAction, Typed
  <1> QED
    BY <1>1, <1>2, <1>4, <1>5, <1>6, <1>7 DEF revoker

\* Time passes for one row and leaves its persons and its status alone.
LEMMA TimePasses ==
  ASSUME Typed, NEW a \in Taken, End(a) \/ GrowOld(a)
  PROVE  /\ Taken' = Taken /\ actions' \in [Taken -> Row]
         /\ \A x \in Taken : /\ RowChecks(actions'[x])
                             /\ actions'[x].status = actions[x].status
                             /\ actions'[x].moderator = actions[x].moderator
                             /\ actions'[x].revokedBy = actions[x].revokedBy
         /\ UNCHANGED <<content, request, sweptActions, lostRevokers>>
  <1>1. actions[a] \in Row /\ RowChecks(actions[a])
    BY TypedRow
  <1>2. CASE End(a)
    <2> DEFINE row == [actions[a] EXCEPT !.ends = "past"]
    <2>1. /\ actions' = [actions EXCEPT ![a] = row] /\ actions[a].ends = "later"
          /\ UNCHANGED <<content, request, sweptActions, lostRevokers>>
      BY <1>2 DEF End
    <2>2. /\ row \in Row /\ row.status = actions[a].status /\ row.revokedBy = actions[a].revokedBy
          /\ row.moderator = actions[a].moderator
          /\ row.type = actions[a].type /\ row.scope = actions[a].scope
      BY <1>1, EndedUpdate
    <2> HIDE DEF row
    <2>3. RowChecks(row)
      BY <1>1, <2>1, <2>2 DEF RowChecks
    <2> QED
      BY <2>1, <2>2, <2>3, TableSet, TypedRow
  <1>3. CASE GrowOld(a)
    <2> DEFINE row == [actions[a] EXCEPT !.old = TRUE]
    <2>1. /\ actions' = [actions EXCEPT ![a] = row]
          /\ UNCHANGED <<content, request, sweptActions, lostRevokers>>
      BY <1>3 DEF GrowOld
    <2>2. /\ row \in Row /\ row.status = actions[a].status /\ row.revokedBy = actions[a].revokedBy
          /\ row.moderator = actions[a].moderator
          /\ row.type = actions[a].type /\ row.scope = actions[a].scope /\ row.ends = actions[a].ends
      BY <1>1, OldUpdate
    <2> HIDE DEF row
    <2>3. RowChecks(row)
      BY <1>1, <2>2 DEF RowChecks
    <2> QED
      BY <2>1, <2>2, <2>3, TableSet, TypedRow
  <1> QED
    BY <1>2, <1>3

\* Publishing writes the caller of the request as the author.
LEMMA Publishing ==
  ASSUME Typed, NEW w \in Worker, NEW id \in ContentId, CreatePost(w, id) \/ GiveKudos(w, id)
  PROVE  /\ request[w].op \in {"post", "kudos"} /\ Taken' = Taken
         /\ id \notin DOMAIN content /\ DOMAIN content' = DOMAIN content \cup {id}
         /\ content'[id].author = request[w].caller
         /\ \A x \in DOMAIN content' : content'[x] \in [author : Person, scope : Scope]
         /\ \A x \in DOMAIN content : content'[x] = content[x]
         /\ request' = [request EXCEPT ![w] = Free]
         /\ UNCHANGED <<actions, sweptActions, lostRevokers>>
  <1> DEFINE item == [author |-> request[w].caller, scope |-> request[w].about]
  <1>1. /\ request[w].op \in {"post", "kudos"} /\ id \notin DOMAIN content
        /\ content' = [x \in DOMAIN content \cup {id} |-> IF x = id THEN item ELSE content[x]]
        /\ request' = [request EXCEPT ![w] = Free]
        /\ UNCHANGED <<actions, sweptActions, lostRevokers>>
    BY DEF CreatePost, GiveKudos, Publish, Inserted
  <1>3. Taken' = Taken
    BY <1>1 DEF Taken
  <1>2. item \in [author : Person, scope : Scope] /\ item.author = request[w].caller
    BY <1>1 DEF Typed, Request, Free
  <1> HIDE DEF item
  <1> DEFINE Items == [author : Person, scope : Scope]
  <1>4. \A x \in DOMAIN content' : content'[x] \in Items
    <2>1. item \in Items /\ \A x \in DOMAIN content : content[x] \in Items
      BY <1>2 DEF Typed
    <2> HIDE DEF Items
    <2> QED
      BY <1>1, <2>1
  <1> QED
    BY <1>1, <1>2, <1>3, <1>4

-----------------------------------------------------------------------------
(* Type correctness. *)

LEMMA TypedInit == Init => Typed
  BY DEF Init, Typed, Taken, Free

LEMMA TypedStep ==
  ASSUME Identifiers, Typed, [Next]_vars
  PROVE  Typed'
  <1>1. CASE TakeRequest
    BY <1>1, Taking DEF Typed
  <1>2. ASSUME NEW w \in Worker, RevokeRequest(w) PROVE Typed'
    BY <1>2, RevocationRead DEF Typed, Taken, Request, Free
  <1>3. ASSUME NEW w \in Worker, PostRequest(w) \/ KudosRequest(w) PROVE Typed'
    BY <1>3, WritingRead DEF Typed, Taken, Request, Free
  <1>4. ASSUME NEW w \in Worker, Revoke(w) PROVE Typed'
    BY <1>4, Revoking DEF Typed, Free
  <1>5. ASSUME NEW w \in Worker, Abandon(w) PROVE Typed'
    BY <1>5 DEF Typed, Abandon, Taken, Free
  <1>6. ASSUME NEW w \in Worker, NEW id \in ContentId, CreatePost(w, id) \/ GiveKudos(w, id)
        PROVE  Typed'
    <2>1. DOMAIN content' \subseteq ContentId
      BY <1>6, Publishing DEF Typed
    <2> DEFINE Items == [author : Person, scope : Scope]
    <2>2. \A x \in DOMAIN content' : content'[x] \in Items
      BY <1>6, Publishing
    <2> HIDE DEF Items
    <2>3. Taken' = Taken /\ UNCHANGED <<actions, sweptActions, lostRevokers>>
      BY <1>6, Publishing
    <2>4. /\ request' \in [Worker -> Request \cup {Free}]
          /\ request'[w].op = "free"
          /\ \A v \in Worker : v # w => request'[v] = request[v]
      BY <1>6, Publishing, RequestEnds
    <2> QED
      BY <2>1, <2>2, <2>3, <2>4 DEF Typed, Items
  <1>7. ASSUME NEW a \in Taken, End(a) \/ GrowOld(a) PROVE Typed'
    BY <1>7, TimePasses DEF Typed
  <1>8. CASE SweepRead
    BY <1>8, TypedRow DEF Typed, SweepRead, Taken
  <1>9. ASSUME NEW a \in DOMAIN sweptActions, SweepAction(a) PROVE Typed'
    BY <1>9, Sweeping DEF Typed
  <1>10. CASE UNCHANGED vars
    BY <1>10 DEF Typed, vars, Taken
  <1> QED
    BY <1>1, <1>2, <1>3, <1>4, <1>5, <1>6, <1>7, <1>8, <1>9, <1>10 DEF Next

LEMMA TypedSuffices == Typed => TypeOK
  BY DEF Typed, TypeOK

\* The rows are what the schema and its checks allow, for ever: no warning or
\* ban has an end, and every ban is org-wide.
THEOREM TypeCorrect ==
  ASSUME Identifiers
  PROVE  Spec => []TypeOK
  <1>1. Typed /\ [Next]_vars => Typed'
    BY TypedStep
  <1> QED
    BY <1>1, TypedInit, TypedSuffices, PTL DEF Spec

-----------------------------------------------------------------------------
(* Revocations. *)

LEMMA InvInit == Init => IInv
  BY TypedInit DEF IInv, Init, RevokersMay, RevocationAttributed, Taken, Free

\* Between the read and the update of a revocation the action may be revoked
\* by another, end or be anonymized: its caller still may.
LEMMA RevokersStep ==
  ASSUME Identifiers, Typed, RevokersMay, [Next]_vars
  PROVE  RevokersMay'
  <1> USE DEF RevokersMay, MayRevoke
  <1>1. CASE TakeRequest
    <2>1. UNCHANGED request /\ \A x \in Taken : actions'[x] = actions[x]
      BY <1>1, Taking
    <2>2. \A w \in Worker : request[w].op = "revoke" => request[w].about \in Taken
      BY DEF Typed
    <2> QED
      BY <2>1, <2>2
  <1>2. ASSUME NEW w \in Worker, RevokeRequest(w) PROVE RevokersMay'
    BY <1>2, RevocationRead DEF Typed
  <1>3. ASSUME NEW w \in Worker, PostRequest(w) \/ KudosRequest(w) PROVE RevokersMay'
    BY <1>3, WritingRead DEF Typed
  <1>4. ASSUME NEW w \in Worker, Revoke(w) PROVE RevokersMay'
    BY <1>4, Revoking DEF Typed, Free
  <1>5. ASSUME NEW w \in Worker, Abandon(w) PROVE RevokersMay'
    BY <1>5 DEF Abandon, Typed, Free
  <1>6. ASSUME NEW w \in Worker, NEW id \in ContentId, CreatePost(w, id) \/ GiveKudos(w, id)
        PROVE  RevokersMay'
    <2>1. UNCHANGED actions
      BY <1>6, Publishing
    <2>2. request'[w].op = "free" /\ \A v \in Worker : v # w => request'[v] = request[v]
      BY <1>6, Publishing, RequestEnds
    <2> QED
      BY <2>1, <2>2
  <1>7. ASSUME NEW a \in Taken, End(a) \/ GrowOld(a) PROVE RevokersMay'
    BY <1>7, TimePasses DEF Typed
  <1>8. CASE SweepRead
    BY <1>8 DEF SweepRead
  <1>9. ASSUME NEW a \in DOMAIN sweptActions, SweepAction(a) PROVE RevokersMay'
    BY <1>9, Sweeping DEF Typed
  <1>10. CASE UNCHANGED vars
    BY <1>10 DEF vars
  <1> QED
    BY <1>1, <1>2, <1>3, <1>4, <1>5, <1>6, <1>7, <1>8, <1>9, <1>10 DEF Next

LEMMA AttributionStep ==
  ASSUME Identifiers, IInv, [Next]_vars
  PROVE  RevocationAttributed'
  <1> USE DEF IInv, RevocationAttributed
  <1>1. CASE TakeRequest
    BY <1>1, Taking DEF Identifiers, Typed
  <1>2. ASSUME NEW w \in Worker, RevokeRequest(w) PROVE RevocationAttributed'
    BY <1>2, RevocationRead DEF Taken
  <1>3. ASSUME NEW w \in Worker, PostRequest(w) \/ KudosRequest(w) PROVE RevocationAttributed'
    BY <1>3, WritingRead DEF Taken
  <1>4. ASSUME NEW w \in Worker, Revoke(w) PROVE RevocationAttributed'
    BY <1>4, Revoking DEF RevokersMay, MayRevoke, Identifiers
  <1>5. ASSUME NEW w \in Worker, Abandon(w) PROVE RevocationAttributed'
    BY <1>5 DEF Abandon, Taken
  <1>6. ASSUME NEW w \in Worker, NEW id \in ContentId, CreatePost(w, id) \/ GiveKudos(w, id)
        PROVE  RevocationAttributed'
    BY <1>6, Publishing DEF Taken
  <1>7. ASSUME NEW a \in Taken, End(a) \/ GrowOld(a) PROVE RevocationAttributed'
    BY <1>7, TimePasses
  <1>8. CASE SweepRead
    BY <1>8 DEF SweepRead, Taken
  <1>9. ASSUME NEW a \in DOMAIN sweptActions, SweepAction(a) PROVE RevocationAttributed'
    <2>1. Anonymous # Nobody
      BY DEF Anonymous, Nobody
    <2> QED
      BY <1>9, <2>1, Sweeping DEF Identifiers
  <1>10. CASE UNCHANGED vars
    BY <1>10 DEF vars, Taken
  <1> QED
    BY <1>1, <1>2, <1>3, <1>4, <1>5, <1>6, <1>7, <1>8, <1>9, <1>10 DEF Next

LEMMA Invariance ==
  ASSUME Identifiers
  PROVE  Spec => []IInv
  <1>1. IInv /\ [Next]_vars => IInv'
    BY TypedStep, RevokersStep, AttributionStep DEF IInv
  <1> QED
    BY <1>1, InvInit, PTL DEF Spec

\* A revoked action names who revoked it, its moderator or an org admin, or an
\* erased person, unless the sweep had read the action before.
THEOREM RevocationsAttributed ==
  ASSUME Identifiers
  PROVE  Spec => []RevocationAttributed
  <1>1. IInv => RevocationAttributed
    BY DEF IInv
  <1> QED
    BY <1>1, Invariance, PTL

-----------------------------------------------------------------------------
(* Silence. *)

\* The check before a post or kudos finds the sanction of a silenced person,
\* whatever scope it is made for.
LEMMA SilencedAreBlocked ==
  ASSUME Typed, NEW p, Silenced(p), NEW scope
  PROVE  Blocked(p, scope)
  <1>1. PICK a \in Taken :
           /\ actions[a].target = p /\ actions[a].status = "active" /\ actions[a].ends # "past"
           /\ \/ actions[a].type = "ban"
              \/ actions[a].type = "suspend" /\ actions[a].scope = Global
    BY DEF Silenced
  <1>2. actions[a].scope = Global
    BY <1>1 DEF Typed, RowChecks
  <1> QED
    BY <1>1, <1>2 DEF Blocked, ActiveActions

\* A silenced person with nothing under way neither starts to write nor has
\* anything published.
LEMMA SilenceStep ==
  ASSUME Identifiers, Typed, [Next]_vars, NEW p \in Target, Silenced(p), ~Writing(p)
  PROVE  ~Writing(p)' /\ By(p)' = By(p)
  <1> USE DEF Writing, By
  <1>1. CASE TakeRequest
    BY <1>1, Taking
  <1>2. ASSUME NEW w \in Worker, RevokeRequest(w) PROVE ~Writing(p)' /\ By(p)' = By(p)
    BY <1>2, RevocationRead DEF Typed
  <1>3. ASSUME NEW w \in Worker, PostRequest(w) \/ KudosRequest(w)
        PROVE  ~Writing(p)' /\ By(p)' = By(p)
    BY <1>3, WritingRead, SilencedAreBlocked DEF Typed
  <1>4. ASSUME NEW w \in Worker, Revoke(w) \/ Abandon(w) PROVE ~Writing(p)' /\ By(p)' = By(p)
    BY <1>4 DEF Revoke, Abandon, Typed, Free
  <1>5. ASSUME NEW w \in Worker, NEW id \in ContentId, CreatePost(w, id) \/ GiveKudos(w, id)
        PROVE  ~Writing(p)' /\ By(p)' = By(p)
    <2>1. request[w].caller # p
      BY <1>5, Publishing
    <2>2. request'[w].op = "free" /\ \A v \in Worker : v # w => request'[v] = request[v]
      BY <1>5, Publishing, RequestEnds
    <2>3. ~Writing(p)'
      BY <2>2
    <2>4. By(p)' = By(p)
      BY <1>5, <2>1, Publishing
    <2> QED
      BY <2>3, <2>4
  <1>6. ASSUME NEW a \in Taken, End(a) \/ GrowOld(a) PROVE ~Writing(p)' /\ By(p)' = By(p)
    BY <1>6, TimePasses
  <1>7. CASE SweepRead
    BY <1>7 DEF SweepRead
  <1>8. ASSUME NEW a \in DOMAIN sweptActions, SweepAction(a) PROVE ~Writing(p)' /\ By(p)' = By(p)
    BY <1>8, Sweeping
  <1>9. CASE UNCHANGED vars
    BY <1>9 DEF vars
  <1> QED
    BY <1>1, <1>2, <1>3, <1>4, <1>5, <1>6, <1>7, <1>8, <1>9 DEF Next

\* Who is banned, or suspended in the whole organization, publishes nothing
\* once the requests that were under way have ended.
THEOREM SilenceKept ==
  ASSUME Identifiers
  PROVE  Spec => SilencedStaySilent
  <1>1. IInv /\ [Next]_vars =>
          [\A p \in Target :
             Silenced(p) /\ ~Writing(p) /\ Silenced(p)' => ~Writing(p)' /\ By(p)' = By(p)]_vars
    BY SilenceStep DEF IInv
  <1> QED
    BY <1>1, Invariance, PTL DEF Spec, SilencedStaySilent
=============================================================================
