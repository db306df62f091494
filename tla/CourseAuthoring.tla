-------------------------- MODULE CourseAuthoring --------------------------
(***************************************************************************)
(* A course from its draft to its publication: modules and their           *)
(* prerequisites, the video of each module, the webhooks of the encoder    *)
(* (repeated and in any order), captions and their approval.               *)
(***************************************************************************)
EXTENDS Naturals, Authz
LOCAL INSTANCE Relation

CONSTANTS
    Person, Facts,  \* persons, and [Person -> set of Authz facts]
    ModuleId,       \* bound: modules of the course
    MaxCompleted,   \* bound: completed encodings before a webhook is read
    Worker          \* requests that may overlap

VARIABLES
    course,     \* "none", "draft" or "published"
    modules,    \* [ids -> prerequisites]
    videos,     \* [modules with a video -> encodeStatus and captionStatus]
    completed,  \* [ModuleId -> VideoEncodeCompleted events]
    approvals,  \* [ModuleId -> VideoCaptionsApproved events]
    request,    \* [Worker -> what it read and is about to write]
    abandoned   \* history: modules whose request for captions was lost

vars == <<course, modules, videos, completed, approvals, request, abandoned>>

Idle == [op |-> "idle"]
EncodeStatus == {"uploading", "processing", "ready", "error"}
CaptionStatus == {"pending", "auto_generated", "approved"}
APPROVABLE_FROM == {"auto_generated"}  \* "human_review" too, which nothing sets

TypeOK ==
    /\ course \in {"none", "draft", "published"}
    /\ \E ids \in SUBSET ModuleId : modules \in [ids -> SUBSET ids]
    /\ \E ids \in SUBSET DOMAIN modules : videos \in [ids -> [encode : EncodeStatus, caption : CaptionStatus]]
    /\ completed \in [ModuleId -> Nat] /\ approvals \in [ModuleId -> Nat]
    /\ \A w \in Worker : request[w].op \in {"idle", "upload", "webhook", "captions", "approve", "publish"}
    /\ abandoned \subseteq DOMAIN modules

Init ==
    /\ course = "none" /\ modules = <<>> /\ videos = <<>>
    /\ completed = [m \in ModuleId |-> 0] /\ approvals = [m \in ModuleId |-> 0]
    /\ request = [w \in Worker |-> Idle]
    /\ abandoned = {}

With(f, id, row) == [k \in DOMAIN f \cup {id} |-> IF k = id THEN row ELSE f[k]]
Goto(w, r) == request' = [request EXCEPT ![w] = r]
Read(w, r) == /\ request[w] = Idle /\ Goto(w, r)
              /\ UNCHANGED <<course, modules, videos, completed, approvals, abandoned>>
\* assertTrainingAuthority: courses are org-wide.
Allowed(p, action) == Can([id |-> p, status |-> "active"], action, InScope(Global), Facts[p])
-----------------------------------------------------------------------------
createCourse(p) ==
    /\ course = "none" /\ Allowed(p, "course.manage") /\ course' = "draft"
    /\ UNCHANGED <<modules, videos, completed, approvals, request, abandoned>>

wouldCreateCycle(from, to) ==
    LET edges == [x, y \in DOMAIN modules \cup {from} |-> x \in DOMAIN modules /\ y \in modules[x]]
    IN from = to \/ TransitiveClosure(edges, DOMAIN modules \cup {from})[to, from]

\* To a draft and to a published course alike, and while the gate is looking.
addModule(p, m, prerequisites) ==
    /\ course # "none" /\ Allowed(p, "course.manage") /\ m \notin DOMAIN modules
    /\ prerequisites \subseteq DOMAIN modules /\ \A to \in prerequisites : ~wouldCreateCycle(m, to)
    /\ modules' = With(modules, m, prerequisites)
    /\ UNCHANGED <<course, videos, completed, approvals, request, abandoned>>
-----------------------------------------------------------------------------
ReadToUpload(w, p, m) ==
    /\ m \notin DOMAIN videos /\ Allowed(p, "course.manage") /\ Read(w, [op |-> "upload", module |-> m])
\* The encoder gave an upload URL; the second video of a module is refused by
\* the unique index.
initiateVideoUpload(w) == LET m == request[w].module IN
    /\ request[w].op = "upload" /\ m \notin DOMAIN videos
    /\ videos' = With(videos, m, [encode |-> "uploading", caption |-> "pending"])
    /\ Goto(w, Idle) /\ UNCHANGED <<course, modules, completed, approvals, abandoned>>

\* ingestVideoWebhook decides from the encoding status that it read.
ReadWebhook(w, m, state) ==
    LET read == videos[m].encode IN
    /\ completed[m] < MaxCompleted
    /\ IF state = "ready" THEN read # "ready" ELSE read \notin {state, "error"}
    /\ Read(w, [op |-> "webhook", module |-> m, state |-> state])
ingestVideoWebhook(w) == LET r == request[w] IN
    /\ r.op = "webhook"
    /\ videos' = [videos EXCEPT ![r.module].encode = r.state]
    /\ IF r.state = "ready"
       THEN /\ completed' = [completed EXCEPT ![r.module] = @ + 1]
            /\ Goto(w, [op |-> "captions", module |-> r.module])
       ELSE Goto(w, Idle) /\ UNCHANGED completed
    /\ UNCHANGED <<course, modules, approvals, abandoned>>

\* Mutant: the update finds the video by its id alone.
AnyCaption(m) == TRUE
StillPending(m) == videos[m].caption = "pending"
\* requestAutoCaptions succeeded; otherwise nothing asks for them again.
RequestCaptions(w) == LET m == request[w].module IN
    /\ request[w].op = "captions" /\ StillPending(m)
    /\ videos' = [videos EXCEPT ![m].caption = "auto_generated"]
    /\ Goto(w, Idle) /\ UNCHANGED <<course, modules, completed, approvals, abandoned>>

ReadToApprove(w, p, m) ==
    /\ videos[m].encode = "ready" /\ videos[m].caption \in APPROVABLE_FROM
    /\ Allowed(p, "video.captions.approve") /\ Read(w, [op |-> "approve", module |-> m])
\* The update asks for the caption status again, the encoding may be another.
approveCaptions(w) == LET m == request[w].module IN
    /\ request[w].op = "approve" /\ videos[m].caption \in APPROVABLE_FROM
    /\ videos' = [videos EXCEPT ![m].caption = "approved"]
    /\ approvals' = [approvals EXCEPT ![m] = @ + 1]
    /\ Goto(w, Idle) /\ UNCHANGED <<course, modules, completed, abandoned>>
-----------------------------------------------------------------------------
\* findCaptionGateBlocker finds none.
CaptionGateOpen == \A m \in DOMAIN modules : m \in DOMAIN videos /\ videos[m].caption = "approved"
ReadToPublish(w, p) ==
    /\ course = "draft" /\ modules # <<>> /\ CaptionGateOpen
    /\ Allowed(p, "course.manage") /\ Read(w, [op |-> "publish"])
publishCourse(w) ==
    /\ request[w].op = "publish" /\ course = "draft" /\ course' = "published"
    /\ Goto(w, Idle) /\ UNCHANGED <<modules, videos, completed, approvals, abandoned>>

\* The row is no longer as it was read, the request fails or its server dies.
Abandon(w) ==
    /\ request[w] # Idle /\ Goto(w, Idle)
    /\ abandoned' = IF request[w].op = "captions" THEN abandoned \cup {request[w].module} ELSE abandoned
    /\ UNCHANGED <<course, modules, videos, completed, approvals>>
-----------------------------------------------------------------------------
\* The mutations of the training router about courses.
AuthoringRequest(p) ==
    \/ createCourse(p)
    \/ \E m \in ModuleId, prerequisites \in SUBSET DOMAIN modules : addModule(p, m, prerequisites)
    \/ \E w \in Worker : ReadToPublish(w, p) \/ \E m \in DOMAIN modules : ReadToUpload(w, p, m)
    \/ \E w \in Worker, m \in DOMAIN videos : ReadToApprove(w, p, m)

Next ==
    \/ \E p \in Person : AuthoringRequest(p)
    \/ \E w \in Worker :
         \/ \E m \in DOMAIN videos, state \in {"processing", "ready", "error"} : ReadWebhook(w, m, state)
         \/ initiateVideoUpload(w) \/ ingestVideoWebhook(w) \/ RequestCaptions(w)
         \/ approveCaptions(w) \/ publishCourse(w) \/ Abandon(w)

Spec == Init /\ [][Next]_vars
-----------------------------------------------------------------------------
\* The approval of a module's captions, which the gate asks for, is announced
\* once and stands: two approvals at once, and webhooks that come again, late
\* or in another order, neither repeat it nor take it back.
ApprovalsStand ==
    \A m \in DOMAIN videos : approvals[m] = (IF videos[m].caption = "approved" THEN 1 ELSE 0)

\* A video whose encoding was announced has captions or a request for them
\* under way, unless that request failed: a repeated webhook does not retry it.
CaptionsRequested ==
    \A m \in DOMAIN videos : completed[m] > 0 /\ videos[m].caption = "pending" =>
        m \in abandoned \/ \E w \in Worker : request[w].op = "captions" /\ request[w].module = m
=============================================================================
