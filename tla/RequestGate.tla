---------------------------- MODULE RequestGate ----------------------------
(***************************************************************************)
(* What a request passes through (main.py): the body limit, the audit      *)
(* middleware, the rate limit, the same-origin check, reading the body,    *)
(* authentication, the role guard and the handler; and what the audit      *)
(* trail and the SIEM learn of it (auth/audit_middleware.py,               *)
(* services/audit.py, services/siem.py).                                   *)
(*                                                                         *)
(* A request is one user's.  Sessions may end and roles may change between *)
(* any two steps; the process may stop.                                    *)
(***************************************************************************)
EXTENDS Naturals, FiniteSets

CONSTANTS Calls, SignedIn, Sinks,
          Guards    \* sets of roles that routes demand; {} stands for no login

ASSUME GateAssumption == IsFiniteSet(Calls) /\ IsFiniteSet(Sinks)

VARIABLES
    session,   \* [SignedIn -> is the token they hold still good]
    role,      \* [SignedIn -> role]
    http,      \* [Calls -> the request, or NoRequest]
    trail,     \* AuditEvent rows
    tasks,     \* events whose emission hangs on a response
    siem,      \* [Sinks -> events delivered]
    wavered,   \* history: requests whose user lost the session or role meanwhile
    lost       \* history: events whose emission was dropped or died

gateVars == <<session, role, http, trail, tasks, siem, wavered, lost>>

Roles == {"ADMIN", "ANALYST", "STAKEHOLDER"}
NoRequest == [at |-> "absent"]

\* The header fields the middlewares look at.
RequestKinds ==
    {k \in [api : BOOLEAN, safe : BOOLEAN, html : BOOLEAN, same : BOOLEAN,
            creds : {"none", "cookie", "bearer"}, body : {"fits", "declared", "chunked"},
            guard : Guards] :
        k.safe => k.body = "fits"}

GateInit ==
    /\ session = [u \in SignedIn |-> TRUE]
    /\ role \in [SignedIn -> Roles]
    /\ http = [q \in Calls |-> NoRequest]
    /\ trail = {} /\ tasks = {} /\ wavered = {} /\ lost = {}
    /\ siem = [s \in Sinks |-> {}]

At(q, place) == http[q].at = place
Goes(q, place) == http' = [http EXCEPT ![q].at = place]
Answers(q, place, status, why) ==
    http' = [http EXCEPT ![q].at = place, ![q].status = status, ![q].why = why]

(***************************************************************************)
(* The environment                                                         *)
(***************************************************************************)
Unfinished(u) == {q \in Calls : http[q] # NoRequest /\ http[q].user = u /\ ~At(q, "over")}

EndSession(u) ==
    /\ session[u]
    /\ session' = [session EXCEPT ![u] = FALSE]
    /\ wavered' = wavered \cup Unfinished(u)
    /\ UNCHANGED <<role, http, trail, tasks, siem, lost>>

ChangeRole(u, r) ==
    /\ role[u] # r
    /\ role' = [role EXCEPT ![u] = r]
    /\ wavered' = wavered \cup Unfinished(u)
    /\ UNCHANGED <<session, http, trail, tasks, siem, lost>>

\* Calls under way are cut off and their tasks are gone.
StopProcess ==
    /\ \E q \in Calls : http[q] # NoRequest /\ ~At(q, "over")
    /\ http' = [q \in Calls |->
                  IF http[q] = NoRequest THEN NoRequest
                  ELSE [http[q] EXCEPT !.why = IF At(q, "over") THEN @ ELSE "stopped",
                                       !.at = "over"]]
    /\ lost' = lost \cup tasks
    /\ tasks' = {}
    /\ UNCHANGED <<session, role, trail, siem, wavered>>

(***************************************************************************)
(* The way in                                                              *)
(***************************************************************************)
Arrive(q, u, k) ==
    /\ http[q] = NoRequest
    /\ http' = [http EXCEPT ![q] =
         [at |-> IF k.body = "declared" THEN "over" ELSE "limit",
          status |-> IF k.body = "declared" THEN 413 ELSE 0,
          why |-> IF k.body = "declared" THEN "size" ELSE "none",
          user |-> u, kind |-> k]]
    /\ UNCHANGED <<session, role, trail, tasks, siem, wavered, lost>>

\* resolve_request_actor: the user, if the token is still good at this moment.
Actor(q) ==
    LET h == http[q] IN
    IF h.kind.creds # "none" /\ session[h.user] THEN h.user ELSE "anonymous"

Event(q, action) == [of |-> q, action |-> action, actor |-> Actor(q)]

\* record, and schedule_emit on the background tasks of the response.
Records(q, action) ==
    /\ trail' = trail \cup {Event(q, action)}
    /\ tasks' = tasks \cup {Event(q, action)}

Unchecked == UNCHANGED <<session, role, siem, wavered, lost>>

Admit(q) ==
    /\ At(q, "limit") /\ Goes(q, "origin")
    /\ UNCHANGED <<trail, tasks>> /\ Unchecked

Throttle(q) ==
    /\ At(q, "limit") /\ Answers(q, "sent", 429, "limit")
    /\ Records(q, "RATE_LIMITED") /\ Unchecked

CrossOrigin(q) ==
    LET k == http[q].kind IN ~k.safe /\ k.creds = "cookie" /\ ~k.same

CheckOrigin(q) ==
    /\ At(q, "origin")
    /\ IF CrossOrigin(q) THEN Answers(q, "audit", 403, "csrf") ELSE Goes(q, "body")
    /\ UNCHANGED <<trail, tasks>> /\ Unchecked

\* FastAPI answers the broken read with 400; send_tracked makes it a 413.
ReadBody(q) ==
    /\ At(q, "body")
    /\ IF http[q].kind.body = "chunked" THEN Answers(q, "over", 413, "size")
       ELSE Goes(q, "login")
    /\ UNCHANGED <<trail, tasks>> /\ Unchecked

Guarded(q) == http[q].kind.guard # {}

Authenticate(q) ==
    /\ At(q, "login")
    /\ IF Guarded(q) /\ Actor(q) = "anonymous" THEN Answers(q, "raised", 401, "auth")
       ELSE Goes(q, "guard")
    /\ UNCHANGED <<trail, tasks>> /\ Unchecked

\* user_in_roles: ADMIN always qualifies.  The role is the row's, not the token's.
Qualifies(q) == role[http[q].user] \in http[q].kind.guard \cup {"ADMIN"}

CheckRole(q) ==
    /\ At(q, "guard")
    /\ IF Guarded(q) /\ ~Qualifies(q) THEN Answers(q, "raised", 403, "role")
       ELSE Goes(q, "handler")
    /\ UNCHANGED <<trail, tasks>> /\ Unchecked

(***************************************************************************)
(* The handler                                                             *)
(***************************************************************************)
Succeed(q, audited) ==
    /\ At(q, "handler") /\ Answers(q, "sent", 200, "none")
    /\ IF audited THEN Records(q, "SUCCESS") ELSE UNCHANGED <<trail, tasks>>
    /\ Unchecked

\* A failed login: the event is recorded, its emission is put on the background
\* tasks, and the exception that follows leaves them behind.
FailLogin(q, status) ==
    /\ At(q, "handler") /\ ~Guarded(q)
    /\ Answers(q, "raised", status, "login")
    /\ trail' = trail \cup {Event(q, "AUTH_LOGIN")}
    /\ lost' = lost \cup {Event(q, "AUTH_LOGIN")}
    /\ UNCHANGED <<session, role, tasks, siem, wavered>>

Refuse(q) ==
    /\ At(q, "handler") /\ Answers(q, "sent", 409, "none")
    /\ UNCHANGED <<trail, tasks>> /\ Unchecked

(***************************************************************************)
(* The way out                                                             *)
(***************************************************************************)
ToLoginPage(q) == LET k == http[q].kind IN http[q].status = 401 /\ k.html /\ ~k.api

HandleError(q) ==
    /\ At(q, "raised")
    /\ IF ToLoginPage(q) THEN Answers(q, "audit", 303, http[q].why) ELSE Goes(q, "audit")
    /\ UNCHANGED <<trail, tasks>> /\ Unchecked

\* Faulty variant: bearer clients and safe methods count as blocked too.
LooksLikeCsrfAnyCreds(q) == http[q].status = 403 /\ ~http[q].kind.same

LooksLikeCsrf(q) == http[q].status = 403 /\ CrossOrigin(q)

Denials == {401, 403}

\* The actor is resolved again, in a session of the middleware's own.
AuditResponse(q) ==
    /\ At(q, "audit") /\ Goes(q, "sent")
    /\ IF http[q].status \in Denials
       THEN Records(q, IF LooksLikeCsrf(q) THEN "CSRF_BLOCKED" ELSE "AUTHZ_DENIED")
       ELSE UNCHANGED <<trail, tasks>>
    /\ Unchecked

(***************************************************************************)
(* After the response: every sink on its own; a failing one is skipped     *)
(***************************************************************************)
Emit(q, reached) ==
    LET mine == {e \in tasks : e.of = q} IN
    /\ At(q, "sent") /\ Goes(q, "over")
    /\ tasks' = tasks \ mine
    /\ siem' = [s \in Sinks |-> IF s \in reached THEN siem[s] \cup mine ELSE siem[s]]
    /\ lost' = IF reached = {} THEN lost \cup mine ELSE lost
    /\ UNCHANGED <<session, role, trail, wavered>>

GateNext ==
    \/ StopProcess
    \/ \E u \in SignedIn : EndSession(u) \/ \E r \in Roles : ChangeRole(u, r)
    \/ \E q \in Calls :
         \/ \E u \in SignedIn, k \in RequestKinds : Arrive(q, u, k)
         \/ Admit(q) \/ Throttle(q) \/ CheckOrigin(q) \/ ReadBody(q)
         \/ Authenticate(q) \/ CheckRole(q)
         \/ \E audited \in BOOLEAN : Succeed(q, audited)
         \/ \E status \in {401, 409} : FailLogin(q, status)
         \/ Refuse(q) \/ HandleError(q) \/ AuditResponse(q)
         \/ \E reached \in SUBSET Sinks : Emit(q, reached)

GateSpec == GateInit /\ [][GateNext]_gateVars

(***************************************************************************)
(* Properties                                                              *)
(***************************************************************************)
Actions == {"RATE_LIMITED", "CSRF_BLOCKED", "AUTHZ_DENIED", "AUTH_LOGIN", "SUCCESS"}
Events == [of : Calls, action : Actions, actor : SignedIn \cup {"anonymous"}]

GateTypeOK ==
    /\ session \in [SignedIn -> BOOLEAN] /\ role \in [SignedIn -> Roles]
    /\ \A q \in Calls : http[q] = NoRequest \/
          http[q] \in [at : {"limit", "origin", "body", "login", "guard", "handler",
                             "raised", "audit", "sent", "over"},
                       status : {0, 200, 303, 401, 403, 409, 413, 429},
                       why : {"none", "size", "limit", "csrf", "auth", "role",
                              "login", "stopped"},
                       user : SignedIn, kind : RequestKinds]
    /\ tasks \subseteq trail /\ lost \subseteq trail /\ trail \subseteq Events
    /\ siem \in [Sinks -> SUBSET trail]
    /\ wavered \subseteq Calls

Denied(q) == http[q] # NoRequest /\ At(q, "sent") /\ http[q].why \in {"csrf", "auth", "role"}
Redirected(q) == http[q].status = 303
Recorded(q, actions) == \E e \in trail : e.of = q /\ e.action \in actions

\* The audit middleware, which sees only status codes, records every refusal of
\* the checks inside it and tells a cross-origin block from a role denial; except
\* a browser that was sent to the login page.
DenialsAreRecorded ==
    \A q \in Calls : Denied(q) /\ ~Redirected(q) =>
        Recorded(q, IF http[q].why = "csrf" THEN {"CSRF_BLOCKED"} ELSE {"AUTHZ_DENIED"})

\* "It observes the final response of every request [and] records the scattered
\* failure outcomes uniformly" (audit_middleware.py:3): without the exception.
EveryDenialIsRecorded ==
    \A q \in Calls : Denied(q) => Recorded(q, {"CSRF_BLOCKED", "AUTHZ_DENIED"})

\* A refusal over the role names the user who was refused, though the actor is
\* looked up again after the answer was made, unless the session ended meanwhile.
DenialNamesTheUser ==
    \A e \in trail :
        LET h == http[e.of] IN
        e.action = "AUTHZ_DENIED" /\ h.why = "role" /\ e.of \notin wavered
            => e.actor = h.user

\* "record_and_emit additionally schedules SIEM emission on a background task"
\* (audit.py:4): nothing but a failed sink or the end of the process keeps an
\* event from the SIEM.
RecordedIsEmitted == \A e \in lost : http[e.of].why # "login"
=============================================================================
