------------------------------ MODULE MispPush ------------------------------
(***************************************************************************)
(* Pushing a report's indicators to MISP (services/misp.py).  A writer     *)
(* reserves the report's one record with a token that lapses after five    *)
(* minutes, loads the record, calls MISP - with add the first time and     *)
(* edit afterwards, by the record it loaded - and records the outcome.  MISP is outside: it keeps an event per UUID, adds *)
(* no UUID twice, and may have acted on a call that fails here.            *)
(***************************************************************************)
EXTENDS Naturals

CONSTANTS Pushers,  \* requests that push
          MaxWrites \* bound: pushes that reserve the record

ASSUME PushAssumption == MaxWrites \in Nat

VARIABLES
    pushRecord, \* the ReportMispEvent row, or NoRecord
    pusher,     \* [Pushers -> local state of a request]
    pushable,   \* is the report approved or published, and MISP configured?
    event,      \* MISP: is there an event under the record's UUID?
    writes,     \* reservations so far; each draws the next token
    disturbed   \* history: a lease that lapsed, a request that died, a lost
                \* answer, a refused push that overwrote the outcome

pushVars == <<pushRecord, pusher, pushable, event, writes, disturbed>>

NoRecord == [status |-> "none", token |-> 0, old |-> FALSE, created |-> FALSE]
Away == [op |-> "away"]

PushInit ==
    /\ pushRecord = NoRecord
    /\ pusher = [p \in Pushers |-> Away]
    /\ pushable \in BOOLEAN /\ event = FALSE
    /\ writes = 0 /\ disturbed = {}

Recorded == pushRecord # NoRecord
Pushing(p) == pusher[p].op \in {"taken", "reserved", "called"}

SetPushable(b) ==
    /\ pushable # b /\ pushable' = b
    /\ UNCHANGED <<pushRecord, pusher, event, writes, disturbed>>

\* Five minutes pass for whoever holds the record.
LeaseLapses ==
    /\ pushRecord.token # 0 /\ ~pushRecord.old
    /\ pushRecord' = [pushRecord EXCEPT !.old = TRUE]
    /\ disturbed' = disturbed \cup {"lapsed"}
    /\ UNCHANGED <<pusher, pushable, event, writes>>

(***************************************************************************)
(* Reserving                                                               *)
(***************************************************************************)
LookUp(p) ==
    /\ pusher[p] = Away
    /\ pusher' = [pusher EXCEPT ![p] = [op |-> IF Recorded THEN "claim" ELSE "insert"]]
    /\ UNCHANGED <<pushRecord, pushable, event, writes, disturbed>>

Taken == [op |-> "taken", token |-> writes + 1]

\* One record per report: the second insert fails and goes on to claim.
InsertRecord(p) ==
    /\ pusher[p].op = "insert"
    /\ IF Recorded
       THEN /\ pusher' = [pusher EXCEPT ![p].op = "claim"]
            /\ UNCHANGED <<pushRecord, writes>>
       ELSE /\ writes < MaxWrites
            /\ pushRecord' = [status |-> "in_progress", token |-> writes + 1,
                              old |-> FALSE, created |-> FALSE]
            /\ pusher' = [pusher EXCEPT ![p] = Taken]
            /\ writes' = writes + 1
    /\ UNCHANGED <<pushable, event, disturbed>>

\* Faulty variant: whoever comes takes the record.
ClaimableAlways == TRUE

Claimable == pushRecord.token = 0 \/ pushRecord.old

\* The conditional UPDATE.
ClaimRecord(p) ==
    /\ pusher[p].op = "claim"
    /\ IF Claimable
       THEN /\ writes < MaxWrites
            /\ pushRecord' = [pushRecord EXCEPT !.token = writes + 1, !.old = FALSE,
                                                !.status = "in_progress"]
            /\ pusher' = [pusher EXCEPT ![p] = Taken]
            /\ writes' = writes + 1
       ELSE /\ pusher' = [pusher EXCEPT ![p] = [op |-> "busy"]]
            /\ UNCHANGED <<pushRecord, writes>>
    /\ UNCHANGED <<pushable, event, disturbed>>

\* The commit has expired the record, and the request reads it again.
LoadReserved(p) ==
    /\ pusher[p].op = "taken"
    /\ pusher' = [pusher EXCEPT ![p] = [op |-> "reserved", token |-> pusher[p].token,
                                        knows |-> pushRecord.created]]
    /\ UNCHANGED <<pushRecord, pushable, event, writes, disturbed>>

\* A refused request loads the record again, marks the object it returns ...
ReadBusy(p) ==
    /\ pusher[p].op = "busy"
    /\ pusher' = [pusher EXCEPT ![p] = [op |-> "refused", was |-> pushRecord.status]]
    /\ UNCHANGED <<pushRecord, pushable, event, writes, disturbed>>

\* ... and the audit's commit writes the mark, where it changed something.
CommitBusy(p) ==
    /\ pusher[p].op = "refused"
    /\ IF pusher[p].was = "in_progress" THEN UNCHANGED <<pushRecord, disturbed>>
       ELSE /\ pushRecord' = [pushRecord EXCEPT !.status = "in_progress"]
            /\ disturbed' = disturbed \cup {"overwritten"}
    /\ pusher' = [pusher EXCEPT ![p] = Away]
    /\ UNCHANGED <<pushable, event, writes>>

(***************************************************************************)
(* The call                                                                *)
(***************************************************************************)
Called(p, out) == [op |-> "called", token |-> pusher[p].token, outcome |-> out]

\* Not reviewed, not configured, no indicators, or above the ceiling without
\* the writer's word: nothing leaves.
HoldBack(p, out) ==
    /\ pusher[p].op = "reserved"
    /\ out = "error" => ~pushable
    /\ pusher' = [pusher EXCEPT ![p] = Called(p, out)]
    /\ UNCHANGED <<pushRecord, pushable, event, writes, disturbed>>

\* MISP adds what it does not have and edits what it has.
Accepted(p) == pusher[p].knows = event

CallMisp(p) ==
    /\ pusher[p].op = "reserved" /\ pushable
    /\ event' = (event \/ Accepted(p))
    /\ pusher' = [pusher EXCEPT ![p] = Called(p, IF Accepted(p) THEN "ok" ELSE "error")]
    /\ UNCHANGED <<pushRecord, pushable, writes, disturbed>>

\* The call fails, before or after MISP acted on it.
CallFails(p, acted) ==
    /\ pusher[p].op = "reserved" /\ pushable
    /\ event' = (event \/ (acted /\ Accepted(p)))
    /\ disturbed' = IF event' # event THEN disturbed \cup {"lost"} ELSE disturbed
    /\ pusher' = [pusher EXCEPT ![p] = Called(p, "error")]
    /\ UNCHANGED <<pushRecord, pushable, writes>>

(***************************************************************************)
(* The outcome                                                             *)
(***************************************************************************)
\* Faulty variant: the record is marked created whatever came of the call.
CreatedByAnyCall(out) == TRUE

CreatedBy(out) == pushRecord.created \/ out = "ok"

\* Whatever the record's token now is, it is cleared.
FinishPush(p) ==
    /\ pusher[p].op = "called"
    /\ pushRecord' = [status |-> pusher[p].outcome, token |-> 0, old |-> FALSE,
                      created |-> CreatedBy(pusher[p].outcome)]
    /\ pusher' = [pusher EXCEPT ![p] = Away]
    /\ UNCHANGED <<pushable, event, writes, disturbed>>

\* A request dies with its process.
CrashPush(p) ==
    /\ pusher[p] # Away
    /\ disturbed' = IF Pushing(p) THEN disturbed \cup {"died"} ELSE disturbed
    /\ pusher' = [pusher EXCEPT ![p] = Away]
    /\ UNCHANGED <<pushRecord, pushable, event, writes>>

PushNext ==
    \/ \E b \in BOOLEAN : SetPushable(b)
    \/ LeaseLapses
    \/ \E p \in Pushers :
         \/ LookUp(p) \/ InsertRecord(p) \/ ClaimRecord(p) \/ LoadReserved(p)
         \/ ReadBusy(p) \/ CommitBusy(p)
         \/ \E out \in {"error", "needs_confirmation"} : HoldBack(p, out)
         \/ CallMisp(p)
         \/ \E acted \in BOOLEAN : CallFails(p, acted)
         \/ FinishPush(p) \/ CrashPush(p)

PushSpec == PushInit /\ [][PushNext]_pushVars

(***************************************************************************)
(* Properties                                                              *)
(***************************************************************************)
Outcomes == {"ok", "error", "needs_confirmation"}
RecordRows == [status : Outcomes \cup {"none", "in_progress"}, token : 0..MaxWrites,
               old : BOOLEAN, created : BOOLEAN]

PushTypeOK ==
    /\ pushRecord \in RecordRows
    /\ pusher \in [Pushers -> [op : {"away", "insert", "claim", "busy"}]
                              \cup [op : {"refused"}, was : Outcomes \cup {"in_progress"}]
                              \cup [op : {"taken"}, token : 1..MaxWrites]
                              \cup [op : {"reserved"}, token : 1..MaxWrites, knows : BOOLEAN]
                              \cup [op : {"called"}, token : 1..MaxWrites, outcome : Outcomes]]
    /\ pushable \in BOOLEAN /\ event \in BOOLEAN /\ writes \in 0..MaxWrites
    /\ disturbed \subseteq {"lapsed", "died", "lost", "overwritten"}

\* Two pushes of a report are under way at once only after a lease lapsed; until
\* then the record names the one that is.
OnePushAtATime ==
    "lapsed" \notin disturbed =>
        \A p, q \in Pushers : Pushing(p) =>
            /\ pushRecord.token = pusher[p].token
            /\ Pushing(q) => p = q

\* A push edits only an event that exists; and once all is quiet the record
\* knows the event, unless a request died or an answer was lost.
RecordKnowsTheEvent ==
    /\ pushRecord.created => event
    /\ event /\ disturbed \cap {"died", "lost"} = {} /\ (\A p \in Pushers : ~Pushing(p)) =>
         pushRecord.created

\* A push of an event that exists edits it, whatever became of earlier answers.
RepushEdits ==
    [][\A p \in Pushers : CallMisp(p) => Accepted(p)]_pushVars

\* When nobody is pushing, the record shows an outcome.
OutcomeIsShown ==
    (\A p \in Pushers : ~Pushing(p)) /\ "died" \notin disturbed => pushRecord.status # "in_progress"
=============================================================================
