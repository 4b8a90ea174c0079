--------------------------- MODULE AudiencePolicy ---------------------------
(***************************************************************************)
(* The versions of one dissemination policy, and a publication whose       *)
(* audience they narrow (services/audience_policy.py, publication.py).     *)
(*                                                                         *)
(* An administrator drafts a version, edits or deletes the draft, approves *)
(* it, which ends the window of every version before it, and retires it.   *)
(* Every request checks its loaded copy and writes later by primary key;   *)
(* the mapper writes only what a request changed on its copy.  No row has  *)
(* a version number that its UPDATE would compare.  A publisher previews   *)
(* the recipients; publishing with the preview's fingerprint is refused    *)
(* when resolving them again gives something else.                         *)
(*                                                                         *)
(* Times are small numbers, Unset is an open end of a window.  A rule set  *)
(* is the set of stakeholders it lets through.  The history variable       *)
(* overtaken is the newest version that was written from a copy the row    *)
(* had moved on from; the code keeps no such record and reads none.        *)
(***************************************************************************)
EXTENDS Integers, FiniteSetsExt

CONSTANTS
  Administrators,  \* administrators' requests that may be active at once
  Stakeholders,
  RuleSets,        \* rule sets a version can have
  Windows,         \* windows a draft can have: pairs <<from, to>>
  Unset,
  MaxVersions,     \* bound: versions of the policy
  MaxTime          \* bound on the clock

Times == 0..MaxTime

ASSUME PolicyAssumption ==
  /\ RuleSets \subseteq SUBSET Stakeholders
  /\ Unset \notin Times /\ Unset \notin RuleSets /\ Unset \notin Administrators
  /\ Windows \subseteq (Times \cup {Unset}) \X (Times \cup {Unset})
  /\ \A w \in Windows : Unset \in {w[1], w[2]} \/ w[1] < w[2]
  /\ MaxVersions \in Nat \ {0} /\ MaxTime \in Nat

Versions == 1..MaxVersions

VARIABLES
  clock,
  row,      \* the DisseminationPolicyVersion rows
  request,  \* each administrator's request: its session
  overtaken,  \* history: the newest version written from an overtaken copy
  base,     \* stakeholders the report's marking and their preferences match
  shown,    \* the resolution the publisher previewed, Unset if there is none
  chosen,   \* the resolution of the running publish, Unset if none runs
  record,   \* the audience record of the published snapshot
  events    \* stakeholders the published product was delivered to

policyVars == <<clock, row, request, overtaken, base, shown, chosen, record, events>>
publication == <<base, shown, chosen, record, events>>

NoRow == [st |-> "none", rules |-> {}, from |-> Unset, to |-> Unset]
Row   == [st : {"none", "draft", "approved"}, rules : RuleSets \cup {{}},
          from : Times \cup {Unset}, to : Times \cup {Unset}]
Exists(v)   == row[v].st # "none"
Approved(v) == row[v].st = "approved"

\* A session: its operation, the version it is about, its loaded copy of a draft,
\* and, for an approval, the boundary and its loaded copies of the others.
NoSession == [op |-> "none", v |-> 1, copy |-> NoRow, boundary |-> Unset,
              priors |-> [u \in Versions |-> NoRow]]

\* An approval that has flushed its UPDATE holds the row's lock.
Free(r, v) == \A o \in Administrators \ {r} : request[o].op = "flushed" => request[o].v # v

\* applicable_versions: approved and inside [from, to).
Started(v)  == row[v].from = Unset \/ row[v].from <= clock
Ended(v)    == row[v].to # Unset /\ row[v].to <= clock
InWindow(v) == Approved(v) /\ Started(v) /\ ~Ended(v)
Applicable  == {v \in Versions : InWindow(v)}

\* ... of which the newest counts.
Live == IF Applicable = {} THEN Unset ELSE Max(Applicable)

\* resolve: rules only remove recipients from the base match.
Resolution ==
  [version  |-> Live,
   audience |-> IF Live = Unset THEN base ELSE base \cap row[Live].rules,
   rules    |-> IF Live = Unset THEN Unset ELSE row[Live].rules]

\* The fingerprint digests the versions and the outcome (faulty variant: the
\* versions only).
FingerprintOfInputs(res) == res.version
Fingerprint(res)         == <<res.version, res.audience>>

-----------------------------------------------------------------------------
PolicyInit ==
  /\ clock = 0
  /\ row = [v \in Versions |-> NoRow]
  /\ overtaken = 0
  /\ request = [r \in Administrators |-> NoSession]
  /\ base \in SUBSET Stakeholders
  /\ shown = Unset /\ chosen = Unset /\ record = Unset /\ events = {}

\* A request starts and loads the version it is about.
LoadVersion(r, op, v) ==
  /\ request[r].op = "none"
  /\ request' = [request EXCEPT ![r] = [NoSession EXCEPT
       !.op = op, !.v = v, !.copy = IF op = "retire" THEN NoRow ELSE row[v]]]
  /\ UNCHANGED <<clock, row, overtaken, publication>>

\* What a request is about to write rests on a copy the row has moved on from:
\* an edit or deletion of what has been approved, an approval of a draft whose
\* window was moved.
CopyOvertaken(r) ==
  LET v == request[r].v
  IN  \/ /\ request[r].op \in {"update", "delete"}
         /\ Approved(v) /\ request[r].copy.st = "draft"
      \/ /\ request[r].op = "approve"
         /\ Exists(v) /\ request[r].copy.from # row[v].from

NoteOvertaken(r) ==
  overtaken' = IF CopyOvertaken(r) /\ overtaken < request[r].v THEN request[r].v ELSE overtaken

EndRequest(r) == request' = [request EXCEPT ![r] = NoSession] /\ UNCHANGED <<clock, publication>>

\* create_version: the latest version must not be a draft.
BeginDraft(r) ==
  LET numbers == {v \in Versions : Exists(v)}
      latest  == IF numbers = {} THEN 0 ELSE Max(numbers)
  IN  /\ latest # 0 => Approved(latest)
      /\ latest < MaxVersions
      /\ LoadVersion(r, "create", latest + 1)

\* The insert fails when another request took the number.
CommitDraft(r) ==
  /\ request[r].op = "create"
  /\ IF Exists(request[r].v) THEN UNCHANGED row
     ELSE \E rules \in RuleSets, w \in Windows :
            row' = [row EXCEPT ![request[r].v] =
              [st |-> "draft", rules |-> rules, from |-> w[1], to |-> w[2]]]
  /\ EndRequest(r) /\ UNCHANGED overtaken

\* The guard of update_draft, approve and delete_draft on the loaded copy
\* (faulty variant: an approved version may still be edited).
MutableAlways(v) == Exists(v)
Mutable(v)       == row[v].st = "draft"

\* update_draft
BeginUpdate(r, v) == Mutable(v) /\ LoadVersion(r, "update", v)

CommitUpdate(r) ==
  LET v    == request[r].v
      copy == request[r].copy
      Set(new, old, current) == IF new = old THEN current ELSE new
  IN  /\ request[r].op = "update" /\ Free(r, v)
      /\ IF ~Exists(v) THEN UNCHANGED row
         ELSE \E rules \in RuleSets, w \in Windows :
                row' = [row EXCEPT
                  ![v].rules = Set(rules, copy.rules, @),
                  ![v].from  = Set(w[1], copy.from, @),
                  ![v].to    = Set(w[2], copy.to, @)]
      /\ EndRequest(r) /\ NoteOvertaken(r)

\* delete_draft
BeginDelete(r, v) == row[v].st = "draft" /\ LoadVersion(r, "delete", v)

CommitDelete(r) ==
  /\ request[r].op = "delete" /\ Free(r, request[r].v)
  /\ row' = [row EXCEPT ![request[r].v] = NoRow]
  /\ EndRequest(r) /\ NoteOvertaken(r)

\* retire: the window ends now.
BeginRetire(r, v) == Approved(v) /\ LoadVersion(r, "retire", v)

CommitRetire(r) ==
  /\ request[r].op = "retire" /\ Free(r, request[r].v)
  /\ row' = IF Exists(request[r].v) THEN [row EXCEPT ![request[r].v].to = clock] ELSE row
  /\ EndRequest(r) /\ UNCHANGED overtaken

-----------------------------------------------------------------------------
BeginApprove(r, v) == row[v].st = "draft" /\ LoadVersion(r, "approve", v)

\* The versions an approval closes (faulty variant: only the one before it).
EarlierPrevious(v) == {u \in Versions : u = v - 1 /\ Approved(u)}
EarlierVersions(v)  == {u \in Versions : u < v /\ Approved(u)}

\* Where they end: the loaded start of the replacement, or the moment of its
\* approval.
Boundary(r) == IF request[r].copy.from # Unset THEN request[r].copy.from ELSE clock

\* approve: the query of _supersede_earlier flushes the UPDATE of the version,
\* which locks its row, and loads the approved versions before it.
FlushApprove(r) ==
  LET v == request[r].v
  IN  /\ request[r].op = "approve" /\ Free(r, v)
      /\ IF Exists(v)
         THEN request' = [request EXCEPT
                ![r].op = "flushed",
                ![r].copy = NoRow,
                ![r].boundary = Boundary(r),
                ![r].priors = [u \in Versions |->
                                 IF u \in EarlierVersions(v) THEN row[u] ELSE NoRow]]
         ELSE request' = [request EXCEPT ![r] = NoSession]
      /\ NoteOvertaken(r)
      /\ UNCHANGED <<clock, row, publication>>

\* _supersede_earlier: the end of an earlier version's window, from its loaded
\* copy.
ClosedAt(prior, boundary) ==
  CASE prior.to # Unset /\ prior.to <= boundary     -> prior.to
    [] prior.from # Unset /\ prior.from > boundary  -> prior.from
    [] OTHER                                       -> boundary

\* approve commits: the version is approved and the windows are written that
\* differ from the loaded ones.  One that is gone fails the transaction.
CommitApprove(r) ==
  LET v == request[r].v
      End(u) == ClosedAt(request[r].priors[u], request[r].boundary)
      closing == {u \in Versions : request[r].priors[u].st = "approved"
                                     /\ End(u) # request[r].priors[u].to}
  IN  /\ request[r].op = "flushed"
      /\ \A u \in closing : Free(r, u)
      /\ IF \E u \in closing : ~Exists(u) THEN UNCHANGED row
         ELSE row' = [u \in Versions |->
                CASE u = v         -> [row[u] EXCEPT !.st = "approved"]
                  [] u \in closing -> [row[u] EXCEPT !.to = End(u)]
                  [] OTHER         -> row[u]]
      /\ EndRequest(r) /\ UNCHANGED overtaken

\* The server dies or the client goes away: the session rolls back.
RollBack(r) == request[r].op # "none" /\ EndRequest(r) /\ UNCHANGED <<row, overtaken>>

-----------------------------------------------------------------------------
\* preview_report_audience
Preview ==
  /\ record = Unset /\ chosen = Unset
  /\ shown' = Resolution
  /\ UNCHANGED <<clock, row, request, overtaken, base, chosen, record, events>>

\* publish: the recipients are resolved again; a fingerprint, if the publisher
\* sent one, must match.
BeginPublication ==
  /\ record = Unset /\ chosen = Unset
  /\ shown # Unset => Fingerprint(Resolution) = Fingerprint(shown)
  /\ chosen' = Resolution
  /\ UNCHANGED <<clock, row, request, overtaken, base, shown, record, events>>

\* publish refuses a stale preview; the publisher must preview again.
RefusePublication ==
  /\ record = Unset /\ chosen = Unset /\ shown # Unset
  /\ Fingerprint(Resolution) # Fingerprint(shown)
  /\ shown' = Unset
  /\ UNCHANGED <<clock, row, request, overtaken, base, chosen, record, events>>

\* The commit of publish: the record is what was resolved, the deliveries those
\* of it that still match.
CommitPublication ==
  /\ chosen # Unset
  /\ record' = chosen
  /\ events' = chosen.audience \cap base
  /\ chosen' = Unset
  /\ UNCHANGED <<clock, row, request, overtaken, base, shown>>

\* Preferences, groups, tags or the marking change.
MatchChanges ==
  /\ base' \in SUBSET Stakeholders
  /\ UNCHANGED <<clock, row, request, overtaken, shown, chosen, record, events>>

Tick == clock < MaxTime /\ clock' = clock + 1 /\ UNCHANGED <<row, request, overtaken, publication>>

AdministratorStep(r) ==
  \/ BeginDraft(r) \/ CommitDraft(r)
  \/ \E v \in Versions : \/ BeginUpdate(r, v) \/ BeginDelete(r, v)
                         \/ BeginRetire(r, v) \/ BeginApprove(r, v)
  \/ CommitUpdate(r) \/ CommitDelete(r) \/ CommitRetire(r)
  \/ FlushApprove(r) \/ CommitApprove(r)
  \/ RollBack(r)

PublicationStep ==
  Preview \/ BeginPublication \/ RefusePublication \/ CommitPublication \/ MatchChanges

PolicyNext == (\E r \in Administrators : AdministratorStep(r)) \/ PublicationStep \/ Tick

PolicySpec == PolicyInit /\ [][PolicyNext]_policyVars

-----------------------------------------------------------------------------
Resolutions ==
  [version : Versions \cup {Unset}, audience : SUBSET Stakeholders,
   rules : RuleSets \cup {{}, Unset}] \cup {Unset}

PolicyTypeOK ==
  /\ clock \in Times
  /\ row \in [Versions -> Row] /\ overtaken \in 0..MaxVersions
  /\ \A r \in Administrators :
       /\ request[r].v \in Versions /\ request[r].copy \in Row
       /\ request[r].boundary \in Times \cup {Unset}
       /\ request[r].op = "flushed" => request[r].boundary # Unset
       /\ request[r].priors \in [Versions -> Row]
  /\ base \subseteq Stakeholders /\ events \subseteq Stakeholders
  /\ {shown, chosen, record} \subseteq Resolutions

\* "Nobody sends to a recipient list they never saw": what a publisher who
\* previewed publishes is what was shown, and no one else receives it, whatever
\* rules, memberships and markings did meanwhile.
DeliveredAsPreviewed ==
  record # Unset /\ shown # Unset =>
    record.audience = shown.audience /\ events \subseteq shown.audience

\* "A policy carries exactly one live rule set": the windows of approved versions
\* do not overlap now or later, however administrators' requests race, except
\* with and below a version that was written from an overtaken copy.
OneRuleSetLive ==
  \A u, v \in Versions :
    overtaken < u /\ u < v /\ Approved(u) /\ Approved(v) =>
      \A t \in clock..MaxTime :
        LET Covers(w) == /\ row[w].from = Unset \/ row[w].from <= t
                         /\ row[w].to = Unset \/ row[w].to > t
        IN  ~(Covers(u) /\ Covers(v))

\* A request acts on what it loaded of v before others wrote it: an edit or
\* deletion that found a draft, an approval of another version that found
\* another window of v.
LoadedBefore(r, v) ==
  \/ /\ request[r].op \in {"update", "delete"} /\ request[r].v = v
     /\ request[r].copy.st = "draft"
  \/ /\ request[r].op = "flushed" /\ request[r].priors[v].st = "approved"
     /\ <<request[r].priors[v].from, request[r].priors[v].to>> # <<row[v].from, row[v].to>>

\* What was approved stays, with its rules, and what was retired or superseded is
\* not reopened, but by the write of a request that loaded the version before it
\* was approved, or before it ended.
RewrittenOnlyByRace ==
  [][\A v \in Versions : Approved(v) =>
       \/ /\ row'[v].st = "approved" /\ row'[v].rules = row[v].rules
          /\ Ended(v) => row'[v].to # Unset /\ (row'[v].to <= clock \/ row'[v].to = row'[v].from)
       \/ \E r \in Administrators : request'[r].op = "none" /\ LoadedBefore(r, v)]_policyVars

\* "A rule set is immutable once approved", "so a publication can name the exact
\* slug@vN that decided it": the version a published product's record names is
\* still approved, with the rules that were applied.
RecordNamesItsRules ==
  record # Unset /\ record.version # Unset =>
    Approved(record.version) /\ row[record.version].rules = record.rules
=============================================================================
