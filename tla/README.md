# A verification development for Iceberg

Iceberg is a FastAPI application in which analysts collect material, write
intelligence reports, have them reviewed, publish them to the stakeholders whose
preferences and clearances match, and keep track of what happened afterwards.  Its
state lives in one relational database and one object store; its processes are web
servers (several, and one thread per request), job workers, storage workers and
scheduled commands.  There is no lock manager: everything that keeps concurrent
requests apart is a version column, a row lock, a unique key, a conditional UPDATE, a
lease, or nothing.  That is what these modules are about.

## 1. Inventory

| Component | State | Operations | What is hard | What makes it correct |
|---|---|---|---|---|
| Job outbox (`services/jobs.py`) | `OutboxJob` rows: status, lease token and expiry, attempt and retry counts, due time | enqueue, claim, execute, mark succeeded or failed | workers that die or outlive their lease; racing inserts; delivery outside any transaction | no success without a delivery, no duplicate without a reason, every job settles |
| Report lifecycle (`services/lifecycle.py`) | `Report.status`, reviewer | submit, approve, rework, reconsider, publish | - | the abstract workflow that concurrent requests must implement |
| Publication and editing (`services/publication.py`, `services/reports.py`) | the versioned `Report` row, its citations, attachments and tags, the published snapshot | edits, moves, publish | two requests loading one row; tables without a version; a check before a lock | the product is the report; finished products do not change |
| Dissemination and need-to-know (`services/dissemination.py`, `audience.py`, `feed.py`) | feed records, groups, their members, the groups of a report | match, disseminate, assign, delete a group, mail | the audience is computed at publication and at each reading; link tables written from what was loaded | nobody beyond the recorded audience; a limit does not lift itself |
| Rendered products (`services/reports.py`, `publication.py`) | artefacts stamped with the hash of their source | render, retain, download | rendering takes long and is committed later | what a stakeholder downloads is the snapshot |
| Audience policy (`services/audience_policy.py`) | versioned rule sets with windows | create, update, delete, approve, retire, preview | writes by primary key of what was loaded earlier | one live rule set, immutable once approved; recipients as previewed |
| Editorial comments (`services/comments.py`) | threads, replies, suggestions | post, edit, resolve, reject, reopen, accept | acceptance spans two commits and two rows | no edit is clobbered, no published text changes |
| Object storage (`services/storage*.py`, `attachments.py`) | objects, rows that name them, tombstones, leases | upload, delete, worker, migrate, reconcile | a store outside the transaction | rows keep their object, orphans go |
| Evidence intake (`services/evidence.py`) | offers of other systems and their state | intake, accept, reject, revoke | decisions racing revocations | what a producer withdrew stays withdrawn |
| MISP push (`services/misp.py`) | one record per report: outcome, push token, what MISP has | reserve, call, record | a lease of five minutes; a token cleared by whoever ends; lost answers | one push at a time; the record knows the event |
| STIX and TAXII (`services/stix.py`, `taxii.py`) | cached bundles, a consumer's cursor | bundle, page, follow | a cache keyed by stamps that not everything moves; pages while the collection grows | what is served is current; nothing is skipped |
| Feeds (`services/feeds.py`, the scheduler of `main.py`) | feeds, articles, the poll lock | schedule, poll, prune, capture | overlapping polls; a lock that is skipped | an enabled feed is polled again and again |
| Feed indicators (`services/feed_indicators.py`) | candidates, the IOCs made from them | scan, accept, dismiss, reopen | two analysts, one candidate; a scan that fails halfway | one IOC for one decision |
| Notebooks (`services/notebooks.py`, `source_grading.py`, `iocs.py`) | sources and grades, indicators, files | add, edit, grade, delete with everything below | deletion lists three kinds of file, one after the other, before it removes rows | no half grade; every object has its row or a tombstone |
| Competing hypotheses (`services/ach.py`) | a matrix: rows with ids, ratings under ids | patch, number, drop rows | ids given again; two tabs | a rating judges the row it was made for |
| Tags (`services/tags.py`) | terms, aliases, links, lineage | create, seed, edit, rename, undo, merge, retire, delete | merges whose checks turned false; an undo of two commits | lineage ends in a term |
| Requirements and feedback (`services/requirements.py`, `feedback.py`) | requirement status, links, verdicts | state, link, deliver, rate, move | a verdict and what it satisfies are two commits | what a stakeholder calls met is satisfied |
| Related index (`services/related.py`) | one labelled vector per published report | embed, refresh, prune, compare | processes with different providers; columns written apart | a label tells the vector |
| AI assistance (`services/ai.py`, `ai_settings.py`) | provider settings, markings, stamps | resolve, gate, send, confirm | a call that takes longer than a marking lasts | nothing above the ceiling leaves |
| Users and sign-in (`services/users.py`, `auth/`) | identities, token version | provision, link, log out | check, then insert; read, then bump | one account per identity; logout is final |
| Rate limiting (`auth/rate_limit.py`) | token buckets in Redis | consume | a clock read before the script runs; expiry of keys | never more than burst and refill |
| Request gate and audit (`main.py`, `auth/audit_middleware.py`, `services/audit.py`, `siem.py`) | events, background emissions | refuse, record, emit | a middleware that sees only status codes | every denial is recorded |
| Settings (`services/singleton.py`, `*_settings.py`, `auth/routes.py`) | one row per kind, a registry per worker | create on read, save, rebuild | creation commits its caller's transaction; forms overlap | a registry that says it is current is |
| Demo workspace (`services/demo.py`) | workspace, guest, scenario | start, join, reset | compare-and-swap on one row | one scenario, of its guest |

The remaining components (search, programme measures, effective configuration, parsing
of inbound material, typesetting, upload validation, routers, migrations, front end)
read, format or configure; `PROJECT.json` lists each with the reason it is left out.

Components meet in these places: publication resolves the audience policy and the groups,
writes feed records, renders, and enqueues jobs in its own transaction; editorial comments
gate publication and write the report; jobs run the deliveries, the mail, the feed polls
and the embedding; deletions of attachments, figures and notebooks leave tombstones for the storage
worker; a tag's rename moves the stamps that exported bundles are cached under; every
request passes the gate, and most read a settings row.

## 2. How the models are built

A web request is a session: it loads rows, decides on what it loaded, and commits
later.  The models keep exactly that - `Begin...` loads, `Commit...` (or a named middle
step where the code flushes, refreshes or commits twice) writes - and everything else
may happen in between.  Four database facts are used throughout and cited where they
act: SQLAlchemy's mapper writes only changed columns, by primary key, without
looking at the loaded values again, except where `version_id_col` adds the version to
the WHERE clause (`models.py:974`); a replaced collection is written as the difference
between what was loaded and what replaces it, and a row to delete that is gone fails the commit;
a conditional UPDATE tests and writes in one step;
a row that was flushed or read `FOR UPDATE` is locked until the transaction ends.
`Abandon`, `Fail` or `Crash...` is a request whose client or server goes away:
`db.get_session` rolls back.

Data is abstracted to what the properties tell apart: a report's text is a model
value, or the passages in it and how often each occurs; a rule set is the set of people
it lets through; an object's key is the row it belongs to and the number of
migrations; a lease token is the attempt or reservation that drew it; a hash is what it is the
hash of; a hypothesis carries the claim it states.  Time is either relative
(`wait`, `lease`), a small clock (`now`, `time`), a stamp, or "old enough or not".

History variables (`crossed`, `moved`, `raced`, `mixed`, `disturbed`, `overtaken`, ...) remember
that a particular race happened.  Many properties of this code hold except after
one precise race; such a property says so, the race is defined by the step that commits it, and the
property without the exception stands next to it with the word "refuted" or
"without the exception".

### Modules

| Module | Models | State and actions against the code |
|---|---|---|
| `Outbox` | `services/jobs.py` | `status`, `token`, `attempts`, `retries`, `wait`, `lease` are the columns of `OutboxJob`; `ins` is a producer between its SELECT and INSERT; `wk` a worker between transactions.  One action per transaction: enqueue, pick candidates, claim by conditional UPDATE, send, mark succeeded, the read and the write of `_mark_failed`, `Crash`, `Tick` |
| `ReportLifecycle` | `services/lifecycle.py` | the workflow as if every request ran alone: six actions on status, content, reviewer and product |
| `Publication` | `publication.py`, `reports.py`, `dissemination.disseminate` | `rq[r]` is a session with its loaded version; `FreshWrite` is the version test of the UPDATE; `FreezePublish` flushes and holds the row's lock until `CommitPublish`.  Citations, tags and attachments are separate tables without a version; `library` is the files and sources that still exist, and `DeleteMaterial` takes one away from under the report |
| `NeedToKnow` | `audience.py`, the reading side of `feed.py` and `dissemination.py`, `jobs._run_email_job` | `groups`, `member`, `scope` are the tables; `request[a]` holds what a form loaded and what replaces it; `asked` is what was last assigned |
| `RelatedIndex` | `related.py`, its command in `maintenance.py` | `entry` is the row with its three columns, `worker` a request or a pass with the provider its process runs |
| `Renders` | the rendering half of `reports.py` and `publication.py` | `products` are the rows, `renderer` a request between rendering, store and commit, then between the look for old products and their deletion |
| `StorageLifecycle` | `storage_deletions.py`, `storage_maintenance.py`, `attachments.py`, `figures.py`, the migration of `storage.py` | `item` and `hop` are the rows, `obj` the stores, `tomb`/`owner`/`attempts` the tombstones; one action per transaction or store call.  `enqueue` is two: it reads the tombstone (`DeleteReads`, `ReconcileReads`) and writes by primary key what that reading calls for |
| `Comments` | `comments.py` | `text` counts passages; `writer[v]` is who made revision v; acceptance is `WriteSuggestion`, `RefreshReport`, `CloseAccepted`; a reply is `Post`, `NotifyMentions` |
| `AudiencePolicy` | `audience_policy.py`, the resolving part of `publication.py` | `row` is the versions, `request` an administrator's session with its loaded copies; an approval is `FlushApprove` (which locks) and `CommitApprove`; `overtaken` remembers the newest version that was written from a copy the row had moved on from |
| `Evidence` | `evidence.py`, with the foreign keys of `models.py` | `state`, `source` are the rows of `EvidenceReference`; `rq[r]` a session with the state it loaded and the open revisions it found; `product` the frozen citations and manifest |
| `Taxii` | `stix.py`, `taxii.py`, `attack_import.py` | `report` and `term` carry their stamps, `cache` the bundles of `_cached_bundle`, `pull` the consumer's cursor; `Bundle(r)` is `report_bundle`; `behind` remembers the ids that came under a date the cursor had passed, `unstamped` the reports that changed since their last stamp; how ids of one date are ordered is the parameter `RankOf` |
| `MispPush` | `misp.py` | `pushRecord` is the row, `pusher` a request from look-up to outcome with what it loaded of the event when it had reserved, `event` is MISP's side |
| `FeedPolling` | `feeds.py`, the scheduler of `main.py` | `queued` is the waiting jobs, `pollLock` the advisory lock, `poll` one run over the feeds |
| `FeedReview` | `feed_indicators.py`, the storing and pruning of `feeds.py`, `iocs.py` | `item`, `cand`, `iocs` are the rows; `review` an analyst's request or a run of the retention command |
| `Taxonomy` | `tags.py` | `tag` is the rows, `links` the link tables; `curator` a request with the copies a merge checked and then the links it selected |
| `Tasking` | `requirements.py`, `feedback.py` | `need`, `addressed`, `verdict` are the rows; `tab` a request; `feedback` and `close` are the two commits of a verdict |
| `AchMatrix` | `ach.py` | `matrix` is the row; a PATCH is a load and a save that writes the changed columns; `Numbered` is `_normalise_rows`, rows being picked by their positions |
| `NotebookWork` | `source_grading.py`, `notebooks.py`, the handlers that add, edit and delete | `source`, `ioc`, `stored` are the rows, `objects` and `tombstones` the files' other halves; `work` a request; a deletion lists rendered products, attachments and figures in separate queries (`ListFiles`), a file is uploaded in two steps (`PutFile`, `RecordFile`) |
| `AIAssist` | `ai.py`, `ai_settings.py`, `api/ai.py` | `call` goes from resolving the settings over loading and gating to sending; `stamps` are the provenance columns |
| `Accounts` | `users.py`, `auth/routes.py`, `tokens.py` | `account` is the rows, `req` a login between its queries and its commit, `token` what was handed out |
| `RateLimiter` | `rate_limit.py` | `bucket` is the Redis hash, `asking` a worker that has read its clock; `Consume` is the script; `admitted` counts, for every second, the requests let through since |
| `RequestGate` | `main.py`, `audit_middleware.py`, `audit.py`, `siem.py`, `csrf.py`, `body_limit.py` | `http` is a request at one of the checks, in the order of the middlewares; `tasks` the emissions in the background |
| `Settings` | `singleton.py`, the `*_settings.py` services, `auth/routes.py` | `settings` is the rows, `caller` a request in whose work a row is first read, `registry` the cache of a worker; `lookup` a login that reads the stamps row by row, and the rows again, row by row, if the registry does not carry them |
| `DemoWorkspace` | `demo.py` | `workspace` is the row, `visit` a request before and after its compare-and-swap |

`Publication` instantiates `ReportLifecycle` as its specification.  `AudiencePolicy` contains the part
of publication that consults the policy, `NeedToKnow` the part that consults the groups,
`Renders` the part that keeps the products.  `Outbox` stands for every kind of job; the
other modules enqueue into it and treat a job as queued once the transaction commits.

Every `MC...` module fixes an instance.  Where it holds several components
(`MCPublication`, `MCJobs`, `MCCollection`, `MCSharing`, `MCPlatform`) they share
no state: a variable `part` says which of them a behaviour is about, and the others keep one initial
state, so that the states are the sum and not the product of theirs.  `MCPublication`
holds publication, need-to-know, the related index and renders; `MCSharing` evidence, TAXII
and the audience policy; `MCCollection` feed review, tags, MISP, requirements, matrices,
notebooks and comments; `MCPlatform` accounts, rate limits, the gate, settings, AI
and demo workspaces; `MCJobs` the outbox and feed polling.

Every other module is parameterised by
CONSTANTS with named assumptions.  Definitions that end in a word such as `Uncapped`,
`Always` or `Wide` next to a definition of the model are deliberately faulty
variants of it, called "faulty variant" in their comments: replacing the definition by
its variant makes the named property fail, which shows the property can see
that kind of mistake.

## 3. What is checked

Passing runs (deadlock checking is off where the bounds stop the model, and only there):

| Run | Instance | What it shows |
|---|---|---|
| `outbox_safety` | 1 job, 3 workers, 2 producers, 3 attempts, 3 faults | delivery precedes success; without faults one copy per recorded failure; only a stale failure write reopens a settled job |
| `jobs_live` | 2 jobs, 2 workers, 1 fault; 2 feeds, 2 pollers, 3 changes, 1 crash | every accepted job settles; a feed that stays enabled is polled again and again |
| `publication_safety` | 2 requests of every component; 3 users, 2 texts, 2 stakeholders, 1 cited file, 5 versions; 2 groups, 1 report; 2 indexed reports, 2 providers; 4 products of 2 texts, retention by number and age | concurrent requests implement the workflow; the frozen product is the report, with the cited files that still exist; deliveries stay inside the record; a scope changes by assignment or a race, mail strays only after a move; a vector is labelled right; a stakeholder downloads the snapshot |
| `storage_safety` | 1 item, 2 workers, 1 migration, 2 faults, 1 kill | under `FairSpec`: a live row's object exists unless an interrupted migration's copy is in play; FAILED stays closed but for a stale write of a failure or an enqueue that saw it completed; every orphan goes, is named again or is left to an operator |
| `sharing` | 2 requests, 2 evidence revisions, 3 acceptances; 2 reports of different markings, 1 term on one of them that the other may be given, pages of 2, 3 stamps; 3 policy versions, 3 instants, 2 racing administrators, or administrators in turn, 2 versions and a publication | a withdrawal is overruled only by a request that raced it; without races the open offer is the newest, the manifest names the origin of every citation and withdrawn evidence shows; a TAXII consumer is served stale, or misses, only what no stamp announced or came behind its date; one rule set is live, except where a version was written from an overtaken copy; only a request that loaded it before rewrites what was approved or reopens what ended; recipients as previewed |
| `collection` | 1 article, 2 analysts; 2 terms, 3 names, 2 curators, 4 edits; 3 pushes; 1 requirement, 2 customers, 2 tabs; 2 editors, 3 claims; 2 writers, 1 file of each kind; 2 requests, 2 threads, 1 reply, 2 passages, 3 revisions | one IOC per decision; lineage ends; one push at a time and a record that knows the event; MET satisfies; saved ratings fit their rows; an object has its row or a tombstone, never both; no suggestion clobbers an edit or changes a finished product |
| `platform` | 2 users, 2 providers, 2 logins; 2 workers of one bucket, 6 seconds; 1 request of every kind; 2 settings rows, 2 forms; 1 report and 1 source with 2 AI requests; 2 guests, 3 visits | identities collide and sessions survive only by races; the budget holds while clocks are read in order; denials are recorded but for a redirected browser; a current registry was built from the rows; egress is cleared; one scenario of its guest |

Runs that find a disagreement between the code and what it says of itself:

| Run | What happens |
|---|---|
| `publication_citations` | a request that loaded the report as a draft replaces its citations after another published it: link tables carry no version (`reports.py:281-332`) |
| `scope_opens` | a group is found unused and is then deleted together with the assignment that named it meanwhile; the report was limited and is open to every stakeholder |
| `storage_resume` | a migration is interrupted after copying; the copy is listed as an orphan; the migration is resumed and points the row at the copy between the worker's look for a reference and its removal |
| `policy_rewritten` | an edit of a draft is saved after another administrator approved it and a product was published under it: the record names rules that were never applied, although `audience_policy.py:15` calls an approved rule set immutable |
| `taxii_ids` | two published reports of different markings with one technique give two objects of one id |

Every safety property of the passing runs is also a theorem (section 4); the liveness properties
`EveryJobSettles`, `EnabledFeedsArePolled` and `OrphansGo` are not.  No run repeats the type invariants,
which are proved but for `StorageLifecycle` and `FeedPolling`, model-checked only.  Some more properties
hold on the same instances without a run of their own. All are proved: `BudgetRespected` and
`AttemptsNeverReset` (`Outbox`), `AcceptedMeansApplied` and `MentionsAreOfStored` (`Comments`),
`VerdictsAreOwn` (`Tasking`), `NoOrphanRatings` (`AchMatrix`), `GradesComeInPairs` (`NotebookWork`),
`RowIsOneForm` (`Settings`), `GuestStays` (`DemoWorkspace`), `HoldersNeedAFault` (`Outbox`),
`ReportStampsStay` (`AIAssist`), `SeedingOverwritesNothing` (`Settings`), `DenialNamesTheUser`
(`RequestGate`).

### What does not hold

Further properties are stated in the modules and refuted by TLC on the same instances,
each by one interleaving more than a test would try.  Those marked with a line of the source are promises of a
comment or document.

| Property | How it fails |
|---|---|
| `PublishedOnlyWhenResolved`, `FeedAgreesWithRecord` (`Publication`) | a thread opens, or a preference changes, between the check and the commit of publish |
| `MailStaysInScope` (`NeedToKnow`) | the audience is narrowed between publication and the mail job |
| `ProductStaysAvailable` (`Renders`) | the age limit removes the only product of an old snapshot |
| `ComparesLikeWithLike`, `PruningSparesPublished` (`RelatedIndex`) | a pass writes its provider's vector between two entries of another's; a report is published between the list of the published and the deletion of the rest |
| `FailureSparesReplacement` (`Outbox`) | a worker reads its row in `_mark_failed`, its lease runs out, another claims the job, and the first one's write puts it back to PENDING (`jobs.py:288-308`) |
| `DeletedHasTombstone` (`StorageLifecycle`) | the tombstone names the location the request loaded; a migration has moved the row |
| `AppliedVersionIsItsRevision`, `MentionsAreNotified`, `AcceptedIsFinal` (`Comments`) | another revision lands between the two commits of an acceptance; a request dies between a reply and its mentions; a thread loaded while open is closed over ACCEPTED and reopened |
| `RecordNamesItsRules` (`AudiencePolicy`; run `policy_rewritten`), and `OneRuleSetLive` without its exception | a draft loaded for editing or deletion by a second administrator is approved, and published under, before the write: the approved version gets other rules, or a window that meets another version's, or is gone; a draft whose window is moved while it is approved closes the earlier versions at the old start |
| `ServedIsCurrent`, `NothingIsMissed` (`Taxii`) | an import refreshes a tag, or an audience changes, without a stamp; a report is retagged, or published by a request that read its stamp earlier, behind the date the consumer passed |
| `PruneSparesEvidence`, `FailedScanFoundNothing` (`FeedReview`; `feeds.py:516`) | a capture lands between the list of old articles and their deletion; of two scans the later fails on what the first stored |
| `OldNamesLandOnTheTerm` (`Taxonomy`; `tags.py:584`) | a new term takes the old name, and labels are looked up before aliases |
| `OnlyPirsArePlanned` (`Tasking`) | of two overlapping forms one changes the kind and the other plans collection |
| `DeletingNeverRekeys` (`AchMatrix`; `ach.py:18`) | one PATCH replaces the last row: the new one is given the id, and with it the ratings, of the old |
| `GradesAlwaysPaired` (`NotebookWork`; `source_grading.py:225`) | one request changes a credibility while another clears the grade |
| `RepushEdits`, `OutcomeIsShown` (`MispPush`) | a lease lapses while MISP acts, and the next push adds what is there; a refused push marks the record as running after the running one ended |
| `LogoutIsFinal` (`Accounts`) | a logout that read the version before two others ended writes an older version back |
| `BudgetAlwaysHolds` (`RateLimiter`) | a worker that read the clock earlier runs its script later and turns the bucket's stamp back, and the same second is refilled twice |
| `EveryDenialIsRecorded`, `RecordedIsEmitted` (`RequestGate`) | a browser without a session is redirected; a login that is refused raises before its emission starts |
| `RowIsAlwaysOneForm`, `ReadingCommitsNothing` (`Settings`) | two forms overlap; `get_or_create` commits what its caller has done so far |
| `OffIsCalledOff`, `BadRowDisablesAI` (`AIAssist`; `ai_settings.py:127`) | the ceiling is named where AI is off; a row no form would write makes the request fail |

`Taxonomy` states no property of links, because a merge does not keep the one `models.py:1211`
promises ("The canonical tag owns the report/subscription links"): it selects the links of both terms,
deletes and inserts what it selected and commits later (`tags.py:280-303`).  A link to the source
that commits after the SELECT stays on the merged term, though nothing
overlapped the merge's checks; an owner linked to both terms at the SELECT whose links
are replaced by the source alone before the commit loses the classification.

What a product cites may go after publication: an attachment, source or indicator is deleted from its
notebook and the foreign key takes the link with it (`attachments.py:127-134`).  The snapshot keeps its
manifest, the live report lists less; `SnapshotIsTheReport` therefore compares the files that are
still in the library, and `PublishedCitationsFrozen` forgives what a deletion takes.

### What the exceptions leave

A property with an exception says that no other history than the excepted race breaks it.  It does not
catch the race, which the code does not prevent.  That is the case of `ScopeOpensOnlyByRace` (its race
is found by `scope_opens`), `MailStraysOnlyAfterAMove`, `ProducersWordOverruledOnlyByRace`,
`DecisionOwnsItsIoc` (two stale decisions), `LineageEndsInATerm` (crossing merges),
`IdentitiesCollideOnlyByRace`, `EndedSessionsStayEnded` (overlapping logouts), `BudgetHolds` (a stamp
turned back), `EgressIsCleared` (a marking, ceiling or provider changed under way), `DenialsAreRecorded`
(a redirected browser), `OnePushAtATime` (after the first lapsed lease) and `MetSatisfies` (a death
between two commits).  The hazards of `PROJECT.json` that these properties are listed under say so each;
the unexcepted forms are in the table above where they are stated.

Three consequences of `evidence.py` are worth knowing although no document denies them.
Requests that race overwrite REVOKED, because the UPDATE goes by primary key.  Even
serially a rejected older revision can be accepted after a newer one arrived, which is why
`OpenIsNewest` excepts it.  Deleting a source clears the reference and with it the withdrawal notice
of a product that cites it, which is why `WithdrawalIsShown` speaks of sources that
still exist.

### Bounds, and why they are enough

Every bound is a CONSTANT named in its module.  Each race above needs two parties, so two requests or
workers show it; three workers or pushes let a third one act on what the race of two left behind.
Attempts of 2 or 3 give a first, a middle and a last attempt.  Two stakeholders and two passages tell
"everyone", "no one" and "someone else" apart. Versions are bounded by `MaxVersion`, which leaves room
for every editorial step once and for a stale write after it.  `MaxFaults`, `MaxKills` and `MaxCrashes`
bound crashes, since without faults left the behaviours are those of the next smaller instance.  Two
revisions make one newer than the other, and a third acceptance allows one to be accepted again after
its source was deleted.  Three names and two terms make a name that is free, one that is taken and one
that was; four edits are a merge, a rename, its undo and one more.  Three claims are a row dropped, one
added and one more.  Six seconds are three periods of the bucket, longer than its key lives.  Pages of
two over two reports of three objects end inside a report. The symmetry sets are used by safety runs
only, and where components share requests `x1`, `x2` or readers `u1`, `u2` they are interchangeable in
each of them.

### Fairness

`MCJobs!JobsFair`: `iceberg-worker --forever` keeps claiming, calls have timeouts and so
return or raise, and time passes (`WorkerStep`, `Tick`); the scheduler of every server
enqueues a poll in each interval, and a poll that runs goes on to its next feed
(`NextInterval`, `ScheduledEnqueue`, `RunStep`).  `StorageLifecycle!FairSpec`: the storage worker
deployment runs `--forever` (`deploy/k8s/storage-worker.yaml:37`), reconciliation is
started every hour by a CronJob (`deploy/k8s/storage-maintenance.yaml:6`), a request
that has begun ends, and objects grow old.  Only weak fairness is assumed, no crash is
fair, and no request is ever obliged to arrive.

## 4. What is proved

Eight modules hold the theorems, for all values of the constants.  The first five follow one component
each or begin with one; `PublicationProofs` also holds need-to-know, the related index and renders,
`EvidenceProofs` also TAXII, `CollectionProofs` the components of `MCCollection` and
`PlatformProofs` those of `MCPlatform`.

* `OutboxProofs!InductiveInvariant`: the row and every worker's local state agree (a
  claim's token is a value `attempt_count` had, of two workers that hold one job
  the later one has the higher token, a worker past the call has sent).  `TypeOK`
  alone is not inductive for `BudgetRespected`: that a worker in `_mark_failed` counts
  from the attempt it claimed must be carried along.  From it follow
  `DeliveryBeforeSuccess`, `BudgetHolds`, `AttemptsMonotone` and `OneHoleInFinality`.  The
  assumptions are `OutboxAssumption` and `PowersOfTwo`, an arithmetic fact about the
  operator `^` that the provers cannot unfold and TLC evaluates.
  `CopiesFollowFailures` (`DuplicatesFollowFailures`) counts: without faults the attempts of a job are
  its recorded failures, and one more while a worker holds it or once it has succeeded; the
  messages sent are at most that many, so each further copy has its failure.
  `HoldersAreByFault` (`HoldersNeedAFault`) counts workers: one is late once its lease ran out or the row
  no longer carries its token; all holders but one are late, and late ones are no more than the faults.
  A late worker that writes back a failure makes the row's owner late, and leaves itself.
* `PublicationProofs!InductiveInvariant`: a session whose loaded version is the current one holds the
  current row, and the lock belongs to the one session that froze.  This is what makes a version test
  enough: whoever passes it decided on the truth.  Deleting an attachment takes it
  out of the row and of the library at once.  From it follow `ProductIsTheReport`, `DeliveryWithinRecord` and
  `ConcurrentWorkflow`, the refinement of `ReportLifecycle`.  `DeliveryWithinRecord` also covers the
  demo workspace (`Demo = TRUE`), whose publications send nothing.
* `PublicationProofs!NeedInvariant`: a deletion under way found its group unused when it
  looked, and every publication and mail under way is aimed at the audience the report has,
  or the report has moved since.  From it follow `ScopeIsAsAssigned` (`ScopeOpensOnlyByRace`) and
  `MailWithinTheAudience` (`MailStraysOnlyAfterAMove`), for any readers, groups and reports.
* `PublicationProofs!LabelsAreTrue` (`LabelsTellTheVector`): the property speaks of rows, and a pass writes them
  column by column from what it loaded two steps earlier; so the invariant (`RelatedInv`) says of every
  loaded and every prepared row too that its label is the provider that made its vector, and its
  version one the report has had.
* `PublicationProofs!StakeholdersGetTheSnapshot` (`OfferedIsTheSnapshot`): a hash stands beside the text it is the
  hash of, in the hands of a renderer as in a row, so a product whose hash is that of the snapshot is a
  rendering of the snapshot.
* `EvidenceProofs!InductiveInvariant`: a session holds a state its operation may start
  from (`SessionShape`); a reference names a source made of its revision, only what was
  rejected is in REJECTED, and what is left of a product's sources is still cited
  (`Links`); and while no request has raced, withdrawals stand and every source is
  the one its revision names (`Calm`).  The quiet part needs the others: that a write
  hits what was loaded is what `raced` remembers.
  From it follow `OpenIsNewest`,
  `ManifestNamesOrigins`, `WithdrawalIsShown` and `ProducersWordOverruledOnlyByRace`; the
  assumption is `EvidenceAssumption`.
* `EvidenceProofs!StaleBundlesAreUnstamped` (`StaleOnlyUnstamped`): a stamp that a request has read or
  will read is nowhere yet, neither in a row nor in the key of a cached bundle, so a bundle under the
  key of the moment was built after the last stamp.  `NothingIsSkipped` (`MissedOnlyBehind`) adds the
  consumer (`PullInv`): every id its cursor has passed is in its hands or was left behind.  The work is
  in the pages: a page is an initial part of what was not yet served, in the order of date and rank; a
  page that is not full ends the collection; a page that is full takes the cursor to its last element,
  and the rest of that date stays ahead of it.  The least element of a non-empty set of numbers comes
  from `WellFoundedInduction`.  `TaxiiAssumption` says that ids of one date are in some fixed order
  (`RankOf` is injective), and that no TLP level is mapped to the marking of a limited audience.
* `StorageLifecycleProofs!InductiveInvariant`: what is in the store is settled or on its way to a row,
  what is old is settled, and whatever a tombstone, a worker or a reconciliation run is about is dead:
  its row is gone or has moved on.  `RowsKeepTheirObject` says nothing of tombstones and so is not
  inductive.  The exception for interrupted copies goes through every part.  The argument never uses the
  worker's second look for a reference: but for such copies, the orphan grace alone already keeps rows
  and tombstones apart.  An enqueue that read its tombstone before it writes is about a location that
  stays dead in between. From it follow `RowsKeepTheirObject` and `FailedStaysClosed`, under
  `StorageAssumption`.
* `CommentsProofs!InductiveInvariant`: an acceptance whose loaded version is current has
  loaded the current text of an unpublished report, and one past its write goes on about
  a suggestion that is a revision by now.  From it follow `NoEditIsClobbered`,
  `PublishedTextFrozen`, `AcceptedMeansApplied` and `MentionsAreOfStored`, under
  `CommentsAssumption`.
* `AudiencePolicyProofs!NobodyUnseen`: `DeliveredAsPreviewed`, for any number of racing administrators.
  The invariant says that what a running publication resolved is what was shown, and that nothing runs
  once the product is out.  The other theorems need an invariant of the races (`RaceInv`), in which
  `overtaken` is a watermark: above it an approved version has only approved ones below (`Contiguous`)
  and its window ended, or is empty, once a newer one is approved, unless it ends where the newer one
  starts or before (`EarlierClosed`); an approval that has flushed holds the other windows as they are,
  or they have ended (`FlushSound`), and two such approvals hold different rows.  From it follow
  `OneLive` (`OneRuleSetLive`), `RecordNamesUnlessOvertaken` and `RewrittenOnlyByWhoLoadedBefore`
  (`RewrittenOnlyByRace`), and `TypeCorrect`, for any number of racing administrators, versions, rules
  and windows.  `RecordNamesItsRules` itself is false: run `policy_rewritten`.
* `CollectionProofs!InductiveInvariant` (MISP push): whoever is past the insert finds the record, only a lease
  that lapsed makes a reservation old, an answer of MISP names an event that exists, and an event
  that exists is known to the record or to the request that made it, until a request dies or an
  answer is lost.  `OnePushAtATime` needs the second, `RecordKnowsTheEvent` the last two.  From it
  follow `OnePush` and `EventIsKnown`, under `PushAssumption`.
* `CollectionProofs!IndicatorsStandForDecisions` (`DecisionOwnsItsIoc`): an analyst's request holds rows that are
  there, or was doomed by the deletion of what it held; whoever decides loaded a pending candidate.
* `CollectionProofs!LineageHasAnEnd` (`LineageEndsInATerm`): a merge under way checked a source that was
  not merged and an active target, and of a merged term that no late commit touched the target is a row
  (`MergesAreOfTerms`, `MergedTermsRetire`).  An active term cannot be the end of a merge that would
  close a circle, because what is merged is retired.
* `CollectionProofs!MetIsSatisfied` (`MetSatisfies`) and `VerdictsSpeakForTheirOwner`: a form of feedback loaded a
  delivered product and a requirement of the customer it speaks for, and nobody has had a word on a requirement
  that was not stated yet.
* `CollectionProofs!ObjectsHaveRowOrTombstone` (`ObjectsAccountedFor`): of the rows there are, a
  deletion under way has listed each whose kind it has passed, unless the row came too late or has its
  tombstone (`RequestSound`), and a rendered product has a report.  `GradesHoldTogether`: a copy of a
  source that no other request overlapped is the source as it is stored, so what it writes back is
  paired if what it read was.
* `CollectionProofs!SavedRatingsFit` (`SavedRatingsFitTheirRows`) and `RatingsHaveTheirRows`: a copy of
  a matrix that nobody has changed since is the matrix.  The first also needs what numbering does to
  rows: it gives every row an id of its own (`NewNumbers`), and a row that keeps an id keeps its claim
  (`NumberedRows`), since new numbers lie above every id that was sent, blank rows included.  Of what
  clients send it uses that of two rows with one id the first states a claim and the other is blank
  (`SentAreSendable`).  Rows are picked by their positions, and the count of positions is a bijection
  (`PlacesCount`), so no induction over sequences is needed.
* `PlatformProofs!CollisionsAreRaces` (`IdentitiesCollideOnlyByRace`) and `LogoutsLast`
  (`EndedSessionsStayEnded`): a token carries a version its account has had, one that was ended an
  earlier one, unless two logouts of the account overlapped.  `AccountsAssumption`: the name for "no
  identity" is not a provider or a subject.
* `PlatformProofs!BudgetsAreKept` (`BudgetHolds`): an account, kept per key: what was let through since a moment
  and the tokens that are left never exceed the capacity and the refill since that moment.  It needs the
  bucket to be there as long as it is not full, and so `LagAssumption`: a worker runs its script no
  later after reading its clock than the time the key is kept minus the time it takes to fill.  For
  every policy that is at least half a minute, as keys are kept twice as long as they take to
  fill and never less than a minute (`rate_limit.py:164`).
* `PlatformProofs!RefusalsAreOnTheTrail` (`DenialsAreRecorded`): why a request was refused, its status
  and its headers go together on the way to the audit middleware, which sees only the last two.
  `DenialsNameTheirUser` (`DenialNamesTheUser`): a request past authentication whose user did not waver
  is its user's still when the middleware looks the actor up again (`NameInv`).
* `PlatformProofs!ClientsFollowTheRows` (`RegistryIsCurrent`) and `FormsAreKeptWhole`: a row takes a new
  value only with a stamp no registry has seen, so a registry whose stamps agree was made from the rows,
  each row by itself.  A login under way has read a row again only after its stamp (`LookupHolds`):
  where that stamp is still the row's, what it read is what the row holds. `SeedingLeavesRowsAlone`
  (`SeedingOverwritesNothing`): whoever creates a missing row leaves the others as they are.
* `PlatformProofs!NothingLeavesUncleared` (`EgressIsCleared`): a call under way that nothing overtook holds the
  ceiling of the row as it is, and what it loaded is cleared by it; `AIAssumption` says that the
  lowest marking is a ceiling one can set.  `StampsStay` (`ReportStampsStay`): who is about to stamp a report that
  has not changed since holds all its stamps (`StampInv`).
* `PlatformProofs!OneScenario` (`OneScenarioForItsGuest`) and `GuestsStay`: one transaction at a time holds the
  workspace's row, and what it is about to write was read under that lock.

The other assumptions name constants apart: `NoArticle` is no article, no requirement is called
"none" or "nothing", the disabled provider is no provider, reports and sources are different rows.

Three properties changed because their proofs failed, each time for a reason TLC confirmed on a larger
instance.  `LineageEndsInATerm` excused too few races: a source that was retired when a merge loaded it and
reactivated before the commit leaves a merged term that is active, so `crossed` also remembers that.
`MissedOnlyBehind` spoke of reports: with three of them, one may fall behind the cursor and then be
reclassified, and what is missed is its old marking; `behind` is the set of ids now.  `StaleOnlyUnstamped`
excused a report for ever once it had changed without a stamp; a later stamp now ends the excuse.

Only model-checked: the liveness properties (`EveryJobSettles`, `EnabledFeedsArePolled`, `OrphansGo`);
`TypeOK` of `StorageLifecycle`, whose bound on attempts needs faults to be counted per claim (the types
themselves are part of its proved invariant); everything about `FeedPolling`, which has no property but a
liveness one.  Not proved because they are false: what the violation runs and "What does not hold" list.

## 5. Plan

1. (done) `Outbox`, `ReportLifecycle`, `Publication`, with proofs: the core everything
   else hangs on.
2. (done) `StorageLifecycle`, `Comments`, `AudiencePolicy`, `Evidence`, with proofs.
3. (done) `NeedToKnow` and `MispPush` with proofs; `Renders`, `RelatedIndex`, `Taxii`, feeds,
   tags, requirements, matrices and notebooks.
4. (done) What every request passes through: accounts, rate limits, the gate, settings,
   AI assistance, demo workspaces.
5. `Publication` composed with `Outbox`: what a publication queued is delivered or
   given up on, and nothing is delivered that was not published.
6. `Renders` composed with `StorageLifecycle`: the file of a product that is offered exists.
7. Pure algorithms against reference definitions: the retry delay, ACH scores, source
   grades, audience matching.
8. (done) Proofs of every safety property that a run checks.
9. Proofs of what is only model-checked and within reach: `TypeOK` of `StorageLifecycle`; then those of the
   compositions of 5 and 6.

## 6. Not modelled

Parsing and validation of what comes in (envelopes, STIX and MISP documents, uploads,
markup), typesetting, search, programme measures, the display of the effective
configuration, mail and proxy formatting, audit export, schema
migrations, the routers' forms and the front end: see the components of `PROJECT.json` for each reason.
Inside the modelled components: report creation and deletion, permissions beyond author,
reviewer and administrator, the cursor of reconciliation, the evaluation order inside one
rule set, the protocol of OIDC, similarity scores, and the clock skew between servers other than
in `RateLimiter` are left out.
