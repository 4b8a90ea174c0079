----------------------------- MODULE Publication -----------------------------
(***************************************************************************)
(* One report between concurrent requests (services/publication.py,        *)
(* lifecycle.py, reports.py, the report routers).                          *)
(*                                                                         *)
(* Every request has a database session of its own: it loads the report,   *)
(* decides on the loaded copy, and commits later.  The Report mapper       *)
(* carries a version_id_col, so an ORM UPDATE of the row matches only the  *)
(* version that was loaded (else StaleDataError, 409); citations live in   *)
(* link tables that have no version, and go with the material they name,   *)
(* which the notebook can lose at any time.  The publishing request        *)
(* flushes its UPDATE before it builds the snapshot and holds the row lock *)
(* from there to its commit; isolation is READ COMMITTED.                  *)
(***************************************************************************)
EXTENDS Integers, FiniteSets

CONSTANTS
  Requests,      \* request handlers that may be active at once
  Users, Author, \* Author is the report's author_id
  Reviewers,     \* users with the REVIEWER or ADMIN role
  Admins,        \* users with the ADMIN role
  Contents,      \* text the report can have
  Attachments,   \* files of its notebook, which it can list
  Sources,       \* sources and indicators of its notebook, which it can cite
  Stakeholders,
  None,
  Demo,          \* the report belongs to the guided demo workspace
  GateThreads,   \* ICEBERG_PUBLISH_REQUIRES_RESOLVED_THREADS
  MaxVersion     \* bound on Report.version

ASSUME PublicationAssumption ==
  /\ Author \in Users /\ Reviewers \subseteq Users /\ Admins \subseteq Reviewers
  /\ None \notin Users /\ None \notin Contents /\ None \notin Requests
  /\ None \notin [text : Contents, files : SUBSET Attachments,
                  cited : SUBSET Sources, audience : SUBSET Stakeholders]
  /\ Contents # {}
  /\ Demo \in BOOLEAN /\ GateThreads \in BOOLEAN
  /\ MaxVersion \in Nat \ {0}

VARIABLES
  status, version, content, reviewer,  \* the report row
  cites,     \* ReportSource and ReportIOC links
  attached,  \* ReportAttachment links
  library,   \* the notebook's files, sources and indicators that still exist
  snapshot,  \* PublicationSnapshot, None before publication
  events,    \* stakeholders with a DisseminationEvent
  mail,      \* stakeholders with a DISSEMINATION_EMAIL job
  blocking,  \* a blocking editorial thread is open
  eligible,  \* stakeholders the routing rules match at this moment
  lock,      \* the request whose uncommitted UPDATE locks the row
  rq         \* each request's session

report == <<status, version, content, reviewer>>
material == <<cites, attached, library>>
feed   == <<snapshot, events, mail>>
vars   == <<report, material, feed, blocking, eligible, lock, rq>>

Statuses == {"DRAFT", "IN_REVIEW", "APPROVED", "PUBLISHED"}

\* A session: the operation it is at, the loaded copy of the row (version and
\* content), and what it is about to write.
Session == [op : {"none", "edit", "attach", "cite", "tag", "move", "publish",
                  "checked", "frozen"},
            ver : Nat, text : Contents \cup {None},
            target : Statuses \cup {None}, by : Users \cup {None},
            audience : SUBSET Stakeholders, cited : SUBSET Sources,
            files : SUBSET Attachments]
NoSession == [op |-> "none", ver |-> 0, text |-> None, target |-> None,
              by |-> None, audience |-> {}, cited |-> {}, files |-> {}]
Snapshots == [text : Contents, files : SUBSET Attachments,
              cited : SUBSET Sources, audience : SUBSET Stakeholders]

\* lifecycle._ALLOWED (faulty variant: a draft may be approved directly).
AllowedLoose(s) ==
  CASE s = "DRAFT"     -> {"IN_REVIEW", "APPROVED"}
    [] s = "IN_REVIEW" -> {"APPROVED", "DRAFT"}
    [] s = "APPROVED"  -> {"PUBLISHED", "IN_REVIEW"}
    [] s = "PUBLISHED" -> {}

Allowed(s) ==
  CASE s = "DRAFT"     -> {"IN_REVIEW"}
    [] s = "IN_REVIEW" -> {"APPROVED", "DRAFT"}
    [] s = "APPROVED"  -> {"PUBLISHED", "IN_REVIEW"}
    [] s = "PUBLISHED" -> {}

\* The role guards of lifecycle.transition.
MayMove(u, target) ==
  IF status = "DRAFT" /\ target = "IN_REVIEW"
  THEN u = Author \/ u \in Admins
  ELSE u \in Reviewers

\* ensure_editable: never once the report is published.
Editable == status # "PUBLISHED"

\* The WHERE clause of a versioned UPDATE (faulty variants: the clause, or
\* the row lock, is missing).
UnversionedWrite(r) == lock = None
FreshWrite(r)       == lock = None /\ version = rq[r].ver

-----------------------------------------------------------------------------
Init ==
  /\ status = "DRAFT" /\ version = 1 /\ content \in Contents /\ reviewer = None
  /\ cites = {} /\ attached = {} /\ library = Attachments \cup Sources
  /\ snapshot = None /\ events = {} /\ mail = {}
  /\ blocking = FALSE
  /\ eligible \in SUBSET Stakeholders
  /\ lock = None
  /\ rq = [r \in Requests |-> NoSession]

\* A request starts: its session loads the report row.
Load(r, op) ==
  /\ rq[r].op = "none"
  /\ rq' = [rq EXCEPT ![r] = [NoSession EXCEPT !.op = op, !.ver = version,
                                               !.text = content]]
  /\ UNCHANGED <<report, material, feed, blocking, eligible, lock>>

\* A request ends, with an answer or an error, without having written.
GiveUp(r) ==
  /\ rq' = [rq EXCEPT ![r] = NoSession]
  /\ UNCHANGED <<report, material, feed, blocking, eligible, lock>>

\* The session's UPDATE of the row commits and bumps the version.
Commit(r) ==
  /\ FreshWrite(r)
  /\ version < MaxVersion
  /\ version' = version + 1
  /\ rq' = [rq EXCEPT ![r] = NoSession]
  /\ UNCHANGED <<cites, library, feed, blocking, eligible, lock>>

\* The UPDATE matches no row.
Stale(r) == lock = None /\ version # rq[r].ver /\ GiveUp(r)

-----------------------------------------------------------------------------
\* report_edit, then update_report or report_save: the version the client saw
\* comes back with the form, and the UPDATE also excludes a published row.
OpenEditor(r) == Load(r, "edit")
SaveEdit(r) ==
  /\ rq[r].op = "edit"
  /\ \/ /\ Commit(r)
        /\ Editable
        /\ content' \in Contents
        /\ UNCHANGED <<status, reviewer, attached>>
     \/ lock = None /\ ~Editable /\ GiveUp(r)
     \/ Stale(r)

\* update_attachments: guarded on the loaded copy, written through the mapper.
\* What was deleted since it was chosen is no longer there to be listed.
BeginAttach(r) == Editable /\ Load(r, "attach")
CommitAttach(r) ==
  /\ rq[r].op = "attach"
  /\ \/ /\ Commit(r)
        /\ attached' \in SUBSET (Attachments \cap library)
        /\ UNCHANGED <<status, content, reviewer>>
     \/ Stale(r)

\* set_citations and set_ioc_citations: guarded on the loaded copy, but only
\* link rows are written.
BeginCite(r) == Editable /\ Load(r, "cite")
CommitCite(r) ==
  /\ rq[r].op = "cite"
  /\ cites' \in SUBSET (Sources \cap library)
  /\ rq' = [rq EXCEPT ![r] = NoSession]
  /\ UNCHANGED <<report, attached, library, feed, blocking, eligible, lock>>

\* update_tags and update_requirements: classification, also after publication;
\* it touches updated_at and so the version.
BeginTag(r) == Load(r, "tag")
CommitTag(r) ==
  /\ rq[r].op = "tag"
  /\ \/ Commit(r) /\ UNCHANGED <<status, content, reviewer, attached>>
     \/ Stale(r)

\* lifecycle.transition to anything but PUBLISHED.
BeginMove(r, u, target) ==
  /\ rq[r].op = "none"
  /\ target \in Allowed(status) \ {"PUBLISHED"}
  /\ MayMove(u, target)
  /\ rq' = [rq EXCEPT ![r] = [NoSession EXCEPT !.op = "move", !.ver = version,
                      !.text = content, !.target = target, !.by = u]]
  /\ UNCHANGED <<report, material, feed, blocking, eligible, lock>>

CommitMove(r) ==
  /\ rq[r].op = "move"
  /\ \/ /\ Commit(r)
        /\ status' = rq[r].target
        /\ reviewer' = CASE rq[r].target = "APPROVED" -> rq[r].by
                         [] rq[r].target = "DRAFT"    -> None
                         [] OTHER                     -> reviewer
        /\ UNCHANGED <<content, attached>>
     \/ Stale(r)

-----------------------------------------------------------------------------
\* publish: the report is loaded and must be approved, the actor a reviewer.
BeginPublish(r, u) ==
  /\ status = "APPROVED"
  /\ u \in Reviewers
  /\ Load(r, "publish")

\* publish: open blocking threads refuse it; the recipients are resolved, less
\* the exceptions the publisher asks for.
CheckPublish(r) ==
  /\ rq[r].op = "publish"
  /\ \/ /\ ~(GateThreads /\ blocking)
        /\ \E exceptions \in SUBSET eligible :
             rq' = [rq EXCEPT ![r].op = "checked",
                              ![r].audience = eligible \ exceptions]
        /\ UNCHANGED <<report, material, feed, blocking, eligible, lock>>
     \/ GateThreads /\ blocking /\ GiveUp(r)

\* create_snapshot: its first query flushes the UPDATE of the row, which locks
\* it or finds it changed; then text, files and citations are frozen.  A figure that
\* fails verification rolls the transaction back.
FreezePublish(r) ==
  /\ rq[r].op = "checked"
  /\ \/ /\ FreshWrite(r)
        /\ lock' = r
        /\ rq' = [rq EXCEPT ![r].op = "frozen", ![r].cited = cites,
                            ![r].files = attached]
        /\ UNCHANGED <<report, material, feed, blocking, eligible>>
     \/ FreshWrite(r) /\ GiveUp(r)
     \/ Stale(r)

\* disseminate re-computes the base match and delivers to those of the
\* resolved recipients who still match.
DeliveredWide(r) == eligible
Delivered(r)     == rq[r].audience \cap eligible

\* The commit of publish: row, snapshot, feed events and notification jobs in
\* one transaction; a demo report queues no job.
Notified(r) == IF Demo THEN {} ELSE Delivered(r)

CommitPublish(r) ==
  /\ rq[r].op = "frozen"
  /\ version < MaxVersion
  /\ status' = "PUBLISHED"
  /\ version' = version + 1
  /\ snapshot' = [text |-> rq[r].text, files |-> rq[r].files,
                  cited |-> rq[r].cited, audience |-> rq[r].audience]
  /\ events' = events \cup Delivered(r)
  /\ mail' = mail \cup Notified(r)
  /\ lock' = None
  /\ rq' = [rq EXCEPT ![r] = NoSession]
  /\ UNCHANGED <<content, reviewer, material, blocking, eligible>>

\* The server dies, or the client goes away: the session rolls back.
Abandon(r) ==
  /\ rq[r].op # "none"
  /\ rq' = [rq EXCEPT ![r] = NoSession]
  /\ lock' = IF lock = r THEN None ELSE lock
  /\ UNCHANGED <<report, material, feed, blocking, eligible>>

-----------------------------------------------------------------------------
\* Other components: an editorial thread opens or closes, and preferences,
\* groups or policies change who matches.  None of them touches the report.
ThreadChanges ==
  /\ blocking' = ~blocking
  /\ UNCHANGED <<report, material, feed, eligible, lock, rq>>

\* delete_attachment, delete_source and delete_ioc ask no report: the links to the
\* row go with it, also those of a published report.
DeleteMaterial(m) ==
  /\ m \in library
  /\ library' = library \ {m}
  /\ attached' = attached \ {m} /\ cites' = cites \ {m}
  /\ UNCHANGED <<report, feed, blocking, eligible, lock, rq>>

RoutingChanges ==
  /\ eligible' \in SUBSET Stakeholders
  /\ UNCHANGED <<report, material, feed, blocking, lock, rq>>

RequestStep(r) ==
  \/ OpenEditor(r) \/ SaveEdit(r)
  \/ BeginAttach(r) \/ CommitAttach(r)
  \/ BeginCite(r) \/ CommitCite(r)
  \/ BeginTag(r) \/ CommitTag(r)
  \/ \E u \in Users, t \in Statuses : BeginMove(r, u, t)
  \/ CommitMove(r)
  \/ \E u \in Users : BeginPublish(r, u)
  \/ CheckPublish(r) \/ FreezePublish(r) \/ CommitPublish(r)
  \/ Abandon(r)

Next ==
  \/ \E r \in Requests : RequestStep(r)
  \/ \E m \in library : DeleteMaterial(m)
  \/ ThreadChanges \/ RoutingChanges

Spec == Init /\ [][Next]_vars

-----------------------------------------------------------------------------
TypeOK ==
  /\ status \in Statuses
  /\ version \in 1..MaxVersion
  /\ content \in Contents
  /\ reviewer \in Reviewers \cup {None}
  /\ library \in SUBSET (Attachments \cup Sources)
  /\ cites \in SUBSET (Sources \cap library)
  /\ attached \in SUBSET (Attachments \cap library)
  /\ snapshot \in Snapshots \cup {None}
  /\ events \in SUBSET Stakeholders
  /\ mail \in SUBSET Stakeholders
  /\ blocking \in BOOLEAN
  /\ eligible \in SUBSET Stakeholders
  /\ lock \in Requests \cup {None}
  /\ rq \in [Requests -> Session]

\* The product a reader gets: the content of the snapshot.
Product == IF snapshot = None THEN None ELSE snapshot.text

\* Requests that act on stale copies of the row still look, one after the
\* other, like the workflow run by requests that are alone.
Lifecycle == INSTANCE ReportLifecycle WITH product <- Product
RefinesLifecycle == Lifecycle!Spec

\* The finished product is the live report: whoever published, and whatever was
\* being edited meanwhile, the snapshot froze exactly what the row says and the
\* files it lists, and only those the notebook lost since have left the list.
SnapshotIsTheReport ==
  /\ (snapshot # None) = (status = "PUBLISHED")
  /\ snapshot # None => /\ snapshot.text = content
                        /\ attached = snapshot.files \cap library

\* Nobody receives a product beyond the recorded audience, nothing is delivered
\* before publication, and exactly the deliveries of a real product are mailed.
FeedWithinRecord ==
  /\ status # "PUBLISHED" => events = {}
  /\ snapshot # None => events \subseteq snapshot.audience
  /\ mail = IF Demo THEN {} ELSE events

\* Once published, the citations a reader sees are those that were frozen, but for
\* sources the notebook loses: "Content edits (body, metadata, citations):
\* author-only and never once the report is published".
PublishedCitationsFrozen ==
  [][status = "PUBLISHED" => cites' = cites \cap library']_vars

\* "Publication refuses while a blocking thread is open."
PublishedOnlyWhenResolved ==
  [][status # "PUBLISHED" /\ status' = "PUBLISHED" =>
       ~(GateThreads /\ blocking)]_vars

\* The feed records "agree with the previewed and recorded audience".
FeedAgreesWithRecord ==
  snapshot # None => events = snapshot.audience
=============================================================================
