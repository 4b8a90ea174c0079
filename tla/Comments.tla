------------------------------ MODULE Comments ------------------------------
(***************************************************************************)
(* Editorial threads and suggested edits on one report                     *)
(* (services/comments.py).                                                 *)
(*                                                                         *)
(* A thread may quote a passage and propose its replacement.  Accepting it *)
(* is two transactions: the report's UPDATE, which matches the loaded      *)
(* version only, and then the thread's, by primary key.  Posting a comment *)
(* is two transactions as well: the row, then the notification jobs of the *)
(* writers it mentions.  Thread rows carry no version, and the mapper      *)
(* writes only the attributes that a request changed on its loaded copy.   *)
(*                                                                         *)
(* The text of the report is how often each passage occurs in it, up to    *)
(* twice: a suggestion needs its quote to occur exactly once.              *)
(***************************************************************************)
EXTENDS Integers, Sequences

CONSTANTS
  Requests,     \* request handlers that may be active at once
  Threads,      \* comments that start a thread and carry a suggestion
  Replies,      \* comments that answer a thread
  Passages,
  Quote,        \* anchor_text of a thread
  Replacement,  \* suggestion of a thread
  NoThread,
  MaxVersion    \* bound on Report.version

ASSUME CommentsAssumption ==
  /\ Quote \in [Threads -> Passages] /\ Replacement \in [Threads -> Passages]
  /\ Threads \cap Replies = {}
  /\ NoThread \notin Threads \cup Replies
  /\ MaxVersion \in Nat \ {0}

Comments == Threads \cup Replies

VARIABLES
  text,       \* the report's text
  published,  \* Report.status is PUBLISHED
  writer,     \* writer[v]: the thread whose suggestion made revision v, or NoThread
  posted,     \* committed ReportComment rows
  status,     \* CommentStatus of each thread
  applied,    \* applied_version of each thread, 0 when NULL
  notified,   \* comments whose EDITORIAL_MENTION jobs are queued
  rq          \* each request's session

vars   == <<text, published, writer, posted, status, applied, notified, rq>>
report == <<text, published, writer>>
thread == <<posted, status, applied>>

version == Len(writer)
Texts   == [Passages -> 0..2]

\* A session: the operation it is at, the comment it is about, and what it will
\* use of its loaded copies: an acceptance the report's version and text, a
\* change of status whether the thread was loaded with that status already.
Session == [op : {"none", "post", "posted", "close", "reopen", "accept",
                  "written", "refreshed"},
            on : Comments \cup {NoThread}, ver : Nat, seen : Texts,
            target : {"unchanged", "OPEN", "RESOLVED", "REJECTED"}]
NoRequest == [op |-> "none", on |-> NoThread, ver |-> 0, seen |-> [p \in Passages |-> 0],
         target |-> "unchanged"]

\* The quoted passage occurs exactly once.
Unique(x, t) == x[Quote[t]] = 1

\* str.replace of one occurrence.
Replaced(x, t) ==
  LET cut == [x EXCEPT ![Quote[t]] = @ - 1]
  IN  [cut EXCEPT ![Replacement[t]] = IF @ = 2 THEN 2 ELSE @ + 1]

\* The WHERE clause of the report's versioned UPDATE (faulty variant: the
\* clause is missing).
AnyWrite(r)   == TRUE
FreshWrite(r) == version = rq[r].ver

\* A StaleDataError ends the request with a 409.
AfterStale(r) == NoRequest

\* Mentions are queued once the comment has an id.
Queues(r) == rq[r].op = "posted"

\* The revision an acceptance records: the version after the write.
RevisionWritten == version

-----------------------------------------------------------------------------
Init ==
  /\ text \in Texts
  /\ published = FALSE
  /\ writer = <<NoThread>>
  /\ posted = {} /\ notified = {}
  /\ status = [t \in Threads |-> "OPEN"]
  /\ applied = [t \in Threads |-> 0]
  /\ rq = [r \in Requests |-> NoRequest]

\* A request starts: it loads what it needs and keeps this of it.
Load(r, session) ==
  /\ rq[r].op = "none"
  /\ rq' = [rq EXCEPT ![r] = session]
  /\ UNCHANGED <<report, thread, notified>>

\* create_thread: the quoted passage must be unambiguous in the loaded text.
BeginCreate(r, t) ==
  /\ t \notin posted
  /\ Unique(text, t)
  /\ Load(r, [NoRequest EXCEPT !.op = "post", !.on = t])

\* reply: any thread can be answered, open or closed.
BeginReply(r, c) ==
  /\ c \notin posted /\ Threads \cap posted # {}
  /\ Load(r, [NoRequest EXCEPT !.op = "post", !.on = c])

\* The comment's row commits ...
Post(r) ==
  /\ rq[r].op = "post"
  /\ rq[r].on \notin posted
  /\ posted' = posted \cup {rq[r].on}
  /\ rq' = [rq EXCEPT ![r].op = "posted"]
  /\ UNCHANGED <<report, status, applied, notified>>

\* ... and _notify_mentions queues its notifications in a second transaction.
NotifyMentions(r) ==
  /\ Queues(r)
  /\ notified' = notified \cup {rq[r].on}
  /\ rq' = [rq EXCEPT ![r] = NoRequest]
  /\ UNCHANGED <<report, thread>>

\* resolve and reject: the loaded thread must be open; _close writes the status
\* (applied_version is None on the loaded copy, so it is not written).
BeginClose(r, t, outcome) ==
  /\ t \in posted /\ status[t] = "OPEN"
  /\ Load(r, [NoRequest EXCEPT !.op = "close", !.on = t, !.target = outcome])

CommitClose(r) ==
  /\ rq[r].op = "close"
  /\ status' = [status EXCEPT ![rq[r].on] = rq[r].target]
  /\ rq' = [rq EXCEPT ![r] = NoRequest]
  /\ UNCHANGED <<report, posted, applied, notified>>

\* reopen: refused on an accepted thread; on a thread loaded open the status
\* does not change and is not written.
BeginThreadReopen(r, t) ==
  /\ t \in posted /\ status[t] # "ACCEPTED"
  /\ Load(r, [NoRequest EXCEPT !.op = "reopen", !.on = t,
       !.target = IF status[t] = "OPEN" THEN "unchanged" ELSE "OPEN"])

CommitThreadReopen(r) ==
  /\ rq[r].op = "reopen"
  /\ status' = IF rq[r].target = "unchanged" THEN status
               ELSE [status EXCEPT ![rq[r].on] = rq[r].target]
  /\ rq' = [rq EXCEPT ![r] = NoRequest]
  /\ UNCHANGED <<report, posted, applied, notified>>

-----------------------------------------------------------------------------
\* accept_suggestion: an open thread, the version the author saw, an editable
\* report, and the passage still unique in the loaded text.
BeginAccept(r, t) ==
  /\ t \in posted /\ status[t] = "OPEN"
  /\ ~published
  /\ Unique(text, t)
  /\ Load(r, [NoRequest EXCEPT !.op = "accept", !.on = t, !.ver = version, !.seen = text])

\* The report's UPDATE writes the replaced text as the next revision.
WriteSuggestion(r) ==
  /\ rq[r].op = "accept"
  /\ \/ /\ FreshWrite(r)
        /\ version < MaxVersion
        /\ text' = Replaced(rq[r].seen, rq[r].on)
        /\ writer' = Append(writer, rq[r].on)
        /\ rq' = [rq EXCEPT ![r].op = "written"]
     \/ /\ version # rq[r].ver
        /\ rq' = [rq EXCEPT ![r] = AfterStale(r)]
        /\ UNCHANGED <<text, writer>>
  /\ UNCHANGED <<published, thread, notified>>

\* session.refresh(report): the version is read again ...
RefreshReport(r) ==
  /\ rq[r].op = "written"
  /\ rq' = [rq EXCEPT ![r].op = "refreshed",
                           ![r].ver = RevisionWritten]
  /\ UNCHANGED <<report, thread, notified>>

\* ... and _close records it with the acceptance.  The commit expired the
\* loaded thread, so every attribute is written.
CloseAccepted(r) ==
  /\ rq[r].op = "refreshed"
  /\ status' = [status EXCEPT ![rq[r].on] = "ACCEPTED"]
  /\ applied' = [applied EXCEPT ![rq[r].on] = rq[r].ver]
  /\ rq' = [rq EXCEPT ![r] = NoRequest]
  /\ UNCHANGED <<report, posted, notified>>

\* The server dies, or the request fails: the open transaction rolls back and
\* what was committed stays.
Abandon(r) ==
  /\ rq[r].op # "none"
  /\ rq' = [rq EXCEPT ![r] = NoRequest]
  /\ UNCHANGED <<report, thread, notified>>

-----------------------------------------------------------------------------
\* Other requests on the report, one versioned UPDATE each: an edit of the
\* text, a publication, a status move or a classification.
NewRevision == /\ version < MaxVersion
               /\ writer' = Append(writer, NoThread)
               /\ UNCHANGED <<thread, notified, rq>>
EditText == /\ ~published /\ NewRevision
            /\ text' \in Texts /\ UNCHANGED published
Publish  == /\ ~published /\ NewRevision
            /\ published' = TRUE /\ UNCHANGED text
Touch    == NewRevision /\ UNCHANGED <<text, published>>

RequestStep(r) ==
  \/ \E t \in Threads : \/ BeginCreate(r, t) \/ BeginThreadReopen(r, t)
                        \/ BeginAccept(r, t)
                        \/ \E o \in {"RESOLVED", "REJECTED"} : BeginClose(r, t, o)
  \/ \E c \in Replies : BeginReply(r, c)
  \/ Post(r) \/ NotifyMentions(r) \/ CommitClose(r) \/ CommitThreadReopen(r)
  \/ WriteSuggestion(r) \/ RefreshReport(r) \/ CloseAccepted(r)
  \/ Abandon(r)

Next == (\E r \in Requests : RequestStep(r)) \/ EditText \/ Publish \/ Touch

Spec == Init /\ [][Next]_vars

-----------------------------------------------------------------------------
TypeOK ==
  /\ text \in Texts /\ published \in BOOLEAN
  /\ writer \in Seq(Threads \cup {NoThread}) /\ version \in 1..MaxVersion
  /\ posted \subseteq Comments /\ notified \subseteq Comments
  /\ status \in [Threads -> {"OPEN", "RESOLVED", "REJECTED", "ACCEPTED"}]
  /\ applied \in [Threads -> 0..version]
  /\ rq \in [Requests -> Session]

\* A suggestion "is refused rather than clobbering a concurrent edit": the
\* revision it makes is the revision before it with one unambiguous quote
\* replaced, whatever was edited since the author's page was loaded.
NoEditIsClobbered ==
  [][\A t \in Threads :
       writer' = Append(writer, t) =>
         Unique(text, t) /\ text' = Replaced(text, t)]_vars

\* A thread is marked accepted only after its replacement became a revision, at
\* or before the one it names.
AcceptedMeansApplied ==
  \A t \in Threads :
    status[t] = "ACCEPTED" => \E v \in 1..applied[t] : writer[v] = t

\* "Never once the report is published": no suggestion accepted meanwhile gets
\* into a finished product.
PublishedTextFrozen == [][published => UNCHANGED text]_vars

\* Nobody is told of a comment that was never stored.
MentionsAreOfStored == notified \subseteq posted

\* "An accepted suggestion is part of the product's history and cannot be
\* reopened."
AcceptedIsFinal ==
  [][\A t \in Threads : status[t] = "ACCEPTED" => status'[t] = "ACCEPTED"]_vars

\* "The report revision an accepted suggestion was written into."
AppliedVersionIsItsRevision ==
  \A t \in Threads : status[t] = "ACCEPTED" => writer[applied[t]] = t

\* "Writers named in the body, resolved at creation and notified once": once no
\* request is posting it, a comment's mentions are queued.
MentionsAreNotified ==
  \A c \in posted :
    c \in notified \/ \E r \in Requests : rq[r].on = c /\ rq[r].op = "posted"
=============================================================================
