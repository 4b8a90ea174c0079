------------------------- MODULE PublicationProofs --------------------------
(***************************************************************************)
(* What the versioned UPDATE, the need-to-know audiences, the related-     *)
(* report index and the renderer guarantee for any number of requests,     *)
(* readers, reports, workers and stakeholders: what is published, whom it  *)
(* is sent to, what its labels say and what stakeholders are offered.      *)
(***************************************************************************)
EXTENDS Publication, NeedToKnow, RelatedIndex, Renders, TLAPS

(***************************************************************************)
(* What the versioned UPDATE buys the editorial workflow, for any number   *)
(* of requests, users, contents and stakeholders: however requests that    *)
(* loaded the report at different moments interleave, the report moves as  *)
(* if each had run alone, and the product is the report that was approved. *)
(***************************************************************************)

(***************************************************************************)
(* The inductive invariant.  A session that still holds the current        *)
(* version holds the current row, so what it decided on the loaded copy    *)
(* holds of the row (SessionFresh, per session); a session that has an     *)
(* older version can no longer write.  The lock belongs to the one session *)
(* that froze, and until it ends the row stays at the version it froze and *)
(* lists the files it froze, less what the notebook lost since.            *)
(***************************************************************************)
SessionFresh(r) ==
  /\ rq[r].ver <= version
  /\ rq[r].op = "none" => rq[r].ver = 0
  /\ rq[r].op = "move" => /\ rq[r].target \in Statuses
                          /\ rq[r].target = "APPROVED" => rq[r].by \in Reviewers
  /\ rq[r].ver = version =>
       /\ rq[r].text = content
       /\ rq[r].op = "move" => rq[r].target \in Allowed(status) \ {"PUBLISHED"}
       /\ rq[r].op = "attach" => status # "PUBLISHED"
       /\ rq[r].op \in {"publish", "checked", "frozen"} => status = "APPROVED"
  /\ rq[r].op = "frozen" => /\ rq[r].ver = version
                            /\ attached = rq[r].files \cap library
  /\ rq[r].op = "frozen" <=> lock = r

SessionsFresh == \A r \in Requests : SessionFresh(r)

IInv == TypeOK /\ SessionsFresh /\ SnapshotIsTheReport /\ FeedWithinRecord

-----------------------------------------------------------------------------
\* A session that does nothing is a session.
LEMMA NoSessionType == NoSession \in Session
  BY DEF NoSession, Session

\* What one request does to its own session leaves the others' alone.
LEMMA OthersKeep ==
  ASSUME NEW r \in Requests, NEW q \in Requests, q # r, TypeOK, NEW s,
         rq' = [rq EXCEPT ![r] = s]
  PROVE  rq'[q] = rq[q] /\ rq'[r] = s
  BY DEF TypeOK

\* Every field keeps its type; in particular only a reviewer ever signs.
LEMMA TypeStep == IInv /\ [Next]_vars => TypeOK'
<1> SUFFICES ASSUME IInv, [Next]_vars
             PROVE  TypeOK'
  OBVIOUS
<1>. USE DEF report, material, feed
<1>1. TypeOK /\ SessionsFresh
  BY DEF IInv
<1>1a. version \in Nat /\ content \in Contents
  BY <1>1, PublicationAssumption DEF TypeOK
<1>2. UNCHANGED vars => TypeOK'
  BY <1>1 DEF vars, TypeOK
<1>3. ThreadChanges \/ RoutingChanges => TypeOK'
  BY <1>1 DEF ThreadChanges, RoutingChanges, TypeOK
<1>3a. ASSUME NEW m \in library, DeleteMaterial(m)
      PROVE  TypeOK'
  BY <1>1, <1>3a DEF DeleteMaterial, TypeOK
<1>4. ASSUME NEW r \in Requests, RequestStep(r)
      PROVE  TypeOK'
  <2>0. rq[r] \in Session
    BY <1>1 DEF TypeOK
  <2>1. ASSUME NEW op \in {"edit", "attach", "cite", "tag", "publish"}, Load(r, op)
        PROVE  TypeOK'
    <3>1. [NoSession EXCEPT !.op = op, !.ver = version, !.text = content]
            \in Session
      BY <1>1a DEF Session, NoSession
    <3> QED
      BY <1>1, <2>1, <3>1 DEF Load, TypeOK
  <2>2. GiveUp(r) => TypeOK'
    BY <1>1, NoSessionType DEF GiveUp, TypeOK
  <2>3. Commit(r) => /\ version' \in 1..MaxVersion
                     /\ rq' \in [Requests -> Session]
                     /\ UNCHANGED <<cites, library, feed, blocking, eligible, lock>>
    BY <1>1, NoSessionType, PublicationAssumption DEF Commit, TypeOK
  <2>4. SaveEdit(r) => TypeOK'
    BY <1>1, <2>2, <2>3 DEF SaveEdit, Stale, TypeOK
  <2>5. CommitAttach(r) => TypeOK'
    BY <1>1, <2>2, <2>3 DEF CommitAttach, Stale, TypeOK
  <2>6. CommitCite(r) => TypeOK'
    BY <1>1, NoSessionType DEF CommitCite, TypeOK
  <2>7. CommitTag(r) => TypeOK'
    BY <1>1, <2>2, <2>3 DEF CommitTag, Stale, TypeOK
  <2>8. ASSUME NEW u \in Users, NEW t \in Statuses, BeginMove(r, u, t)
        PROVE  TypeOK'
    <3>1. [NoSession EXCEPT !.op = "move", !.ver = version, !.text = content,
                            !.target = t, !.by = u] \in Session
      BY <1>1a DEF Session, NoSession
    <3> QED
      BY <1>1, <2>8, <3>1 DEF BeginMove, TypeOK
  <2>9. CommitMove(r) => TypeOK'
    <3>1. CommitMove(r) /\ Commit(r) /\ status' = rq[r].target
            => status' \in Statuses
      BY <1>1 DEF CommitMove, SessionsFresh, SessionFresh
    <3> QED
      BY <1>1, <2>2, <2>3, <3>1
        DEF CommitMove, Stale, TypeOK, SessionsFresh, SessionFresh, Statuses
  <2>10. CheckPublish(r) => TypeOK'
    <3>1. ASSUME NEW a \in SUBSET Stakeholders
          PROVE  [rq[r] EXCEPT !.op = "checked", !.audience = a] \in Session
      BY <2>0 DEF Session
    <3>2. ASSUME NEW a \in SUBSET Stakeholders,
                 rq' = [rq EXCEPT ![r].op = "checked", ![r].audience = a]
          PROVE  rq' \in [Requests -> Session]
      BY <1>1, <3>1, <3>2 DEF TypeOK
    <3>3. \A x \in SUBSET eligible : eligible \ x \in SUBSET Stakeholders
      BY <1>1 DEF TypeOK
    <3> QED
      BY <1>1, <2>2, <3>2, <3>3 DEF CheckPublish, TypeOK
  <2>11. FreezePublish(r) => TypeOK'
    <3>1. [rq[r] EXCEPT !.op = "frozen", !.cited = cites,
                         !.files = attached] \in Session
      BY <1>1, <2>0 DEF Session, TypeOK
    <3> QED
      BY <1>1, <2>2, <3>1 DEF FreezePublish, Stale, TypeOK
  <2>12. CommitPublish(r) => TypeOK'
    <3>1. CommitPublish(r) => rq[r].text \in Contents
      BY <1>1 DEF CommitPublish, SessionsFresh, SessionFresh, TypeOK
    <3>2. /\ rq[r].cited \in SUBSET Sources /\ rq[r].audience \in SUBSET Stakeholders
          /\ rq[r].files \in SUBSET Attachments
      BY <2>0 DEF Session
    <3> QED
      BY <1>1, <3>1, <3>2, NoSessionType, PublicationAssumption
        DEF CommitPublish, TypeOK, Delivered, Notified, Snapshots, Statuses
  <2>13. Abandon(r) => TypeOK'
    BY <1>1, NoSessionType DEF Abandon, TypeOK
  <2> QED
    BY <1>4, <2>1, <2>4, <2>5, <2>6, <2>7, <2>8, <2>9, <2>10, <2>11, <2>12, <2>13
      DEF RequestStep, OpenEditor, BeginAttach, BeginCite, BeginTag, BeginPublish
<1> QED
  BY <1>2, <1>3, <1>3a, <1>4 DEF Next

-----------------------------------------------------------------------------
\* A session another request did not touch stays fresh, or goes stale for good,
\* when the row is rewritten: only the version has to move.
LEMMA RewriteKeeps ==
  ASSUME IInv, NEW r \in Requests, rq' = [rq EXCEPT ![r] = NoSession],
         version' = version + 1, lock \in {None, r}, lock' = None
  PROVE  SessionsFresh'
<1>1. SUFFICES ASSUME NEW q \in Requests
               PROVE  SessionFresh(q)'
  BY DEF SessionsFresh
<1>2. TypeOK /\ SessionFresh(q) /\ version \in Nat \ {0}
  BY PublicationAssumption DEF IInv, SessionsFresh, TypeOK
<1>3. CASE q = r
  <2>1. rq'[q] = NoSession
    BY <1>2, <1>3 DEF TypeOK
  <2> QED
    BY <1>2, <2>1, PublicationAssumption DEF SessionFresh, NoSession
<1>4. CASE q # r
  <2>1. rq'[q] = rq[q] /\ rq[q] \in Session
    BY <1>2, <1>4 DEF TypeOK
  <2>2. rq[q].ver \in Nat
    BY <2>1 DEF Session
  <2> QED
    BY <1>2, <1>4, <2>1, <2>2, PublicationAssumption DEF SessionFresh
<1> QED
  BY <1>3, <1>4

\* A step that writes the session of r and not the row keeps every session
\* fresh if it keeps that one.
LEMMA ReadKeeps ==
  ASSUME IInv, NEW r \in Requests, UNCHANGED <<report, attached, library>>, SessionFresh(r)',
         \A q \in Requests : q # r => rq'[q] = rq[q],
         lock' = lock \/ (lock \in {None, r} /\ lock' \in {None, r})
  PROVE  SessionsFresh'
<1>1. SUFFICES ASSUME NEW q \in Requests, q # r
               PROVE  SessionFresh(q)'
  BY DEF SessionsFresh
<1>2. TypeOK /\ SessionFresh(q)
  BY DEF IInv, SessionsFresh
<1> QED
  BY <1>1, <1>2, PublicationAssumption DEF SessionFresh, report

\* A session that ends without a write.
LEMMA EndKeeps ==
  ASSUME IInv, NEW r \in Requests, rq' = [rq EXCEPT ![r] = NoSession],
         UNCHANGED <<report, attached, library>>,
         lock' = IF lock = r THEN None ELSE lock
  PROVE  SessionsFresh'
<1>1. TypeOK /\ version \in Nat \ {0}
  BY PublicationAssumption DEF IInv, TypeOK
<1>2. rq'[r] = NoSession
  BY <1>1 DEF TypeOK
<1>3. SessionFresh(r)'
  BY <1>1, <1>2, PublicationAssumption DEF SessionFresh, NoSession, report
<1>4. \A q \in Requests : q # r => rq'[q] = rq[q]
  BY <1>1 DEF TypeOK
<1> QED
  BY <1>3, <1>4, ReadKeeps

\* Every session that still holds the current version holds the current row.
LEMMA FreshStep == IInv /\ [Next]_vars => SessionsFresh'
<1> SUFFICES ASSUME IInv, [Next]_vars
             PROVE  SessionsFresh'
  OBVIOUS
<1>1. /\ TypeOK /\ SessionsFresh
      /\ version \in Nat \ {0}
  BY PublicationAssumption DEF IInv, TypeOK
<1>. USE DEF material
<1>2. UNCHANGED <<report, attached, library, lock, rq>> => SessionsFresh'
  BY <1>1 DEF report, SessionsFresh, SessionFresh
<1>2a. ASSUME NEW m \in library, DeleteMaterial(m)
      PROVE  SessionsFresh'
  BY <1>1, <1>2a DEF DeleteMaterial, report, SessionsFresh, SessionFresh
<1>3. ASSUME NEW r \in Requests, RequestStep(r)
      PROVE  SessionsFresh'
  <2>0. rq[r] \in Session /\ SessionFresh(r)
    BY <1>1 DEF TypeOK, SessionsFresh
  <2>1. rq[r].op # "frozen" /\ lock = lock' => lock # r
    BY <2>0 DEF SessionFresh
  <2>2. ASSUME NEW op \in {"edit", "attach", "cite", "tag", "publish"},
               Load(r, op),
               op = "attach" => status # "PUBLISHED",
               op = "publish" => status = "APPROVED"
        PROVE  SessionsFresh'
    <3>1. rq'[r] = [NoSession EXCEPT !.op = op, !.ver = version, !.text = content]
      BY <1>1, <2>2 DEF Load, TypeOK
    <3>2. SessionFresh(r)'
      BY <1>1, <2>0, <2>2, <3>1 DEF Load, SessionFresh, NoSession, report
    <3>3. \A q \in Requests : q # r => rq'[q] = rq[q]
      BY <1>1, <2>2 DEF Load, TypeOK
    <3> QED
      BY <2>2, <3>2, <3>3, ReadKeeps DEF Load
  <2>3. GiveUp(r) /\ rq[r].op # "frozen" => SessionsFresh'
    BY <2>1, EndKeeps DEF GiveUp
  <2>4. Commit(r) => SessionsFresh'
    BY RewriteKeeps DEF Commit, FreshWrite
  <2>5. SaveEdit(r) \/ CommitAttach(r) \/ CommitTag(r) \/ CommitMove(r)
          => SessionsFresh'
    BY <2>3, <2>4 DEF SaveEdit, CommitAttach, CommitTag, CommitMove, Stale
  <2>6. CommitCite(r) => SessionsFresh'
    BY <2>1, EndKeeps DEF CommitCite
  <2>7. ASSUME NEW u \in Users, NEW t \in Statuses, BeginMove(r, u, t)
        PROVE  SessionsFresh'
    <3>1. rq'[r] = [NoSession EXCEPT !.op = "move", !.ver = version,
                              !.text = content, !.target = t, !.by = u]
      BY <1>1, <2>7 DEF BeginMove, TypeOK
    <3>2. t = "APPROVED" => u \in Reviewers
      BY <1>1, <2>7 DEF BeginMove, MayMove
    <3>3. SessionFresh(r)'
      BY <1>1, <2>0, <2>7, <3>1, <3>2
        DEF BeginMove, SessionFresh, NoSession, report
    <3>4. \A q \in Requests : q # r => rq'[q] = rq[q]
      BY <1>1, <2>7 DEF BeginMove, TypeOK
    <3> QED
      BY <2>7, <3>3, <3>4, ReadKeeps DEF BeginMove
  <2>8. CheckPublish(r) => SessionsFresh'
    <3>1. ASSUME NEW a, rq[r].op = "publish", UNCHANGED <<report, attached, library, lock>>,
                 rq' = [rq EXCEPT ![r].op = "checked", ![r].audience = a]
          PROVE  SessionsFresh'
      <4>1. rq' = [rq EXCEPT ![r] = [rq[r] EXCEPT !.op = "checked", !.audience = a]]
        BY <1>1, <3>1 DEF TypeOK
      <4>2. /\ rq'[r].op = "checked"
            /\ rq'[r].ver = rq[r].ver /\ rq'[r].text = rq[r].text
        BY <1>1, <2>0, <4>1 DEF TypeOK, Session
      <4>3. SessionFresh(r)'
        BY <2>0, <3>1, <4>2 DEF SessionFresh, report
      <4>4. \A q \in Requests : q # r => rq'[q] = rq[q]
        BY <1>1, <4>1 DEF TypeOK
      <4> QED
        BY <3>1, <4>3, <4>4, ReadKeeps
    <3> QED
      BY <2>3, <3>1 DEF CheckPublish
  <2>9. FreezePublish(r) => SessionsFresh'
    <3>1. ASSUME rq[r].op = "checked", FreshWrite(r), lock' = r,
                 rq' = [rq EXCEPT ![r].op = "frozen", ![r].cited = cites,
                                  ![r].files = attached],
                 UNCHANGED <<report, attached, library>>
          PROVE  SessionsFresh'
      <4>1. rq' = [rq EXCEPT ![r] = [rq[r] EXCEPT !.op = "frozen", !.cited = cites,
                                                    !.files = attached]]
        BY <1>1, <3>1 DEF TypeOK
      <4>2. /\ rq'[r].op = "frozen" /\ rq'[r].files = attached /\ attached \subseteq library
            /\ rq'[r].ver = rq[r].ver /\ rq'[r].text = rq[r].text
        BY <1>1, <2>0, <4>1 DEF TypeOK, Session
      <4>3. SessionFresh(r)'
        BY <2>0, <3>1, <4>2 DEF SessionFresh, report, FreshWrite
      <4>4. \A q \in Requests : q # r => rq'[q] = rq[q]
        BY <1>1, <4>1 DEF TypeOK
      <4> QED
        BY <3>1, <4>3, <4>4, ReadKeeps DEF FreshWrite
    <3> QED
      BY <2>3, <3>1 DEF FreezePublish, Stale
  <2>10. CommitPublish(r) => SessionsFresh'
    BY <2>0, RewriteKeeps DEF CommitPublish, SessionFresh
  <2>11. Abandon(r) => SessionsFresh'
    BY EndKeeps DEF Abandon
  <2> QED
    BY <1>3, <2>2, <2>5, <2>6, <2>7, <2>8, <2>9, <2>10, <2>11
      DEF RequestStep, OpenEditor, BeginAttach, BeginCite, BeginTag,
          BeginPublish, Editable
<1> QED
  BY <1>2, <1>2a, <1>3 DEF Next, vars, ThreadChanges, RoutingChanges

-----------------------------------------------------------------------------
\* The row as the workflow sees it changes only by a fresh write: an edit of an
\* unpublished report, a move its status allows, or the publication of exactly
\* what the approved row says.
LEMMA RowSteps ==
  ASSUME IInv, [Next]_vars
  PROVE  \/ UNCHANGED <<status, content, reviewer, snapshot>>
         \/ /\ status # "PUBLISHED" /\ content' \in Contents
            /\ UNCHANGED <<status, reviewer, snapshot>>
         \/ /\ status' \in Allowed(status) \ {"PUBLISHED"}
            /\ reviewer' = CASE status' = "APPROVED" -> reviewer'
                              [] status' = "DRAFT" -> None
                              [] OTHER -> reviewer
            /\ status' = "APPROVED" => reviewer' \in Reviewers
            /\ UNCHANGED <<content, snapshot>>
         \/ /\ status = "APPROVED" /\ status' = "PUBLISHED"
            /\ snapshot' # None /\ snapshot'.text = content
            /\ UNCHANGED <<content, reviewer>>
<1>. USE DEF report, material, feed
<1>1. TypeOK /\ SessionsFresh
  BY DEF IInv
<1>2. ASSUME NEW r \in Requests, RequestStep(r),
             ~UNCHANGED <<status, content, reviewer, snapshot>>
      PROVE  \/ SaveEdit(r) \/ CommitAttach(r)
             \/ CommitMove(r) \/ CommitPublish(r)
  BY <1>2 DEF RequestStep, OpenEditor, BeginAttach, BeginCite, CommitCite,
    BeginTag, CommitTag, BeginMove, BeginPublish, CheckPublish, FreezePublish,
    Abandon, Load, GiveUp, Commit, Stale
<1>3. ASSUME NEW r \in Requests, SaveEdit(r) \/ CommitAttach(r)
      PROVE  \/ UNCHANGED <<status, content, reviewer, snapshot>>
             \/ /\ status # "PUBLISHED" /\ content' \in Contents
                /\ UNCHANGED <<status, reviewer, snapshot>>
  <2>1. SessionFresh(r)
    BY <1>1 DEF SessionsFresh
  <2> QED
    BY <1>3, <2>1 DEF SaveEdit, CommitAttach, Commit, FreshWrite, Stale, GiveUp,
      Editable, SessionFresh
<1>4. ASSUME NEW r \in Requests, CommitMove(r),
             ~UNCHANGED <<status, content, reviewer, snapshot>>
      PROVE  /\ status' \in Allowed(status) \ {"PUBLISHED"}
             /\ reviewer' = CASE status' = "APPROVED" -> reviewer'
                               [] status' = "DRAFT" -> None
                               [] OTHER -> reviewer
             /\ status' = "APPROVED" => reviewer' \in Reviewers
             /\ UNCHANGED <<content, snapshot>>
  <2>1. SessionFresh(r)
    BY <1>1 DEF SessionsFresh
  <2> QED
    BY <1>4, <2>1 DEF CommitMove, Commit, FreshWrite, Stale, GiveUp, SessionFresh
<1>5. ASSUME NEW r \in Requests, CommitPublish(r)
      PROVE  /\ status = "APPROVED" /\ status' = "PUBLISHED"
             /\ snapshot' # None /\ snapshot'.text = content
             /\ UNCHANGED <<content, reviewer>>
  <2>1. SessionFresh(r) /\ rq[r] \in Session
    BY <1>1 DEF SessionsFresh, TypeOK
  <2>2. rq[r].text = content /\ status = "APPROVED"
    BY <1>5, <2>1 DEF CommitPublish, SessionFresh
  <2>3. snapshot' \in [text : Contents, files : SUBSET Attachments,
                       cited : SUBSET Sources, audience : SUBSET Stakeholders]
    BY <1>1, <1>5, <2>1, <2>2 DEF CommitPublish, Session, TypeOK
  <2> QED
    BY <1>5, <2>2, <2>3, PublicationAssumption DEF CommitPublish
<1>6. ThreadChanges \/ RoutingChanges \/ UNCHANGED vars \/ (\E m \in library : DeleteMaterial(m))
        => UNCHANGED <<status, content, reviewer, snapshot>>
  BY DEF ThreadChanges, RoutingChanges, DeleteMaterial, vars
<1> QED
  BY <1>2, <1>3, <1>4, <1>5, <1>6 DEF Next

\* The list of files changes with the row, before publication, or loses what the
\* notebook loses; the publication froze it.
LEMMA FilesStep ==
  ASSUME IInv, [Next]_vars
  PROVE  \/ UNCHANGED <<attached, library, snapshot>>
         \/ status # "PUBLISHED" /\ UNCHANGED <<status, library, snapshot>>
         \/ /\ UNCHANGED snapshot
            /\ attached' = attached \cap library' /\ library' \subseteq library
         \/ UNCHANGED <<attached, library>> /\ attached = snapshot'.files \cap library
<1>. USE DEF report, material, feed
<1>1. TypeOK /\ SessionsFresh
  BY DEF IInv
<1>2. ASSUME NEW r \in Requests, CommitAttach(r)
      PROVE  \/ UNCHANGED <<attached, library, snapshot>>
             \/ status # "PUBLISHED" /\ UNCHANGED <<status, library, snapshot>>
  <2>1. SessionFresh(r)
    BY <1>1 DEF SessionsFresh
  <2> QED
    BY <1>2, <2>1 DEF CommitAttach, Commit, FreshWrite, Stale, GiveUp, SessionFresh
<1>3. ASSUME NEW r \in Requests, CommitPublish(r)
      PROVE  UNCHANGED <<attached, library>> /\ attached = snapshot'.files \cap library
  <2>1. SessionFresh(r)
    BY <1>1 DEF SessionsFresh
  <2> QED
    BY <1>3, <2>1 DEF CommitPublish, SessionFresh
<1>4. ASSUME NEW m \in library, DeleteMaterial(m)
      PROVE  /\ UNCHANGED snapshot
             /\ attached' = attached \cap library' /\ library' \subseteq library
  BY <1>1, <1>4 DEF DeleteMaterial, TypeOK
<1>5. ASSUME NEW r \in Requests, RequestStep(r), ~CommitAttach(r), ~CommitPublish(r)
      PROVE  UNCHANGED <<attached, library, snapshot>>
  BY <1>5 DEF RequestStep, OpenEditor, SaveEdit, BeginAttach, BeginCite, CommitCite,
    BeginTag, CommitTag, BeginMove, CommitMove, BeginPublish, CheckPublish,
    FreezePublish, Abandon, Load, GiveUp, Commit, Stale
<1>6. ThreadChanges \/ RoutingChanges \/ UNCHANGED vars
        => UNCHANGED <<attached, library, snapshot>>
  BY DEF ThreadChanges, RoutingChanges, vars
<1> QED
  BY <1>2, <1>3, <1>4, <1>5, <1>6 DEF Next

\* The snapshot is taken from the row, and the row never moves after it.
LEMMA SnapshotStep ==
  IInv /\ [Next]_vars => SnapshotIsTheReport'
<1> SUFFICES ASSUME IInv, [Next]_vars
             PROVE  SnapshotIsTheReport'
  OBVIOUS
<1>1. TypeOK /\ SnapshotIsTheReport
  BY DEF IInv
<1>2. /\ (snapshot' # None) = (status' = "PUBLISHED")
      /\ snapshot' # None => snapshot'.text = content'
  BY <1>1, RowSteps DEF SnapshotIsTheReport, Allowed, TypeOK, Statuses
<1>3. snapshot' # None => attached' = snapshot'.files \cap library'
  <2>1. snapshot # None => attached = snapshot.files \cap library
    BY <1>1 DEF SnapshotIsTheReport
  <2>2. status # "PUBLISHED" /\ UNCHANGED snapshot => snapshot' = None
    BY <1>1 DEF SnapshotIsTheReport
  <2> QED
    BY <2>1, <2>2, FilesStep
<1> QED
  BY <1>2, <1>3 DEF SnapshotIsTheReport

\* Only the publication writes the feed, and it writes the recorded audience.
LEMMA FeedStep ==
  IInv /\ [Next]_vars => FeedWithinRecord'
<1> SUFFICES ASSUME IInv, [Next]_vars
             PROVE  FeedWithinRecord'
  OBVIOUS
<1>. USE DEF report, feed
<1>1. TypeOK /\ SessionsFresh /\ SnapshotIsTheReport /\ FeedWithinRecord
  BY DEF IInv
<1>2. ASSUME NEW r \in Requests, CommitPublish(r)
      PROVE  FeedWithinRecord'
  <2>1. SessionFresh(r)
    BY <1>1 DEF SessionsFresh
  <2>2. events = {}
    BY <1>1, <1>2, <2>1 DEF CommitPublish, SessionFresh, FeedWithinRecord
  <2>3. events' = Delivered(r) /\ mail' = IF Demo THEN {} ELSE Delivered(r)
    BY <1>1, <1>2, <2>2 DEF CommitPublish, FeedWithinRecord, Notified
  <2>4. Delivered(r) \subseteq snapshot'.audience
    BY <1>2 DEF CommitPublish, Delivered
  <2> QED
    BY <1>2, <2>3, <2>4 DEF FeedWithinRecord, CommitPublish
<1>3. ASSUME ~\E r \in Requests : CommitPublish(r)
      PROVE  UNCHANGED feed
  BY <1>3 DEF Next, vars, ThreadChanges, RoutingChanges, DeleteMaterial, RequestStep, OpenEditor,
    SaveEdit, BeginAttach, CommitAttach, BeginCite, CommitCite, BeginTag,
    CommitTag, BeginMove, CommitMove, BeginPublish, CheckPublish, FreezePublish,
    Abandon, Load, GiveUp, Commit, Stale
<1>4. ASSUME UNCHANGED feed
      PROVE  FeedWithinRecord'
  <2>1. status = "PUBLISHED" <=> status' = "PUBLISHED"
    BY <1>1, <1>4, SnapshotStep DEF SnapshotIsTheReport
  <2> QED
    BY <1>1, <1>4, <2>1 DEF FeedWithinRecord
<1> QED
  BY <1>2, <1>3, <1>4

\* The inductive invariant holds in every reachable state.
THEOREM InductiveInvariant == Spec => []IInv
<1>1. Init => IInv
  <2> SUFFICES ASSUME Init
               PROVE  IInv
    OBVIOUS
  <2>1. TypeOK
    <3>1. rq \in [Requests -> Session] /\ version \in 1..MaxVersion
      BY NoSessionType, PublicationAssumption DEF Init
    <3> QED
      BY <3>1 DEF Init, TypeOK, Statuses
  <2>2. SessionsFresh
    BY PublicationAssumption
      DEF Init, SessionsFresh, SessionFresh, NoSession
  <2> QED
    BY <2>1, <2>2 DEF Init, IInv, SnapshotIsTheReport, FeedWithinRecord
<1>2. IInv /\ [Next]_vars => IInv'
  BY TypeStep, FreshStep, SnapshotStep, FeedStep DEF IInv
<1> QED
  BY <1>1, <1>2, PTL DEF Spec

\* Whatever the interleaving, the report row, the sessions and the feed keep
\* their types, and a report is only ever signed by a reviewer.
THEOREM TypeCorrect == Spec => []TypeOK
  BY InductiveInvariant, PTL DEF IInv

\* publication.publish freezes what was approved: no request that loaded the
\* report earlier can slip an edit in before or after the snapshot.
THEOREM ProductIsTheReport == Spec => []SnapshotIsTheReport
  BY InductiveInvariant, PTL DEF IInv

\* dissemination.disseminate delivers to nobody outside the audience recorded
\* in the snapshot, and mails exactly those it delivered to (nobody in the demo
\* workspace).
THEOREM DeliveryWithinRecord == Spec => []FeedWithinRecord
  BY InductiveInvariant, PTL DEF IInv

\* Concurrent requests implement the editorial workflow: every step of the row
\* is an edit, a submission, a decision or a publication of the sequential
\* workflow, or leaves it alone.
THEOREM ConcurrentWorkflow == Spec => RefinesLifecycle
<1>1. Init => Lifecycle!Init
  BY DEF Init, Lifecycle!Init, Product
<1>2. IInv /\ [Next]_vars => [Lifecycle!Next]_(Lifecycle!vars)
  <2> SUFFICES ASSUME IInv, [Next]_vars
               PROVE  [Lifecycle!Next]_(Lifecycle!vars)
    OBVIOUS
  <2>1. TypeOK /\ SnapshotIsTheReport
    BY DEF IInv
  <2>2. CASE UNCHANGED <<status, content, reviewer, snapshot>>
    BY <2>2 DEF Lifecycle!vars, Product
  <2>3. CASE /\ status # "PUBLISHED" /\ content' \in Contents
             /\ UNCHANGED <<status, reviewer, snapshot>>
    BY <2>3 DEF Lifecycle!Next, Lifecycle!Edit, Product
  <2>4. CASE /\ status' \in Allowed(status) \ {"PUBLISHED"}
             /\ reviewer' = CASE status' = "APPROVED" -> reviewer'
                               [] status' = "DRAFT" -> None
                               [] OTHER -> reviewer
             /\ status' = "APPROVED" => reviewer' \in Reviewers
             /\ UNCHANGED <<content, snapshot>>
    <3>1. Product' = Product
      BY <2>4 DEF Product
    <3>2. status \in {"DRAFT", "IN_REVIEW", "APPROVED", "PUBLISHED"}
      BY <2>1 DEF TypeOK, Statuses
    <3>3. CASE status = "DRAFT"
      BY <2>4, <3>1, <3>3 DEF Allowed, Lifecycle!Next, Lifecycle!Submit
    <3>4. CASE status = "IN_REVIEW"
      BY <2>4, <3>1, <3>4 DEF Allowed, Lifecycle!Next, Lifecycle!Approve,
        Lifecycle!Rework
    <3>5. CASE status = "APPROVED"
      BY <2>4, <3>1, <3>5 DEF Allowed, Lifecycle!Next, Lifecycle!Reconsider
    <3>6. CASE status = "PUBLISHED"
      BY <2>4, <3>6 DEF Allowed
    <3> QED
      BY <3>2, <3>3, <3>4, <3>5, <3>6
  <2>5. CASE /\ status = "APPROVED" /\ status' = "PUBLISHED"
             /\ snapshot' # None /\ snapshot'.text = content
             /\ UNCHANGED <<content, reviewer>>
    <3>1. Product' = content
      BY <2>5 DEF Product
    <3> QED
      BY <2>5, <3>1 DEF Lifecycle!Next, Lifecycle!Publish
  <2> QED
    BY <2>2, <2>3, <2>4, <2>5, RowSteps
<1> QED
  BY <1>1, <1>2, InductiveInvariant, PTL
    DEF Spec, RefinesLifecycle, Lifecycle!Spec

-----------------------------------------------------------------------------
(***************************************************************************)
(* What need-to-know audiences guarantee for any readers, groups, reports  *)
(* and requests: the groups of a report are those last assigned to it, and *)
(* mail goes to those who can open it, but for the races the histories     *)
(* crossed and moved remember.                                             *)
(***************************************************************************)

\* A deletion goes ahead on a group it found unused.
DeletionsFoundNothing == \A a \in InFlight : request[a].op = "delete" => request[a].of = {}

\* Whoever is about to be sent a report, or has a pending mail about it, was in
\* its audience when chosen, and still is unless the audience moved.
Aimed(q) == q.op = "publish" => q.to \subseteq Audience(q.r) \/ q.r \in moved
AimedAtTheAudience ==
  /\ \A a \in InFlight : Aimed(request[a])
  /\ \A m \in outgoing : m[1] \in Audience(m[2]) \/ m[2] \in moved

NeedInv ==
  /\ NeedTypeOK /\ ScopeOpensOnlyByRace /\ MailStraysOnlyAfterAMove
  /\ DeletionsFoundNothing /\ AimedAtTheAudience

-----------------------------------------------------------------------------
NeedRequests ==
  {NoRequest}
  \cup [op : {"members"}, g : Groups, from : SUBSET Readers, to : SUBSET Readers]
  \cup [op : {"scope"}, r : Reports, from : SUBSET Groups, to : SUBSET Groups]
  \cup [op : {"delete"}, g : Groups, of : SUBSET Reports]
  \cup [op : {"publish"}, r : Reports, to : SUBSET Readers]

\* A request has the fields of its operation.
LEMMA RequestFields ==
  ASSUME NEW q \in NeedRequests
  PROVE  /\ q.op = "members" => q.g \in Groups /\ q.from \subseteq Readers /\ q.to \subseteq Readers
         /\ q.op = "scope" => q.r \in Reports /\ q.from \subseteq Groups /\ q.to \subseteq Groups
         /\ q.op = "delete" => q.g \in Groups /\ q.of \subseteq Reports
         /\ q.op = "publish" => q.r \in Reports /\ q.to \subseteq Readers
  BY DEF NeedRequests, NoRequest

LEMMA InitInv == NeedInit => NeedInv
<1> SUFFICES ASSUME NeedInit PROVE NeedInv
  OBVIOUS
<1>1. NeedTypeOK
  BY DEF NeedInit, NeedTypeOK, NoRequest
<1>2. \A r \in Reports : Scope(r) = {}
  BY DEF NeedInit, Scope
<1>3. ScopeOpensOnlyByRace /\ MailStraysOnlyAfterAMove
  BY <1>2 DEF NeedInit, ScopeOpensOnlyByRace, MailStraysOnlyAfterAMove
<1>4. DeletionsFoundNothing /\ AimedAtTheAudience
  BY DEF NeedInit, NoRequest, DeletionsFoundNothing, AimedAtTheAudience, Aimed
<1>. QED  BY <1>1, <1>3, <1>4 DEF NeedInv

-----------------------------------------------------------------------------
(***************************************************************************)
(* Types                                                                   *)
(***************************************************************************)
LEMMA NeedTypeStep ==
  ASSUME NeedTypeOK, [NeedNext]_needVars
  PROVE  NeedTypeOK'
<1>1. CASE UNCHANGED needVars
  BY <1>1 DEF needVars, NeedTypeOK
<1>2. ASSUME NEW g \in Groups, NEW us \in SUBSET Readers, CreateGroup(g, us) PROVE NeedTypeOK'
  BY <1>2 DEF CreateGroup, NeedTypeOK
<1>3. ASSUME NEW a \in InFlight, NEW q \in NeedRequests, Start(a, q),
             UNCHANGED <<groups, member, scope, public, delivered, outgoing, asked,
                         crossed, moved, strayed>>
      PROVE  NeedTypeOK'
  BY <1>3 DEF Start, NeedTypeOK, NeedRequests
<1>4. ASSUME NEW a \in InFlight, End(a), NeedTypeOK
      PROVE  request' \in [InFlight -> NeedRequests]
  BY <1>4 DEF End, NeedTypeOK, NeedRequests
<1>5. ASSUME NEW a \in InFlight PROVE request[a] \in NeedRequests
  BY <1>5 DEF NeedTypeOK, NeedRequests
<1>6. ASSUME NEW a \in InFlight, Fail(a) PROVE NeedTypeOK'
  BY <1>6, <1>4 DEF Fail, NeedTypeOK, NeedRequests
<1>7. ASSUME NEW a \in InFlight, CommitMembers(a) PROVE NeedTypeOK'
  <2>1. /\ request[a].g \in Groups
        /\ request[a].from \subseteq Readers /\ request[a].to \subseteq Readers
    BY <1>7, <1>5, RequestFields DEF CommitMembers
  <2>2. member' \subseteq Readers \X groups
    BY <1>7, <2>1 DEF CommitMembers, Flushed, Flushable, NeedTypeOK
  <2>3. moved' \subseteq Reports
    BY <1>7 DEF CommitMembers, NoteMoves, NeedTypeOK
  <2>. QED  BY <1>7, <1>4, <2>2, <2>3 DEF CommitMembers, NeedTypeOK, NeedRequests
<1>8. ASSUME NEW a \in InFlight, CommitScope(a) PROVE NeedTypeOK'
  <2>1. /\ request[a].r \in Reports
        /\ request[a].from \subseteq Groups /\ request[a].to \subseteq Groups
    BY <1>8, <1>5, RequestFields DEF CommitScope
  <2>2. Scope(request[a].r) \subseteq groups
    BY <2>1 DEF Scope, NeedTypeOK
  <2>3. scope' \subseteq Reports \X groups
    BY <1>8, <2>1, <2>2 DEF CommitScope, Flushed, Flushable, NeedTypeOK
  <2>4. moved' \subseteq Reports /\ crossed' \subseteq Reports
    BY <1>8, <2>1 DEF CommitScope, NoteMoves, NeedTypeOK
  <2>5. asked' \in [Reports -> SUBSET Groups]
    BY <1>8, <2>1 DEF CommitScope, NeedTypeOK
  <2>. QED  BY <1>8, <1>4, <2>3, <2>4, <2>5 DEF CommitScope, NeedTypeOK, NeedRequests
<1>9. ASSUME NEW a \in InFlight, CommitGroupDeletion(a) PROVE NeedTypeOK'
  <2>1. member' \subseteq Readers \X groups' /\ scope' \subseteq Reports \X groups'
    BY <1>9 DEF CommitGroupDeletion, NeedTypeOK
  <2>2. moved' \subseteq Reports /\ crossed' \subseteq Reports /\ groups' \subseteq Groups
    BY <1>9 DEF CommitGroupDeletion, NoteMoves, NeedTypeOK
  <2>. QED  BY <1>9, <1>4, <2>1, <2>2 DEF CommitGroupDeletion, NeedTypeOK, NeedRequests
<1>10. ASSUME NEW a \in InFlight, CommitPublication(a) PROVE NeedTypeOK'
  <2>1. request[a].r \in Reports /\ request[a].to \subseteq Readers
    BY <1>10, <1>5, RequestFields DEF CommitPublication
  <2>. QED  BY <1>10, <1>4, <2>1 DEF CommitPublication, NeedTypeOK, NeedRequests
<1>11. ASSUME NEW u \in Readers, NEW r \in Reports, SendMail(u, r) PROVE NeedTypeOK'
  BY <1>11 DEF SendMail, NeedTypeOK
<1>12. ASSUME NEW a \in InFlight, NEW g \in Groups, NEW us \in SUBSET Readers,
              BeginMembers(a, g, us)
       PROVE  NeedTypeOK'
  BY <1>12, <1>3 DEF BeginMembers, NeedRequests
<1>13. ASSUME NEW a \in InFlight, NEW r \in Reports, NEW gs \in SUBSET Groups,
              BeginScope(a, r, gs)
       PROVE  NeedTypeOK'
  BY <1>13, <1>3 DEF BeginScope, NeedRequests, Scope
<1>14. ASSUME NEW a \in InFlight, NEW g \in Groups, BeginGroupDeletion(a, g) PROVE NeedTypeOK'
  BY <1>14, <1>3 DEF BeginGroupDeletion, NeedRequests
<1>15. ASSUME NEW a \in InFlight, NEW r \in Reports, BeginPublication(a, r) PROVE NeedTypeOK'
  BY <1>15, <1>3 DEF BeginPublication, NeedRequests, Matched, Audience
<1>. QED
  BY <1>1, <1>2, <1>6, <1>7, <1>8, <1>9, <1>10, <1>11, <1>12, <1>13, <1>14, <1>15 DEF NeedNext

-----------------------------------------------------------------------------
(***************************************************************************)
(* The groups of a report                                                  *)
(***************************************************************************)
\* A request that begins adds nothing to what the others have found.
LEMMA DeletionsStep ==
  ASSUME NeedTypeOK, DeletionsFoundNothing, [NeedNext]_needVars
  PROVE  DeletionsFoundNothing'
<1>1. ASSUME NEW a \in InFlight, End(a) PROVE DeletionsFoundNothing'
  BY <1>1 DEF End, NeedTypeOK, NoRequest, DeletionsFoundNothing
<1>2. ASSUME NEW a \in InFlight, NEW g \in Groups, BeginGroupDeletion(a, g)
      PROVE  DeletionsFoundNothing'
  BY <1>2 DEF BeginGroupDeletion, Unreferenced, Start, NeedTypeOK, DeletionsFoundNothing
<1>3. ASSUME NEW a \in InFlight, NEW q, q.op # "delete", Start(a, q) PROVE DeletionsFoundNothing'
  BY <1>3 DEF Start, NeedTypeOK, DeletionsFoundNothing
<1>4. ASSUME NEW a \in InFlight, NEW g \in Groups, NEW us \in SUBSET Readers,
             BeginMembers(a, g, us)
      PROVE  DeletionsFoundNothing'
  BY <1>4, <1>3 DEF BeginMembers
<1>5. ASSUME NEW a \in InFlight, NEW r \in Reports, NEW gs \in SUBSET Groups,
             BeginScope(a, r, gs)
      PROVE  DeletionsFoundNothing'
  BY <1>5, <1>3 DEF BeginScope
<1>6. ASSUME NEW a \in InFlight, NEW r \in Reports, BeginPublication(a, r)
      PROVE  DeletionsFoundNothing'
  BY <1>6, <1>3 DEF BeginPublication
<1>7. CASE UNCHANGED request
  BY <1>7 DEF DeletionsFoundNothing
<1>. QED
  BY <1>1, <1>2, <1>4, <1>5, <1>6, <1>7
     DEF NeedNext, needVars, Fail, CommitMembers, CommitScope, CommitGroupDeletion,
         CommitPublication, CreateGroup, SendMail

\* The scope of a report changes by assignment, or by the deletion of a group
\* that was not in it when its deletion began, and then crossed tells.
LEMMA ScopeStep ==
  ASSUME NeedTypeOK, ScopeOpensOnlyByRace, DeletionsFoundNothing, [NeedNext]_needVars
  PROVE  ScopeOpensOnlyByRace'
<1>1. CASE UNCHANGED <<scope, asked, crossed>>
  BY <1>1 DEF ScopeOpensOnlyByRace, Scope
<1>2. ASSUME NEW a \in InFlight, CommitScope(a) PROVE ScopeOpensOnlyByRace'
  <2>. PICK s : s = request[a].r
    OBVIOUS
  <2>1. s \in Reports /\ request[a].from \subseteq Groups /\ request[a].to \subseteq Groups
    BY <1>2, RequestFields DEF CommitScope, NeedTypeOK, NeedRequests
  <2>2. \A r \in Reports \ {s} : Scope(r)' = Scope(r) /\ asked'[r] = asked[r]
                                 /\ (r \in crossed' <=> r \in crossed)
    BY <1>2, <2>1 DEF CommitScope, Scope, NeedTypeOK
  <2>3. Scope(s)' = Flushed(Scope(s), request[a].from, request[a].to)
    BY <1>2, <2>1 DEF CommitScope, Scope, Flushed
  <2>4. asked'[s] = request[a].to
    BY <1>2, <2>1 DEF CommitScope, NeedTypeOK
  <2>5. CASE request[a].from = Scope(s)
    <3>1. Scope(s)' = request[a].to
      BY <2>3, <2>5 DEF Flushed
    <3>. QED  BY <3>1, <2>2, <2>4 DEF ScopeOpensOnlyByRace
  <2>6. CASE request[a].from # Scope(s)
    <3>1. s \in crossed'
      BY <1>2, <2>6 DEF CommitScope
    <3>. QED  BY <3>1, <2>2 DEF ScopeOpensOnlyByRace
  <2>. QED  BY <2>5, <2>6
<1>3. ASSUME NEW a \in InFlight, CommitGroupDeletion(a) PROVE ScopeOpensOnlyByRace'
  <2>1. request[a].of = {}
    BY <1>3 DEF CommitGroupDeletion, DeletionsFoundNothing
  <2>2. SUFFICES ASSUME NEW r \in Reports, Scope(r)' # asked'[r] PROVE r \in crossed'
    BY DEF ScopeOpensOnlyByRace
  <2>3. CASE <<r, request[a].g>> \in scope
    BY <1>3, <2>1, <2>3 DEF CommitGroupDeletion
  <2>4. CASE <<r, request[a].g>> \notin scope
    <3>1. Scope(r)' = Scope(r)
      BY <1>3, <2>4 DEF CommitGroupDeletion, Scope
    <3>. QED  BY <1>3, <2>2, <3>1 DEF CommitGroupDeletion, ScopeOpensOnlyByRace
  <2>. QED  BY <2>3, <2>4
<1>. QED
  BY <1>1, <1>2, <1>3
     DEF NeedNext, needVars, Fail, CommitMembers, CommitPublication, CreateGroup, SendMail,
         BeginMembers, BeginScope, BeginGroupDeletion, BeginPublication

-----------------------------------------------------------------------------
(***************************************************************************)
(* Mail                                                                    *)
(***************************************************************************)
\* A group that is created is in no report's scope yet.
LEMMA CreationMovesNobody ==
  ASSUME NeedTypeOK, NEW g \in Groups, NEW us \in SUBSET Readers, CreateGroup(g, us),
         NEW r \in Reports
  PROVE  Audience(r)' = Audience(r)
<1>1. Scope(r)' = Scope(r) /\ g \notin Scope(r)
  BY DEF CreateGroup, Scope, NeedTypeOK
<1>2. \A u \in Readers : Belongs(u)' \ {g} = Belongs(u) \ {g}
  BY DEF CreateGroup, Belongs
<1>3. \A u \in Readers : Visible(u, r)' <=> Visible(u, r)
  BY <1>1, <1>2 DEF Visible
<1>. QED  BY <1>3 DEF Audience

\* Whoever's audience changes while it goes out is noted.
LEMMA MovesAreNoted ==
  ASSUME NeedTypeOK, [NeedNext]_needVars, NEW r \in Reports, GoingOut(r), r \notin moved'
  PROVE  r \notin moved /\ Audience(r)' = Audience(r)
<1>1. CASE NoteMoves
  BY <1>1 DEF NoteMoves
<1>2. CASE UNCHANGED <<member, scope, moved>>
  BY <1>2 DEF Audience, Visible, Scope, Belongs
<1>3. ASSUME NEW g \in Groups, NEW us \in SUBSET Readers, CreateGroup(g, us)
      PROVE  r \notin moved /\ Audience(r)' = Audience(r)
  BY <1>3, CreationMovesNobody DEF CreateGroup
<1>. QED
  BY <1>1, <1>2, <1>3
     DEF NeedNext, needVars, Fail, CommitMembers, CommitScope, CommitGroupDeletion,
         CommitPublication, SendMail, BeginMembers, BeginScope, BeginGroupDeletion,
         BeginPublication

\* An aim stays good while its report is going out.
LEMMA AimStep ==
  ASSUME NeedTypeOK, AimedAtTheAudience, [NeedNext]_needVars
  PROVE  AimedAtTheAudience'
<1>1. ASSUME NEW a \in InFlight, NEW q, q = request[a] PROVE Aimed(q)'
  <2>1. q.op = "publish" => q.r \in Reports /\ GoingOut(q.r)
    BY <1>1, RequestFields DEF NeedTypeOK, NeedRequests, GoingOut
  <2>. QED  BY <1>1, <2>1, MovesAreNoted DEF AimedAtTheAudience, Aimed
<1>2. ASSUME NEW m \in outgoing PROVE m[1] \in Audience(m[2])' \/ m[2] \in moved'
  <2>1. m[2] \in Reports /\ GoingOut(m[2])
    BY <1>2 DEF NeedTypeOK, GoingOut
  <2>. QED  BY <1>2, <2>1, MovesAreNoted DEF AimedAtTheAudience
<1>3. ASSUME NEW m \in outgoing' PROVE m[1] \in Audience(m[2])' \/ m[2] \in moved'
  <2>1. CASE m \in outgoing
    BY <1>2, <2>1
  <2>2. ASSUME NEW a \in InFlight, CommitPublication(a), m \notin outgoing
        PROVE  m[1] \in Audience(m[2])' \/ m[2] \in moved'
    <3>1. PICK q : q = request[a]
      OBVIOUS
    <3>2. q.op = "publish" /\ m[1] \in q.to /\ m[2] = q.r
      BY <1>3, <2>2, <3>1 DEF CommitPublication
    <3>. QED  BY <1>1, <3>1, <3>2 DEF Aimed
  <2>3. ASSUME NEW u \in Readers, NEW r \in Reports, SendMail(u, r) PROVE m \in outgoing
    BY <1>3, <2>3 DEF SendMail
  <2>. QED
    BY <1>3, <2>1, <2>2, <2>3
       DEF NeedNext, needVars, Fail, CommitMembers, CommitScope, CommitGroupDeletion,
           CreateGroup, BeginMembers, BeginScope, BeginGroupDeletion, BeginPublication
<1>4. ASSUME NEW b \in InFlight, NEW q, q = request'[b], request'[b] # request[b] PROVE Aimed(q)'
  <2>1. ASSUME NEW a \in InFlight, End(a) PROVE q = NoRequest
    BY <1>4, <2>1 DEF End, NeedTypeOK
  <2>2. ASSUME NEW a \in InFlight, NEW p, Start(a, p) PROVE q = p
    BY <1>4, <2>2 DEF Start, NeedTypeOK
  <2>3. q.op # "publish" => Aimed(q)'
    BY DEF Aimed
  <2>4. ASSUME NEW a \in InFlight, NEW g \in Groups, NEW us \in SUBSET Readers,
               BeginMembers(a, g, us)
        PROVE  q.op # "publish"
    BY <2>4, <2>2 DEF BeginMembers
  <2>5. ASSUME NEW a \in InFlight, NEW r \in Reports, NEW gs \in SUBSET Groups,
               BeginScope(a, r, gs)
        PROVE  q.op # "publish"
    BY <2>5, <2>2 DEF BeginScope
  <2>6. ASSUME NEW a \in InFlight, NEW g \in Groups, BeginGroupDeletion(a, g)
        PROVE  q.op # "publish"
    BY <2>6, <2>2 DEF BeginGroupDeletion
  <2>7. ASSUME NEW a \in InFlight, NEW r \in Reports, BeginPublication(a, r) PROVE Aimed(q)'
    <3>1. q = [op |-> "publish", r |-> r, to |-> Audience(r)]
      BY <2>7, <2>2 DEF BeginPublication, Matched
    <3>2. Audience(r)' = Audience(r)
      BY <2>7 DEF BeginPublication, Audience, Visible, Scope, Belongs
    <3>. QED  BY <3>1, <3>2 DEF Aimed
  <2>8. NoRequest.op # "publish"
    BY DEF NoRequest
  <2>. QED
    BY <1>4, <2>1, <2>3, <2>4, <2>5, <2>6, <2>7, <2>8
       DEF NeedNext, needVars, Fail, CommitMembers, CommitScope, CommitGroupDeletion,
           CommitPublication, CreateGroup, SendMail
<1>5. ASSUME NEW b \in InFlight, NEW q, q = request'[b] PROVE Aimed(q)'
  BY <1>1, <1>4, <1>5
<1>6. (\A a \in InFlight : Aimed(request[a]))'
  BY <1>5 DEF Aimed
<1>. QED  BY <1>3, <1>6 DEF AimedAtTheAudience

\* Mail goes to someone outside the audience only where it had moved.
LEMMA MailStep ==
  ASSUME NeedTypeOK, MailStraysOnlyAfterAMove, AimedAtTheAudience, [NeedNext]_needVars
  PROVE  MailStraysOnlyAfterAMove'
<1>1. moved \subseteq moved'
  BY DEF NeedNext, needVars, Fail, CommitMembers, CommitScope, CommitGroupDeletion,
         CommitPublication, CreateGroup, SendMail, BeginMembers, BeginScope,
         BeginGroupDeletion, BeginPublication, NoteMoves
<1>2. CASE UNCHANGED strayed
  BY <1>1, <1>2 DEF MailStraysOnlyAfterAMove
<1>3. ASSUME NEW u \in Readers, NEW r \in Reports, SendMail(u, r)
      PROVE  MailStraysOnlyAfterAMove'
  <2>1. r \in public /\ <<u, r>> \in delivered
    BY <1>3 DEF SendMail, NeedTypeOK
  <2>2. r \notin Feed(u) => r \in moved
    BY <1>3, <2>1 DEF SendMail, Feed, AimedAtTheAudience, Audience
  <2>. QED  BY <1>1, <1>3, <2>2 DEF SendMail, MailStraysOnlyAfterAMove
<1>. QED
  BY <1>2, <1>3
     DEF NeedNext, needVars, Fail, CommitMembers, CommitScope, CommitGroupDeletion,
         CommitPublication, CreateGroup, BeginMembers, BeginScope, BeginGroupDeletion,
         BeginPublication

-----------------------------------------------------------------------------
(***************************************************************************)
(* Theorems                                                                *)
(***************************************************************************)
\* Whatever requests meet, the invariant stands.
THEOREM NeedInvariant == NeedSpec => []NeedInv
<1>1. NeedInv /\ [NeedNext]_needVars => NeedInv'
  BY NeedTypeStep, DeletionsStep, ScopeStep, AimStep, MailStep DEF NeedInv
<1>. QED  BY InitInv, <1>1, PTL DEF NeedSpec

\* The rows of need-to-know keep their types, and refer to groups that exist.
THEOREM NeedTypeCorrect == NeedSpec => []NeedTypeOK
<1>1. NeedInv => NeedTypeOK
  BY DEF NeedInv
<1>. QED  BY NeedInvariant, <1>1, PTL

\* A report is limited to the groups last assigned to it, but for a race
\* (audience.set_report_audience, delete_group).
THEOREM ScopeIsAsAssigned == NeedSpec => []ScopeOpensOnlyByRace
<1>1. NeedInv => ScopeOpensOnlyByRace
  BY DEF NeedInv
<1>. QED  BY NeedInvariant, <1>1, PTL

\* Mail strays only after the audience moved (jobs._run_email_job).
THEOREM MailWithinTheAudience == NeedSpec => []MailStraysOnlyAfterAMove
<1>1. NeedInv => MailStraysOnlyAfterAMove
  BY DEF NeedInv
<1>. QED  BY NeedInvariant, <1>1, PTL

-----------------------------------------------------------------------------
(***************************************************************************)
(* Labels.  What a worker has loaded, and what it is about to write, was   *)
(* labelled with the provider that made it and with a version its report   *)
(* has had; so a row updated column by column is labelled right too.       *)
(***************************************************************************)
Labelled(e, r) == e # NoEntry => e.by = e.vector /\ e.version \in 1..revision[r]

MaybeEntries == Entries \cup {NoEntry}
EntryMaps == UNION {[S -> MaybeEntries] : S \in SUBSET ReportIds}

WorkerStates ==
  {Off}
  \cup [at : {"upsert"}, r : ReportIds, v : Providers \cup {Disabled}]
  \cup [at : {"rank"}, r : ReportIds, v : Providers]
  \cup [at : {"save"}, r : ReportIds, v : Providers, old : MaybeEntries, new : Entries]
  \cup [at : {"prune"}, v : Providers \cup {Disabled}, seen : SUBSET ReportIds]
  \cup [at : {"choose"}, v : Providers \cup {Disabled}]
  \cup [at : {"write"}, v : Providers, old : EntryMaps, new : EntryMaps]

LabelledWork(q) ==
  /\ q.at = "upsert" => q.r \in Published
  /\ q.at = "save" => Labelled(q.old, q.r) /\ Labelled(q.new, q.r)
  /\ q.at = "write" =>
       /\ DOMAIN q.new = DOMAIN q.old
       /\ \A r \in DOMAIN q.old :
            Labelled(q.old[r], r) /\ q.new[r] \in Entries /\ Labelled(q.new[r], r)

RelatedInv ==
  /\ RelatedTypeOK /\ worker \in [Workers -> WorkerStates]
  /\ \A r \in ReportIds : Labelled(entry[r], r)
  /\ \A w \in Workers : LabelledWork(worker[w])

-----------------------------------------------------------------------------
LEMMA WorkerFields ==
  ASSUME NEW q \in WorkerStates
  PROVE  /\ q.at \in {"off", "upsert", "save", "rank", "prune", "choose", "write"}
         /\ q.at = "upsert" => q.r \in ReportIds /\ q.v \in Providers \cup {Disabled}
         /\ q.at = "rank" => q.r \in ReportIds /\ q.v \in Providers
         /\ q.at = "save" => /\ q.r \in ReportIds /\ q.v \in Providers
                             /\ q.old \in MaybeEntries /\ q.new \in Entries
         /\ q.at = "prune" => q.v \in Providers \cup {Disabled} /\ q.seen \in SUBSET ReportIds
         /\ q.at = "choose" => q.v \in Providers \cup {Disabled}
         /\ q.at = "write" => q.v \in Providers /\ q.old \in EntryMaps /\ q.new \in EntryMaps
  BY DEF WorkerStates, Off

LEMMA EntryMapValues ==
  ASSUME NEW m \in EntryMaps
  PROVE  DOMAIN m \subseteq ReportIds /\ \A r \in DOMAIN m : m[r] \in MaybeEntries
<1>1. PICK S \in SUBSET ReportIds : m \in [S -> MaybeEntries]
  BY DEF EntryMaps
<1>. QED  BY <1>1

\* What a provider makes now is labelled right.
LEMMA AppliedIsLabelled ==
  ASSUME RelatedTypeOK, NEW r \in Published, NEW v \in Providers, NEW old
  PROVE  Applied(old, v, revision[r]) \in Entries /\ Labelled(Applied(old, v, revision[r]), r)
  BY RelatedAssumption DEF RelatedTypeOK, Published, Applied, Entries, Labelled

\* A row written column by column mixes two labels only where they agree.
LEMMA WrittenIsLabelled ==
  ASSUME NEW r \in ReportIds, entry[r] \in MaybeEntries, Labelled(entry[r], r),
         NEW old \in MaybeEntries, Labelled(old, r),
         NEW new \in Entries, Labelled(new, r), RowFits(r, old)
  PROVE  RowWritten(r, old, new) \in Entries /\ Labelled(RowWritten(r, old, new), r)
<1>0. new # NoEntry
  BY DEF Entries, NoEntry
<1>1. CASE old = NoEntry
  BY <1>1 DEF RowWritten
<1>2. CASE old # NoEntry
  <2>1. old \in Entries /\ entry[r] \in Entries /\ entry[r] # NoEntry
    BY <1>2 DEF RowFits, MaybeEntries
  <2>. DEFINE row == RowWritten(r, old, new)
              Mixed(n, o, e) == IF n # o THEN n ELSE e
  <2>2. DOMAIN new = {"by", "version", "vector"}
    BY DEF Entries
  <2>3. row = [f \in {"by", "version", "vector"} |-> IF new[f] # old[f] THEN new[f] ELSE entry[r][f]]
    BY <1>2, <2>2 DEF RowWritten
  <2>4. row = [by |-> Mixed(new.by, old.by, entry[r].by),
               version |-> Mixed(new.version, old.version, entry[r].version),
               vector |-> Mixed(new.vector, old.vector, entry[r].vector)]
    BY <2>3
  <2>5. /\ Mixed(new.by, old.by, entry[r].by) \in Providers
        /\ Mixed(new.version, old.version, entry[r].version) \in 1..MaxRevision
        /\ Mixed(new.vector, old.vector, entry[r].vector) \in Providers
    BY <2>1 DEF Entries
  <2>6. row \in Entries
    BY <2>4, <2>5 DEF Entries
  <2>7. /\ Mixed(new.by, old.by, entry[r].by) = Mixed(new.vector, old.vector, entry[r].vector)
        /\ Mixed(new.version, old.version, entry[r].version) \in 1..revision[r]
    BY <1>0, <1>2, <2>1 DEF Labelled
  <2>8. row.by = row.vector /\ row.version \in 1..revision[r]
    BY <2>4, <2>7
  <2>. QED  BY <2>6, <2>8 DEF Labelled
<1>. QED  BY <1>1, <1>2

LEMMA RelatedInitInv == RelatedInit => RelatedInv
<1> SUFFICES ASSUME RelatedInit PROVE RelatedInv
  OBVIOUS
<1>1. RelatedTypeOK /\ worker \in [Workers -> WorkerStates]
  <2>1. 0 \in 0..MaxRevision
    BY RelatedAssumption
  <2>. QED  BY <2>1 DEF RelatedInit, RelatedTypeOK, WorkerStates, Off
<1>2. \A w \in Workers : LabelledWork(worker[w])
  BY DEF RelatedInit, LabelledWork, Off
<1>. QED  BY <1>1, <1>2 DEF RelatedInit, RelatedInv, Labelled

-----------------------------------------------------------------------------
\* Labels stay right while versions only grow.
LEMMA LabelsLast ==
  ASSUME RelatedInv, RelatedTypeOK', \A r \in ReportIds : revision'[r] >= revision[r]
  PROVE  /\ \A r \in ReportIds, e \in MaybeEntries : Labelled(e, r) => Labelled(e, r)'
         /\ \A q \in WorkerStates : LabelledWork(q) => LabelledWork(q)'
<1>1. \A r \in ReportIds, e \in MaybeEntries : Labelled(e, r) => Labelled(e, r)'
  <2>1. SUFFICES ASSUME NEW r \in ReportIds, NEW e \in MaybeEntries, Labelled(e, r), e # NoEntry
                 PROVE  e.by = e.vector /\ e.version \in 1..revision'[r]
    BY DEF Labelled
  <2>2. revision[r] \in Nat /\ revision'[r] \in Nat /\ revision'[r] >= revision[r]
    BY RelatedAssumption DEF RelatedInv, RelatedTypeOK
  <2>. QED  BY <2>1, <2>2 DEF Labelled
<1>2. ASSUME NEW q \in WorkerStates, LabelledWork(q) PROVE LabelledWork(q)'
  <2>1. q.at = "upsert" => q.r \in Published'
    <3>1. q.at = "upsert" => revision'[q.r] >= revision[q.r] /\ revision[q.r] > 0
                             /\ revision[q.r] \in Nat /\ revision'[q.r] \in Nat /\ q.r \in ReportIds
      <4>1. q.at = "upsert" => q.r \in ReportIds /\ revision[q.r] > 0
        BY <1>2 DEF LabelledWork, Published
      <4>2. \A r \in ReportIds : revision[r] \in Nat /\ revision'[r] \in Nat
        BY RelatedAssumption DEF RelatedInv, RelatedTypeOK
      <4>. QED  BY <4>1, <4>2
    <3>. QED  BY <3>1 DEF Published
  <2>2. q.at = "save" => Labelled(q.old, q.r)' /\ Labelled(q.new, q.r)'
    BY <1>1, <1>2, WorkerFields DEF LabelledWork, MaybeEntries
  <2>3. ASSUME q.at = "write", NEW r \in DOMAIN q.old
        PROVE  Labelled(q.old[r], r)' /\ q.new[r] \in Entries /\ Labelled(q.new[r], r)'
    <3>1. r \in ReportIds /\ q.old[r] \in MaybeEntries /\ q.new[r] \in Entries
      BY <1>2, <2>3, WorkerFields, EntryMapValues DEF LabelledWork
    <3>. QED  BY <1>1, <1>2, <2>3, <3>1 DEF LabelledWork, MaybeEntries
  <2>. QED  BY <1>2, <2>1, <2>2, <2>3 DEF LabelledWork
<1>. QED  BY <1>1, <1>2

\* A step that grows versions, or none, and leaves one worker with work that is
\* labelled, and entries that are.
LEMMA WorkerMoves ==
  ASSUME RelatedInv, NEW w \in Workers, NEW q \in WorkerStates, Go(w, q), LabelledWork(q)',
         revision' \in [ReportIds -> 0..MaxRevision],
         \A r \in ReportIds : revision'[r] >= revision[r],
         entry' \in [ReportIds -> MaybeEntries], \A r \in ReportIds : Labelled(entry'[r], r),
         mixed' \in BOOLEAN
  PROVE  RelatedInv'
<1>1. worker' \in [Workers -> WorkerStates]
  BY DEF RelatedInv, Go
<1>2. RelatedTypeOK'
  BY <1>1, WorkerFields DEF RelatedTypeOK, MaybeEntries
<1>3. \A u \in Workers : LabelledWork(worker[u])'
  <2>1. SUFFICES ASSUME NEW u \in Workers PROVE LabelledWork(worker[u])'
    OBVIOUS
  <2>2. PICK x : x = worker'[u]
    OBVIOUS
  <2>3. x = IF u = w THEN q ELSE worker[u]
    BY <2>2 DEF Go, RelatedInv
  <2>4. LabelledWork(x)'
    <3>1. CASE u = w
      BY <2>3, <3>1
    <3>2. CASE u # w
      <4>1. x \in WorkerStates /\ LabelledWork(x)
        BY <2>3, <3>2 DEF RelatedInv
      <4>. QED  BY <1>2, <4>1, LabelsLast
    <3>. QED  BY <3>1, <3>2
  <2>. QED  BY <2>2, <2>4 DEF LabelledWork
<1>4. \A r \in ReportIds : Labelled(entry[r], r)'
  <2>1. SUFFICES ASSUME NEW r \in ReportIds PROVE Labelled(entry[r], r)'
    OBVIOUS
  <2>2. PICK e : e = entry'[r]
    OBVIOUS
  <2>3. e \in MaybeEntries /\ Labelled(e, r)
    BY <2>2
  <2>4. Labelled(e, r)'
    BY <1>2, <2>3, LabelsLast
  <2>. QED  BY <2>2, <2>4 DEF Labelled
<1>. QED  BY <1>1, <1>2, <1>3, <1>4 DEF RelatedInv

LEMMA RelatedStep == RelatedInv /\ [RelatedNext]_relatedVars => RelatedInv'
<1> SUFFICES ASSUME RelatedInv, [RelatedNext]_relatedVars PROVE RelatedInv'
  OBVIOUS
<1>. /\ revision \in [ReportIds -> 0..MaxRevision]
     /\ entry \in [ReportIds -> MaybeEntries] /\ mixed \in BOOLEAN
     /\ worker \in [Workers -> WorkerStates]
     /\ \A r \in ReportIds : Labelled(entry[r], r)
     /\ \A w \in Workers : LabelledWork(worker[w])
     /\ RelatedTypeOK
  BY DEF RelatedInv, RelatedTypeOK, MaybeEntries
<1>0. \A r \in ReportIds : revision[r] >= revision[r]
  BY RelatedAssumption
\* A worker's step that writes no row.
<1>1. ASSUME NEW w \in Workers, NEW q \in WorkerStates, Go(w, q), LabelledWork(q),
             UNCHANGED <<revision, entry>>, mixed' \in BOOLEAN
      PROVE  RelatedInv'
  <2>1. LabelledWork(q)'
    BY <1>1 DEF LabelledWork, Labelled, Published
  <2>. QED  BY <1>0, <1>1, <2>1, WorkerMoves
<1>2. Off \in WorkerStates /\ LabelledWork(Off)
  BY DEF WorkerStates, LabelledWork, Off
<1>3. CASE UNCHANGED relatedVars
  BY <1>3 DEF relatedVars, RelatedInv, RelatedTypeOK, Labelled, LabelledWork, Published
<1>4. ASSUME NEW r \in ReportIds, Retag(r) PROVE RelatedInv'
  <2>1. /\ revision' \in [ReportIds -> 0..MaxRevision]
        /\ \A s \in ReportIds : revision'[s] >= revision[s]
    BY <1>4, RelatedAssumption DEF Retag
  <2>2. RelatedTypeOK'
    BY <1>4, <2>1 DEF Retag, RelatedTypeOK
  <2>3. \A s \in ReportIds : Labelled(entry[s], s)'
    <3>1. SUFFICES ASSUME NEW s \in ReportIds PROVE Labelled(entry[s], s)'
      OBVIOUS
    <3>2. PICK e : e = entry[s]
      OBVIOUS
    <3>3. Labelled(e, s)'
      BY <2>1, <2>2, <3>2, LabelsLast
    <3>. QED  BY <1>4, <3>2, <3>3 DEF Retag, Labelled
  <2>4. \A u \in Workers : LabelledWork(worker[u])'
    <3>1. SUFFICES ASSUME NEW u \in Workers PROVE LabelledWork(worker[u])'
      OBVIOUS
    <3>2. PICK x : x = worker[u]
      OBVIOUS
    <3>3. LabelledWork(x)'
      BY <2>1, <2>2, <3>2, LabelsLast
    <3>4. worker' = worker
      BY <1>4 DEF Retag
    <3>. QED  BY <3>2, <3>3, <3>4 DEF LabelledWork
  <2>. QED  BY <1>4, <2>2, <2>3, <2>4 DEF Retag, RelatedInv
<1>5. ASSUME NEW w \in Workers, LoadEntry(w) PROVE RelatedInv'
  <2>1. PICK r, v : r = worker[w].r /\ v = worker[w].v
    OBVIOUS
  <2>2. r \in Published /\ r \in ReportIds /\ v \in Providers
    BY <1>5, <2>1, WorkerFields DEF LoadEntry, At, LabelledWork
  <2>. DEFINE new == Applied(entry[r], v, revision[r])
              q == [at |-> "save", r |-> r, v |-> v, old |-> entry[r], new |-> new]
  <2>3. new \in Entries /\ Labelled(new, r)
    BY <2>2, AppliedIsLabelled
  <2>4. q \in WorkerStates
    BY <2>2, <2>3 DEF WorkerStates
  <2>5. LabelledWork(q)
    BY <2>2, <2>3 DEF LabelledWork
  <2>6. Go(w, q)
    BY <1>5, <2>1 DEF LoadEntry
  <2>. HIDE DEF q
  <2>. QED  BY <1>1, <1>5, <2>4, <2>5, <2>6 DEF LoadEntry
<1>6. ASSUME NEW w \in Workers, RemoveEntry(w) PROVE RelatedInv'
  <2>1. /\ entry' \in [ReportIds -> MaybeEntries]
        /\ \A r \in ReportIds : entry'[r] \in {entry[r], NoEntry}
    BY <1>6 DEF RemoveEntry, MaybeEntries
  <2>2. \A r \in ReportIds : Labelled(entry'[r], r)
    BY <2>1 DEF Labelled
  <2>3. LabelledWork(Off)' /\ Go(w, Off)
    BY <1>6 DEF RemoveEntry, LabelledWork, Off
  <2>. QED  BY <1>0, <1>2, <1>6, <2>1, <2>2, <2>3, WorkerMoves DEF RemoveEntry
<1>7. ASSUME NEW w \in Workers, SaveEntry(w) PROVE RelatedInv'
  <2>1. PICK r, v, old, new : /\ r = worker[w].r /\ v = worker[w].v
                              /\ old = worker[w].old /\ new = worker[w].new
    OBVIOUS
  <2>2. /\ r \in ReportIds /\ v \in Providers /\ old \in MaybeEntries /\ new \in Entries
        /\ Labelled(old, r) /\ Labelled(new, r)
    BY <1>7, <2>1, WorkerFields DEF SaveEntry, At, LabelledWork
  <2>3. RowFits(r, old) /\ entry' = [entry EXCEPT ![r] = RowWritten(r, old, new)]
    BY <1>7, <2>1 DEF SaveEntry
  <2>4. RowWritten(r, old, new) \in Entries /\ Labelled(RowWritten(r, old, new), r)
    BY <2>2, <2>3, WrittenIsLabelled
  <2>5. entry' \in [ReportIds -> MaybeEntries] /\ \A s \in ReportIds : Labelled(entry'[s], s)
    BY <2>2, <2>3, <2>4 DEF MaybeEntries
  <2>. DEFINE q == [at |-> "rank", r |-> r, v |-> v]
  <2>6. q \in WorkerStates /\ LabelledWork(q)' /\ Go(w, q)
    BY <1>7, <2>1, <2>2 DEF SaveEntry, WorkerStates, LabelledWork
  <2>. HIDE DEF q
  <2>. QED  BY <1>0, <1>7, <2>5, <2>6, WorkerMoves DEF SaveEntry
<1>8. ASSUME NEW w \in Workers, Rank(w) \/ Abort(w) PROVE RelatedInv'
  <2>1. Go(w, Off) /\ UNCHANGED <<revision, entry>>
    BY <1>8 DEF Rank, Abort
  <2>2. mixed' \in BOOLEAN
    BY <1>8 DEF Rank, Abort
  <2>. QED  BY <1>1, <1>2, <2>1, <2>2
<1>9. ASSUME NEW w \in Workers, Prune(w) PROVE RelatedInv'
  <2>1. \A r \in ReportIds : entry'[r] \in {entry[r], NoEntry}
    BY <1>9 DEF Prune
  <2>2. entry' \in [ReportIds -> MaybeEntries] /\ \A r \in ReportIds : Labelled(entry'[r], r)
    BY <1>9, <2>1 DEF Labelled, Prune, MaybeEntries
  <2>3. worker[w].v \in Providers \cup {Disabled}
    BY <1>9, WorkerFields DEF Prune, At
  <2>4. /\ [at |-> "choose", v |-> worker[w].v] \in WorkerStates
        /\ LabelledWork([at |-> "choose", v |-> worker[w].v])
    BY <2>3 DEF WorkerStates, LabelledWork
  <2>5. PICK q : q = [at |-> "choose", v |-> worker[w].v]
    OBVIOUS
  <2>6. LabelledWork(q)' /\ Go(w, q)
    BY <1>9, <2>5 DEF Prune, LabelledWork
  <2>. QED  BY <1>0, <1>9, <2>2, <2>4, <2>5, <2>6, WorkerMoves DEF Prune
<1>10. ASSUME NEW w \in Workers, Choose(w) PROVE RelatedInv'
  <2>1. PICK v, S : v = worker[w].v /\ S = Chosen(v)
    OBVIOUS
  <2>2. CASE Go(w, Off)
    BY <1>1, <1>2, <1>10, <2>2 DEF Choose
  <2>3. CASE v # Disabled /\ ~Go(w, Off)
    <3>1. v \in Providers
      BY <1>10, <2>1, <2>3, WorkerFields DEF Choose, At
    <3>2. S \subseteq Published /\ S \subseteq ReportIds
      BY <2>1 DEF Chosen, Outdated, Published
    <3>. DEFINE old == [r \in S |-> entry[r]]
                new == [r \in S |-> Applied(entry[r], v, revision[r])]
                q == [at |-> "write", v |-> v, old |-> old, new |-> new]
    <3>3. \A r \in S : new[r] \in Entries /\ Labelled(new[r], r)
      BY <3>1, <3>2, AppliedIsLabelled
    <3>4. old \in [S -> MaybeEntries] /\ new \in [S -> MaybeEntries]
      BY <3>2, <3>3 DEF MaybeEntries
    <3>5. old \in EntryMaps /\ new \in EntryMaps
      BY <3>2, <3>4 DEF EntryMaps
    <3>6. \A r \in S : Labelled(old[r], r)
      BY <3>2
    <3>7. DOMAIN old = S /\ DOMAIN new = S
      OBVIOUS
    <3>8. Go(w, q)
      BY <1>10, <2>1, <2>3 DEF Choose
    <3>. HIDE DEF old, new
    <3>9. q \in WorkerStates
      BY <3>1, <3>5 DEF WorkerStates
    <3>10. LabelledWork(q)
      BY <3>3, <3>6, <3>7 DEF LabelledWork
    <3>. HIDE DEF q
    <3>. QED  BY <1>1, <1>10, <3>8, <3>9, <3>10 DEF Choose
  <2>. QED  BY <1>10, <2>1, <2>2, <2>3 DEF Choose
<1>11. ASSUME NEW w \in Workers, WriteBatch(w) PROVE RelatedInv'
  <2>1. PICK old, new : old = worker[w].old /\ new = worker[w].new
    OBVIOUS
  <2>2. DOMAIN old \subseteq ReportIds /\ \A r \in DOMAIN old : old[r] \in MaybeEntries
    BY <1>11, <2>1, WorkerFields, EntryMapValues DEF WriteBatch, At
  <2>3. \A r \in DOMAIN old :
          Labelled(old[r], r) /\ new[r] \in Entries /\ Labelled(new[r], r) /\ RowFits(r, old[r])
    BY <1>11, <2>1 DEF WriteBatch, At, LabelledWork
  <2>4. \A r \in DOMAIN old : /\ RowWritten(r, old[r], new[r]) \in Entries
                              /\ Labelled(RowWritten(r, old[r], new[r]), r)
    BY <2>2, <2>3, WrittenIsLabelled
  <2>5. entry' = [r \in ReportIds |-> IF r \in DOMAIN old
                                     THEN RowWritten(r, old[r], new[r]) ELSE entry[r]]
    BY <1>11, <2>1 DEF WriteBatch
  <2>6. entry' \in [ReportIds -> MaybeEntries] /\ \A r \in ReportIds : Labelled(entry'[r], r)
    BY <2>4, <2>5 DEF MaybeEntries
  <2>7. LabelledWork(Off)' /\ Go(w, Off)
    BY <1>11 DEF WriteBatch, LabelledWork, Off
  <2>. QED  BY <1>0, <1>2, <1>11, <2>6, <2>7, WorkerMoves DEF WriteBatch
<1>12. ASSUME NEW w \in Workers, NEW r \in ReportIds, NEW v \in Providers, Look(w, r, v)
       PROVE  RelatedInv'
  <2>1. PICK q : q = [at |-> IF r \in Outdated(v) THEN "upsert" ELSE "rank", r |-> r, v |-> v]
    OBVIOUS
  <2>2. q \in WorkerStates /\ LabelledWork(q) /\ Go(w, q)
    BY <1>12, <2>1 DEF Look, WorkerStates, LabelledWork
  <2>. QED  BY <1>1, <1>12, <2>2 DEF Look
<1>13. ASSUME NEW w \in Workers, NEW v \in Providers \cup {Disabled}, BeginPass(w, v)
       PROVE  RelatedInv'
  <2>1. PICK q : q = [at |-> "prune", v |-> v, seen |-> Published]
    OBVIOUS
  <2>2. q \in WorkerStates /\ LabelledWork(q) /\ Go(w, q)
    BY <1>13, <2>1 DEF BeginPass, WorkerStates, LabelledWork, Published
  <2>. QED  BY <1>1, <1>13, <2>2 DEF BeginPass
<1>14. ASSUME NEW w \in Workers, NEW v \in Providers \cup {Disabled}, NEW r \in ReportIds,
              PublishAndIndex(w, r, v)
       PROVE  RelatedInv'
  <2>1. /\ revision' \in [ReportIds -> 0..MaxRevision] /\ revision'[r] = 1
        /\ \A s \in ReportIds : revision'[s] >= revision[s]
    BY <1>14, RelatedAssumption DEF PublishAndIndex
  <2>2. PICK q : q = [at |-> "upsert", r |-> r, v |-> v]
    OBVIOUS
  <2>3. q \in WorkerStates /\ Go(w, q)
    BY <1>14, <2>2 DEF PublishAndIndex, WorkerStates
  <2>4. LabelledWork(q)'
    BY <2>1, <2>2 DEF LabelledWork, Published
  <2>5. entry' \in [ReportIds -> MaybeEntries] /\ \A s \in ReportIds : Labelled(entry'[s], s)
    BY <1>14 DEF PublishAndIndex
  <2>. QED  BY <1>14, <2>1, <2>3, <2>4, <2>5, WorkerMoves DEF PublishAndIndex
<1>. QED
  BY <1>3, <1>4, <1>5, <1>6, <1>7, <1>8, <1>9, <1>10, <1>11, <1>12, <1>13, <1>14 DEF RelatedNext

\* Entries keep their types.
THEOREM RelatedTypeCorrect == RelatedSpec => []RelatedTypeOK
<1>1. RelatedInv => RelatedTypeOK
  BY DEF RelatedInv
<1>. QED  BY RelatedInitInv, RelatedStep, <1>1, PTL DEF RelatedSpec

\* The label of an entry tells who made its vector, whichever requests and
\* passes wrote which of its columns (services/related.py).
THEOREM LabelsAreTrue == RelatedSpec => []LabelsTellTheVector
<1>1. RelatedInv => LabelsTellTheVector
  BY DEF RelatedInv, LabelsTellTheVector, Labelled, Present
<1>. QED  BY RelatedInitInv, RelatedStep, <1>1, PTL DEF RelatedSpec

-----------------------------------------------------------------------------
(***************************************************************************)
(* Products and their snapshot.  A hash is that of the text it comes with, *)
(* in a request under way and in a row.                                    *)
(***************************************************************************)
Honest(p) == p.hash # NoHash => p.text = p.hash

Rendition == [at : {"store"}, text : 1..MaxText, hash : 0..MaxText]
RendererStates ==
  {Unused} \cup Rendition
  \cup [at : {"commit"}, row : Rows] \cup [at : {"prune"}]
  \cup [at : {"drop"}, rows : SUBSET Rows]

RendersInv ==
  /\ RendersTypeOK
  /\ renderer \in [Renderers -> RendererStates]
  /\ \A p \in products : Honest(p)
  /\ \A w \in Renderers :
       /\ renderer[w].at = "store" => Honest(renderer[w])
       /\ renderer[w].at = "commit" => Honest(renderer[w].row)

\* A request has the fields of its step.
LEMMA RendererFields ==
  ASSUME NEW q \in RendererStates
  PROVE  /\ q.at = "store" => q.text \in 1..MaxText /\ q.hash \in 0..MaxText
         /\ q.at = "commit" => q.row \in Rows
         /\ q.at = "drop" => q.rows \subseteq Rows
         /\ q.at \in {"unused", "store", "commit", "prune", "drop"}
  BY DEF RendererStates, Rendition, Unused

LEMMA RendersInitInv == RendersInit => RendersInv
  BY RendersAssumption
     DEF RendersInit, RendersInv, RendersTypeOK, Unused, RendererStates, NoHash

\* A request that takes up an honest state leaves the others as they are.
LEMMA RendererBecomes ==
  ASSUME RendersInv, NEW w \in Renderers, NEW q \in RendererStates, Becomes(w, q),
         q.at = "store" => Honest(q), q.at = "commit" => Honest(q.row)
  PROVE  /\ renderer' \in [Renderers -> RendererStates]
         /\ \A v \in Renderers :
              /\ renderer'[v].at \in {"unused", "store", "commit", "prune", "drop"}
              /\ renderer'[v].at = "store" => Honest(renderer'[v])
              /\ renderer'[v].at = "commit" => Honest(renderer'[v].row)
<1>1. renderer' \in [Renderers -> RendererStates]
  BY DEF RendersInv, Becomes
<1>2. \A v \in Renderers : renderer'[v] = IF v = w THEN q ELSE renderer[v]
  BY DEF RendersInv, Becomes
<1>. QED  BY <1>1, <1>2, RendererFields DEF RendersInv

LEMMA RendersStep == RendersInv /\ [RendersNext]_renderVars => RendersInv'
<1> SUFFICES ASSUME RendersInv, [RendersNext]_renderVars PROVE RendersInv'
  OBVIOUS
<1>1. CASE UNCHANGED renderVars
  BY <1>1 DEF renderVars, RendersInv, RendersTypeOK, Honest
<1>2. CASE Edit \/ Freeze
  <2>1. liveText' \in 1..MaxText /\ frozenText' \in 0..liveText'
    BY <1>2, RendersAssumption DEF Edit, Freeze, RendersInv, RendersTypeOK, NoHash
  <2>2. final' \in BOOLEAN
    BY <1>2 DEF Edit, Freeze, RendersInv, RendersTypeOK
  <2>3. RendersTypeOK'
    BY <1>2, <2>1, <2>2 DEF Edit, Freeze, RendersInv, RendersTypeOK
  <2>. QED  BY <1>2, <2>3 DEF Edit, Freeze, RendersInv, Honest
<1>3. ASSUME NEW w \in Renderers, NEW q \in RendererStates, Becomes(w, q),
             q.at = "store" => Honest(q), q.at = "commit" => Honest(q.row),
             UNCHANGED <<final, liveText, frozenText, products, stamps>>
      PROVE  RendersInv'
  BY <1>3, RendererBecomes DEF RendersInv, RendersTypeOK
<1>4. ASSUME NEW w \in Renderers, BeginRender(w) PROVE RendersInv'
  <2>1. PICK t, h : /\ Becomes(w, [at |-> "store", text |-> t, hash |-> h])
                    /\ t \in 1..MaxText /\ h \in 0..MaxText /\ (h # NoHash => t = h)
    <3>. frozenText \in 0..liveText /\ liveText \in 1..MaxText
      BY DEF RendersInv, RendersTypeOK
    <3>1. CASE final /\ frozenText # NoHash
      <4>1. frozenText \in 1..MaxText
        BY <3>1, RendersAssumption DEF NoHash
      <4>2. Becomes(w, [at |-> "store", text |-> frozenText, hash |-> frozenText])
        BY <1>4, <3>1 DEF BeginRender
      <4>3. frozenText \in 0..MaxText
        BY <4>1, RendersAssumption
      <4>. QED  BY <4>1, <4>2, <4>3
    <3>2. CASE ~(final /\ frozenText # NoHash)
      <4>1. Becomes(w, [at |-> "store", text |-> liveText, hash |-> NoHash])
        BY <1>4, <3>2 DEF BeginRender
      <4>2. NoHash \in 0..MaxText
        BY RendersAssumption DEF NoHash
      <4>. QED  BY <4>1, <4>2
    <3>. QED  BY <3>1, <3>2
  <2>2. [at |-> "store", text |-> t, hash |-> h] \in RendererStates
    BY <2>1 DEF RendererStates, Rendition
  <2>. QED  BY <1>3, <1>4, <2>1, <2>2 DEF BeginRender, Honest
<1>5. ASSUME NEW w \in Renderers, StampProduct(w) PROVE RendersInv'
  <2>. DEFINE row == [stamp |-> stamps + 1, text |-> renderer[w].text,
                      hash |-> HashOf(renderer[w].hash)]
              q == [at |-> "commit", row |-> row]
  <2>1. renderer[w].text \in 1..MaxText /\ renderer[w].hash \in 0..MaxText
    BY <1>5, RendererFields DEF StampProduct, RendersInv
  <2>2. stamps + 1 \in 1..MaxRenders /\ stamps' = stamps + 1
    BY <1>5, RendersAssumption DEF StampProduct, RendersInv, RendersTypeOK
  <2>3. q \in RendererStates
    BY <2>1, <2>2 DEF RendererStates, Rows, HashOf
  <2>4. Honest(row)
    BY <1>5 DEF StampProduct, RendersInv, Honest, HashOf
  <2>5. Becomes(w, q)
    BY <1>5, <2>2 DEF StampProduct
  <2>6. /\ renderer' \in [Renderers -> RendererStates]
        /\ \A v \in Renderers :
             /\ renderer'[v].at \in {"unused", "store", "commit", "prune", "drop"}
             /\ renderer'[v].at = "store" => Honest(renderer'[v])
             /\ renderer'[v].at = "commit" => Honest(renderer'[v].row)
    BY <2>3, <2>4, <2>5, RendererBecomes
  <2>. QED
    BY <1>5, <2>2, <2>6, RendersAssumption DEF StampProduct, RendersInv, RendersTypeOK
<1>6. ASSUME NEW w \in Renderers, CommitProduct(w) PROVE RendersInv'
  <2>1. renderer[w].row \in Rows /\ Honest(renderer[w].row)
    BY <1>6, RendererFields DEF CommitProduct, RendersInv
  <2>2. [at |-> "prune"] \in RendererStates
    BY DEF RendererStates
  <2>. QED
    BY <1>6, <2>1, <2>2, RendererBecomes DEF CommitProduct, RendersInv, RendersTypeOK
<1>7. ASSUME NEW w \in Renderers, NEW cutoff, LoadStale(w, cutoff) PROVE RendersInv'
  <2>1. [at |-> "drop", rows |-> TooMany \cup {p \in products : p.stamp < cutoff}]
          \in RendererStates
    BY DEF RendererStates, TooMany, RendersInv, RendersTypeOK
  <2>. QED  BY <1>3, <1>7, <2>1 DEF LoadStale
<1>8. ASSUME NEW w \in Renderers, DropStale(w) PROVE RendersInv'
  <2>1. Unused \in RendererStates /\ Unused.at = "unused"
    BY DEF RendererStates, Unused
  <2>. QED  BY <1>8, <2>1, RendererBecomes DEF DropStale, RendersInv, RendersTypeOK
<1>9. ASSUME NEW w \in Renderers, BeginPrune(w) \/ Interrupt(w) PROVE RendersInv'
  <2>1. Unused \in RendererStates /\ Unused.at = "unused" /\ [at |-> "prune"] \in RendererStates
    BY DEF RendererStates, Unused
  <2>. QED  BY <1>3, <1>9, <2>1 DEF BeginPrune, Interrupt
<1>10. ASSUME NEW w \in Renderers, NEW p \in products, BeginDeletion(w, p) PROVE RendersInv'
  <2>1. [at |-> "drop", rows |-> {p}] \in RendererStates
    BY DEF RendererStates, RendersInv, RendersTypeOK
  <2>. QED  BY <1>3, <1>10, <2>1 DEF BeginDeletion
<1>. QED
  BY <1>1, <1>2, <1>4, <1>5, <1>6, <1>7, <1>8, <1>9, <1>10 DEF RendersNext

\* The rows of products, and what a request holds of them, keep their types.
THEOREM RendersTypeCorrect == RendersSpec => []RendersTypeOK
<1>1. RendersInv => RendersTypeOK
  BY DEF RendersInv
<1>. QED  BY RendersInitInv, RendersStep, <1>1, PTL DEF RendersSpec

\* Whatever stakeholders are offered was rendered from the snapshot, though it
\* was begun before the report was published (api/reports.render_report).
THEOREM StakeholdersGetTheSnapshot == RendersSpec => []OfferedIsTheSnapshot
<1>1. RendersInv => OfferedIsTheSnapshot
  BY DEF RendersInv, OfferedIsTheSnapshot, Offered, Honest
<1>. QED  BY RendersInitInv, RendersStep, <1>1, PTL DEF RendersSpec

=============================================================================
