--------------------------- MODULE CommentsProofs ---------------------------
(***************************************************************************)
(* What holds of suggested edits for any number of requests, threads,      *)
(* passages and revisions: an acceptance that gets into the report applies *)
(* to the text as it is, although author, editors and publishers work on   *)
(* copies they loaded at different times, and a thread that says accepted  *)
(* has a revision to show for it, although the two are written one after   *)
(* the other.                                                              *)
(***************************************************************************)
EXTENDS Comments, TLAPS

\* A suggestion that has become one of the first n revisions.
Applied(t, n) == \E v \in 1..n : writer[v] = t

(***************************************************************************)
(* The inductive invariant adds what each session may rely on.  An         *)
(* acceptance whose loaded version is current has loaded the current text, *)
(* and the report is not published; one that has written goes on about a   *)
(* suggestion that is a revision by now, whatever is written after it.     *)
(***************************************************************************)
Sound(s) ==
  /\ s.op = "post" => s.on \in Comments
  /\ s.op = "posted" => s.on \in posted
  /\ s.op \in {"close", "reopen", "accept", "written", "refreshed"} =>
       s.on \in Threads
  /\ s.op = "close" => s.target \in {"RESOLVED", "REJECTED"}
  /\ s.op = "reopen" => s.target \in {"unchanged", "OPEN"}
  /\ s.op = "accept" /\ s.ver = version =>
       s.seen = text /\ Unique(text, s.on) /\ ~published
  /\ s.op = "accept" => s.ver <= version
  /\ s.op = "written" => Applied(s.on, version)
  /\ s.op = "refreshed" =>
       s.ver \in 1..version /\ Applied(s.on, s.ver)

SessionsSound == \A r \in Requests : Sound(rq[r])

IInv == TypeOK /\ SessionsSound /\ AcceptedMeansApplied /\ MentionsAreOfStored

-----------------------------------------------------------------------------
\* An idle session is a session that relies on nothing.
LEMMA IdleType == NoRequest \in Session /\ NoRequest.op = "none"
  BY DEF NoRequest, Session, Texts

\* One more revision leaves the earlier ones where they are.
LEMMA Appended ==
  ASSUME NEW S, NEW w \in Seq(S), NEW x \in S
  PROVE  /\ Append(w, x) \in Seq(S)
         /\ Len(Append(w, x)) = Len(w) + 1
         /\ \A v \in 1..Len(w) : Append(w, x)[v] = w[v]
         /\ Append(w, x)[Len(w) + 1] = x
         /\ Append(w, x) # w
  OBVIOUS

\* Replacing the one occurrence of a quote leaves a text.
LEMMA ReplacedType ==
  ASSUME NEW x \in Texts, NEW t \in Threads, Unique(x, t)
  PROVE  Replaced(x, t) \in Texts
<1> DEFINE cut == [x EXCEPT ![Quote[t]] = @ - 1]
<1>1. Quote[t] \in Passages /\ Replacement[t] \in Passages
  BY CommentsAssumption
<1>2. cut \in [Passages -> 0..2]
  BY <1>1 DEF Texts, Unique
<1>3. Replaced(x, t) =
        [cut EXCEPT ![Replacement[t]] = IF @ = 2 THEN 2 ELSE @ + 1]
  BY DEF Replaced
<1> QED
  BY <1>1, <1>2, <1>3 DEF Texts

-----------------------------------------------------------------------------
\* A new revision by anyone: what was made before still is.
LEMMA Revision ==
  ASSUME IInv, NEW x \in Threads \cup {NoThread}, version < MaxVersion,
         writer' = Append(writer, x)
  PROVE  /\ writer' \in Seq(Threads \cup {NoThread})
         /\ version' = version + 1 /\ version' \in 1..MaxVersion
         /\ \A v \in 1..version : writer'[v] = writer[v]
         /\ writer'[version + 1] = x
  BY Appended, CommentsAssumption DEF IInv, TypeOK, version

\* A request that loads keeps the invariant if its session is sound.
LEMMA LoadStep ==
  ASSUME IInv, NEW r \in Requests, NEW s \in Session, Sound(s), Load(r, s)
  PROVE  IInv'
<1>1. rq' = [rq EXCEPT ![r] = s] /\ UNCHANGED <<text, published, writer, posted,
                                              status, applied, notified>>
  BY DEF Load, report, thread
<1>2. TypeOK'
  BY <1>1 DEF IInv, TypeOK, version
<1>3. ASSUME NEW q \in Requests
      PROVE  Sound(rq[q])'
  <2>1. rq'[q] = (IF q = r THEN s ELSE rq[q])
    BY <1>1 DEF IInv, TypeOK
  <2>2. Sound(rq'[q])
    BY <2>1 DEF IInv, SessionsSound
  <2> QED
    BY <1>1, <2>2 DEF Sound, Applied, version, Unique
<1> QED
  BY <1>1, <1>2, <1>3
    DEF IInv, SessionsSound, AcceptedMeansApplied, MentionsAreOfStored

\* A request whose session ends, having written no revision, keeps the invariant
\* if what it wrote agrees with it.
LEMMA EndStep ==
  ASSUME IInv, NEW r \in Requests, rq' = [rq EXCEPT ![r] = NoRequest],
         UNCHANGED report, posted \subseteq posted', posted' \subseteq Comments,
         notified' \subseteq posted',
         status' \in [Threads -> {"OPEN", "RESOLVED", "REJECTED", "ACCEPTED"}],
         applied' \in [Threads -> 0..version],
         AcceptedMeansApplied'
  PROVE  IInv'
<1>1. UNCHANGED <<text, published, writer>>
  BY DEF report
<1>2. TypeOK'
  BY <1>1, IdleType DEF IInv, TypeOK, MentionsAreOfStored, version
<1>3. ASSUME NEW q \in Requests
      PROVE  Sound(rq[q])'
  <2>1. rq'[q] = (IF q = r THEN NoRequest ELSE rq[q])
    BY DEF IInv, TypeOK
  <2>2. Sound(rq'[q])
    BY <2>1, IdleType DEF IInv, SessionsSound, Sound
  <2> QED
    BY <1>1, <2>2 DEF Sound, Applied, version, Unique
<1> QED
  BY <1>1, <1>2, <1>3 DEF IInv, SessionsSound, MentionsAreOfStored

\* Every begin of an operation.
LEMMA BeginStep ==
  ASSUME IInv, NEW r \in Requests,
         \/ \E t \in Threads : \/ BeginCreate(r, t) \/ BeginThreadReopen(r, t)
                               \/ BeginAccept(r, t)
                               \/ \E o \in {"RESOLVED", "REJECTED"} :
                                    BeginClose(r, t, o)
         \/ \E c \in Replies : BeginReply(r, c)
  PROVE  IInv'
<1>0. version \in Nat /\ text \in Texts
  BY CommentsAssumption DEF IInv, TypeOK
<1>1. ASSUME NEW c \in Comments,
             Load(r, [NoRequest EXCEPT !.op = "post", !.on = c])
      PROVE  IInv'
  <2> DEFINE s == [NoRequest EXCEPT !.op = "post", !.on = c]
  <2>1. s \in Session /\ s.op = "post" /\ s.on = c
    BY IdleType DEF Session
  <2>. HIDE DEF s
  <2>2. Sound(s)
    BY <2>1 DEF Sound
  <2> QED
    BY <1>1, <2>1, <2>2, LoadStep DEF s
<1>2. ASSUME NEW t \in Threads, NEW o \in {"RESOLVED", "REJECTED"},
             BeginClose(r, t, o)
      PROVE  IInv'
  <2> DEFINE s == [NoRequest EXCEPT !.op = "close", !.on = t, !.target = o]
  <2>1. s \in Session /\ s.op = "close" /\ s.on = t /\ s.target = o
    BY IdleType DEF Session, Comments
  <2>2. Load(r, s)
    BY <1>2 DEF BeginClose
  <2>. HIDE DEF s
  <2>3. Sound(s)
    BY <2>1 DEF Sound
  <2> QED
    BY <2>1, <2>2, <2>3, LoadStep
<1>3. ASSUME NEW t \in Threads, BeginThreadReopen(r, t)
      PROVE  IInv'
  <2> DEFINE g == IF status[t] = "OPEN" THEN "unchanged" ELSE "OPEN"
             s == [NoRequest EXCEPT !.op = "reopen", !.on = t, !.target = g]
  <2>1. s \in Session /\ s.op = "reopen" /\ s.on = t /\ s.target = g
    BY IdleType DEF Session, Comments
  <2>2. Load(r, s)
    BY <1>3 DEF BeginThreadReopen
  <2>. HIDE DEF s
  <2>3. Sound(s)
    BY <2>1 DEF Sound
  <2> QED
    BY <2>1, <2>2, <2>3, LoadStep
<1>4. ASSUME NEW t \in Threads, BeginAccept(r, t)
      PROVE  IInv'
  <2> DEFINE s == [NoRequest EXCEPT !.op = "accept", !.on = t, !.ver = version,
                               !.seen = text]
  <2>1. /\ s \in Session /\ s.op = "accept" /\ s.on = t
        /\ s.ver = version /\ s.seen = text
    BY <1>0 DEF NoRequest, Session, Texts, Comments
  <2>2. Load(r, s)
    BY <1>4 DEF BeginAccept
  <2>3. ~published /\ Unique(text, t)
    BY <1>4 DEF BeginAccept
  <2>. HIDE DEF s
  <2>4. Sound(s)
    BY <1>0, <2>1, <2>3 DEF Sound
  <2> QED
    BY <2>1, <2>2, <2>4, LoadStep
<1>5. ASSUME NEW t \in Threads, BeginCreate(r, t)
      PROVE  IInv'
  BY <1>1, <1>5 DEF BeginCreate, Comments
<1>6. ASSUME NEW c \in Replies, BeginReply(r, c)
      PROVE  IInv'
  BY <1>1, <1>6 DEF BeginReply, Comments
<1> QED
  BY <1>2, <1>3, <1>4, <1>5, <1>6

\* A new revision by an acceptance, an edit, a publication or another change of
\* the report, r being idle afterwards or the request whose acceptance it is:
\* every other session about an older version can no longer write.
LEMMA RevisionStep ==
  ASSUME IInv, NEW x \in Threads \cup {NoThread}, version < MaxVersion,
         writer' = Append(writer, x), text' \in Texts, published' \in BOOLEAN,
         UNCHANGED <<thread, notified>>,
         \/ UNCHANGED rq
         \/ \E r \in Requests : /\ rq[r].op = "accept" /\ rq[r].on = x
                               /\ rq' = [rq EXCEPT ![r].op = "written"]
  PROVE  IInv'
<1>1. /\ writer' \in Seq(Threads \cup {NoThread})
      /\ version' = version + 1 /\ version' \in 1..MaxVersion
      /\ \A v \in 1..version : writer'[v] = writer[v]
      /\ writer'[version + 1] = x
  BY Revision
<1>1a. version \in Nat
  BY CommentsAssumption DEF IInv, TypeOK
<1>2. UNCHANGED <<posted, status, applied, notified>>
  BY DEF thread
<1>3. ASSUME NEW r \in Requests
      PROVE  \/ rq'[r] = rq[r]
             \/ /\ rq[r].op = "accept" /\ rq[r].on = x
                /\ rq'[r] = [rq[r] EXCEPT !.op = "written"]
  <2>1. rq \in [Requests -> Session]
    BY DEF IInv, TypeOK
  <2> QED
    BY <2>1
<1>4. TypeOK'
  <2>1. ASSUME NEW s \in Session
        PROVE  [s EXCEPT !.op = "written"] \in Session
    BY DEF Session
  <2>2. rq' \in [Requests -> Session]
    <3>1. rq \in [Requests -> Session]
      BY DEF IInv, TypeOK
    <3>2. \A r \in Requests : rq'[r] \in Session
      BY <1>3, <2>1, <3>1
    <3> QED
      BY <3>1, <3>2
  <2>3. applied' \in [Threads -> 0..version']
    BY <1>1, <1>1a, <1>2 DEF IInv, TypeOK
  <2> QED
    BY <1>1, <1>1a, <1>2, <2>2, <2>3 DEF IInv, TypeOK
<1>5. ASSUME NEW s \in Session, Sound(s)
      PROVE  Sound(s)'
  <2>0. s.ver \in Nat
    BY DEF Session
  <2>1. ASSUME NEW n \in 0..version, Applied(s.on, n)
        PROVE  Applied(s.on, n)' /\ Applied(s.on, version)'
    <3>1. PICK v \in 1..n : writer[v] = s.on
      BY <2>1 DEF Applied
    <3>2. v \in 1..version /\ v \in 1..version'
      BY <1>1, <1>1a
    <3>3. writer'[v] = s.on
      BY <1>1, <3>1, <3>2
    <3> QED
      BY <3>2, <3>3 DEF Applied
  <2>2. s.op = "written" => Applied(s.on, version)'
    BY <1>1, <1>1a, <1>5, <2>0, <2>1 DEF Sound
  <2>3. s.op = "refreshed" => s.ver \in 1..version' /\ Applied(s.on, s.ver)'
    BY <1>1, <1>1a, <1>5, <2>0, <2>1 DEF Sound
  <2>4. s.op = "accept" => s.ver <= version
    BY <1>5 DEF Sound
  <2>5. s.op = "accept" => s.ver <= version' /\ s.ver # version'
    BY <1>1, <1>1a, <2>0, <2>4
  <2> QED
    BY <1>2, <1>5, <2>2, <2>3, <2>5 DEF Sound
<1>6. ASSUME NEW s \in Session, Sound(s), s.op = "accept", s.on = x
      PROVE  Sound([s EXCEPT !.op = "written"])'
  <2> DEFINE w == [s EXCEPT !.op = "written"]
  <2>1. w.op = "written" /\ w.on = x
    BY <1>6 DEF Session
  <2>2. Applied(x, version)' /\ x \in Threads
    BY <1>1, <1>1a, <1>6 DEF Applied, Sound
  <2>. HIDE DEF w
  <2>3. Sound(w)'
    BY <2>1, <2>2 DEF Sound
  <2> QED
    BY <2>3 DEF w
<1>7. ASSUME NEW q \in Requests
      PROVE  Sound(rq[q])'
  <2>1. Sound(rq[q]) /\ rq[q] \in Session
    BY DEF IInv, TypeOK, SessionsSound
  <2>2. CASE rq'[q] = rq[q]
    BY <1>5, <2>1, <2>2
  <2>3. CASE /\ rq[q].op = "accept" /\ rq[q].on = x
             /\ rq'[q] = [rq[q] EXCEPT !.op = "written"]
    BY <1>6, <2>1, <2>3
  <2> QED
    BY <1>3, <2>2, <2>3
<1>8. AcceptedMeansApplied'
  <2>1. ASSUME NEW t \in Threads, status[t] = "ACCEPTED"
        PROVE  \E v \in 1..applied[t] : writer'[v] = t
    <3>1. PICK v \in 1..applied[t] : writer[v] = t
      BY <2>1 DEF IInv, AcceptedMeansApplied
    <3>2. v \in 1..version
      BY <1>1, <1>1a DEF IInv, TypeOK
    <3> QED
      BY <1>1, <3>1, <3>2
  <2> QED
    BY <1>2, <2>1 DEF AcceptedMeansApplied
<1> QED
  BY <1>2, <1>4, <1>7, <1>8 DEF IInv, SessionsSound, MentionsAreOfStored

\* A request that goes on, having stored at most its own comment.
LEMMA ContinueStep ==
  ASSUME IInv, NEW r \in Requests, NEW s \in Session,
         rq' = [rq EXCEPT ![r] = s], UNCHANGED <<report, status, applied, notified>>,
         posted \subseteq posted', posted' \subseteq Comments, Sound(s)'
  PROVE  IInv'
<1>1. UNCHANGED <<text, published, writer>>
  BY DEF report
<1>2. TypeOK'
  BY <1>1 DEF IInv, TypeOK, version
<1>3. ASSUME NEW q \in Requests
      PROVE  Sound(rq[q])'
  <2>1. rq'[q] = (IF q = r THEN s ELSE rq[q])
    BY DEF IInv, TypeOK
  <2>2. CASE q = r
    BY <2>1, <2>2 DEF Sound, Applied, version, Unique
  <2>3. CASE q # r
    <3>1. Sound(rq[q]) /\ rq'[q] = rq[q]
      BY <2>1, <2>3 DEF IInv, SessionsSound
    <3> QED
      BY <1>1, <3>1 DEF Sound, Applied, version, Unique
  <2> QED
    BY <2>2, <2>3
<1> QED
  BY <1>1, <1>2, <1>3
    DEF IInv, SessionsSound, AcceptedMeansApplied, MentionsAreOfStored

\* Every later step of a request, operation by operation.
LEMMA CommitStep ==
  ASSUME IInv, NEW r \in Requests,
         \/ Post(r) \/ NotifyMentions(r) \/ CommitClose(r) \/ CommitThreadReopen(r)
         \/ WriteSuggestion(r) \/ RefreshReport(r) \/ CloseAccepted(r)
         \/ Abandon(r)
  PROVE  IInv'
<1>1. TypeOK /\ Sound(rq[r]) /\ rq[r] \in Session
  BY DEF IInv, TypeOK, SessionsSound
<1>2. posted \subseteq Comments /\ notified \subseteq posted /\ AcceptedMeansApplied
  BY DEF IInv, TypeOK, MentionsAreOfStored
<1>3. version \in Nat
  BY <1>1, CommentsAssumption DEF TypeOK
<1>4. CASE Post(r)
  <2>1. PICK s : s = [rq[r] EXCEPT !.op = "posted"]
    OBVIOUS
  <2>2. s \in Session /\ s.op = "posted" /\ s.on = rq[r].on
    BY <1>1, <2>1 DEF Session
  <2>3. rq[r].on \in Comments /\ posted' = posted \cup {rq[r].on}
    BY <1>1, <1>4 DEF Post, Sound
  <2>4. Sound(s)'
    BY <2>2, <2>3 DEF Sound
  <2>5. rq' = [rq EXCEPT ![r] = s] /\ UNCHANGED <<report, status, applied, notified>>
    BY <1>4, <2>1 DEF Post
  <2> QED
    BY <1>2, <2>2, <2>3, <2>4, <2>5, ContinueStep
<1>5. CASE NotifyMentions(r)
  <2>1. rq[r].on \in posted
    BY <1>1, <1>5 DEF NotifyMentions, Queues, Sound
  <2>2. AcceptedMeansApplied'
    BY <1>2, <1>5 DEF NotifyMentions, AcceptedMeansApplied, report, thread
  <2> QED
    BY <1>1, <1>2, <1>5, <2>1, <2>2, EndStep DEF NotifyMentions, TypeOK, thread
<1>6. CASE CommitClose(r)
  <2>1. rq[r].on \in Threads /\ rq[r].target \in {"RESOLVED", "REJECTED"}
    BY <1>1, <1>6 DEF CommitClose, Sound
  <2>2. AcceptedMeansApplied'
    BY <1>1, <1>2, <1>6, <2>1
      DEF CommitClose, AcceptedMeansApplied, report, TypeOK
  <2> QED
    BY <1>1, <1>2, <1>6, <2>1, <2>2, EndStep DEF CommitClose, TypeOK
<1>7. CASE CommitThreadReopen(r)
  <2>1. rq[r].on \in Threads /\ rq[r].target \in {"unchanged", "OPEN"}
    BY <1>1, <1>7 DEF CommitThreadReopen, Sound
  <2>2. AcceptedMeansApplied'
    BY <1>1, <1>2, <1>7, <2>1
      DEF CommitThreadReopen, AcceptedMeansApplied, report, TypeOK
  <2> QED
    BY <1>1, <1>2, <1>7, <2>1, <2>2, EndStep DEF CommitThreadReopen, TypeOK
<1>8. CASE WriteSuggestion(r)
  <2>1. rq[r].op = "accept" /\ rq[r].on \in Threads /\ rq[r].seen \in Texts
    BY <1>1, <1>8 DEF WriteSuggestion, Sound, Session
  <2>2. CASE rq[r].ver = version
    <3>1. rq[r].seen = text /\ Unique(text, rq[r].on)
      BY <1>1, <2>1, <2>2 DEF Sound
    <3>2. Replaced(rq[r].seen, rq[r].on) \in Texts
      BY <2>1, <3>1, ReplacedType
    <3>3. /\ version < MaxVersion /\ writer' = Append(writer, rq[r].on)
          /\ text' \in Texts /\ published' = published
          /\ rq' = [rq EXCEPT ![r].op = "written"]
          /\ UNCHANGED <<thread, notified>>
      BY <1>8, <2>2, <3>2 DEF WriteSuggestion
    <3> QED
      BY <1>1, <2>1, <3>3, RevisionStep DEF TypeOK
  <2>3. CASE rq[r].ver # version
    <3>1. rq' = [rq EXCEPT ![r] = NoRequest] /\ UNCHANGED <<report, thread, notified>>
      BY <1>8, <2>3 DEF WriteSuggestion, FreshWrite, AfterStale, report
    <3> QED
      BY <1>1, <1>2, <3>1, EndStep DEF TypeOK, AcceptedMeansApplied, report, thread
  <2> QED
    BY <2>2, <2>3
<1>9. CASE RefreshReport(r)
  <2>1. PICK s : s = [rq[r] EXCEPT !.op = "refreshed", !.ver = version]
    OBVIOUS
  <2>2. s \in Session /\ s.op = "refreshed" /\ s.on = rq[r].on /\ s.ver = version
    BY <1>1, <1>3, <2>1 DEF Session
  <2>3. rq' = [rq EXCEPT ![r] = s] /\ UNCHANGED <<report, thread, notified>>
    BY <1>9, <2>1 DEF RefreshReport, RevisionWritten
  <2>4. rq[r].on \in Threads /\ Applied(rq[r].on, version)
    BY <1>1, <1>9 DEF RefreshReport, Sound
  <2>5. version \in 1..version
    BY <1>1, CommentsAssumption DEF TypeOK
  <2>6. /\ Applied(s.on, s.ver)' /\ s.on \in Threads
        /\ s.ver \in 1..version'
    BY <2>2, <2>3, <2>4, <2>5 DEF Applied, report, version
  <2>7. Sound(s)'
    BY <2>2, <2>6 DEF Sound
  <2> QED
    BY <1>2, <2>2, <2>3, <2>7, ContinueStep DEF thread
<1>10. CASE CloseAccepted(r)
  <2>1. /\ rq[r].on \in Threads /\ rq[r].ver \in 1..version
        /\ Applied(rq[r].on, rq[r].ver)
    BY <1>1, <1>10 DEF CloseAccepted, Sound
  <2>2. AcceptedMeansApplied'
    BY <1>1, <1>2, <1>10, <2>1
      DEF CloseAccepted, AcceptedMeansApplied, Applied, report, TypeOK
  <2>3. /\ status' \in [Threads -> {"OPEN", "RESOLVED", "REJECTED", "ACCEPTED"}]
        /\ applied' \in [Threads -> 0..version]
    BY <1>1, <1>3, <1>10, <2>1 DEF CloseAccepted, TypeOK
  <2>4. rq' = [rq EXCEPT ![r] = NoRequest] /\ UNCHANGED <<report, posted, notified>>
    BY <1>10 DEF CloseAccepted
  <2> QED
    BY <1>2, <2>2, <2>3, <2>4, EndStep
<1>11. CASE Abandon(r)
  BY <1>1, <1>2, <1>11, EndStep
    DEF Abandon, TypeOK, AcceptedMeansApplied, report, thread
<1> QED
  BY <1>4, <1>5, <1>6, <1>7, <1>8, <1>9, <1>10, <1>11

\* Edits, publications and other changes of the report, of which an edit brings
\* in any text.
LEMMA OtherRequests ==
  ASSUME IInv, EditText \/ Publish \/ Touch
  PROVE  IInv'
<1>1. /\ writer' = Append(writer, NoThread) /\ version < MaxVersion
      /\ UNCHANGED <<thread, notified>> /\ UNCHANGED rq
  BY DEF EditText, Publish, Touch, NewRevision
<1>2. text' \in Texts /\ published' \in BOOLEAN
  BY DEF EditText, Publish, Touch, IInv, TypeOK
<1> QED
  BY <1>1, <1>2, RevisionStep

\* IInv holds in every reachable state.
THEOREM InductiveInvariant == Spec => []IInv
<1>1. Init => IInv
  <2> SUFFICES ASSUME Init
               PROVE  IInv
    OBVIOUS
  <2>1. writer \in Seq(Threads \cup {NoThread}) /\ version = 1
    BY DEF Init, version
  <2>2. TypeOK
    <3>1. version \in 1..MaxVersion /\ 0 \in 0..version
      BY <2>1, CommentsAssumption
    <3>2. applied \in [Threads -> 0..version]
      BY <3>1 DEF Init
    <3> QED
      BY <2>1, <3>1, <3>2, IdleType DEF Init, TypeOK
  <2>3. SessionsSound
    BY IdleType DEF Init, SessionsSound, Sound
  <2> QED
    BY <2>2, <2>3 DEF Init, IInv, AcceptedMeansApplied, MentionsAreOfStored
<1>2. IInv /\ [Next]_vars => IInv'
  <2> SUFFICES ASSUME IInv, [Next]_vars
               PROVE  IInv'
    OBVIOUS
  <2>1. CASE UNCHANGED vars
    BY <2>1 DEF vars, IInv, TypeOK, SessionsSound, Sound, Applied, Unique, version,
                AcceptedMeansApplied, MentionsAreOfStored
  <2>2. ASSUME NEW r \in Requests, RequestStep(r)
        PROVE  IInv'
    BY <2>2, BeginStep, CommitStep DEF RequestStep
  <2>3. CASE EditText \/ Publish \/ Touch
    BY <2>3, OtherRequests
  <2> QED
    BY <2>1, <2>2, <2>3 DEF Next
<1> QED
  BY <1>1, <1>2, PTL DEF Spec

\* Every variable keeps its type.
THEOREM TypeCorrect == Spec => []TypeOK
<1>1. IInv => TypeOK
  BY DEF IInv
<1> QED
  BY <1>1, InductiveInvariant, PTL

\* A thread is marked accepted (_close) only after its replacement was written as
\* a revision (accept_suggestion).
THEOREM AcceptanceFollowsText == Spec => []AcceptedMeansApplied
<1>1. IInv => AcceptedMeansApplied
  BY DEF IInv
<1> QED
  BY <1>1, InductiveInvariant, PTL

\* _notify_mentions queues only for comments that were committed.
THEOREM MentionsFollowComments == Spec => []MentionsAreOfStored
<1>1. IInv => MentionsAreOfStored
  BY DEF IInv
<1> QED
  BY <1>1, InductiveInvariant, PTL

\* Only an acceptance makes a revision in a thread's name, and the version it
\* loaded is then the current one.
LEMMA OnlyAcceptancesWrite ==
  ASSUME IInv, Next, NEW t \in Threads, writer' = Append(writer, t)
  PROVE  Unique(text, t) /\ text' = Replaced(text, t) /\ ~published
<1>1. writer \in Seq(Threads \cup {NoThread}) /\ NoThread \notin Threads
  BY CommentsAssumption DEF IInv, TypeOK
<1>2. writer' # writer /\ writer' # Append(writer, NoThread)
  BY <1>1
<1>3. PICK r \in Requests : WriteSuggestion(r)
  BY <1>2 DEF Next, RequestStep, EditText, Publish, Touch, NewRevision,
              BeginCreate, BeginThreadReopen, BeginAccept, BeginClose, BeginReply, Load,
              Post, NotifyMentions, CommitClose, CommitThreadReopen, RefreshReport,
              CloseAccepted, Abandon, report
<1>4. /\ rq[r].op = "accept" /\ FreshWrite(r)
      /\ text' = Replaced(rq[r].seen, rq[r].on)
      /\ writer' = Append(writer, rq[r].on)
  BY <1>2, <1>3 DEF WriteSuggestion
<1>5. rq[r].on \in Threads /\ Sound(rq[r])
  BY <1>4 DEF IInv, SessionsSound, Sound
<1>6. rq[r].on = t
  <2>1. \A x \in Threads : Append(writer, x)[Len(writer) + 1] = x
    BY <1>1
  <2> QED
    BY <1>4, <1>5, <2>1
<1> QED
  BY <1>4, <1>5, <1>6 DEF Sound, FreshWrite

\* "Refused rather than clobbering a concurrent edit": the versioned UPDATE of
\* accept_suggestion replaces the quote in the text as it is.
THEOREM SuggestionsSpareEdits == Spec => NoEditIsClobbered
<1>1. IInv /\ [Next]_vars =>
        [\A t \in Threads :
           writer' = Append(writer, t) =>
             Unique(text, t) /\ text' = Replaced(text, t)]_vars
  BY OnlyAcceptancesWrite
<1> QED
  BY <1>1, InductiveInvariant, PTL DEF Spec, NoEditIsClobbered

\* "Never once the report is published": an acceptance that was under way when
\* the report was published fails on its version.
THEOREM FinishedTextStays == Spec => PublishedTextFrozen
<1>1. ASSUME IInv, Next, published
      PROVE  UNCHANGED text
  <2>1. ASSUME NEW r \in Requests, WriteSuggestion(r)
        PROVE  UNCHANGED text
    BY <1>1, <2>1 DEF WriteSuggestion, FreshWrite, IInv, SessionsSound, Sound
  <2> QED
    BY <1>1, <2>1 DEF Next, RequestStep, EditText, Publish, Touch,
              BeginCreate, BeginThreadReopen, BeginAccept, BeginClose, BeginReply, Load,
              Post, NotifyMentions, CommitClose, CommitThreadReopen, RefreshReport,
              CloseAccepted, Abandon, report
<1>2. IInv /\ [Next]_vars => [published => UNCHANGED text]_vars
  BY <1>1
<1> QED
  BY <1>2, InductiveInvariant, PTL DEF Spec, PublishedTextFrozen
=============================================================================
