---------------------------- MODULE FeedReview ----------------------------
(***************************************************************************)
(* What analysts do with the articles a poll stored: scan them for         *)
(* indicators, decide the candidates, reopen decisions, capture articles   *)
(* in a notebook - while the retention command prunes what nobody touched  *)
(* (services/feed_indicators.py, services/feeds.py, services/iocs.py).     *)
(*                                                                         *)
(* A request loads a row and commits later.  An UPDATE goes by primary key *)
(* and writes the columns that differ from what the request loaded; when   *)
(* the row is gone it matches nothing and the request fails, which is      *)
(* modelled by dooming the requests of a row that is deleted.              *)
(***************************************************************************)
EXTENDS Naturals, FiniteSets

CONSTANTS Articles,     \* guids the remote feed serves
          Suspicious,   \* those whose text holds an indicator
          Analysts,     \* requests and command runs in flight at once
          MaxIocs       \* bound: IOC rows ever created

NoArticle == "no article"

ASSUME ReviewAssumption ==
    /\ Suspicious \subseteq Articles /\ NoArticle \notin Articles
    /\ MaxIocs \in Nat

VARIABLES
    item,       \* [Articles -> row of FeedItem, or NoRow]
    cand,       \* [Articles -> row of the candidate found in it, or NoRow]
    linked,     \* articles a Source of the notebook names (feed_item_id)
    iocs,       \* [1..MaxIocs -> "none", "live" or "deleted"]
    iocOf,      \* [1..MaxIocs -> article whose candidate row it was made for]
    cited,      \* IOCs a report cites (ReportIOC)
    review,     \* [Analysts -> local state of the request]
    overtaken   \* articles with a decision written over a newer one

reviewVars == <<item, cand, linked, iocs, iocOf, cited, review, overtaken>>

IocIds == 1..MaxIocs
NoRow == [row |-> FALSE]
Idle == [op |-> "idle"]

Fresh == [row |-> TRUE, ingested |-> FALSE, old |-> FALSE, scan |-> "none"]
Undecided == [row |-> TRUE, status |-> "pending", ioc |-> 0, dup |-> 0]

ItemRows == [row : {TRUE}, ingested : BOOLEAN, old : BOOLEAN,
             scan : {"none", "clean", "error"}] \cup {NoRow}
CandidateRows == [row : {TRUE},
                  status : {"pending", "accepted", "rejected", "duplicate"},
                  ioc : 0..MaxIocs, dup : 0..MaxIocs] \cup {NoRow}

ReviewInit ==
    /\ item = [a \in Articles |-> NoRow]
    /\ cand = [a \in Articles |-> NoRow]
    /\ linked = {}
    /\ iocs = [i \in IocIds |-> "none"]
    /\ iocOf = [i \in IocIds |-> NoArticle]
    /\ cited = {}
    /\ review = [r \in Analysts |-> Idle]
    /\ overtaken = {}

(***************************************************************************)
(* Rows that disappear                                                     *)
(***************************************************************************)
\* Requests that loaded one of these articles can only fail from now on.
Doomed(gone) ==
    [r \in Analysts |->
        IF review[r].op \in {"decide", "reopen", "extract", "send", "stamp"}
           /\ review[r].a \in gone
        THEN [op |-> "doomed"] ELSE review[r]]

\* DELETE of FeedItem rows: candidates cascade, Source.feed_item_id becomes NULL.
DeleteItems(gone) ==
    /\ item' = [a \in Articles |-> IF a \in gone THEN NoRow ELSE item[a]]
    /\ cand' = [a \in Articles |-> IF a \in gone THEN NoRow ELSE cand[a]]
    /\ linked' = linked \ gone
    /\ iocOf' = [i \in IocIds |-> IF iocOf[i] \in gone THEN NoArticle ELSE iocOf[i]]
    /\ overtaken' = overtaken \ gone

\* DELETE of an IOC row: ReportIOC cascades, candidates' references become NULL.
WithoutIoc(c, i) ==
    IF c.row THEN [c EXCEPT !.ioc = IF @ = i THEN 0 ELSE @,
                            !.dup = IF @ = i THEN 0 ELSE @]
             ELSE c

(***************************************************************************)
(* Arrival, ageing and removal of articles                                 *)
(***************************************************************************)
Arrive(a) ==
    /\ ~item[a].row
    /\ item' = [item EXCEPT ![a] = Fresh]
    /\ UNCHANGED <<cand, linked, iocs, iocOf, cited, review, overtaken>>

GrowOld(a) ==
    /\ item[a].row /\ ~item[a].old
    /\ item' = [item EXCEPT ![a].old = TRUE]
    /\ UNCHANGED <<cand, linked, iocs, iocOf, cited, review, overtaken>>

DropFeed ==
    /\ \E a \in Articles : item[a].row
    /\ DeleteItems(Articles)
    /\ review' = Doomed(Articles)
    /\ UNCHANGED <<iocs, cited>>

Stale(a) == item[a].row /\ item[a].old /\ ~item[a].ingested /\ ~cand[a].row

BeginPrune(r) ==
    /\ review[r] = Idle
    /\ \E a \in Articles : Stale(a)
    /\ review' = [review EXCEPT ![r] =
                    [op |-> "prune", ids |-> {a \in Articles : Stale(a)}]]
    /\ UNCHANGED <<item, cand, linked, iocs, iocOf, cited, overtaken>>

\* The second statement deletes by the keys the first one listed.
CommitPrune(r) ==
    /\ review[r].op = "prune"
    /\ DeleteItems(review[r].ids)
    /\ review' = [Doomed(review[r].ids) EXCEPT ![r] = Idle]
    /\ UNCHANGED <<iocs, cited>>

(***************************************************************************)
(* Scanning                                                                *)
(***************************************************************************)
AlreadyScanned(a) == item[a].scan = "clean"

BeginExtract(r, a) ==
    /\ review[r] = Idle
    /\ item[a].row /\ ~AlreadyScanned(a)
    /\ review' = [review EXCEPT ![r] = [op |-> "extract", a |-> a]]
    /\ UNCHANGED <<item, cand, linked, iocs, iocOf, cited, overtaken>>

\* A candidate that exists violates uq_feed_indicator_candidate_match; that, or
\* any other exception, rolls back and is recorded on the item.
CommitExtract(r) ==
    /\ review[r].op = "extract"
    /\ LET a == review[r].a IN
       \/ /\ ~cand[a].row
          /\ cand' = [cand EXCEPT ![a] = IF a \in Suspicious THEN Undecided ELSE @]
          /\ item' = [item EXCEPT ![a].scan = "clean"]
       \/ /\ item' = [item EXCEPT ![a].scan = "error"]
          /\ UNCHANGED cand
    /\ review' = [review EXCEPT ![r] = Idle]
    /\ UNCHANGED <<linked, iocs, iocOf, cited, overtaken>>

(***************************************************************************)
(* Deciding a candidate                                                    *)
(***************************************************************************)
Decisions == {"accepted", "rejected", "duplicate"}

\* Faulty variant: a decided candidate may be decided again.
DecidableAlways(c) == c.row
Decidable(c) == c.row /\ c.status = "pending"

BeginDecide(r, a, d) ==
    /\ review[r] = Idle
    /\ Decidable(cand[a])
    /\ review' = [review EXCEPT ![r] =
                    [op |-> "decide", a |-> a, d |-> d, seen |-> cand[a]]]
    /\ UNCHANGED <<item, cand, linked, iocs, iocOf, cited, overtaken>>

Overtakes(r) ==
    IF cand[review[r].a] = review[r].seen THEN overtaken
    ELSE overtaken \cup {review[r].a}

\* _ensure_source and create_ioc flush in the same transaction as the candidate.
Accept(r) ==
    /\ review[r].op = "decide" /\ review[r].d = "accepted"
    /\ LET a == review[r].a IN
       \E i \in IocIds :
          /\ iocs[i] = "none" /\ \A j \in IocIds : j < i => iocs[j] # "none"
          /\ iocs' = [iocs EXCEPT ![i] = "live"]
          /\ iocOf' = [iocOf EXCEPT ![i] = a]
          /\ cand' = [cand EXCEPT ![a].status = "accepted", ![a].ioc = i]
          /\ item' = [item EXCEPT ![a].ingested = TRUE]
          /\ linked' = linked \cup {a}
    /\ overtaken' = Overtakes(r)
    /\ review' = [review EXCEPT ![r] = Idle]
    /\ UNCHANGED cited

Reject(r) ==
    /\ review[r].op = "decide" /\ review[r].d = "rejected"
    /\ cand' = [cand EXCEPT ![review[r].a].status = "rejected"]
    /\ overtaken' = Overtakes(r)
    /\ review' = [review EXCEPT ![r] = Idle]
    /\ UNCHANGED <<item, linked, iocs, iocOf, cited>>

MarkDuplicate(r) ==
    /\ review[r].op = "decide" /\ review[r].d = "duplicate"
    /\ \E i \in IocIds :
          /\ iocs[i] = "live"
          /\ cand' = [cand EXCEPT ![review[r].a].status = "duplicate",
                                  ![review[r].a].dup = i]
    /\ overtaken' = Overtakes(r)
    /\ review' = [review EXCEPT ![r] = Idle]
    /\ UNCHANGED <<item, linked, iocs, iocOf, cited>>

(***************************************************************************)
(* Reopening: a cited IOC is refused, any other is deleted                 *)
(***************************************************************************)
BeginReopen(r, a) ==
    /\ review[r] = Idle
    /\ cand[a].row /\ cand[a].status # "pending"
    /\ cand[a].ioc \notin cited
    /\ review' = [review EXCEPT ![r] = [op |-> "reopen", a |-> a, seen |-> cand[a]]]
    /\ UNCHANGED <<item, cand, linked, iocs, iocOf, cited, overtaken>>

\* Setting a column that was loaded as NULL to NULL writes nothing.
Reset(c, seen) ==
    [c EXCEPT !.status = "pending",
              !.ioc = IF seen.ioc # 0 THEN 0 ELSE @,
              !.dup = IF seen.dup # 0 THEN 0 ELSE @]

CommitReopen(r) ==
    /\ review[r].op = "reopen"
    /\ LET a == review[r].a
           i == review[r].seen.ioc
       IN /\ iocs' = [j \in IocIds |-> IF j = i THEN "deleted" ELSE iocs[j]]
          /\ cited' = cited \ {i}
          /\ cand' = [b \in Articles |->
                        LET c == IF i # 0 THEN WithoutIoc(cand[b], i) ELSE cand[b]
                        IN IF b = a THEN Reset(c, review[r].seen) ELSE c]
    /\ overtaken' = Overtakes(r)
    /\ review' = [review EXCEPT ![r] = Idle]
    /\ UNCHANGED <<item, linked, iocOf>>

(***************************************************************************)
(* Capturing an article: two commits                                       *)
(***************************************************************************)
BeginSend(r, a) ==
    /\ review[r] = Idle
    /\ item[a].row
    /\ review' = [review EXCEPT ![r] =
                    [op |-> IF a \in linked THEN "stamp" ELSE "send", a |-> a]]
    /\ UNCHANGED <<item, cand, linked, iocs, iocOf, cited, overtaken>>

CaptureSource(r) ==
    /\ review[r].op = "send"
    /\ IF review[r].a \in linked       \* uq_source_notebook_feed_item
       THEN review' = [review EXCEPT ![r] = Idle] /\ UNCHANGED linked
       ELSE /\ linked' = linked \cup {review[r].a}
            /\ review' = [review EXCEPT ![r].op = "stamp"]
    /\ UNCHANGED <<item, cand, iocs, iocOf, cited, overtaken>>

StampItem(r) ==
    /\ review[r].op = "stamp"
    /\ item' = [item EXCEPT ![review[r].a].ingested = TRUE]
    /\ review' = [review EXCEPT ![r] = Idle]
    /\ UNCHANGED <<cand, linked, iocs, iocOf, cited, overtaken>>

(***************************************************************************)
(* The notebook and the report beside them; requests that go away          *)
(***************************************************************************)
CiteIoc(i) ==
    /\ iocs[i] = "live" /\ i \notin cited
    /\ cited' = cited \cup {i}
    /\ UNCHANGED <<item, cand, linked, iocs, iocOf, review, overtaken>>

DeleteIoc(i) ==
    /\ iocs[i] = "live"
    /\ iocs' = [iocs EXCEPT ![i] = "deleted"]
    /\ cited' = cited \ {i}
    /\ cand' = [a \in Articles |-> WithoutIoc(cand[a], i)]
    /\ UNCHANGED <<item, linked, iocOf, review, overtaken>>

DeleteSource(a) ==
    /\ a \in linked
    /\ linked' = linked \ {a}
    /\ UNCHANGED <<item, cand, iocs, iocOf, cited, review, overtaken>>

AbandonReview(r) ==
    /\ review[r] # Idle
    /\ review' = [review EXCEPT ![r] = Idle]
    /\ UNCHANGED <<item, cand, linked, iocs, iocOf, cited, overtaken>>

ReviewNext ==
    \/ \E a \in Articles : Arrive(a) \/ GrowOld(a) \/ DeleteSource(a)
    \/ DropFeed
    \/ \E i \in IocIds : CiteIoc(i) \/ DeleteIoc(i)
    \/ \E r \in Analysts :
         \/ BeginPrune(r) \/ CommitPrune(r)
         \/ \E a \in Articles : BeginExtract(r, a) \/ BeginReopen(r, a) \/ BeginSend(r, a)
         \/ \E a \in Articles, d \in Decisions : BeginDecide(r, a, d)
         \/ CommitExtract(r) \/ Accept(r) \/ Reject(r) \/ MarkDuplicate(r)
         \/ CommitReopen(r) \/ CaptureSource(r) \/ StampItem(r) \/ AbandonReview(r)

ReviewSpec == ReviewInit /\ [][ReviewNext]_reviewVars

(***************************************************************************)
(* Properties                                                              *)
(***************************************************************************)
RequestStates ==
    [op : {"idle", "doomed"}] \cup [op : {"prune"}, ids : SUBSET Articles]
    \cup [op : {"extract", "send", "stamp"}, a : Articles]
    \cup [op : {"decide"}, a : Articles, d : Decisions, seen : CandidateRows]
    \cup [op : {"reopen"}, a : Articles, seen : CandidateRows]

ReviewTypeOK ==
    /\ item \in [Articles -> ItemRows]
    /\ cand \in [Articles -> CandidateRows]
    /\ linked \subseteq Articles
    /\ iocs \in [IocIds -> {"none", "live", "deleted"}]
    /\ iocOf \in [IocIds -> Articles \cup {NoArticle}]
    /\ cited \subseteq IocIds
    /\ review \in [Analysts -> RequestStates]
    /\ overtaken \subseteq Articles

\* An indicator in the notebook stands for a decision: as long as no decision
\* was written over a newer one, every live IOC made from a candidate is the one
\* its accepted candidate names, and a candidate that is not accepted names none
\* (feed_indicators.decide and reopen).  Reopening therefore deletes all that
\* an acceptance made.
DecisionOwnsItsIoc ==
    \A a \in Articles \ overtaken :
        /\ \A i \in IocIds :
              iocs[i] = "live" /\ iocOf[i] = a =>
                  cand[a].row /\ cand[a].status = "accepted" /\ cand[a].ioc = i
        /\ cand[a].row /\ cand[a].status # "accepted" => cand[a].ioc = 0

\* "Only items never captured into a notebook are pruned" (feeds.py:516) and
\* candidate-bearing items are retained (feeds.py:530).  Refuted: a capture may
\* die before its stamp, and a scan or a capture may land between the listing
\* of the rows and their deletion.
PruneSparesEvidence ==
    [][\A r \in Analysts : CommitPrune(r) =>
          \A a \in review[r].ids : ~cand[a].row /\ a \notin linked]_reviewVars

\* A scan recorded as failed found nothing (feed_indicators.extract).  Refuted:
\* the later of two scans fails on the candidates of the first, and so does
\* every scan after it, since only a clean scan is not repeated.
FailedScanFoundNothing ==
    \A a \in Articles : item[a].row /\ item[a].scan = "error" => ~cand[a].row
=============================================================================
