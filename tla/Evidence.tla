------------------------------ MODULE Evidence ------------------------------
(***************************************************************************)
(* One evidence item an adjacent system offers in several revisions, the   *)
(* notebook sources analysts make of it, and a report that cites them      *)
(* (services/evidence.py).                                                 *)
(*                                                                         *)
(* A revision is received once, in whatever order the producer's calls     *)
(* arrive, and supersedes the open ones.  Analysts accept or reject an     *)
(* offer; the producer's withdrawal is recorded by a writer.  Every        *)
(* request decides on the state it loaded and writes by primary key, the   *)
(* mapper writing the state only if the request changed it.  A publication *)
(* freezes the revisions behind its citations.                             *)
(***************************************************************************)
EXTENDS Naturals, FiniteSets

CONSTANTS
  Requests,   \* requests that may be active at once
  Revisions,  \* revisions of the item
  None,
  MaxSources  \* bound: acceptances

ASSUME EvidenceAssumption ==
  /\ None \notin Revisions /\ None \notin Nat
  /\ MaxSources \in Nat

SourceIds == 1..MaxSources

VARIABLES
  state,      \* EvidenceReference.state, "ABSENT" before the row exists
  source,     \* EvidenceReference.source_id
  origin,     \* the revision a source was made of, None before it exists
  sources,    \* sources that have not been deleted
  cited,      \* the sources the report cites
  product,    \* what the published snapshot froze, None before publication
  rq,         \* each request's session
  last,       \* the revision received last
  withdrawn,  \* revisions the producer withdrew
  rejected,   \* revisions an analyst rejected at some time
  raced       \* some request has written although what it loaded had changed

vars == <<state, source, origin, sources, cited, product, rq, last, withdrawn,
          rejected, raced>>
offers  == <<state, source>>
library == <<origin, sources, cited, product>>
history == <<last, withdrawn, rejected>>

State == {"ABSENT", "PENDING", "ACCEPTED", "REJECTED", "SUPERSEDED", "REVOKED"}

\* A session: its operation, the revision it is about, the state it loaded, and
\* the open revisions an intake is about to supersede.
Session == [op : {"none", "intake", "accept", "reject", "revoke"},
            rev : Revisions \cup {None}, seen : State, older : SUBSET Revisions]
Idle == [op |-> "none", rev |-> None, seen |-> "ABSENT", older |-> {}]

-----------------------------------------------------------------------------
\* The states intake supersedes (faulty variant: undecided offers only).
SupersedablePending == {v \in Revisions : state[v] = "PENDING"}
Supersedable        == {v \in Revisions : state[v] \in {"PENDING", "ACCEPTED"}}

\* accept goes ahead unless the offer is accepted, superseded or revoked
\* (faulty variant: without the test for a revocation).
AcceptableRevoked == {"PENDING", "REJECTED", "REVOKED"}
Acceptable        == {"PENDING", "REJECTED"}

\* manifest and revoked_for_report: the revisions whose source the report cites.
Behind(links) == {v \in Revisions : source[v] \in links}

Init ==
  /\ state = [v \in Revisions |-> "ABSENT"]
  /\ source = [v \in Revisions |-> None]
  /\ origin = [s \in SourceIds |-> None]
  /\ sources = {} /\ cited = {} /\ product = None
  /\ rq = [r \in Requests |-> Idle]
  /\ last = None /\ withdrawn = {} /\ rejected = {} /\ raced = FALSE

\* A request starts and loads the revision it is about.
Load(r, op, v) ==
  /\ rq[r].op = "none"
  /\ rq' = [rq EXCEPT ![r] = [op |-> op, rev |-> v, seen |-> state[v],
                              older |-> IF op = "intake" THEN Supersedable ELSE {}]]
  /\ UNCHANGED <<offers, library, history, raced>>

Done(r) == rq' = [rq EXCEPT ![r] = Idle]

\* The request writes: was what it decided on still so?
Wrote(r) ==
  LET stale == \/ state[rq[r].rev] # rq[r].seen
               \/ rq[r].op = "intake" /\ Supersedable # rq[r].older
  IN  raced' = (raced \/ stale)

-----------------------------------------------------------------------------
\* intake: a replay of a revision changes nothing.
BeginIntake(r, v) == state[v] = "ABSENT" /\ Load(r, "intake", v)

\* The unique identity fails an intake another one has overtaken.
CommitIntake(r) ==
  LET v == rq[r].rev
  IN  /\ rq[r].op = "intake"
      /\ Done(r)
      /\ IF state[v] # "ABSENT" THEN UNCHANGED <<offers, history, raced>>
         ELSE /\ state' = [u \in Revisions |->
                             IF u = v THEN "PENDING"
                             ELSE IF u \in rq[r].older THEN "SUPERSEDED"
                             ELSE state[u]]
              /\ last' = v
              /\ Wrote(r)
              /\ UNCHANGED <<source, withdrawn, rejected>>
      /\ UNCHANGED library

\* accept
BeginAccept(r, v) == state[v] \in Acceptable /\ Load(r, "accept", v)

\* The source and the state that names it are one transaction.
CommitAccept(r) ==
  LET v == rq[r].rev
  IN  /\ rq[r].op = "accept"
      /\ \E s \in SourceIds :
           /\ origin[s] = None /\ \A t \in SourceIds : t < s => origin[t] # None
           /\ origin' = [origin EXCEPT ![s] = v]
           /\ sources' = sources \cup {s}
           /\ source' = [source EXCEPT ![v] = s]
      /\ state' = [state EXCEPT ![v] = "ACCEPTED"]
      /\ Wrote(r) /\ Done(r)
      /\ UNCHANGED <<cited, product, history>>

\* reject; rejecting a rejected offer again writes no state.
BeginReject(r, v) == state[v] = "PENDING" /\ Load(r, "reject", v)

CommitReject(r) ==
  /\ rq[r].op = "reject"
  /\ state' = [state EXCEPT ![rq[r].rev] = "REJECTED"]
  /\ rejected' = rejected \cup {rq[r].rev}
  /\ Wrote(r) /\ Done(r)
  /\ UNCHANGED <<source, library, last, withdrawn>>

\* revoke, in any state.
BeginRevoke(r, v) == state[v] # "ABSENT" /\ Load(r, "revoke", v)

CommitRevoke(r) ==
  LET v == rq[r].rev
  IN  /\ rq[r].op = "revoke"
      /\ state' = IF rq[r].seen = "REVOKED" THEN state
                  ELSE [state EXCEPT ![v] = "REVOKED"]
      /\ withdrawn' = withdrawn \cup {v}
      /\ Wrote(r) /\ Done(r)
      /\ UNCHANGED <<source, library, last, rejected>>

\* The server dies or the client goes away: the session rolls back.
Abandon(r) ==
  rq[r].op # "none" /\ Done(r) /\ UNCHANGED <<offers, library, history, raced>>

-----------------------------------------------------------------------------
\* set_citations, until the report is published.
Cite ==
  /\ product = None
  /\ cited' \in SUBSET sources
  /\ UNCHANGED <<offers, origin, sources, product, rq, history, raced>>

\* delete_source: the foreign keys drop the citation and clear source_id.
Unlinked(s) == [v \in Revisions |-> IF source[v] = s THEN None ELSE source[v]]

DeleteSource(s) ==
  /\ s \in sources
  /\ sources' = sources \ {s}
  /\ cited' = cited \ {s}
  /\ source' = Unlinked(s)
  /\ UNCHANGED <<state, origin, product, rq, history, raced>>

\* publish freezes the citations and the manifest (faulty variant: of revisions
\* that have not been superseded).
ManifestOpen == {v \in Behind(cited) : state[v] = "ACCEPTED"}
Manifest     == Behind(cited)

Publish ==
  /\ product = None
  /\ product' = [sources |-> cited, manifest |-> Manifest]
  /\ UNCHANGED <<offers, origin, sources, cited, rq, history, raced>>

\* The notice a published report shows (faulty variant: of revisions that were
\* accepted and not superseded when they were withdrawn).
NoticePending == {v \in Behind(cited) : state[v] = "REVOKED" /\ v = last}
Notice        == {v \in Behind(cited) : state[v] = "REVOKED"}

RequestStep(r) ==
  \/ \E v \in Revisions : \/ BeginIntake(r, v) \/ BeginAccept(r, v)
                          \/ BeginReject(r, v) \/ BeginRevoke(r, v)
  \/ CommitIntake(r) \/ CommitAccept(r) \/ CommitReject(r) \/ CommitRevoke(r)
  \/ Abandon(r)

Next ==
  \/ \E r \in Requests : RequestStep(r)
  \/ Cite \/ Publish
  \/ \E s \in SourceIds : DeleteSource(s)

Spec == Init /\ [][Next]_vars

-----------------------------------------------------------------------------
TypeOK ==
  /\ state \in [Revisions -> State]
  /\ source \in [Revisions -> sources \cup {None}]
  /\ origin \in [SourceIds -> Revisions \cup {None}]
  /\ sources \subseteq {s \in SourceIds : origin[s] # None}
  /\ cited \subseteq sources
  /\ product \in [sources : SUBSET SourceIds, manifest : SUBSET Revisions]
                   \cup {None}
  /\ rq \in [Requests -> Session]
  /\ last \in Revisions \cup {None}
  /\ withdrawn \subseteq Revisions /\ rejected \subseteq Revisions
  /\ raced \in BOOLEAN

\* "REVOKED and SUPERSEDED are terminal: they record what the producer did, not
\* what an analyst decided."  Only a request that loaded the offer before the
\* producer's word arrived, and writes after it, can take that word back.
ProducersWordOverruledOnlyByRace ==
  [][\A v \in Revisions :
       state[v] = "REVOKED" /\ state'[v] # "REVOKED" => raced']_vars

\* "A new revision supersedes its predecessor": unless requests race, an open
\* offer is the newest arrival, or was rejected before a newer one arrived
\* and accepted after all.
OpenIsNewest ==
  ~raced => \A v \in Revisions \ {last} :
              /\ state[v] # "PENDING"
              /\ state[v] = "ACCEPTED" => v \in rejected

\* "The finished record still says where its evidence came from": unless
\* acceptances race, the manifest names the origin of every citation.
ManifestNamesOrigins ==
  ~raced /\ product # None =>
    product.manifest = {origin[s] : s \in product.sources}

\* "The citation stays and is flagged": unless requests race, evidence behind a
\* product that is withdrawn shows on it while its source exists.
WithdrawalIsShown ==
  ~raced /\ product # None =>
    \A s \in product.sources \cap sources :
      origin[s] \in withdrawn => origin[s] \in Notice
=============================================================================
