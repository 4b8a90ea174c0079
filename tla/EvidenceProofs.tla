--------------------------- MODULE EvidenceProofs ---------------------------
(***************************************************************************)
(* What the exchange of intelligence guarantees for any number of          *)
(* requests: the producer's word on evidence taken in, the bundles served  *)
(* from the cache of the TAXII server, and what a consumer of its pages    *)
(* may miss.                                                               *)
(***************************************************************************)
EXTENDS Evidence, Taxii, FiniteSetTheorems, WellFoundedInduction, TLAPS

(***************************************************************************)
(* What evidence intake guarantees for any number of requests, revisions   *)
(* and sources: the producer's word is overruled only by a request that    *)
(* raced it, and as long as no request has written on what it loaded too   *)
(* early, offers, manifests and withdrawal notices agree.                  *)
(***************************************************************************)

\* A session knows the state its operation needs.
SessionShape ==
  \A r \in Requests :
    /\ rq[r].op # "none" => rq[r].rev \in Revisions
    /\ rq[r].op = "intake" => rq[r].seen = "ABSENT"
    /\ rq[r].op = "accept" => rq[r].seen \in {"PENDING", "REJECTED"}
    /\ rq[r].op = "reject" => rq[r].seen = "PENDING"

\* Whatever races, a reference names a source made of its revision, only what
\* was rejected is in REJECTED, and a finished product cites what is left of
\* the sources it froze.
Links ==
  /\ \A v \in Revisions : source[v] # None => origin[source[v]] = v
  /\ \A v \in Revisions : state[v] = "REJECTED" => v \in rejected
  /\ product # None =>
       /\ \A s \in product.sources : origin[s] # None
       /\ product.sources \cap sources \subseteq cited

\* Without races a withdrawal stands, a source is the one its revision names,
\* and an undecided or rejected revision has none.
Calm ==
  ~raced =>
    /\ \A v \in withdrawn : state[v] = "REVOKED"
    /\ \A s \in sources : source[origin[s]] = s
    /\ \A s \in sources :
         state[origin[s]] \notin {"ABSENT", "PENDING", "REJECTED"}

IInv == TypeOK /\ SessionShape /\ Links /\ Calm /\ OpenIsNewest
                 /\ ManifestNamesOrigins

-----------------------------------------------------------------------------
LEMMA IdleType == Idle \in Session
  BY DEF Idle, Session, State

\* Every field keeps its type, and every session what its operation needs.
LEMMA TypeStep ==
  ASSUME TypeOK, SessionShape, [Next]_vars
  PROVE  TypeOK' /\ SessionShape'
<1>. USE DEF offers, library, history
<1>1. CASE UNCHANGED vars
  BY <1>1 DEF vars, TypeOK, SessionShape
<1>2. ASSUME NEW r \in Requests, NEW v \in Revisions,
             NEW op \in {"intake", "accept", "reject", "revoke"}, Load(r, op, v),
             op = "intake" => state[v] = "ABSENT",
             op = "accept" => state[v] \in {"PENDING", "REJECTED"},
             op = "reject" => state[v] = "PENDING"
      PROVE  TypeOK' /\ SessionShape'
  <2> DEFINE new == [op |-> op, rev |-> v, seen |-> state[v],
                     older |-> IF op = "intake" THEN Supersedable ELSE {}]
  <2>1. new \in Session
    BY DEF TypeOK, Session, Supersedable
  <2>2. rq' = [rq EXCEPT ![r] = new]
    BY <1>2 DEF Load
  <2>3. TypeOK'
    <3>1. rq' \in [Requests -> Session]
      BY <2>1, <2>2 DEF TypeOK
    <3> QED
      BY <1>2, <3>1 DEF Load, TypeOK
  <2>4. SessionShape'
    BY <1>2, <2>2 DEF TypeOK, SessionShape
  <2> QED
    BY <2>3, <2>4
<1>3. ASSUME NEW r \in Requests, NEW v \in Revisions,
             BeginIntake(r, v) \/ BeginAccept(r, v) \/ BeginReject(r, v)
               \/ BeginRevoke(r, v)
      PROVE  TypeOK' /\ SessionShape'
  BY <1>2, <1>3 DEF BeginIntake, BeginAccept, BeginReject, BeginRevoke, Acceptable
<1>4. ASSUME NEW r \in Requests, Done(r)
      PROVE  rq' \in [Requests -> Session] /\ SessionShape'
  BY <1>4, IdleType DEF Done, TypeOK, SessionShape, Idle
<1>5. ASSUME NEW r \in Requests, CommitIntake(r)
      PROVE  TypeOK' /\ SessionShape'
  <2>1. rq[r].rev \in Revisions
    BY <1>5 DEF CommitIntake, SessionShape
  <2>2. state' \in [Revisions -> State] /\ last' \in Revisions \cup {None}
          /\ raced' \in BOOLEAN
    BY <1>5, <2>1 DEF CommitIntake, TypeOK, State, Wrote
  <2> QED
    BY <1>4, <1>5, <2>2 DEF CommitIntake, TypeOK
<1>6. ASSUME NEW r \in Requests, CommitAccept(r)
      PROVE  TypeOK' /\ SessionShape'
  <2>1. rq[r].rev \in Revisions
    BY <1>6 DEF CommitAccept, SessionShape
  <2>2. PICK s \in SourceIds :
          /\ origin[s] = None
          /\ origin' = [origin EXCEPT ![s] = rq[r].rev]
          /\ sources' = sources \cup {s}
          /\ source' = [source EXCEPT ![rq[r].rev] = s]
    BY <1>6 DEF CommitAccept
  <2>3. /\ state' \in [Revisions -> State] /\ raced' \in BOOLEAN
        /\ origin' \in [SourceIds -> Revisions \cup {None}]
    BY <1>6, <2>1, <2>2 DEF CommitAccept, TypeOK, State, Wrote
  <2>4. sources' \subseteq {t \in SourceIds : origin'[t] # None}
    BY <2>1, <2>2, EvidenceAssumption DEF TypeOK
  <2>5. source' \in [Revisions -> sources' \cup {None}] /\ cited' \subseteq sources'
    BY <1>6, <2>1, <2>2 DEF CommitAccept, TypeOK
  <2> QED
    BY <1>4, <1>6, <2>3, <2>4, <2>5 DEF CommitAccept, TypeOK
<1>7. ASSUME NEW r \in Requests, CommitReject(r) \/ CommitRevoke(r)
      PROVE  TypeOK' /\ SessionShape'
  <2>1. rq[r].rev \in Revisions
    BY <1>7 DEF CommitReject, CommitRevoke, SessionShape
  <2>2. /\ state' \in [Revisions -> State] /\ raced' \in BOOLEAN
        /\ withdrawn' \subseteq Revisions /\ rejected' \subseteq Revisions
    BY <1>7, <2>1 DEF CommitReject, CommitRevoke, TypeOK, State, Wrote
  <2> QED
    BY <1>4, <1>7, <2>2 DEF CommitReject, CommitRevoke, TypeOK
<1>8. ASSUME NEW r \in Requests, Abandon(r)
      PROVE  TypeOK' /\ SessionShape'
  BY <1>4, <1>8 DEF Abandon, TypeOK
<1>9. CASE Cite
  BY <1>9 DEF Cite, TypeOK, SessionShape
<1>10. CASE Publish
  BY <1>10 DEF Publish, Manifest, Behind, TypeOK, SessionShape
<1>11. ASSUME NEW s \in SourceIds, DeleteSource(s)
       PROVE  TypeOK' /\ SessionShape'
  <2>1. source' \in [Revisions -> sources' \cup {None}]
    BY <1>11 DEF DeleteSource, Unlinked, TypeOK
  <2> QED
    BY <1>11, <2>1 DEF DeleteSource, TypeOK, SessionShape
<1> QED
  BY <1>1, <1>3, <1>5, <1>6, <1>7, <1>8, <1>9, <1>10, <1>11
    DEF Next, RequestStep

\* What a request loaded is still so when its write is not a race.
LEMMA FreshWrite ==
  ASSUME NEW r \in Requests, Wrote(r), ~raced'
  PROVE  /\ ~raced
         /\ state[rq[r].rev] = rq[r].seen
         /\ rq[r].op = "intake" => rq[r].older = Supersedable
  BY DEF Wrote

\* Every write keeps the references, the calm and the newest offer.
LEMMA LinksStep ==
  ASSUME IInv, [Next]_vars, TypeOK', SessionShape'
  PROVE  Links' /\ Calm' /\ OpenIsNewest'
<1>. USE DEF offers, library, history
<1>0. TypeOK /\ SessionShape /\ Links /\ Calm /\ OpenIsNewest
  BY DEF IInv
<1>1. CASE UNCHANGED <<offers, library, history, raced>>
  BY <1>0, <1>1 DEF Links, Calm, OpenIsNewest
<1>2. ASSUME NEW r \in Requests, CommitIntake(r)
      PROVE  Links' /\ Calm' /\ OpenIsNewest'
  <2>1. CASE UNCHANGED <<offers, history, raced>>
    BY <1>1, <1>2, <2>1 DEF CommitIntake
  <2>2. CASE state[rq[r].rev] = "ABSENT"
    <3> DEFINE v == rq[r].rev
    <3>1. /\ v \in Revisions /\ last' = v /\ Wrote(r)
          /\ UNCHANGED <<source, library, withdrawn, rejected>>
          /\ \A u \in Revisions : state'[u] =
               IF u = v THEN "PENDING"
               ELSE IF u \in rq[r].older THEN "SUPERSEDED" ELSE state[u]
      BY <1>0, <1>2, <2>2 DEF CommitIntake, SessionShape
    <3>2. Links'
      BY <1>0, <3>1 DEF Links
    <3>3. ASSUME ~raced'
          PROVE  ~raced /\ rq[r].older = Supersedable
      BY <1>2, <3>1, <3>3, FreshWrite DEF CommitIntake
    <3>4. Calm'
      <4> SUFFICES ASSUME ~raced'
                   PROVE  /\ \A u \in withdrawn : state'[u] = "REVOKED"
                          /\ \A s \in sources : source[origin[s]] = s
                          /\ \A s \in sources : state'[origin[s]] \notin
                                {"ABSENT", "PENDING", "REJECTED"}
        BY <3>1 DEF Calm
      <4>1. \A u \in withdrawn : u \in Revisions /\ state[u] = "REVOKED"
        BY <1>0, <3>3 DEF Calm, TypeOK
      <4>2. \A s \in sources : origin[s] \in Revisions /\ origin[s] # v
        BY <1>0, <2>2, <3>1, <3>3, EvidenceAssumption DEF Calm, TypeOK
      <4> QED
        BY <1>0, <2>2, <3>1, <3>3, <4>1, <4>2 DEF Calm, Supersedable
    <3>5. OpenIsNewest'
      BY <1>0, <2>2, <3>1, <3>3 DEF OpenIsNewest, Supersedable, TypeOK
    <3> QED
      BY <3>2, <3>4, <3>5
  <2> QED
    BY <1>2, <2>1, <2>2 DEF CommitIntake
<1>3. ASSUME NEW r \in Requests, CommitAccept(r)
      PROVE  Links' /\ Calm' /\ OpenIsNewest'
  <2> DEFINE v == rq[r].rev
  <2>1. v \in Revisions /\ Wrote(r) /\ rq[r].seen \in {"PENDING", "REJECTED"}
    BY <1>0, <1>3 DEF CommitAccept, SessionShape
  <2>2. PICK s \in SourceIds :
          /\ origin[s] = None
          /\ origin' = [origin EXCEPT ![s] = v]
          /\ sources' = sources \cup {s}
          /\ source' = [source EXCEPT ![v] = s]
    BY <1>3 DEF CommitAccept
  <2>3. state' = [state EXCEPT ![v] = "ACCEPTED"]
          /\ UNCHANGED <<cited, product, history>>
    BY <1>3 DEF CommitAccept
  <2>4. s \notin sources /\ (\A u \in Revisions : source[u] # s) /\ s # None
          /\ v # None
    BY <1>0, <2>1, <2>2, EvidenceAssumption DEF TypeOK, SourceIds
  <2>5. Links'
    <3>1. \A u \in Revisions : source'[u] # None => origin'[source'[u]] = u
      BY <1>0, <2>1, <2>2, <2>4 DEF TypeOK, Links
    <3>2. product # None => s \notin product.sources
      BY <1>0, <2>2 DEF Links
    <3> QED
      BY <1>0, <2>1, <2>2, <2>3, <2>4, <3>1, <3>2 DEF TypeOK, Links
  <2>6. ASSUME ~raced'
        PROVE  ~raced /\ state[v] \in {"PENDING", "REJECTED"}
    BY <2>1, <2>6, FreshWrite
  <2>7. Calm'
    <3> SUFFICES ASSUME ~raced'
                 PROVE  /\ \A u \in withdrawn : state'[u] = "REVOKED"
                        /\ \A t \in sources' : source'[origin'[t]] = t
                        /\ \A t \in sources' : state'[origin'[t]] \notin
                              {"ABSENT", "PENDING", "REJECTED"}
      BY <2>3 DEF Calm
    <3>1. \A u \in withdrawn : u \in Revisions /\ u # v /\ state[u] = "REVOKED"
      BY <1>0, <2>6 DEF Calm, TypeOK
    <3>2. \A t \in sources : t \in SourceIds /\ origin'[t] = origin[t]
                             /\ origin[t] \in Revisions /\ origin[t] # v
      BY <1>0, <2>2, <2>4, <2>6, EvidenceAssumption DEF Calm, TypeOK
    <3>3. origin'[s] = v /\ source'[v] = s /\ state'[v] = "ACCEPTED"
      BY <1>0, <2>1, <2>2, <2>3 DEF TypeOK
    <3> QED
      BY <1>0, <2>1, <2>2, <2>3, <2>6, <3>1, <3>2, <3>3 DEF Calm, TypeOK
  <2>8. OpenIsNewest'
    BY <1>0, <2>1, <2>3, <2>6 DEF OpenIsNewest, Links, TypeOK
  <2> QED
    BY <2>5, <2>7, <2>8
<1>4. ASSUME NEW r \in Requests, CommitReject(r)
      PROVE  Links' /\ Calm' /\ OpenIsNewest'
  <2> DEFINE v == rq[r].rev
  <2>1. /\ v \in Revisions /\ Wrote(r) /\ rq[r].seen = "PENDING"
        /\ state' = [state EXCEPT ![v] = "REJECTED"]
        /\ rejected' = rejected \cup {v}
        /\ UNCHANGED <<source, library, last, withdrawn>>
    BY <1>0, <1>4 DEF CommitReject, SessionShape
  <2>2. ASSUME ~raced'
        PROVE  ~raced /\ state[v] = "PENDING"
    BY <2>1, <2>2, FreshWrite
  <2>3. Links'
    BY <1>0, <2>1 DEF Links, TypeOK
  <2>4. Calm'
    BY <1>0, <2>1, <2>2, EvidenceAssumption DEF Calm, TypeOK
  <2>5. OpenIsNewest'
    BY <1>0, <2>1, <2>2 DEF OpenIsNewest, TypeOK
  <2> QED
    BY <2>3, <2>4, <2>5
<1>5. ASSUME NEW r \in Requests, CommitRevoke(r)
      PROVE  Links' /\ Calm' /\ OpenIsNewest'
  <2> DEFINE v == rq[r].rev
  <2>1. /\ v \in Revisions /\ Wrote(r) /\ withdrawn' = withdrawn \cup {v}
        /\ state' = IF rq[r].seen = "REVOKED" THEN state
                     ELSE [state EXCEPT ![v] = "REVOKED"]
        /\ UNCHANGED <<source, library, last, rejected>>
    BY <1>0, <1>5 DEF CommitRevoke, SessionShape
  <2>2. ASSUME ~raced'
        PROVE  ~raced /\ state[v] = rq[r].seen
    BY <2>1, <2>2, FreshWrite
  <2>3. Links'
    BY <1>0, <2>1 DEF Links, TypeOK
  <2>4. Calm'
    BY <1>0, <2>1, <2>2, EvidenceAssumption DEF Calm, TypeOK
  <2>5. OpenIsNewest'
    BY <1>0, <2>1, <2>2 DEF OpenIsNewest, TypeOK
  <2> QED
    BY <2>3, <2>4, <2>5
<1>6. CASE Cite
  BY <1>0, <1>6 DEF Cite, Links, Calm, OpenIsNewest
<1>7. CASE Publish
  <2>1. Links'
    BY <1>0, <1>7 DEF Publish, Links, TypeOK
  <2> QED
    BY <1>0, <1>7, <2>1 DEF Publish, Calm, OpenIsNewest
<1>8. ASSUME NEW s \in SourceIds, DeleteSource(s)
      PROVE  Links' /\ Calm' /\ OpenIsNewest'
  <2>1. \A v \in Revisions :
          source'[v] = IF source[v] = s THEN None ELSE source[v]
    BY <1>8 DEF DeleteSource, Unlinked
  <2>2. Links'
    BY <1>0, <1>8, <2>1 DEF DeleteSource, Links
  <2>3. Calm'
    BY <1>0, <1>8, <2>1, EvidenceAssumption DEF DeleteSource, Calm, TypeOK
  <2> QED
    BY <1>0, <1>8, <2>2, <2>3 DEF DeleteSource, OpenIsNewest
<1>9. ASSUME NEW r \in Requests, NEW v \in Revisions,
             BeginIntake(r, v) \/ BeginAccept(r, v) \/ BeginReject(r, v)
               \/ BeginRevoke(r, v) \/ Abandon(r)
      PROVE  UNCHANGED <<offers, library, history, raced>>
  BY <1>9 DEF BeginIntake, BeginAccept, BeginReject, BeginRevoke, Abandon, Load
<1>10. ASSUME NEW r \in Requests, Abandon(r)
       PROVE  UNCHANGED <<offers, library, history, raced>>
  BY <1>10 DEF Abandon
<1> QED
  BY <1>1, <1>2, <1>3, <1>4, <1>5, <1>6, <1>7, <1>8, <1>9, <1>10
    DEF Next, RequestStep, vars

\* A manifest is frozen, and names the origins of what was cited.
LEMMA ManifestStep ==
  ASSUME IInv, [Next]_vars
  PROVE  ManifestNamesOrigins'
<1>. USE DEF offers, library, history
<1>0. TypeOK /\ Links /\ Calm /\ ManifestNamesOrigins
  BY DEF IInv
<1>1. CASE UNCHANGED <<product, origin>> /\ (~raced' => ~raced)
  BY <1>0, <1>1 DEF ManifestNamesOrigins
<1>2. CASE Publish
  <2>1. \A s \in cited : s \in sources /\ origin[s] \in Revisions
    BY <1>0 DEF TypeOK
  <2>2. ~raced => Behind(cited) = {origin[s] : s \in cited}
    <3> SUFFICES ASSUME ~raced
                 PROVE  Behind(cited) = {origin[s] : s \in cited}
      OBVIOUS
    <3>1. \A s \in cited : origin[s] \in Behind(cited)
      BY <1>0, <2>1 DEF Calm, Behind
    <3>2. ASSUME NEW v \in Behind(cited)
          PROVE  v \in {origin[s] : s \in cited}
      BY <1>0, <2>1, EvidenceAssumption DEF Behind, Links, TypeOK, SourceIds
    <3> QED
      BY <3>1, <3>2
  <2> QED
    BY <1>2, <2>2 DEF Publish, Manifest, ManifestNamesOrigins
<1>3. ASSUME NEW r \in Requests, CommitAccept(r)
      PROVE  ManifestNamesOrigins'
  <2>1. product' = product /\ (~raced' => ~raced)
    BY <1>3 DEF CommitAccept, Wrote
  <2>2. product # None => \A s \in product.sources : origin'[s] = origin[s]
    BY <1>0, <1>3 DEF CommitAccept, Links, TypeOK
  <2> QED
    BY <1>0, <2>1, <2>2 DEF ManifestNamesOrigins
<1>4. ASSUME NEW r \in Requests,
             CommitIntake(r) \/ CommitReject(r) \/ CommitRevoke(r) \/ Abandon(r)
      PROVE  UNCHANGED <<product, origin>> /\ (~raced' => ~raced)
  <2>1. UNCHANGED <<product, origin>> /\ (Wrote(r) \/ raced' = raced)
    BY <1>4 DEF CommitIntake, CommitReject, CommitRevoke, Abandon
  <2> QED
    BY <2>1, FreshWrite
<1>5. ASSUME NEW r \in Requests, NEW v \in Revisions,
             BeginIntake(r, v) \/ BeginAccept(r, v) \/ BeginReject(r, v)
               \/ BeginRevoke(r, v)
      PROVE  UNCHANGED <<product, origin>> /\ (~raced' => ~raced)
  BY <1>5 DEF BeginIntake, BeginAccept, BeginReject, BeginRevoke, Load
<1>6. ASSUME Cite \/ (\E s \in SourceIds : DeleteSource(s)) \/ UNCHANGED vars
      PROVE  UNCHANGED <<product, origin>> /\ (~raced' => ~raced)
  BY <1>6 DEF Cite, DeleteSource, vars
<1> QED
  BY <1>1, <1>2, <1>3, <1>4, <1>5, <1>6 DEF Next, RequestStep

\* The inductive invariant holds in every reachable state.
THEOREM InductiveInvariant == Spec => []IInv
<1>1. Init => IInv
  <2> SUFFICES ASSUME Init
               PROVE  IInv
    OBVIOUS
  <2>1. TypeOK
    BY IdleType DEF Init, TypeOK, State
  <2>2. SessionShape /\ Links /\ Calm /\ OpenIsNewest /\ ManifestNamesOrigins
    BY DEF Init, SessionShape, Idle, Links, Calm, OpenIsNewest,
      ManifestNamesOrigins
  <2> QED
    BY <2>1, <2>2 DEF IInv
<1>2. IInv /\ [Next]_vars => IInv'
  BY TypeStep, LinksStep, ManifestStep DEF IInv
<1> QED
  BY <1>1, <1>2, PTL DEF Spec

\* Every field keeps its type: in particular a reference never names a source
\* that was deleted.
THEOREM TypeCorrect == Spec => []TypeOK
  BY InductiveInvariant, PTL DEF IInv

\* evidence.intake supersedes: unless requests race, an open offer is the
\* newest arrival or was rejected and then accepted after all.
THEOREM NewestOffer == Spec => []OpenIsNewest
  BY InductiveInvariant, PTL DEF IInv

\* evidence.manifest: unless acceptances race, the record of a product names the
\* revision behind every one of its citations.
THEOREM ManifestComplete == Spec => []ManifestNamesOrigins
  BY InductiveInvariant, PTL DEF IInv

\* evidence.revoked_for_report: unless requests race, evidence that was
\* withdrawn is shown as such on the product it is behind.
THEOREM WithdrawalShown == Spec => []WithdrawalIsShown
<1>1. IInv => WithdrawalIsShown
  <2> SUFFICES ASSUME IInv, ~raced, product # None,
                      NEW s \in product.sources \cap sources,
                      origin[s] \in withdrawn
               PROVE  origin[s] \in Notice
    BY DEF WithdrawalIsShown
  <2>1. source[origin[s]] = s /\ state[origin[s]] = "REVOKED"
    BY DEF IInv, Calm
  <2>2. s \in cited /\ origin[s] \in Revisions
    BY DEF IInv, Links, TypeOK
  <2> QED
    BY <2>1, <2>2 DEF Notice, Behind
<1> QED
  BY <1>1, InductiveInvariant, PTL

\* accept, reject and intake test for a revocation: only one that loaded the
\* offer before the producer withdrew it can write over the withdrawal.
THEOREM OverruledOnlyByRace == Spec => ProducersWordOverruledOnlyByRace
<1>1. IInv /\ [Next]_vars =>
        [\A v \in Revisions :
           state[v] = "REVOKED" /\ state'[v] # "REVOKED" => raced']_vars
  <2> SUFFICES ASSUME IInv, Next, NEW v \in Revisions,
                      state[v] = "REVOKED", state'[v] # "REVOKED"
               PROVE  raced'
    BY DEF vars
  <2>. USE DEF offers, library, history
  <2>0. TypeOK /\ SessionShape
    BY DEF IInv
  <2>1. ASSUME NEW r \in Requests, CommitIntake(r)
        PROVE  raced'
    <3>1. v \in rq[r].older /\ Wrote(r)
      BY <2>0, <2>1 DEF CommitIntake, SessionShape, TypeOK
    <3> QED
      BY <2>1, <3>1 DEF CommitIntake, Wrote, Supersedable
  <2>2. ASSUME NEW r \in Requests, CommitAccept(r) \/ CommitReject(r)
        PROVE  raced'
    BY <2>0, <2>2 DEF CommitAccept, CommitReject, SessionShape, TypeOK, Wrote
  <2>3. ASSUME NEW r \in Requests, CommitRevoke(r) \/ Abandon(r)
        PROVE  raced'
    BY <2>0, <2>3 DEF CommitRevoke, Abandon, SessionShape, TypeOK
  <2>4. ASSUME NEW r \in Requests, NEW u \in Revisions,
               BeginIntake(r, u) \/ BeginAccept(r, u) \/ BeginReject(r, u)
                 \/ BeginRevoke(r, u)
        PROVE  raced'
    BY <2>4 DEF BeginIntake, BeginAccept, BeginReject, BeginRevoke, Load
  <2>5. ASSUME Cite \/ Publish \/ (\E s \in SourceIds : DeleteSource(s))
        PROVE  raced'
    BY <2>5 DEF Cite, Publish, DeleteSource
  <2> QED
    BY <2>1, <2>2, <2>3, <2>4, <2>5 DEF Next, RequestStep
<1> QED
  BY <1>1, InductiveInvariant, PTL DEF Spec, ProducersWordOverruledOnlyByRace

-----------------------------------------------------------------------------
(***************************************************************************)
(* The inductive invariant: a stamp that a request has read and not stored *)
(* is nowhere yet, neither in a row nor in the key of a cached bundle, and *)
(* a bundle cached under the key of the moment is the bundle of the moment *)
(* unless its report changed since its last stamp.  Even then it names the *)
(* same objects, but for the need-to-know marking.                         *)
(***************************************************************************)
Pending == {w \in Sessions : session[w].op \in {"publish", "edit"}}

Stored == {report[r].updated : r \in Exported} \cup {report[r].at : r \in Exported}
          \cup {term[t].stamp : t \in Terms}
          \cup UNION {{p[2] : p \in cache[r].key} : r \in Exported}

Reports == [public : BOOLEAN, at : 0..MaxStamp, updated : 0..MaxStamp,
            terms : SUBSET Terms, scoped : BOOLEAN]

Edits == {Resting}
         \cup [op : {"publish"}, r : Exported, stamp : 1..MaxStamp]
         \cup [op : {"edit"}, t : Terms, stamp : 1..MaxStamp, undo : BOOLEAN]
         \cup [op : {"undo"}, t : Terms]

RowsAndRequests ==
    /\ report \in [Exported -> Reports]
    /\ DOMAIN term = Terms
    /\ session \in [Sessions -> Edits]
    /\ DOMAIN cache = Exported
    /\ now \in 0..MaxStamp
    /\ unstamped \subseteq Exported

StampsAreFresh ==
    /\ Stored \subseteq 0..now
    /\ \A w \in Pending : session[w].stamp \in 1..now /\ session[w].stamp \notin Stored
    /\ \A v, w \in Pending : v # w => session[v].stamp # session[w].stamp

NeedToKnowId == <<"marking", NeedToKnow>>
Named(r) == {<<"report", r>>, <<"marking", Level[r]>>}
            \cup {TermId(r, t) : t \in report[r].terms}
NamesOf(b) == {o.id : o \in b} \ {NeedToKnowId}

CachedUnderTheKey ==
    \A r \in Exported : cache[r].key = Key(r) =>
        /\ r \in Public \ unstamped => cache[r].bundle = Bundle(r)
        /\ IsFiniteSet(cache[r].bundle) /\ NamesOf(cache[r].bundle) = Named(r)

TaxiiInv == RowsAndRequests /\ StampsAreFresh /\ CachedUnderTheKey

LEMMA EditShapes ==
  ASSUME NEW e \in Edits
  PROVE  /\ e.op \in {"resting", "publish", "edit", "undo"}
         /\ e.op = "publish" => e.r \in Exported /\ e.stamp \in 1..MaxStamp
         /\ e.op = "edit" => e.t \in Terms /\ e.stamp \in 1..MaxStamp
         /\ e.op = "undo" => e.t \in Terms
<1>1. CASE e = Resting
  BY <1>1 DEF Resting
<1>2. CASE e \in [op : {"publish"}, r : Exported, stamp : 1..MaxStamp]
  BY <1>2
<1>3. CASE e \in [op : {"edit"}, t : Terms, stamp : 1..MaxStamp, undo : BOOLEAN]
  BY <1>3
<1>4. CASE e \in [op : {"undo"}, t : Terms]
  BY <1>4
<1>5. QED
  BY <1>1, <1>2, <1>3, <1>4 DEF Edits

\* A bundle and its key are read from the report's row and from its terms.
Same(r) == report'[r] = report[r] /\ \A t \in report[r].terms : term'[t] = term[t]

LEMMA SameBundle ==
  ASSUME NEW r \in Exported, Same(r)
  PROVE  Key(r)' = Key(r) /\ Bundle(r)' = Bundle(r)
<1>1. PICK ts : ts = report[r].terms /\ ts = report'[r].terms
  BY DEF Same
<1>2. {term'[t].stamp : t \in ts} = {term[t].stamp : t \in ts}
  BY <1>1 DEF Same
<1>3. {<<t, term'[t].stamp>> : t \in ts} = {<<t, term[t].stamp>> : t \in ts}
  BY <1>1 DEF Same
<1>4. Key(r)' = Key(r)
  BY <1>1, <1>3 DEF Key, Same
<1>5. Modified(r)' = Modified(r)
  BY <1>1, <1>2 DEF Modified, Same
<1>6. Markings(r)' = Markings(r)
  BY DEF Markings, Same
<1>7. {[id |-> TermId(r, t), says |-> {term'[t].stamp, -term'[t].text}, marks |-> Markings(r)] :
          t \in ts}
      = {[id |-> TermId(r, t), says |-> {term[t].stamp, -term[t].text}, marks |-> Markings(r)] :
          t \in ts}
  BY <1>1 DEF Same
<1>8. Bundle(r)' = Bundle(r)
  BY <1>1, <1>5, <1>6, <1>7 DEF Bundle, TermId
<1>9. QED
  BY <1>4, <1>8

\* The key, the names and the date are read from the stamps and the links alone.
SameStamps(r) ==
    /\ report'[r].at = report[r].at /\ report'[r].updated = report[r].updated
    /\ report'[r].terms = report[r].terms
    /\ \A t \in report[r].terms : term'[t].stamp = term[t].stamp

LEMMA SameNames ==
  ASSUME NEW r \in Exported, SameStamps(r)
  PROVE  Key(r)' = Key(r) /\ Named(r)' = Named(r) /\ DateAdded(r)' = DateAdded(r)
<1>1. PICK ts : ts = report[r].terms /\ ts = report'[r].terms
  BY DEF SameStamps
<1>2. {term'[t].stamp : t \in ts} = {term[t].stamp : t \in ts}
  BY <1>1 DEF SameStamps
<1>3. {<<t, term'[t].stamp>> : t \in ts} = {<<t, term[t].stamp>> : t \in ts}
  BY <1>1 DEF SameStamps
<1>4. Key(r)' = Key(r)
  BY <1>1, <1>3 DEF Key, SameStamps
<1>5. Named(r)' = Named(r)
  BY <1>1 DEF Named, TermId
<1>6. DateAdded(r)' = DateAdded(r)
  BY <1>1, <1>2 DEF DateAdded, SameStamps
<1>7. QED
  BY <1>4, <1>5, <1>6

LEMMA SameIsSameStamps ==
  ASSUME NEW r \in Exported, Same(r)
  PROVE  SameStamps(r)
BY DEF Same, SameStamps

(***************************************************************************)
(* Bundles are finite, and name what their report and its terms say.       *)
(***************************************************************************)
LEMMA FiniteImage ==
  ASSUME NEW S, IsFiniteSet(S), NEW T, NEW f \in [S -> T]
  PROVE  IsFiniteSet({f[x] : x \in S})
<1>1. PICK U : U = {f[x] : x \in S}
  OBVIOUS
<1>2. f \in Surjection(S, U)
  BY <1>1 DEF Surjection
<1>3. QED
  BY <1>1, <1>2, FS_Surjection

LEMMA BundleNames ==
  ASSUME NEW r \in Exported, report[r].terms \subseteq Terms
  PROVE  IsFiniteSet(Bundle(r)) /\ NamesOf(Bundle(r)) = Named(r)
<1>1. PICK head, tags, marks :
         /\ head = [id |-> <<"report", r>>, says |-> {Modified(r)}, marks |-> Markings(r)]
         /\ tags = [t \in report[r].terms |->
                      [id |-> TermId(r, t), says |-> {term[t].stamp, -term[t].text},
                       marks |-> Markings(r)]]
         /\ marks = [m \in Markings(r) |->
                       [id |-> <<"marking", m>>, says |-> {}, marks |-> {}]]
  OBVIOUS
<1>2. Bundle(r) = {head} \cup {tags[t] : t \in report[r].terms} \cup {marks[m] : m \in Markings(r)}
  BY <1>1 DEF Bundle
<1>3. IsFiniteSet(Bundle(r))
  <2>1. IsFiniteSet(report[r].terms)
    BY TaxiiAssumption, FS_Subset DEF TaxiiAssumption
  <2>2. IsFiniteSet(Markings(r))
    BY FS_Singleton, FS_Union, FS_EmptySet DEF Markings
  <2>3. IsFiniteSet({tags[t] : t \in report[r].terms})
    <3>1. PICK T : T = {tags[t] : t \in report[r].terms}
      OBVIOUS
    <3>2. tags \in [report[r].terms -> T]
      BY <1>1, <3>1
    <3>3. QED
      BY <2>1, <3>2, FiniteImage
  <2>4. IsFiniteSet({marks[m] : m \in Markings(r)})
    <3>1. PICK T : T = {marks[m] : m \in Markings(r)}
      OBVIOUS
    <3>2. marks \in [Markings(r) -> T]
      BY <1>1, <3>1
    <3>3. QED
      BY <2>2, <3>2, FiniteImage
  <2>5. IsFiniteSet({head})
    BY FS_Singleton
  <2>6. QED
    BY <1>2, <2>3, <2>4, <2>5, FS_Union
<1>4. {o.id : o \in Bundle(r)} = {<<"report", r>>} \cup {TermId(r, t) : t \in report[r].terms}
                                 \cup {<<"marking", m>> : m \in Markings(r)}
  <2>1. head.id = <<"report", r>>
    BY <1>1
  <2>2. \A t \in report[r].terms : tags[t].id = TermId(r, t)
    BY <1>1
  <2>3. \A m \in Markings(r) : marks[m].id = <<"marking", m>>
    BY <1>1
  <2>4. PICK N : N = {o.id : o \in Bundle(r)}
    OBVIOUS
  <2>5. <<"report", r>> \in N
    BY <1>2, <2>1, <2>4
  <2>6. \A t \in report[r].terms : TermId(r, t) \in N
    BY <1>2, <2>2, <2>4
  <2>7. \A m \in Markings(r) : <<"marking", m>> \in N
    BY <1>2, <2>3, <2>4
  <2>8. \A i \in N : \/ i = <<"report", r>> \/ \E t \in report[r].terms : i = TermId(r, t)
                     \/ \E m \in Markings(r) : i = <<"marking", m>>
    BY <1>2, <2>1, <2>2, <2>3, <2>4
  <2>9. N = {<<"report", r>>} \cup {TermId(r, t) : t \in report[r].terms}
            \cup {<<"marking", m>> : m \in Markings(r)}
    BY <2>5, <2>6, <2>7, <2>8
  <2>10. QED
    BY <2>4, <2>9
<1>5. \A t : TermId(r, t) # NeedToKnowId
  BY DEF TermId, NeedToKnowId
<1>6. <<"report", r>> # NeedToKnowId /\ <<"marking", Level[r]>> # NeedToKnowId
  BY TaxiiAssumption DEF NeedToKnowId, TaxiiAssumption
<1>7. QED
  BY <1>3, <1>4, <1>5, <1>6 DEF NamesOf, Named, Markings, NeedToKnowId

LEMMA TaxiiInitInv == TaxiiInit => TaxiiInv
<1> SUFFICES ASSUME TaxiiInit PROVE TaxiiInv
  OBVIOUS
<1>1. RowsAndRequests
  <2>1. report \in [Exported -> Reports]
    <3>1. 0 \in 0..MaxStamp
      BY TaxiiAssumption DEF TaxiiAssumption
    <3>2. [public : {FALSE}, at : {0}, updated : {0}, terms : SUBSET Terms, scoped : {FALSE}]
             \subseteq Reports
      BY <3>1 DEF Reports
    <3>3. QED
      BY <3>2 DEF TaxiiInit
  <2>2. session \in [Sessions -> Edits]
    BY DEF TaxiiInit, Edits
  <2>3. now \in 0..MaxStamp
    BY TaxiiAssumption DEF TaxiiInit, TaxiiAssumption
  <2>4. QED
    BY <2>1, <2>2, <2>3 DEF TaxiiInit, RowsAndRequests
<1>2. Pending = {} /\ Stored \subseteq {0} /\ now = 0
  BY DEF TaxiiInit, Pending, Resting, Stored, Uncached
<1>3. StampsAreFresh
  BY <1>2 DEF StampsAreFresh
<1>4. \A r \in Exported : cache[r].key = {} /\ Key(r) # {}
  BY DEF TaxiiInit, Uncached, Key
<1>5. CachedUnderTheKey
  BY <1>4 DEF CachedUnderTheKey
<1>6. QED
  BY <1>1, <1>3, <1>5 DEF TaxiiInv
(***************************************************************************)
(* What a stamp that is stored, and one that is read, do to the invariant. *)
(***************************************************************************)
LEMMA KeysHoldStoredStamps ==
  ASSUME TaxiiInv, NEW r \in Exported
  PROVE  /\ \A p \in Key(r) : p[2] \in Stored
         /\ \A p \in cache[r].key : p[2] \in Stored
<1>1. report[r].terms \subseteq Terms
  BY DEF TaxiiInv, RowsAndRequests, Reports
<1>2. \A p \in Key(r) : p[2] \in Stored
  <2> SUFFICES ASSUME NEW p \in Key(r) PROVE p[2] \in Stored
    OBVIOUS
  <2>1. CASE p = <<"updated", report[r].updated>> \/ p = <<"published", report[r].at>>
    BY <2>1 DEF Stored
  <2>2. CASE \E t \in report[r].terms : p = <<t, term[t].stamp>>
    BY <1>1, <2>2 DEF Stored
  <2>3. QED
    BY <2>1, <2>2 DEF Key
<1>3. QED
  BY <1>2 DEF Stored

\* A step that stores a fresh stamp leaves no cached bundle under a key of the
\* moment but that of a report it left alone.
LEMMA StampedStep ==
  ASSUME TaxiiInv, NEW s, s \notin Stored,
         UNCHANGED cache,
         \A r \in Exported : \/ Same(r) /\ (r \in unstamped => r \in unstamped')
                            \/ \E p \in Key(r)' : p[2] = s
  PROVE  CachedUnderTheKey'
<1> SUFFICES ASSUME NEW r \in Exported, cache[r].key = Key(r)'
             PROVE  /\ r \in Public' \ unstamped' => cache[r].bundle = Bundle(r)'
                    /\ IsFiniteSet(cache[r].bundle) /\ NamesOf(cache[r].bundle) = Named(r)'
  BY DEF CachedUnderTheKey
<1>1. Same(r) /\ (r \in unstamped => r \in unstamped')
  BY KeysHoldStoredStamps
<1>2. Key(r)' = Key(r) /\ Named(r)' = Named(r) /\ Bundle(r)' = Bundle(r)
  BY <1>1, SameIsSameStamps, SameNames, SameBundle
<1>3. r \in Public' => r \in Public
  BY <1>1 DEF Same, Public
<1>4. QED
  BY <1>1, <1>2, <1>3 DEF TaxiiInv, CachedUnderTheKey

\* A step that stamps nothing changes bundles of unstamped reports alone.
LEMMA UnstampedStep ==
  ASSUME TaxiiInv, UNCHANGED cache, unstamped \subseteq unstamped',
         \A r \in Exported : SameStamps(r) /\ (r \in Public' \ unstamped' => Same(r))
  PROVE  CachedUnderTheKey'
<1> SUFFICES ASSUME NEW r \in Exported, cache[r].key = Key(r)'
             PROVE  /\ r \in Public' \ unstamped' => cache[r].bundle = Bundle(r)'
                    /\ IsFiniteSet(cache[r].bundle) /\ NamesOf(cache[r].bundle) = Named(r)'
  BY DEF CachedUnderTheKey
<1>1. Key(r)' = Key(r) /\ Named(r)' = Named(r)
  BY SameNames
<1>2. r \in Public' \ unstamped' => r \in Public \ unstamped /\ Bundle(r)' = Bundle(r)
  BY SameBundle DEF Same, Public
<1>3. QED
  BY <1>1, <1>2 DEF TaxiiInv, CachedUnderTheKey

LEMMA StoredStep ==
  ASSUME TaxiiInv, NEW s, UNCHANGED cache,
         \A r \in Exported : /\ report'[r].updated \in {report[r].updated, s}
                             /\ report'[r].at \in {report[r].at, s},
         \A t \in Terms : term'[t].stamp \in {term[t].stamp, s}
  PROVE  Stored' \subseteq Stored \cup {s}
BY DEF Stored

LEMMA FreshStep ==
  ASSUME TaxiiInv, NEW s \in 0..now', now' = now \/ now' = now + 1,
         Stored' \subseteq Stored \cup {s},
         \A w \in Pending' : /\ w \in Pending /\ session'[w].stamp = session[w].stamp
                             /\ session[w].stamp # s
  PROVE  StampsAreFresh'
<1>1. now \in 0..MaxStamp
  BY DEF TaxiiInv, RowsAndRequests
<1>2. Stored' \subseteq 0..now'
  BY <1>1 DEF TaxiiInv, StampsAreFresh
<1>3. \A w \in Pending' : session'[w].stamp \in 1..now' /\ session'[w].stamp \notin Stored'
  BY <1>1 DEF TaxiiInv, StampsAreFresh
<1>4. \A v, w \in Pending' : v # w => session'[v].stamp # session'[w].stamp
  BY DEF TaxiiInv, StampsAreFresh
<1>5. QED
  BY <1>2, <1>3, <1>4 DEF StampsAreFresh

\* Requests that a commit ends, or that another request's commit ends.
LEMMA ConflictedSessions ==
  ASSUME TaxiiInv, NEW w, NEW rs, session' = Conflicted(rs, w)
  PROVE  /\ session' \in [Sessions -> Edits]
         /\ \A v \in Pending' : v # w /\ v \in Pending /\ session'[v] = session[v]
<1>1. \A v \in Sessions : session'[v] = Resting \/ (session'[v] = session[v] /\ v # w)
  BY DEF Conflicted
<1>2. session' \in [Sessions -> Edits]
  BY DEF Conflicted, TaxiiInv, RowsAndRequests, Edits
<1>3. \A v \in Sessions : session'[v] = Resting => v \notin Pending'
  BY DEF Pending, Resting
<1>4. QED
  BY <1>1, <1>2, <1>3 DEF Pending

\* A clock that is read gives a stamp that is nowhere yet.
LEMMA ClockIsFresh ==
  ASSUME TaxiiInv, ReadClock
  PROVE  /\ now' \in 1..MaxStamp /\ now' = now + 1 /\ now' \notin Stored
         /\ \A w \in Pending : session[w].stamp # now'
<1>1. now \in 0..MaxStamp /\ MaxStamp \in Nat
  BY TaxiiAssumption DEF TaxiiInv, RowsAndRequests, TaxiiAssumption
<1>2. QED
  BY <1>1 DEF ReadClock, TaxiiInv, StampsAreFresh

LEMMA BeginStep ==
  ASSUME TaxiiInv, NEW w \in Sessions, NEW e \in Edits,
         ReadClock, session' = [session EXCEPT ![w] = e], e.stamp = now',
         UNCHANGED <<report, term, cache, unstamped>>
  PROVE  TaxiiInv'
<1>1. session \in [Sessions -> Edits] /\ now \in 0..MaxStamp /\ Stored' = Stored
  BY DEF TaxiiInv, RowsAndRequests, Stored
<1>2. RowsAndRequests'
  BY <1>1, ClockIsFresh DEF TaxiiInv, RowsAndRequests
<1>3. \A v \in Pending' \ {w} : v \in Pending /\ session'[v] = session[v]
  BY <1>1 DEF Pending
<1>4. w \in Pending' => session'[w].stamp = now'
  BY <1>1
<1>5. StampsAreFresh'
  <2>1. Stored' \subseteq 0..now'
    BY <1>1, ClockIsFresh DEF TaxiiInv, StampsAreFresh
  <2>2. \A v \in Pending' : session'[v].stamp \in 1..now' /\ session'[v].stamp \notin Stored'
    BY <1>1, <1>3, <1>4, ClockIsFresh DEF TaxiiInv, StampsAreFresh
  <2>3. \A u, v \in Pending' : u # v => session'[u].stamp # session'[v].stamp
    BY <1>3, <1>4, ClockIsFresh DEF TaxiiInv, StampsAreFresh
  <2>4. QED
    BY <2>1, <2>2, <2>3 DEF StampsAreFresh
<1>6. CachedUnderTheKey'
  BY UnstampedStep DEF Same, SameStamps
<1>7. QED
  BY <1>2, <1>5, <1>6 DEF TaxiiInv
(***************************************************************************)
(* The steps                                                               *)
(***************************************************************************)
LEMMA CommitPublishStep ==
  ASSUME TaxiiInv, NEW w \in Sessions, CommitPublish(w)
  PROVE  TaxiiInv'
<1>0. report \in [Exported -> Reports] /\ session \in [Sessions -> Edits] /\ now \in 0..MaxStamp
  BY DEF TaxiiInv, RowsAndRequests
<1>1. PICK r \in Exported, s \in 1..MaxStamp : r = session[w].r /\ s = session[w].stamp
  BY <1>0, EditShapes DEF CommitPublish
<1>2. w \in Pending /\ s \notin Stored /\ s \in 1..now
  BY <1>1 DEF CommitPublish, Pending, TaxiiInv, StampsAreFresh
<1>3. /\ report' = [report EXCEPT ![r].public = TRUE, ![r].at = s, ![r].updated = s]
      /\ session' = Conflicted({r}, w)
      /\ UNCHANGED <<term, cache, now>> /\ unstamped' = unstamped \ {r}
  BY <1>1 DEF CommitPublish
<1>4. PICK row : row = [report[r] EXCEPT !.public = TRUE, !.at = s, !.updated = s]
  OBVIOUS
<1>5. row \in Reports /\ row.at = s /\ row.updated = s
  <2>1. s \in 0..MaxStamp /\ report[r] \in Reports
    BY <1>0, TaxiiAssumption DEF TaxiiAssumption
  <2>2. QED
    BY <1>4, <2>1 DEF Reports
<1>6. report' = [report EXCEPT ![r] = row]
  BY <1>0, <1>3, <1>4
<1>7. RowsAndRequests'
  BY <1>0, <1>3, <1>5, <1>6, ConflictedSessions DEF TaxiiInv, RowsAndRequests
<1>8. Stored' \subseteq Stored \cup {s}
  BY <1>0, <1>3, <1>5, <1>6, StoredStep
<1>9. \A v \in Pending' : v \in Pending /\ session'[v] = session[v] /\ session[v].stamp # s
  BY <1>1, <1>2, <1>3, ConflictedSessions DEF TaxiiInv, StampsAreFresh
<1>10. StampsAreFresh'
  <2>1. s \in 0..now' /\ now' = now
    BY <1>0, <1>2, <1>3
  <2>2. QED
    BY <1>8, <1>9, <2>1, FreshStep
<1>11. CachedUnderTheKey'
  <2>1. \A q \in Exported \ {r} : Same(q)
    BY <1>0, <1>3, <1>6 DEF Same
  <2>2. <<"updated", s>> \in Key(r)'
    BY <1>0, <1>5, <1>6 DEF Key
  <2>3. <<"updated", s>>[2] = s
    OBVIOUS
  <2>4. \A q \in Exported : \/ Same(q) /\ (q \in unstamped => q \in unstamped')
                           \/ \E p \in Key(q)' : p[2] = s
    BY <1>3, <2>1, <2>2, <2>3
  <2>5. QED
    BY <1>2, <1>3, <2>4, StampedStep
<1>12. QED
  BY <1>7, <1>10, <1>11 DEF TaxiiInv

LEMMA CommitRenameStep ==
  ASSUME TaxiiInv, NEW w \in Sessions, CommitRename(w)
  PROVE  TaxiiInv'
<1>0. /\ report \in [Exported -> Reports] /\ session \in [Sessions -> Edits]
      /\ now \in 0..MaxStamp /\ DOMAIN term = Terms
  BY DEF TaxiiInv, RowsAndRequests
<1>1. PICK t \in Terms, s \in 1..MaxStamp : t = session[w].t /\ s = session[w].stamp
  BY <1>0, EditShapes DEF CommitRename
<1>2. w \in Pending /\ s \notin Stored /\ s \in 1..now
  BY <1>1 DEF CommitRename, Pending, TaxiiInv, StampsAreFresh
<1>3. /\ term' = [term EXCEPT ![t] = [stamp |-> s, text |-> @.text + 1]]
      /\ report' = [r \in Exported |-> IF r \in Carrying(t)
                                         THEN [report[r] EXCEPT !.updated = s] ELSE report[r]]
      /\ UNCHANGED <<cache, now>> /\ unstamped' = unstamped \ Carrying(t)
  BY <1>1 DEF CommitRename
<1>4. PICK moved : moved = Conflicted(Carrying(t), w)
  OBVIOUS
<1>5. \/ session' = moved
      \/ session' = [moved EXCEPT ![w] = [op |-> "undo", t |-> t]]
  BY <1>1, <1>4 DEF CommitRename
<1>6. \A v \in Sessions : moved[v] = Resting \/ (moved[v] = session[v] /\ v # w)
  BY <1>4 DEF Conflicted
<1>7. moved \in [Sessions -> Edits]
  BY <1>0, <1>4 DEF Conflicted, Edits
<1>8. session' \in [Sessions -> Edits]
  BY <1>5, <1>7 DEF Edits
<1>9. \A v \in Pending' : v \in Pending /\ session'[v] = session[v] /\ v # w
  <2> SUFFICES ASSUME NEW v \in Sessions, session'[v].op \in {"publish", "edit"}
               PROVE  v \in Pending /\ session'[v] = session[v] /\ v # w
    BY DEF Pending
  <2>1. session'[v] = moved[v] /\ moved[v] # Resting
    BY <1>5, <1>6, <1>7 DEF Resting
  <2>2. QED
    BY <1>6, <2>1 DEF Pending
<1>10. \A r \in Exported : /\ report'[r] \in Reports /\ report'[r].at = report[r].at
                           /\ report'[r].updated \in {report[r].updated, s}
                           /\ report'[r].terms = report[r].terms
                           /\ r \in Carrying(t) => report'[r].updated = s
  <2> SUFFICES ASSUME NEW r \in Exported
               PROVE  /\ report'[r] \in Reports /\ report'[r].at = report[r].at
                      /\ report'[r].updated \in {report[r].updated, s}
                      /\ report'[r].terms = report[r].terms
                      /\ r \in Carrying(t) => report'[r].updated = s
    OBVIOUS
  <2>1. report[r] \in Reports
    BY <1>0
  <2>2. CASE r \in Carrying(t)
    BY <1>1, <1>3, <2>1, <2>2 DEF Reports
  <2>3. CASE r \notin Carrying(t)
    BY <1>3, <2>1, <2>3
  <2>4. QED
    BY <2>2, <2>3
<1>11. RowsAndRequests'
  <2>1. report' \in [Exported -> Reports]
    BY <1>3, <1>10
  <2>2. QED
    BY <1>0, <1>3, <1>8, <2>1 DEF TaxiiInv, RowsAndRequests
<1>12. term'[t].stamp = s /\ \A u \in Terms \ {t} : term'[u] = term[u]
  BY <1>0, <1>3
<1>13. Stored' \subseteq Stored \cup {s}
  BY <1>3, <1>10, <1>12, StoredStep
<1>14. \A v \in Pending' : session[v].stamp # s
  BY <1>1, <1>2, <1>9 DEF TaxiiInv, StampsAreFresh
<1>15. StampsAreFresh'
  BY <1>0, <1>2, <1>3, <1>9, <1>13, <1>14, FreshStep
<1>16. CachedUnderTheKey'
  <2>1. \A q \in Exported \ Carrying(t) : Same(q)
    BY <1>0, <1>3, <1>12 DEF Same, Carrying, Reports
  <2>2. \A q \in Carrying(t) : <<"updated", s>> \in Key(q)'
    BY <1>10 DEF Key, Carrying
  <2>3. <<"updated", s>>[2] = s
    OBVIOUS
  <2>4. \A q \in Exported : \/ Same(q) /\ (q \in unstamped => q \in unstamped')
                           \/ \E p \in Key(q)' : p[2] = s
    BY <1>3, <2>1, <2>2, <2>3
  <2>5. QED
    BY <1>2, <1>3, <2>4, StampedStep
<1>17. QED
  BY <1>11, <1>15, <1>16 DEF TaxiiInv

LEMMA FinishUndoStep ==
  ASSUME TaxiiInv, NEW w \in Sessions, FinishUndo(w)
  PROVE  TaxiiInv'
<1>0. /\ report \in [Exported -> Reports] /\ session \in [Sessions -> Edits]
      /\ now \in 0..MaxStamp /\ DOMAIN term = Terms
  BY DEF TaxiiInv, RowsAndRequests
<1>1. PICK t \in Terms : t = session[w].t
  BY <1>0, EditShapes DEF FinishUndo
<1>2. /\ term' = [term EXCEPT ![t] = [stamp |-> now', text |-> @.text + 1]]
      /\ session' = [session EXCEPT ![w] = Resting]
      /\ UNCHANGED <<report, cache>> /\ ReadClock /\ unstamped' = unstamped \ Carrying(t)
  BY <1>1 DEF FinishUndo
<1>3. PICK s : s = now'
  OBVIOUS
<1>4. s \in 1..MaxStamp /\ s = now + 1 /\ s \notin Stored /\ \A v \in Pending : session[v].stamp # s
  BY <1>2, <1>3, ClockIsFresh
<1>5. term'[t].stamp = s /\ \A u \in Terms \ {t} : term'[u] = term[u]
  BY <1>0, <1>2, <1>3
<1>6. RowsAndRequests'
  BY <1>0, <1>2, <1>3, <1>4 DEF TaxiiInv, RowsAndRequests, Edits
<1>7. Stored' \subseteq Stored \cup {s}
  BY <1>2, <1>5, StoredStep
<1>8. \A v \in Pending' : v \in Pending /\ session'[v] = session[v]
  BY <1>0, <1>2 DEF Pending, Resting
<1>9. StampsAreFresh'
  BY <1>0, <1>3, <1>4, <1>7, <1>8, FreshStep
<1>10. CachedUnderTheKey'
  <2>1. \A q \in Exported \ Carrying(t) : Same(q)
    BY <1>2, <1>5 DEF Same, Carrying
  <2>2. \A q \in Carrying(t) : <<t, s>> \in Key(q)'
    BY <1>2, <1>5 DEF Key, Carrying
  <2>3. <<t, s>>[2] = s
    OBVIOUS
  <2>4. \A q \in Exported : \/ Same(q) /\ (q \in unstamped => q \in unstamped')
                           \/ \E p \in Key(q)' : p[2] = s
    BY <1>2, <2>1, <2>2, <2>3
  <2>5. QED
    BY <1>2, <1>4, <2>4, StampedStep
<1>11. QED
  BY <1>6, <1>9, <1>10 DEF TaxiiInv

LEMMA ClassifyStep ==
  ASSUME TaxiiInv, NEW r \in Exported, NEW ts \in SUBSET Terms, Classify(r, ts)
  PROVE  TaxiiInv'
<1>0. report \in [Exported -> Reports] /\ now \in 0..MaxStamp
  BY DEF TaxiiInv, RowsAndRequests
<1>1. PICK s : s = now'
  OBVIOUS
<1>2. /\ report' = [report EXCEPT ![r].terms = ts, ![r].updated = s]
      /\ UNCHANGED <<term, cache>> /\ ReadClock /\ unstamped' = unstamped \ {r}
  BY <1>1 DEF Classify
<1>3. PICK w : session' = Conflicted({r}, w)
  BY DEF Classify
<1>4. s \in 1..MaxStamp /\ s = now + 1 /\ s \notin Stored /\ \A v \in Pending : session[v].stamp # s
  BY <1>1, <1>2, ClockIsFresh
<1>5. PICK row : row = [report[r] EXCEPT !.terms = ts, !.updated = s]
  OBVIOUS
<1>6. row \in Reports /\ row.at = report[r].at /\ row.updated = s
  <2>1. s \in 0..MaxStamp /\ report[r] \in Reports
    BY <1>0, <1>4, TaxiiAssumption DEF TaxiiAssumption
  <2>2. QED
    BY <1>5, <2>1 DEF Reports
<1>7. report' = [report EXCEPT ![r] = row]
  BY <1>0, <1>2, <1>5
<1>8. RowsAndRequests'
  <2>1. now' \in 0..MaxStamp
    BY <1>1, <1>4
  <2>2. session' \in [Sessions -> Edits]
    BY <1>3, ConflictedSessions
  <2>3. QED
    BY <1>0, <1>2, <1>6, <1>7, <2>1, <2>2 DEF TaxiiInv, RowsAndRequests
<1>9. Stored' \subseteq Stored \cup {s}
  BY <1>0, <1>2, <1>6, <1>7, StoredStep
<1>10. \A v \in Pending' : v \in Pending /\ session'[v] = session[v]
  BY <1>3, ConflictedSessions
<1>11. StampsAreFresh'
  BY <1>0, <1>1, <1>4, <1>9, <1>10, FreshStep
<1>12. CachedUnderTheKey'
  <2>1. \A q \in Exported \ {r} : Same(q)
    BY <1>0, <1>2, <1>7 DEF Same
  <2>2. <<"updated", s>> \in Key(r)'
    BY <1>0, <1>6, <1>7 DEF Key
  <2>3. <<"updated", s>>[2] = s
    OBVIOUS
  <2>4. \A q \in Exported : \/ Same(q) /\ (q \in unstamped => q \in unstamped')
                           \/ \E p \in Key(q)' : p[2] = s
    BY <1>2, <2>1, <2>2, <2>3
  <2>5. QED
    BY <1>2, <1>4, <2>4, StampedStep
<1>13. QED
  BY <1>8, <1>11, <1>12 DEF TaxiiInv
\* Steps that read no clock and end or begin no request.
LEMMA UnclockedStep ==
  ASSUME TaxiiInv, UNCHANGED <<session, now>>,
         report' \in [Exported -> Reports], DOMAIN term' = Terms, DOMAIN cache' = Exported,
         unstamped' \subseteq Exported, Stored' \subseteq Stored, CachedUnderTheKey'
  PROVE  TaxiiInv'
<1>1. RowsAndRequests'
  BY DEF TaxiiInv, RowsAndRequests
<1>2. Pending' = Pending
  BY DEF Pending
<1>3. StampsAreFresh'
  BY <1>2 DEF TaxiiInv, StampsAreFresh
<1>4. QED
  BY <1>1, <1>3 DEF TaxiiInv

LEMMA ServedNames ==
  ASSUME TaxiiInv, NEW r \in Exported
  PROVE  /\ r \in Public \ unstamped => Served(r) = Bundle(r)
         /\ IsFiniteSet(Served(r)) /\ NamesOf(Served(r)) = Named(r)
<1>1. report[r].terms \subseteq Terms
  BY DEF TaxiiInv, RowsAndRequests, Reports
<1>2. QED
  BY <1>1, BundleNames DEF Served, TaxiiInv, CachedUnderTheKey

LEMMA PullPageStep ==
  ASSUME TaxiiInv, PullPage
  PROVE  TaxiiInv'
<1>1. /\ cache' = [r \in Exported |-> IF r \in Public
                                      THEN [key |-> Key(r), bundle |-> Served(r)] ELSE cache[r]]
      /\ UNCHANGED <<report, term, session, now, unstamped>>
  BY DEF PullPage
<1>2. Stored' \subseteq Stored
  <2>1. \A r \in Exported : \A p \in cache'[r].key : p[2] \in Stored
    <3> SUFFICES ASSUME NEW r \in Exported, NEW p \in cache'[r].key PROVE p[2] \in Stored
      OBVIOUS
    <3>1. cache'[r].key = Key(r) \/ cache'[r].key = cache[r].key
      BY <1>1
    <3>2. QED
      BY <3>1, KeysHoldStoredStamps
  <2>2. QED
    BY <1>1, <2>1 DEF Stored
<1>3. CachedUnderTheKey'
  <2> SUFFICES ASSUME NEW r \in Exported, cache'[r].key = Key(r)'
               PROVE  /\ r \in Public' \ unstamped => cache'[r].bundle = Bundle(r)'
                      /\ IsFiniteSet(cache'[r].bundle) /\ NamesOf(cache'[r].bundle) = Named(r)'
    BY <1>1 DEF CachedUnderTheKey
  <2>0. Public' = Public
    BY <1>1 DEF Public
  <2>1. Key(r)' = Key(r) /\ Bundle(r)' = Bundle(r) /\ Named(r)' = Named(r)
    BY <1>1, SameBundle, SameIsSameStamps, SameNames DEF Same
  <2>2. CASE r \in Public
    <3>1. cache'[r].bundle = Served(r)
      BY <1>1, <2>2
    <3>2. QED
      BY <2>0, <2>1, <3>1, ServedNames
  <2>3. CASE r \notin Public
    BY <1>1, <2>0, <2>1, <2>3 DEF TaxiiInv, CachedUnderTheKey
  <2>4. QED
    BY <2>2, <2>3
<1>4. QED
  BY <1>1, <1>2, <1>3, UnclockedStep DEF TaxiiInv, RowsAndRequests

LEMMA EvictStep ==
  ASSUME TaxiiInv, NEW r \in Exported, Evict(r)
  PROVE  TaxiiInv'
<1>1. /\ cache' = [cache EXCEPT ![r] = Uncached]
      /\ UNCHANGED <<report, term, session, now, unstamped>>
  BY DEF Evict
<1>2. DOMAIN cache = Exported /\ Uncached.key = {}
  BY DEF TaxiiInv, RowsAndRequests, Uncached
<1>3. \A q \in Exported : cache'[q].key = {} \/ (q # r /\ cache'[q] = cache[q])
  BY <1>1, <1>2
<1>4. Stored' \subseteq Stored
  <2>1. \A q \in Exported : cache'[q].key \subseteq cache[q].key
    BY <1>3
  <2>2. QED
    BY <1>1, <2>1 DEF Stored
<1>5. CachedUnderTheKey'
  <2> SUFFICES ASSUME NEW q \in Exported, cache'[q].key = Key(q)'
               PROVE  /\ q \in Public' \ unstamped => cache'[q].bundle = Bundle(q)'
                      /\ IsFiniteSet(cache'[q].bundle) /\ NamesOf(cache'[q].bundle) = Named(q)'
    BY <1>1 DEF CachedUnderTheKey
  <2>1. Key(q)' = Key(q) /\ Bundle(q)' = Bundle(q) /\ Named(q)' = Named(q)
    BY <1>1, SameBundle, SameIsSameStamps, SameNames DEF Same
  <2>3. Public' = Public
    BY <1>1 DEF Public
  <2>2. Key(q) # {}
    BY DEF Key
  <2>4. QED
    BY <1>3, <2>1, <2>2, <2>3 DEF TaxiiInv, CachedUnderTheKey
<1>6. QED
  BY <1>1, <1>2, <1>4, <1>5, UnclockedStep DEF TaxiiInv, RowsAndRequests

\* What stamps nothing puts the reports it changes among the unstamped.
LEMMA RescopeStep ==
  ASSUME TaxiiInv, NEW r \in Exported, NEW on \in BOOLEAN, Rescope(r, on)
  PROVE  TaxiiInv'
<1>0. report \in [Exported -> Reports]
  BY DEF TaxiiInv, RowsAndRequests
<1>1. /\ report' = [report EXCEPT ![r].scoped = on]
      /\ UNCHANGED <<term, session, cache, now>> /\ unstamped' = unstamped \cup ({r} \cap Public)
  BY DEF Rescope
<1>2. PICK row : row = [report[r] EXCEPT !.scoped = on]
  OBVIOUS
<1>3. row \in Reports /\ row.at = report[r].at /\ row.updated = report[r].updated
  BY <1>0, <1>2 DEF Reports
<1>4. report' = [report EXCEPT ![r] = row]
  BY <1>0, <1>1, <1>2
<1>5. Stored' \subseteq Stored
  BY <1>0, <1>1, <1>3, <1>4 DEF Stored
<1>6. CachedUnderTheKey'
  <2>1. \A q \in Public' \ unstamped' : Same(q)
    <3>1. \A q \in Exported : report'[q].public = report[q].public
      BY <1>0, <1>1 DEF Reports
    <3>2. Public' = Public
      BY <3>1 DEF Public
    <3>3. QED
      BY <1>0, <1>1, <1>4, <3>2 DEF Same
  <2>2. row.terms = report[r].terms
    BY <1>0, <1>2 DEF Reports
  <2>3. \A q \in Exported : SameStamps(q)
    BY <1>0, <1>1, <1>3, <1>4, <2>2 DEF SameStamps
  <2>4. QED
    BY <1>1, <2>1, <2>3, UnstampedStep
<1>7. QED
  BY <1>0, <1>1, <1>3, <1>4, <1>5, <1>6, UnclockedStep DEF TaxiiInv, RowsAndRequests

LEMMA RefreshStep ==
  ASSUME TaxiiInv, NEW t \in Terms, Refresh(t)
  PROVE  TaxiiInv'
<1>0. DOMAIN term = Terms /\ now \in 0..MaxStamp
  BY DEF TaxiiInv, RowsAndRequests
<1>1. /\ term' = [term EXCEPT ![t].text = @ + 1]
      /\ UNCHANGED <<report, session, cache>> /\ ReadClock
      /\ unstamped' = unstamped \cup (Carrying(t) \cap Public)
  BY DEF Refresh, ReadClock
<1>2. PICK s : s = now'
  OBVIOUS
<1>3. s \in 1..MaxStamp /\ s = now + 1 /\ s \notin Stored /\ \A v \in Pending : session[v].stamp # s
  BY <1>1, <1>2, ClockIsFresh
<1>4. \A u \in Terms : term'[u].stamp = term[u].stamp /\ (u # t => term'[u] = term[u])
  BY <1>0, <1>1
<1>5. RowsAndRequests'
  BY <1>0, <1>1, <1>2, <1>3 DEF TaxiiInv, RowsAndRequests, Carrying
<1>6. Stored' \subseteq Stored \cup {s}
  BY <1>1, <1>4, StoredStep
<1>7. \A v \in Pending' : v \in Pending /\ session'[v] = session[v]
  BY <1>1 DEF Pending
<1>8. StampsAreFresh'
  BY <1>0, <1>2, <1>3, <1>6, <1>7, FreshStep
<1>9. CachedUnderTheKey'
  <2>1. \A q \in Public' \ unstamped' : Same(q)
    <3>1. Public' = Public /\ Public \subseteq Exported
      BY <1>1 DEF Public
    <3>2. QED
      BY <1>1, <1>4, <3>1 DEF Same, Carrying, TaxiiInv, RowsAndRequests, Reports
  <2>2. \A q \in Exported : SameStamps(q)
    BY <1>1, <1>4 DEF SameStamps, TaxiiInv, RowsAndRequests, Reports
  <2>3. QED
    BY <1>1, <2>1, <2>2, UnstampedStep
<1>10. QED
  BY <1>5, <1>8, <1>9 DEF TaxiiInv

LEMMA BeginSteps ==
  ASSUME TaxiiInv, NEW w \in Sessions
  PROVE  /\ \A r \in Exported : BeginPublish(w, r) => TaxiiInv'
         /\ \A t \in Terms, undo \in BOOLEAN : BeginRename(w, t, undo) => TaxiiInv'
<1>1. ASSUME NEW r \in Exported, BeginPublish(w, r) PROVE TaxiiInv'
  <2>1. PICK e : e = [op |-> "publish", r |-> r, stamp |-> now']
    OBVIOUS
  <2>2. e \in Edits /\ e.stamp = now'
    BY <1>1, <2>1, ClockIsFresh DEF BeginPublish, Edits
  <2>3. QED
    BY <1>1, <2>1, <2>2, BeginStep DEF BeginPublish
<1>2. ASSUME NEW t \in Terms, NEW undo \in BOOLEAN, BeginRename(w, t, undo) PROVE TaxiiInv'
  <2>1. PICK e : e = [op |-> "edit", t |-> t, stamp |-> now', undo |-> undo]
    OBVIOUS
  <2>2. e \in Edits /\ e.stamp = now'
    BY <1>2, <2>1, ClockIsFresh DEF BeginRename, Edits
  <2>3. QED
    BY <1>2, <2>1, <2>2, BeginStep DEF BeginRename
<1>3. QED
  BY <1>1, <1>2

LEMMA TaxiiStep ==
  ASSUME TaxiiInv, [TaxiiNext]_taxiiVars
  PROVE  TaxiiInv'
<1>1. CASE UNCHANGED taxiiVars
  <2>1. CachedUnderTheKey'
    BY <1>1, UnstampedStep DEF taxiiVars, Same, SameStamps
  <2>2. Stored' = Stored
    BY <1>1 DEF taxiiVars, Stored
  <2>3. QED
    BY <1>1, <2>1, <2>2, UnclockedStep DEF taxiiVars, TaxiiInv, RowsAndRequests
<1>2. CASE PullPage
  BY <1>2, PullPageStep
<1>3. ASSUME NEW r \in Exported,
             \/ Evict(r) \/ \E ts \in SUBSET Terms : Classify(r, ts)
             \/ \E on \in BOOLEAN : Rescope(r, on)
             \/ \E w \in Sessions : BeginPublish(w, r)
      PROVE  TaxiiInv'
  BY <1>3, EvictStep, ClassifyStep, RescopeStep, BeginSteps
<1>4. ASSUME NEW t \in Terms, Refresh(t) PROVE TaxiiInv'
  BY <1>4, RefreshStep
<1>5. ASSUME NEW w \in Sessions,
             \/ CommitPublish(w) \/ CommitRename(w) \/ FinishUndo(w)
             \/ \E t \in Terms, undo \in BOOLEAN : BeginRename(w, t, undo)
      PROVE  TaxiiInv'
  BY <1>5, CommitPublishStep, CommitRenameStep, FinishUndoStep, BeginSteps
<1>6. QED
  BY <1>1, <1>2, <1>3, <1>4, <1>5 DEF TaxiiNext

\* A bundle served from the cache is the one report_bundle would make now, but
\* for a report that was changed without a stamp since it was last stamped,
\* however commits with stamps read long before interleave with pulls
\* (taxii.py _cached_bundle).
THEOREM StaleBundlesAreUnstamped == TaxiiSpec => []StaleOnlyUnstamped
<1>1. TaxiiInv => StaleOnlyUnstamped
  BY ServedNames DEF StaleOnlyUnstamped, Public
<1>2. QED
  BY TaxiiInitInv, TaxiiStep, <1>1, PTL DEF TaxiiSpec

LEMMA Least ==
  ASSUME NEW T \in SUBSET Nat, T # {}
  PROVE  \E m \in T : \A k \in T : m <= k
<1>1. PICK R : R = OpToRel(<, Nat)
  OBVIOUS
<1>2. IsWellFoundedOn(R, Nat)
  BY <1>1, NatLessThanWellFounded
<1>3. PICK m \in T : \A k \in T : ~ (<<k, m>> \in R)
  BY <1>2, WFMin
<1>4. \A k \in T : k < m => <<k, m>> \in R
  BY <1>1 DEF OpToRel
<1>5. \A k \in T : ~(k < m)
  BY <1>3, <1>4
<1>6. \A k \in T : k \in Nat /\ m \in Nat
  BY <1>3
<1>7. QED
  BY <1>3, <1>5, <1>6

LEMMA NewestIsOne ==
  ASSUME NEW n \in Nat, NEW T \in SUBSET (0..n), T # {}
  PROVE  Newest(T) \in T /\ \A k \in T : k <= Newest(T)
<1>1. PICK U : U = {n - k : k \in T}
  OBVIOUS
<1>2. U \in SUBSET Nat /\ U # {}
  <2>1. \A k \in T : n - k \in Nat
    OBVIOUS
  <2>2. QED
    BY <1>1, <2>1
<1>3. PICK l \in U : \A k \in U : l <= k
  BY <1>2, Least
<1>4. PICK m \in T : l = n - m
  BY <1>1, <1>3
<1>5. \A k \in T : n - k \in U
  BY <1>1
<1>6. \A k \in T : k <= m
  BY <1>3, <1>4, <1>5
<1>7. QED
  BY <1>6 DEF Newest

(***************************************************************************)
(* The consumer: a record it has passed, by its date or by its cursor, is  *)
(* in its hands or was left behind.                                        *)
(***************************************************************************)
PullShape ==
    /\ pull = [since |-> pull.since, cursor |-> pull.cursor]
    /\ pull.since \in 0..MaxStamp
    /\ pull.cursor = <<pull.cursor[1], pull.cursor[2]>> /\ pull.cursor[1] \in 0..MaxStamp
    /\ pull.cursor[2] = <<>> \/ pull.cursor[2] \in AllIds
    /\ pull.cursor[2] = <<>> => pull.cursor[1] = 0

Passed(d, id) == d <= pull.since \/ ~After(d, id, pull.cursor)

HeldIds == {o.id : o \in held}

NothingLost ==
    \A r \in Public : \A id \in Named(r) :
        Passed(DateAdded(r), id) => id \in HeldIds \cup behind

PullInv == TaxiiInv /\ PullShape /\ NothingLost

LEMMA DatesAreStamps ==
  ASSUME TaxiiInv, NEW r \in Exported
  PROVE  DateAdded(r) \in 0..MaxStamp /\ report[r].at \in 0..MaxStamp
<1>1. report[r].at \in 0..MaxStamp /\ report[r].terms \subseteq Terms
  BY DEF TaxiiInv, RowsAndRequests, Reports
<1>2. \A t \in report[r].terms : term[t].stamp \in 0..MaxStamp
  <2> TAKE t \in report[r].terms
  <2>1. term[t].stamp \in Stored
    BY <1>1 DEF Stored
  <2>2. now \in 0..MaxStamp /\ Stored \subseteq 0..now /\ MaxStamp \in Nat
    BY TaxiiAssumption DEF TaxiiAssumption, TaxiiInv, RowsAndRequests, StampsAreFresh
  <2>3. term[t].stamp \in 0..now
    BY <2>1, <2>2
  <2>4. QED
    BY <2>2, <2>3
<1>3. PICK T : T = {report[r].at} \cup {term[t].stamp : t \in report[r].terms}
  OBVIOUS
<1>4. T \in SUBSET (0..MaxStamp) /\ T # {} /\ MaxStamp \in Nat
  BY <1>1, <1>2, <1>3, TaxiiAssumption DEF TaxiiAssumption
<1>5. DateAdded(r) = Newest(T)
  BY <1>3 DEF DateAdded
<1>6. QED
  BY <1>1, <1>4, <1>5, NewestIsOne

LEMMA NamedAreIds ==
  ASSUME TaxiiInv, NEW r \in Exported
  PROVE  /\ Named(r) \subseteq AllIds /\ NeedToKnowId \in AllIds
         /\ NeedToKnowId \notin Named(r) /\ Named(r) \subseteq Ids(r)
<1>1. report[r].terms \subseteq Terms
  BY DEF TaxiiInv, RowsAndRequests, Reports
<1>2. \A t : TermId(r, t) # NeedToKnowId
  BY DEF TermId, NeedToKnowId
<1>3. <<"report", r>> # NeedToKnowId /\ <<"marking", Level[r]>> # NeedToKnowId
  BY TaxiiAssumption DEF NeedToKnowId, TaxiiAssumption
<1>4. Named(r) \subseteq AllIds /\ NeedToKnowId \in AllIds
  BY <1>1 DEF Named, AllIds, NeedToKnowId
<1>5. Named(r) \subseteq Ids(r)
  BY DEF Named, Ids, Markings
<1>6. QED
  BY <1>2, <1>3, <1>4, <1>5 DEF Named

LEMMA NamedAreIdsNext ==
  ASSUME TaxiiInv', NEW r \in Exported
  PROVE  Named(r)' \subseteq Ids(r)'
BY DEF Named, Ids, Markings

DatesOK == \A r \in Exported : DateAdded(r) \in 0..MaxStamp

LEMMA DatesNext == TaxiiInv' => DatesOK'
<1>1. TaxiiInv => DatesOK
  BY DatesAreStamps DEF DatesOK
<1>2. QED
  BY <1>1, PTL

LEMMA PullInvInit == TaxiiInit => PullInv
<1> SUFFICES ASSUME TaxiiInit PROVE PullInv
  OBVIOUS
<1>1. Public = {}
  BY DEF TaxiiInit, Public
<1>2. PullShape
  BY TaxiiAssumption DEF TaxiiInit, PullShape, NoCursor, TaxiiAssumption
<1>3. QED
  BY <1>1, <1>2, TaxiiInitInv DEF PullInv, NothingLost

\* A change of reports leaves behind what comes under a date already passed.
LEMMA ChangeStep ==
  ASSUME PullInv, TaxiiInv', NEW S \in SUBSET Exported,
         UNCHANGED <<pull, held>>, LeftBehind(S),
         \A r \in Exported \ S : SameStamps(r) /\ report'[r].public = report[r].public
  PROVE  PullInv'
<1>1. PullShape'
  BY DEF PullInv, PullShape
<1>2. Seen \in Nat /\ pull.since <= Seen /\ pull.cursor[1] <= Seen
  <2>1. PICK T : T = {pull.since, pull.cursor[1]}
    OBVIOUS
  <2>2. T \in SUBSET (0..MaxStamp) /\ T # {} /\ MaxStamp \in Nat
    BY <2>1, TaxiiAssumption DEF TaxiiAssumption, PullInv, PullShape
  <2>3. Newest(T) \in T /\ \A k \in T : k <= Newest(T)
    BY <2>2, NewestIsOne
  <2>4. QED
    BY <2>1, <2>2, <2>3 DEF Seen
<1>3. NothingLost'
  <2> SUFFICES ASSUME NEW r \in Public', NEW id \in Named(r)', Passed(DateAdded(r)', id)
               PROVE  id \in HeldIds \cup behind'
    BY DEF NothingLost, Passed, After, HeldIds
  <2>1. r \in Exported /\ report'[r].public
    BY DEF Public
  <2>2. CASE r \notin S
    <3>1. Named(r)' = Named(r) /\ DateAdded(r)' = DateAdded(r) /\ r \in Public
      BY <2>1, <2>2, SameNames DEF Public
    <3>2. behind \subseteq behind'
      BY DEF LeftBehind
    <3>3. QED
      BY <3>1, <3>2 DEF PullInv, NothingLost
  <2>3. CASE r \in S
    <3>1. id \in Ids(r)'
      BY <2>1, NamedAreIdsNext
    <3>2. DateAdded(r)' \in Nat
      BY <2>1, DatesNext, TaxiiAssumption DEF DatesOK, TaxiiAssumption
    <3>3. DateAdded(r)' <= Seen
      BY <1>2, <3>2, TaxiiAssumption DEF Passed, After, PullInv, PullShape, TaxiiAssumption
    <3>4. r \in {q \in S : report'[q].public /\ DateAdded(q)' <= Seen}
      BY <2>1, <2>3, <3>3
    <3>5. id \in UNION {Ids(q)' : q \in {p \in S : report'[p].public /\ DateAdded(p)' <= Seen}}
      BY <3>1, <3>4
    <3>6. QED
      BY <3>5 DEF LeftBehind, HeldIds
  <2>4. QED
    BY <2>2, <2>3
<1>4. QED
  BY <1>1, <1>3 DEF PullInv

\* Steps that change no stamp, no link and not the consumer.
LEMMA QuietStep ==
  ASSUME PullInv, TaxiiInv', UNCHANGED <<pull, held, behind>>,
         \A r \in Exported : SameStamps(r) /\ report'[r].public = report[r].public
  PROVE  PullInv'
<1>1. PullShape'
  BY DEF PullInv, PullShape
<1>2. \A r \in Exported : Named(r)' = Named(r) /\ DateAdded(r)' = DateAdded(r)
  BY SameNames
<1>3. Public' = Public /\ Public \subseteq Exported
  BY DEF Public
<1>4. \A d, id : Passed(d, id)' <=> Passed(d, id)
  BY DEF Passed, After
<1>5. NothingLost'
  BY <1>2, <1>3, <1>4 DEF PullInv, NothingLost, HeldIds
<1>6. QED
  BY <1>1, <1>5 DEF PullInv

(***************************************************************************)
(* Pages                                                                   *)
(***************************************************************************)
RecordOf(r, o) == [date |-> DateAdded(r), from |-> report[r].at, obj |-> o]

LEMMA RecordShapes ==
  ASSUME TaxiiInv
  PROVE  /\ \A r \in Public : \A o \in Served(r) : RecordOf(r, o) \in Records
         /\ \A e \in Records : \E r \in Public : \E o \in Served(r) : e = RecordOf(r, o)
         /\ \A e \in Records : e.date \in 0..MaxStamp /\ e.from \in 0..MaxStamp
                               /\ e.obj.id \in AllIds
<1>1. Public \subseteq Exported
  BY DEF Public
<1>2. \A r \in Public : \A o \in Served(r) : RecordOf(r, o) \in Records
  BY DEF Records, RecordOf
<1>3. \A e \in Records : \E r \in Public : \E o \in Served(r) : e = RecordOf(r, o)
  BY DEF Records, RecordOf
<1>4. ASSUME NEW e \in Records
      PROVE  e.date \in 0..MaxStamp /\ e.from \in 0..MaxStamp /\ e.obj.id \in AllIds
  <2>1. PICK r \in Public : \E o \in Served(r) : e = RecordOf(r, o)
    BY <1>3
  <2>2. PICK o \in Served(r) : e = RecordOf(r, o)
    BY <2>1
  <2>3. e.date = DateAdded(r) /\ e.from = report[r].at /\ e.obj = o
    BY <2>2 DEF RecordOf
  <2>4. o.id = NeedToKnowId \/ o.id \in Named(r)
    <3>1. NamesOf(Served(r)) = Named(r)
      BY <1>1, <2>1, ServedNames
    <3>2. QED
      BY <3>1 DEF NamesOf
  <2>5. QED
    BY <1>1, <2>1, <2>3, <2>4, NamedAreIds, DatesAreStamps
<1>5. QED
  BY <1>2, <1>3, <1>4

LEMMA RecordsAreFinite ==
  ASSUME TaxiiInv
  PROVE  IsFiniteSet(Records)
<1>1. PICK S : S = [r \in Public |-> {RecordOf(r, o) : o \in Served(r)}]
  OBVIOUS
<1>2. \A r \in Public : IsFiniteSet(S[r])
  <2> TAKE r \in Public
  <2>1. IsFiniteSet(Served(r))
    BY ServedNames DEF Public
  <2>2. PICK f : f = [o \in Served(r) |-> RecordOf(r, o)]
    OBVIOUS
  <2>3. PICK T : T = {RecordOf(r, o) : o \in Served(r)}
    OBVIOUS
  <2>4. f \in [Served(r) -> T]
    BY <2>2, <2>3
  <2>5. IsFiniteSet({f[o] : o \in Served(r)})
    BY <2>1, <2>4, FiniteImage
  <2>6. {f[o] : o \in Served(r)} = S[r]
    BY <1>1, <2>2
  <2>7. QED
    BY <2>5, <2>6
<1>3. IsFiniteSet(Public)
  BY TaxiiAssumption, FS_Subset DEF TaxiiAssumption, Public
<1>4. PICK U : U = {S[r] : r \in Public}
  OBVIOUS
<1>5. IsFiniteSet(U)
  <2>1. S \in [Public -> U]
    BY <1>1, <1>4
  <2>2. IsFiniteSet({S[r] : r \in Public})
    BY <1>3, <2>1, FiniteImage
  <2>3. QED
    BY <1>4, <2>2
<1>6. IsFiniteSet(UNION U)
  <2>1. \A T \in U : IsFiniteSet(T)
    BY <1>2, <1>4
  <2>2. QED
    BY <1>5, <2>1, FS_UNION
<1>7. Records = UNION U
  BY <1>1, <1>4 DEF Records, RecordOf
<1>8. QED
  BY <1>6, <1>7

\* Of every id on offer, one record is unique, and none is earlier.
LEMMA UniqueIsServed ==
  ASSUME TaxiiInv, NEW e \in Records
  PROVE  \E u \in Unique : u.obj.id = e.obj.id /\ u.date <= e.date
<1>1. PICK Rivals : Rivals = {d \in Records : d.obj.id = e.obj.id}
  OBVIOUS
<1>2. PICK D : D = {d.date : d \in Rivals}
  OBVIOUS
<1>3. \A d \in Records : d.date \in Nat /\ d.from \in Nat
  BY RecordShapes, TaxiiAssumption DEF TaxiiAssumption
<1>4. PICK m \in D : \A k \in D : m <= k
  <2>1. D \in SUBSET Nat /\ D # {}
    BY <1>1, <1>2, <1>3
  <2>2. QED
    BY <2>1, Least
<1>5. PICK F : F = {d.from : d \in {d \in Rivals : d.date = m}}
  OBVIOUS
<1>6. PICK l \in F : \A k \in F : l <= k
  <2>1. F \in SUBSET Nat /\ F # {}
    BY <1>1, <1>2, <1>3, <1>4, <1>5
  <2>2. QED
    BY <2>1, Least
<1>7. PICK u \in Rivals : u.date = m /\ u.from = l
  BY <1>5, <1>6
<1>8. \A d \in Rivals : ~Earlier(d, u)
  <2> TAKE d \in Rivals
  <2>1. m <= d.date /\ (d.date = m => l <= d.from)
    BY <1>2, <1>4, <1>5, <1>6
  <2>2. d.date \in Nat /\ d.from \in Nat /\ m \in Nat /\ l \in Nat
    BY <1>1, <1>3, <1>7
  <2>3. QED
    BY <1>7, <2>1, <2>2 DEF Earlier
<1>9. u \in Unique
  BY <1>1, <1>7, <1>8 DEF Unique
<1>10. u.date <= e.date
  BY <1>1, <1>2, <1>4, <1>7
<1>11. QED
  BY <1>1, <1>7, <1>9, <1>10

(***************************************************************************)
(* The order of a page                                                     *)
(***************************************************************************)
Before(d, e) == d.date < e.date \/ (d.date = e.date /\ RankOf(d.obj.id) < RankOf(e.obj.id))

LEMMA RecordsAreOrdered ==
  ASSUME TaxiiInv
  PROVE  \A e \in Records : e.date \in Nat /\ RankOf(e.obj.id) \in Nat
BY RecordShapes, TaxiiAssumption DEF TaxiiAssumption

LEMMA PagesAreClosed ==
  ASSUME TaxiiInv, NEW W \in SUBSET Records, NEW e \in Page(W), NEW u \in W, ~Before(e, u)
  PROVE  u \in Page(W)
<1>1. PICK B : B = {d \in W : Before(d, u)}
  OBVIOUS
<1>2. PICK C : C = {d \in W : Before(d, e)}
  OBVIOUS
<1>3. \A d \in W : d.date \in Nat /\ RankOf(d.obj.id) \in Nat
  BY RecordsAreOrdered
<1>4. e \in W /\ Cardinality(C) < PageSize
  BY <1>2 DEF Page, Before
<1>5. B \in SUBSET C
  BY <1>1, <1>2, <1>3, <1>4 DEF Before
<1>6. IsFiniteSet(C) /\ IsFiniteSet(B)
  BY <1>1, <1>2, RecordsAreFinite, FS_Subset
<1>7. Cardinality(B) <= Cardinality(C) /\ Cardinality(B) \in Nat /\ Cardinality(C) \in Nat
  BY <1>5, <1>6, FS_Subset, FS_CardinalityType
<1>8. Cardinality(B) < PageSize
  BY <1>4, <1>7, TaxiiAssumption DEF TaxiiAssumption
<1>9. QED
  BY <1>1, <1>8 DEF Page, Before

LEMMA PagesEnd ==
  ASSUME TaxiiInv, NEW P \in SUBSET Records, P # {}
  PROVE  EndOf(P) \in P /\ \A d \in P : ~Before(EndOf(P), d)
<1>1. IsFiniteSet(P)
  BY RecordsAreFinite, FS_Subset
<1>2. PICK below : below = [e \in P |-> {d \in P : Before(d, e)}]
  OBVIOUS
<1>3. \A e \in P : /\ below[e] \in SUBSET P /\ IsFiniteSet(below[e])
                   /\ Cardinality(below[e]) \in 0..Cardinality(P)
  <2> TAKE e \in P
  <2>1. below[e] \in SUBSET P
    BY <1>2
  <2>2. QED
    BY <1>1, <2>1, FS_Subset, FS_CardinalityType
<1>4. PICK n, T : n = Cardinality(P) /\ T = {Cardinality(below[e]) : e \in P}
  OBVIOUS
<1>5. n \in Nat /\ T \in SUBSET (0..n) /\ T # {}
  BY <1>1, <1>3, <1>4, FS_CardinalityType
<1>6. PICK e \in P : \A d \in P : Cardinality(below[d]) <= Cardinality(below[e])
  <2>1. Newest(T) \in T /\ \A k \in T : k <= Newest(T)
    BY <1>5, NewestIsOne
  <2>2. QED
    BY <1>4, <2>1
<1>7. \A d \in P : d.date \in Nat /\ RankOf(d.obj.id) \in Nat
  BY RecordsAreOrdered
<1>8. \A d \in P : ~Before(e, d)
  <2> SUFFICES ASSUME NEW d \in P, Before(e, d) PROVE FALSE
    OBVIOUS
  <2>1. below[e] \in SUBSET below[d]
    BY <1>2, <1>7 DEF Before
  <2>2. e \in below[d] /\ e \notin below[e]
    BY <1>2, <1>7 DEF Before
  <2>3. Cardinality(below[e]) # Cardinality(below[d])
    BY <1>3, <2>1, <2>2, FS_Subset
  <2>4. Cardinality(below[e]) <= Cardinality(below[d])
    BY <1>3, <2>1, FS_Subset
  <2>5. QED
    BY <1>3, <1>6, <2>3, <2>4
<1>9. \A d \in P : d.date < e.date \/ (d.date = e.date /\ RankOf(d.obj.id) <= RankOf(e.obj.id))
  BY <1>7, <1>8 DEF Before
<1>10. PICK end : end = EndOf(P)
  OBVIOUS
<1>11. end \in P /\ \A d \in P : \/ d.date < end.date
                                 \/ d.date = end.date /\ RankOf(d.obj.id) <= RankOf(end.obj.id)
  BY <1>9, <1>10 DEF EndOf
<1>12. QED
  BY <1>7, <1>10, <1>11 DEF Before

(***************************************************************************)
(* A page                                                                  *)
(***************************************************************************)
LEMMA IdsArePairs == <<>> \notin AllIds
BY DEF AllIds, TermId

LEMMA PullPageKeeps ==
  ASSUME PullInv, PullPage, TaxiiInv'
  PROVE  PullInv'
<1>1. PICK wanted, page, end : wanted = Wanted /\ page = Page(wanted) /\ end = EndOf(page)
  OBVIOUS
<1>2. /\ page # {}
      /\ held' = {o \in held : o.id \notin {e.obj.id : e \in page}} \cup {e.obj : e \in page}
      /\ pull' = IF page # wanted THEN [pull EXCEPT !.cursor = <<end.date, end.obj.id>>]
                 ELSE [since |-> end.date, cursor |-> NoCursor]
      /\ UNCHANGED <<report, term, behind>>
  BY <1>1 DEF PullPage
<1>3. TaxiiInv /\ PullShape /\ NothingLost
  BY DEF PullInv
<1>4. /\ wanted \subseteq Unique /\ Unique \subseteq Records /\ page \subseteq wanted
  BY <1>1 DEF Wanted, Unique, Page
<1>5. end \in page /\ \A d \in page : ~Before(end, d)
  BY <1>1, <1>2, <1>3, <1>4, PagesEnd
<1>6. end.date \in 0..MaxStamp /\ end.obj.id \in AllIds
  BY <1>3, <1>4, <1>5, RecordShapes
<1>7. HeldIds \cup {e.obj.id : e \in page} \subseteq HeldIds'
  <2>1. \A o \in held : o.id \in HeldIds' \/ o.id \in {e.obj.id : e \in page}
    BY <1>2 DEF HeldIds
  <2>2. \A e \in page : e.obj.id \in HeldIds'
    BY <1>2 DEF HeldIds
  <2>3. QED
    BY <2>1, <2>2 DEF HeldIds
<1>8. PullShape'
  <2>1. CASE page # wanted
    <3>1. pull' = [since |-> pull.since, cursor |-> <<end.date, end.obj.id>>]
      BY <1>2, <1>3, <2>1 DEF PullShape
    <3>2. QED
      BY <1>3, <1>6, <3>1, IdsArePairs DEF PullShape
  <2>2. CASE page = wanted
    BY <1>2, <1>6, <2>2, TaxiiAssumption DEF PullShape, NoCursor, TaxiiAssumption
  <2>3. QED
    BY <2>1, <2>2
<1>9. NothingLost'
  <2> SUFFICES ASSUME NEW r \in Public, NEW id \in Named(r), Passed(DateAdded(r), id)'
               PROVE  id \in HeldIds' \cup behind
    <3>1. \A r \in Exported : Named(r)' = Named(r) /\ DateAdded(r)' = DateAdded(r)
      BY <1>2, SameNames DEF SameStamps
    <3>2. Public' = Public /\ Public \subseteq Exported /\ behind' = behind
      BY <1>2 DEF Public
    <3>3. QED
      BY <3>1, <3>2 DEF NothingLost, Passed, After
  <2>1. r \in Exported /\ id \in AllIds /\ id # NeedToKnowId
    BY <1>3, NamedAreIds DEF Public
  <2>2. PICK o \in Served(r) : o.id = id
    BY <1>3, <2>1, ServedNames DEF NamesOf
  <2>3. PICK d : d = DateAdded(r)
    OBVIOUS
  <2>4. PICK u \in Unique : u.obj.id = id /\ u.date <= d
    <3>1. PICK e : e = RecordOf(r, o)
      OBVIOUS
    <3>2. e \in Records /\ e.obj.id = id /\ e.date = d
      BY <1>3, <2>2, <2>3, <3>1, RecordShapes DEF RecordOf
    <3>3. QED
      BY <1>3, <3>2, UniqueIsServed
  <2>5. u.date \in 0..MaxStamp /\ d \in 0..MaxStamp /\ RankOf(id) \in Nat
    <3>1. u \in Records
      BY <1>4
    <3>2. QED
      BY <1>3, <2>1, <2>3, <3>1, RecordShapes, DatesAreStamps, TaxiiAssumption
      DEF TaxiiAssumption
  <2>6. CASE Passed(u.date, id)
    <3>1. PICK q \in Public : \E p \in Served(q) : u = RecordOf(q, p)
      BY <1>3, <1>4, RecordShapes
    <3>2. PICK p \in Served(q) : u = RecordOf(q, p)
      BY <3>1
    <3>3. p.id = id /\ u.date = DateAdded(q)
      BY <2>4, <3>2 DEF RecordOf
    <3>4. id \in Named(q)
      BY <1>3, <2>1, <3>2, <3>3, ServedNames DEF NamesOf, Public
    <3>5. QED
      BY <1>3, <1>7, <2>6, <3>3, <3>4 DEF NothingLost
  <2>7. CASE ~Passed(u.date, id)
    <3>1. u \in wanted
      BY <1>1, <1>3, <2>4, <2>5, <2>7 DEF Passed, Wanted, PullShape
    <3>2. u \in page
      <4>1. CASE page = wanted
        BY <3>1, <4>1
      <4>2. CASE page # wanted
        <5>1. pull'.since = pull.since /\ pull'.cursor = <<end.date, end.obj.id>>
          BY <1>2, <1>3, <4>2 DEF PullShape
        <5>2. end.obj.id # <<>>
          BY <1>6, IdsArePairs
        <5>3. pull'.since >= d \/ ~After(d, id, pull'.cursor)
          <6>1. DateAdded(r)' = d
            BY <1>2, <2>1, <2>3, SameNames DEF SameStamps
          <6>2. QED
            BY <6>1 DEF Passed, After
        <5>4. ~Before(end, u)
          BY <1>3, <1>6, <2>4, <2>5, <2>7, <5>1, <5>2, <5>3, TaxiiAssumption
          DEF Passed, After, Before, PullShape, TaxiiAssumption
        <5>5. QED
          BY <1>1, <1>3, <1>4, <1>5, <3>1, <5>4, PagesAreClosed
      <4>3. QED
        BY <4>1, <4>2
    <3>3. QED
      BY <1>7, <2>4, <3>2
  <2>8. QED
    BY <2>6, <2>7
<1>10. QED
  BY <1>8, <1>9 DEF PullInv

LEMMA PullStep ==
  ASSUME PullInv, [TaxiiNext]_taxiiVars
  PROVE  PullInv'
<1>0. TaxiiInv /\ TaxiiInv'
  BY TaxiiStep DEF PullInv
<1>1. report \in [Exported -> Reports] /\ DOMAIN term = Terms /\ session \in [Sessions -> Edits]
  BY <1>0 DEF TaxiiInv, RowsAndRequests
<1>2. CASE UNCHANGED taxiiVars
  BY <1>0, <1>2, QuietStep DEF taxiiVars, SameStamps
<1>3. CASE PullPage
  BY <1>0, <1>3, PullPageKeeps
<1>4. ASSUME NEW r \in Exported, Evict(r) PROVE PullInv'
  BY <1>0, <1>4, QuietStep DEF Evict, SameStamps
<1>5. ASSUME NEW r \in Exported, NEW ts \in SUBSET Terms, Classify(r, ts) PROVE PullInv'
  <2>1. /\ report' = [report EXCEPT ![r].terms = ts, ![r].updated = now']
        /\ UNCHANGED <<term, pull, held>> /\ LeftBehind({r})
    BY <1>5 DEF Classify
  <2>2. \A q \in Exported \ {r} : SameStamps(q) /\ report'[q].public = report[q].public
    BY <1>1, <2>1 DEF SameStamps
  <2>3. QED
    BY <1>0, <2>1, <2>2, ChangeStep
<1>6. ASSUME NEW r \in Exported, NEW on \in BOOLEAN, Rescope(r, on) PROVE PullInv'
  <2>1. /\ report' = [report EXCEPT ![r].scoped = on]
        /\ UNCHANGED <<term, pull, held>> /\ LeftBehind({r})
    BY <1>6 DEF Rescope
  <2>2. \A q \in Exported \ {r} : SameStamps(q) /\ report'[q].public = report[q].public
    BY <1>1, <2>1 DEF SameStamps
  <2>3. QED
    BY <1>0, <2>1, <2>2, ChangeStep
<1>7. ASSUME NEW t \in Terms, Refresh(t) PROVE PullInv'
  <2>1. \A q \in Exported : SameStamps(q) /\ report'[q].public = report[q].public
    <3>1. \A u \in Terms : term'[u].stamp = term[u].stamp
      BY <1>1, <1>7 DEF Refresh
    <3>2. QED
      BY <1>1, <1>7, <3>1 DEF Refresh, SameStamps, Reports
  <2>2. QED
    BY <1>0, <1>7, <2>1, QuietStep DEF Refresh
<1>8. ASSUME NEW w \in Sessions, CommitPublish(w) PROVE PullInv'
  <2>1. PICK r \in Exported : r = session[w].r
    BY <1>1, <1>8, EditShapes DEF CommitPublish
  <2>2. /\ report' = [report EXCEPT ![r].public = TRUE, ![r].at = session[w].stamp,
                                     ![r].updated = session[w].stamp]
        /\ UNCHANGED <<term, pull, held>> /\ LeftBehind({r})
    BY <1>8, <2>1 DEF CommitPublish
  <2>3. \A q \in Exported \ {r} : SameStamps(q) /\ report'[q].public = report[q].public
    BY <1>1, <2>2 DEF SameStamps
  <2>4. QED
    BY <1>0, <2>2, <2>3, ChangeStep
<1>9. ASSUME NEW w \in Sessions, CommitRename(w) PROVE PullInv'
  <2>1. PICK t \in Terms : t = session[w].t
    BY <1>1, <1>9, EditShapes DEF CommitRename
  <2>2. PICK s : s = session[w].stamp
    OBVIOUS
  <2>3. /\ term' = [term EXCEPT ![t] = [stamp |-> s, text |-> @.text + 1]]
        /\ report' = [r \in Exported |-> IF r \in Carrying(t)
                                         THEN [report[r] EXCEPT !.updated = s] ELSE report[r]]
        /\ UNCHANGED <<pull, held>> /\ LeftBehind(Carrying(t))
    BY <1>9, <2>1, <2>2 DEF CommitRename
  <2>4. \A q \in Exported \ Carrying(t) : SameStamps(q) /\ report'[q].public = report[q].public
    BY <1>1, <2>3 DEF SameStamps, Carrying
  <2>5. Carrying(t) \in SUBSET Exported
    BY DEF Carrying
  <2>6. QED
    BY <1>0, <2>3, <2>4, <2>5, ChangeStep
<1>10. ASSUME NEW w \in Sessions, FinishUndo(w) PROVE PullInv'
  <2>1. PICK t \in Terms : t = session[w].t
    BY <1>1, <1>10, EditShapes DEF FinishUndo
  <2>2. /\ term' = [term EXCEPT ![t] = [stamp |-> now', text |-> @.text + 1]]
        /\ UNCHANGED <<report, pull, held>> /\ LeftBehind(Carrying(t))
    BY <1>10, <2>1 DEF FinishUndo
  <2>3. \A q \in Exported \ Carrying(t) : SameStamps(q) /\ report'[q].public = report[q].public
    BY <1>1, <2>2 DEF SameStamps, Carrying
  <2>4. Carrying(t) \in SUBSET Exported
    BY DEF Carrying
  <2>5. QED
    BY <1>0, <2>2, <2>3, <2>4, ChangeStep
<1>11. ASSUME NEW w \in Sessions,
              \/ \E r \in Exported : BeginPublish(w, r)
              \/ \E t \in Terms, undo \in BOOLEAN : BeginRename(w, t, undo)
       PROVE  PullInv'
  <2>1. UNCHANGED <<report, term, pull, held, behind>>
    BY <1>11 DEF BeginPublish, BeginRename
  <2>2. QED
    BY <1>0, <2>1, QuietStep DEF SameStamps
<1>12. QED
  BY <1>2, <1>3, <1>4, <1>5, <1>6, <1>7, <1>8, <1>9, <1>10, <1>11 DEF TaxiiNext

\* A consumer who follows the pages to their end misses an object only if a
\* report brought it under a date the consumer had already passed, or if it is
\* the marking of an audience limited without a stamp (taxii.py _query_records).
THEOREM NothingIsSkipped == TaxiiSpec => []MissedOnlyBehind
<1>1. PullInv => MissedOnlyBehind
  <2> SUFFICES ASSUME PullInv, pull.cursor = NoCursor, NEW r \in Public,
                      DateAdded(r) <= pull.since, NEW o \in Bundle(r), Misses(o)
               PROVE  o.id \in behind \cup {NeedToKnowId}
    BY DEF MissedOnlyBehind, NeedToKnowId
  <2>1. r \in Exported /\ report[r].terms \subseteq Terms
    BY DEF Public, PullInv, TaxiiInv, RowsAndRequests, Reports
  <2>2. o.id = NeedToKnowId \/ o.id \in Named(r)
    BY <2>1, BundleNames DEF NamesOf
  <2>3. o.id \in Named(r) => o.id \in HeldIds \cup behind
    BY DEF PullInv, NothingLost, Passed
  <2>4. o.id \notin HeldIds
    BY DEF Misses, HeldIds
  <2>5. QED
    BY <2>2, <2>3, <2>4
<1>2. QED
  BY PullInvInit, PullStep, <1>1, PTL DEF TaxiiSpec

=============================================================================
