------------------------ MODULE AudiencePolicyProofs ------------------------
(***************************************************************************)
(* What the fingerprint buys a publisher, for any number of                *)
(* administrators, rule sets, versions and stakeholders: no race of theirs *)
(* over the policy, and no change of preferences, adds anyone to what the  *)
(* publisher saw.  And what the policy keeps of its promises however those *)
(* requests overlap: above the last version written from an overtaken copy *)
(* one rule set is live, and the one a product was sent under stays what   *)
(* it was; and only a write from an overtaken copy rewrites an approved    *)
(* version or reopens its window.                                          *)
(***************************************************************************)
EXTENDS AudiencePolicy, TLAPS, WellFoundedInduction

\* While a publication runs, what it resolved is what the publisher saw: the
\* fingerprint was compared when it began, and until it ends neither changes.
RunningAsPreviewed ==
  chosen # Unset /\ shown # Unset => chosen.audience = shown.audience

\* Once published, nothing runs any more.
OnePublication == record # Unset => chosen = Unset

IInv == RunningAsPreviewed /\ OnePublication /\ DeliveredAsPreviewed

-----------------------------------------------------------------------------
\* Equal fingerprints are equal audiences.
LEMMA FingerprintDecides ==
  ASSUME NEW x, NEW y, Fingerprint(x) = Fingerprint(y)
  PROVE  x.audience = y.audience
  BY DEF Fingerprint

\* Administrators' requests, and the clock, do not touch a publication.
LEMMA AdministratorsApart ==
  ASSUME NEW r \in Administrators, AdministratorStep(r)
  PROVE  UNCHANGED publication
  BY DEF AdministratorStep, BeginDraft, BeginUpdate, BeginDelete, BeginRetire,
         BeginApprove, LoadVersion, CommitDraft, CommitUpdate, CommitDelete,
         CommitRetire, FlushApprove, CommitApprove, RollBack, EndRequest

\* IInv is inductive.
LEMMA Inductive == IInv /\ [PolicyNext]_policyVars => IInv'
<1> SUFFICES ASSUME IInv, [PolicyNext]_policyVars
             PROVE  IInv'
  OBVIOUS
<1>. USE DEF IInv, RunningAsPreviewed, OnePublication, DeliveredAsPreviewed
<1>1. CASE UNCHANGED publication
  BY <1>1 DEF publication
<1>2. CASE Preview
  BY <1>2 DEF Preview
<1>3. CASE BeginPublication
  <2>1. shown # Unset => Resolution.audience = shown.audience
    BY <1>3, FingerprintDecides DEF BeginPublication
  <2> QED
    BY <1>3, <2>1 DEF BeginPublication
<1>4. CASE RefusePublication
  BY <1>4 DEF RefusePublication
<1>5. CASE CommitPublication
  <2>1. /\ record' = chosen /\ events' = chosen.audience \cap base
        /\ shown' = shown /\ chosen' = Unset /\ chosen # Unset
    BY <1>5 DEF CommitPublication
  <2>2. shown # Unset => chosen.audience = shown.audience
    BY <2>1
  <2> QED
    BY <2>1, <2>2
<1>6. CASE MatchChanges
  BY <1>6 DEF MatchChanges
<1>7. CASE UNCHANGED policyVars \/ Tick \/ \E r \in Administrators : AdministratorStep(r)
  BY <1>1, <1>7, AdministratorsApart DEF policyVars, publication, Tick
<1> QED
  BY <1>2, <1>3, <1>4, <1>5, <1>6, <1>7 DEF PolicyNext, PublicationStep

\* "Nobody sends to a recipient list they never saw": publish resolves again and
\* compares fingerprints, and delivers to no one beyond the record.
THEOREM NobodyUnseen == PolicySpec => []DeliveredAsPreviewed
<1>1. PolicyInit => IInv
  BY DEF PolicyInit, IInv, RunningAsPreviewed, OnePublication, DeliveredAsPreviewed
<1>2. IInv => DeliveredAsPreviewed
  BY DEF IInv
<1> QED
  BY <1>1, <1>2, Inductive, PTL DEF PolicySpec

-----------------------------------------------------------------------------
(***************************************************************************)
(* Types                                                                   *)
(***************************************************************************)
Ops == {"none", "create", "update", "delete", "retire", "approve", "flushed"}
Sessions ==
  [op : Ops, v : Versions, copy : Row, boundary : Times \cup {Unset}, priors : [Versions -> Row]]

\* Sessions are records, and one that has flushed has its boundary.
SessionShape ==
  /\ request \in [Administrators -> Sessions]
  /\ \A r \in Administrators : request[r].op = "flushed" => request[r].boundary \in Times

TypeInv == PolicyTypeOK /\ SessionShape

\* The greatest of a set of versions.
LEMMA Greatest ==
  ASSUME NEW N \in Nat, NEW S \in SUBSET (1..N), S # {}
  PROVE  Max(S) \in S /\ \A x \in S : Max(S) >= x
<1> DEFINE T == {N - x : x \in S}
<1>0. \A x \in S : x \in 1..N /\ N - x \in Nat
  OBVIOUS
<1>1. T \subseteq Nat /\ T # {}
  BY <1>0
<1> DEFINE R == OpToRel(<, Nat)
<1>2. IsWellFoundedOn(R, Nat)
  BY NatLessThanWellFounded
<1> HIDE DEF R
<1>3. PICK m \in T : \A y \in T : <<y, m>> \notin R
  BY <1>1, <1>2, WFMin
<1>4. PICK x \in S : m = N - x
  BY <1>3
<1>5. \A y \in S : <<N - y, m>> \notin R
  BY <1>3
<1>6. \A y \in S : ~(N - y < m)
  BY <1>1, <1>3, <1>5 DEF R, OpToRel
<1>7. \A y \in S : x >= y
  BY <1>4, <1>6
<1>8. \E z \in S : \A y \in S : z >= y
  BY <1>7
<1> QED
  BY <1>8 DEF Max

LEMMA GreatestVersion ==
  ASSUME NEW S \in SUBSET Versions, S # {}
  PROVE  Max(S) \in S /\ \A x \in S : Max(S) >= x
  BY Greatest, PolicyAssumption DEF PolicyAssumption, Versions

LEMMA NoRowType == NoRow \in Row
  BY DEF NoRow, Row

LEMMA NoSessionType == NoSession \in Sessions /\ NoSession.op = "none"
<1>1. 1 \in Versions
  BY PolicyAssumption DEF PolicyAssumption, Versions
<1> QED
  BY <1>1, NoRowType DEF NoSession, Sessions, Ops

\* What a resolution is, and that it names the newest applicable version.
LEMMA ResolutionNames ==
  ASSUME PolicyTypeOK
  PROVE  /\ Resolution \in Resolutions
         /\ Resolution.audience \subseteq base
         /\ Resolution.version # Unset =>
              /\ Resolution.version \in Versions /\ Approved(Resolution.version)
              /\ Resolution.rules = row[Resolution.version].rules
<1>1. Applicable \subseteq Versions
  BY DEF Applicable
<1>2. Live # Unset => Live \in Versions /\ Approved(Live)
  BY <1>1, GreatestVersion DEF Live, Applicable, InWindow
<1>3. Live # Unset => row[Live] \in Row
  BY <1>2 DEF PolicyTypeOK
<1>4. Resolution \in [version : Versions \cup {Unset}, audience : SUBSET Stakeholders,
                      rules : RuleSets \cup {{}, Unset}]
  BY <1>2, <1>3 DEF Resolution, PolicyTypeOK, Row
<1>5. Resolution \in Resolutions
  BY <1>4 DEF Resolutions
<1>6. Resolution.audience \subseteq base
  BY DEF Resolution
<1>7. Resolution.version = Live /\ (Live # Unset => Resolution.rules = row[Live].rules)
  BY DEF Resolution
<1> QED
  BY <1>2, <1>5, <1>6, <1>7

\* A session that begins, or ends.
LEMMA SessionStep ==
  ASSUME TypeInv, NEW r \in Administrators, NEW s \in Sessions,
         s.op = "flushed" => s.boundary \in Times,
         request' = [request EXCEPT ![r] = s]
  PROVE  SessionShape'
  BY DEF TypeInv, SessionShape

LEMMA TypesFromShape ==
  ASSUME SessionShape
  PROVE  \A r \in Administrators :
           /\ request[r].v \in Versions /\ request[r].copy \in Row
           /\ request[r].boundary \in Times \cup {Unset}
           /\ request[r].op = "flushed" => request[r].boundary # Unset
           /\ request[r].priors \in [Versions -> Row]
  BY PolicyAssumption DEF PolicyAssumption, SessionShape, Sessions

\* What was overtaken is noted for good.
LEMMA OvertakenType ==
  ASSUME TypeInv, NEW r \in Administrators, AdministratorStep(r)
  PROVE  overtaken' \in 0..MaxVersions /\ overtaken <= overtaken'
<1>1. /\ overtaken \in 0..MaxVersions /\ request[r].v \in 1..MaxVersions /\ MaxVersions \in Nat
  BY PolicyAssumption DEF PolicyAssumption, TypeInv, PolicyTypeOK, Versions
<1>2. UNCHANGED overtaken \/ NoteOvertaken(r)
  BY DEF AdministratorStep, BeginDraft, BeginUpdate, BeginDelete, BeginRetire, BeginApprove,
         LoadVersion, CommitDraft, CommitUpdate, CommitDelete, CommitRetire, FlushApprove,
         CommitApprove, RollBack
<1> QED
  BY <1>1, <1>2 DEF NoteOvertaken

\* An administrator's step leaves rows that are rows.
LEMMA AdministratorTypes ==
  ASSUME TypeInv, NEW r \in Administrators, AdministratorStep(r)
  PROVE  /\ SessionShape' /\ row' \in [Versions -> Row] /\ clock' \in Times
         /\ overtaken' \in 0..MaxVersions
<1>. USE PolicyAssumption, NoSessionType DEF PolicyAssumption
<1>0. overtaken' \in 0..MaxVersions
  BY OvertakenType
<1>. SUFFICES SessionShape' /\ row' \in [Versions -> Row] /\ clock' \in Times
  BY <1>0
<1>1. /\ row \in [Versions -> Row] /\ request[r] \in Sessions /\ clock \in Times
      /\ request[r].v \in Versions /\ request[r].copy \in Row
      /\ request[r].priors \in [Versions -> Row]
  BY DEF TypeInv, PolicyTypeOK, SessionShape, Sessions
<1>2. ASSUME EndRequest(r) PROVE SessionShape' /\ clock' \in Times
  BY <1>1, <1>2, SessionStep DEF EndRequest
<1>3. ASSUME NEW op \in Ops \ {"flushed"}, NEW v \in Versions, LoadVersion(r, op, v)
      PROVE  SessionShape' /\ row' \in [Versions -> Row] /\ clock' \in Times
  <2> DEFINE s == [NoSession EXCEPT
               !.op = op, !.v = v, !.copy = IF op = "retire" THEN NoRow ELSE row[v]]
  <2>1. s \in Sessions /\ s.op = op
    BY <1>1, NoRowType DEF Sessions
  <2> QED
    BY <1>1, <1>3, <2>1, SessionStep DEF LoadVersion
<1>4. CASE BeginDraft(r)
  <2> DEFINE numbers == {v \in Versions : Exists(v)}
             latest == IF numbers = {} THEN 0 ELSE Max(numbers)
  <2>1. latest \in 0..MaxVersions
    BY GreatestVersion DEF Versions
  <2>2. latest + 1 \in Versions /\ LoadVersion(r, "create", latest + 1)
    BY <1>4, <2>1 DEF BeginDraft, Versions
  <2> QED
    BY <1>3, <2>2 DEF Ops
<1>5. ASSUME NEW v \in Versions,
             BeginUpdate(r, v) \/ BeginDelete(r, v) \/ BeginRetire(r, v) \/ BeginApprove(r, v)
      PROVE  SessionShape' /\ row' \in [Versions -> Row] /\ clock' \in Times
  BY <1>3, <1>5 DEF Ops, BeginUpdate, BeginDelete, BeginRetire, BeginApprove
<1>6. ASSUME NEW rules \in RuleSets, NEW w \in Windows
      PROVE  /\ w[1] \in Times \cup {Unset} /\ w[2] \in Times \cup {Unset}
             /\ rules \in RuleSets \cup {{}}
  OBVIOUS
<1>7. CASE CommitDraft(r)
  <2>1. CASE UNCHANGED row
    BY <1>1, <1>2, <1>7, <2>1 DEF CommitDraft
  <2>2. CASE ~UNCHANGED row
    <3>1. PICK rules \in RuleSets, w \in Windows :
            row' = [row EXCEPT ![request[r].v] =
              [st |-> "draft", rules |-> rules, from |-> w[1], to |-> w[2]]]
      BY <1>7, <2>2 DEF CommitDraft
    <3>2. [st |-> "draft", rules |-> rules, from |-> w[1], to |-> w[2]] \in Row
      BY <1>6 DEF Row
    <3>3. row' \in [Versions -> Row]
      BY <1>1, <3>1, <3>2
    <3> QED
      BY <1>2, <1>7, <3>3 DEF CommitDraft
  <2> QED
    BY <2>1, <2>2
<1>8. CASE CommitUpdate(r)
  <2>1. CASE UNCHANGED row
    BY <1>1, <1>2, <1>8, <2>1 DEF CommitUpdate
  <2>2. CASE ~UNCHANGED row
    <3> DEFINE v == request[r].v
               Set(new, old, current) == IF new = old THEN current ELSE new
    <3>1. PICK rules \in RuleSets, w \in Windows :
            row' = [row EXCEPT ![v].rules = Set(rules, request[r].copy.rules, @),
                               ![v].from  = Set(w[1], request[r].copy.from, @),
                               ![v].to    = Set(w[2], request[r].copy.to, @)]
      BY <1>8, <2>2 DEF CommitUpdate
    <3>2. row' \in [Versions -> Row]
      BY <1>1, <1>6, <3>1 DEF Row
    <3> QED
      BY <1>2, <1>8, <3>2 DEF CommitUpdate
  <2> QED
    BY <2>1, <2>2
<1>9. CASE CommitDelete(r)
  BY <1>1, <1>2, <1>9, NoRowType DEF CommitDelete
<1>10. CASE CommitRetire(r)
  BY <1>1, <1>2, <1>10 DEF CommitRetire, Row
<1>11. CASE FlushApprove(r)
  <2> DEFINE v == request[r].v
             ps == [u \in Versions |-> IF u \in EarlierVersions(v) THEN row[u] ELSE NoRow]
             s == [request[r] EXCEPT !.op = "flushed", !.copy = NoRow,
                                     !.boundary = Boundary(r), !.priors = ps]
  <2>1. row' \in [Versions -> Row] /\ clock' \in Times
    BY <1>1, <1>11 DEF FlushApprove
  <2>2. CASE Exists(v)
    <3>1. Boundary(r) \in Times
      BY <1>1 DEF Boundary, Row
    <3>2. ps \in [Versions -> Row]
      BY <1>1, NoRowType
    <3>3. s \in Sessions
      BY <1>1, <3>1, <3>2, NoRowType DEF Sessions, Ops
    <3>4. s.boundary \in Times
      BY <1>1, <3>1 DEF Sessions
    <3>5. request' = [request EXCEPT ![r] = s]
      BY <1>11, <2>2 DEF FlushApprove, TypeInv, SessionShape
    <3> HIDE DEF s
    <3> QED
      BY <2>1, <3>3, <3>4, <3>5, SessionStep
  <2>3. CASE ~Exists(v)
    BY <1>11, <2>1, <2>3, SessionStep DEF FlushApprove
  <2> QED
    BY <2>2, <2>3
<1>12. CASE CommitApprove(r)
  <2> DEFINE v == request[r].v
             End(u) == ClosedAt(request[r].priors[u], request[r].boundary)
  <2>1. request[r].boundary \in Times
    BY <1>12 DEF CommitApprove, TypeInv, SessionShape
  <2>2. \A u \in Versions : End(u) \in Times
    BY <1>1, <2>1 DEF ClosedAt, Row
  <2>3. \A u \in Versions : /\ [row[u] EXCEPT !.st = "approved"] \in Row
                             /\ [row[u] EXCEPT !.to = End(u)] \in Row
    BY <1>1, <2>2 DEF Row
  <2> DEFINE closing == {u \in Versions : request[r].priors[u].st = "approved"
                                            /\ End(u) # request[r].priors[u].to}
             written == [u \in Versions |->
                CASE u = v         -> [row[u] EXCEPT !.st = "approved"]
                  [] u \in closing -> [row[u] EXCEPT !.to = End(u)]
                  [] OTHER         -> row[u]]
  <2>4. row' = row \/ row' = written
    BY <1>12 DEF CommitApprove
  <2> HIDE DEF closing, End, v
  <2>5. written \in [Versions -> Row]
    BY <1>1, <2>3
  <2>6. row' \in [Versions -> Row]
    BY <1>1, <2>4, <2>5
  <2> QED
    BY <1>2, <1>12, <2>6 DEF CommitApprove
<1>13. CASE RollBack(r)
  BY <1>1, <1>2, <1>13 DEF RollBack
<1> QED
  BY <1>4, <1>5, <1>7, <1>8, <1>9, <1>10, <1>11, <1>12, <1>13 DEF AdministratorStep

LEMMA TypeStep == TypeInv /\ [PolicyNext]_policyVars => TypeInv'
<1> SUFFICES ASSUME TypeInv, [PolicyNext]_policyVars
             PROVE  TypeInv'
  OBVIOUS
<1>1. ASSUME SessionShape', row' \in [Versions -> Row], clock' \in Times, UNCHANGED publication,
             overtaken' \in 0..MaxVersions
      PROVE  TypeInv'
  <2>1. base' \subseteq Stakeholders /\ events' \subseteq Stakeholders
        /\ {shown', chosen', record'} \subseteq Resolutions
    BY <1>1 DEF publication, TypeInv, PolicyTypeOK
  <2>2. \A r \in Administrators :
           /\ request'[r].v \in Versions /\ request'[r].copy \in Row
           /\ request'[r].boundary \in Times \cup {Unset}
           /\ request'[r].op = "flushed" => request'[r].boundary # Unset
           /\ request'[r].priors \in [Versions -> Row]
    BY <1>1, TypesFromShape, PolicyAssumption DEF PolicyAssumption, SessionShape, Sessions
  <2> QED
    BY <1>1, <2>1, <2>2 DEF TypeInv, PolicyTypeOK
<1>2. ASSUME NEW r \in Administrators, AdministratorStep(r) PROVE TypeInv'
  BY <1>1, <1>2, AdministratorTypes, AdministratorsApart
<1>3. ASSUME UNCHANGED <<clock, row, request, overtaken>>,
             base' \subseteq Stakeholders, events' \subseteq Stakeholders,
             {shown', chosen', record'} \subseteq Resolutions
      PROVE  TypeInv'
  BY <1>3 DEF TypeInv, PolicyTypeOK, SessionShape
<1>4. Unset \in Resolutions
  BY DEF Resolutions
<1>5. CASE Preview
  BY <1>3, <1>5, ResolutionNames DEF Preview, TypeInv, PolicyTypeOK
<1>6. CASE BeginPublication
  BY <1>3, <1>6, ResolutionNames DEF BeginPublication, TypeInv, PolicyTypeOK
<1>7. CASE RefusePublication
  BY <1>3, <1>4, <1>7 DEF RefusePublication, TypeInv, PolicyTypeOK
<1>8. CASE CommitPublication
  BY <1>3, <1>4, <1>8 DEF CommitPublication, TypeInv, PolicyTypeOK
<1>9. CASE MatchChanges
  BY <1>3, <1>9 DEF MatchChanges, TypeInv, PolicyTypeOK
<1>10. CASE Tick
  <2>1. clock' \in Times
    BY <1>10, PolicyAssumption DEF PolicyAssumption, Tick, Times, TypeInv, PolicyTypeOK
  <2> QED
    BY <1>10, <2>1 DEF Tick, publication, TypeInv, PolicyTypeOK, SessionShape
<1>11. CASE UNCHANGED policyVars
  BY <1>3, <1>11 DEF policyVars, publication, TypeInv, PolicyTypeOK
<1> QED
  BY <1>2, <1>5, <1>6, <1>7, <1>8, <1>9, <1>10, <1>11 DEF PolicyNext, PublicationStep

LEMMA TypeInit == PolicyInit => TypeInv
<1> SUFFICES ASSUME PolicyInit PROVE TypeInv
  OBVIOUS
<1>1. 0 \in Times /\ 0 \in 0..MaxVersions
  BY PolicyAssumption DEF PolicyAssumption, Times
<1>2. SessionShape
  BY NoSessionType DEF PolicyInit, SessionShape
<1>3. row \in [Versions -> Row]
  BY NoRowType DEF PolicyInit
<1> QED
  BY <1>1, <1>2, <1>3, TypesFromShape DEF PolicyInit, TypeInv, PolicyTypeOK, Resolutions

\* Rows, sessions and resolutions keep their types, however administrators race.
THEOREM TypeCorrect == PolicySpec => []PolicyTypeOK
<1>1. TypeInv => PolicyTypeOK
  BY DEF TypeInv
<1> QED
  BY <1>1, TypeInit, TypeStep, PTL DEF PolicySpec

-----------------------------------------------------------------------------
(***************************************************************************)
(* Administrators that race.  What an edit, a deletion or an approval does *)
(* from an overtaken copy can break anything of the versions up to the one *)
(* it is about.  Of the newer ones, clean here, everything else holds,     *)
(* whatever drafts, approvals and retirements overlap.                     *)
(***************************************************************************)
Clean(v) == overtaken < v

\* Below a version all clean ones are approved: a draft is the last.
Contiguous ==
  \A n, u \in Versions : Clean(n) /\ n < u /\ Exists(u) => Approved(n)

\* The window from from to to is over, empty, or ends where one begins that
\* starts at start.
ClosedFor(from, to, start, t) ==
  /\ to # Unset
  /\ to <= t \/ to = from \/ (start # Unset /\ to <= start)

\* An approved version has ended every one before it.
EarlierClosed ==
  \A u, v \in Versions : Clean(u) /\ u < v /\ Approved(u) /\ Approved(v) =>
    ClosedFor(row[u].from, row[u].to, row[v].from, clock)

\* Nobody covers anything from now on.
Dead(from, to, t) == to # Unset /\ (to <= t \/ to = from)

\* A flushed approval that works for a clean version: its boundary is the start
\* of the version, or past; the earlier windows it loaded are still there, or
\* have ended; and if the version was approved already it has nothing to end.
FlushSound(s) ==
  /\ IF row[s.v].from # Unset THEN s.boundary = row[s.v].from ELSE s.boundary <= clock
  /\ \A u \in Versions : Clean(u) /\ u < s.v =>
       /\ s.priors[u].st = "approved" /\ s.priors[u].from = row[u].from
       /\ ~Approved(s.v) => row[u].to = s.priors[u].to \/ Dead(row[u].from, row[u].to, clock)
       /\ Approved(s.v) =>
            LET end == ClosedAt(s.priors[u], s.boundary)
            IN  end = s.priors[u].to \/ Dead(s.priors[u].from, end, clock)
       /\ \A w \in Versions : u < w /\ w < s.v =>
            ClosedFor(s.priors[u].from, s.priors[u].to, row[w].from, clock)

SessionSound(s) ==
  /\ s.op \in {"update", "delete"} => s.copy.st = "draft"
  /\ s.op = "create" => \A n \in Versions : Clean(n) /\ n < s.v => Approved(n)
  /\ s.op = "flushed" =>
       /\ Exists(s.v)
       /\ \A u \in Versions : s.priors[u].st = "approved" => u < s.v
       /\ Clean(s.v) => FlushSound(s)

\* A flushed approval holds the lock of its version's row.
LocksApart ==
  \A r, o \in Administrators :
    r # o /\ request[r].op = "flushed" /\ request[o].op = "flushed" => request[r].v # request[o].v

\* A resolution names an approved version by the rules it has, if it is clean.
NamesItsRules(x) ==
  x # Unset /\ x.version # Unset =>
    /\ x.version \in Versions
    /\ Clean(x.version) => Approved(x.version) /\ row[x.version].rules = x.rules

RaceInv ==
  /\ TypeInv /\ Contiguous /\ EarlierClosed /\ LocksApart
  /\ \A r \in Administrators : SessionSound(request[r])
  /\ NamesItsRules(chosen) /\ NamesItsRules(record)

\* What the proofs below need of types, now and after a step.
LEMMA RaceTypes ==
  ASSUME TypeInv
  PROVE  /\ row \in [Versions -> Row] /\ clock \in Times /\ clock \in Int /\ Unset \notin Times
         /\ overtaken \in Int /\ (\A x \in Versions : x \in Int) /\ (\A x \in Times : x \in Int)
         /\ request \in [Administrators -> Sessions]
         /\ \A r \in Administrators :
              /\ request[r] \in Sessions /\ request[r].v \in Versions
              /\ request[r].op = "flushed" => request[r].boundary \in Times
  BY PolicyAssumption
  DEF PolicyAssumption, TypeInv, PolicyTypeOK, SessionShape, Sessions, Versions, Times

\* A step that touches no clean version that is approved, but to end its window,
\* and approves none.
KeepsClean ==
  /\ overtaken <= overtaken' /\ clock <= clock'
  /\ \A u \in Versions : overtaken' < u =>
       /\ row'[u].st = "approved" <=> Approved(u)
       /\ Approved(u) => /\ row'[u].rules = row[u].rules /\ row'[u].from = row[u].from
                         /\ row'[u].to = row[u].to \/ Dead(row'[u].from, row'[u].to, clock')

LEMMA ClosedKept ==
  ASSUME RaceInv, TypeInv', KeepsClean
  PROVE  EarlierClosed'
<1> SUFFICES ASSUME NEW u \in Versions, NEW v \in Versions, Clean(u)', u < v,
                    Approved(u)', Approved(v)'
             PROVE  ClosedFor(row'[u].from, row'[u].to, row'[v].from, clock')
  BY DEF EarlierClosed
<1>1. /\ clock \in Int /\ clock' \in Int /\ clock <= clock' /\ overtaken \in Int
      /\ overtaken' \in Int /\ u \in Int /\ v \in Int /\ overtaken <= overtaken' /\ overtaken' < u
  BY RaceTypes DEF RaceInv, KeepsClean, Clean, TypeInv, PolicyTypeOK, Times
<1>2. Approved(u) /\ Approved(v) /\ Clean(u) /\ overtaken' < v
  BY <1>1 DEF KeepsClean, Approved, Clean
<1>3. ClosedFor(row[u].from, row[u].to, row[v].from, clock)
  BY <1>2 DEF RaceInv, EarlierClosed
<1>4. /\ row'[u].from = row[u].from /\ row'[v].from = row[v].from
      /\ row'[u].to = row[u].to \/ Dead(row'[u].from, row'[u].to, clock')
  BY <1>1, <1>2 DEF KeepsClean
<1>5. row[u].to \in Times \cup {Unset} /\ Unset \notin Times /\ (\A x \in Times : x \in Int)
  BY RaceTypes DEF RaceInv, Row
<1> QED
  BY <1>1, <1>3, <1>4, <1>5 DEF ClosedFor, Dead

LEMMA SessionKept ==
  ASSUME RaceInv, TypeInv', KeepsClean, NEW s \in Sessions, SessionSound(s),
         s.op = "flushed" => row'[s.v].st # "none" /\ row'[s.v].from = row[s.v].from
                               /\ s.boundary \in Times
  PROVE  SessionSound(s)'
<1>1. /\ clock \in Int /\ clock' \in Int /\ clock <= clock' /\ overtaken \in Int
      /\ overtaken' \in Int /\ overtaken <= overtaken' /\ (\A x \in Versions : x \in Int)
      /\ Unset \notin Times /\ (\A x \in Times : x \in Int) /\ s.v \in Versions /\ row \in [Versions -> Row]
  BY RaceTypes DEF RaceInv, KeepsClean, TypeInv, PolicyTypeOK, Times, Sessions
<1>2. \A n \in Versions : Clean(n)' => Clean(n) /\ (Approved(n)' <=> Approved(n))
  BY <1>1 DEF KeepsClean, Clean, Approved
<1>3. s.op = "create" => \A n \in Versions : Clean(n)' /\ n < s.v => Approved(n)'
  BY <1>2 DEF SessionSound
<1>4. ASSUME s.op = "flushed", Clean(s.v)'
      PROVE  FlushSound(s)'
  <2>0. Contiguous
    BY DEF RaceInv
  <2>1. Clean(s.v) /\ FlushSound(s) /\ Exists(s.v) /\ (Approved(s.v)' <=> Approved(s.v))
    BY <1>1, <1>2, <1>4 DEF SessionSound
  <2>2. row'[s.v].from = row[s.v].from
    BY <1>4
  <2>3. s.boundary \in Times \cup {Unset} /\ s.priors \in [Versions -> Row]
    BY DEF Sessions
  <2>4. IF row'[s.v].from # Unset THEN s.boundary = row'[s.v].from ELSE s.boundary <= clock
    BY <2>1, <2>2 DEF FlushSound
  <2>5. s.boundary <= clock => s.boundary <= clock'
    BY <1>1, <1>4
  <2>6. ASSUME NEW u \in Versions, Clean(u)', u < s.v
        PROVE  /\ s.priors[u].st = "approved" /\ s.priors[u].from = row'[u].from
               /\ ~Approved(s.v)' =>
                    row'[u].to = s.priors[u].to \/ Dead(row'[u].from, row'[u].to, clock')
               /\ Approved(s.v)' =>
                    LET end == ClosedAt(s.priors[u], s.boundary)
                    IN  end = s.priors[u].to \/ Dead(s.priors[u].from, end, clock')
               /\ \A w \in Versions : u < w /\ w < s.v =>
                    ClosedFor(s.priors[u].from, s.priors[u].to, row'[w].from, clock')
    <3>1. Clean(u) /\ Approved(u)
      <4>1. Clean(u)
        BY <1>2, <2>6
      <4> QED
        BY <1>1, <2>0, <2>1, <2>6, <4>1 DEF Contiguous
    <3>2. /\ row'[u].from = row[u].from
          /\ row'[u].to = row[u].to \/ Dead(row'[u].from, row'[u].to, clock')
      BY <2>6, <3>1 DEF KeepsClean, Clean
    <3>3. /\ s.priors[u].st = "approved" /\ s.priors[u].from = row[u].from
          /\ ~Approved(s.v) => row[u].to = s.priors[u].to \/ Dead(row[u].from, row[u].to, clock)
          /\ Approved(s.v) =>
               LET end == ClosedAt(s.priors[u], s.boundary)
               IN  end = s.priors[u].to \/ Dead(s.priors[u].from, end, clock)
          /\ \A w \in Versions : u < w /\ w < s.v =>
               ClosedFor(s.priors[u].from, s.priors[u].to, row[w].from, clock)
      BY <2>1, <2>6, <3>1 DEF FlushSound
    <3>5. /\ row[u].to \in Times \cup {Unset} /\ s.priors[u].to \in Times \cup {Unset}
          /\ s.priors[u].from \in Times \cup {Unset}
      BY <1>1, <2>3 DEF Row
    <3>6. ASSUME ~Approved(s.v)'
          PROVE  row'[u].to = s.priors[u].to \/ Dead(row'[u].from, row'[u].to, clock')
      <4>1. row[u].to = s.priors[u].to \/ Dead(row[u].from, row[u].to, clock)
        BY <2>1, <3>3, <3>6
      <4>2. CASE row'[u].to = row[u].to
        BY <1>1, <3>2, <3>5, <4>1, <4>2 DEF Dead
      <4> QED
        BY <3>2, <4>2
    <3>7. ASSUME Approved(s.v)'
          PROVE  LET end == ClosedAt(s.priors[u], s.boundary)
                 IN  end = s.priors[u].to \/ Dead(s.priors[u].from, end, clock')
      <4> DEFINE end == ClosedAt(s.priors[u], s.boundary)
      <4>1. end = s.priors[u].to \/ Dead(s.priors[u].from, end, clock)
        BY <2>1, <3>3, <3>7
      <4>2. end \in Times \cup {Unset}
        BY <2>3, <3>5 DEF ClosedAt
      <4> HIDE DEF end
      <4>3. end = s.priors[u].to \/ Dead(s.priors[u].from, end, clock')
        BY <1>1, <4>1, <4>2 DEF Dead
      <4> QED
        BY <4>3 DEF end
    <3>8. ASSUME NEW w \in Versions, u < w, w < s.v
          PROVE  ClosedFor(s.priors[u].from, s.priors[u].to, row'[w].from, clock')
      <4>1. Clean(w)'
        BY <1>1, <2>6, <3>8 DEF Clean
      <4>2. Approved(w) /\ row'[w].from = row[w].from
        <5>1. Clean(w)
          BY <1>2, <4>1
        <5>2. Approved(w)
          BY <1>1, <2>0, <2>1, <3>8, <5>1 DEF Contiguous
        <5> QED
          BY <4>1, <5>2 DEF KeepsClean, Clean
      <4> QED
        BY <1>1, <3>3, <3>5, <3>8, <4>2 DEF ClosedFor
    <3> QED
      BY <3>2, <3>3, <3>6, <3>7, <3>8
  <2> QED
    BY <1>1, <2>3, <2>4, <2>5, <2>6, <1>4 DEF FlushSound
<1> QED
  BY <1>3, <1>4 DEF SessionSound, Exists

LEMMA NamesKept ==
  ASSUME RaceInv, TypeInv', KeepsClean, NEW x, NamesItsRules(x)
  PROVE  NamesItsRules(x)'
<1>1. /\ overtaken \in Int /\ overtaken' \in Int /\ (\A v \in Versions : v \in Int)
      /\ overtaken <= overtaken'
  BY RaceTypes DEF RaceInv, TypeInv, PolicyTypeOK, KeepsClean
<1> QED
  BY <1>1 DEF NamesItsRules, KeepsClean, Clean, Approved

\* What a step owes that changes no more than one request and keeps the clean
\* versions: its own request, the locks, and that drafts stay last.
LEMMA StepKeeps ==
  ASSUME RaceInv, TypeInv', KeepsClean, Contiguous', LocksApart',
         UNCHANGED <<chosen, record>>, NEW r \in Administrators,
         SessionSound(request[r])',
         \A o \in Administrators \ {r} : request'[o] = request[o],
         \A o \in Administrators \ {r} : request[o].op = "flushed" =>
           /\ row'[request[o].v].st # "none"
           /\ row'[request[o].v].from = row[request[o].v].from
  PROVE  RaceInv'
<1>1. EarlierClosed'
  BY ClosedKept
<1>2. ASSUME NEW o \in Administrators
      PROVE  SessionSound(request[o])'
  <2>1. CASE o = r
    BY <2>1
  <2>2. CASE o # r
    <3>1. PICK s : s = request[o]
      OBVIOUS
    <3>2. s \in Sessions /\ SessionSound(s) /\ (s.op = "flushed" => s.boundary \in Times)
      BY <3>1, RaceTypes DEF RaceInv
    <3>3. s.op = "flushed" => row'[s.v].st # "none" /\ row'[s.v].from = row[s.v].from
      BY <2>2, <3>1
    <3>4. SessionSound(s)'
      BY <3>2, <3>3, SessionKept
    <3>5. request'[o] = s
      BY <2>2, <3>1
    <3> QED
      BY <3>4, <3>5
  <2> QED
    BY <2>1, <2>2
<1>3. NamesItsRules(chosen)' /\ NamesItsRules(record)'
  <2>1. PICK x, y : x = chosen /\ y = record
    OBVIOUS
  <2>2. NamesItsRules(x) /\ NamesItsRules(y)
    BY <2>1 DEF RaceInv
  <2>3. NamesItsRules(x)' /\ NamesItsRules(y)'
    BY <2>2, NamesKept
  <2>4. chosen' = x /\ record' = y
    BY <2>1
  <2> QED
    BY <2>3, <2>4 DEF NamesItsRules, Clean, Approved
<1> QED
  BY <1>1, <1>2, <1>3 DEF RaceInv

\* A request that ends: what the step that ends it owes.
LEMMA Ends ==
  ASSUME RaceInv, NEW r \in Administrators, EndRequest(r)
  PROVE  /\ request'[r] = NoSession /\ clock' = clock /\ UNCHANGED <<chosen, record>>
         /\ \A o \in Administrators \ {r} : request'[o] = request[o]
         /\ SessionSound(request[r])' /\ LocksApart'
<1>1. /\ request'[r] = NoSession /\ clock' = clock /\ UNCHANGED <<chosen, record>>
      /\ \A o \in Administrators \ {r} : request'[o] = request[o]
  BY RaceTypes DEF EndRequest, publication, RaceInv
<1>2. SessionSound(request[r])'
  BY <1>1, NoSessionType DEF SessionSound
<1>3. LocksApart'
  BY <1>1, NoSessionType DEF RaceInv, LocksApart
<1> QED
  BY <1>1, <1>2, <1>3

\* A request ends that writes the row of v at most, unlocked or new: it is noted
\* as overtaken, or leaves a draft or nothing of what was no more, or ends the
\* window of what is approved.
LEMMA OneRowWritten ==
  ASSUME RaceInv, TypeInv', NEW r \in Administrators, NEW v \in Versions,
         EndRequest(r), overtaken <= overtaken',
         \A u \in Versions \ {v} : row'[u] = row[u],
         \A o \in Administrators \ {r} : request[o].op = "flushed" =>
           request[o].v # v \/ row'[v] = row[v],
         \/ v <= overtaken'
         \/ /\ ~Approved(v) /\ row'[v].st # "approved"
            /\ row'[v].st # "none" =>
                 Exists(v) \/ \A n \in Versions : Clean(n) /\ n < v => Approved(n)
         \/ /\ Approved(v) /\ row'[v].st = "approved" /\ row'[v].rules = row[v].rules
            /\ row'[v].from = row[v].from
            /\ row'[v].to = row[v].to \/ Dead(row'[v].from, row'[v].to, clock')
  PROVE  RaceInv'
<1>1. /\ overtaken \in Int /\ overtaken' \in Int /\ clock \in Int /\ clock' = clock
      /\ \A u \in Versions : u \in Int
  BY RaceTypes, Ends DEF RaceInv, TypeInv, PolicyTypeOK
<1>2. KeepsClean
  <2> SUFFICES ASSUME NEW u \in Versions, overtaken' < u
               PROVE  /\ row'[u].st = "approved" <=> Approved(u)
                      /\ Approved(u) =>
                           /\ row'[u].rules = row[u].rules /\ row'[u].from = row[u].from
                           /\ \/ row'[u].to = row[u].to
                              \/ Dead(row'[u].from, row'[u].to, clock')
    BY <1>1 DEF KeepsClean
  <2>1. CASE u = v
    <3>1. ~(v <= overtaken')
      BY <1>1, <2>1
    <3> QED
      BY <2>1, <3>1
  <2>2. CASE u # v
    BY <2>2 DEF Approved
  <2> QED
    BY <2>1, <2>2
<1>3. Contiguous'
  <2> SUFFICES ASSUME NEW n \in Versions, NEW u \in Versions, overtaken' < n, n < u,
                      row'[u].st # "none"
               PROVE  row'[n].st = "approved"
    BY DEF Contiguous, Clean, Exists, Approved
  <2>1. Clean(n) /\ (row'[n].st = "approved" <=> Approved(n))
    BY <1>1, <1>2 DEF KeepsClean, Clean
  <2>2. CASE Exists(u)
    BY <2>1, <2>2 DEF RaceInv, Contiguous
  <2>3. CASE ~Exists(u)
    <3>1. u = v
      BY <2>3 DEF Exists
    <3>2. ~(v <= overtaken') /\ ~Approved(v)
      BY <1>1, <2>3, <3>1 DEF Exists, Approved
    <3>3. \A m \in Versions : Clean(m) /\ m < v => Approved(m)
      BY <2>3, <3>1, <3>2
    <3> QED
      BY <2>1, <3>1, <3>3
  <2> QED
    BY <2>2, <2>3
<1>4. \A o \in Administrators \ {r} : request[o].op = "flushed" =>
        /\ row'[request[o].v].st # "none"
        /\ row'[request[o].v].from = row[request[o].v].from
  <2> SUFFICES ASSUME NEW o \in Administrators \ {r}, request[o].op = "flushed"
               PROVE  /\ row'[request[o].v].st # "none"
                      /\ row'[request[o].v].from = row[request[o].v].from
    OBVIOUS
  <2>1. request[o].v \in Versions /\ row[request[o].v].st # "none"
    BY RaceTypes DEF RaceInv, SessionSound, Exists
  <2> QED
    BY <2>1
<1> QED
  BY <1>2, <1>3, <1>4, Ends, StepKeeps

\* The rows stay, and one request ends.
LEMMA OnlyEnds ==
  ASSUME RaceInv, TypeInv', NEW r \in Administrators, EndRequest(r), overtaken <= overtaken',
         row' = row
  PROVE  RaceInv'
<1>1. PICK v : v = request[r].v
  OBVIOUS
<1>2. v \in Versions /\ row[v] \in Row
  BY <1>1, RaceTypes DEF RaceInv
<1>3. \/ ~Approved(v) /\ (row[v].st # "none" => Exists(v))
      \/ Approved(v)
  BY DEF Exists
<1> QED
  BY <1>2, <1>3, OneRowWritten DEF Approved

\* Drafts are inserted, edited and deleted; versions are retired.
LEMMA DraftOrRetirement ==
  ASSUME RaceInv, TypeInv', NEW r \in Administrators, overtaken <= overtaken',
         CommitDraft(r) \/ CommitUpdate(r) \/ CommitDelete(r) \/ CommitRetire(r)
  PROVE  RaceInv'
<1>1. PICK v : v = request[r].v
  OBVIOUS
<1>2. /\ v \in Versions /\ row \in [Versions -> Row] /\ row' \in [Versions -> Row]
      /\ SessionSound(request[r]) /\ EndRequest(r)
      /\ overtaken \in Int /\ v \in Int /\ clock \in Int /\ clock \in Times /\ Unset \notin Times
  BY <1>1, RaceTypes
  DEF RaceInv, TypeInv, PolicyTypeOK, CommitDraft, CommitUpdate, CommitDelete, CommitRetire
<1>3. CASE row' = row
  BY <1>2, <1>3, OnlyEnds
<1>4. CASE CommitDraft(r) /\ row' # row
  <2>1. PICK rules \in RuleSets, w \in Windows :
          row' = [row EXCEPT ![v] =
            [st |-> "draft", rules |-> rules, from |-> w[1], to |-> w[2]]]
    BY <1>1, <1>4 DEF CommitDraft
  <2>2. ~Exists(v) /\ row'[v].st = "draft" /\ \A u \in Versions \ {v} : row'[u] = row[u]
    BY <1>1, <1>2, <1>4, <2>1 DEF CommitDraft
  <2>3. \A n \in Versions : Clean(n) /\ n < v => Approved(n)
    BY <1>1, <1>2, <1>4 DEF CommitDraft, SessionSound
  <2>4. \A o \in Administrators \ {r} : request[o].op = "flushed" => request[o].v # v
    BY <2>2 DEF RaceInv, SessionSound
  <2> QED
    BY <1>2, <2>2, <2>3, <2>4, OneRowWritten DEF Approved, Exists
<1>5. CASE CommitUpdate(r) /\ row' # row
  <2>0. request[r].op = "update" /\ Free(r, v) /\ NoteOvertaken(r)
    <3>1. request[r].op = "update" /\ Free(r, request[r].v) /\ NoteOvertaken(r)
      BY <1>5, Zenon DEF CommitUpdate
    <3> QED
      BY <1>1, <3>1
  <2> DEFINE Set(new, old, current) == IF new = old THEN current ELSE new
  <2>1. PICK rules \in RuleSets, w \in Windows :
          row' = [row EXCEPT
            ![request[r].v].rules = Set(rules, request[r].copy.rules, @),
            ![request[r].v].from  = Set(w[1], request[r].copy.from, @),
            ![request[r].v].to    = Set(w[2], request[r].copy.to, @)]
    BY <1>5 DEF CommitUpdate
  <2>2. Exists(v) /\ row'[v].st = row[v].st /\ \A u \in Versions \ {v} : row'[u] = row[u]
    BY <1>1, <1>2, <1>5, <2>1 DEF CommitUpdate, Row
  <2>3. \A o \in Administrators \ {r} : request[o].op = "flushed" => request[o].v # v
    BY <2>0 DEF Free
  <2>4. Approved(v) => v <= overtaken'
    BY <1>1, <1>2, <2>0 DEF SessionSound, NoteOvertaken, CopyOvertaken
  <2> QED
    BY <1>2, <2>2, <2>3, <2>4, OneRowWritten DEF Approved
<1>6. CASE CommitDelete(r)
  <2>1. row'[v].st = "none" /\ \A u \in Versions \ {v} : row'[u] = row[u]
    BY <1>1, <1>2, <1>6 DEF CommitDelete, NoRow
  <2>2. \A o \in Administrators \ {r} : request[o].op = "flushed" => request[o].v # v
    BY <1>1, <1>6 DEF CommitDelete, Free
  <2>3. Approved(v) => v <= overtaken'
    BY <1>1, <1>2, <1>6 DEF CommitDelete, SessionSound, NoteOvertaken, CopyOvertaken
  <2> QED
    BY <1>2, <2>1, <2>2, <2>3, OneRowWritten
<1>7. CASE CommitRetire(r) /\ row' # row
  <2>1. Exists(v) /\ row' = [row EXCEPT ![v].to = clock]
    BY <1>1, <1>7 DEF CommitRetire
  <2>2. /\ row'[v].st = row[v].st /\ row'[v].rules = row[v].rules
        /\ row'[v].from = row[v].from /\ row'[v].to = clock
        /\ \A u \in Versions \ {v} : row'[u] = row[u]
    BY <1>2, <2>1 DEF Row
  <2>3. \A o \in Administrators \ {r} : request[o].op = "flushed" => request[o].v # v
    BY <1>1, <1>7 DEF CommitRetire, Free
  <2>4. Dead(row'[v].from, row'[v].to, clock')
    BY <1>2, <2>2, Ends DEF Dead
  <2> QED
    BY <1>2, <2>1, <2>2, <2>3, <2>4, OneRowWritten DEF Approved
<1> QED
  BY <1>3, <1>4, <1>5, <1>6, <1>7

\* A request that begins loads what it checks.
LEMMA BeginKeeps ==
  ASSUME RaceInv, TypeInv', NEW r \in Administrators,
         \/ BeginDraft(r)
         \/ \E v \in Versions : \/ BeginUpdate(r, v) \/ BeginDelete(r, v)
                                \/ BeginRetire(r, v) \/ BeginApprove(r, v)
  PROVE  RaceInv'
<1>1. /\ overtaken \in Int /\ clock \in Int /\ \A u \in Versions : u \in Int
      /\ request \in [Administrators -> Sessions]
  BY RaceTypes DEF RaceInv
<1>2. ASSUME NEW op \in Ops \ {"flushed"}, NEW v \in Versions, LoadVersion(r, op, v),
             op \in {"update", "delete"} => row[v].st = "draft",
             op = "create" => \A n \in Versions : Clean(n) /\ n < v => Approved(n)
      PROVE  RaceInv'
  <2> DEFINE s == [NoSession EXCEPT
               !.op = op, !.v = v, !.copy = IF op = "retire" THEN NoRow ELSE row[v]]
  <2>1. s.op = op /\ s.v = v /\ s.copy = IF op = "retire" THEN NoRow ELSE row[v]
    BY DEF NoSession
  <2>2. request'[r] = s /\ \A o \in Administrators \ {r} : request'[o] = request[o]
    BY <1>1, <1>2 DEF LoadVersion
  <2> HIDE DEF s
  <2>3. UNCHANGED <<clock, row, overtaken, chosen, record>>
    BY <1>2 DEF LoadVersion, publication
  <2>4. KeepsClean
    BY <1>1, <2>3 DEF KeepsClean, Approved
  <2>5. Contiguous'
    BY <2>3 DEF RaceInv, Contiguous, Clean, Exists, Approved
  <2>6. LocksApart'
    BY <1>2, <2>1, <2>2 DEF RaceInv, LocksApart, Ops
  <2>7. SessionSound(request[r])'
    BY <1>2, <2>1, <2>2, <2>3 DEF SessionSound, Ops, Clean, Approved
  <2>8. \A o \in Administrators \ {r} : request[o].op = "flushed" =>
          /\ row'[request[o].v].st # "none"
          /\ row'[request[o].v].from = row[request[o].v].from
    BY <2>3 DEF RaceInv, SessionSound, Exists
  <2> QED
    BY <2>2, <2>3, <2>4, <2>5, <2>6, <2>7, <2>8, StepKeeps
<1>3. {"update", "delete", "retire", "approve", "create"} \subseteq Ops \ {"flushed"}
  BY DEF Ops
<1>4. ASSUME NEW v \in Versions, BeginUpdate(r, v) PROVE RaceInv'
  BY <1>2, <1>3, <1>4 DEF BeginUpdate, Mutable
<1>5. ASSUME NEW v \in Versions, BeginDelete(r, v) PROVE RaceInv'
  BY <1>2, <1>3, <1>5 DEF BeginDelete
<1>6. ASSUME NEW v \in Versions, BeginRetire(r, v) PROVE RaceInv'
  BY <1>2, <1>3, <1>6 DEF BeginRetire
<1>7. ASSUME NEW v \in Versions, BeginApprove(r, v) PROVE RaceInv'
  BY <1>2, <1>3, <1>7 DEF BeginApprove
<1>8. CASE BeginDraft(r)
  <2> DEFINE numbers == {v \in Versions : Exists(v)}
             latest == IF numbers = {} THEN 0 ELSE Max(numbers)
  <2>1. /\ latest # 0 => Approved(latest)
        /\ latest < MaxVersions
        /\ LoadVersion(r, "create", latest + 1)
    BY <1>8 DEF BeginDraft
  <2>2. latest \in 0..MaxVersions /\ (latest # 0 => latest \in Versions /\ Exists(latest))
    <3>1. CASE numbers = {}
      BY <3>1, PolicyAssumption DEF PolicyAssumption
    <3>2. CASE numbers # {}
      <4>1. Max(numbers) \in numbers
        BY <3>2, GreatestVersion
      <4> QED
        BY <3>2, <4>1 DEF Versions
    <3> QED
      BY <3>1, <3>2
  <2> HIDE DEF latest
  <2>3. latest + 1 \in Versions
    BY <2>1, <2>2, PolicyAssumption DEF PolicyAssumption, Versions
  <2>4. ASSUME NEW n \in Versions, Clean(n), n < latest + 1 PROVE Approved(n)
    <3>1. n <= latest /\ latest # 0 /\ latest \in Int /\ n \in Int
      BY <2>2, <2>4 DEF Versions
    <3>2. latest \in Versions /\ Exists(latest) /\ Approved(latest)
      BY <2>1, <2>2, <3>1
    <3>3. CASE n = latest
      BY <3>2, <3>3
    <3>4. CASE n < latest
      BY <2>4, <3>2, <3>4 DEF RaceInv, Contiguous
    <3> QED
      BY <3>1, <3>3, <3>4
  <2> QED
    BY <1>2, <1>3, <2>1, <2>3, <2>4
<1> QED
  BY <1>4, <1>5, <1>6, <1>7, <1>8

\* What has closed an earlier window stays if the same boundary closes it again.
LEMMA ClosedOnce ==
  ASSUME Unset \notin Times, \A x \in Times : x \in Int, NEW t \in Int,
         NEW prior \in Row, NEW b \in Times, NEW start \in Times \cup {Unset},
         ClosedFor(prior.from, prior.to, start, t),
         IF start # Unset THEN b = start ELSE b = t
  PROVE  LET end == ClosedAt(prior, b)
         IN  end = prior.to \/ Dead(prior.from, end, t)
  BY DEF ClosedFor, ClosedAt, Dead, Row

\* Closing a window that ended for a version in between ends it for that version
\* still.
LEMMA ClosesFor ==
  ASSUME Unset \notin Times, \A x \in Times : x \in Int, NEW t \in Int,
         NEW prior \in Row, NEW b \in Times, NEW start \in Times \cup {Unset},
         ClosedFor(prior.from, prior.to, start, t)
  PROVE  ClosedFor(prior.from, ClosedAt(prior, b), start, t)
  BY DEF ClosedFor, ClosedAt, Row

\* ... and for the version that closes it.
LEMMA Closes ==
  ASSUME Unset \notin Times, \A x \in Times : x \in Int, NEW t \in Int,
         NEW prior \in Row, NEW b \in Times, NEW start \in Times \cup {Unset},
         IF start # Unset THEN b = start ELSE b <= t
  PROVE  ClosedFor(prior.from, ClosedAt(prior, b), start, t)
  BY DEF ClosedFor, ClosedAt, Row

\* An approval that flushes locks its row and loads the windows it will close.
LEMMA FlushKeeps ==
  ASSUME RaceInv, TypeInv', NEW r \in Administrators, overtaken <= overtaken', FlushApprove(r)
  PROVE  RaceInv'
<1>1. PICK v, b : v = request[r].v /\ b = Boundary(r)
  OBVIOUS
<1> DEFINE ps == [u \in Versions |-> IF u \in EarlierVersions(v) THEN row[u] ELSE NoRow]
<1>2. /\ request \in [Administrators -> Sessions] /\ request[r] \in Sessions /\ v \in Versions
      /\ row \in [Versions -> Row] /\ request[r].op = "approve"
      /\ overtaken \in Int /\ overtaken' \in Int /\ clock \in Int /\ clock \in Times
      /\ Unset \notin Times /\ (\A x \in Times : x \in Int) /\ (\A x \in Versions : x \in Int)
  BY <1>1, RaceTypes DEF RaceInv, TypeInv, PolicyTypeOK, FlushApprove
<1>3. UNCHANGED <<clock, row, chosen, record>>
  BY DEF FlushApprove, publication
<1>4. KeepsClean
  BY <1>2, <1>3 DEF KeepsClean, Approved
<1>5. Contiguous'
  BY <1>2, <1>3 DEF RaceInv, Contiguous, Clean, Exists, Approved
<1>6. \A o \in Administrators \ {r} : request[o].op = "flushed" =>
        /\ request[o].v # v
        /\ row'[request[o].v].st # "none"
        /\ row'[request[o].v].from = row[request[o].v].from
  BY <1>1, <1>3 DEF FlushApprove, Free, RaceInv, SessionSound, Exists
<1>7. CASE ~Exists(v)
  BY <1>1, <1>3, <1>7, OnlyEnds DEF FlushApprove, EndRequest
<1>8. CASE Exists(v)
  <2>0. PICK s : s = [request[r] EXCEPT !.op = "flushed", !.copy = NoRow,
                                        !.boundary = b, !.priors = ps]
    OBVIOUS
  <2>1. request' = [request EXCEPT ![r] = s]
    BY <1>1, <1>2, <1>8, <2>0 DEF FlushApprove
  <2>2. s.op = "flushed" /\ s.v = v /\ s.boundary = b /\ s.priors = ps
    BY <1>1, <1>2, <2>0 DEF Sessions
  <2>3. request'[r] = s /\ \A o \in Administrators \ {r} : request'[o] = request[o]
    BY <1>2, <2>1
  <2>4. LocksApart'
    BY <1>6, <2>2, <2>3 DEF RaceInv, LocksApart
  <2>5. \A u \in Versions : s.priors[u].st = "approved" => u < v
    BY <2>2 DEF NoRow, EarlierVersions
  <2>6. ASSUME overtaken' < v
        PROVE  IF row[v].from # Unset THEN b = row[v].from ELSE b = clock
    <3>1. ~CopyOvertaken(r)
      BY <1>1, <1>2, <2>6 DEF FlushApprove, NoteOvertaken
    <3>2. request[r].copy.from = row[v].from
      BY <1>1, <1>2, <1>8, <3>1 DEF CopyOvertaken
    <3> QED
      BY <1>1, <3>2 DEF Boundary
  <2>7. ASSUME overtaken' < v, NEW u \in Versions, overtaken' < u, u < v
        PROVE  /\ s.priors[u].st = "approved" /\ s.priors[u].from = row[u].from
               /\ row[u].to = s.priors[u].to
               /\ Approved(v) =>
                    LET end == ClosedAt(s.priors[u], b)
                    IN  end = s.priors[u].to \/ Dead(s.priors[u].from, end, clock)
               /\ \A w \in Versions : u < w /\ w < v =>
                    ClosedFor(s.priors[u].from, s.priors[u].to, row[w].from, clock)
    <3>1. Clean(u) /\ Approved(u)
      BY <1>2, <1>8, <2>7 DEF RaceInv, Contiguous, Clean
    <3>2. s.priors[u] = row[u] /\ row[u] \in Row /\ row[v] \in Row
      BY <1>2, <2>2, <2>7, <3>1 DEF EarlierVersions
    <3>3. ASSUME Approved(v)
          PROVE  LET end == ClosedAt(row[u], b)
                 IN  end = row[u].to \/ Dead(row[u].from, end, clock)
      <4>1. ClosedFor(row[u].from, row[u].to, row[v].from, clock)
        <5>1. EarlierClosed
          BY DEF RaceInv
        <5> QED
          BY <1>2, <2>7, <3>1, <3>3, <5>1 DEF EarlierClosed
      <4>2. b \in Times /\ row[v].from \in Times \cup {Unset}
        BY <1>2, <2>6, <2>7, <3>2 DEF Row
      <4>3. IF row[v].from # Unset THEN b = row[v].from ELSE b = clock
        BY <2>6, <2>7
      <4>4. PICK prior, start, t : prior = row[u] /\ start = row[v].from /\ t = clock
        OBVIOUS
      <4>5. LET end == ClosedAt(prior, b) IN end = prior.to \/ Dead(prior.from, end, t)
        BY <1>2, <3>2, <4>1, <4>2, <4>3, <4>4, ClosedOnce
      <4> QED
        BY <4>4, <4>5
    <3>4. ASSUME NEW w \in Versions, u < w, w < v
          PROVE  ClosedFor(row[u].from, row[u].to, row[w].from, clock)
      <4>1. Clean(w) /\ Approved(w)
        BY <1>2, <1>8, <2>7, <3>4 DEF RaceInv, Contiguous, Clean
      <4> QED
        <5>1. EarlierClosed
          BY DEF RaceInv
        <5> QED
          BY <3>1, <3>4, <4>1, <5>1 DEF EarlierClosed
    <3> QED
      BY <3>1, <3>2, <3>3, <3>4 DEF Approved
  <2>8. ASSUME overtaken' < v
        PROVE  FlushSound(s)'
    <3>1. IF row'[s.v].from # Unset THEN s.boundary = row'[s.v].from ELSE s.boundary <= clock'
      BY <1>2, <1>3, <2>2, <2>6, <2>8
    <3>2. \A u \in Versions : Clean(u)' /\ u < s.v =>
       /\ s.priors[u].st = "approved" /\ s.priors[u].from = row'[u].from
       /\ ~Approved(s.v)' =>
            row'[u].to = s.priors[u].to \/ Dead(row'[u].from, row'[u].to, clock')
       /\ Approved(s.v)' =>
            LET end == ClosedAt(s.priors[u], s.boundary)
            IN  end = s.priors[u].to \/ Dead(s.priors[u].from, end, clock')
       /\ \A w \in Versions : u < w /\ w < s.v =>
            ClosedFor(s.priors[u].from, s.priors[u].to, row'[w].from, clock')
      BY <1>3, <2>2, <2>7, <2>8 DEF Clean, Approved
    <3> QED
      BY <3>1, <3>2 DEF FlushSound
  <2>9. SessionSound(request[r])'
    <3>1. SessionSound(s)'
      BY <1>3, <1>8, <2>2, <2>5, <2>8 DEF SessionSound, Clean, Exists
    <3> QED
      BY <2>3, <3>1
  <2> QED
    BY <1>3, <1>4, <1>5, <1>6, <2>3, <2>4, <2>9, StepKeeps
<1> QED
  BY <1>7, <1>8

\* What an approval of v writes: v is approved, and of the versions whose windows
\* it loaded only the ends move that it closes.
Approves(v, b, priors) ==
  /\ row'[v].st = "approved" /\ row'[v].rules = row[v].rules
  /\ row'[v].from = row[v].from /\ row'[v].to = row[v].to
  /\ \A u \in Versions \ {v} :
       LET end == ClosedAt(priors[u], b)
       IN  IF u < v /\ priors[u].st = "approved" /\ end # priors[u].to
           THEN row'[u] = [row[u] EXCEPT !.to = end]
           ELSE row'[u] = row[u]

LEMMA ApprovalWrites ==
  ASSUME RaceInv, NEW r \in Administrators, CommitApprove(r), row' # row,
         NEW v, NEW b, NEW priors,
         v = request[r].v, b = request[r].boundary, priors = request[r].priors
  PROVE  Approves(v, b, priors)
<1>1. /\ v \in Versions /\ row \in [Versions -> Row] /\ \A u \in Versions : u \in Int
      /\ request[r].op = "flushed" /\ SessionSound(request[r])
  BY RaceTypes DEF RaceInv, CommitApprove
<1>2. \A u \in Versions : priors[u].st = "approved" => u < v
  BY <1>1 DEF SessionSound
<1> DEFINE End(u) == ClosedAt(priors[u], b)
           closing == {u \in Versions : priors[u].st = "approved" /\ End(u) # priors[u].to}
<1>3. row' = [u \in Versions |->
                CASE u = v         -> [row[u] EXCEPT !.st = "approved"]
                  [] u \in closing -> [row[u] EXCEPT !.to = End(u)]
                  [] OTHER         -> row[u]]
  BY DEF CommitApprove
<1>4. v \notin closing
  BY <1>1, <1>2
<1>5. row'[v] = [row[v] EXCEPT !.st = "approved"]
  BY <1>1, <1>3, <1>4
<1>6. \A u \in Versions \ {v} :
        row'[u] = IF u \in closing THEN [row[u] EXCEPT !.to = End(u)] ELSE row[u]
  BY <1>3
<1>7. \A u \in Versions : u \in closing <=> u < v /\ priors[u].st = "approved"
                                              /\ ClosedAt(priors[u], b) # priors[u].to
  BY <1>2
<1> HIDE DEF closing
<1>8. /\ row'[v].st = "approved" /\ row'[v].rules = row[v].rules
      /\ row'[v].from = row[v].from /\ row'[v].to = row[v].to
  BY <1>1, <1>5 DEF Row
<1> QED
  BY <1>6, <1>7, <1>8 DEF Approves

\* An approval of a clean version that was a draft: it is the last, and it ends
\* what was before it.
LEMMA FirstApproval ==
  ASSUME RaceInv, TypeInv', NEW r \in Administrators, CommitApprove(r), row' # row,
         Clean(request[r].v), ~Approved(request[r].v), overtaken' = overtaken
  PROVE  RaceInv'
<1>1. PICK v, b, priors :
        v = request[r].v /\ b = request[r].boundary /\ priors = request[r].priors
  OBVIOUS
<1>2. /\ v \in Versions /\ row \in [Versions -> Row] /\ row' \in [Versions -> Row]
      /\ overtaken \in Int /\ clock \in Int /\ Unset \notin Times
      /\ (\A x \in Times : x \in Int) /\ (\A x \in Versions : x \in Int)
      /\ b \in Times /\ priors \in [Versions -> Row]
      /\ request[r].op = "flushed" /\ EndRequest(r) /\ clock' = clock
  BY <1>1, RaceTypes DEF RaceInv, TypeInv, PolicyTypeOK, CommitApprove, Sessions, EndRequest
<1>3. Approves(v, b, priors)
  BY <1>1, ApprovalWrites
<1>4. /\ Clean(v) /\ ~Approved(v) /\ Exists(v) /\ FlushSound(request[r])
      /\ Contiguous /\ EarlierClosed
  BY <1>1, <1>2 DEF RaceInv, SessionSound
<1>5. /\ IF row[v].from # Unset THEN b = row[v].from ELSE b <= clock
      /\ \A u \in Versions : Clean(u) /\ u < v =>
           /\ priors[u].st = "approved" /\ priors[u].from = row[u].from
           /\ row[u].to = priors[u].to \/ Dead(row[u].from, row[u].to, clock)
           /\ \A w \in Versions : u < w /\ w < v =>
                ClosedFor(priors[u].from, priors[u].to, row[w].from, clock)
  BY <1>1, <1>4 DEF FlushSound
<1>6. \A u \in Versions : /\ row'[u].rules = row[u].rules /\ row'[u].from = row[u].from
                          /\ u # v => row'[u].st = row[u].st
  BY <1>2, <1>3 DEF Approves, Row
<1>7. \A u \in Versions : Exists(u) /\ v < u => FALSE
  BY <1>2, <1>4 DEF Contiguous
<1>8. Contiguous'
  <2> SUFFICES ASSUME NEW n \in Versions, NEW u \in Versions, Clean(n), n < u,
                      row'[u].st # "none"
               PROVE  row'[n].st = "approved"
    BY DEF Contiguous, Clean, Exists, Approved
  <2>1. Exists(u)
    BY <1>4, <1>6 DEF Exists
  <2>2. Approved(n)
    BY <1>4, <2>1 DEF Contiguous
  <2> QED
    BY <1>6, <2>2, <1>4 DEF Approved
<1>9. ASSUME NEW u \in Versions, Clean(u), u < v
      PROVE  /\ \/ row'[u].to = ClosedAt(priors[u], b)
                \/ row'[u].to = row[u].to /\ Dead(row[u].from, row[u].to, clock)
             /\ row'[u].to # row[u].to => row'[u].to = ClosedAt(priors[u], b)
             /\ priors[u].from = row'[u].from /\ priors[u] \in Row
  <2>1. priors[u].st = "approved" /\ priors[u].from = row'[u].from /\ priors[u] \in Row
    BY <1>2, <1>5, <1>6, <1>9
  <2>2. u # v
    BY <1>2, <1>9
  <2>3. CASE ClosedAt(priors[u], b) # priors[u].to
    <3>1. row'[u] = [row[u] EXCEPT !.to = ClosedAt(priors[u], b)]
      BY <1>3, <1>9, <2>1, <2>2, <2>3 DEF Approves
    <3> QED
      BY <1>2, <2>1, <3>1 DEF Row
  <2>4. CASE ClosedAt(priors[u], b) = priors[u].to
    <3>1. row'[u] = row[u]
      BY <1>3, <2>2, <2>4 DEF Approves
    <3> QED
      BY <1>5, <1>9, <2>1, <2>4, <3>1
  <2> QED
    BY <2>3, <2>4
<1>10. ASSUME NEW u \in Versions, NEW w \in Versions, Clean(u), u < w,
              row'[u].st = "approved", row'[w].st = "approved"
       PROVE  ClosedFor(row'[u].from, row'[u].to, row'[w].from, clock)
  <2>1. Exists(w)
    BY <1>4, <1>6, <1>10 DEF Exists
  <2>2. u # v /\ (w = v \/ w < v)
    BY <1>2, <1>7, <1>10, <2>1
  <2>3. u < v
    BY <1>2, <1>10, <2>2
  <2>4. row[w].from \in Times \cup {Unset} /\ row'[w].from = row[w].from
    BY <1>2, <1>6 DEF Row
  <2>5. \/ row'[u].to = ClosedAt(priors[u], b)
        \/ row'[u].to = row[u].to /\ Dead(row'[u].from, row'[u].to, clock)
    BY <1>6, <1>9, <1>10, <2>3
  <2>6. PICK prior, start, t : prior = priors[u] /\ start = row[w].from /\ t = clock
    OBVIOUS
  <2>7. prior \in Row /\ prior.from = row'[u].from
    BY <1>9, <1>10, <2>3, <2>6
  <2>8. CASE w = v
    <3>1. ClosedFor(prior.from, ClosedAt(prior, b), start, t)
      BY <1>2, <1>5, <2>4, <2>6, <2>7, <2>8, Closes
    <3>2. CASE row'[u].to = ClosedAt(priors[u], b)
      BY <2>4, <2>6, <2>7, <3>1, <3>2
    <3>3. CASE Dead(row'[u].from, row'[u].to, clock)
      BY <3>3 DEF Dead, ClosedFor
    <3> QED
      BY <2>5, <3>2, <3>3
  <2>9. CASE w < v
    <3>1. ClosedFor(prior.from, prior.to, start, t)
      BY <1>5, <1>10, <2>3, <2>6, <2>9
    <3>2. ClosedFor(prior.from, ClosedAt(prior, b), start, t)
      BY <1>2, <2>4, <2>6, <2>7, <3>1, ClosesFor
    <3>3. CASE row'[u].to = ClosedAt(priors[u], b)
      BY <2>4, <2>6, <2>7, <3>2, <3>3
    <3>4. CASE Dead(row'[u].from, row'[u].to, clock)
      BY <3>4 DEF Dead, ClosedFor
    <3> QED
      BY <2>5, <3>3, <3>4
  <2> QED
    BY <2>2, <2>8, <2>9
<1>11. EarlierClosed'
  BY <1>2, <1>10 DEF EarlierClosed, Clean, Approved
<1>12. ASSUME NEW o \in Administrators, o # r
       PROVE  SessionSound(request[o])'
  <2>1. PICK s : s = request[o]
    OBVIOUS
  <2>2. request'[o] = s
    BY <1>2, <1>12, <2>1, Ends
  <2>3. s.v \in Versions /\ SessionSound(s) /\ s.priors \in [Versions -> Row]
    BY <2>1, RaceTypes DEF RaceInv, Sessions
  <2>4. \A n \in Versions : Approved(n) => row'[n].st = "approved"
    BY <1>4, <1>6, <1>3 DEF Approved, Approves
  <2>5. ASSUME s.op = "flushed"
        PROVE  row'[s.v].st # "none"
    BY <1>3, <1>6, <2>3, <2>5 DEF SessionSound, Exists, Approves
  <2>6. ASSUME s.op = "flushed", Clean(s.v)
        PROVE  FlushSound(s)'
    <3>1. Exists(s.v) /\ FlushSound(s) /\ s.v # v
      BY <1>1, <1>2, <1>12, <2>1, <2>3, <2>6 DEF SessionSound, RaceInv, LocksApart
    <3>2. s.v < v
      BY <1>2, <1>7, <2>3, <3>1
    <3>3. Approved(s.v) /\ row'[s.v].st = "approved"
      BY <1>2, <1>4, <2>3, <2>4, <2>6, <3>2 DEF Contiguous
    <3>4. \A u \in Versions : row'[u].from = row[u].from
      BY <1>6
    <3> QED
      BY <1>2, <2>3, <3>1, <3>3, <3>4 DEF FlushSound, Clean, Approved
  <2>7. SessionSound(s)'
    BY <1>2, <2>3, <2>4, <2>5, <2>6 DEF SessionSound, Clean, Exists, Approved
  <2> QED
    BY <2>2, <2>7
<1>13. \A n \in Versions : Approved(n) => row'[n].st = "approved" /\ row'[n].rules = row[n].rules
  BY <1>3, <1>4, <1>6 DEF Approved, Approves
<1>14. NamesItsRules(chosen)' /\ NamesItsRules(record)'
  <2>1. chosen' = chosen /\ record' = record
    BY <1>2, Ends
  <2>2. NamesItsRules(chosen) /\ NamesItsRules(record)
    BY DEF RaceInv
  <2> QED
    BY <1>13, <2>1, <2>2 DEF NamesItsRules, Clean, Approved
<1> QED
  BY <1>2, <1>8, <1>11, <1>12, <1>14, Ends DEF RaceInv

\* A second approval of a version, or one of a version that is not clean, changes
\* nothing that matters of the clean ones.
LEMMA OtherApproval ==
  ASSUME RaceInv, TypeInv', NEW r \in Administrators, CommitApprove(r), row' # row,
         ~Clean(request[r].v) \/ Approved(request[r].v), overtaken' = overtaken
  PROVE  RaceInv'
<1>1. PICK v, b, priors :
        v = request[r].v /\ b = request[r].boundary /\ priors = request[r].priors
  OBVIOUS
<1>2. /\ v \in Versions /\ row \in [Versions -> Row] /\ row' \in [Versions -> Row]
      /\ overtaken \in Int /\ clock \in Int /\ (\A x \in Versions : x \in Int)
      /\ request[r].op = "flushed" /\ EndRequest(r) /\ clock' = clock
  BY <1>1, RaceTypes DEF RaceInv, TypeInv, PolicyTypeOK, CommitApprove, EndRequest
<1>3. Approves(v, b, priors)
  BY <1>1, ApprovalWrites
<1>4. /\ Exists(v) /\ (Clean(v) => Approved(v) /\ FlushSound(request[r])) /\ Contiguous
  BY <1>1, <1>2 DEF RaceInv, SessionSound
<1>5. \A u \in Versions : /\ row'[u].rules = row[u].rules /\ row'[u].from = row[u].from
                          /\ u # v => row'[u].st = row[u].st
  BY <1>2, <1>3 DEF Approves, Row
<1>6. ASSUME NEW u \in Versions, Clean(u), Approved(u)
      PROVE  row'[u].to = row[u].to \/ Dead(row'[u].from, row'[u].to, clock)
  <2>1. CASE u = v
    BY <1>3, <2>1 DEF Approves
  <2>2. CASE u # v /\ row'[u] # row[u]
    <3>1. /\ u < v /\ priors[u].st = "approved" /\ ClosedAt(priors[u], b) # priors[u].to
          /\ row'[u] = [row[u] EXCEPT !.to = ClosedAt(priors[u], b)]
      BY <1>3, <2>2 DEF Approves
    <3>2. Clean(v)
      BY <1>2, <1>6, <3>1 DEF Clean
    <3>3. /\ priors[u].from = row[u].from
          /\ LET end == ClosedAt(priors[u], b)
             IN  end = priors[u].to \/ Dead(priors[u].from, end, clock)
      BY <1>1, <1>4, <1>6, <3>1, <3>2 DEF FlushSound
    <3>4. row'[u].to = ClosedAt(priors[u], b) /\ row'[u].from = row[u].from
      BY <1>2, <3>1 DEF Row
    <3> QED
      BY <3>1, <3>3, <3>4
  <2> QED
    BY <2>1, <2>2
<1>7. KeepsClean
  <2> SUFFICES ASSUME NEW u \in Versions, overtaken < u
               PROVE  /\ row'[u].st = "approved" <=> Approved(u)
                      /\ Approved(u) =>
                           /\ row'[u].rules = row[u].rules /\ row'[u].from = row[u].from
                           /\ \/ row'[u].to = row[u].to
                              \/ Dead(row'[u].from, row'[u].to, clock')
    BY <1>2 DEF KeepsClean
  <2>1. row'[u].st = "approved" <=> Approved(u)
    BY <1>3, <1>4, <1>5 DEF Approves, Approved, Clean
  <2> QED
    BY <1>2, <1>5, <1>6, <2>1 DEF Clean
<1>8. \A u \in Versions : row'[u].st # "none" => Exists(u)
  BY <1>4, <1>5 DEF Exists
<1>9. Contiguous'
  <2> SUFFICES ASSUME NEW n \in Versions, NEW u \in Versions, Clean(n), n < u,
                      row'[u].st # "none"
               PROVE  row'[n].st = "approved"
    BY DEF Contiguous, Clean, Exists, Approved
  <2>1. Approved(n)
    BY <1>4, <1>8 DEF Contiguous
  <2> QED
    BY <1>7, <2>1 DEF KeepsClean, Clean
<1>10. \A o \in Administrators \ {r} : request[o].op = "flushed" =>
         /\ row'[request[o].v].st # "none"
         /\ row'[request[o].v].from = row[request[o].v].from
  BY <1>1, <1>2, <1>5, RaceTypes DEF RaceInv, LocksApart, SessionSound, Exists
<1> QED
  BY <1>2, <1>7, <1>9, <1>10, Ends, StepKeeps

\* An administrator's step.
LEMMA AdministratorKeeps ==
  ASSUME RaceInv, TypeInv', NEW r \in Administrators, AdministratorStep(r)
  PROVE  RaceInv'
<1>1. overtaken \in Int /\ request[r].v \in Int
  BY RaceTypes DEF RaceInv
<1>2. CASE \/ BeginDraft(r)
           \/ \E v \in Versions : \/ BeginUpdate(r, v) \/ BeginDelete(r, v)
                                  \/ BeginRetire(r, v) \/ BeginApprove(r, v)
  BY <1>2, BeginKeeps
<1>3. NoteOvertaken(r) => overtaken <= overtaken'
  BY <1>1 DEF NoteOvertaken
<1>4. CASE CommitDraft(r) \/ CommitUpdate(r) \/ CommitDelete(r) \/ CommitRetire(r)
  <2>1. NoteOvertaken(r) \/ overtaken' = overtaken
    <3>1. CASE CommitUpdate(r)
      BY <3>1, Zenon DEF CommitUpdate
    <3> QED
      BY <1>4, <3>1 DEF CommitDraft, CommitDelete, CommitRetire
  <2> QED
    BY <1>1, <1>3, <1>4, <2>1, DraftOrRetirement
<1>5. CASE FlushApprove(r)
  BY <1>3, <1>5, FlushKeeps DEF FlushApprove
<1>6. CASE CommitApprove(r)
  <2>1. EndRequest(r) /\ overtaken' = overtaken
    BY <1>6 DEF CommitApprove
  <2>2. CASE row' = row
    BY <1>1, <2>1, <2>2, OnlyEnds
  <2>3. CASE row' # row
    BY <1>6, <2>1, <2>3, FirstApproval, OtherApproval
  <2> QED
    BY <2>2, <2>3
<1>7. CASE RollBack(r)
  BY <1>1, <1>7, OnlyEnds DEF RollBack
<1> QED
  BY <1>2, <1>4, <1>5, <1>6, <1>7 DEF AdministratorStep

\* A step of the publisher, of the memberships or of time writes no row and no
\* session.
LEMMA OtherStepKeeps ==
  ASSUME RaceInv, TypeInv',
         \/ Preview \/ BeginPublication \/ RefusePublication \/ CommitPublication
         \/ MatchChanges \/ Tick \/ UNCHANGED policyVars
  PROVE  RaceInv'
<1>1. /\ UNCHANGED <<row, request, overtaken>>
      /\ chosen' \in {Unset, chosen, Resolution} /\ record' \in {record, chosen}
      /\ clock' = clock \/ (Tick /\ clock' = clock + 1)
  BY DEF Preview, BeginPublication, RefusePublication, CommitPublication, MatchChanges, Tick,
         publication, policyVars
<1>2. overtaken \in Int /\ clock \in Int
  BY RaceTypes DEF RaceInv
<1>3. KeepsClean
  BY <1>1, <1>2 DEF KeepsClean, Approved
<1>4. EarlierClosed'
  BY <1>3, ClosedKept
<1>5. Contiguous' /\ LocksApart'
  BY <1>1 DEF RaceInv, Contiguous, LocksApart, Clean, Exists, Approved
<1>6. ASSUME NEW o \in Administrators
      PROVE  SessionSound(request[o])'
  <2>1. PICK s : s = request[o]
    OBVIOUS
  <2>2. s \in Sessions /\ SessionSound(s) /\ (s.op = "flushed" => s.boundary \in Times)
    BY <2>1, RaceTypes DEF RaceInv
  <2>3. s.op = "flushed" => row'[s.v].st # "none" /\ row'[s.v].from = row[s.v].from
    BY <1>1, <2>2 DEF SessionSound, Exists
  <2>4. SessionSound(s)' /\ request'[o] = s
    BY <1>1, <1>3, <2>1, <2>2, <2>3, SessionKept
  <2> QED
    BY <2>4
<1>7. NamesItsRules(chosen)' /\ NamesItsRules(record)'
  <2>1. PICK x, y, z : x = chosen /\ y = record /\ z = Resolution
    OBVIOUS
  <2>2. NamesItsRules(x) /\ NamesItsRules(y) /\ NamesItsRules(z)
    <3>1. NamesItsRules(chosen) /\ NamesItsRules(record)
      BY DEF RaceInv
    <3>2. z # Unset /\ z.version # Unset =>
            /\ z.version \in Versions /\ Approved(z.version) /\ row[z.version].rules = z.rules
      BY <2>1, ResolutionNames DEF RaceInv, TypeInv
    <3> QED
      BY <2>1, <3>1, <3>2 DEF NamesItsRules
  <2>3. NamesItsRules(Unset)
    BY DEF NamesItsRules
  <2>4. NamesItsRules(x)' /\ NamesItsRules(y)' /\ NamesItsRules(z)' /\ NamesItsRules(Unset)'
    BY <1>3, <2>2, <2>3, NamesKept DEF NamesItsRules
  <2>5. chosen' \in {Unset, x, z} /\ record' \in {y, x}
    BY <1>1, <2>1
  <2> QED
    BY <2>4, <2>5 DEF NamesItsRules
<1> QED
  BY <1>4, <1>5, <1>6, <1>7 DEF RaceInv

LEMMA RaceStep == RaceInv /\ [PolicyNext]_policyVars => RaceInv'
<1> SUFFICES ASSUME RaceInv, [PolicyNext]_policyVars PROVE RaceInv'
  OBVIOUS
<1>1. TypeInv'
  BY TypeStep DEF RaceInv
<1> QED
  BY <1>1, AdministratorKeeps, OtherStepKeeps DEF PolicyNext, PublicationStep

LEMMA RaceInit == PolicyInit => RaceInv
<1> SUFFICES ASSUME PolicyInit PROVE RaceInv
  OBVIOUS
<1>1. TypeInv
  BY TypeInit
<1>2. /\ \A v \in Versions : row[v].st = "none"
      /\ \A r \in Administrators : request[r] = NoSession
      /\ chosen = Unset /\ record = Unset
  BY DEF PolicyInit, NoRow
<1>3. Contiguous /\ EarlierClosed
  BY <1>2 DEF Contiguous, EarlierClosed, Exists, Approved
<1>4. LocksApart /\ \A r \in Administrators : SessionSound(request[r])
  BY <1>2, NoSessionType DEF LocksApart, SessionSound
<1> QED
  BY <1>1, <1>2, <1>3, <1>4 DEF RaceInv, NamesItsRules

LEMMA RaceInvariant == PolicySpec => []RaceInv
  BY RaceInit, RaceStep, PTL DEF PolicySpec

\* However many administrators overlap, no two approved versions newer than any
\* version written from an overtaken copy are live at once, now or later.
THEOREM OneLive == PolicySpec => []OneRuleSetLive
<1>1. RaceInv => OneRuleSetLive
  <2> SUFFICES ASSUME RaceInv, NEW u \in Versions, NEW v \in Versions, overtaken < u, u < v,
                      Approved(u), Approved(v), NEW t \in clock..MaxTime,
                      row[u].from = Unset \/ row[u].from <= t,
                      row[u].to = Unset \/ row[u].to > t,
                      row[v].from = Unset \/ row[v].from <= t
               PROVE  FALSE
    BY DEF OneRuleSetLive
  <2>1. ClosedFor(row[u].from, row[u].to, row[v].from, clock)
    BY DEF RaceInv, EarlierClosed, Clean
  <2>2. /\ row[u] \in Row /\ row[v] \in Row /\ clock \in Int /\ (\A x \in Times : x \in Int)
        /\ t \in Int /\ clock <= t
    BY RaceTypes, PolicyAssumption DEF RaceInv, PolicyAssumption
  <2> QED
    BY <2>1, <2>2 DEF ClosedFor, Row
<1> QED
  BY <1>1, RaceInvariant, PTL

\* The record of a published product names an approved version with the rules
\* that were applied, unless that version or a newer one was written from an
\* overtaken copy.
RecordSound ==
  record # Unset /\ record.version # Unset /\ overtaken < record.version =>
    Approved(record.version) /\ row[record.version].rules = record.rules

THEOREM RecordNamesUnlessOvertaken == PolicySpec => []RecordSound
<1>1. RaceInv => RecordSound
  BY DEF RaceInv, NamesItsRules, RecordSound, Clean
<1> QED
  BY <1>1, RaceInvariant, PTL

\* What the action property says of one version and one step.
RewriteAllowed(v) ==
  \/ /\ row'[v].st = "approved" /\ row'[v].rules = row[v].rules
     /\ Ended(v) => row'[v].to # Unset /\ (row'[v].to <= clock \/ row'[v].to = row'[v].from)
  \/ \E r \in Administrators : request'[r].op = "none" /\ LoadedBefore(r, v)

\* The end an approval writes of a window that it loaded as it is.
LEMMA EndedStaysEnded ==
  ASSUME RaceInv, NEW r \in Administrators, CommitApprove(r), row' # row,
         NEW v \in Versions, Approved(v), ~LoadedBefore(r, v)
  PROVE  RewriteAllowed(v)
<1>1. PICK n, b, priors :
        n = request[r].v /\ b = request[r].boundary /\ priors = request[r].priors
  OBVIOUS
<1>2. /\ n \in Versions /\ row \in [Versions -> Row] /\ clock \in Int /\ Unset \notin Times
      /\ (\A x \in Times : x \in Int) /\ request[r].op = "flushed" /\ b \in Times
  BY <1>1, RaceTypes DEF RaceInv, CommitApprove
<1>3. Approves(n, b, priors)
  BY <1>1, ApprovalWrites
<1>4. row[v] \in Row
  BY <1>2
<1>5. CASE row'[v].to = row[v].to
  <2>1. row'[v].st = "approved" /\ row'[v].rules = row[v].rules
    BY <1>3, <1>4 DEF Approves, Approved, Row
  <2> QED
    BY <1>5, <2>1 DEF RewriteAllowed, Ended
<1>6. CASE row'[v].to # row[v].to
  <2>1. /\ v # n /\ priors[v].st = "approved"
        /\ row'[v] = [row[v] EXCEPT !.to = ClosedAt(priors[v], b)]
    BY <1>3, <1>6 DEF Approves
  <2>2. /\ row'[v].to = ClosedAt(priors[v], b) /\ row'[v].from = row[v].from
        /\ row'[v].st = "approved" /\ row'[v].rules = row[v].rules
    BY <1>4, <2>1 DEF Row, Approved
  <2>3. priors[v].from = row[v].from /\ priors[v].to = row[v].to
    BY <1>1, <1>2, <2>1 DEF LoadedBefore
  <2>4. ASSUME Ended(v)
        PROVE  row'[v].to # Unset /\ (row'[v].to <= clock \/ row'[v].to = row'[v].from)
    BY <1>2, <1>4, <2>2, <2>3, <2>4 DEF ClosedAt, Ended, Row
  <2> QED
    BY <2>2, <2>4 DEF RewriteAllowed
<1> QED
  BY <1>5, <1>6

\* What was approved stays, with its rules, and what ended stays ended, but by
\* the write of a request that loaded the version before.
THEOREM RewrittenOnlyByWhoLoadedBefore == PolicySpec => RewrittenOnlyByRace
<1>1. ASSUME RaceInv, PolicyNext, NEW v \in Versions, Approved(v)
      PROVE  RewriteAllowed(v)
  <2>1. CASE row' = row
    BY <1>1, <2>1 DEF RewriteAllowed, Approved, Ended
  <2>2. CASE row' # row
    <3>1. PICK r \in Administrators :
            \/ CommitDraft(r) \/ CommitUpdate(r) \/ CommitDelete(r) \/ CommitRetire(r)
            \/ CommitApprove(r)
      BY <1>1, <2>2
      DEF PolicyNext, PublicationStep, AdministratorStep, BeginDraft, BeginUpdate, BeginDelete, BeginRetire,
          BeginApprove, LoadVersion, FlushApprove, RollBack, Preview, BeginPublication,
          RefusePublication, CommitPublication, MatchChanges, Tick, publication
    <3>2. PICK n : n = request[r].v
      OBVIOUS
    <3>3. /\ n \in Versions /\ row \in [Versions -> Row] /\ SessionSound(request[r])
          /\ clock \in Times /\ clock \in Int /\ Unset \notin Times
      BY <1>1, <3>2, RaceTypes DEF RaceInv
    <3>4. EndRequest(r)
      BY <3>1 DEF CommitDraft, CommitUpdate, CommitDelete, CommitRetire, CommitApprove
    <3>5. request'[r].op = "none"
      BY <1>1, <3>4, Ends, NoSessionType
    <3>6. ASSUME row'[v] = row[v] PROVE RewriteAllowed(v)
      BY <1>1, <3>6 DEF RewriteAllowed, Approved, Ended
    <3>7. ASSUME LoadedBefore(r, v) PROVE RewriteAllowed(v)
      BY <3>5, <3>7 DEF RewriteAllowed
    <3>8. CASE CommitDraft(r)
      <4>1. ~Exists(n) /\ \A u \in Versions \ {n} : row'[u] = row[u]
        BY <2>2, <3>2, <3>3, <3>8 DEF CommitDraft
      <4> QED
        BY <1>1, <3>6, <4>1 DEF Exists, Approved
    <3>9. CASE CommitUpdate(r)
      <4>1. request[r].op = "update"
        BY <3>9, Zenon DEF CommitUpdate
      <4>2. \A u \in Versions \ {n} : row'[u] = row[u]
        BY <2>2, <3>2, <3>3, <3>9 DEF CommitUpdate
      <4> QED
        BY <3>2, <3>3, <3>6, <3>7, <4>1, <4>2 DEF LoadedBefore, SessionSound
    <3>10. CASE CommitDelete(r)
      <4>1. request[r].op = "delete" /\ \A u \in Versions \ {n} : row'[u] = row[u]
        BY <3>2, <3>3, <3>10 DEF CommitDelete
      <4> QED
        BY <3>2, <3>3, <3>6, <3>7, <4>1 DEF LoadedBefore, SessionSound
    <3>11. CASE CommitRetire(r)
      <4>1. row' = [row EXCEPT ![n].to = clock]
        BY <2>2, <3>2, <3>11 DEF CommitRetire
      <4>2. CASE v # n
        BY <3>3, <3>6, <4>1, <4>2
      <4>3. CASE v = n
        <5>1. /\ row'[v].st = row[v].st /\ row'[v].rules = row[v].rules
              /\ row'[v].to = clock
          BY <3>3, <4>1, <4>3 DEF Row
        <5> QED
          BY <1>1, <3>3, <5>1 DEF RewriteAllowed, Approved
      <4> QED
        BY <4>2, <4>3
    <3>12. CASE CommitApprove(r)
      BY <1>1, <2>2, <3>7, <3>12, EndedStaysEnded
    <3> QED
      BY <3>1, <3>8, <3>9, <3>10, <3>11, <3>12
  <2> QED
    BY <2>1, <2>2
<1>2. RaceInv /\ PolicyNext =>
        \A v \in Versions : Approved(v) => RewriteAllowed(v)
  BY <1>1
<1>3. PolicySpec => [][\A v \in Versions : Approved(v) => RewriteAllowed(v)]_policyVars
  BY <1>2, RaceInvariant, PTL DEF PolicySpec
<1> QED
  BY <1>3 DEF RewrittenOnlyByRace, RewriteAllowed
=============================================================================
