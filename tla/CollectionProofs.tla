-------------------------- MODULE CollectionProofs --------------------------
(***************************************************************************)
(* What collection and analysis guarantee for any number of requests: one  *)
(* push of a report at a time, indicators that stand for decisions,        *)
(* verdicts that are their owner's, a taxonomy whose lineages end, grades  *)
(* that hold together and matrices whose ratings fit their rows.           *)
(***************************************************************************)
EXTENDS FeedReview, Taxonomy, MispPush, Tasking, NotebookWork, AchMatrix, FiniteSetTheorems, SequenceTheorems, TLAPS

(***************************************************************************)
(* What the reservation of a push guarantees for any number of requests:   *)
(* one push at a time until a lease lapses, and a record that knows of the *)
(* event unless a request died or an answer was lost.                      *)
(***************************************************************************)

\* The record is made once: whoever is past the insert finds it.
RecordIsThere ==
  /\ Recorded => pushRecord.status # "none"
  /\ \A p \in Pushers : pusher[p].op \in {"claim", "busy", "refused", "taken", "reserved", "called"} => Recorded

\* Only a lease that lapsed makes a reservation old.
OldMeansLapsed == pushRecord.old => "lapsed" \in disturbed

\* What MISP answered is true of it, and until a request dies or an answer is
\* lost someone knows of the event.
AnswersAreTrue == \A p \in Pushers : pusher[p].op = "called" /\ pusher[p].outcome = "ok" => event
SomeoneKnows ==
  event /\ disturbed \cap {"died", "lost"} = {} =>
    \/ pushRecord.created
    \/ \E p \in Pushers : pusher[p].op = "called" /\ pusher[p].outcome = "ok"

PushInv ==
  /\ PushTypeOK /\ RecordIsThere /\ OldMeansLapsed
  /\ OnePushAtATime /\ RecordKnowsTheEvent /\ AnswersAreTrue /\ SomeoneKnows

-----------------------------------------------------------------------------
PusherStates ==
  [op : {"away", "insert", "claim", "busy"}]
  \cup [op : {"refused"}, was : Outcomes \cup {"in_progress"}]
  \cup [op : {"taken"}, token : 1..MaxWrites]
  \cup [op : {"reserved"}, token : 1..MaxWrites, knows : BOOLEAN]
  \cup [op : {"called"}, token : 1..MaxWrites, outcome : Outcomes]

\* A request has the fields of where it is.
LEMMA PusherFields ==
  ASSUME NEW s \in PusherStates
  PROVE  /\ s.op \in {"away", "insert", "claim", "busy", "refused", "taken", "reserved", "called"}
         /\ s.op = "taken" => s.token \in 1..MaxWrites
         /\ s.op = "reserved" => s.token \in 1..MaxWrites /\ s.knows \in BOOLEAN
         /\ s.op = "called" => s.token \in 1..MaxWrites /\ s.outcome \in Outcomes
         /\ s.op = "refused" => s.was \in Outcomes \cup {"in_progress"}
  BY DEF PusherStates

LEMMA InitInv == PushInit => PushInv
<1> SUFFICES ASSUME PushInit PROVE PushInv
  OBVIOUS
<1>. USE PushAssumption DEF PushAssumption, PushInit, NoRecord, Away
<1>1. PushTypeOK
  <2>1. NoRecord \in RecordRows
    BY DEF RecordRows, Outcomes
  <2>2. \A p \in Pushers : pusher[p] = [op |-> "away"]
    OBVIOUS
  <2>3. pusher \in [Pushers -> [op : {"away", "insert", "claim", "busy"}]]
    BY <2>2
  <2>4. writes \in 0..MaxWrites
    OBVIOUS
  <2>5. pushable \in BOOLEAN /\ event \in BOOLEAN /\ disturbed = {}
    OBVIOUS
  <2>6. pushRecord \in RecordRows
    BY <2>1
  <2>. QED  BY <2>3, <2>4, <2>5, <2>6 DEF PushTypeOK
<1>2. RecordIsThere /\ OldMeansLapsed /\ AnswersAreTrue /\ SomeoneKnows
  BY DEF RecordIsThere, Recorded, OldMeansLapsed, AnswersAreTrue, SomeoneKnows
<1>3. OnePushAtATime /\ RecordKnowsTheEvent
  BY DEF OnePushAtATime, RecordKnowsTheEvent, Pushing
<1>. QED  BY <1>1, <1>2, <1>3 DEF PushInv

\* While no lease lapsed, a record that can be claimed has no one pushing.
LEMMA FreeRecord ==
  ASSUME PushInv, "lapsed" \notin disturbed, Claimable \/ ~Recorded
  PROVE  \A p \in Pushers : ~Pushing(p)
<1>1. pushRecord.token = 0
  BY DEF PushInv, OldMeansLapsed, Claimable, Recorded, NoRecord
<1>2. ASSUME NEW p \in Pushers, Pushing(p) PROVE pusher[p].token \in 1..MaxWrites
  BY <1>2, PusherFields DEF PushInv, PushTypeOK, PusherStates, Pushing
<1>3. ASSUME NEW p \in Pushers, Pushing(p) PROVE pushRecord.token = pusher[p].token
  BY <1>3 DEF PushInv, OnePushAtATime
<1>4. 0 \notin 1..MaxWrites
  BY PushAssumption DEF PushAssumption
<1>. QED  BY <1>1, <1>2, <1>3, <1>4

-----------------------------------------------------------------------------
LEMMA Step ==
  ASSUME PushInv, [PushNext]_pushVars
  PROVE  PushInv'
<1>. USE PushAssumption DEF PushAssumption
<1>1. CASE UNCHANGED pushVars
  BY <1>1 DEF pushVars, PushInv, PushTypeOK, RecordIsThere, Recorded, OldMeansLapsed,
              OnePushAtATime, Pushing, RecordKnowsTheEvent, AnswersAreTrue, SomeoneKnows
<1>2. ASSUME NEW b \in BOOLEAN, SetPushable(b) PROVE PushInv'
  BY <1>2 DEF SetPushable, PushInv, PushTypeOK, RecordIsThere, Recorded, OldMeansLapsed,
              OnePushAtATime, Pushing, RecordKnowsTheEvent, AnswersAreTrue, SomeoneKnows
<1>3. CASE LeaseLapses
  <2>. USE <1>3 DEF LeaseLapses
  <2>1. pushRecord'.status = pushRecord.status /\ pushRecord'.created = pushRecord.created
        /\ pushRecord' \in RecordRows
    BY DEF PushInv, PushTypeOK, RecordRows
  <2>2. Recorded /\ Recorded'
    BY DEF Recorded, NoRecord, PushInv, PushTypeOK, RecordRows
  <2>3. PushTypeOK'
    BY <2>1 DEF PushInv, PushTypeOK
  <2>4. RecordIsThere' /\ OldMeansLapsed' /\ OnePushAtATime'
    BY <2>1, <2>2 DEF PushInv, RecordIsThere, OldMeansLapsed, OnePushAtATime
  <2>5. RecordKnowsTheEvent' /\ AnswersAreTrue' /\ SomeoneKnows'
    BY <2>1 DEF PushInv, RecordKnowsTheEvent, Pushing, AnswersAreTrue, SomeoneKnows
  <2>. QED  BY <2>3, <2>4, <2>5 DEF PushInv
<1>4. ASSUME NEW p \in Pushers PROVE /\ pusher[p] \in PusherStates
                                     /\ pusher \in [Pushers -> PusherStates]
  BY DEF PushInv, PushTypeOK, PusherStates
<1>5. ASSUME NEW p \in Pushers, NEW s \in PusherStates, ~Pushing(p),
             s.op \notin {"taken", "reserved", "called"},
             s.op \in {"claim", "busy", "refused"} => Recorded,
             pusher' = [pusher EXCEPT ![p] = s],
             UNCHANGED <<pushRecord, pushable, event, writes, disturbed>>
      PROVE  PushInv'
  \* A request moves that neither pushes before nor after.
  <2>. USE <1>4, <1>5
  <2>1. \A q \in Pushers : q # p => pusher'[q] = pusher[q]
    OBVIOUS
  <2>2. pusher'[p] = s
    OBVIOUS
  <2>3. \A q \in Pushers : Pushing(q)' <=> Pushing(q)
    BY <2>1, <2>2 DEF Pushing
  <2>4. PushTypeOK'
    BY DEF PushInv, PushTypeOK, PusherStates
  <2>5. RecordIsThere' /\ OldMeansLapsed'
    BY <2>1, <2>2 DEF PushInv, RecordIsThere, Recorded, OldMeansLapsed
  <2>6. OnePushAtATime'
    <3>1. \A q \in Pushers : Pushing(q)' => Pushing(q) /\ pusher'[q] = pusher[q]
      BY <2>1, <2>2, <2>3 DEF Pushing
    <3>. QED  BY <3>1 DEF PushInv, OnePushAtATime
  <2>7. RecordKnowsTheEvent'
    BY <2>3 DEF PushInv, RecordKnowsTheEvent
  <2>8. AnswersAreTrue' /\ SomeoneKnows'
    BY <2>1, <2>2 DEF PushInv, AnswersAreTrue, SomeoneKnows, Pushing
  <2>. QED  BY <2>4, <2>5, <2>6, <2>7, <2>8 DEF PushInv
<1>6. ASSUME NEW p \in Pushers, LookUp(p) PROVE PushInv'
  <2>1. ~Pushing(p)
    BY <1>6 DEF LookUp, Pushing, Away
  <2>2. CASE Recorded
    BY <1>5, <1>6, <2>1, <2>2 DEF LookUp, PusherStates
  <2>3. CASE ~Recorded
    BY <1>5, <1>6, <2>1, <2>3 DEF LookUp, PusherStates
  <2>. QED  BY <2>2, <2>3
<1>7. ASSUME NEW p \in Pushers, Claimable \/ ~Recorded, ~Pushing(p), writes < MaxWrites,
             pushRecord' \in RecordRows, pushRecord'.token = writes + 1, ~pushRecord'.old,
             pushRecord'.status = "in_progress", pushRecord'.created = pushRecord.created,
             pusher' = [pusher EXCEPT ![p] = Taken], writes' = writes + 1,
             UNCHANGED <<pushable, event, disturbed>>
      PROVE  PushInv'
  \* A reservation, by insert or by conditional UPDATE.
  <2>. USE <1>4, <1>7 DEF Taken
  <2>1. \A q \in Pushers : q # p => pusher'[q] = pusher[q]
    OBVIOUS
  <2>2. pusher'[p] = Taken /\ Pushing(p)'
    BY DEF Pushing
  <2>3. Recorded'
    BY DEF Recorded, NoRecord
  <2>4. PushTypeOK'
    <3>1. Taken \in PusherStates
      BY DEF PusherStates, PushInv, PushTypeOK
    <3>. QED  BY <3>1 DEF PushInv, PushTypeOK, PusherStates
  <2>5. RecordIsThere' /\ OldMeansLapsed'
    BY <2>3 DEF PushInv, RecordIsThere, OldMeansLapsed
  <2>6. OnePushAtATime'
    <3>1. SUFFICES ASSUME "lapsed" \notin disturbed PROVE OnePushAtATime'
      BY DEF OnePushAtATime
    <3>2. \A q \in Pushers : Pushing(q)' => q = p
      BY <3>1, <2>1, FreeRecord DEF Pushing
    <3>. QED  BY <3>2, <2>2 DEF OnePushAtATime
  <2>7. RecordKnowsTheEvent'
    <3>1. Pushing(p)'
      BY <2>2
    <3>. QED  BY <3>1 DEF PushInv, RecordKnowsTheEvent
  <2>8. AnswersAreTrue' /\ SomeoneKnows'
    BY <2>1, <2>2 DEF PushInv, AnswersAreTrue, SomeoneKnows, Pushing
  <2>. QED  BY <2>4, <2>5, <2>6, <2>7, <2>8 DEF PushInv
<1>8. ASSUME NEW p \in Pushers, InsertRecord(p) PROVE PushInv'
  <2>1. ~Pushing(p)
    BY <1>8 DEF InsertRecord, Pushing
  <2>2. CASE Recorded
    BY <1>4, <1>5, <1>8, <2>1, <2>2 DEF InsertRecord, PusherStates
  <2>3. CASE ~Recorded
    <3>1. pushRecord' = [status |-> "in_progress", token |-> writes + 1, old |-> FALSE,
                         created |-> FALSE]
          /\ writes < MaxWrites
      BY <1>8, <2>3 DEF InsertRecord
    <3>2. pushRecord' \in RecordRows
      BY <3>1 DEF PushInv, PushTypeOK, RecordRows
    <3>3. pushRecord.created = FALSE
      BY <2>3 DEF Recorded, NoRecord
    <3>. QED  BY <1>7, <1>8, <2>1, <2>3, <3>1, <3>2, <3>3 DEF InsertRecord
  <2>. QED  BY <2>2, <2>3
<1>9. ASSUME NEW p \in Pushers, ClaimRecord(p) PROVE PushInv'
  <2>1. ~Pushing(p) /\ Recorded
    BY <1>9 DEF ClaimRecord, Pushing, PushInv, RecordIsThere
  <2>2. CASE ~Claimable
    BY <1>5, <1>9, <2>1, <2>2 DEF ClaimRecord, PusherStates
  <2>3. CASE Claimable
    <3>1. pushRecord' = [pushRecord EXCEPT !.token = writes + 1, !.old = FALSE,
                                           !.status = "in_progress"]
          /\ writes < MaxWrites
      BY <1>9, <2>3 DEF ClaimRecord
    <3>2. /\ pushRecord' \in RecordRows /\ pushRecord'.token = writes + 1 /\ ~pushRecord'.old
          /\ pushRecord'.status = "in_progress" /\ pushRecord'.created = pushRecord.created
      <4>1. writes + 1 \in 0..MaxWrites /\ pushRecord \in RecordRows
        BY <3>1 DEF PushInv, PushTypeOK
      <4>. QED  BY <3>1, <4>1 DEF RecordRows
    <3>. QED  BY <1>7, <1>9, <2>1, <2>3, <3>1, <3>2 DEF ClaimRecord
  <2>. QED  BY <2>2, <2>3
<1>10. ASSUME NEW p \in Pushers, ReadBusy(p) PROVE PushInv'
  <2>1. ~Pushing(p) /\ Recorded /\ pushRecord.status \in Outcomes \cup {"in_progress"}
    BY <1>10 DEF ReadBusy, Pushing, PushInv, RecordIsThere, PushTypeOK, RecordRows
  <2>. QED  BY <1>5, <1>10, <2>1 DEF ReadBusy, PusherStates
<1>11. ASSUME NEW p \in Pushers, CommitBusy(p) PROVE PushInv'
  <2>1. ~Pushing(p) /\ Recorded
    BY <1>11 DEF CommitBusy, Pushing, PushInv, RecordIsThere
  <2>2. CASE UNCHANGED <<pushRecord, disturbed>>
    BY <1>5, <1>11, <2>1, <2>2 DEF CommitBusy, PusherStates, Away
  <2>3. CASE pushRecord' = [pushRecord EXCEPT !.status = "in_progress"]
             /\ disturbed' = disturbed \cup {"overwritten"}
    <3>. USE <1>4, <1>11, <2>3 DEF CommitBusy, Away
    <3>1. /\ pushRecord' \in RecordRows /\ pushRecord'.token = pushRecord.token
          /\ pushRecord'.old = pushRecord.old /\ pushRecord'.status = "in_progress"
          /\ pushRecord'.created = pushRecord.created
      BY DEF PushInv, PushTypeOK, RecordRows
    <3>2. Recorded'
      BY <3>1 DEF Recorded, NoRecord
    <3>3. \A q \in Pushers : q # p => pusher'[q] = pusher[q]
      OBVIOUS
    <3>4. pusher'[p].op = "away"
      OBVIOUS
    <3>5. PushTypeOK'
      BY <3>1 DEF PushInv, PushTypeOK, PusherStates
    <3>6. RecordIsThere' /\ OldMeansLapsed'
      BY <3>1, <3>2 DEF PushInv, RecordIsThere, OldMeansLapsed
    <3>7. \A q \in Pushers : Pushing(q)' => Pushing(q) /\ pusher'[q] = pusher[q]
      BY <3>3, <3>4 DEF Pushing
    <3>8. OnePushAtATime'
      BY <3>1, <3>7 DEF PushInv, OnePushAtATime
    <3>9. RecordKnowsTheEvent'
      <4>1. \A q \in Pushers : Pushing(q)' <=> Pushing(q)
        BY <2>1, <3>3, <3>4 DEF Pushing
      <4>. QED  BY <3>1, <4>1 DEF PushInv, RecordKnowsTheEvent
    <3>10. AnswersAreTrue' /\ SomeoneKnows'
      BY <2>1, <3>1, <3>3, <3>4 DEF PushInv, AnswersAreTrue, SomeoneKnows, Pushing
    <3>. QED  BY <3>5, <3>6, <3>8, <3>9, <3>10 DEF PushInv
  <2>. QED  BY <1>11, <2>2, <2>3 DEF CommitBusy
<1>12. ASSUME NEW p \in Pushers, NEW out \in Outcomes, pusher[p].op = "reserved",
              pusher' = [pusher EXCEPT ![p] = Called(p, out)],
              event => event', out = "ok" => event',
              event' /\ ~event => out = "ok" \/ "lost" \in disturbed',
              disturbed' \in {disturbed, disturbed \cup {"lost"}},
              UNCHANGED <<pushRecord, pushable, writes>>, event' \in BOOLEAN
       PROVE  PushInv'
  \* A call that came to an end, one way or the other.
  <2>. USE <1>4, <1>12 DEF Called
  <2>1. \A q \in Pushers : q # p => pusher'[q] = pusher[q]
    OBVIOUS
  <2>2. pusher'[p] = Called(p, out) /\ pusher[p].token \in 1..MaxWrites
    BY PusherFields
  <2>3. \A q \in Pushers : /\ Pushing(q)' <=> Pushing(q)
                           /\ Pushing(q) => pusher'[q].token = pusher[q].token
    BY <2>1, <2>2 DEF Pushing
  <2>4. PushTypeOK'
    <3>1. Called(p, out) \in PusherStates
      BY <2>2 DEF PusherStates
    <3>. QED  BY <3>1 DEF PushInv, PushTypeOK, PusherStates
  <2>5. RecordIsThere' /\ OldMeansLapsed'
    BY <2>1, <2>2 DEF PushInv, RecordIsThere, Recorded, OldMeansLapsed
  <2>6. OnePushAtATime'
    BY <2>3 DEF PushInv, OnePushAtATime
  <2>7. AnswersAreTrue'
    BY <2>1, <2>2 DEF PushInv, AnswersAreTrue
  <2>8. SomeoneKnows'
    <3>1. SUFFICES ASSUME event', disturbed' \cap {"died", "lost"} = {}
                   PROVE  \/ pushRecord'.created
                          \/ \E q \in Pushers : pusher'[q].op = "called" /\ pusher'[q].outcome = "ok"
      BY DEF SomeoneKnows
    <3>2. CASE event
      <4>1. disturbed \cap {"died", "lost"} = {}
        BY <3>1
      <4>2. CASE pushRecord.created
        BY <4>2
      <4>3. ASSUME NEW q \in Pushers, pusher[q].op = "called", pusher[q].outcome = "ok"
            PROVE  pusher'[q].op = "called" /\ pusher'[q].outcome = "ok"
        BY <4>3, <2>1
      <4>. QED  BY <3>2, <4>1, <4>2, <4>3 DEF PushInv, SomeoneKnows
    <3>3. CASE ~event
      BY <3>1, <3>3, <2>2
    <3>. QED  BY <3>2, <3>3
  <2>9. RecordKnowsTheEvent'
    <3>1. Pushing(p)'
      BY <2>2 DEF Pushing
    <3>. QED  BY <3>1 DEF PushInv, RecordKnowsTheEvent
  <2>. QED  BY <2>4, <2>5, <2>6, <2>7, <2>8, <2>9 DEF PushInv
<1>13. ASSUME NEW p \in Pushers, NEW out \in {"error", "needs_confirmation"}, HoldBack(p, out)
       PROVE  PushInv'
  BY <1>12, <1>13 DEF HoldBack, Outcomes, PushInv, PushTypeOK
<1>14. ASSUME NEW p \in Pushers, CallMisp(p) PROVE PushInv'
  <2>1. CASE Accepted(p)
    BY <1>12, <1>14, <2>1 DEF CallMisp, Outcomes, PushInv, PushTypeOK
  <2>2. CASE ~Accepted(p)
    BY <1>12, <1>14, <2>2 DEF CallMisp, Outcomes, PushInv, PushTypeOK
  <2>. QED  BY <2>1, <2>2
<1>15. ASSUME NEW p \in Pushers, NEW acted \in BOOLEAN, CallFails(p, acted) PROVE PushInv'
  <2>1. event' \in BOOLEAN /\ (event => event')
    BY <1>15 DEF CallFails, PushInv, PushTypeOK, Accepted
  <2>2. event' /\ ~event => "lost" \in disturbed'
    BY <1>15 DEF CallFails
  <2>3. disturbed' \in {disturbed, disturbed \cup {"lost"}}
    BY <1>15 DEF CallFails
  <2>. QED  BY <1>12, <1>15, <2>1, <2>2, <2>3 DEF CallFails, Outcomes
<1>16. ASSUME NEW p \in Pushers, FinishPush(p) PROVE PushInv'
  <2>. USE <1>4, <1>16 DEF FinishPush, Away, CreatedBy
  <2>1. \A q \in Pushers : q # p => pusher'[q] = pusher[q]
    OBVIOUS
  <2>2. pusher'[p].op = "away" /\ pusher[p].outcome \in Outcomes /\ Pushing(p)
    BY PusherFields DEF Pushing
  <2>3. /\ pushRecord'.status = pusher[p].outcome /\ ~pushRecord'.old
        /\ pushRecord'.created = (pushRecord.created \/ pusher[p].outcome = "ok")
    OBVIOUS
  <2>4. pushRecord' \in RecordRows
    BY <2>2 DEF PushInv, PushTypeOK, RecordRows
  <2>5. PushTypeOK'
    BY <2>4 DEF PushInv, PushTypeOK, PusherStates
  <2>6. RecordIsThere' /\ OldMeansLapsed'
    BY <2>2, <2>3 DEF RecordIsThere, Recorded, NoRecord, Outcomes, OldMeansLapsed
  <2>7. OnePushAtATime'
    <3>1. "lapsed" \notin disturbed => \A q \in Pushers : ~Pushing(q)'
      BY <2>1, <2>2 DEF PushInv, OnePushAtATime, Pushing
    <3>. QED  BY <3>1 DEF OnePushAtATime
  <2>8. AnswersAreTrue'
    BY <2>1, <2>2 DEF PushInv, AnswersAreTrue
  <2>9. SomeoneKnows'
    <3>1. CASE pusher[p].outcome = "ok"
      BY <2>3, <3>1 DEF SomeoneKnows
    <3>2. CASE pusher[p].outcome # "ok"
      BY <2>1, <2>3, <3>2 DEF PushInv, SomeoneKnows
    <3>. QED  BY <3>1, <3>2
  <2>10. pushRecord'.created => event'
    BY <2>3 DEF PushInv, RecordKnowsTheEvent, AnswersAreTrue
  <2>11. RecordKnowsTheEvent'
    BY <2>9, <2>10 DEF RecordKnowsTheEvent, SomeoneKnows, Pushing
  <2>. QED  BY <2>5, <2>6, <2>7, <2>8, <2>9, <2>11 DEF PushInv
<1>17. ASSUME NEW p \in Pushers, CrashPush(p) PROVE PushInv'
  <2>. USE <1>4, <1>17 DEF CrashPush, Away
  <2>1. \A q \in Pushers : q # p => pusher'[q] = pusher[q]
    OBVIOUS
  <2>2. pusher'[p].op = "away"
    OBVIOUS
  <2>3. CASE ~Pushing(p)
    BY <1>5, <2>3 DEF PusherStates
  <2>4. CASE Pushing(p)
    <3>1. disturbed' = disturbed \cup {"died"}
      BY <2>4
    <3>2. PushTypeOK'
      BY <3>1 DEF PushInv, PushTypeOK, PusherStates
    <3>3. RecordIsThere' /\ OldMeansLapsed' /\ AnswersAreTrue' /\ SomeoneKnows'
      BY <2>1, <2>2, <3>1
         DEF PushInv, RecordIsThere, Recorded, OldMeansLapsed, AnswersAreTrue, SomeoneKnows
    <3>4. OnePushAtATime'
      BY <2>1, <2>2, <3>1 DEF PushInv, OnePushAtATime, Pushing
    <3>5. RecordKnowsTheEvent'
      BY <3>1 DEF PushInv, RecordKnowsTheEvent
    <3>. QED  BY <3>2, <3>3, <3>4, <3>5 DEF PushInv
  <2>. QED  BY <2>3, <2>4
<1>18. ASSUME NEW p \in Pushers, LoadReserved(p) PROVE PushInv'
  <2>. USE <1>4, <1>18 DEF LoadReserved
  <2>1. \A q \in Pushers : q # p => pusher'[q] = pusher[q]
    OBVIOUS
  <2>2. /\ pusher'[p] = [op |-> "reserved", token |-> pusher[p].token,
                         knows |-> pushRecord.created]
        /\ pusher[p].token \in 1..MaxWrites /\ pushRecord.created \in BOOLEAN
    BY PusherFields DEF PushInv, PushTypeOK, RecordRows
  <2>3. \A q \in Pushers : /\ Pushing(q)' <=> Pushing(q)
                           /\ Pushing(q) => pusher'[q].token = pusher[q].token
    BY <2>1, <2>2 DEF Pushing
  <2>4. PushTypeOK'
    <3>1. pusher'[p] \in PusherStates
      BY <2>2 DEF PusherStates
    <3>. QED  BY <3>1 DEF PushInv, PushTypeOK, PusherStates
  <2>5. RecordIsThere' /\ OldMeansLapsed'
    BY <2>1, <2>2 DEF PushInv, RecordIsThere, Recorded, OldMeansLapsed
  <2>6. OnePushAtATime' /\ RecordKnowsTheEvent'
    BY <2>3 DEF PushInv, OnePushAtATime, RecordKnowsTheEvent
  <2>7. AnswersAreTrue' /\ SomeoneKnows'
    <3>1. \A q \in Pushers : pusher'[q].op = "called" <=> pusher[q].op = "called"
      BY <2>1, <2>2
    <3>2. \A q \in Pushers : pusher'[q].op = "called" => pusher'[q] = pusher[q]
      BY <2>1, <2>2
    <3>. QED  BY <3>1, <3>2 DEF PushInv, AnswersAreTrue, SomeoneKnows
  <2>. QED  BY <2>4, <2>5, <2>6, <2>7 DEF PushInv
<1>. QED
  BY <1>1, <1>2, <1>3, <1>6, <1>8, <1>9, <1>10, <1>11, <1>13, <1>14, <1>15, <1>16, <1>17, <1>18
     DEF PushNext

-----------------------------------------------------------------------------
(***************************************************************************)
(* Theorems                                                                *)
(***************************************************************************)
\* Whatever requests, crashes and lapses come together, the invariant stands.
THEOREM InductiveInvariant == PushSpec => []PushInv
<1>. QED  BY InitInv, Step, PTL DEF PushSpec

\* The record and every request keep their types.
THEOREM TypeCorrect == PushSpec => []PushTypeOK
<1>1. PushInv => PushTypeOK
  BY DEF PushInv
<1>. QED  BY InductiveInvariant, <1>1, PTL

\* One push at a time until a lease lapses (misp._reserve_push).
THEOREM OnePush == PushSpec => []OnePushAtATime
<1>1. PushInv => OnePushAtATime
  BY DEF PushInv
<1>. QED  BY InductiveInvariant, <1>1, PTL

\* The record knows the event unless a request died or an answer was lost
\* (misp.push_report).
THEOREM EventIsKnown == PushSpec => []RecordKnowsTheEvent
<1>1. PushInv => RecordKnowsTheEvent
  BY DEF PushInv
<1>. QED  BY InductiveInvariant, <1>1, PTL

-----------------------------------------------------------------------------
(***************************************************************************)
(* Candidates and their indicators.  A request holds rows that are there,  *)
(* a deletion having doomed it otherwise; a candidate's article is there;  *)
(* and whoever decides loaded a candidate that was pending.                *)
(***************************************************************************)
RowsHeld(q) ==
  /\ q.op \in {"extract", "send", "stamp"} => item[q.a].row
  /\ q.op \in {"decide", "reopen"} => cand[q.a].row /\ q.seen.row
  /\ q.op = "decide" => q.seen.status = "pending"

ReviewInv ==
  /\ ReviewTypeOK /\ DecisionOwnsItsIoc
  /\ \A r \in Analysts : RowsHeld(review[r])
  /\ \A a \in Articles : cand[a].row => item[a].row
-----------------------------------------------------------------------------
LEMMA ReviewFields ==
  ASSUME NEW q \in RequestStates
  PROVE  /\ q.op = "prune" => q.ids \in SUBSET Articles
         /\ q.op \in {"extract", "send", "stamp"} => q.a \in Articles
         /\ q.op = "decide" => q.a \in Articles /\ q.d \in Decisions /\ q.seen \in CandidateRows
         /\ q.op = "reopen" => q.a \in Articles /\ q.seen \in CandidateRows
  BY DEF RequestStates

CandidatesThere == [row : {TRUE},
                    status : {"pending", "accepted", "rejected", "duplicate"},
                    ioc : 0..MaxIocs, dup : 0..MaxIocs]

\* A row is there, or there is none.
LEMMA CandidateFields ==
  ASSUME NEW c \in CandidateRows
  PROVE  /\ c.row \in BOOLEAN
         /\ c.row => c \in CandidatesThere
         /\ ~c.row => c = NoRow
<1>1. c = NoRow => c.row = FALSE
  BY DEF NoRow
<1>2. c \in CandidatesThere => c.row = TRUE
  BY DEF CandidatesThere
<1>3. c = NoRow \/ c \in CandidatesThere
  BY DEF CandidateRows, CandidatesThere
<1>. QED  BY <1>1, <1>2, <1>3

LEMMA CandidateThere ==
  ASSUME NEW c \in CandidatesThere
  PROVE  c \in CandidateRows /\ c.row
<1>1. c.row = TRUE
  BY DEF CandidatesThere
<1>. QED  BY <1>1 DEF CandidatesThere, CandidateRows

ItemsThere == [row : {TRUE}, ingested : BOOLEAN, old : BOOLEAN,
               scan : {"none", "clean", "error"}]

LEMMA ItemFields ==
  ASSUME NEW i \in ItemRows
  PROVE  i.row => i \in ItemsThere
<1>1. i = NoRow => i.row = FALSE
  BY DEF NoRow
<1>2. i = NoRow \/ i \in ItemsThere
  BY DEF ItemRows, ItemsThere
<1>. QED  BY <1>1, <1>2

LEMMA ItemThere ==
  ASSUME NEW i \in ItemsThere
  PROVE  i \in ItemRows /\ i.row
<1>1. i.row = TRUE
  BY DEF ItemsThere
<1>. QED  BY <1>1 DEF ItemsThere, ItemRows

LEMMA ForgettingAnIoc ==
  ASSUME NEW c \in CandidateRows, NEW i \in Nat
  PROVE  /\ WithoutIoc(c, i) \in CandidateRows /\ WithoutIoc(c, i).row = c.row
         /\ c.row => /\ WithoutIoc(c, i).status = c.status
                     /\ WithoutIoc(c, i).ioc = IF c.ioc = i THEN 0 ELSE c.ioc
<1>1. CASE ~c.row
  BY <1>1 DEF WithoutIoc
<1>2. CASE c.row
  <2>. DEFINE left == IF c.ioc = i THEN 0 ELSE c.ioc
              dup == IF c.dup = i THEN 0 ELSE c.dup
  <2>1. c \in CandidatesThere
    BY <1>2, CandidateFields
  <2>2. WithoutIoc(c, i) = [c EXCEPT !.ioc = left, !.dup = dup]
    BY <1>2, <2>1 DEF WithoutIoc, CandidatesThere
  <2>3. left \in 0..MaxIocs /\ dup \in 0..MaxIocs
    BY <2>1, ReviewAssumption DEF CandidatesThere
  <2>. HIDE DEF left, dup
  <2>4. /\ WithoutIoc(c, i) \in CandidatesThere /\ WithoutIoc(c, i).row = TRUE /\ c.row = TRUE
        /\ WithoutIoc(c, i).status = c.status /\ WithoutIoc(c, i).ioc = left
    BY <2>1, <2>2, <2>3 DEF CandidatesThere
  <2>. QED  BY <2>4, CandidateThere DEF left
<1>. QED  BY <1>1, <1>2, CandidateFields

LEMMA Resetting ==
  ASSUME NEW c \in CandidateRows, c.row, NEW seen
  PROVE  /\ Reset(c, seen) \in CandidateRows /\ Reset(c, seen).row
         /\ Reset(c, seen).status = "pending"
         /\ Reset(c, seen).ioc = IF seen.ioc # 0 THEN 0 ELSE c.ioc
<1>. DEFINE left == IF seen.ioc # 0 THEN 0 ELSE c.ioc
            dup == IF seen.dup # 0 THEN 0 ELSE c.dup
<1>1. c \in CandidatesThere
  BY CandidateFields
<1>2. Reset(c, seen) = [c EXCEPT !.status = "pending", !.ioc = left, !.dup = dup]
  BY <1>1 DEF Reset, CandidatesThere
<1>3. left \in 0..MaxIocs /\ dup \in 0..MaxIocs
  BY <1>1, ReviewAssumption DEF CandidatesThere
<1>. HIDE DEF left, dup
<1>4. /\ Reset(c, seen) \in CandidatesThere
      /\ Reset(c, seen).status = "pending" /\ Reset(c, seen).ioc = left
  BY <1>1, <1>2, <1>3 DEF CandidatesThere
<1>. QED  BY <1>4, CandidateThere DEF left

LEMMA ReviewInitInv == ReviewInit => ReviewInv
<1> SUFFICES ASSUME ReviewInit PROVE ReviewInv
  OBVIOUS
<1>1. ReviewTypeOK
  BY DEF ReviewInit, ReviewTypeOK, ItemRows, CandidateRows, RequestStates, Idle
<1>2. DecisionOwnsItsIoc
  BY DEF ReviewInit, DecisionOwnsItsIoc, NoRow
<1>3. \A r \in Analysts : RowsHeld(review[r])
  BY DEF ReviewInit, RowsHeld, Idle
<1>. QED  BY <1>1, <1>2, <1>3 DEF ReviewInv, ReviewInit, NoRow

-----------------------------------------------------------------------------
(***************************************************************************)
(* Rows and requests                                                       *)
(***************************************************************************)
\* Rows only change, or disappear with a deletion that dooms who holds them.
RowsStay ==
  /\ \A a \in Articles : (item[a].row => item'[a].row) /\ (cand[a].row => cand'[a].row)

LEMMA HoldersKeep ==
  ASSUME ReviewInv, RowsStay, NEW q \in RequestStates, RowsHeld(q)
  PROVE  RowsHeld(q)'
<1>1. /\ q.op \in {"extract", "send", "stamp"} => q.a \in Articles /\ item[q.a].row
      /\ q.op \in {"decide", "reopen"} => q.a \in Articles /\ cand[q.a].row /\ q.seen.row
      /\ q.op = "decide" => q.seen.status = "pending"
  BY ReviewFields DEF RowsHeld
<1>2. /\ q.op \in {"extract", "send", "stamp"} => item'[q.a].row
      /\ q.op \in {"decide", "reopen"} => cand'[q.a].row
  BY <1>1 DEF RowsStay
<1>. QED  BY <1>1, <1>2 DEF RowsHeld

\* A request goes on while rows stay.
LEMMA RequestGoesOn ==
  ASSUME ReviewInv, RowsStay, NEW r \in Analysts, NEW q \in RequestStates, RowsHeld(q)',
         review' = [review EXCEPT ![r] = q]
  PROVE  review' \in [Analysts -> RequestStates] /\ \A s \in Analysts : RowsHeld(review[s])'
<1>1. review \in [Analysts -> RequestStates] /\ \A s \in Analysts : RowsHeld(review[s])
  BY DEF ReviewInv, ReviewTypeOK
<1>2. review' \in [Analysts -> RequestStates]
  BY <1>1
<1>3. SUFFICES ASSUME NEW s \in Analysts PROVE RowsHeld(review[s])'
  BY <1>2
<1>4. PICK x : x = review'[s]
  OBVIOUS
<1>5. x = IF s = r THEN q ELSE review[s]
  BY <1>1, <1>4
<1>6. RowsHeld(x)'
  <2>1. CASE s = r
    BY <1>5, <2>1
  <2>2. CASE s # r
    BY <1>1, <1>5, <2>2, HoldersKeep
  <2>. QED  BY <2>1, <2>2
<1>. QED  BY <1>4, <1>6 DEF RowsHeld

LEMMA RequestsWait ==
  ASSUME ReviewInv, RowsStay, review' = review
  PROVE  review' \in [Analysts -> RequestStates] /\ \A s \in Analysts : RowsHeld(review[s])'
<1>1. review \in [Analysts -> RequestStates] /\ \A s \in Analysts : RowsHeld(review[s])
  BY DEF ReviewInv, ReviewTypeOK
<1>2. SUFFICES ASSUME NEW s \in Analysts PROVE RowsHeld(review[s])'
  BY <1>1
<1>3. PICK x : x = review[s]
  OBVIOUS
<1>4. RowsHeld(x)'
  BY <1>1, <1>3, HoldersKeep
<1>. QED  BY <1>3, <1>4 DEF RowsHeld

\* A step that leaves the candidates and their indicators alone.
LEMMA QuietStep ==
  ASSUME ReviewInv, UNCHANGED <<cand, iocs, iocOf, overtaken>>, RowsStay,
         item' \in [Articles -> ItemRows], linked' \subseteq Articles, cited' \subseteq IocIds,
         review' \in [Analysts -> RequestStates], \A s \in Analysts : RowsHeld(review[s])'
  PROVE  ReviewInv'
<1>1. ReviewTypeOK'
  BY DEF ReviewInv, ReviewTypeOK
<1>2. DecisionOwnsItsIoc'
  BY DEF ReviewInv, DecisionOwnsItsIoc
<1>3. (\A a \in Articles : cand[a].row => item[a].row)'
  BY DEF ReviewInv, RowsStay
<1>. QED  BY <1>1, <1>2, <1>3 DEF ReviewInv

\* A deletion of articles takes all that is about them, and dooms their holders.
LEMMA RowGoneStep ==
  ASSUME ReviewInv, NEW gone \in SUBSET Articles, DeleteItems(gone), UNCHANGED <<iocs, cited>>,
         review' \in [Analysts -> RequestStates],
         \A r \in Analysts : review'[r] \in {Doomed(gone)[r], Idle}
  PROVE  ReviewInv'
<1>. /\ item \in [Articles -> ItemRows] /\ cand \in [Articles -> CandidateRows]
     /\ iocOf \in [IocIds -> Articles \cup {NoArticle}] /\ linked \subseteq Articles
     /\ iocs \in [IocIds -> {"none", "live", "deleted"}] /\ cited \subseteq IocIds
     /\ review \in [Analysts -> RequestStates] /\ overtaken \subseteq Articles
  BY DEF ReviewInv, ReviewTypeOK
<1>1. ReviewTypeOK'
  BY DEF DeleteItems, ReviewTypeOK, ItemRows, CandidateRows
<1>2. \A a \in Articles \ gone : item'[a] = item[a] /\ cand'[a] = cand[a]
  BY DEF DeleteItems
<1>3. \A a \in gone : item'[a] = NoRow /\ cand'[a] = NoRow /\ a \notin overtaken'
  BY DEF DeleteItems
<1>4. \A i \in IocIds : iocOf'[i] \notin gone /\ (iocOf'[i] \in Articles => iocOf'[i] = iocOf[i])
  BY ReviewAssumption DEF DeleteItems
<1>5. DecisionOwnsItsIoc'
  <2>1. SUFFICES ASSUME NEW a \in Articles \ overtaken'
                 PROVE  /\ \A i \in IocIds : iocs'[i] = "live" /\ iocOf'[i] = a =>
                             cand'[a].row /\ cand'[a].status = "accepted" /\ cand'[a].ioc = i
                        /\ cand'[a].row /\ cand'[a].status # "accepted" => cand'[a].ioc = 0
    BY DEF DecisionOwnsItsIoc
  <2>2. CASE a \in gone
    BY <1>3, <1>4, <2>2 DEF NoRow
  <2>3. CASE a \notin gone
    <3>1. a \notin overtaken
      BY <2>1, <2>3 DEF DeleteItems
    <3>. QED  BY <1>2, <1>4, <2>3, <3>1 DEF ReviewInv, DecisionOwnsItsIoc
  <2>. QED  BY <2>2, <2>3
<1>6. (\A a \in Articles : cand[a].row => item[a].row)'
  BY <1>2, <1>3 DEF ReviewInv, NoRow
<1>7. ASSUME NEW r \in Analysts PROVE RowsHeld(review[r])'
  <2>1. PICK x : x = review'[r]
    OBVIOUS
  <2>2. RowsHeld(x)'
    <3>1. CASE x = review[r] /\ ~(x.op \in {"decide", "reopen", "extract", "send", "stamp"}
                                  /\ x.a \in gone)
      <4>1. RowsHeld(x) /\ x \in RequestStates
        BY <3>1 DEF ReviewInv
      <4>2. /\ x.op \in {"extract", "send", "stamp"} => x.a \in Articles \ gone
            /\ x.op \in {"decide", "reopen"} => x.a \in Articles \ gone
        BY <3>1, <4>1, ReviewFields
      <4>3. /\ x.op \in {"extract", "send", "stamp"} => item'[x.a] = item[x.a]
            /\ x.op \in {"decide", "reopen"} => cand'[x.a] = cand[x.a]
        BY <1>2, <4>2
      <4>. QED  BY <4>1, <4>3 DEF RowsHeld
    <3>2. CASE x = [op |-> "doomed"] \/ x = Idle
      BY <3>2 DEF RowsHeld, Idle
    <3>. QED  BY <2>1, <3>1, <3>2 DEF Doomed
  <2>. QED  BY <2>1, <2>2 DEF RowsHeld
<1>. QED  BY <1>1, <1>5, <1>6, <1>7 DEF ReviewInv

-----------------------------------------------------------------------------
(***************************************************************************)
(* Decisions                                                               *)
(***************************************************************************)
\* Indicators stay whose they are, and one that is new is named by row n of a.
IndicatorsFollow(a, n) ==
  /\ \A i \in IocIds : iocs'[i] = "live" /\ iocs[i] = "live" => iocOf'[i] = iocOf[i]
  /\ \A i \in IocIds : iocs'[i] = "live" /\ iocs[i] # "live" =>
                          iocOf'[i] = a /\ n.status = "accepted" /\ n.ioc = i

\* A decision of one request about the article a it loaded: its row becomes n,
\* and if the row was the loaded one, so it was pending and named nothing.
LEMMA DecisionStep ==
  ASSUME ReviewInv, NEW r \in Analysts, NEW a \in Articles, NEW n \in CandidateRows,
         review[r].op = "decide", a = review[r].a, overtaken' = Overtakes(r),
         n.row, cand' = [cand EXCEPT ![a] = n],
         cand[a] = review[r].seen /\ a \notin overtaken => n.status = "accepted" \/ n.ioc = 0,
         IndicatorsFollow(a, n),
         review' = [review EXCEPT ![r] = Idle],
         item' \in [Articles -> ItemRows], \A b \in Articles : item[b].row => item'[b].row,
         linked' \subseteq Articles, iocs' \in [IocIds -> {"none", "live", "deleted"}],
         iocOf' \in [IocIds -> Articles \cup {NoArticle}], cited' \subseteq IocIds
  PROVE  ReviewInv'
<1>. /\ cand \in [Articles -> CandidateRows] /\ review \in [Analysts -> RequestStates]
     /\ overtaken \subseteq Articles
  BY DEF ReviewInv, ReviewTypeOK
<1>1. cand[a].row /\ review[r].seen.status = "pending"
  BY DEF ReviewInv, RowsHeld
<1>2. RowsStay
  BY DEF RowsStay
<1>3. Idle \in RequestStates /\ RowsHeld(Idle)'
  BY DEF RequestStates, RowsHeld, Idle
<1>4. review' \in [Analysts -> RequestStates] /\ \A s \in Analysts : RowsHeld(review[s])'
  BY <1>2, <1>3, RequestGoesOn
<1>5. overtaken' \subseteq Articles /\ overtaken \subseteq overtaken'
      /\ (a \notin overtaken' => cand[a] = review[r].seen)
  BY DEF Overtakes
<1>6. ReviewTypeOK'
  BY <1>4, <1>5 DEF ReviewTypeOK
<1>7. DecisionOwnsItsIoc'
  <2>1. SUFFICES ASSUME NEW b \in Articles \ overtaken'
                 PROVE  /\ \A i \in IocIds : iocs'[i] = "live" /\ iocOf'[i] = b =>
                             cand'[b].row /\ cand'[b].status = "accepted" /\ cand'[b].ioc = i
                        /\ cand'[b].row /\ cand'[b].status # "accepted" => cand'[b].ioc = 0
    BY DEF DecisionOwnsItsIoc
  <2>2. CASE b = a
    <3>1. cand[a] = review[r].seen /\ a \notin overtaken /\ cand'[a] = n
      BY <1>5, <2>1, <2>2
    <3>2. \A i \in IocIds : ~(iocs[i] = "live" /\ iocOf[i] = a)
      BY <1>1, <3>1 DEF ReviewInv, DecisionOwnsItsIoc
    <3>. QED  BY <2>2, <3>1, <3>2 DEF IndicatorsFollow
  <2>3. CASE b # a
    <3>1. cand'[b] = cand[b] /\ b \notin overtaken
      BY <1>5, <2>1, <2>3
    <3>2. \A i \in IocIds : iocs'[i] = "live" /\ iocOf'[i] = b =>
                              iocs[i] = "live" /\ iocOf[i] = b
      BY <2>3 DEF IndicatorsFollow
    <3>. QED  BY <3>1, <3>2 DEF ReviewInv, DecisionOwnsItsIoc
  <2>. QED  BY <2>2, <2>3
<1>8. (\A b \in Articles : cand[b].row => item[b].row)'
  <2>1. \A b \in Articles : cand[b].row => item[b].row
    BY DEF ReviewInv
  <2>2. \A b \in Articles : cand'[b].row => cand[b].row
    BY <1>1
  <2>. QED  BY <2>1, <2>2
<1>. QED  BY <1>4, <1>6, <1>7, <1>8 DEF ReviewInv
LEMMA ReviewStep == ReviewInv /\ [ReviewNext]_reviewVars => ReviewInv'
<1> SUFFICES ASSUME ReviewInv, [ReviewNext]_reviewVars PROVE ReviewInv'
  OBVIOUS
<1>. /\ item \in [Articles -> ItemRows] /\ cand \in [Articles -> CandidateRows]
     /\ iocOf \in [IocIds -> Articles \cup {NoArticle}] /\ linked \subseteq Articles
     /\ iocs \in [IocIds -> {"none", "live", "deleted"}] /\ cited \subseteq IocIds
     /\ review \in [Analysts -> RequestStates] /\ overtaken \subseteq Articles
  BY DEF ReviewInv, ReviewTypeOK
<1>0. /\ ReviewTypeOK /\ DecisionOwnsItsIoc
      /\ \A r \in Analysts : RowsHeld(review[r])
      /\ \A a \in Articles : cand[a].row => item[a].row
  BY DEF ReviewInv
<1>1. CASE UNCHANGED reviewVars
  BY <1>1 DEF reviewVars, ReviewInv, ReviewTypeOK, DecisionOwnsItsIoc, RowsHeld
\* A request that takes up a state whose rows are there, and writes nothing.
<1>2. ASSUME NEW r \in Analysts, NEW q \in RequestStates, RowsHeld(q),
             review' = [review EXCEPT ![r] = q],
             UNCHANGED <<item, cand, linked, iocs, iocOf, cited, overtaken>>
      PROVE  ReviewInv'
  <2>1. RowsStay /\ RowsHeld(q)'
    BY <1>2 DEF RowsStay, RowsHeld
  <2>2. review' \in [Analysts -> RequestStates] /\ \A s \in Analysts : RowsHeld(review[s])'
    BY <1>2, <2>1, RequestGoesOn
  <2>. QED  BY <1>2, <2>1, <2>2, QuietStep
<1>3. Idle \in RequestStates /\ RowsHeld(Idle) /\ RowsHeld(Idle)'
  BY DEF RequestStates, RowsHeld, Idle
\* An article's row that is updated stays.
<1>4. ASSUME NEW a \in Articles, item[a].row, NEW n \in ItemsThere,
             item' = [item EXCEPT ![a] = n]
      PROVE  item' \in [Articles -> ItemRows] /\ \A b \in Articles : item[b].row => item'[b].row
  <2>1. n \in ItemRows /\ n.row
    BY ItemThere
  <2>2. \A b \in Articles : item'[b] = IF b = a THEN n ELSE item[b]
    BY <1>4
  <2>. QED  BY <1>4, <2>1, <2>2
<1>5. ASSUME NEW a \in Articles, Arrive(a) PROVE ReviewInv'
  <2>1. Fresh \in ItemsThere /\ Fresh \in ItemRows /\ Fresh.row
    <3>1. Fresh \in ItemsThere
      BY DEF Fresh, ItemsThere
    <3>. QED  BY <3>1, ItemThere
  <2>2. item' \in [Articles -> ItemRows] /\ \A b \in Articles : item[b].row => item'[b].row
    BY <1>5, <2>1 DEF Arrive
  <2>3. RowsStay
    BY <1>5, <2>2 DEF Arrive, RowsStay
  <2>. QED  BY <1>5, <2>2, <2>3, RequestsWait, QuietStep DEF Arrive
<1>6. ASSUME NEW a \in Articles, GrowOld(a) PROVE ReviewInv'
  <2>1. item[a] \in ItemsThere
    BY <1>6, ItemFields DEF GrowOld
  <2>2. [item[a] EXCEPT !.old = TRUE] \in ItemsThere
    BY <2>1 DEF ItemsThere
  <2>3. item' = [item EXCEPT ![a] = [item[a] EXCEPT !.old = TRUE]]
    BY <1>6 DEF GrowOld
  <2>4. item' \in [Articles -> ItemRows] /\ \A b \in Articles : item[b].row => item'[b].row
    BY <1>4, <1>6, <2>2, <2>3 DEF GrowOld
  <2>5. RowsStay
    BY <1>6, <2>4 DEF GrowOld, RowsStay
  <2>. QED  BY <1>6, <2>4, <2>5, RequestsWait, QuietStep DEF GrowOld
<1>7. ASSUME NEW a \in Articles, DeleteSource(a) PROVE ReviewInv'
  <2>1. RowsStay
    BY <1>7 DEF DeleteSource, RowsStay
  <2>. QED  BY <1>7, <2>1, RequestsWait, QuietStep DEF DeleteSource
<1>8. ASSUME NEW i \in IocIds, CiteIoc(i) PROVE ReviewInv'
  <2>1. RowsStay
    BY <1>8 DEF CiteIoc, RowsStay
  <2>. QED  BY <1>8, <2>1, RequestsWait, QuietStep DEF CiteIoc
<1>9. \A gone \in SUBSET Articles : Doomed(gone) \in [Analysts -> RequestStates]
  BY DEF Doomed, RequestStates
<1>10. CASE DropFeed
  BY <1>9, <1>10, RowGoneStep DEF DropFeed
<1>11. ASSUME NEW r \in Analysts, CommitPrune(r) PROVE ReviewInv'
  <2>1. PICK gone : gone = review[r].ids
    OBVIOUS
  <2>2. gone \in SUBSET Articles
    BY <1>11, <2>1, ReviewFields DEF CommitPrune
  <2>3. review' = [Doomed(gone) EXCEPT ![r] = Idle]
    BY <1>11, <2>1 DEF CommitPrune
  <2>4. /\ review' \in [Analysts -> RequestStates]
        /\ \A s \in Analysts : review'[s] \in {Doomed(gone)[s], Idle}
    BY <1>3, <1>9, <2>2, <2>3
  <2>. QED  BY <1>11, <2>1, <2>2, <2>4, RowGoneStep DEF CommitPrune
<1>12. ASSUME NEW r \in Analysts, BeginPrune(r) PROVE ReviewInv'
  <2>1. PICK q : q = [op |-> "prune", ids |-> {a \in Articles : Stale(a)}]
    OBVIOUS
  <2>2. q \in RequestStates /\ RowsHeld(q)
    BY <2>1 DEF RequestStates, RowsHeld
  <2>. QED  BY <1>2, <1>12, <2>1, <2>2 DEF BeginPrune
<1>13. ASSUME NEW r \in Analysts, NEW a \in Articles, BeginExtract(r, a) PROVE ReviewInv'
  <2>1. PICK q : q = [op |-> "extract", a |-> a]
    OBVIOUS
  <2>2. q \in RequestStates /\ RowsHeld(q)
    BY <1>13, <2>1 DEF BeginExtract, RequestStates, RowsHeld
  <2>. QED  BY <1>2, <1>13, <2>1, <2>2 DEF BeginExtract
<1>14. ASSUME NEW r \in Analysts, NEW a \in Articles, BeginReopen(r, a) PROVE ReviewInv'
  <2>1. PICK q : q = [op |-> "reopen", a |-> a, seen |-> cand[a]]
    OBVIOUS
  <2>2. q \in RequestStates /\ RowsHeld(q)
    BY <1>14, <2>1 DEF BeginReopen, RequestStates, RowsHeld
  <2>. QED  BY <1>2, <1>14, <2>1, <2>2 DEF BeginReopen
<1>15. ASSUME NEW r \in Analysts, NEW a \in Articles, BeginSend(r, a) PROVE ReviewInv'
  <2>1. PICK q : q = [op |-> IF a \in linked THEN "stamp" ELSE "send", a |-> a]
    OBVIOUS
  <2>2. q \in RequestStates /\ RowsHeld(q)
    BY <1>15, <2>1 DEF BeginSend, RequestStates, RowsHeld
  <2>. QED  BY <1>2, <1>15, <2>1, <2>2 DEF BeginSend
<1>16. ASSUME NEW r \in Analysts, NEW a \in Articles, NEW d \in Decisions, BeginDecide(r, a, d)
       PROVE  ReviewInv'
  <2>1. PICK q : q = [op |-> "decide", a |-> a, d |-> d, seen |-> cand[a]]
    OBVIOUS
  <2>2. q \in RequestStates /\ RowsHeld(q)
    BY <1>16, <2>1 DEF BeginDecide, Decidable, RequestStates, RowsHeld
  <2>. QED  BY <1>2, <1>16, <2>1, <2>2 DEF BeginDecide
<1>17. ASSUME NEW r \in Analysts, AbandonReview(r) PROVE ReviewInv'
  BY <1>2, <1>3, <1>17 DEF AbandonReview
<1>18. ASSUME NEW r \in Analysts, CaptureSource(r) PROVE ReviewInv'
  <2>1. PICK a : a = review[r].a
    OBVIOUS
  <2>2. a \in Articles /\ item[a].row /\ review[r] \in RequestStates
    BY <1>0, <1>18, <2>1, ReviewFields DEF CaptureSource, RowsHeld
  <2>3. RowsStay
    BY <1>18 DEF CaptureSource, RowsStay
  <2>4. PICK q : q = [op |-> "stamp", a |-> a]
    OBVIOUS
  <2>5. q \in RequestStates /\ RowsHeld(q)'
    BY <1>18, <2>2, <2>4 DEF CaptureSource, RequestStates, RowsHeld
  <2>6. review' = [review EXCEPT ![r] = Idle] \/ review' = [review EXCEPT ![r] = q]
    <3>1. review[r] \in [op : {"extract", "send", "stamp"}, a : Articles]
      BY <1>18, <2>2 DEF CaptureSource, RequestStates
    <3>2. [review[r] EXCEPT !.op = "stamp"] = [op |-> "stamp", a |-> review[r].a]
      BY <3>1
    <3>3. review' = [review EXCEPT ![r] = Idle]
          \/ review' = [review EXCEPT ![r] = [review[r] EXCEPT !.op = "stamp"]]
      BY <1>18 DEF CaptureSource
    <3>. QED  BY <2>1, <2>4, <3>2, <3>3
  <2>7. review' \in [Analysts -> RequestStates] /\ \A s \in Analysts : RowsHeld(review[s])'
    BY <1>3, <2>3, <2>5, <2>6, RequestGoesOn
  <2>8. linked' \subseteq Articles
    BY <1>18, <2>1, <2>2 DEF CaptureSource
  <2>. QED  BY <1>18, <2>3, <2>7, <2>8, QuietStep DEF CaptureSource
<1>19. ASSUME NEW r \in Analysts, StampItem(r) PROVE ReviewInv'
  <2>1. PICK a : a = review[r].a
    OBVIOUS
  <2>2. a \in Articles /\ item[a].row
    BY <1>0, <1>19, <2>1, ReviewFields DEF StampItem, RowsHeld
  <2>3. item' = [item EXCEPT ![a] = [item[a] EXCEPT !.ingested = TRUE]]
    BY <1>19, <2>1 DEF StampItem
  <2>4. [item[a] EXCEPT !.ingested = TRUE] \in ItemsThere
    <3>1. item[a] \in ItemsThere
      BY <2>2, ItemFields
    <3>. QED  BY <3>1 DEF ItemsThere
  <2>5. item' \in [Articles -> ItemRows] /\ \A b \in Articles : item[b].row => item'[b].row
    BY <1>4, <2>2, <2>3, <2>4
  <2>6. RowsStay
    BY <1>19, <2>5 DEF StampItem, RowsStay
  <2>7. review' \in [Analysts -> RequestStates] /\ \A s \in Analysts : RowsHeld(review[s])'
    BY <1>3, <1>19, <2>6, RequestGoesOn DEF StampItem
  <2>. QED  BY <1>19, <2>5, <2>6, <2>7, QuietStep DEF StampItem
<1>20. ASSUME NEW r \in Analysts, Reject(r) PROVE ReviewInv'
  <2>1. PICK a : a = review[r].a
    OBVIOUS
  <2>2. a \in Articles /\ cand[a].row
    BY <1>0, <1>20, <2>1, ReviewFields DEF Reject, RowsHeld
  <2>3. PICK n : n = [cand[a] EXCEPT !.status = "rejected"]
    OBVIOUS
  <2>4. n \in CandidatesThere /\ n.ioc = cand[a].ioc
    BY <2>2, <2>3, CandidateFields DEF CandidatesThere
  <2>5. cand' = [cand EXCEPT ![a] = n]
    BY <1>20, <2>1, <2>3 DEF Reject
  <2>6. cand[a] = review[r].seen /\ a \notin overtaken => n.ioc = 0
    BY <1>0, <1>20, <2>2, <2>4 DEF Reject, RowsHeld, DecisionOwnsItsIoc
  <2>. QED
    BY <1>20, <2>1, <2>2, <2>4, <2>5, <2>6, CandidateThere, DecisionStep
       DEF Reject, IndicatorsFollow
<1>21. ASSUME NEW r \in Analysts, MarkDuplicate(r) PROVE ReviewInv'
  <2>1. PICK a : a = review[r].a
    OBVIOUS
  <2>2. a \in Articles /\ cand[a].row
    BY <1>0, <1>21, <2>1, ReviewFields DEF MarkDuplicate, RowsHeld
  <2>3. PICK i \in IocIds : cand' = [cand EXCEPT ![a].status = "duplicate", ![a].dup = i]
    BY <1>21, <2>1 DEF MarkDuplicate
  <2>4. PICK n : n = [cand[a] EXCEPT !.status = "duplicate", !.dup = i]
    OBVIOUS
  <2>5. n \in CandidatesThere /\ n.ioc = cand[a].ioc
    <3>1. cand[a] \in CandidatesThere /\ i \in 0..MaxIocs
      BY <2>2, CandidateFields, ReviewAssumption DEF IocIds
    <3>. QED  BY <2>4, <3>1 DEF CandidatesThere
  <2>6. cand' = [cand EXCEPT ![a] = n]
    BY <2>2, <2>3, <2>4
  <2>7. cand[a] = review[r].seen /\ a \notin overtaken => n.ioc = 0
    BY <1>0, <1>21, <2>2, <2>5 DEF MarkDuplicate, RowsHeld, DecisionOwnsItsIoc
  <2>. QED
    BY <1>21, <2>1, <2>2, <2>5, <2>6, <2>7, CandidateThere, DecisionStep
       DEF MarkDuplicate, IndicatorsFollow
<1>22. ASSUME NEW r \in Analysts, Accept(r) PROVE ReviewInv'
  <2>1. PICK a : a = review[r].a
    OBVIOUS
  <2>2. a \in Articles /\ cand[a].row /\ item[a].row
    BY <1>0, <1>22, <2>1, ReviewFields DEF Accept, RowsHeld
  <2>3. PICK i \in IocIds :
          /\ iocs[i] = "none"
          /\ iocs' = [iocs EXCEPT ![i] = "live"] /\ iocOf' = [iocOf EXCEPT ![i] = a]
          /\ cand' = [cand EXCEPT ![a].status = "accepted", ![a].ioc = i]
          /\ item' = [item EXCEPT ![a].ingested = TRUE]
          /\ linked' = linked \cup {a}
    BY <1>22, <2>1 DEF Accept
  <2>4. PICK n : n = [cand[a] EXCEPT !.status = "accepted", !.ioc = i]
    OBVIOUS
  <2>5. n \in CandidatesThere /\ n.ioc = i /\ n.status = "accepted"
    <3>1. cand[a] \in CandidatesThere /\ i \in 0..MaxIocs
      BY <2>2, CandidateFields, ReviewAssumption DEF IocIds
    <3>. QED  BY <2>4, <3>1 DEF CandidatesThere
  <2>6. cand' = [cand EXCEPT ![a] = n]
    BY <2>2, <2>3, <2>4
  <2>7. [item[a] EXCEPT !.ingested = TRUE] \in ItemsThere
    <3>1. item[a] \in ItemsThere
      BY <2>2, ItemFields
    <3>. QED  BY <3>1 DEF ItemsThere
  <2>8. item' \in [Articles -> ItemRows] /\ \A b \in Articles : item[b].row => item'[b].row
    BY <1>4, <2>2, <2>3, <2>7
  <2>9. /\ IndicatorsFollow(a, n)
        /\ iocs' \in [IocIds -> {"none", "live", "deleted"}]
        /\ iocOf' \in [IocIds -> Articles \cup {NoArticle}]
    BY <2>2, <2>3, <2>5 DEF IndicatorsFollow
  <2>10. linked' \subseteq Articles
    BY <2>2, <2>3
  <2>11. /\ review[r].op = "decide" /\ overtaken' = Overtakes(r) /\ cited' \subseteq IocIds
         /\ review' = [review EXCEPT ![r] = Idle]
    BY <1>22 DEF Accept
  <2>12. n \in CandidateRows /\ n.row
    BY <2>5, CandidateThere
  <2>13. cand[a] = review[r].seen /\ a \notin overtaken => n.status = "accepted" \/ n.ioc = 0
    BY <2>5
  <2>. QED  BY <2>1, <2>2, <2>6, <2>8, <2>9, <2>10, <2>11, <2>12, <2>13, DecisionStep
<1>23. ASSUME NEW r \in Analysts, CommitExtract(r) PROVE ReviewInv'
  <2>1. PICK a : a = review[r].a
    OBVIOUS
  <2>2. a \in Articles /\ item[a].row
    BY <1>0, <1>23, <2>1, ReviewFields DEF CommitExtract, RowsHeld
  <2>3. \A s \in {"clean", "error"} : [item[a] EXCEPT !.scan = s] \in ItemsThere
    <3>1. item[a] \in ItemsThere
      BY <2>2, ItemFields
    <3>. QED  BY <3>1 DEF ItemsThere
  <2>4. PICK s \in {"clean", "error"} : item' = [item EXCEPT ![a] = [item[a] EXCEPT !.scan = s]]
    BY <1>23, <2>1 DEF CommitExtract
  <2>5. item' \in [Articles -> ItemRows] /\ \A b \in Articles : item[b].row => item'[b].row
    BY <1>4, <2>2, <2>3, <2>4
  <2>6. RowsStay
    BY <1>23, <2>1, <2>5 DEF CommitExtract, RowsStay
  <2>7. review' \in [Analysts -> RequestStates] /\ \A t \in Analysts : RowsHeld(review[t])'
    BY <1>3, <1>23, <2>6, RequestGoesOn DEF CommitExtract
  <2>8. CASE UNCHANGED cand
    BY <1>23, <2>5, <2>6, <2>7, <2>8, QuietStep DEF CommitExtract
  <2>9. CASE ~cand[a].row /\ cand' = [cand EXCEPT ![a] = Undecided]
    <3>1. Undecided \in CandidatesThere /\ Undecided.ioc = 0
      BY ReviewAssumption DEF Undecided, CandidatesThere
    <3>2. Undecided \in CandidateRows /\ Undecided.row
      BY <3>1, CandidateThere
    <3>3. ReviewTypeOK'
      BY <1>0, <1>23, <2>2, <2>5, <2>7, <2>9, <3>2 DEF CommitExtract, ReviewTypeOK
    <3>4. \A i \in IocIds : iocs[i] = "live" /\ iocOf[i] = a => a \in overtaken
      BY <1>0, <2>2, <2>9 DEF DecisionOwnsItsIoc
    <3>5. DecisionOwnsItsIoc'
      BY <1>0, <1>23, <2>9, <3>1, <3>4 DEF CommitExtract, DecisionOwnsItsIoc
    <3>6. (\A b \in Articles : cand[b].row => item[b].row)'
      BY <1>0, <2>2, <2>5, <2>9
    <3>. QED  BY <2>7, <3>3, <3>5, <3>6 DEF ReviewInv
  <2>. QED  BY <1>23, <2>1, <2>8, <2>9 DEF CommitExtract
\* What a deleted indicator leaves of the candidates.
<1>24. ASSUME NEW i \in Nat
       PROVE  \A b \in Articles :
                /\ WithoutIoc(cand[b], i) \in CandidateRows
                /\ WithoutIoc(cand[b], i).row = cand[b].row
                /\ cand[b].row =>
                     /\ WithoutIoc(cand[b], i).status = cand[b].status
                     /\ WithoutIoc(cand[b], i).ioc = IF cand[b].ioc = i THEN 0 ELSE cand[b].ioc
  BY ForgettingAnIoc
<1>25. ASSUME NEW i \in IocIds, DeleteIoc(i) PROVE ReviewInv'
  <2>1. \A b \in Articles :
          /\ cand'[b] \in CandidateRows /\ cand'[b].row = cand[b].row
          /\ cand[b].row => /\ cand'[b].status = cand[b].status
                            /\ cand'[b].ioc = IF cand[b].ioc = i THEN 0 ELSE cand[b].ioc
    BY <1>24, <1>25, ReviewAssumption DEF DeleteIoc, IocIds
  <2>2. cand' \in [Articles -> CandidateRows]
    BY <1>25, <2>1 DEF DeleteIoc
  <2>3. RowsStay
    BY <1>25, <2>1 DEF DeleteIoc, RowsStay
  <2>4. review' \in [Analysts -> RequestStates] /\ \A t \in Analysts : RowsHeld(review[t])'
    BY <1>25, <2>3, RequestsWait DEF DeleteIoc
  <2>5. ReviewTypeOK'
    BY <1>0, <1>25, <2>2 DEF DeleteIoc, ReviewTypeOK
  <2>6. \A j \in IocIds : iocs'[j] = "live" => iocs[j] = "live" /\ j # i /\ iocOf'[j] = iocOf[j]
    BY <1>25 DEF DeleteIoc
  <2>7. DecisionOwnsItsIoc'
    <3>1. SUFFICES ASSUME NEW b \in Articles \ overtaken
                   PROVE  /\ \A j \in IocIds : iocs'[j] = "live" /\ iocOf'[j] = b =>
                               cand'[b].row /\ cand'[b].status = "accepted" /\ cand'[b].ioc = j
                          /\ cand'[b].row /\ cand'[b].status # "accepted" => cand'[b].ioc = 0
      BY <1>25 DEF DeleteIoc, DecisionOwnsItsIoc
    <3>. QED  BY <1>0, <2>1, <2>6 DEF DecisionOwnsItsIoc
  <2>8. (\A b \in Articles : cand[b].row => item[b].row)'
    <3>1. item' = item
      BY <1>25 DEF DeleteIoc
    <3>2. \A b \in Articles : cand'[b].row => cand[b].row
      BY <2>1
    <3>. QED  BY <1>0, <3>1, <3>2
  <2>. QED  BY <2>4, <2>5, <2>7, <2>8 DEF ReviewInv
<1>26. ASSUME NEW r \in Analysts, CommitReopen(r) PROVE ReviewInv'
  <2>1. PICK a, seen, i : a = review[r].a /\ seen = review[r].seen /\ i = seen.ioc
    OBVIOUS
  <2>2. /\ a \in Articles /\ cand[a].row /\ seen.row
        /\ seen \in CandidateRows
    BY <1>0, <1>26, <2>1, ReviewFields DEF CommitReopen, RowsHeld
  <2>3. i \in Nat /\ i \in 0..MaxIocs
    <3>1. seen \in CandidatesThere
      BY <2>2, CandidateFields
    <3>2. seen.ioc \in 0..MaxIocs
      BY <3>1 DEF CandidatesThere
    <3>. QED  BY <2>1, <3>2
  <2>. DEFINE left == [b \in Articles |-> IF i # 0 THEN WithoutIoc(cand[b], i) ELSE cand[b]]
  <2>4. \A b \in Articles :
          /\ left[b] \in CandidateRows /\ left[b].row = cand[b].row
          /\ cand[b].row => /\ left[b].status = cand[b].status
                            /\ left[b].ioc = IF cand[b].ioc = i THEN 0 ELSE cand[b].ioc
    BY <1>24, <2>3
  <2>5. /\ iocs' = [j \in IocIds |-> IF j = i THEN "deleted" ELSE iocs[j]]
        /\ cited' = cited \ {i}
        /\ cand' = [b \in Articles |-> IF b = a THEN Reset(left[b], seen) ELSE left[b]]
        /\ overtaken' = Overtakes(r) /\ review' = [review EXCEPT ![r] = Idle]
        /\ UNCHANGED <<item, linked, iocOf>>
    BY <1>26, <2>1 DEF CommitReopen
  <2>. HIDE DEF left
  <2>6. /\ cand'[a] \in CandidateRows /\ cand'[a].row /\ cand'[a].status = "pending"
        /\ cand'[a].ioc = IF i # 0 THEN 0 ELSE left[a].ioc
    BY <2>1, <2>2, <2>4, <2>5, Resetting
  <2>7. \A b \in Articles \ {a} : cand'[b] = left[b]
    BY <2>5
  <2>8. cand' \in [Articles -> CandidateRows]
    BY <2>4, <2>5, <2>6, <2>7
  <2>9. RowsStay
    BY <2>2, <2>4, <2>5, <2>6, <2>7 DEF RowsStay
  <2>10. review' \in [Analysts -> RequestStates] /\ \A t \in Analysts : RowsHeld(review[t])'
    BY <1>3, <2>5, <2>9, RequestGoesOn
  <2>11. overtaken' \subseteq Articles /\ overtaken \subseteq overtaken'
         /\ (a \notin overtaken' => cand[a] = seen)
    BY <2>1, <2>2, <2>5 DEF Overtakes
  <2>12. ReviewTypeOK'
    BY <1>0, <2>5, <2>8, <2>10, <2>11 DEF ReviewTypeOK
  <2>13. \A j \in IocIds : iocs'[j] = "live" => iocs[j] = "live" /\ j # i
    BY <2>5
  <2>14. DecisionOwnsItsIoc'
    <3>1. SUFFICES ASSUME NEW b \in Articles \ overtaken'
                   PROVE  /\ \A j \in IocIds : iocs'[j] = "live" /\ iocOf[j] = b =>
                               cand'[b].row /\ cand'[b].status = "accepted" /\ cand'[b].ioc = j
                          /\ cand'[b].row /\ cand'[b].status # "accepted" => cand'[b].ioc = 0
      BY <2>5 DEF DecisionOwnsItsIoc
    <3>2. b \in Articles \ overtaken
      BY <2>11
    <3>3. CASE b = a
      <4>1. cand[a] = seen /\ cand[a].ioc = i
        BY <2>1, <2>11, <3>1, <3>3
      <4>2. cand'[a].ioc = 0
        BY <2>2, <2>4, <2>6, <4>1
      <4>3. \A j \in IocIds : ~(iocs'[j] = "live" /\ iocOf[j] = a)
        BY <1>0, <2>13, <3>2, <3>3, <4>1 DEF DecisionOwnsItsIoc
      <4>. QED  BY <3>3, <4>2, <4>3
    <3>4. CASE b # a
      BY <1>0, <2>4, <2>7, <2>13, <3>2, <3>4 DEF DecisionOwnsItsIoc
    <3>. QED  BY <3>3, <3>4
  <2>15. (\A b \in Articles : cand[b].row => item[b].row)'
    BY <1>0, <2>2, <2>4, <2>5, <2>7
  <2>. QED  BY <2>10, <2>12, <2>14, <2>15 DEF ReviewInv
<1>. QED
  BY <1>1, <1>5, <1>6, <1>7, <1>8, <1>10, <1>11, <1>12, <1>13, <1>14, <1>15, <1>16, <1>17,
     <1>18, <1>19, <1>20, <1>21, <1>22, <1>23, <1>25, <1>26 DEF ReviewNext

\* The rows of articles and candidates, and what requests hold of them, keep
\* their types.
THEOREM ReviewTypeCorrect == ReviewSpec => []ReviewTypeOK
<1>1. ReviewInv => ReviewTypeOK
  BY DEF ReviewInv
<1>. QED  BY ReviewInitInv, ReviewStep, <1>1, PTL DEF ReviewSpec

\* An indicator made from a candidate is the one its acceptance names, until a
\* decision is written over a newer one (services/feed_indicators.py).
THEOREM IndicatorsStandForDecisions == ReviewSpec => []DecisionOwnsItsIoc
<1>1. ReviewInv => DecisionOwnsItsIoc
  BY DEF ReviewInv
<1>. QED  BY ReviewInitInv, ReviewStep, <1>1, PTL DEF ReviewSpec

-----------------------------------------------------------------------------
(***************************************************************************)
(* Requirements.  What a request has loaded was there, delivered, asked    *)
(* for by whom it speaks for; nobody has had a word on a requirement that  *)
(* was not stated yet.                                                     *)
(***************************************************************************)
TabStates ==
  {Shut}
  \cup [op : {"edit"}, n : Needs, old : NeedRows]
  \cup [op : {"close"}, n : Needs, was : Statuses]
  \cup [op : {"feedback"}, p : Products, c : Customers, n : Needs,
        met : BOOLEAN, insert : BOOLEAN, was : Statuses]

FeedbackIsEntitled ==
  \A t \in Tabs : tab[t].op = "feedback" =>
    <<tab[t].p, tab[t].c>> \in delivered /\ OwnerOf[tab[t].n] = tab[t].c

UnstatedIsUnmet == \A n \in Needs : need[n] = NoNeed => lastWord[n] # "met"

TaskingInv ==
  /\ TaskingTypeOK /\ tab \in [Tabs -> TabStates]
  /\ VerdictsAreOwn /\ FeedbackIsEntitled
  /\ UnstatedIsUnmet /\ MetSatisfies
-----------------------------------------------------------------------------
\* A request has the fields of its operation.
LEMMA TabFields ==
  ASSUME NEW q \in TabStates
  PROVE  /\ q.op = "edit" => q.n \in Needs /\ q.old \in NeedRows
         /\ q.op = "close" => q.n \in Needs /\ q.was \in Statuses
         /\ q.op = "feedback" => /\ q.p \in Products /\ q.c \in Customers /\ q.n \in Needs
                                 /\ q.met \in BOOLEAN /\ q.insert \in BOOLEAN
                                 /\ q.was \in Statuses
  BY DEF TabStates, Shut

\* A stated requirement is a row.
LEMMA StatedIsARow ==
  ASSUME NEW n \in Needs, need \in [Needs -> NeedRows \cup {NoNeed, GoneNeed}]
  PROVE  Stated(n) <=> need[n] \in NeedRows
  BY DEF Stated, NeedRows, NoNeed, GoneNeed, Statuses

LEMMA TaskingInitInv == TaskingInit => TaskingInv
<1> SUFFICES ASSUME TaskingInit PROVE TaskingInv
  OBVIOUS
<1>1. TaskingTypeOK /\ tab \in [Tabs -> TabStates]
  BY TaskingAssumption DEF TaskingInit, TaskingTypeOK, TabStates, Deliveries, LinkRows
<1>2. VerdictsAreOwn /\ FeedbackIsEntitled /\ UnstatedIsUnmet
  BY DEF TaskingInit, VerdictsAreOwn, FeedbackIsEntitled, UnstatedIsUnmet, Shut
<1>3. MetSatisfies
  BY DEF TaskingInit, MetSatisfies
<1>. QED  BY <1>1, <1>2, <1>3 DEF TaskingInv

LEMMA TaskingTypeStep ==
  ASSUME TaskingInv, [TaskingNext]_taskingVars
  PROVE  TaskingTypeOK' /\ tab' \in [Tabs -> TabStates]
<1>. DEFINE Typed ==
       /\ need' \in [Needs -> NeedRows \cup {NoNeed, GoneNeed}]
       /\ addressed' \subseteq LinkRows /\ delivered' \subseteq Deliveries
       /\ verdict' \in [Deliveries -> {NoVerdict} \cup FeedbackRows]
       /\ tab' \in [Tabs -> TabStates]
       /\ moves' \in 0..MaxMoves
       /\ lastWord' \in [Needs -> {"writer", "met", "dead"}]
<1>1. SUFFICES Typed
  <2>1. tab' \in [Tabs -> TabStates] => (\A t \in Tabs :
          \/ tab[t] = Shut
          \/ tab[t] \in [op : {"edit"}, n : Needs, old : NeedRows]
          \/ tab[t] \in [op : {"close"}, n : Needs, was : Statuses]
          \/ tab[t] \in [op : {"feedback"}, p : Products, c : Customers, n : Needs,
                         met : BOOLEAN, insert : BOOLEAN, was : Statuses])'
    BY DEF TabStates
  <2>. QED  BY <2>1 DEF TaskingTypeOK
<1>. /\ need \in [Needs -> NeedRows \cup {NoNeed, GoneNeed}]
     /\ addressed \subseteq LinkRows /\ delivered \subseteq Deliveries
     /\ verdict \in [Deliveries -> {NoVerdict} \cup FeedbackRows]
     /\ tab \in [Tabs -> TabStates]
     /\ moves \in 0..MaxMoves
     /\ lastWord \in [Needs -> {"writer", "met", "dead"}]
  BY DEF TaskingInv, TaskingTypeOK
<1>2. CASE UNCHANGED taskingVars
  BY <1>2 DEF taskingVars
<1>3. ASSUME NEW n \in Needs, NEW k \in NeedKinds, NEW plan \in BOOLEAN, State(n, k, plan)
      PROVE  Typed
  BY <1>3 DEF State, NeedRows, Statuses, Planned
<1>4. ASSUME NEW n \in Needs, NEW s \in Statuses, MoveNeed(n, s) PROVE Typed
  <2>1. need[n] \in NeedRows
    BY <1>4, StatedIsARow DEF MoveNeed
  <2>2. need' \in [Needs -> NeedRows \cup {NoNeed, GoneNeed}]
    BY <1>4, <2>1 DEF MoveNeed, NeedRows
  <2>. QED  BY <1>4, <2>2, TaskingAssumption DEF MoveNeed
<1>5. ASSUME NEW n \in Needs, DeleteNeed(n) PROVE Typed
  <2>1. [on |-> "nothing", met |-> FALSE] \in FeedbackRows
    BY DEF FeedbackRows
  <2>2. verdict' \in [Deliveries -> {NoVerdict} \cup FeedbackRows]
    BY <1>5, <2>1 DEF DeleteNeed
  <2>. QED  BY <1>5, <2>2 DEF DeleteNeed
<1>6. ASSUME NEW p \in Products, NEW ns \in SUBSET Needs, SetAddressed(p, ns) PROVE Typed
  BY <1>6 DEF SetAddressed, LinkRows
<1>7. ASSUME NEW p \in Products, NEW c \in Customers, Deliver(p, c) PROVE Typed
  BY <1>7 DEF Deliver, Deliveries
<1>8. ASSUME NEW t \in Tabs, NEW n \in Needs, BeginEdit(t, n) PROVE Typed
  <2>1. need[n] \in NeedRows
    BY <1>8, StatedIsARow DEF BeginEdit
  <2>2. [op |-> "edit", n |-> n, old |-> need[n]] \in TabStates
    BY <2>1 DEF TabStates
  <2>. QED  BY <1>8, <2>2 DEF BeginEdit
<1>9. ASSUME NEW t \in Tabs, NEW k \in NeedKinds, NEW plan \in BOOLEAN, CommitEdit(t, k, plan)
      PROVE  Typed
  <2>1. PICK n : n = tab[t].n
    OBVIOUS
  <2>2. n \in Needs
    BY <1>9, <2>1, TabFields DEF CommitEdit
  <2>3. Shut \in TabStates
    BY DEF TabStates
  <2>4. CASE Stated(n)
    <3>1. need[n] \in NeedRows
      BY <2>2, <2>4, StatedIsARow
    <3>2. PICK kk, pl : /\ kk \in NeedKinds /\ pl \in BOOLEAN
                        /\ need' = [need EXCEPT ![n].kind = kk, ![n].plan = pl]
      <4>1. /\ Merge(need[n].kind, tab[t].old.kind, k) \in NeedKinds
            /\ Merge(need[n].plan, tab[t].old.plan, Planned(k, plan)) \in BOOLEAN
        BY <3>1 DEF Merge, NeedRows, Planned
      <4>2. need' = [need EXCEPT ![n].kind = Merge(@, tab[t].old.kind, k),
                                 ![n].plan = Merge(@, tab[t].old.plan, Planned(k, plan))]
        BY <1>9, <2>1, <2>4 DEF CommitEdit
      <4>3. need' = [need EXCEPT
                       ![n].kind = Merge(need[n].kind, tab[t].old.kind, k),
                       ![n].plan = Merge(need[n].plan, tab[t].old.plan, Planned(k, plan))]
        BY <4>2, <2>2, <3>1 DEF NeedRows
      <4>. QED  BY <4>1, <4>3
    <3>3. need' \in [Needs -> NeedRows \cup {NoNeed, GoneNeed}]
      BY <3>1, <3>2, <2>2 DEF NeedRows
    <3>. QED  BY <1>9, <2>3, <3>3 DEF CommitEdit
  <2>5. CASE ~Stated(n)
    BY <1>9, <2>1, <2>3, <2>5 DEF CommitEdit
  <2>. QED  BY <2>4, <2>5
<1>10. ASSUME NEW t \in Tabs, NEW p \in Products, NEW c \in Customers, NEW n \in Needs,
              NEW met \in BOOLEAN, BeginFeedback(t, p, c, n, met)
       PROVE  Typed
  <2>1. need[n] \in NeedRows
    BY <1>10, StatedIsARow DEF BeginFeedback, MayJudge, TaskingInv, VerdictsAreOwn
  <2>2. [op |-> "feedback", p |-> p, c |-> c, n |-> n, met |-> met,
         insert |-> verdict[<<p, c>>] = NoVerdict, was |-> need[n].status] \in TabStates
    BY <2>1 DEF TabStates, NeedRows
  <2>. QED  BY <1>10, <2>2 DEF BeginFeedback
<1>11. ASSUME NEW t \in Tabs, StoreFeedback(t) PROVE Typed
  <2>1. /\ tab[t].p \in Products /\ tab[t].c \in Customers /\ tab[t].n \in Needs
        /\ tab[t].met \in BOOLEAN /\ tab[t].was \in Statuses
    BY <1>11, TabFields DEF StoreFeedback
  <2>2. /\ Shut \in TabStates
        /\ [op |-> "close", n |-> tab[t].n, was |-> tab[t].was] \in TabStates
    BY <2>1 DEF TabStates
  <2>3. [on |-> tab[t].n, met |-> tab[t].met] \in FeedbackRows
    BY <2>1 DEF FeedbackRows
  <2>4. tab' \in [Tabs -> TabStates]
    BY <1>11, <2>2 DEF StoreFeedback
  <2>5. verdict' \in [Deliveries -> {NoVerdict} \cup FeedbackRows]
    BY <1>11, <2>3 DEF StoreFeedback
  <2>6. lastWord' \in [Needs -> {"writer", "met", "dead"}]
    BY <1>11, <2>1 DEF StoreFeedback
  <2>. QED  BY <1>11, <2>4, <2>5, <2>6 DEF StoreFeedback
<1>12. ASSUME NEW t \in Tabs, CloseLoop(t) PROVE Typed
  <2>1. PICK n : n = tab[t].n
    OBVIOUS
  <2>2. n \in Needs /\ Shut \in TabStates
    BY <1>12, <2>1, TabFields DEF CloseLoop, TabStates
  <2>3. CASE Stated(n) /\ NeedsClosing(t)
    <3>1. need[n] \in NeedRows /\ "satisfied" \in Statuses
      BY <2>2, <2>3, StatedIsARow DEF Statuses
    <3>2. need' = [need EXCEPT ![n].status = "satisfied"]
      BY <1>12, <2>1, <2>3 DEF CloseLoop
    <3>3. need' \in [Needs -> NeedRows \cup {NoNeed, GoneNeed}]
      BY <3>1, <3>2, <2>2 DEF NeedRows
    <3>. QED  BY <1>12, <2>2, <3>3 DEF CloseLoop
  <2>4. CASE ~(Stated(n) /\ NeedsClosing(t))
    BY <1>12, <2>1, <2>2, <2>4 DEF CloseLoop
  <2>. QED  BY <2>3, <2>4
<1>13. ASSUME NEW t \in Tabs, CloseTab(t) PROVE Typed
  <2>1. Shut \in TabStates /\ (tab[t].op = "close" => tab[t].n \in Needs)
    BY TabFields DEF TabStates
  <2>2. lastWord' \in [Needs -> {"writer", "met", "dead"}]
    BY <1>13, <2>1 DEF CloseTab
  <2>. QED  BY <1>13, <2>1, <2>2 DEF CloseTab
<1>. QED
  BY <1>2, <1>3, <1>4, <1>5, <1>6, <1>7, <1>8, <1>9, <1>10, <1>11, <1>12, <1>13 DEF TaskingNext
-----------------------------------------------------------------------------
\* Requirements go with what refers to them, and what a request was entitled to
\* say when it loaded its feedback it is entitled to when it stores it.
LEMMA EntitledStep ==
  ASSUME TaskingInv, [TaskingNext]_taskingVars
  PROVE  FeedbackIsEntitled'
<1>1. delivered \subseteq delivered'
  BY DEF TaskingNext, taskingVars, State, MoveNeed, DeleteNeed, SetAddressed, Deliver, BeginEdit,
         CommitEdit, BeginFeedback, StoreFeedback, CloseLoop, CloseTab
<1>2. SUFFICES ASSUME NEW t \in Tabs, tab'[t].op = "feedback"
               PROVE  <<tab'[t].p, tab'[t].c>> \in delivered' /\ OwnerOf[tab'[t].n] = tab'[t].c
  BY DEF FeedbackIsEntitled
<1>3. CASE tab'[t] = tab[t]
  BY <1>1, <1>2, <1>3 DEF TaskingInv, FeedbackIsEntitled
<1>4. ASSUME NEW p \in Products, NEW c \in Customers, NEW n \in Needs, NEW met \in BOOLEAN,
             BeginFeedback(t, p, c, n, met)
      PROVE  <<tab'[t].p, tab'[t].c>> \in delivered' /\ OwnerOf[tab'[t].n] = tab'[t].c
  BY <1>4 DEF BeginFeedback, MayJudge, TaskingInv
<1>5. tab'[t] # tab[t] => \E p \in Products, c \in Customers, n \in Needs, met \in BOOLEAN :
                             BeginFeedback(t, p, c, n, met)
  <2>. tab \in [Tabs -> TabStates]
    BY DEF TaskingInv
  <2>1. ASSUME NEW u \in Tabs, NEW q, tab' = [tab EXCEPT ![u] = q], q.op # "feedback"
        PROVE  tab'[t] = tab[t]
    BY <1>2, <2>1
  <2>2. ASSUME NEW u \in Tabs, NEW p \in Products, NEW c \in Customers, NEW n \in Needs,
               NEW met \in BOOLEAN, BeginFeedback(u, p, c, n, met), tab'[t] # tab[t]
        PROVE  u = t
    BY <2>2 DEF BeginFeedback
  <2>3. ASSUME NEW u \in Tabs, NEW n \in Needs, BeginEdit(u, n) PROVE tab'[t] = tab[t]
    <3>1. PICK q : q = [op |-> "edit", n |-> n, old |-> need[n]]
      OBVIOUS
    <3>2. tab' = [tab EXCEPT ![u] = q] /\ q.op # "feedback"
      BY <2>3, <3>1 DEF BeginEdit
    <3>. QED  BY <2>1, <3>2
  <2>4. ASSUME NEW u \in Tabs, NEW k, NEW plan, CommitEdit(u, k, plan) PROVE tab'[t] = tab[t]
    <3>1. tab' = [tab EXCEPT ![u] = Shut] /\ Shut.op # "feedback"
      BY <2>4 DEF CommitEdit, Shut
    <3>. QED  BY <2>1, <3>1
  <2>5. ASSUME NEW u \in Tabs, CloseLoop(u) \/ CloseTab(u) PROVE tab'[t] = tab[t]
    BY <2>5, <2>1 DEF CloseLoop, CloseTab, Shut
  <2>6. ASSUME NEW u \in Tabs, StoreFeedback(u) PROVE tab'[t] = tab[t]
    <3>1. PICK q : tab' = [tab EXCEPT ![u] = q] /\ q.op # "feedback"
      BY <2>6 DEF StoreFeedback, Shut
    <3>. QED  BY <2>1, <3>1
  <2>. QED
    BY <2>2, <2>3, <2>4, <2>5, <2>6
       DEF TaskingNext, NeedKinds, taskingVars, State, MoveNeed, DeleteNeed, SetAddressed, Deliver
<1>. QED  BY <1>3, <1>4, <1>5

LEMMA OwnStep ==
  ASSUME TaskingInv, [TaskingNext]_taskingVars
  PROVE  VerdictsAreOwn'
<1>. /\ need \in [Needs -> NeedRows \cup {NoNeed, GoneNeed}]
     /\ addressed \subseteq LinkRows /\ delivered \subseteq Deliveries
     /\ verdict \in [Deliveries -> {NoVerdict} \cup FeedbackRows]
     /\ tab \in [Tabs -> TabStates] /\ VerdictsAreOwn /\ FeedbackIsEntitled
  BY DEF TaskingInv, TaskingTypeOK
<1>1. ASSUME UNCHANGED <<addressed, verdict>>, delivered \subseteq delivered',
             \A n \in Needs : Stated(n) => Stated(n)'
      PROVE  VerdictsAreOwn'
  BY <1>1 DEF VerdictsAreOwn, LinkRows, FeedbackRows
<1>2. CASE UNCHANGED taskingVars
  BY <1>1, <1>2 DEF taskingVars, Stated
<1>3. ASSUME NEW n \in Needs, NEW k \in NeedKinds, NEW plan \in BOOLEAN, State(n, k, plan)
      PROVE  VerdictsAreOwn'
  BY <1>3, <1>1 DEF State, Stated, NoNeed
<1>4. ASSUME NEW n \in Needs, NEW s \in Statuses, MoveNeed(n, s) PROVE VerdictsAreOwn'
  <2>1. need[n] \in NeedRows /\ need'[n] \in NeedRows
    BY <1>4, StatedIsARow DEF MoveNeed, NeedRows
  <2>2. Stated(n)'
    BY <2>1 DEF Stated, NeedRows, NoNeed, GoneNeed, Statuses
  <2>. QED  BY <1>4, <1>1, <2>2 DEF MoveNeed, Stated
<1>5. ASSUME NEW n \in Needs, DeleteNeed(n) PROVE VerdictsAreOwn'
  <2>1. \A m \in Needs \ {n} : Stated(m)' = Stated(m)
    BY <1>5 DEF DeleteNeed, Stated
  <2>2. \A l \in addressed' : l \in addressed /\ l[2] # n
    BY <1>5 DEF DeleteNeed
  <2>3. \A l \in addressed' : Stated(l[2])' /\ (l[1] \in IsDemo) = (l[2] \in IsDemo)
    BY <2>1, <2>2 DEF VerdictsAreOwn, LinkRows
  <2>4. ASSUME NEW x \in Deliveries, verdict'[x] # NoVerdict
        PROVE  (/\ x \in delivered
                /\ verdict[x].on \in Needs =>
                     Stated(verdict[x].on) /\ OwnerOf[verdict[x].on] = x[2])'
    <3>1. CASE verdict[x].on = n
      <4>1. verdict[x] # NoVerdict
        BY <3>1, TaskingAssumption DEF NoVerdict
      <4>2. verdict'[x].on \notin Needs
        BY <1>5, <3>1, TaskingAssumption DEF DeleteNeed
      <4>. QED  BY <1>5, <4>1, <4>2 DEF DeleteNeed, VerdictsAreOwn
    <3>2. CASE verdict[x].on # n
      <4>1. verdict'[x] = verdict[x]
        BY <1>5, <3>2 DEF DeleteNeed
      <4>2. x \in delivered /\ (verdict[x].on \in Needs =>
              Stated(verdict[x].on) /\ OwnerOf[verdict[x].on] = x[2])
        BY <2>4, <4>1 DEF VerdictsAreOwn
      <4>. QED  BY <1>5, <2>1, <3>2, <4>1, <4>2 DEF DeleteNeed
    <3>. QED  BY <3>1, <3>2
  <2>5. DOMAIN verdict' = Deliveries
    BY <1>5 DEF DeleteNeed
  <2>. QED  BY <2>3, <2>4, <2>5 DEF VerdictsAreOwn, Stated
<1>6. ASSUME NEW p \in Products, NEW ns \in SUBSET Needs, SetAddressed(p, ns)
      PROVE  VerdictsAreOwn'
  <2>1. \A l \in addressed' : Stated(l[2])' /\ (l[1] \in IsDemo) = (l[2] \in IsDemo)
    BY <1>6 DEF SetAddressed, SameWorld, Stated, VerdictsAreOwn
  <2>. QED  BY <1>6, <2>1 DEF SetAddressed, VerdictsAreOwn, Stated
<1>7. ASSUME NEW p \in Products, NEW c \in Customers, Deliver(p, c) PROVE VerdictsAreOwn'
  BY <1>7, <1>1 DEF Deliver, Stated
<1>8. ASSUME NEW t \in Tabs, NEW n \in Needs, BeginEdit(t, n) PROVE VerdictsAreOwn'
  BY <1>8, <1>1 DEF BeginEdit, Stated
<1>9. ASSUME NEW t \in Tabs, NEW k \in NeedKinds, NEW plan \in BOOLEAN, CommitEdit(t, k, plan)
      PROVE  VerdictsAreOwn'
  <2>1. PICK n : n = tab[t].n
    OBVIOUS
  <2>2. n \in Needs
    BY <1>9, <2>1, TabFields DEF CommitEdit
  <2>3. CASE Stated(n)
    <3>1. need[n] \in NeedRows
      BY <2>2, <2>3, StatedIsARow
    <3>2. PICK kk, pl : need' = [need EXCEPT ![n].kind = kk, ![n].plan = pl]
      BY <1>9, <2>1, <2>3 DEF CommitEdit
    <3>3. need'[n].status = need[n].status /\ \A m \in Needs \ {n} : need'[m] = need[m]
      BY <2>2, <3>1, <3>2 DEF NeedRows
    <3>4. Stated(n)'
      BY <3>1, <3>3 DEF Stated, NeedRows, NoNeed, GoneNeed, Statuses
    <3>. QED  BY <1>9, <1>1, <3>3, <3>4 DEF CommitEdit, Stated
  <2>4. CASE ~Stated(n)
    BY <1>9, <1>1, <2>1, <2>4 DEF CommitEdit, Stated
  <2>. QED  BY <2>3, <2>4
<1>10. ASSUME NEW t \in Tabs, NEW p \in Products, NEW c \in Customers, NEW n \in Needs,
              NEW met \in BOOLEAN, BeginFeedback(t, p, c, n, met)
       PROVE  VerdictsAreOwn'
  BY <1>10, <1>1 DEF BeginFeedback, Stated
<1>11. ASSUME NEW t \in Tabs, StoreFeedback(t) PROVE VerdictsAreOwn'
  <2>1. PICK n, x : n = tab[t].n /\ x = <<tab[t].p, tab[t].c>>
    OBVIOUS
  <2>2. n \in Needs /\ x \in delivered /\ OwnerOf[n] = x[2]
    BY <1>11, <2>1, TabFields DEF StoreFeedback, FeedbackIsEntitled
  <2>3. \A m \in Needs : Stated(m)' = Stated(m)
    BY <1>11 DEF StoreFeedback, Stated
  <2>4. CASE UNCHANGED verdict
    BY <1>11, <1>1, <2>3, <2>4 DEF StoreFeedback
  <2>5. CASE Stated(n) /\ verdict' = [verdict EXCEPT ![x] = [on |-> n, met |-> tab[t].met]]
    <3>1. \A y \in Deliveries : verdict'[y] = IF y = x THEN [on |-> n, met |-> tab[t].met]
                                             ELSE verdict[y]
      BY <2>2, <2>5
    <3>2. \A y \in Deliveries : verdict'[y] # NoVerdict =>
            /\ y \in delivered
            /\ verdict'[y].on \in Needs =>
                 Stated(verdict'[y].on) /\ OwnerOf[verdict'[y].on] = y[2]
      BY <2>2, <2>5, <3>1 DEF VerdictsAreOwn
    <3>3. DOMAIN verdict' = Deliveries
      BY <2>5
    <3>. QED  BY <1>11, <2>3, <3>2, <3>3 DEF StoreFeedback, VerdictsAreOwn, LinkRows
  <2>. QED  BY <1>11, <2>1, <2>4, <2>5 DEF StoreFeedback
<1>12. ASSUME NEW t \in Tabs, CloseLoop(t) PROVE VerdictsAreOwn'
  <2>1. PICK n : n = tab[t].n
    OBVIOUS
  <2>2. n \in Needs
    BY <1>12, <2>1, TabFields DEF CloseLoop
  <2>3. CASE need' = [need EXCEPT ![n].status = "satisfied"] /\ Stated(n)
    <3>1. need[n] \in NeedRows
      BY <2>2, <2>3, StatedIsARow
    <3>2. need'[n].status = "satisfied" /\ \A m \in Needs \ {n} : need'[m] = need[m]
      BY <2>2, <3>1, <2>3 DEF NeedRows
    <3>3. Stated(n)'
      BY <3>2 DEF Stated, NoNeed, GoneNeed
    <3>. QED  BY <1>12, <1>1, <3>2, <3>3 DEF CloseLoop, Stated
  <2>4. CASE UNCHANGED need
    BY <1>12, <1>1, <2>4 DEF CloseLoop, Stated
  <2>. QED  BY <1>12, <2>1, <2>3, <2>4 DEF CloseLoop
<1>13. ASSUME NEW t \in Tabs, CloseTab(t) PROVE VerdictsAreOwn'
  BY <1>13, <1>1 DEF CloseTab, Stated
<1>. QED
  BY <1>2, <1>3, <1>4, <1>5, <1>6, <1>7, <1>8, <1>9, <1>10, <1>11, <1>12, <1>13 DEF TaskingNext

\* A verdict that a requirement was met leaves a request to close it, or has
\* closed it; whoever else moves it has the last word.
LEMMA MetStep ==
  ASSUME TaskingInv, [TaskingNext]_taskingVars
  PROVE  UnstatedIsUnmet' /\ MetSatisfies'
<1>. /\ need \in [Needs -> NeedRows \cup {NoNeed, GoneNeed}]
     /\ tab \in [Tabs -> TabStates] /\ UnstatedIsUnmet /\ MetSatisfies
     /\ lastWord \in [Needs -> {"writer", "met", "dead"}]
  BY DEF TaskingInv, TaskingTypeOK
<1>. DEFINE Closing(n) == \E t \in Tabs : tab[t].op = "close" /\ tab[t].n = n
\* What a requirement that nobody's verdict is pending on has to keep.
<1>1. ASSUME \A n \in Needs :
               \/ lastWord'[n] # "met"
               \/ /\ lastWord'[n] = lastWord[n]
                  /\ need'[n] # NoNeed \/ need[n] = NoNeed
                  /\ Stated(n)' => Stated(n)
                  /\ Stated(n)' => need'[n].status = need[n].status
                                   \/ need'[n].status = "satisfied"
                  /\ need'[n].status = "satisfied" \/ (Closing(n) => Closing(n)')
      PROVE  UnstatedIsUnmet' /\ MetSatisfies'
  BY <1>1 DEF UnstatedIsUnmet, MetSatisfies
<1>2. CASE UNCHANGED taskingVars
  BY <1>1, <1>2 DEF taskingVars, Stated
<1>3. ASSUME NEW u \in Tabs, NEW q, tab' = [tab EXCEPT ![u] = q], tab[u].op # "close"
      PROVE  \A n \in Needs : Closing(n) => Closing(n)'
  BY <1>3
<1>4. ASSUME NEW n \in Needs, NEW k \in NeedKinds, NEW plan \in BOOLEAN, State(n, k, plan)
      PROVE  UnstatedIsUnmet' /\ MetSatisfies'
  <2>1. lastWord'[n] # "met"
    BY <1>4 DEF State, UnstatedIsUnmet
  <2>2. \A m \in Needs \ {n} : need'[m] = need[m]
    BY <1>4 DEF State
  <2>. QED  BY <1>1, <1>4, <2>1, <2>2 DEF State, Stated
<1>5. ASSUME NEW n \in Needs, NEW s \in Statuses, MoveNeed(n, s)
      PROVE  UnstatedIsUnmet' /\ MetSatisfies'
  <2>1. lastWord'[n] # "met" /\ \A m \in Needs \ {n} : need'[m] = need[m]
                                                       /\ lastWord'[m] = lastWord[m]
    BY <1>5 DEF MoveNeed
  <2>. QED  BY <1>1, <1>5, <2>1 DEF MoveNeed, Stated
<1>6. ASSUME NEW n \in Needs, DeleteNeed(n) PROVE UnstatedIsUnmet' /\ MetSatisfies'
  <2>1. need'[n] = GoneNeed /\ \A m \in Needs \ {n} : need'[m] = need[m]
    BY <1>6 DEF DeleteNeed
  <2>2. ~Stated(n)' /\ need'[n] # NoNeed
    BY <2>1 DEF Stated, NoNeed, GoneNeed
  <2>. QED  BY <1>6, <2>1, <2>2 DEF DeleteNeed, Stated, UnstatedIsUnmet, MetSatisfies
<1>7. ASSUME NEW p \in Products, NEW ns \in SUBSET Needs, SetAddressed(p, ns)
      PROVE  UnstatedIsUnmet' /\ MetSatisfies'
  BY <1>1, <1>7 DEF SetAddressed, Stated
<1>8. ASSUME NEW p \in Products, NEW c \in Customers, Deliver(p, c)
      PROVE  UnstatedIsUnmet' /\ MetSatisfies'
  BY <1>1, <1>8 DEF Deliver, Stated
<1>9. ASSUME NEW t \in Tabs, NEW n \in Needs, BeginEdit(t, n)
      PROVE  UnstatedIsUnmet' /\ MetSatisfies'
  <2>1. \A m \in Needs : Closing(m) => Closing(m)'
    BY <1>9, <1>3 DEF BeginEdit, Shut
  <2>. QED  BY <1>1, <1>9, <2>1 DEF BeginEdit, Stated
<1>10. ASSUME NEW t \in Tabs, NEW k \in NeedKinds, NEW plan \in BOOLEAN, CommitEdit(t, k, plan)
       PROVE  UnstatedIsUnmet' /\ MetSatisfies'
  <2>1. PICK n : n = tab[t].n
    OBVIOUS
  <2>2. n \in Needs
    BY <1>10, <2>1, TabFields DEF CommitEdit
  <2>3. \A m \in Needs : Closing(m) => Closing(m)'
    BY <1>10, <1>3 DEF CommitEdit
  <2>4. CASE Stated(n)
    <3>1. need[n] \in NeedRows
      BY <2>2, <2>4, StatedIsARow
    <3>2. PICK kk, pl : need' = [need EXCEPT ![n].kind = kk, ![n].plan = pl]
      BY <1>10, <2>1, <2>4 DEF CommitEdit
    <3>3. need'[n].status = need[n].status /\ \A m \in Needs \ {n} : need'[m] = need[m]
      BY <2>2, <3>1, <3>2 DEF NeedRows
    <3>4. need'[n] # NoNeed
      BY <3>1, <3>3 DEF NeedRows, NoNeed, Statuses
    <3>5. lastWord' = lastWord
      BY <1>10 DEF CommitEdit
    <3>. QED  BY <1>1, <2>3, <2>4, <3>3, <3>4, <3>5 DEF Stated
  <2>5. CASE ~Stated(n)
    <3>1. need' = need /\ lastWord' = lastWord
      BY <1>10, <2>1, <2>5 DEF CommitEdit
    <3>. QED  BY <1>1, <2>3, <3>1 DEF Stated
  <2>. QED  BY <2>4, <2>5
<1>11. ASSUME NEW t \in Tabs, NEW p \in Products, NEW c \in Customers, NEW n \in Needs,
              NEW met \in BOOLEAN, BeginFeedback(t, p, c, n, met)
       PROVE  UnstatedIsUnmet' /\ MetSatisfies'
  <2>1. \A m \in Needs : Closing(m) => Closing(m)'
    BY <1>11, <1>3 DEF BeginFeedback, Shut
  <2>. QED  BY <1>1, <1>11, <2>1 DEF BeginFeedback, Stated
<1>12. ASSUME NEW t \in Tabs, StoreFeedback(t) PROVE UnstatedIsUnmet' /\ MetSatisfies'
  <2>1. PICK n : n = tab[t].n
    OBVIOUS
  <2>2. n \in Needs /\ tab[t].met \in BOOLEAN
    BY <1>12, <2>1, TabFields DEF StoreFeedback
  <2>3. \A m \in Needs : Closing(m) => Closing(m)'
    <3>1. PICK q : tab' = [tab EXCEPT ![t] = q]
      BY <1>12 DEF StoreFeedback
    <3>. QED  BY <1>12, <1>3, <3>1 DEF StoreFeedback
  <2>4. need' = need
    BY <1>12 DEF StoreFeedback
  <2>5. CASE lastWord' = lastWord
    BY <1>1, <2>3, <2>4, <2>5 DEF Stated
  <2>6. CASE /\ Stated(n) /\ tab[t].met
             /\ tab'[t] = [op |-> "close", n |-> n, was |-> tab[t].was]
             /\ lastWord' = [lastWord EXCEPT ![n] = "met"]
    <3>1. Closing(n)' /\ need'[n] # NoNeed
      BY <2>4, <2>6 DEF Stated
    <3>2. \A m \in Needs \ {n} : lastWord'[m] = lastWord[m]
      BY <2>2, <2>6
    <3>. QED  BY <2>3, <2>4, <3>1, <3>2 DEF UnstatedIsUnmet, MetSatisfies, Stated
  <2>7. CASE tab[t].met /\ lastWord' # lastWord
    BY <1>12, <2>1, <2>6, <2>7 DEF StoreFeedback
  <2>8. CASE ~tab[t].met
    <3>1. lastWord' = lastWord
      BY <1>12, <2>2, <2>8 DEF StoreFeedback
    <3>. QED  BY <2>5, <3>1
  <2>. QED  BY <2>5, <2>7, <2>8
<1>13. ASSUME NEW t \in Tabs, CloseLoop(t) PROVE UnstatedIsUnmet' /\ MetSatisfies'
  <2>1. PICK n : n = tab[t].n
    OBVIOUS
  <2>2. n \in Needs
    BY <1>13, <2>1, TabFields DEF CloseLoop
  <2>3. \A m \in Needs \ {n} : Closing(m) => Closing(m)'
    BY <1>13, <2>1 DEF CloseLoop
  <2>4. \A m \in Needs \ {n} : need'[m] = need[m]
    BY <1>13, <2>1, <2>2 DEF CloseLoop
  <2>5. lastWord' = lastWord
    BY <1>13 DEF CloseLoop
  <2>6. CASE ~Stated(n)
    <3>1. need' = need
      BY <1>13, <2>1, <2>6 DEF CloseLoop
    <3>. QED  BY <2>3, <2>5, <2>6, <3>1 DEF UnstatedIsUnmet, MetSatisfies, Stated
  <2>7. CASE Stated(n)
    <3>1. need[n] \in NeedRows
      BY <2>2, <2>7, StatedIsARow
    <3>2. need'[n].status = "satisfied"
      BY <1>13, <2>1, <2>2, <2>7, <3>1 DEF CloseLoop, NeedsClosing, NeedRows
    <3>3. need'[n] # NoNeed
      BY <3>2 DEF NoNeed
    <3>. QED  BY <1>1, <2>3, <2>4, <2>5, <2>7, <3>2, <3>3 DEF Stated
  <2>. QED  BY <2>6, <2>7
<1>14. ASSUME NEW t \in Tabs, CloseTab(t) PROVE UnstatedIsUnmet' /\ MetSatisfies'
  <2>1. PICK n : n = tab[t].n
    OBVIOUS
  <2>2. need' = need
    BY <1>14 DEF CloseTab
  <2>3. CASE tab[t].op # "close"
    <3>1. \A m \in Needs : Closing(m) => Closing(m)'
      BY <1>14, <1>3, <2>3 DEF CloseTab
    <3>. QED  BY <1>1, <1>14, <2>2, <2>3, <3>1 DEF CloseTab, Stated
  <2>4. CASE tab[t].op = "close"
    <3>1. lastWord'[n] = "dead" /\ \A m \in Needs \ {n} : lastWord'[m] = lastWord[m]
      BY <1>14, <2>1, <2>4, TabFields DEF CloseTab
    <3>2. \A m \in Needs \ {n} : Closing(m) => Closing(m)'
      BY <1>14, <2>1 DEF CloseTab
    <3>. QED  BY <1>1, <2>2, <3>1, <3>2 DEF Stated
  <2>. QED  BY <2>3, <2>4
<1>. QED
  BY <1>2, <1>4, <1>5, <1>6, <1>7, <1>8, <1>9, <1>10, <1>11, <1>12, <1>13, <1>14 DEF TaskingNext

LEMMA TaskingStep == TaskingInv /\ [TaskingNext]_taskingVars => TaskingInv'
  BY TaskingTypeStep, EntitledStep, OwnStep, MetStep DEF TaskingInv

\* Links and verdicts refer to requirements that exist, of the stakeholder who
\* was sent the report, in the same world (services/feedback.py, requirements.py).
THEOREM VerdictsSpeakForTheirOwner == TaskingSpec => []VerdictsAreOwn
<1>1. TaskingInv => VerdictsAreOwn
  BY DEF TaskingInv
<1>. QED  BY TaskingInitInv, TaskingStep, <1>1, PTL DEF TaskingSpec

\* A requirement its stakeholder called met is satisfied, or about to be, until
\* somebody else has a word on it (services/feedback.submit_feedback).
THEOREM MetIsSatisfied == TaskingSpec => []MetSatisfies
<1>1. TaskingInv => MetSatisfies
  BY DEF TaskingInv
<1>. QED  BY TaskingInitInv, TaskingStep, <1>1, PTL DEF TaskingSpec

-----------------------------------------------------------------------------
(***************************************************************************)
(* The inductive invariant: a merge request loaded a term that was not     *)
(* merged and a target that was active, a merged term that no late merge   *)
(* touched is retired, and its target is a row.                            *)
(***************************************************************************)
LiveRows == [row : {TRUE}, label : Names, aliases : SUBSET Names,
             active : BOOLEAN, into : Tags \cup {None}]

Curations ==
    [op : {"idle"}] \cup [op : {"undo"}, t : Tags, drop : Names]
    \cup [op : {"merge"}, s : Tags, t : Tags, src : TagRows, dst : TagRows,
          selected : BOOLEAN, owners : SUBSET Owners, fresh : SUBSET Owners]
    \cup [op : {"delete"}, t : Tags]
    \cup [op : {"link"}, o : Owners, ts : SUBSET Tags]

MergeWork ==
    [op : {"merge"}, s : Tags, t : Tags, src : TagRows, dst : TagRows,
     selected : BOOLEAN, owners : SUBSET Owners, fresh : SUBSET Owners]

MergesAreOfTerms ==
    \A c \in Curators : curator[c].op = "merge" =>
        /\ curator[c].s # curator[c].t
        /\ curator[c].src \in LiveRows /\ curator[c].src.into = None
        /\ curator[c].dst \in LiveRows /\ curator[c].dst.active = TRUE

MergedTermsRetire ==
    \A t \in Tags : Merged(t) =>
        /\ tag[t].into \in Tags /\ Exists(tag[t].into)
        /\ t \notin crossed => tag[t].active = FALSE

TaxInv ==
    /\ TaxTypeOK
    /\ MergesAreOfTerms
    /\ MergedTermsRetire
    /\ LineageEndsInATerm

LEMMA RowsOfTerms ==
  ASSUME NEW r \in TagRows, r.row
  PROVE  r \in LiveRows
<1>1. r # NoTag
  BY DEF NoTag
<1>2. QED
  BY <1>1 DEF TagRows, LiveRows

LEMMA NewRow ==
  ASSUME NEW l \in Names, NEW as, as \subseteq Names
  PROVE  Row(l, as) \in LiveRows /\ Row(l, as).into = None /\ Row(l, as).row
BY DEF Row, LiveRows

LEMMA LiveRowsAreRows == LiveRows \subseteq TagRows /\ NoTag \in TagRows
BY DEF TagRows, LiveRows

LEMMA CuratorShapes ==
  ASSUME TaxTypeOK, NEW c \in Curators
  PROVE  /\ curator[c].op = "undo" => curator[c].t \in Tags /\ curator[c].drop \in Names
         /\ curator[c].op = "merge" => /\ curator[c].s \in Tags /\ curator[c].t \in Tags
                                       /\ curator[c].src \in TagRows
                                       /\ curator[c].dst \in TagRows
                                       /\ curator[c].owners \subseteq Owners
                                       /\ curator[c].fresh \subseteq Owners
                                       /\ curator[c] \in MergeWork
         /\ curator[c].op = "delete" => curator[c].t \in Tags
         /\ curator[c].op = "link" => /\ curator[c].o \in Owners
                                      /\ curator[c].ts \subseteq Tags
BY SMT DEF TaxTypeOK, MergeWork

LEMMA TaxInitInv == TaxInit => TaxInv
<1> SUFFICES ASSUME TaxInit PROVE TaxInv
  OBVIOUS
<1>1. TaxTypeOK
  BY TaxonomyAssumption, LiveRowsAreRows DEF TaxInit, TaxTypeOK, TaxonomyAssumption, AtRest
<1>2. MergesAreOfTerms
  BY DEF TaxInit, MergesAreOfTerms, AtRest
<1>3. \A t \in Tags : ~Merged(t)
  BY DEF TaxInit, Merged, Exists, NoTag
<1>4. QED
  BY <1>1, <1>2, <1>3
     DEF TaxInv, MergedTermsRetire, LineageEndsInATerm, TaxInit

(***************************************************************************)
(* What is merged stays as it is, but for the two commits that merge and   *)
(* delete.                                                                 *)
(***************************************************************************)
LineageKept ==
    \A t \in Tags : tag'[t].row /\ tag'[t].into # None =>
        /\ Merged(t) /\ tag'[t].into = tag[t].into
        /\ tag[tag[t].into].row => tag'[tag[t].into].row
        /\ t \notin crossed' => t \notin crossed /\ tag'[t].active = tag[t].active

LEMMA KeptLineageEnds ==
  ASSUME TaxInv, LineageKept
  PROVE  MergedTermsRetire' /\ LineageEndsInATerm'
<1>1. MergedTermsRetire'
  BY DEF TaxInv, MergedTermsRetire, LineageKept, Merged, Exists
<1>2. LineageEndsInATerm'
  <2> SUFFICES ASSUME NEW ts \in SUBSET {t \in Tags : Merged(t)' /\ t \notin crossed'}, ts # {}
               PROVE  \E t \in ts : tag'[t].into \notin ts /\ tag'[tag'[t].into].row
    BY DEF LineageEndsInATerm, Exists
  <2>1. ts \in SUBSET {t \in Tags : Merged(t) /\ t \notin crossed}
    BY DEF LineageKept, Merged, Exists
  <2>2. PICK t \in ts : tag[t].into \notin ts /\ Exists(tag[t].into)
    BY <2>1 DEF TaxInv, LineageEndsInATerm
  <2>3. QED
    BY <2>2 DEF LineageKept, Merged, Exists
<1>3. QED
  BY <1>1, <1>2
(***************************************************************************)
(* Changes to one row that keep its lineage.                               *)
(***************************************************************************)
LEMMA CountedEdits ==
  ASSUME TaxTypeOK, edits' = edits \/ Counted
  PROVE  edits' \in 0..MaxEdits
BY TaxonomyAssumption DEF TaxTypeOK, Counted, TaxonomyAssumption

\* A step that changes the label, aliases or flag of rows, and no lineage.
LEMMA RowStep ==
  ASSUME TaxInv,
         NEW t \in Tags, NEW r \in LiveRows,
         tag' = [tag EXCEPT ![t] = r],
         \/ Exists(t) /\ r.into = tag[t].into /\ (tag[t].into # None => r.active = tag[t].active
                                                    \/ r.active = FALSE)
         \/ ~Exists(t) /\ r.into = None,
         UNCHANGED <<links, crossed>>,
         renamed' \subseteq Tags \X Names,
         edits' = edits \/ Counted,
         curator' \in [Curators -> Curations], MergesAreOfTerms'
  PROVE  TaxInv'
<1>1. tag \in [Tags -> TagRows] /\ TaxTypeOK
  BY DEF TaxInv, TaxTypeOK
<1>2. tag'[t] = r /\ \A o \in Tags \ {t} : tag'[o] = tag[o]
  BY <1>1
<1>3. r.row = TRUE /\ r.active \in BOOLEAN
  BY DEF LiveRows
<1>4. TaxTypeOK'
  <2>1. tag' \in [Tags -> TagRows]
    BY <1>1, LiveRowsAreRows
  <2>2. QED
    BY <1>1, <2>1, CountedEdits DEF TaxTypeOK, TaxInv, Curations
<1>5. \A o \in Tags : tag'[o].row /\ tag'[o].into # None =>
        Merged(o) /\ tag'[o].into = tag[o].into
  BY <1>2, <1>3 DEF Merged, Exists
<1>6. LineageKept
  <2> SUFFICES ASSUME NEW o \in Tags, tag'[o].row, tag'[o].into # None
               PROVE  /\ Merged(o) /\ tag'[o].into = tag[o].into
                      /\ tag[tag[o].into].row => tag'[tag[o].into].row
                      /\ o \notin crossed' => o \notin crossed /\ tag'[o].active = tag[o].active
    BY DEF LineageKept
  <2>1. Merged(o) /\ tag'[o].into = tag[o].into
    BY <1>5
  <2>2. tag[o].into \in Tags /\ (o \notin crossed => tag[o].active = FALSE)
    BY <2>1 DEF TaxInv, MergedTermsRetire
  <2>3. tag[tag[o].into].row => tag'[tag[o].into].row
    BY <1>2, <1>3, <2>2
  <2>4. o \notin crossed' => o \notin crossed /\ tag'[o].active = tag[o].active
    BY <1>2, <2>1, <2>2 DEF Merged, Exists
  <2>5. QED
    BY <2>1, <2>3, <2>4
<1>7. QED
  BY <1>1, <1>4, <1>6, KeptLineageEnds DEF TaxInv

\* A request that only moves itself.
LEMMA CuratorStep ==
  ASSUME TaxInv,
         UNCHANGED <<tag, links, crossed, renamed, edits>>,
         NEW c \in Curators, NEW w,
         curator' = [curator EXCEPT ![c] = w],
         \/ w = AtRest
         \/ w \in [op : {"delete"}, t : Tags]
         \/ w \in [op : {"link"}, o : Owners, ts : SUBSET Tags]
         \/ /\ w \in MergeWork
            /\ w.s # w.t /\ w.src \in LiveRows /\ w.src.into = None
            /\ w.dst \in LiveRows /\ w.dst.active = TRUE
  PROVE  TaxInv'
<1>1. TaxTypeOK'
  BY DEF TaxInv, TaxTypeOK, AtRest, MergeWork
<1>2. MergesAreOfTerms'
  <2> SUFFICES ASSUME NEW d \in Curators, curator'[d].op = "merge"
               PROVE  /\ curator'[d].s # curator'[d].t
                      /\ curator'[d].src \in LiveRows /\ curator'[d].src.into = None
                      /\ curator'[d].dst \in LiveRows /\ curator'[d].dst.active = TRUE
    BY DEF MergesAreOfTerms
  <2>1. curator \in [Curators -> Curations]
    BY DEF TaxInv, TaxTypeOK, Curations
  <2>2. CASE d # c
    BY <2>1, <2>2 DEF TaxInv, MergesAreOfTerms
  <2>3. CASE d = c
    <3>1. curator'[d] = w
      BY <2>1, <2>3
    <3>2. QED
      BY <3>1 DEF AtRest
  <2>4. QED
    BY <2>2, <2>3
<1>3. QED
  BY <1>1, <1>2 DEF TaxInv, MergedTermsRetire, LineageEndsInATerm,
                    Merged, Exists

LEMMA TermAt ==
  ASSUME TaxInv, NEW t \in Tags, Exists(t)
  PROVE  tag[t] \in LiveRows
<1>1. tag[t] \in TagRows
  BY DEF TaxInv, TaxTypeOK
<1>2. QED
  BY <1>1, RowsOfTerms DEF Exists

LEMMA EditedRow ==
  ASSUME NEW r \in LiveRows, NEW l \in Names, NEW as, as \subseteq Names
  PROVE  LET e == [r EXCEPT !.label = l, !.aliases = as]
         IN  e \in LiveRows /\ e.into = r.into /\ e.active = r.active
BY DEF LiveRows

LEMMA IdleCurator ==
  ASSUME TaxInv, UNCHANGED curator
  PROVE  curator' \in [Curators -> Curations] /\ MergesAreOfTerms'
BY DEF TaxInv, TaxTypeOK, Curations, MergesAreOfTerms

\* Creation, edits, retirement and renames.
LEMMA EditSteps ==
  ASSUME TaxInv, NEW t \in Tags, NEW l \in Names
  PROVE  /\ \A as \in AliasLists : CreateTag(t, l, as) \/ UpdateTag(t, l, as) => TaxInv'
         /\ SeedTag(t, l) \/ RenameTag(t, l) => TaxInv'
<1>0. tag \in [Tags -> TagRows] /\ renamed \subseteq Tags \X Names
  BY DEF TaxInv, TaxTypeOK
<1>1. ASSUME NEW as, as \subseteq Names, Insert(t, l, as), Counted,
             UNCHANGED <<links, curator, crossed, renamed>>
      PROVE  TaxInv'
  <2>1. PICK r \in LiveRows : r = Row(l, as) /\ r.into = None
    BY <1>1, NewRow
  <2>2. tag' = [tag EXCEPT ![t] = r] /\ ~Exists(t)
    BY <1>1, <2>1 DEF Insert
  <2>3. QED
    BY <1>0, <1>1, <2>1, <2>2, IdleCurator, RowStep
<1>2. ASSUME Exists(t), NEW n \in Names, NEW as, as \subseteq Names,
             tag' = [tag EXCEPT ![t].label = n, ![t].aliases = as],
             edits' = edits \/ Counted, UNCHANGED <<links, curator, crossed>>,
             renamed' \subseteq Tags \X Names
      PROVE  TaxInv'
  <2>1. PICK e : e = [tag[t] EXCEPT !.label = n, !.aliases = as]
    OBVIOUS
  <2>0. e \in LiveRows /\ e.into = tag[t].into /\ e.active = tag[t].active
    <3>1. tag[t] \in LiveRows
      BY <1>2, TermAt
    <3>2. QED
      BY <1>2, <2>1, <3>1, EditedRow DEF LiveRows
  <2>2. tag' = [tag EXCEPT ![t] = e]
    BY <1>0, <1>2, <2>1
  <2>3. QED
    BY <1>2, <2>0, <2>2, IdleCurator, RowStep
<1>3. ASSUME NEW as \in AliasLists, CreateTag(t, l, as) PROVE TaxInv'
  BY <1>1, <1>3, TaxonomyAssumption DEF CreateTag, TaxonomyAssumption
<1>4. ASSUME SeedTag(t, l) PROVE TaxInv'
  BY <1>1, <1>4 DEF SeedTag
<1>5. ASSUME NEW as \in AliasLists, UpdateTag(t, l, as) PROVE TaxInv'
  <2>1. as \ {l} \subseteq Names
    BY TaxonomyAssumption DEF TaxonomyAssumption
  <2>2. QED
    BY <1>0, <1>2, <1>5, <2>1 DEF UpdateTag
<1>6. ASSUME RenameTag(t, l) PROVE TaxInv'
  <2>1. Exists(t)
    BY <1>6 DEF RenameTag, RenameAllowed
  <2>2. tag[t].label \in Names /\ tag[t].aliases \subseteq Names
    BY <2>1, TermAt DEF LiveRows
  <2>3. (tag[t].aliases \cup {tag[t].label}) \ {l} \subseteq Names
    BY <2>2
  <2>4. tag' = [tag EXCEPT ![t].label = l,
                           ![t].aliases = (tag[t].aliases \cup {tag[t].label}) \ {l}]
    BY <1>0, <1>6 DEF RenameTag, Renamed
  <2>5. renamed' \subseteq Tags \X Names
    BY <1>0, <1>6, <2>2 DEF RenameTag
  <2>6. QED
    BY <1>2, <1>6, <2>1, <2>3, <2>4, <2>5 DEF RenameTag
<1>7. QED
  BY <1>3, <1>4, <1>5, <1>6

LEMMA FlagSteps ==
  ASSUME TaxInv, NEW t \in Tags
  PROVE  /\ ReseedTag(t) => TaxInv'
         /\ \A on \in BOOLEAN : SetActive(t, on) => TaxInv'
<1>0. tag \in [Tags -> TagRows] /\ renamed \subseteq Tags \X Names
  BY DEF TaxInv, TaxTypeOK
<1>1. ASSUME ReseedTag(t) PROVE TaxInv'
  <2>1. tag[t] \in LiveRows
    BY <1>1, TermAt DEF ReseedTag
  <2>2. PICK e : e = [tag[t] EXCEPT !.aliases = {}]
    OBVIOUS
  <2>0. e \in LiveRows /\ e.into = tag[t].into /\ e.active = tag[t].active
    BY <2>1, <2>2 DEF LiveRows
  <2>3. tag' = [tag EXCEPT ![t] = e] /\ Exists(t)
    BY <1>0, <1>1, <2>2 DEF ReseedTag
  <2>4. QED
    BY <1>0, <1>1, <2>0, <2>3, IdleCurator, RowStep DEF ReseedTag
<1>2. ASSUME NEW on \in BOOLEAN, SetActive(t, on) PROVE TaxInv'
  <2>1. tag[t] \in LiveRows
    BY <1>2, TermAt DEF SetActive
  <2>2. PICK e : e = [tag[t] EXCEPT !.active = on]
    OBVIOUS
  <2>0. e \in LiveRows /\ e.into = tag[t].into /\ e.active = on
    BY <2>1, <2>2 DEF LiveRows
  <2>3. tag' = [tag EXCEPT ![t] = e] /\ Exists(t)
    BY <1>0, <1>2, <2>2 DEF SetActive
  <2>4. tag[t].into # None => e.active = FALSE
    BY <1>2, <2>0 DEF SetActive, Merged
  <2>5. QED
    BY <1>0, <1>2, <2>0, <2>3, <2>4, IdleCurator, RowStep DEF SetActive
<1>3. QED
  BY <1>1, <1>2

\* The two commits of an undone rename.
LEMMA UndoSteps ==
  ASSUME TaxInv, NEW c \in Curators
  PROVE  /\ \A t \in Tags, l \in Names : UndoRename(c, t, l) => TaxInv'
         /\ DropAlias(c) => TaxInv'
<1>0. /\ tag \in [Tags -> TagRows] /\ renamed \subseteq Tags \X Names
      /\ curator \in [Curators -> Curations]
  BY DEF TaxInv, TaxTypeOK, Curations
<1>1. ASSUME NEW w \in Curations, w.op # "merge", curator' = [curator EXCEPT ![c] = w]
      PROVE  curator' \in [Curators -> Curations] /\ MergesAreOfTerms'
  BY <1>0, <1>1 DEF TaxInv, MergesAreOfTerms
<1>2. ASSUME NEW t \in Tags, NEW l \in Names, UndoRename(c, t, l) PROVE TaxInv'
  <2>1. tag[t] \in LiveRows /\ Exists(t)
    BY <1>2, TermAt DEF UndoRename, RenameAllowed
  <2>2. tag[t].label \in Names /\ tag[t].aliases \subseteq Names
    BY <2>1 DEF LiveRows
  <2>3. PICK as : as = (tag[t].aliases \cup {tag[t].label}) \ {l}
    OBVIOUS
  <2>4. PICK e : e = [tag[t] EXCEPT !.label = l, !.aliases = as]
    OBVIOUS
  <2>0. e \in LiveRows /\ e.into = tag[t].into /\ e.active = tag[t].active
    <3>1. as \subseteq Names
      BY <2>2, <2>3
    <3>2. QED
      BY <2>1, <2>4, <3>1, EditedRow
  <2>5. tag' = [tag EXCEPT ![t] = e]
    BY <1>0, <1>2, <2>3, <2>4 DEF UndoRename, Renamed
  <2>6. renamed' \subseteq Tags \X Names
    BY <1>0, <1>2 DEF UndoRename
  <2>7. PICK w \in Curations : w = [op |-> "undo", t |-> t, drop |-> tag[t].label]
    BY <2>2 DEF Curations
  <2>8. curator' = [curator EXCEPT ![c] = w] /\ w.op # "merge"
    BY <1>2, <2>7 DEF UndoRename
  <2>9. QED
    BY <1>1, <1>2, <2>1, <2>0, <2>5, <2>6, <2>8, RowStep DEF UndoRename
<1>3. ASSUME DropAlias(c) PROVE TaxInv'
  <2>1. PICK t \in Tags : t = curator[c].t /\ Exists(t) /\ tag[t] \in LiveRows
    BY <1>3, CuratorShapes, TermAt DEF DropAlias, TaxInv
  <2>2. PICK e : e = [tag[t] EXCEPT !.aliases = tag[t].aliases \ {curator[c].drop}]
    OBVIOUS
  <2>0. e \in LiveRows /\ e.into = tag[t].into /\ e.active = tag[t].active
    BY <2>1, <2>2 DEF LiveRows
  <2>3. tag' = [tag EXCEPT ![t] = e]
    BY <1>0, <1>3, <2>1, <2>2 DEF DropAlias
  <2>4. AtRest \in Curations /\ AtRest.op # "merge"
    BY DEF Curations, AtRest
  <2>5. QED
    BY <1>0, <1>1, <1>3, <2>1, <2>0, <2>3, <2>4, RowStep DEF DropAlias
<1>4. QED
  BY <1>2, <1>3
(***************************************************************************)
(* The commit of a merge                                                   *)
(***************************************************************************)
LEMMA CommitMergeStep ==
  ASSUME TaxInv, NEW c \in Curators, CommitMerge(c)
  PROVE  TaxInv'
<1>0. /\ tag \in [Tags -> TagRows] /\ links \subseteq Owners \X Tags /\ crossed \subseteq Tags
      /\ curator \in [Curators -> Curations]
  BY DEF TaxInv, TaxTypeOK, Curations
<1>1. PICK m : m = curator[c]
  OBVIOUS
<1>2. PICK s \in Tags, t \in Tags : /\ s = m.s /\ t = m.t /\ s # t
                                    /\ m.src \in LiveRows /\ m.src.into = None
                                    /\ m.dst \in LiveRows /\ m.dst.active = TRUE
  BY <1>1, CuratorShapes DEF CommitMerge, TaxInv, MergesAreOfTerms
<1>3. Exists(s) /\ Exists(t) /\ tag[s] \in LiveRows /\ tag[t] \in LiveRows
  BY <1>1, <1>2, TermAt DEF CommitMerge
<1>4. PICK names : names = (m.dst.aliases \cup {m.src.label} \cup m.src.aliases) \ {m.dst.label}
  OBVIOUS
<1>5. PICK on : on = Write(m.src.active, FALSE, tag[s].active)
  OBVIOUS
<1>6. PICK as : as = Write(m.dst.aliases, names, tag[t].aliases)
  OBVIOUS
<1>7. on \in BOOLEAN /\ as \subseteq Names
  BY <1>2, <1>3, <1>4, <1>5, <1>6 DEF Write, LiveRows
<1>8. PICK e : e = [tag[s] EXCEPT !.active = on, !.into = t]
  OBVIOUS
<1>9. PICK f : f = [tag[t] EXCEPT !.aliases = as]
  OBVIOUS
<1>10. e \in LiveRows /\ e.row /\ e.active = on /\ e.into = t
  BY <1>3, <1>7, <1>8 DEF LiveRows
<1>11. f \in LiveRows /\ f.row /\ f.active = tag[t].active /\ f.into = tag[t].into
  BY <1>3, <1>7, <1>9 DEF LiveRows
<1>12. tag' = [tag EXCEPT ![s] = e, ![t] = f]
  <2>1. tag' = [tag EXCEPT ![m.s].active = Write(m.src.active, FALSE, @),
                           ![m.s].into = m.t,
                           ![m.t].aliases = Write(m.dst.aliases, names, @)]
    BY <1>1, <1>4 DEF CommitMerge
  <2>2. QED
    BY <1>0, <1>2, <1>5, <1>6, <1>8, <1>9, <2>1
<1>13. /\ tag'[s] = e /\ tag'[t] = f /\ \A o \in Tags \ {s, t} : tag'[o] = tag[o]
       /\ tag' \in [Tags -> TagRows]
  BY <1>0, <1>2, <1>10, <1>11, <1>12, LiveRowsAreRows
<1>14. links' = (links \ (m.owners \X {s})) \cup (m.fresh \X {t}) /\ m.fresh \subseteq Owners
  BY <1>1, <1>2, CuratorShapes DEF CommitMerge, TaxInv
<1>15. crossed' = IF \/ tag[s].into # m.src.into \/ tag[s].active # m.src.active
                     \/ tag[t].active # m.dst.active
                  THEN crossed \cup {s, t} ELSE crossed
  BY <1>1, <1>2 DEF CommitMerge
<1>16. crossed \subseteq crossed' /\ crossed' \subseteq Tags
  BY <1>0, <1>15
<1>. DEFINE Late == s \in crossed' /\ t \in crossed'
            Timely == crossed' = crossed /\ on = FALSE /\ (~Merged(t) \/ t \in crossed)
<1>17. Late \/ Timely
  <2>1. CASE Late
    BY <2>1
  <2>2. CASE ~Late
    <3>1. /\ crossed' = crossed /\ tag[s].into = None /\ tag[t].active = TRUE
          /\ tag[s].active = m.src.active
      BY <1>2, <1>15, <2>2
    <3>2. on = FALSE
      BY <1>2, <1>3, <1>5, <3>1 DEF Write, LiveRows
    <3>3. ~Merged(t) \/ t \in crossed
      BY <3>1 DEF TaxInv, MergedTermsRetire
    <3>4. QED
      BY <3>1, <3>2, <3>3
  <2>3. QED
    BY <2>1, <2>2
<1>18. TaxTypeOK'
  <2>1. links' \subseteq Owners \X Tags
    BY <1>0, <1>2, <1>14
  <2>2. curator' \in [Curators -> Curations]
    BY <1>0 DEF CommitMerge, Curations, AtRest
  <2>3. edits' \in 0..MaxEdits
    BY CountedEdits DEF CommitMerge, TaxInv
  <2>4. QED
    BY <1>13, <1>16, <2>1, <2>2, <2>3 DEF TaxTypeOK, TaxInv, CommitMerge, Curations
<1>19. MergesAreOfTerms'
  BY <1>0 DEF TaxInv, MergesAreOfTerms, CommitMerge, AtRest
<1>20. MergedTermsRetire'
  <2> SUFFICES ASSUME NEW o \in Tags, tag'[o].row, tag'[o].into # None
               PROVE  /\ tag'[o].into \in Tags /\ tag'[tag'[o].into].row
                      /\ o \notin crossed' => tag'[o].active = FALSE
    BY DEF MergedTermsRetire, Merged, Exists
  <2>1. \A x \in Tags : tag[x].row => tag'[x].row
    BY <1>10, <1>11, <1>13
  <2>2. CASE o = s
    BY <1>2, <1>3, <1>10, <1>13, <1>17, <2>1, <2>2 DEF Exists
  <2>3. CASE o # s
    <3>1. Merged(o) /\ tag'[o].into = tag[o].into /\ tag'[o].active = tag[o].active
      BY <1>3, <1>11, <1>13, <2>3 DEF Merged, Exists
    <3>2. QED
      BY <1>16, <2>1, <3>1 DEF TaxInv, MergedTermsRetire, Exists
  <2>4. QED
    BY <2>2, <2>3
<1>21. LineageEndsInATerm'
  <2> SUFFICES ASSUME NEW ts \in SUBSET {o \in Tags : Merged(o)' /\ o \notin crossed'}, ts # {}
               PROVE  \E o \in ts : tag'[o].into \notin ts /\ tag'[tag'[o].into].row
    BY DEF LineageEndsInATerm, Exists
  <2>1. CASE s \in ts
    <3>1. t \notin ts
      <4>1. Timely
        BY <1>17, <2>1
      <4>2. CASE t \in crossed
        BY <4>1, <4>2
      <4>3. CASE ~Merged(t)
        BY <1>3, <1>11, <1>13, <4>3 DEF Merged, Exists
      <4>4. QED
        BY <4>1, <4>2, <4>3
    <3>2. QED
      BY <1>10, <1>11, <1>13, <2>1, <3>1
  <2>2. CASE s \notin ts
    <3>1. \A o \in ts : Merged(o) /\ tag'[o].into = tag[o].into
      BY <1>3, <1>11, <1>13, <2>2 DEF Merged, Exists
    <3>2. ts \in SUBSET {o \in Tags : Merged(o) /\ o \notin crossed}
      BY <1>16, <3>1
    <3>3. PICK o \in ts : tag[o].into \notin ts /\ Exists(tag[o].into)
      BY <3>2 DEF TaxInv, LineageEndsInATerm
    <3>4. tag[o].into \in Tags
      BY <3>1 DEF TaxInv, MergedTermsRetire
    <3>5. QED
      BY <1>10, <1>11, <1>13, <3>1, <3>3, <3>4 DEF Exists
  <2>3. QED
    BY <2>1, <2>2
<1>22. QED
  BY <1>18, <1>19, <1>20, <1>21 DEF TaxInv

(***************************************************************************)
(* The other commits and the requests' checks                              *)
(***************************************************************************)
LEMMA CommitDeleteStep ==
  ASSUME TaxInv, NEW c \in Curators, CommitDelete(c)
  PROVE  TaxInv'
<1>0. /\ tag \in [Tags -> TagRows] /\ links \subseteq Owners \X Tags /\ crossed \subseteq Tags
      /\ renamed \subseteq Tags \X Names /\ curator \in [Curators -> Curations]
  BY DEF TaxInv, TaxTypeOK, Curations
<1>1. PICK t \in Tags : t = curator[c].t /\ Exists(t)
  BY CuratorShapes DEF CommitDelete, TaxInv
<1>2. /\ tag' = [o \in Tags |->
                   IF o = t THEN NoTag
                   ELSE IF Merged(o) /\ tag[o].into = t
                        THEN [tag[o] EXCEPT !.into = None] ELSE tag[o]]
      /\ links' = {k \in links : k[2] # t} /\ crossed' = crossed \ {t}
      /\ renamed' = {n \in renamed : n[1] # t}
      /\ curator' = [curator EXCEPT ![c] = AtRest]
  BY <1>1 DEF CommitDelete
<1>3. \A o \in Tags : Merged(o) => [tag[o] EXCEPT !.into = None] \in LiveRows
  BY TermAt DEF Merged, LiveRows
<1>4. tag' \in [Tags -> TagRows]
  <2> SUFFICES ASSUME NEW o \in Tags PROVE tag'[o] \in TagRows
    BY <1>2
  <2>1. CASE o = t
    BY <1>2, <2>1, LiveRowsAreRows
  <2>2. CASE o # t /\ Merged(o) /\ tag[o].into = t
    BY <1>2, <1>3, <2>2, LiveRowsAreRows
  <2>3. CASE o # t /\ ~(Merged(o) /\ tag[o].into = t)
    BY <1>0, <1>2, <2>3
  <2>4. QED
    BY <2>1, <2>2, <2>3
<1>5. TaxTypeOK'
  <2>1. curator' \in [Curators -> Curations]
    BY <1>0, <1>2 DEF Curations, AtRest
  <2>2. edits' \in 0..MaxEdits
    BY CountedEdits DEF CommitDelete, TaxInv
  <2>3. links' \subseteq Owners \X Tags /\ crossed' \subseteq Tags /\ renamed' \subseteq Tags \X Names
    BY <1>0, <1>2
  <2>4. QED
    BY <1>4, <2>1, <2>2, <2>3 DEF TaxTypeOK, Curations
<1>6. MergesAreOfTerms'
  BY <1>0, <1>2 DEF TaxInv, MergesAreOfTerms, AtRest
<1>7. \A o \in Tags : tag'[o].row /\ tag'[o].into # None =>
        o # t /\ Merged(o) /\ tag'[o] = tag[o] /\ tag[o].into # t
  <2> SUFFICES ASSUME NEW o \in Tags, tag'[o].row, tag'[o].into # None
               PROVE  o # t /\ Merged(o) /\ tag'[o] = tag[o] /\ tag[o].into # t
    OBVIOUS
  <2>1. o # t
    BY <1>2 DEF NoTag
  <2>2. ~(Merged(o) /\ tag[o].into = t)
    <3>1. SUFFICES ASSUME Merged(o), tag[o].into = t PROVE FALSE
      OBVIOUS
    <3>2. tag'[o] = [tag[o] EXCEPT !.into = None]
      BY <1>2, <2>1, <3>1
    <3>3. tag[o] \in LiveRows
      BY <3>1, TermAt DEF Merged
    <3>4. QED
      BY <3>2, <3>3 DEF LiveRows
  <2>3. tag'[o] = tag[o]
    BY <1>2, <2>1, <2>2
  <2>4. QED
    BY <2>1, <2>2, <2>3 DEF Merged, Exists
<1>8. \A o \in Tags \ {t} : tag[o].row => tag'[o].row
  <2> SUFFICES ASSUME NEW o \in Tags \ {t}, tag[o].row PROVE tag'[o].row
    OBVIOUS
  <2>1. tag[o] \in LiveRows
    BY TermAt DEF Exists
  <2>2. CASE Merged(o) /\ tag[o].into = t
    BY <1>2, <2>1, <2>2 DEF LiveRows
  <2>3. CASE ~(Merged(o) /\ tag[o].into = t)
    BY <1>2, <2>3
  <2>4. QED
    BY <2>2, <2>3
<1>9. LineageKept
  BY <1>2, <1>7, <1>8 DEF LineageKept, TaxInv, MergedTermsRetire
<1>10. QED
  BY <1>5, <1>6, <1>9, KeptLineageEnds DEF TaxInv

LEMMA CommitLinkStep ==
  ASSUME TaxInv, NEW c \in Curators, CommitLink(c)
  PROVE  TaxInv'
<1>0. /\ links \subseteq Owners \X Tags /\ crossed \subseteq Tags
      /\ curator \in [Curators -> Curations]
  BY DEF TaxInv, TaxTypeOK, Curations
<1>1. PICK o \in Owners, ts \in SUBSET Tags : o = curator[c].o /\ ts = curator[c].ts
  BY CuratorShapes DEF CommitLink, TaxInv
<1>2. /\ links' = {j \in links : j[1] # o} \cup ({o} \X ts)
      /\ crossed' = crossed \cup {t \in ts : Merged(t)}
      /\ curator' = [curator EXCEPT ![c] = AtRest] /\ UNCHANGED <<tag, renamed>>
  BY <1>1 DEF CommitLink
<1>3. TaxTypeOK'
  <2>1. curator' \in [Curators -> Curations]
    BY <1>0, <1>2 DEF Curations, AtRest
  <2>2. edits' \in 0..MaxEdits
    BY CountedEdits DEF CommitLink, TaxInv
  <2>3. links' \subseteq Owners \X Tags /\ crossed' \subseteq Tags
    BY <1>0, <1>1, <1>2
  <2>4. QED
    BY <1>2, <2>1, <2>2, <2>3 DEF TaxTypeOK, TaxInv, Curations
<1>4. MergesAreOfTerms'
  BY <1>0, <1>2 DEF TaxInv, MergesAreOfTerms, AtRest
<1>5. LineageKept
  BY <1>2 DEF LineageKept, Merged, Exists
<1>6. QED
  BY <1>3, <1>4, <1>5, KeptLineageEnds DEF TaxInv

LEMMA RequestSteps ==
  ASSUME TaxInv, NEW c \in Curators
  PROVE  /\ \A s, t \in Tags : BeginMerge(c, s, t) => TaxInv'
         /\ \A t \in Tags : BeginDelete(c, t) => TaxInv'
         /\ \A o \in Owners, ts \in SUBSET Tags : BeginLink(c, o, ts) => TaxInv'
         /\ SelectLinks(c) \/ AbandonCuration(c) => TaxInv'
<1>1. ASSUME NEW s \in Tags, NEW t \in Tags, BeginMerge(c, s, t) PROVE TaxInv'
  <2>1. /\ s # t /\ tag[s] \in LiveRows /\ tag[t] \in LiveRows
        /\ tag[s].into = None /\ tag[t].active = TRUE
    BY <1>1, TermAt DEF BeginMerge, Mergeable, MergeableIntoAny, Merged, LiveRows
  <2>2. PICK w : w = MergeOf(s, t)
    OBVIOUS
  <2>3. /\ w \in MergeWork
        /\ w.s # w.t /\ w.src \in LiveRows /\ w.src.into = None
        /\ w.dst \in LiveRows /\ w.dst.active = TRUE
    BY <2>1, <2>2, LiveRowsAreRows DEF MergeOf, MergeWork
  <2>4. curator' = [curator EXCEPT ![c] = w] /\ UNCHANGED <<tag, links, crossed, renamed, edits>>
    BY <1>1, <2>2 DEF BeginMerge
  <2>5. QED
    BY <2>3, <2>4, CuratorStep
<1>2. ASSUME NEW t \in Tags, BeginDelete(c, t) PROVE TaxInv'
  BY <1>2, CuratorStep DEF BeginDelete
<1>3. ASSUME NEW o \in Owners, NEW ts \in SUBSET Tags, BeginLink(c, o, ts) PROVE TaxInv'
  BY <1>3, CuratorStep DEF BeginLink
<1>4. ASSUME AbandonCuration(c) PROVE TaxInv'
  BY <1>4, CuratorStep DEF AbandonCuration
<1>5. ASSUME SelectLinks(c) PROVE TaxInv'
  <2>1. PICK m : m = curator[c]
    OBVIOUS
  <2>2. /\ m \in MergeWork /\ m.s # m.t /\ m.src \in LiveRows /\ m.src.into = None
        /\ m.dst \in LiveRows /\ m.dst.active = TRUE
    BY <1>5, <2>1, CuratorShapes DEF SelectLinks, TaxInv, MergesAreOfTerms
  <2>3. PICK w : w = [m EXCEPT !.selected = TRUE, !.owners = LinkedTo(m.s),
                               !.fresh = LinkedTo(m.s) \ LinkedTo(m.t)]
    OBVIOUS
  <2>4. \A t : LinkedTo(t) \subseteq Owners
    BY DEF LinkedTo
  <2>5. w \in MergeWork /\ w.s = m.s /\ w.t = m.t /\ w.src = m.src /\ w.dst = m.dst
    BY <2>2, <2>3, <2>4 DEF MergeWork
  <2>6. curator' = [curator EXCEPT ![c] = w] /\ UNCHANGED <<tag, links, crossed, renamed, edits>>
    BY <1>5, <2>1, <2>3 DEF SelectLinks
  <2>7. QED
    BY <2>2, <2>5, <2>6, CuratorStep
<1>6. QED
  BY <1>1, <1>2, <1>3, <1>4, <1>5

LEMMA TaxStep ==
  ASSUME TaxInv, [TaxNext]_taxVars
  PROVE  TaxInv'
<1>1. CASE UNCHANGED taxVars
  BY <1>1 DEF taxVars, TaxInv, TaxTypeOK, MergesAreOfTerms, MergedTermsRetire,
              LineageEndsInATerm, Merged, Exists
<1>2. ASSUME NEW t \in Tags, NEW l \in Names,
             \/ SeedTag(t, l) \/ RenameTag(t, l)
             \/ \E as \in AliasLists : CreateTag(t, l, as) \/ UpdateTag(t, l, as)
             \/ \E c \in Curators : UndoRename(c, t, l)
      PROVE  TaxInv'
  BY <1>2, EditSteps, UndoSteps
<1>3. ASSUME NEW t \in Tags, ReseedTag(t) \/ \E on \in BOOLEAN : SetActive(t, on)
      PROVE  TaxInv'
  BY <1>3, FlagSteps
<1>4. ASSUME NEW c \in Curators,
             \/ \E s, t \in Tags : BeginMerge(c, s, t)
             \/ \E t \in Tags : BeginDelete(c, t)
             \/ \E o \in Owners, ts \in SUBSET Tags : BeginLink(c, o, ts)
             \/ SelectLinks(c) \/ AbandonCuration(c)
      PROVE  TaxInv'
  BY <1>4, RequestSteps
<1>5. ASSUME NEW c \in Curators, DropAlias(c) \/ CommitMerge(c) \/ CommitDelete(c) \/ CommitLink(c)
      PROVE  TaxInv'
  BY <1>5, UndoSteps, CommitMergeStep, CommitDeleteStep, CommitLinkStep
<1>6. QED
  BY <1>1, <1>2, <1>3, <1>4, <1>5 DEF TaxNext

\* The rows of the vocabulary, their links and the requests in flight are of
\* their types (models.py Tag, ReportTag, UserTagSubscription).
THEOREM TaxTypeCorrect == TaxSpec => []TaxTypeOK
<1>1. TaxInv => TaxTypeOK
  BY DEF TaxInv
<1>2. QED
  BY TaxInitInv, TaxStep, <1>1, PTL DEF TaxSpec

\* However merges overlap with edits, deletions and each other, the merges whose
\* terms held still never close a cycle (tags.py merge_tags).
THEOREM LineageHasAnEnd == TaxSpec => []LineageEndsInATerm
<1>1. TaxInv => LineageEndsInATerm
  BY DEF TaxInv
<1>2. QED
  BY TaxInitInv, TaxStep, <1>1, PTL DEF TaxSpec

-----------------------------------------------------------------------------
(***************************************************************************)
(* The inductive invariant: a request that no commit overtook holds the    *)
(* source as it is stored, and what it would write is paired if what it    *)
(* read was.                                                               *)
(***************************************************************************)
Paired(s) == s.rel = Ungraded <=> s.cred = Ungraded

SourceWork == [do : {"source"}, saw : SourceRows, new : SourceRows, stale : BOOLEAN]
DropWork == [do : {"drop"}, file : Files]
DeleteWork == [do : {"delete"}, reported : BOOLEAN, left : SUBSET Kinds, listed : SUBSET Files]
Work == {NoWork} \cup SourceWork \cup DropWork \cup DeleteWork

CopiesAreCurrent ==
    \A e \in Writers : work[e].do = "source" =>
        /\ source # NotAdded
        /\ source.alive /\ ~work[e].stale => work[e].saw = source
        /\ \/ Paired(work[e].new)
           \/ work[e].new.rel = work[e].saw.rel /\ work[e].new.cred = work[e].saw.cred

NoteInv ==
    /\ RowsTypeOK
    /\ work \in [Writers -> Work]
    /\ CopiesAreCurrent
    /\ GradesComeInPairs

LEMMA WorkShapes ==
  ASSUME NEW w \in Work
  PROVE  /\ w.do \in {"nothing", "source", "drop", "delete"}
         /\ w.do = "source" => w \in SourceWork
         /\ w.do = "drop" => w \in DropWork
         /\ w.do = "delete" => w \in DeleteWork
         /\ w.do = "nothing" => w = NoWork
<1>1. CASE w = NoWork
  BY <1>1 DEF NoWork
<1>2. CASE w \in SourceWork
  <2>1. w.do = "source"
    BY <1>2 DEF SourceWork
  <2>2. QED
    BY <1>2, <2>1
<1>3. CASE w \in DeleteWork
  <2>1. w.do = "delete"
    BY <1>3 DEF DeleteWork
  <2>2. QED
    BY <1>3, <2>1
<1>4. CASE w \in DropWork
  <2>1. w.do = "drop"
    BY <1>4 DEF DropWork
  <2>2. QED
    BY <1>4, <2>1
<1>5. QED
  BY <1>1, <1>2, <1>3, <1>4 DEF Work

LEMMA StoredSource ==
  ASSUME RowsTypeOK
  PROVE  /\ source.alive \in BOOLEAN
         /\ source.alive => source \in SourceRows /\ source # NotAdded
<1>1. CASE source = NotAdded
  BY <1>1 DEF NotAdded
<1>2. CASE source = Gone
  BY <1>2 DEF Gone
<1>3. CASE source \in SourceRows
  <2>1. source.alive = TRUE /\ NotAdded.alive = FALSE
    BY <1>3 DEF SourceRows, NotAdded
  <2>2. QED
    BY <1>3, <2>1
<1>4. QED
  BY <1>1, <1>2, <1>3 DEF RowsTypeOK

LEMMA GradedRow ==
  ASSUME NEW s \in SourceRows, NEW r \in Reliabilities, NEW c \in Credibilities
  PROVE  /\ Graded(s, r, c) \in SourceRows
         /\ Graded(s, r, c).rel = r /\ Graded(s, r, c).cred = c
BY DEF Graded, SourceRows

LEMMA GradesArePaired ==
  ASSUME NEW s \in SourceRows, NEW n \in ManualGrades(s) \cup AutoGrades(s)
  PROVE  n \in SourceRows /\ Paired(n)
<1>1. PICK r \in Reliabilities, c \in Credibilities : n = Graded(s, r, c) /\ GradeTogether(r, c)
  <2>1. CASE n \in ManualGrades(s)
    BY <2>1 DEF ManualGrades
  <2>2. CASE n \in AutoGrades(s)
    <3>1. PICK g \in HeuristicGrades : n = Graded(s, g[1], g[2])
      BY <2>2 DEF AutoGrades
    <3>2. /\ g[1] \in Reliabilities /\ g[2] \in Credibilities
          /\ GradeTogether(g[1], g[2])
      BY DEF HeuristicGrades, Reliabilities, Credibilities, GradeTogether, Ungraded
    <3>3. QED
      BY <3>1, <3>2
  <2>3. QED
    BY <2>1, <2>2
<1>2. QED
  BY <1>1, GradedRow DEF Paired, GradeTogether

LEMMA WrittenColumns ==
  ASSUME NEW held \in SourceRows, NEW saw \in SourceRows, NEW new \in SourceRows
  PROVE  /\ Columns(held, saw, new) \in SourceRows
         /\ held = saw => Columns(held, saw, new) = new
<1>1. DOMAIN held = {"alive", "rel", "cred", "tlp"} /\ DOMAIN new = DOMAIN held
  BY DEF SourceRows
<1>2. PICK n : n = Columns(held, saw, new)
  OBVIOUS
<1>3. n = [alive |-> IF new.alive # saw.alive THEN new.alive ELSE held.alive,
           rel |-> IF new.rel # saw.rel THEN new.rel ELSE held.rel,
           cred |-> IF new.cred # saw.cred THEN new.cred ELSE held.cred,
           tlp |-> IF new.tlp # saw.tlp THEN new.tlp ELSE held.tlp]
  BY <1>1, <1>2 DEF Columns
<1>4. n \in SourceRows
  BY <1>3 DEF SourceRows
<1>5. ASSUME held = saw PROVE n = new
  <2>1. n = [alive |-> new.alive, rel |-> new.rel, cred |-> new.cred, tlp |-> new.tlp]
    BY <1>3, <1>5
  <2>2. new = [alive |-> new.alive, rel |-> new.rel, cred |-> new.cred, tlp |-> new.tlp]
    BY DEF SourceRows
  <2>3. QED
    BY <2>1, <2>2
<1>6. QED
  BY <1>2, <1>4, <1>5

LEMMA NoteInitInv == NoteInit => NoteInv
<1> SUFFICES ASSUME NoteInit PROVE NoteInv
  OBVIOUS
<1>1. RowsTypeOK
  BY DEF NoteInit, RowsTypeOK, NoWork
<1>2. work \in [Writers -> Work] /\ \A e \in Writers : work[e].do = "nothing"
  BY DEF NoteInit, Work, NoWork
<1>3. ~source.alive
  BY DEF NoteInit, NotAdded
<1>4. QED
  BY <1>1, <1>2, <1>3 DEF NoteInv, CopiesAreCurrent, GradesComeInPairs
(***************************************************************************)
(* A request that begins or ends leaves the source to the others.          *)
(***************************************************************************)
LEMMA RequestStep ==
  ASSUME NoteInv, NEW e \in Writers, NEW w \in Work,
         work' = [work EXCEPT ![e] = w],
         source' = source \/ source' = Gone,
         notebook' \in {"there", "gone"}, ioc' \in {Gone} \cup IocRows,
         halved' = halved,
         w.do = "source" =>
            /\ source' = source /\ source.alive
            /\ w.saw = source
            /\ Paired(w.new) \/ (w.new.rel = w.saw.rel /\ w.new.cred = w.saw.cred)
  PROVE  NoteInv'
<1>1. work' \in [Writers -> Work]
  BY DEF NoteInv
<1>2. \A x \in Writers : work'[x] = IF x = e THEN w ELSE work[x]
  BY DEF NoteInv
<1>3. RowsTypeOK'
  BY <1>1, WorkShapes DEF NoteInv, RowsTypeOK
<1>4. source' # NotAdded \/ \A x \in Writers : x # e => work[x].do # "source"
  <2>1. Gone # NotAdded
    <3>1. "added" \notin DOMAIN Gone /\ "added" \in DOMAIN NotAdded
      BY DEF Gone, NotAdded
    <3>2. QED
      BY <3>1
  <2>2. QED
    BY <2>1 DEF NoteInv, CopiesAreCurrent
<1>5. CopiesAreCurrent'
  <2> SUFFICES ASSUME NEW x \in Writers, work'[x].do = "source"
               PROVE  /\ source' # NotAdded
                      /\ source'.alive /\ ~work'[x].stale => work'[x].saw = source'
                      /\ \/ Paired(work'[x].new)
                         \/ /\ work'[x].new.rel = work'[x].saw.rel
                            /\ work'[x].new.cred = work'[x].saw.cred
    BY DEF CopiesAreCurrent, Paired
  <2>1. CASE x = e
    BY <1>2, <2>1, StoredSource DEF NoteInv
  <2>2. CASE x # e
    <3>1. work'[x] = work[x]
      BY <1>2, <2>2
    <3>2. source'.alive => source' = source
      BY DEF Gone
    <3>3. QED
      BY <1>4, <2>2, <3>1, <3>2 DEF NoteInv, CopiesAreCurrent
  <2>3. QED
    BY <2>1, <2>2
<1>6. GradesComeInPairs'
  BY DEF NoteInv, GradesComeInPairs, Gone
<1>7. QED
  BY <1>1, <1>3, <1>5, <1>6 DEF NoteInv

\* A step that leaves the requests where they are.
LEMMA BystanderStep ==
  ASSUME NoteInv, work' = work,
         source' = source \/ source' = Gone,
         UNCHANGED <<notebook, halved>>,
         ioc' \in {Gone} \cup IocRows
  PROVE  NoteInv'
<1>1. work' \in [Writers -> Work] /\ RowsTypeOK'
  BY DEF NoteInv, RowsTypeOK
<1>2. Gone # NotAdded /\ ~Gone.alive
  <2>1. "added" \notin DOMAIN Gone /\ "added" \in DOMAIN NotAdded
    BY DEF Gone, NotAdded
  <2>2. QED
    BY <2>1 DEF Gone
<1>3. CopiesAreCurrent' /\ GradesComeInPairs'
  BY <1>2 DEF NoteInv, CopiesAreCurrent, GradesComeInPairs, Paired
<1>4. QED
  BY <1>1, <1>3 DEF NoteInv

LEMMA LoadSteps ==
  ASSUME NoteInv, NEW e \in Writers,
         GradeSource(e) \/ RegradeSource(e) \/ EditSource(e)
  PROVE  NoteInv'
<1>1. ASSUME NEW copies,
             \A n \in copies : n \in SourceRows /\
                (Paired(n) \/ (n.rel = source.rel /\ n.cred = source.cred)),
             WorkOnSource(e, copies)
      PROVE  NoteInv'
  <2>1. source.alive /\ source \in SourceRows
    BY <1>1, StoredSource DEF WorkOnSource, NoteInv
  <2>2. PICK new \in copies :
          work' = [work EXCEPT ![e] = [do |-> "source", saw |-> source, new |-> new, stale |-> FALSE]]
    BY <1>1 DEF WorkOnSource, Begin
  <2>3. PICK w : w = [do |-> "source", saw |-> source, new |-> new, stale |-> FALSE]
    OBVIOUS
  <2>4. w \in Work
    BY <1>1, <2>1, <2>3 DEF Work, SourceWork
  <2>5. /\ w.saw = source
        /\ Paired(w.new) \/ (w.new.rel = w.saw.rel /\ w.new.cred = w.saw.cred)
    BY <1>1, <2>3
  <2>6. QED
    BY <1>1, <2>1, <2>2, <2>3, <2>4, <2>5, RequestStep DEF WorkOnSource, NoteInv, RowsTypeOK
<1>2. ASSUME GradeSource(e) \/ RegradeSource(e) PROVE NoteInv'
  <2>1. source \in SourceRows
    BY <1>2, StoredSource DEF GradeSource, RegradeSource, WorkOnSource, NoteInv
  <2>2. QED
    BY <1>1, <1>2, <2>1, GradesArePaired DEF GradeSource, RegradeSource
<1>3. ASSUME EditSource(e) PROVE NoteInv'
  <2>1. source \in SourceRows
    BY <1>3, StoredSource DEF EditSource, WorkOnSource, NoteInv
  <2>2. \A n \in {[source EXCEPT !.tlp = tlp] : tlp \in {"AMBER", "CLEAR"}} :
          n \in SourceRows /\ n.rel = source.rel /\ n.cred = source.cred
    BY <2>1 DEF SourceRows, NoteMarkings
  <2>3. QED
    BY <1>1, <1>3, <2>2 DEF EditSource
<1>4. QED
  BY <1>2, <1>3

LEMMA SaveSourceStep ==
  ASSUME NoteInv, NEW e \in Writers, SaveSource(e)
  PROVE  NoteInv'
<1>0. NoWork \in Work /\ NoWork.do # "source"
  BY DEF Work, NoWork
<1>1. CASE ~source.alive
  BY <1>0, <1>1, RequestStep DEF SaveSource, EndWork, NoteInv, RowsTypeOK
<1>2. CASE source.alive
  <2>1. source \in SourceRows /\ source # NotAdded
    BY <1>2, StoredSource DEF NoteInv
  <2>2. work[e] \in SourceWork
    BY WorkShapes DEF SaveSource, NoteInv
  <2>3. PICK w : w = work[e]
    OBVIOUS
  <2>4. PICK n : n = Columns(source, w.saw, w.new)
    OBVIOUS
  <2>5. n \in SourceRows /\ (source = w.saw => n = w.new)
    BY <2>1, <2>2, <2>3, <2>4, WrittenColumns DEF SourceWork
  <2>6. /\ source' = n /\ halved' = (halved \/ w.stale)
        /\ UNCHANGED <<notebook, ioc>>
        /\ work' = [x \in Writers |->
                      IF x = e THEN NoWork
                      ELSE IF work[x].do = "source" THEN [work[x] EXCEPT !.stale = TRUE]
                      ELSE work[x]]
    BY <1>2, <2>3, <2>4 DEF SaveSource, EndSourceWork
  <2>7. \A x \in Writers : work[x].do = "source" =>
           LET v == [work[x] EXCEPT !.stale = TRUE] IN
           /\ v \in SourceWork /\ v.stale = TRUE
           /\ v.saw = work[x].saw /\ v.new = work[x].new
    <3> SUFFICES ASSUME NEW x \in Writers, work[x].do = "source"
                 PROVE  LET v == [work[x] EXCEPT !.stale = TRUE] IN
                        /\ v \in SourceWork /\ v.stale = TRUE
                        /\ v.saw = work[x].saw /\ v.new = work[x].new
      OBVIOUS
    <3>1. work[x] \in SourceWork
      BY WorkShapes DEF NoteInv
    <3>2. QED
      BY <3>1 DEF SourceWork
  <2>8. work' \in [Writers -> Work]
    BY <1>0, <2>6, <2>7 DEF NoteInv, Work
  <2>9. RowsTypeOK'
    <3>1. halved' \in BOOLEAN
      BY <2>2, <2>3, <2>6 DEF NoteInv, RowsTypeOK, SourceWork
    <3>2. \A x \in Writers : work'[x].do \in {"nothing", "source", "drop", "delete"}
      BY <2>8, WorkShapes
    <3>3. QED
      BY <2>5, <2>6, <3>1, <3>2 DEF NoteInv, RowsTypeOK
  <2>10. CopiesAreCurrent'
    <3> SUFFICES ASSUME NEW x \in Writers, work'[x].do = "source"
                 PROVE  /\ source' # NotAdded
                        /\ source'.alive /\ ~work'[x].stale => work'[x].saw = source'
                        /\ \/ Paired(work'[x].new)
                           \/ /\ work'[x].new.rel = work'[x].saw.rel
                              /\ work'[x].new.cred = work'[x].saw.cred
      BY DEF CopiesAreCurrent, Paired
    <3>1. x # e /\ work[x].do = "source"
      BY <1>0, <2>6
    <3>2. work'[x].stale = TRUE /\ work'[x].saw = work[x].saw /\ work'[x].new = work[x].new
      BY <2>6, <2>7, <3>1
    <3>3. source' # NotAdded
      <4>1. n.alive = TRUE
        BY <2>5 DEF SourceRows
      <4>2. QED
        BY <2>6, <4>1 DEF NotAdded
    <3>4. QED
      BY <3>1, <3>2, <3>3 DEF NoteInv, CopiesAreCurrent
  <2>11. GradesComeInPairs'
    <3> SUFFICES ASSUME ~halved' PROVE Paired(n)
      BY <2>6 DEF GradesComeInPairs, Paired
    <3>1. ~halved /\ ~w.stale
      BY <2>6
    <3>2. w.saw = source /\ (Paired(w.new) \/ (w.new.rel = w.saw.rel /\ w.new.cred = w.saw.cred))
      BY <1>2, <2>3, <3>1 DEF SaveSource, NoteInv, CopiesAreCurrent
    <3>3. Paired(source)
      BY <1>2, <3>1 DEF NoteInv, GradesComeInPairs, Paired
    <3>4. QED
      BY <2>5, <3>2, <3>3 DEF Paired
  <2>12. QED
    BY <2>8, <2>9, <2>10, <2>11 DEF NoteInv
<1>3. QED
  BY <1>1, <1>2

LEMMA AddSourceStep ==
  ASSUME NoteInv, AddSource
  PROVE  NoteInv'
<1>1. PICK tlp, new :
         /\ tlp \in {"AMBER", "CLEAR"}
         /\ new = [alive |-> TRUE, rel |-> Ungraded, cred |-> Ungraded, tlp |-> tlp]
         /\ source' \in (ManualGrades(new) \ {new}) \cup AutoGrades(new)
  BY DEF AddSource
<1>2. new \in SourceRows
  BY <1>1 DEF SourceRows, Reliabilities, Credibilities, NoteMarkings
<1>3. source' \in SourceRows /\ Paired(source')
  BY <1>1, <1>2, GradesArePaired
<1>4. \A e \in Writers : work[e].do # "source"
  BY DEF AddSource, NoteInv, CopiesAreCurrent
<1>5. QED
  BY <1>3, <1>4 DEF AddSource, NoteInv, RowsTypeOK, CopiesAreCurrent, GradesComeInPairs, Paired

LEMMA RowSteps ==
  ASSUME NoteInv, DropSource \/ CreateIoc \/ UpdateIoc \/ DropIoc
  PROVE  NoteInv'
<1>0. /\ ioc \in {Gone} \cup IocRows
      /\ source.alive \in BOOLEAN
      /\ source.alive => source.tlp \in NoteMarkings
  BY StoredSource DEF NoteInv, RowsTypeOK, SourceRows
<1>1. ioc.alive => ioc \in IocRows
  BY <1>0 DEF Gone
<1>2. CASE DropSource
  <2>1. ioc' \in {Gone} \cup IocRows
    BY <1>0, <1>1, <1>2 DEF DropSource, IocRows
  <2>2. QED
    BY <1>0, <1>2, <2>1, BystanderStep DEF DropSource
<1>3. CASE CreateIoc
  <2>1. ioc' \in IocRows
    <3>1. PICK drawn \in {FALSE, source.alive}, tlp \in {Omitted, "AMBER"} :
             ioc' = [alive |-> TRUE, drawn |-> drawn,
                     tlp |-> IF tlp # Omitted THEN tlp
                             ELSE IF drawn THEN source.tlp ELSE "AMBER"]
      BY <1>3 DEF CreateIoc
    <3>2. drawn \in BOOLEAN /\ (drawn => source.tlp \in NoteMarkings)
      BY <1>0
    <3>3. (IF tlp # Omitted THEN tlp ELSE IF drawn THEN source.tlp ELSE "AMBER") \in NoteMarkings
      BY <3>2 DEF NoteMarkings
    <3>4. QED
      BY <3>1, <3>2, <3>3 DEF IocRows
  <2>2. QED
    BY <1>0, <1>3, <2>1, BystanderStep DEF CreateIoc
<1>4. CASE UpdateIoc
  <2>1. ioc' \in IocRows
    BY <1>0, <1>1, <1>4 DEF UpdateIoc, IocRows, NoteMarkings
  <2>2. QED
    BY <1>0, <1>4, <2>1, BystanderStep DEF UpdateIoc
<1>5. CASE DropIoc
  BY <1>0, <1>5, BystanderStep DEF DropIoc
<1>6. QED
  BY <1>2, <1>3, <1>4, <1>5

\* A request at work on files, or on the deletion.
LEMMA FileWorkSteps ==
  ASSUME NoteInv, FilesTypeOK, NEW e \in Writers,
         \/ DropFile(e) \/ LoadNotebook(e) \/ DeleteNotebook(e) \/ DeletionFails(e)
         \/ \E f \in Files : LoadFile(e, f)
         \/ \E kind \in Kinds : ListFiles(e, kind)
  PROVE  NoteInv'
<1>1. NoWork \in Work /\ NoWork.do # "source"
  BY DEF Work, NoWork
<1>2. CASE DropFile(e) \/ DeleteNotebook(e) \/ DeletionFails(e)
  BY <1>1, <1>2, RequestStep
  DEF DropFile, DeleteNotebook, DeletionFails, EndWork, NoteInv, RowsTypeOK
<1>3. ASSUME NEW f \in Files, LoadFile(e, f) PROVE NoteInv'
  <2>1. PICK w : w = [do |-> "drop", file |-> f]
    OBVIOUS
  <2>2. w \in Work /\ w.do # "source"
    BY <2>1 DEF Work, DropWork
  <2>3. QED
    BY <1>3, <2>1, <2>2, RequestStep DEF LoadFile, Begin, NoteInv, RowsTypeOK
<1>4. CASE LoadNotebook(e)
  <2>1. PICK w : w = [do |-> "delete", reported |-> reported, left |-> Kinds, listed |-> {}]
    OBVIOUS
  <2>2. w \in Work /\ w.do # "source"
    BY <2>1 DEF Work, DeleteWork, FilesTypeOK
  <2>3. QED
    BY <1>4, <2>1, <2>2, RequestStep DEF LoadNotebook, Begin, NoteInv, RowsTypeOK
<1>5. ASSUME NEW kind \in Kinds, ListFiles(e, kind) PROVE NoteInv'
  <2>1. PICK w, found :
          /\ found = Listable(work[e], kind)
          /\ w = [work[e] EXCEPT !.left = @ \ {kind}, !.listed = @ \cup found]
    OBVIOUS
  <2>2. work[e] \in DeleteWork /\ found \subseteq Files
    BY <1>5, <2>1, WorkShapes DEF ListFiles, Listable, NoteInv, FilesTypeOK
  <2>3. w \in Work /\ w.do # "source"
    BY <2>1, <2>2 DEF Work, DeleteWork
  <2>4. QED
    <3>1. work' = [work EXCEPT ![e] = w] /\ UNCHANGED <<notebook, source, ioc, halved>>
      BY <1>5, <2>1 DEF ListFiles, NoteInv
    <3>2. QED
      BY <2>3, <3>1, RequestStep DEF NoteInv, RowsTypeOK
<1>6. QED
  BY <1>2, <1>3, <1>4, <1>5

\* A file that is put or recorded, a report that is added.
LEMMA FileRowSteps ==
  ASSUME NoteInv, AddReport \/ \E f \in Files : PutFile(f) \/ RecordFile(f)
  PROVE  NoteInv'
<1>1. UNCHANGED <<notebook, source, ioc, work, halved>>
  BY DEF AddReport, PutFile, RecordFile
<1>2. QED
  BY <1>1, BystanderStep DEF NoteInv, RowsTypeOK

LEMMA NoteStep ==
  ASSUME NoteInv, FilesTypeOK, [NoteNext]_noteVars
  PROVE  NoteInv'
<1>1. CASE UNCHANGED noteVars
  BY <1>1, BystanderStep DEF noteVars, NoteInv, RowsTypeOK
<1>2. CASE SourceStep
  BY <1>2, LoadSteps, SaveSourceStep, AddSourceStep, RowSteps DEF SourceStep
<1>3. CASE FileStep
  BY <1>3, FileWorkSteps, FileRowSteps DEF FileStep
<1>4. CASE DeletionStep
  BY <1>4, FileWorkSteps DEF DeletionStep
<1>5. QED
  BY <1>1, <1>2, <1>3, <1>4 DEF NoteNext

-----------------------------------------------------------------------------
(***************************************************************************)
(* The files.  What a request has listed or will drop has been inserted;   *)
(* a row that a deletion has not listed, and will not, came too late.      *)
(***************************************************************************)
RequestSound(w) ==
    /\ w.do = "drop" => w.file \in objects \ uploading
    /\ w.do = "delete" =>
         /\ w.listed \subseteq objects \ uploading
         /\ \A f \in stored : TooLateFor(w, f) => f \in w.listed \cup missed

FileInv ==
    /\ FilesTypeOK /\ ObjectsAccountedFor
    /\ uploading \cap (stored \cup tombstones) = {}
    /\ notebook = "gone" => stored = {}
    /\ notebook = "there" =>
         \A f \in uploading \cup stored : Kind[f] = "render" => reported
    /\ \A e \in Writers : RequestSound(work[e])

LEMMA FileInit == NoteInit => FileInv
<1> SUFFICES ASSUME NoteInit PROVE FileInv
  OBVIOUS
<1>1. \A e \in Writers : RequestSound(work[e])
  BY DEF NoteInit, RequestSound, NoWork
<1>2. FilesTypeOK /\ ObjectsAccountedFor
  BY DEF NoteInit, FilesTypeOK, ObjectsAccountedFor
<1>3. QED
  BY <1>1, <1>2 DEF NoteInit, FileInv

\* A step that changes no file, and no request that works on files but to end it.
LEMMA NoFileStep ==
  ASSUME FileInv, UNCHANGED <<notebook, fileVars>>,
         \A e \in Writers : work'[e] = work[e] \/ work'[e].do \in {"nothing", "source"}
  PROVE  FileInv'
<1>1. \A e \in Writers : RequestSound(work[e])'
  BY DEF FileInv, RequestSound, fileVars, TooLateFor
<1>2. QED
  BY <1>1 DEF FileInv, fileVars, FilesTypeOK, ObjectsAccountedFor

LEMMA SourceStepKeepsFiles ==
  ASSUME NoteInv, FileInv, SourceStep
  PROVE  FileInv'
<1>1. UNCHANGED <<notebook, fileVars>>
  BY DEF SourceStep, GradeSource, RegradeSource, EditSource, WorkOnSource, SaveSource,
     AddSource, DropSource, CreateIoc, UpdateIoc, DropIoc, fileVars
<1>2. ASSUME NEW x \in Writers
      PROVE  work'[x] = work[x] \/ work'[x].do \in {"nothing", "source"}
  <2>0. work \in [Writers -> Work] /\ NoWork.do = "nothing"
    BY DEF NoteInv, NoWork
  <2>1. ASSUME NEW e \in Writers, NEW copies, WorkOnSource(e, copies)
        PROVE  work'[x] = work[x] \/ work'[x].do \in {"nothing", "source"}
    <3>1. PICK new : work' = [work EXCEPT ![e] = [do |-> "source", saw |-> source, new |-> new, stale |-> FALSE]]
      BY <2>1 DEF WorkOnSource, Begin
    <3>2. QED
      BY <2>0, <3>1
  <2>2. ASSUME NEW e \in Writers, SaveSource(e)
        PROVE  work'[x] = work[x] \/ work'[x].do \in {"nothing", "source"}
    <3>1. CASE EndWork(e)
      BY <2>0, <3>1 DEF EndWork
    <3>2. CASE EndSourceWork(e)
      <4>1. work[x].do = "source" => [work[x] EXCEPT !.stale = TRUE].do = "source"
        BY <2>0, WorkShapes DEF SourceWork
      <4>2. QED
        BY <2>0, <3>2, <4>1 DEF EndSourceWork
    <3>3. QED
      BY <2>2, <3>1, <3>2 DEF SaveSource
  <2>3. CASE AddSource \/ DropSource \/ CreateIoc \/ UpdateIoc \/ DropIoc
    BY <2>3 DEF AddSource, DropSource, CreateIoc, UpdateIoc, DropIoc
  <2>4. QED
    BY <2>1, <2>2, <2>3 DEF SourceStep, GradeSource, RegradeSource, EditSource
<1>3. QED
  BY <1>1, <1>2, NoFileStep

LEMMA FileStepKeepsFiles ==
  ASSUME NoteInv, FileInv, FileStep
  PROVE  FileInv'
<1>0. work \in [Writers -> Work] /\ notebook \in {"there", "gone"}
  BY DEF NoteInv, RowsTypeOK
<1>1. CASE AddReport
  <2>1. \A e \in Writers : RequestSound(work[e])'
    BY <1>1 DEF AddReport, FileInv, RequestSound, TooLateFor
  <2>2. QED
    BY <1>1, <2>1 DEF AddReport, FileInv, FilesTypeOK, ObjectsAccountedFor
<1>2. ASSUME NEW f \in Files, PutFile(f) PROVE FileInv'
  <2>1. \A e \in Writers : RequestSound(work[e])'
    BY <1>2 DEF PutFile, FileInv, FilesTypeOK, RequestSound, TooLateFor
  <2>2. QED
    BY <1>2, <2>1 DEF PutFile, FileInv, FilesTypeOK, ObjectsAccountedFor
<1>3. ASSUME NEW f \in Files, RecordFile(f) PROVE FileInv'
  <2>1. /\ f \in uploading /\ f \notin stored /\ f \notin tombstones
        /\ uploading' = uploading \ {f} /\ stored \subseteq stored' /\ stored' \subseteq stored \cup {f}
        /\ missed \subseteq missed' /\ missed' \subseteq missed \cup {f}
        /\ UNCHANGED <<notebook, work, reported, objects, tombstones>>
    BY <1>3 DEF RecordFile, FileInv
  <2>2. ASSUME NEW e \in Writers PROVE RequestSound(work[e])'
    <3>1. TooLateFor(work[e], f) => f \in missed'
      BY <1>3 DEF RecordFile
    <3>2. QED
      BY <2>1, <3>1 DEF FileInv, RequestSound, TooLateFor
  <2>3. notebook = "gone" => stored' = {}
    BY <1>3 DEF RecordFile, FileInv
  <2>4. QED
    <3>1. FilesTypeOK' /\ ObjectsAccountedFor'
      <4>1. stored' = stored \cup {f} \/ f \in missed'
        BY <1>0, <1>3 DEF RecordFile
      <4>2. QED
        BY <2>1, <4>1 DEF FileInv, FilesTypeOK, ObjectsAccountedFor
    <3>2. QED
      BY <1>0, <2>1, <2>2, <2>3, <3>1 DEF FileInv
<1>4. ASSUME NEW e \in Writers, NEW f \in Files, LoadFile(e, f) PROVE FileInv'
  <2>1. work'[e].do = "drop" /\ work'[e].file = f /\ \A x \in Writers \ {e} : work'[x] = work[x]
    BY <1>0, <1>4 DEF LoadFile, Begin
  <2>2. f \in objects \ uploading /\ UNCHANGED <<notebook, fileVars>>
    BY <1>4 DEF LoadFile, FileInv, FilesTypeOK
  <2>3. \A x \in Writers : RequestSound(work[x])'
    BY <2>1, <2>2 DEF FileInv, RequestSound, fileVars, TooLateFor
  <2>4. QED
    BY <2>2, <2>3 DEF FileInv, fileVars, FilesTypeOK, ObjectsAccountedFor
<1>5. ASSUME NEW e \in Writers, DropFile(e) PROVE FileInv'
  <2>1. PICK f : f = work[e].file
    OBVIOUS
  <2>2. /\ f \in objects \ uploading /\ stored' = stored \ {f} /\ tombstones' = tombstones \cup {f}
        /\ UNCHANGED <<notebook, reported, objects, uploading, missed>>
    BY <1>5, <2>1 DEF DropFile, FileInv, RequestSound
  <2>3. work'[e].do = "nothing" /\ \A x \in Writers \ {e} : work'[x] = work[x]
    BY <1>0, <1>5 DEF DropFile, EndWork, NoWork
  <2>4. \A x \in Writers : RequestSound(work[x])'
    BY <2>2, <2>3 DEF FileInv, RequestSound, TooLateFor
  <2>5. QED
    BY <2>2, <2>4 DEF FileInv, FilesTypeOK, ObjectsAccountedFor
<1>6. QED
  BY <1>1, <1>2, <1>3, <1>4, <1>5 DEF FileStep

LEMMA DeletionStepKeepsFiles ==
  ASSUME NoteInv, FileInv, DeletionStep
  PROVE  FileInv'
<1>0. work \in [Writers -> Work]
  BY DEF NoteInv
<1>1. ASSUME NEW e \in Writers, LoadNotebook(e) PROVE FileInv'
  <2>1. /\ work'[e].do = "delete" /\ work'[e].reported = reported /\ work'[e].left = Kinds
        /\ work'[e].listed = {} /\ \A x \in Writers \ {e} : work'[x] = work[x]
    BY <1>0, <1>1 DEF LoadNotebook, Begin
  <2>2. UNCHANGED <<notebook, fileVars>>
    BY <1>1 DEF LoadNotebook
  <2>3. \A f \in stored : ~TooLateFor(work'[e], f)
    BY <1>1, <2>1, NotebookAssumption
    DEF NotebookAssumption, LoadNotebook, TooLateFor, FileInv, FilesTypeOK
  <2>4. \A x \in Writers : RequestSound(work[x])'
    BY <2>1, <2>2, <2>3 DEF FileInv, RequestSound, fileVars, TooLateFor
  <2>5. QED
    BY <2>2, <2>4 DEF FileInv, fileVars, FilesTypeOK, ObjectsAccountedFor
<1>2. ASSUME NEW e \in Writers, NEW kind \in Kinds, ListFiles(e, kind) PROVE FileInv'
  <2>1. work[e] \in DeleteWork /\ work[e].do = "delete"
    BY <1>0, <1>2, WorkShapes DEF ListFiles
  <2>2. PICK found : found = Listable(work[e], kind)
    OBVIOUS
  <2>3. /\ work'[e].do = "delete" /\ work'[e].reported = work[e].reported
        /\ work'[e].left = work[e].left \ {kind} /\ work'[e].listed = work[e].listed \cup found
        /\ \A x \in Writers \ {e} : work'[x] = work[x]
    <3>1. PICK w : w = [work[e] EXCEPT !.left = @ \ {kind}, !.listed = @ \cup found]
      OBVIOUS
    <3>2. work' = [work EXCEPT ![e] = w]
      BY <1>0, <1>2, <2>2, <3>1 DEF ListFiles
    <3>3. /\ w.do = "delete" /\ w.reported = work[e].reported
          /\ w.left = work[e].left \ {kind} /\ w.listed = work[e].listed \cup found
      BY <2>1, <3>1 DEF DeleteWork
    <3>4. QED
      BY <1>0, <3>2, <3>3
  <2>4. UNCHANGED <<notebook, fileVars>>
    BY <1>2 DEF ListFiles
  <2>5. found \subseteq objects \ uploading
    BY <2>2 DEF FileInv, FilesTypeOK, Listable
  <2>6. \A f \in stored : TooLateFor(work'[e], f) => TooLateFor(work[e], f) \/ f \in found
    BY <2>1, <2>2, <2>3 DEF TooLateFor, Listable
  <2>7. \A x \in Writers : RequestSound(work[x])'
    <3>1. \A f \in stored' : TooLateFor(work'[e], f) => f \in work'[e].listed \cup missed'
      BY <2>1, <2>3, <2>4, <2>6 DEF FileInv, RequestSound, fileVars
    <3>2. RequestSound(work[e])'
      BY <2>1, <2>3, <2>4, <2>5, <3>1 DEF FileInv, RequestSound, fileVars
    <3>3. QED
      BY <2>3, <2>4, <3>2 DEF FileInv, RequestSound, fileVars, TooLateFor
  <2>8. QED
    BY <2>4, <2>7 DEF FileInv, fileVars, FilesTypeOK, ObjectsAccountedFor
<1>3. ASSUME NEW e \in Writers, DeleteNotebook(e) PROVE FileInv'
  <2>1. work'[e].do = "nothing" /\ \A x \in Writers \ {e} : work'[x] = work[x]
    BY <1>0, <1>3 DEF DeleteNotebook, EndWork, NoWork
  <2>2. PICK listed : listed = work[e].listed
    OBVIOUS
  <2>3. listed \subseteq objects \ uploading /\ listed \subseteq Files
    BY <1>3, <2>2 DEF DeleteNotebook, FileInv, RequestSound, FilesTypeOK
  <2>4. Enqueued(listed) = listed
    BY <2>3, NotebookAssumption DEF NotebookAssumption, Enqueued
  <2>5. \A f \in stored : f \in listed \cup missed
    BY <1>3, <2>2 DEF DeleteNotebook, FileInv, RequestSound, TooLateFor
  <2>6. /\ notebook' = "gone" /\ stored' = {} /\ reported' = FALSE
        /\ tombstones' = tombstones \cup listed /\ UNCHANGED <<objects, uploading, missed>>
    BY <1>3, <2>2, <2>4 DEF DeleteNotebook
  <2>7. \A x \in Writers : RequestSound(work[x])'
    BY <2>1, <2>6 DEF FileInv, RequestSound
  <2>8. QED
    BY <2>3, <2>5, <2>6, <2>7 DEF FileInv, FilesTypeOK, ObjectsAccountedFor
<1>4. ASSUME NEW e \in Writers, DeletionFails(e) PROVE FileInv'
  <2>1. \A x \in Writers : work'[x] = work[x] \/ work'[x].do = "nothing"
    BY <1>0, <1>4 DEF DeletionFails, EndWork, NoWork
  <2>2. QED
    BY <1>4, <2>1, NoFileStep DEF DeletionFails
<1>5. QED
  BY <1>1, <1>2, <1>3, <1>4 DEF DeletionStep

LEMMA NotebookInvariant == NoteSpec => [](NoteInv /\ FileInv)
<1>1. NoteInv /\ FileInv /\ [NoteNext]_noteVars => (NoteInv /\ FileInv)'
  <2> SUFFICES ASSUME NoteInv, FileInv, [NoteNext]_noteVars
               PROVE  NoteInv' /\ FileInv'
    OBVIOUS
  <2>1. NoteInv'
    BY NoteStep DEF FileInv
  <2>2. CASE UNCHANGED noteVars
    <3>1. /\ UNCHANGED <<notebook, fileVars>>
          /\ \A e \in Writers : work'[e] = work[e] \/ work'[e].do \in {"nothing", "source"}
      BY <2>2 DEF noteVars
    <3>2. QED
      BY <2>1, <3>1, NoFileStep
  <2>3. QED
    BY <2>1, <2>2, SourceStepKeepsFiles, FileStepKeepsFiles, DeletionStepKeepsFiles DEF NoteNext
<1>2. QED
  BY NoteInitInv, FileInit, <1>1, PTL DEF NoteSpec

\* The notebook's rows, its files and the requests at work on them are of their
\* types (models.py Source, IOC, Attachment).
THEOREM NoteTypeCorrect == NoteSpec => []NoteTypeOK
<1>1. NoteInv /\ FileInv => NoteTypeOK
  BY DEF NoteInv, FileInv, NoteTypeOK
<1>2. QED
  BY NotebookInvariant, <1>1, PTL

\* The two parts of a source's grade are set and cleared together, whatever
\* requests do one after the other; only overlapping commits part them
\* (services/source_grading.py set_manual_grade).
THEOREM GradesHoldTogether == NoteSpec => []GradesComeInPairs
<1>1. NoteInv => GradesComeInPairs
  BY DEF NoteInv
<1>2. QED
  BY NotebookInvariant, <1>1, PTL

\* Every object has its row, or a tombstone and no row, however deletions of files
\* and of the notebook overlap, but for rows a deletion could not list
\* (api/notebooks.py delete_notebook).
THEOREM ObjectsHaveRowOrTombstone == NoteSpec => []ObjectsAccountedFor
<1>1. FileInv => ObjectsAccountedFor
  BY DEF FileInv
<1>2. QED
  BY NotebookInvariant, <1>1, PTL

-----------------------------------------------------------------------------
(***************************************************************************)
(* Rows picked by their positions.                                         *)
(***************************************************************************)
LEMMA PlacesCount ==
  ASSUME NEW S \in SUBSET Nat, IsFiniteSet(S)
  PROVE  /\ Cardinality(S) \in Nat
         /\ \A i \in S : Place(S, i) \in 1..Cardinality(S)
         /\ \A i, j \in S : i < j => Place(S, i) < Place(S, j)
         /\ \A k \in 1..Cardinality(S) : \E i \in S : Place(S, i) = k
<1>1. Cardinality(S) \in Nat
  BY FS_CardinalityType
<1>2. PICK upto : upto = [i \in S |-> {j \in S : j <= i}]
  OBVIOUS
<1>3. \A i \in S : /\ upto[i] \in SUBSET S /\ i \in upto[i] /\ IsFiniteSet(upto[i])
                   /\ Place(S, i) = Cardinality(upto[i])
  BY <1>1, <1>2, FS_Subset DEF Place
<1>4. \A i \in S : Place(S, i) \in 1..Cardinality(S)
  <2> TAKE i \in S
  <2>1. Cardinality(upto[i]) \in Nat /\ Cardinality(upto[i]) <= Cardinality(S)
    BY <1>1, <1>3, FS_Subset, FS_CardinalityType
  <2>2. Cardinality(upto[i]) # 0
    BY <1>3, FS_EmptySet
  <2>3. QED
    BY <1>1, <1>3, <2>1, <2>2
<1>5. \A i, j \in S : i < j => Place(S, i) < Place(S, j)
  <2> SUFFICES ASSUME NEW i \in S, NEW j \in S, i < j PROVE Place(S, i) < Place(S, j)
    OBVIOUS
  <2>1. upto[i] \in SUBSET upto[j] /\ j \notin upto[i]
    <3>1. \A k \in S : k \in Int
      OBVIOUS
    <3>2. \A k : k \in upto[i] <=> k \in S /\ k <= i
      BY <1>2
    <3>3. \A k : k \in upto[j] <=> k \in S /\ k <= j
      BY <1>2
    <3>4. \A k \in S : k <= i => k <= j
      BY <3>1
    <3>5. ~(j <= i)
      BY <3>1
    <3>6. QED
      BY <3>2, <3>3, <3>4, <3>5
  <2>2. /\ Cardinality(upto[i]) <= Cardinality(upto[j])
        /\ Cardinality(upto[i]) = Cardinality(upto[j]) => upto[i] = upto[j]
    BY <1>3, <2>1, FS_Subset
  <2>3. upto[i] # upto[j]
    BY <1>3, <2>1
  <2>4. Cardinality(upto[i]) \in Int /\ Cardinality(upto[j]) \in Int
    BY <1>1, <1>3, <1>4
  <2>5. Cardinality(upto[i]) < Cardinality(upto[j])
    BY <2>2, <2>3, <2>4
  <2>6. QED
    BY <1>3, <2>5
<1>6. PICK f : f = [i \in S |-> Place(S, i)]
  OBVIOUS
<1>7. f \in Injection(S, 1..Cardinality(S))
  <2>1. f \in [S -> 1..Cardinality(S)]
    BY <1>4, <1>6
  <2>2. \A i, j \in S : f[i] = f[j] => i = j
    <3>1. \A i \in S : i \in Int /\ f[i] \in Int
      BY <1>4, <1>6
    <3>2. \A i, j \in S : i < j => f[i] < f[j]
      BY <1>5, <1>6
    <3>3. QED
      BY <3>1, <3>2
  <2>3. QED
    BY <2>1, <2>2 DEF Injection, IsInjective
<1>8. f \in Surjection(S, 1..Cardinality(S))
  <2>1. IsFiniteSet(1..Cardinality(S)) /\ Cardinality(1..Cardinality(S)) = Cardinality(S)
    BY <1>1, FS_Interval
  <2>2. QED
    BY <1>7, <2>1, FS_Injection
<1>9. \A k \in 1..Cardinality(S) : \E i \in S : Place(S, i) = k
  BY <1>6, <1>8 DEF Surjection
<1>10. QED
  BY <1>1, <1>4, <1>5, <1>9

\* Every row picked has one place, and every place one row.
LEMMA PickedRows ==
  ASSUME NEW n \in Nat, NEW rows, DOMAIN rows = 1..n, NEW S \in SUBSET (1..n)
  PROVE  /\ DOMAIN Picked(rows, S) = 1..Cardinality(S) /\ Cardinality(S) \in Nat
         /\ \A i \in S : /\ Place(S, i) \in DOMAIN Picked(rows, S)
                         /\ Picked(rows, S)[Place(S, i)] = rows[i]
         /\ \A k \in DOMAIN Picked(rows, S) : \E i \in S : Place(S, i) = k
         /\ \A i, j \in S : Place(S, i) = Place(S, j) => i = j
<1>0. S \in SUBSET Nat /\ IsFiniteSet(S)
  <2>1. IsFiniteSet(1..n)
    BY FS_Interval
  <2>2. IsFiniteSet(S)
    BY <2>1, FS_Subset
  <2>3. QED
    BY <2>2
<1>1. Cardinality(S) \in Nat /\ DOMAIN Picked(rows, S) = 1..Cardinality(S)
  BY <1>0, PlacesCount DEF Picked
<1>2. \A i \in S : Place(S, i) \in 1..Cardinality(S)
  BY <1>0, PlacesCount
<1>3. \A k \in 1..Cardinality(S) : \E i \in S : Place(S, i) = k
  BY <1>0, PlacesCount
<1>4. \A i, j \in S : Place(S, i) = Place(S, j) => i = j
  <2>1. \A i, j \in S : i < j => Place(S, i) < Place(S, j)
    BY <1>0, PlacesCount
  <2>2. \A i \in S : i \in Int /\ Place(S, i) \in Int
    BY <1>2
  <2>3. QED
    BY <2>1, <2>2
<1>5. ASSUME NEW i \in S PROVE Picked(rows, S)[Place(S, i)] = rows[i]
  <2>1. Picked(rows, S)[Place(S, i)] = rows[CHOOSE j \in S : Place(S, j) = Place(S, i)]
    BY <1>2 DEF Picked
  <2>2. (CHOOSE j \in S : Place(S, j) = Place(S, i)) = i
    BY <1>4
  <2>3. QED
    BY <2>1, <2>2
<1>6. QED
  BY <1>1, <1>2, <1>3, <1>4, <1>5

LEMMA HighestBounds ==
  ASSUME NEW S \in SUBSET Nat, IsFiniteSet(S)
  PROVE  Highest(S) \in Nat /\ \A m \in S : m <= Highest(S)
<1>1. PICK T : T = S \cup {0}
  OBVIOUS
<1>2. T \in SUBSET Nat /\ IsFiniteSet(T)
  BY <1>1, FS_AddElement
<1>3. Cardinality(T) \in 1..Cardinality(T)
  <2>1. Cardinality(T) \in Nat
    BY <1>2, PlacesCount
  <2>2. 0 \in T
    BY <1>1
  <2>3. Place(T, 0) \in 1..Cardinality(T)
    BY <1>2, <2>2, PlacesCount
  <2>4. QED
    BY <2>1, <2>3
<1>4. PICK i \in T : Place(T, i) = Cardinality(T)
  BY <1>2, <1>3, PlacesCount
<1>5. \A m \in T : m <= i
  <2> TAKE m \in T
  <2>1. i < m => Place(T, i) < Place(T, m)
    BY <1>2, PlacesCount
  <2>2. Place(T, m) \in 1..Cardinality(T) /\ Cardinality(T) \in Nat
    BY <1>2, PlacesCount
  <2>3. m \in Nat /\ i \in Nat
    BY <1>2
  <2>4. QED
    BY <1>4, <2>1, <2>2, <2>3
<1>6. Highest(S) \in T /\ \A m \in S : m <= Highest(S)
  BY <1>1, <1>5 DEF Highest
<1>7. QED
  BY <1>2, <1>6

(***************************************************************************)
(* Rows that were normalised, and rows that are sent.                      *)
(***************************************************************************)
MatrixRow == [id : Nat, claim : Nat, blank : BOOLEAN]

Sound(rows) ==
    /\ rows \in Seq(MatrixRow)
    /\ \A i \in DOMAIN rows : rows[i].id # NewId /\ ~rows[i].blank
    /\ \A i, j \in DOMAIN rows : rows[i].id = rows[j].id => i = j

\* Of two rows with one id the first states a claim, and the other is blank.
Sendable(rows) ==
    /\ rows \in Seq(MatrixRow)
    /\ \A i, j \in DOMAIN rows : i < j /\ rows[i].id = rows[j].id /\ rows[i].id # NewId
                                 => ~rows[i].blank /\ rows[j].blank

LEMMA IdsAreBounded ==
  ASSUME NEW rows \in Seq(MatrixRow)
  PROVE  /\ Highest(Ids(rows)) \in Nat
         /\ \A i \in DOMAIN rows : rows[i].id \in Nat /\ rows[i].id <= Highest(Ids(rows))
<1>1. /\ Len(rows) \in Nat /\ DOMAIN rows = 1..Len(rows)
      /\ \A i \in DOMAIN rows : rows[i] \in MatrixRow
  BY LenProperties, ElementOfSeq
<1>2. PICK f : f = [i \in DOMAIN rows |-> rows[i].id]
  OBVIOUS
<1>3. f \in Surjection(DOMAIN rows, Ids(rows))
  BY <1>2 DEF Surjection, Ids
<1>4. IsFiniteSet(DOMAIN rows)
  BY <1>1, FS_Interval
<1>5. IsFiniteSet(Ids(rows)) /\ Ids(rows) \in SUBSET Nat
  <2>1. IsFiniteSet(Ids(rows))
    BY <1>3, <1>4, FS_Surjection
  <2>2. QED
    BY <1>1, <2>1 DEF Ids, MatrixRow
<1>6. QED
  BY <1>1, <1>5, HighestBounds DEF Ids, MatrixRow

\* What RenumberFrom gives: ids of their own to all rows, kept or above `top`.
Renumbered(out, rows, n, top) ==
    /\ DOMAIN out = 1..n
    /\ \A i \in 1..n : /\ out[i].id \in Nat \ {0}
                       /\ out[i].claim = rows[i].claim /\ out[i].blank = FALSE
                       /\ out[i] \in [id : Nat, claim : {rows[i].claim}, blank : {FALSE}]
                       /\ KeepsId(rows, i) => out[i].id = rows[i].id
                       /\ ~KeepsId(rows, i) => out[i].id > top
    /\ \A i, j \in 1..n : out[i].id = out[j].id => i = j

LEMMA NewNumbers ==
  ASSUME NEW rows, NEW n \in Nat, DOMAIN rows = 1..n, NEW top \in Nat,
         \A i \in 1..n : rows[i].id \in Nat /\ rows[i].id <= top,
         NEW out, out = RenumberFrom(top, rows)
  PROVE  Renumbered(out, rows, n, top)
<1>1. PICK fresh : fresh = [i \in 1..n |-> {j \in 1..i : ~KeepsId(rows, j)}]
  OBVIOUS
<1>2. PICK num : num = [i \in 1..n |-> IF KeepsId(rows, i) THEN rows[i].id
                                       ELSE top + Cardinality(fresh[i])]
  OBVIOUS
<1>3. \A i \in 1..n : out[i] = [id |-> num[i], claim |-> rows[i].claim, blank |-> FALSE]
  <2> TAKE i \in 1..n
  <2>1. out[i] = [id |-> IF KeepsId(rows, i) THEN rows[i].id
                         ELSE top + Cardinality({j \in 1..i : ~KeepsId(rows, j)}),
                  claim |-> rows[i].claim, blank |-> FALSE]
    BY DEF RenumberFrom
  <2>2. fresh[i] = {j \in 1..i : ~KeepsId(rows, j)}
    BY <1>1
  <2>3. QED
    BY <1>2, <2>1, <2>2
<1>4. \A i \in 1..n : out[i].id = num[i] /\ out[i].claim = rows[i].claim /\ out[i].blank = FALSE
  <2> TAKE i \in 1..n
  <2>1. out[i] = [id |-> num[i], claim |-> rows[i].claim, blank |-> FALSE]
    BY <1>3
  <2>2. QED
    BY <2>1
<1>5. DOMAIN out = 1..n
  BY DEF RenumberFrom
<1>6. \A i \in 1..n : IsFiniteSet(fresh[i]) /\ Cardinality(fresh[i]) \in Nat
  <2> TAKE i \in 1..n
  <2>1. IsFiniteSet(1..i)
    BY FS_Interval
  <2>2. fresh[i] \in SUBSET (1..i)
    BY <1>1
  <2>3. QED
    BY <2>1, <2>2, FS_Subset, FS_CardinalityType
<1>7. \A i \in 1..n : ~KeepsId(rows, i) => Cardinality(fresh[i]) # 0
  <2> SUFFICES ASSUME NEW i \in 1..n, ~KeepsId(rows, i) PROVE Cardinality(fresh[i]) # 0
    OBVIOUS
  <2>1. i \in 1..i
    OBVIOUS
  <2>2. i \in fresh[i]
    BY <1>1, <2>1
  <2>3. QED
    BY <1>6, <2>2, FS_EmptySet
<1>8. \A i, j \in 1..n : i < j /\ ~KeepsId(rows, j) => Cardinality(fresh[i]) < Cardinality(fresh[j])
  <2> SUFFICES ASSUME NEW i \in 1..n, NEW j \in 1..n, i < j, ~KeepsId(rows, j)
               PROVE  Cardinality(fresh[i]) < Cardinality(fresh[j])
    OBVIOUS
  <2>1. fresh[i] \in SUBSET fresh[j] /\ j \in fresh[j] /\ j \notin fresh[i]
    <3>1. 1..i \subseteq 1..j /\ j \in 1..j /\ j \notin 1..i
      OBVIOUS
    <3>2. fresh[i] = {k \in 1..i : ~KeepsId(rows, k)} /\ fresh[j] = {k \in 1..j : ~KeepsId(rows, k)}
      BY <1>1
    <3>3. QED
      BY <3>1, <3>2
  <2>2. /\ Cardinality(fresh[i]) <= Cardinality(fresh[j])
        /\ Cardinality(fresh[i]) = Cardinality(fresh[j]) => fresh[i] = fresh[j]
    BY <1>6, <2>1, FS_Subset
  <2>3. QED
    BY <1>6, <2>1, <2>2
<1>9. \A i \in 1..n : KeepsId(rows, i) => out[i].id = rows[i].id /\ out[i].id # 0 /\ out[i].id <= top
  BY <1>2, <1>4 DEF KeepsId, NewId
<1>10. \A i \in 1..n : ~KeepsId(rows, i) => out[i].id = top + Cardinality(fresh[i]) /\ out[i].id > top
  <2> SUFFICES ASSUME NEW i \in 1..n, ~KeepsId(rows, i)
               PROVE  out[i].id = top + Cardinality(fresh[i]) /\ out[i].id > top
    OBVIOUS
  <2>1. out[i].id = top + Cardinality(fresh[i])
    BY <1>2, <1>4
  <2>2. QED
    BY <1>6, <1>7, <2>1
<1>11. \A i \in 1..n : out[i].id \in Nat \ {0}
  BY <1>6, <1>9, <1>10
<1>12. \A i, j \in 1..n : i < j => out[i].id # out[j].id
  <2> SUFFICES ASSUME NEW i \in 1..n, NEW j \in 1..n, i < j PROVE out[i].id # out[j].id
    OBVIOUS
  <2>1. CASE KeepsId(rows, i) /\ KeepsId(rows, j)
    BY <1>9, <2>1 DEF KeepsId
  <2>2. CASE ~KeepsId(rows, i) /\ ~KeepsId(rows, j)
    BY <1>6, <1>8, <1>10, <2>2
  <2>3. CASE KeepsId(rows, i) <=> ~KeepsId(rows, j)
    BY <1>9, <1>10, <1>11, <2>3
  <2>4. QED
    BY <2>1, <2>2, <2>3
<1>13. \A i, j \in 1..n : out[i].id = out[j].id => i = j
  <2>1. \A i, j \in 1..n : i < j \/ j < i \/ i = j
    OBVIOUS
  <2>2. QED
    BY <1>12, <2>1
<1>14. \A i \in 1..n : out[i] \in [id : Nat, claim : {rows[i].claim}, blank : {FALSE}]
  <2> TAKE i \in 1..n
  <2>1. num[i] \in Nat
    BY <1>11, <1>4
  <2>2. out[i] = [id |-> num[i], claim |-> rows[i].claim, blank |-> FALSE]
    BY <1>3
  <2>3. QED
    BY <2>1, <2>2
<1>15. QED
  BY <1>5, <1>9, <1>10, <1>11, <1>13, <1>14, <1>4 DEF Renumbered

LEMMA PickedFromSeq ==
  ASSUME NEW rows \in Seq(MatrixRow), NEW S \in SUBSET DOMAIN rows
  PROVE  /\ Picked(rows, S) \in Seq(MatrixRow)
         /\ DOMAIN Picked(rows, S) = 1..Len(Picked(rows, S)) /\ Len(Picked(rows, S)) \in Nat
         /\ \A i \in S : \E k \in DOMAIN Picked(rows, S) : Picked(rows, S)[k] = rows[i]
         /\ \A k \in DOMAIN Picked(rows, S) : \E i \in S : Picked(rows, S)[k] = rows[i]
         /\ \A k, l \in DOMAIN Picked(rows, S) : k # l =>
              \E i, j \in S : i # j /\ Picked(rows, S)[k] = rows[i] /\ Picked(rows, S)[l] = rows[j]
<1>1. PICK n : n = Len(rows)
  OBVIOUS
<1>2. n \in Nat /\ DOMAIN rows = 1..n /\ \A i \in 1..n : rows[i] \in MatrixRow
  BY <1>1, LenProperties, ElementOfSeq
<1>3. PICK p, m : p = Picked(rows, S) /\ m = Cardinality(S)
  OBVIOUS
<1>4. /\ DOMAIN p = 1..m /\ m \in Nat
      /\ \A i \in S : Place(S, i) \in DOMAIN p /\ p[Place(S, i)] = rows[i]
      /\ \A k \in DOMAIN p : \E i \in S : Place(S, i) = k
  BY <1>2, <1>3, PickedRows
<1>5. \A k \in DOMAIN p : \E i \in S : p[k] = rows[i]
  BY <1>4
<1>6. \A i \in S : \E k \in DOMAIN p : p[k] = rows[i]
  BY <1>4
<1>7. \A k, l \in DOMAIN p : k # l =>
        \E i, j \in S : i # j /\ p[k] = rows[i] /\ p[l] = rows[j]
  BY <1>4
<1>8. p \in Seq(MatrixRow)
  <2>1. p = [k \in 1..m |-> p[k]]
    BY <1>3, <1>4 DEF Picked
  <2>2. \A k \in 1..m : p[k] \in MatrixRow
    BY <1>2, <1>4, <1>5
  <2>3. p \in [1..m -> MatrixRow]
    BY <2>1, <2>2
  <2>4. QED
    BY <1>4, <2>3, SeqDef
<1>9. DOMAIN p = 1..Len(p) /\ Len(p) \in Nat
  BY <1>8, LenProperties
<1>10. QED
  BY <1>3, <1>5, <1>6, <1>7, <1>8, <1>9

\* Normalised rows have ids of their own, and what was kept kept its claim.
LEMMA NumberedRows ==
  ASSUME NEW rows \in Seq(MatrixRow)
  PROVE  /\ Sound(Numbered(rows))
         /\ \A k \in DOMAIN Numbered(rows) :
              Numbered(rows)[k].id \in Ids(rows) =>
                \E i \in Filled(rows) : /\ rows[i].id = Numbered(rows)[k].id
                                        /\ rows[i].claim = Numbered(rows)[k].claim
<1>1. PICK kept, top, out :
         /\ kept = Picked(rows, Filled(rows)) /\ top = Highest(Ids(rows))
         /\ out = RenumberFrom(top, kept)
  OBVIOUS
<1>2. out = Numbered(rows)
  BY <1>1 DEF Numbered
<1>3. top \in Nat /\ \A i \in DOMAIN rows : rows[i].id \in Nat /\ rows[i].id <= top
  BY <1>1, IdsAreBounded
<1>4. PICK n : n = Len(kept)
  OBVIOUS
<1>5. /\ n \in Nat /\ DOMAIN kept = 1..n /\ kept \in Seq(MatrixRow)
      /\ \A k \in 1..n : \E i \in Filled(rows) : kept[k] = rows[i]
  <2>1. Filled(rows) \in SUBSET DOMAIN rows
    BY DEF Filled
  <2>2. /\ kept \in Seq(MatrixRow) /\ DOMAIN kept = 1..Len(kept) /\ Len(kept) \in Nat
        /\ \A k \in DOMAIN kept : \E i \in Filled(rows) : kept[k] = rows[i]
    BY <1>1, <2>1, PickedFromSeq
  <2>3. QED
    BY <1>4, <2>2
<1>6. \A k \in 1..n : kept[k].id \in Nat /\ kept[k].id <= top
  BY <1>3, <1>5 DEF Filled
<1>7. Renumbered(out, kept, n, top)
  <2>1. n \in Nat /\ DOMAIN kept = 1..n /\ top \in Nat /\ out = RenumberFrom(top, kept)
    BY <1>1, <1>3, <1>5
  <2>2. QED
    BY <1>6, <2>1, NewNumbers
<1>8. DOMAIN out = 1..n /\ \A i, j \in 1..n : out[i].id = out[j].id => i = j
  BY <1>7 DEF Renumbered
<1>9. \A i \in 1..n : /\ out[i].id \in Nat \ {0} /\ out[i].blank = FALSE
                       /\ out[i].claim = kept[i].claim
                       /\ out[i] \in [id : Nat, claim : {kept[i].claim}, blank : {FALSE}]
  BY <1>7 DEF Renumbered
<1>10. \A i \in 1..n : /\ KeepsId(kept, i) => out[i].id = kept[i].id
                       /\ ~KeepsId(kept, i) => out[i].id > top
  BY <1>7 DEF Renumbered
<1>11. Sound(out)
  <2>1. \A i \in 1..n : out[i] \in MatrixRow
    <3> TAKE i \in 1..n
    <3>1. kept[i] \in MatrixRow
      BY <1>4, <1>5, ElementOfSeq
    <3>2. kept[i].claim \in Nat
      BY <3>1 DEF MatrixRow
    <3>3. QED
      BY <1>9, <3>2 DEF MatrixRow
  <2>2. out \in Seq(MatrixRow)
    <3>1. out = [i \in 1..n |-> out[i]]
      BY <1>1, <1>5 DEF RenumberFrom
    <3>2. out \in [1..n -> MatrixRow]
      BY <2>1, <3>1
    <3>3. QED
      BY <1>5, <3>2, SeqDef
  <2>3. QED
    BY <1>8, <1>9, <2>2 DEF Sound, NewId
<1>12. ASSUME NEW k \in 1..n, out[k].id \in Ids(rows)
      PROVE  \E i \in Filled(rows) : rows[i].id = out[k].id /\ rows[i].claim = out[k].claim
  <2>1. out[k].id <= top /\ out[k].id \in Nat
    BY <1>3, <1>12 DEF Ids
  <2>2. KeepsId(kept, k)
    BY <1>3, <1>10, <2>1
  <2>3. QED
    BY <1>5, <1>9, <1>10, <2>2
<1>13. QED
  BY <1>2, <1>8, <1>11, <1>12

\* The claim of the one row that has the id, or of the first that has it.
LEMMA ClaimOfFirst ==
  ASSUME NEW rows \in Seq(MatrixRow), NEW i \in DOMAIN rows,
         \A j \in DOMAIN rows : j < i => rows[j].id # rows[i].id
  PROVE  ClaimOf(rows, rows[i].id) = rows[i].claim
<1>1. PICK n : n = Len(rows)
  OBVIOUS
<1>2. n \in Nat /\ DOMAIN rows = 1..n
  BY <1>1, LenProperties
<1>3. \A j \in DOMAIN rows : (\A l \in 1..(j - 1) : rows[l].id # rows[i].id)
                             <=> \A l \in DOMAIN rows : l < j => rows[l].id # rows[i].id
  <2> TAKE j \in DOMAIN rows
  <2>1. \A l : l \in 1..(j - 1) <=> l \in DOMAIN rows /\ l < j
    BY <1>2
  <2>2. QED
    BY <2>1
<1>4. \A j \in DOMAIN rows : rows[j].id = rows[i].id /\ (\A l \in DOMAIN rows : l < j => rows[l].id # rows[i].id)
                             => j = i
  BY <1>2
<1>5. (CHOOSE j \in DOMAIN rows : /\ rows[j].id = rows[i].id
                                  /\ \A l \in 1..(j - 1) : rows[l].id # rows[i].id) = i
  BY <1>3, <1>4
<1>6. QED
  BY <1>5 DEF ClaimOf

\* A rating that survives judges what it judged: the row of its id was kept.
LEMMA RatingsKeepTheirClaim ==
  ASSUME NEW rows, Sendable(rows), NEW n \in Ids(rows), n # NewId, n \in Ids(Numbered(rows))
  PROVE  ClaimOf(Numbered(rows), n) = ClaimOf(rows, n)
<1>1. PICK out : out = Numbered(rows)
  OBVIOUS
<1>2. rows \in Seq(MatrixRow) /\ Sound(out)
  BY <1>1, NumberedRows DEF Sendable
<1>3. PICK k \in DOMAIN out : out[k].id = n
  BY <1>1 DEF Ids
<1>4. ClaimOf(out, n) = out[k].claim
  <2>1. \A j \in DOMAIN out : j < k => out[j].id # out[k].id
    <3>1. DOMAIN out \in SUBSET Int
      BY <1>2, LenProperties DEF Sound
    <3>2. QED
      BY <1>2, <3>1 DEF Sound
  <2>2. QED
    BY <1>2, <1>3, <2>1, ClaimOfFirst DEF Sound
<1>5. PICK i \in Filled(rows) : rows[i].id = n /\ rows[i].claim = out[k].claim
  BY <1>1, <1>2, <1>3, NumberedRows
<1>6. \A j \in DOMAIN rows : j < i => rows[j].id # rows[i].id
  BY <1>5 DEF Sendable, Filled
<1>7. ClaimOf(rows, n) = rows[i].claim
  BY <1>2, <1>5, <1>6, ClaimOfFirst DEF Filled
<1>8. QED
  BY <1>1, <1>4, <1>5, <1>7

\* What a client sends: rows it saw, perhaps a blanked one, perhaps a new one.
LEMMA SentAreSendable ==
  ASSUME NEW saw, Sound(saw.hyps), claims \in Nat, NEW rows \in SentRows(saw)
  PROVE  Sendable(rows)
<1>1. PICK keep \in SUBSET DOMAIN saw.hyps, blanked \in BlankedRows(saw), new \in NewRows :
        rows = SentBack(saw, keep, blanked, new)
  BY DEF SentRows
<1>2. PICK a : a = Picked(saw.hyps, keep)
  OBVIOUS
<1>3. /\ a \in Seq(MatrixRow) /\ DOMAIN a = 1..Len(a) /\ Len(a) \in Nat
      /\ \A i \in DOMAIN a : a[i].id # NewId /\ ~a[i].blank
      /\ \A i, j \in DOMAIN a : i # j => a[i].id # a[j].id
  <2>1. saw.hyps \in Seq(MatrixRow) /\ keep \in SUBSET DOMAIN saw.hyps
    BY DEF Sound
  <2>2. /\ a \in Seq(MatrixRow) /\ DOMAIN a = 1..Len(a) /\ Len(a) \in Nat
        /\ \A k \in DOMAIN a : \E i \in keep : a[k] = saw.hyps[i]
        /\ \A k, l \in DOMAIN a : k # l =>
             \E i, j \in keep : i # j /\ a[k] = saw.hyps[i] /\ a[l] = saw.hyps[j]
    <3>1. /\ Picked(saw.hyps, keep) \in Seq(MatrixRow)
          /\ DOMAIN Picked(saw.hyps, keep) = 1..Len(Picked(saw.hyps, keep))
          /\ Len(Picked(saw.hyps, keep)) \in Nat
      BY <2>1, PickedFromSeq
    <3>2. \A k \in DOMAIN Picked(saw.hyps, keep) :
             \E i \in keep : Picked(saw.hyps, keep)[k] = saw.hyps[i]
      BY <2>1, PickedFromSeq
    <3>3. \A k, l \in DOMAIN Picked(saw.hyps, keep) : k # l =>
             \E i, j \in keep : /\ i # j /\ Picked(saw.hyps, keep)[k] = saw.hyps[i]
                                /\ Picked(saw.hyps, keep)[l] = saw.hyps[j]
      BY <2>1, PickedFromSeq
    <3>4. QED
      BY <1>2, <3>1, <3>2, <3>3
  <2>3. \A i \in DOMAIN a : a[i].id # NewId /\ ~a[i].blank
    BY <2>1, <2>2 DEF Sound
  <2>4. \A i, j \in DOMAIN a : i # j => a[i].id # a[j].id
    <3> SUFFICES ASSUME NEW k \in DOMAIN a, NEW l \in DOMAIN a, k # l PROVE a[k].id # a[l].id
      OBVIOUS
    <3>1. PICK i \in keep, j \in keep : i # j /\ a[k] = saw.hyps[i] /\ a[l] = saw.hyps[j]
      BY <2>2
    <3>2. QED
      BY <2>1, <3>1 DEF Sound
  <2>5. QED
    BY <2>2, <2>3, <2>4
<1>4. /\ blanked \in Seq(MatrixRow) /\ Len(blanked) \in {0, 1}
      /\ \A i \in 1..Len(blanked) : blanked[i].blank
  <2>1. CASE blanked = <<>>
    BY <2>1
  <2>2. CASE blanked # <<>>
    <3>1. PICK n \in Ids(saw.hyps) : blanked = <<[id |-> n, claim |-> 0, blank |-> TRUE]>>
      BY <2>2 DEF BlankedRows
    <3>2. n \in Nat
      <4>1. saw.hyps \in Seq(MatrixRow)
        BY DEF Sound
      <4>2. \A i \in DOMAIN saw.hyps : saw.hyps[i].id \in Nat
        BY <4>1, IdsAreBounded
      <4>3. QED
        BY <4>2 DEF Ids
    <3>3. PICK row \in MatrixRow : row = [id |-> n, claim |-> 0, blank |-> TRUE]
      BY <3>2 DEF MatrixRow
    <3>4. blanked = <<row>> /\ row.blank
      BY <3>1, <3>3
    <3>5. QED
      BY <3>4
  <2>3. QED
    BY <2>1, <2>2
<1>5. /\ new \in Seq(MatrixRow) /\ Len(new) \in {0, 1}
      /\ \A i \in 1..Len(new) : new[i].id = NewId
  <2>0. claims + 1 \in Nat
    OBVIOUS
  <2>1. PICK row \in MatrixRow : row = [id |-> NewId, claim |-> claims + 1, blank |-> FALSE]
    BY <2>0 DEF MatrixRow, NewId
  <2>2. new = <<>> \/ new = <<row>>
    BY <2>1 DEF NewRows
  <2>3. row.id = NewId
    BY <2>1
  <2>4. CASE new = <<>>
    BY <2>4
  <2>5. CASE new = <<row>>
    BY <2>3, <2>5
  <2>6. QED
    BY <2>2, <2>4, <2>5
<1>6. PICK c : c = a \o blanked
  OBVIOUS
<1>7. /\ c \in Seq(MatrixRow) /\ Len(c) = Len(a) + Len(blanked)
      /\ \A i \in 1..Len(c) : c[i] = IF i <= Len(a) THEN a[i] ELSE blanked[i - Len(a)]
  BY <1>3, <1>4, <1>6, ConcatProperties
<1>8. rows = c \o new
  BY <1>1, <1>2, <1>6 DEF SentBack
<1>9. /\ rows \in Seq(MatrixRow) /\ Len(rows) = Len(c) + Len(new)
      /\ \A i \in 1..Len(rows) : rows[i] = IF i <= Len(c) THEN c[i] ELSE new[i - Len(c)]
  <2>1. c \in Seq(MatrixRow) /\ new \in Seq(MatrixRow)
    BY <1>5, <1>7
  <2>2. QED
    BY <1>8, <2>1, ConcatProperties
<1>10. DOMAIN rows = 1..Len(rows)
  BY <1>9, LenProperties
<1>11. \A i \in DOMAIN rows : \/ i \in DOMAIN a /\ rows[i] = a[i]
                              \/ i = Len(a) + 1 /\ rows[i].blank
                              \/ rows[i].id = NewId
  <2> TAKE i \in DOMAIN rows
  <2>0. i \in Int /\ 1 <= i /\ i <= Len(rows)
    BY <1>3, <1>4, <1>5, <1>7, <1>9, <1>10
  <2>1. CASE i <= Len(a)
    BY <1>3, <1>4, <1>7, <1>9, <1>10, <2>0, <2>1
  <2>2. CASE i > Len(a) /\ i <= Len(c)
    <3>1. i - Len(a) \in 1..Len(blanked) /\ i = Len(a) + 1
      BY <1>3, <1>4, <1>7, <2>0, <2>2
    <3>2. rows[i] = blanked[i - Len(a)]
      BY <1>3, <1>4, <1>7, <1>9, <1>10, <2>0, <2>2
    <3>3. QED
      BY <1>4, <3>1, <3>2
  <2>3. CASE i > Len(c)
    <3>1. i - Len(c) \in 1..Len(new)
      BY <1>3, <1>4, <1>5, <1>7, <1>9, <2>0, <2>3
    <3>2. rows[i] = new[i - Len(c)]
      BY <1>3, <1>4, <1>7, <1>9, <1>10, <2>0, <2>3
    <3>3. QED
      BY <1>5, <3>1, <3>2
  <2>4. QED
    BY <1>3, <1>4, <1>7, <2>0, <2>1, <2>2, <2>3
<1>12. ASSUME NEW i \in DOMAIN rows, NEW j \in DOMAIN rows,
              i < j, rows[i].id = rows[j].id, rows[i].id # NewId
       PROVE  ~rows[i].blank /\ rows[j].blank
  <2>1. i \in DOMAIN a /\ rows[i] = a[i]
    BY <1>3, <1>4, <1>5, <1>7, <1>9, <1>10, <1>11, <1>12
  <2>2. j \notin DOMAIN a \/ rows[j] # a[j]
    BY <1>3, <1>12, <2>1
  <2>3. rows[j].blank
    BY <1>11, <1>12, <2>2
  <2>4. QED
    BY <1>3, <2>1, <2>3
<1>13. QED
  BY <1>9, <1>12 DEF Sendable

\* A body as its request was given it: the rows it sends are Sendable, and
\* the ratings it sends judge the claims of the rows they will be saved with.
RowsOf(saw, body) == IF "hyps" \in body.sends THEN body.hyps ELSE saw.hyps
JudgeTheirRows(rows, ratings) ==
    \A r \in ratings : r.id # NewId /\ r.id \in Ids(rows) /\ r.about = ClaimOf(rows, r.id)

BodyFits(saw, body) ==
    /\ Sendable(RowsOf(saw, body))
    /\ "ratings" \in body.sends => JudgeTheirRows(RowsOf(saw, body), body.ratings)

LEMMA SoundIsSendable ==
  ASSUME NEW rows, Sound(rows)
  PROVE  Sendable(rows)
<1>1. rows \in Seq(MatrixRow) /\ \A i, j \in DOMAIN rows : rows[i].id = rows[j].id => i = j
  BY DEF Sound
<1>2. DOMAIN rows \in SUBSET Int
  BY <1>1, LenProperties
<1>3. \A i, j \in DOMAIN rows : i < j => i # j
  BY <1>2
<1>4. QED
  BY <1>1, <1>3 DEF Sendable

LEMMA SentJudge ==
  ASSUME NEW rows, NEW ratings \in SentRatings(rows)
  PROVE  JudgeTheirRows(rows, ratings)
BY DEF SentRatings, JudgeTheirRows

LEMMA BodiesFit ==
  ASSUME NEW saw, Sound(saw.hyps), claims \in Nat, NEW body \in Bodies(saw)
  PROVE  BodyFits(saw, body)
<1>1. \/ \E ratings \in SentRatings(saw.hyps) :
            body = [sends |-> {"ratings"}, hyps |-> saw.hyps, ratings |-> ratings]
      \/ \E rows \in SentRows(saw) : body = [sends |-> {"hyps"}, hyps |-> rows, ratings |-> {}]
      \/ \E rows \in SentRows(saw) : \E ratings \in SentRatings(rows) :
            body = [sends |-> {"hyps", "ratings"}, hyps |-> rows, ratings |-> ratings]
  BY Zenon DEF Bodies
<1>2. ASSUME NEW ratings \in SentRatings(saw.hyps),
             body = [sends |-> {"ratings"}, hyps |-> saw.hyps, ratings |-> ratings]
      PROVE  BodyFits(saw, body)
  <2>1. RowsOf(saw, body) = saw.hyps /\ body.ratings = ratings
    BY <1>2 DEF RowsOf
  <2>2. QED
    BY <2>1, SoundIsSendable, SentJudge DEF BodyFits
<1>3. ASSUME NEW rows \in SentRows(saw), body = [sends |-> {"hyps"}, hyps |-> rows, ratings |-> {}]
      PROVE  BodyFits(saw, body)
  <2>1. RowsOf(saw, body) = rows /\ body.ratings = {}
    BY <1>3 DEF RowsOf
  <2>2. QED
    BY <2>1, SentAreSendable DEF BodyFits, JudgeTheirRows
<1>4. ASSUME NEW rows \in SentRows(saw), NEW ratings \in SentRatings(rows),
             body = [sends |-> {"hyps", "ratings"}, hyps |-> rows, ratings |-> ratings]
      PROVE  BodyFits(saw, body)
  <2>1. RowsOf(saw, body) = rows /\ body.ratings = ratings
    BY <1>4 DEF RowsOf
  <2>2. QED
    BY <2>1, SentAreSendable, SentJudge DEF BodyFits
<1>5. QED
  BY <1>1, <1>2, <1>3, <1>4

\* What a request writes is sound, and ratings it sent still fit their rows.
LEMMA PatchedFits ==
  ASSUME NEW saw, NEW body, BodyFits(saw, body)
  PROVE  /\ Sound(Patched(saw, body).hyps)
         /\ "ratings" \in body.sends =>
              \A r \in Patched(saw, body).ratings :
                 /\ r.id \in Ids(Patched(saw, body).hyps)
                 /\ r.about = ClaimOf(Patched(saw, body).hyps, r.id)
<1>1. PICK rows, ratings :
        /\ rows = RowsOf(saw, body)
        /\ ratings = IF "ratings" \in body.sends THEN body.ratings ELSE saw.ratings
  OBVIOUS
<1>2. Patched(saw, body) = [alive |-> TRUE, hyps |-> Numbered(rows),
                            ratings |-> WithoutOrphans(Numbered(rows), ratings)]
  BY <1>1 DEF Patched, RowsOf
<1>3. Sendable(rows) /\ ("ratings" \in body.sends => JudgeTheirRows(rows, ratings))
  BY <1>1 DEF BodyFits
<1>4. Sound(Numbered(rows))
  BY <1>3, NumberedRows DEF Sendable
<1>5. ASSUME "ratings" \in body.sends, NEW r \in WithoutOrphans(Numbered(rows), ratings)
      PROVE  r.id \in Ids(Numbered(rows)) /\ r.about = ClaimOf(Numbered(rows), r.id)
  <2>1. r.id # NewId /\ r.id \in Ids(rows) /\ r.about = ClaimOf(rows, r.id)
    BY <1>3, <1>5 DEF JudgeTheirRows, WithoutOrphans
  <2>2. r.id \in Ids(Numbered(rows))
    BY DEF WithoutOrphans
  <2>3. ClaimOf(Numbered(rows), r.id) = ClaimOf(rows, r.id)
    BY <1>3, <2>1, <2>2, RatingsKeepTheirClaim
  <2>4. QED
    BY <2>1, <2>2, <2>3
<1>6. QED
  BY <1>2, <1>4, <1>5

(***************************************************************************)
(* A matrix of competing hypotheses keeps no rating without its row, until *)
(* two overlapping requests each write a column; and a matrix saved with   *)
(* its ratings on a copy nobody changed since has every rating judge the   *)
(* claim of its row.  What the proofs need is that such a copy is the      *)
(* matrix as it is, and that a request was made for the rows it read.      *)
(***************************************************************************)
MatrixShape(m) == m = [alive |-> m.alive, hyps |-> m.hyps, ratings |-> m.ratings]

EditShape(x) ==
    x # NoEdit =>
      /\ {"saw", "body", "stale"} \subseteq DOMAIN x
      /\ x.stale \in BOOLEAN
      /\ x.saw.alive = TRUE
      /\ BodyFits(x.saw, x.body)

AchShapes ==
    /\ MatrixShape(matrix) /\ Sound(matrix.hyps)
    /\ claims \in Nat
    /\ mixed \in BOOLEAN
    /\ DOMAIN edit = Editors
    /\ \A e \in Editors : EditShape(edit[e])

\* A copy that is not stale is the matrix itself, as long as there is one.
UnchangedCopies ==
    \A e \in Editors : edit[e] # NoEdit /\ ~edit[e].stale /\ matrix.alive
                         => edit[e].saw = matrix

AchInv == AchShapes /\ UnchangedCopies /\ NoOrphanRatings

LEMMA NoRowsAreSound == Sound(<<>>)
BY DEF Sound

LEMMA AchInitInv == AchInit => AchInv
<1> SUFFICES ASSUME AchInit PROVE AchInv
  OBVIOUS
<1>1. /\ matrix = [alive |-> TRUE, hyps |-> <<>>, ratings |-> {}]
      /\ edit = [e \in Editors |-> NoEdit] /\ mixed = FALSE /\ claims = 0
  BY DEF AchInit
<1>2. MatrixShape(matrix) /\ Sound(matrix.hyps)
  BY <1>1, NoRowsAreSound DEF MatrixShape
<1>3. AchShapes /\ UnchangedCopies
  BY <1>1, <1>2 DEF AchShapes, EditShape, UnchangedCopies
<1>4. NoOrphanRatings
  BY <1>1 DEF NoOrphanRatings
<1>5. QED
  BY <1>3, <1>4 DEF AchInv

\* The columns of a copy that nobody changed since are those it was patched to.
LEMMA WrittenWhole ==
  ASSUME NEW kept, NEW new, MatrixShape(kept), MatrixShape(new)
  PROVE  Written(kept, kept, new) = new
<1>1. DOMAIN kept = {"alive", "hyps", "ratings"}
  BY DEF MatrixShape
<1>2. Written(kept, kept, new) = [c \in {"alive", "hyps", "ratings"} |-> new[c]]
  BY <1>1 DEF Written
<1>3. QED
  BY <1>2 DEF MatrixShape

LEMMA WrittenShape ==
  ASSUME NEW kept, NEW saw, NEW new, MatrixShape(kept),
         Sound(kept.hyps), Sound(new.hyps)
  PROVE  MatrixShape(Written(kept, saw, new)) /\ Sound(Written(kept, saw, new).hyps)
<1>1. DOMAIN kept = {"alive", "hyps", "ratings"}
  BY DEF MatrixShape
<1>2. MatrixShape(Written(kept, saw, new))
  BY <1>1 DEF Written, MatrixShape
<1>3. Written(kept, saw, new).hyps \in {new.hyps, kept.hyps}
  BY <1>1 DEF Written
<1>4. QED
  BY <1>2, <1>3

LEMMA PatchedHasNoOrphans ==
  ASSUME NEW saw, NEW body
  PROVE  /\ MatrixShape(Patched(saw, body))
         /\ Patched(saw, body).alive = TRUE
         /\ \A r \in Patched(saw, body).ratings : r.id \in Ids(Patched(saw, body).hyps)
<1>1. PICK hyps, ratings :
        Patched(saw, body) = [alive |-> TRUE, hyps |-> hyps,
                              ratings |-> WithoutOrphans(hyps, ratings)]
  BY DEF Patched
<1>2. QED
  BY <1>1 DEF MatrixShape, WithoutOrphans

LEMMA AchStep ==
  ASSUME AchInv, [AchNext]_achVars
  PROVE  AchInv'
<1>0. /\ MatrixShape(matrix) /\ mixed \in BOOLEAN /\ DOMAIN edit = Editors
      /\ \A e \in Editors : EditShape(edit[e])
      /\ Sound(matrix.hyps) /\ claims \in Nat
  BY DEF AchInv, AchShapes
<1>1. CASE UNCHANGED achVars
  BY <1>1 DEF achVars, AchInv, AchShapes, UnchangedCopies, NoOrphanRatings
<1>2. ASSUME NEW e \in Editors, LoadMatrix(e) PROVE AchInv'
  <2>1. PICK body \in Bodies(matrix) :
           edit' = [edit EXCEPT ![e] = [do |-> "patch", saw |-> matrix,
                                        body |-> body, stale |-> FALSE]]
    BY <1>2 DEF LoadMatrix
  <2>2. matrix' = matrix /\ mixed' = mixed /\ matrix.alive
    BY <1>2 DEF LoadMatrix
  <2>3. matrix.alive = TRUE
    BY <1>2 DEF LoadMatrix, AchInv, AchShapes
  <2>4. AchShapes'
    <3>1. BodyFits(matrix, body)
      BY <1>0, BodiesFit
    <3>2. \A x \in Editors : EditShape(edit'[x])
      BY <1>0, <2>1, <2>3, <3>1 DEF EditShape
    <3>3. DOMAIN edit' = Editors /\ claims' \in Nat
      BY <1>0, <1>2, <2>1 DEF LoadMatrix
    <3>4. QED
      BY <1>0, <2>2, <3>2, <3>3 DEF AchShapes
  <2>5. UnchangedCopies'
    BY <1>0, <2>1, <2>2 DEF AchInv, UnchangedCopies
  <2>6. QED
    BY <2>2, <2>4, <2>5 DEF AchInv, NoOrphanRatings
<1>3. ASSUME NEW e \in Editors, SaveMatrix(e) PROVE AchInv'
  <2>0. edit[e] # NoEdit /\ edit[e].saw.alive = TRUE /\ edit[e].stale \in BOOLEAN
    BY <1>0, <1>3 DEF SaveMatrix, NoEdit, EditShape
  <2>1. CASE ~matrix.alive
    <3>1. edit' = [edit EXCEPT ![e] = NoEdit] /\ UNCHANGED <<matrix, mixed, claims>>
      BY <1>3, <2>1 DEF SaveMatrix
    <3>2. \A x \in Editors : EditShape(edit'[x])
      BY <1>0, <3>1 DEF EditShape
    <3>3. AchShapes'
      BY <1>0, <3>1, <3>2 DEF AchShapes
    <3>4. QED
      BY <2>1, <3>1, <3>3 DEF AchInv, UnchangedCopies, NoOrphanRatings
  <2>2. CASE matrix.alive
    <3>1. PICK new : new = Patched(edit[e].saw, edit[e].body)
      OBVIOUS
    <3>2. /\ matrix' = Written(matrix, edit[e].saw, new)
          /\ mixed' = (mixed \/ edit[e].stale)
          /\ edit' = [x \in Editors |->
                        IF x = e \/ edit[x] = NoEdit THEN NoEdit
                        ELSE [edit[x] EXCEPT !.stale = TRUE]]
          /\ claims' = claims
      BY <1>3, <2>2, <3>1 DEF SaveMatrix
    <3>3. \A x \in Editors : EditShape(edit'[x]) /\ (edit'[x] # NoEdit => edit'[x].stale)
      <4> SUFFICES ASSUME NEW x \in Editors
                   PROVE  EditShape(edit'[x]) /\ (edit'[x] # NoEdit => edit'[x].stale)
        OBVIOUS
      <4>1. CASE x = e \/ edit[x] = NoEdit
        BY <3>2, <4>1 DEF EditShape
      <4>2. CASE ~(x = e \/ edit[x] = NoEdit)
        <5>1. edit'[x] = [edit[x] EXCEPT !.stale = TRUE]
          BY <3>2, <4>2
        <5>2. /\ {"saw", "body", "stale"} \subseteq DOMAIN edit[x]
              /\ edit[x].saw.alive = TRUE /\ BodyFits(edit[x].saw, edit[x].body)
          BY <1>0, <4>2 DEF EditShape
        <5>3. /\ {"saw", "body", "stale"} \subseteq DOMAIN edit'[x]
              /\ edit'[x].saw = edit[x].saw /\ edit'[x].stale = TRUE
              /\ edit'[x].body = edit[x].body
          BY <5>1, <5>2
        <5>4. QED
          BY <5>2, <5>3 DEF EditShape
      <4>3. QED
        BY <4>1, <4>2
    <3>4. AchShapes'
      <4>1. Sound(new.hyps)
        BY <1>0, <2>0, <3>1, PatchedFits DEF EditShape
      <4>2. MatrixShape(matrix') /\ Sound(matrix'.hyps)
        BY <1>0, <3>2, <4>1, WrittenShape
      <4>3. mixed' \in BOOLEAN /\ DOMAIN edit' = Editors
        BY <1>0, <2>0, <3>2
      <4>4. QED
        BY <1>0, <3>2, <3>3, <4>2, <4>3 DEF AchShapes
    <3>5. UnchangedCopies'
      BY <3>3 DEF UnchangedCopies
    <3>6. NoOrphanRatings'
      <4>1. SUFFICES ASSUME ~mixed' PROVE \A r \in matrix'.ratings : r.id \in Ids(matrix'.hyps)
        BY DEF NoOrphanRatings, Ids
      <4>2. edit[e].saw = matrix
        BY <2>0, <2>2, <3>2, <4>1 DEF AchInv, UnchangedCopies
      <4>3. matrix' = new
        <5>1. MatrixShape(new)
          BY <3>1, PatchedHasNoOrphans
        <5>2. Written(matrix, matrix, new) = new
          BY <1>0, <5>1, WrittenWhole
        <5>3. QED
          BY <3>2, <4>2, <5>2
      <4>4. QED
        BY <3>1, <4>3, PatchedHasNoOrphans
    <3>7. QED
      BY <3>4, <3>5, <3>6 DEF AchInv
  <2>3. QED
    BY <2>1, <2>2
<1>4. ASSUME DeleteMatrix PROVE AchInv'
  <2>1. matrix' = NoMatrix /\ UNCHANGED <<edit, mixed, claims>>
    BY <1>4 DEF DeleteMatrix
  <2>2. MatrixShape(matrix') /\ Sound(matrix'.hyps) /\ ~matrix'.alive /\ matrix'.ratings = {}
    BY <2>1, NoRowsAreSound DEF NoMatrix, MatrixShape
  <2>3. QED
    BY <1>0, <2>1, <2>2 DEF AchInv, AchShapes, UnchangedCopies, NoOrphanRatings
<1>5. QED
  BY <1>1, <1>2, <1>3, <1>4 DEF AchNext

\* Every rating belongs to a row of its matrix, until two overlapping PATCHes
\* have each written a column (services/ach.py:171): normalising drops the
\* ratings of rows that are gone, and what a commit leaves alone is what it
\* normalised.
THEOREM RatingsHaveTheirRows == AchSpec => []NoOrphanRatings
<1>1. AchInv => NoOrphanRatings
  BY DEF AchInv
<1>2. QED
  BY AchInitInv, AchStep, <1>1, PTL DEF AchSpec

\* A matrix saved with its ratings, on a copy nobody has changed since, has
\* every rating under a row and judging the claim of that row, whatever rows
\* were dropped, blanked and added and whatever ids they got
\* (services/ach.py:46-101): an id is never given to another claim in the
\* save in which its rating is kept.
THEOREM SavedRatingsFit == AchSpec => SavedRatingsFitTheirRows
<1>1. ASSUME AchInv,
             NEW e \in Editors, SaveMatrix(e), matrix.alive,
             "ratings" \in edit[e].body.sends, ~edit[e].stale
      PROVE  \A r \in matrix'.ratings : FitsItsRow(r)'
  <2>1. edit[e] # NoEdit /\ BodyFits(edit[e].saw, edit[e].body) /\ MatrixShape(matrix)
    BY <1>1 DEF AchInv, AchShapes, EditShape, SaveMatrix, NoEdit
  <2>2. edit[e].saw = matrix
    BY <1>1, <2>1 DEF AchInv, UnchangedCopies
  <2>3. PICK new : new = Patched(edit[e].saw, edit[e].body)
    OBVIOUS
  <2>4. matrix' = new
    <3>1. matrix' = Written(matrix, matrix, new)
      BY <1>1, <2>2, <2>3 DEF SaveMatrix
    <3>2. MatrixShape(new)
      BY <2>3, PatchedHasNoOrphans
    <3>3. QED
      BY <2>1, <3>1, <3>2, WrittenWhole
  <2>5. \A r \in new.ratings : r.id \in Ids(new.hyps) /\ r.about = ClaimOf(new.hyps, r.id)
    BY <1>1, <2>1, <2>3, PatchedFits
  <2>6. QED
    BY <2>4, <2>5 DEF FitsItsRow, Ids, ClaimOf
<1>2. AchInv /\ [AchNext]_achVars =>
        [\A e \in Editors :
            /\ SaveMatrix(e)
            /\ matrix.alive
            /\ "ratings" \in edit[e].body.sends
            /\ ~edit[e].stale
            => \A r \in matrix'.ratings : FitsItsRow(r)']_achVars
  BY <1>1
<1>3. QED
  BY AchInitInv, AchStep, <1>2, PTL DEF AchSpec, SavedRatingsFitTheirRows

=============================================================================
