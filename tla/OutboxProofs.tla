---------------------------- MODULE OutboxProofs ----------------------------
(***************************************************************************)
(* What the outbox promises for any number of jobs, workers, producers,    *)
(* attempts and faults: SUCCEEDED is never recorded without a delivery,    *)
(* FAILED never before the budget is spent, enqueueing again never resets  *)
(* a job, and the late write of _mark_failed is the only step that can     *)
(* reopen a settled job.                                                   *)
(***************************************************************************)
EXTENDS Outbox, FiniteSetTheorems, TLAPS

(***************************************************************************)
(* The inductive invariant.  The token in a row, if there is one, is that  *)
(* of the last claim (RowShape); every claim has a token of its own, so    *)
(* only one worker can match a row (ClaimShape, OneClaimant); and the      *)
(* failure counter stays below the attempt counter (RetriesBelow), which   *)
(* is what a job put back to PENDING still has to spend.                   *)
(***************************************************************************)
RowShape ==
  \A j \in Jobs :
    /\ token[j] \in {0, attempts[j]}
    /\ status[j] = "RUNNING" <=> token[j] # 0
    /\ status[j] = "ABSENT" => attempts[j] = 0 /\ retries[j] = 0

JobShape ==
  \A w \in Workers : wk[w].pc \in Holding => wk[w].job \in Jobs

ClaimShape ==
  \A w \in Workers : wk[w].pc \in Holding =>
    /\ wk[w].tok # 0
    /\ wk[w].tok <= attempts[wk[w].job]

OneClaimant ==
  \A v, w \in Workers :
    wk[v].pc \in Holding /\ wk[w].pc \in Holding
      /\ wk[v].job = wk[w].job /\ wk[v].tok = wk[w].tok => v = w

DoneMeansSent ==
  \A w \in Workers :
    wk[w].pc = "done" => sent[wk[w].job] # {} \/ gone[wk[w].job]

RecordingShape ==
  \A w \in Workers : wk[w].pc = "recording" =>
    /\ wk[w].att = wk[w].tok
    /\ wk[w].ret < wk[w].att
    /\ wk[w].tok = attempts[wk[w].job] => status[wk[w].job] # "SUCCEEDED"

RetriesBelow ==
  \A j \in Jobs :
    /\ retries[j] <= attempts[j]
    /\ status[j] = "RUNNING" => retries[j] < attempts[j]

IInv ==
  /\ TypeOK
  /\ JobShape
  /\ RowShape
  /\ ClaimShape
  /\ OneClaimant
  /\ DoneMeansSent
  /\ RecordingShape
  /\ RetriesBelow
  /\ SuccessMeansSent
  /\ BudgetRespected

-----------------------------------------------------------------------------
\* The back-off delay is a number of ticks no longer than the cap.
LEMMA RetryDelayType ==
  ASSUME NEW n \in Nat
  PROVE  RetryDelay(n) \in 0..RetryCap
<1> DEFINE e == IF n <= 1 THEN 0 ELSE IF n > 17 THEN 16 ELSE n - 1
           s == RetryBase * 2^e
<1>1. e \in 0..16
  OBVIOUS
<1>2. 2^e \in Nat
  BY <1>1, PowersOfTwo
<1>3. s \in Nat
  BY <1>2, OutboxAssumption
<1>. HIDE DEF e, s
<1>4. (IF s < RetryCap THEN s ELSE RetryCap) \in 0..RetryCap
  BY <1>3, OutboxAssumption
<1> QED
  BY <1>4 DEF RetryDelay, e, s

\* The local state of a worker that does nothing is well typed.
LEMMA IdleType == Idle \in Worker
  BY DEF Idle, Worker

\* Every field keeps its type; in particular no delay exceeds the cap and no
\* lease its length.
THEOREM TypeCorrect == Spec => [](TypeOK /\ JobShape)
<1>1. Init => TypeOK /\ JobShape
  BY OutboxAssumption DEF Init, TypeOK, JobShape, Status, Worker, Idle, Holding,
    NoLease
<1>2. TypeOK /\ JobShape /\ [Next]_vars => TypeOK'
  <2> SUFFICES ASSUME TypeOK, JobShape, [Next]_vars
               PROVE  TypeOK'
    OBVIOUS
  <2>. USE DEF TypeOK, row
  <2>1. ASSUME NEW p \in Producers, NEW j \in Jobs, LookUp(p, j)
        PROVE  TypeOK'
    BY <2>1 DEF LookUp
  <2>2. ASSUME NEW p \in Producers, InsertJob(p)
        PROVE  TypeOK'
    BY <2>2, OutboxAssumption DEF InsertJob, Status
  <2>3. ASSUME NEW p \in Producers, RollBack(p)
        PROVE  TypeOK'
    BY <2>3 DEF RollBack
  <2>4. ASSUME NEW w \in Workers, Select(w)
        PROVE  TypeOK'
    <3>1. [Idle EXCEPT !.pc = "selected", !.cand = {j \in Jobs : Claimable(j)}]
            \in Worker
      BY DEF Worker, Idle
    <3>2. wk' \in [Workers -> Worker]
      BY <2>4, <3>1 DEF Select
    <3> QED
      BY <2>4, <3>2 DEF Select
  <2>5. ASSUME NEW w \in Workers, NEW j \in Jobs, Claim(w, j)
        PROVE  TypeOK'
    <3>1. wk' \in [Workers -> Worker]
      <4>1. attempts[j] + 1 \in Nat
        OBVIOUS
      <4>2. [Idle EXCEPT !.pc = "claimed", !.job = j, !.tok = attempts[j] + 1]
              \in Worker
        BY <4>1 DEF Worker, Idle, Holding
      <4> QED
        BY <2>5, <4>2 DEF Claim
    <3>2. lease' \in [Jobs -> (0..Lease) \cup {NoLease}]
      BY <2>5, OutboxAssumption DEF Claim
    <3> QED
      BY <2>5, <3>1, <3>2 DEF Claim, Status
  <2>6. ASSUME NEW w \in Workers, NEW j \in Jobs, SkipCandidate(w, j)
        PROVE  TypeOK'
    BY <2>6 DEF SkipCandidate, Worker, Idle
  <2>7. ASSUME NEW w \in Workers, ReadSubject(w)
        PROVE  TypeOK'
    <3>1. \A pc \in Holding : [wk[w] EXCEPT !.pc = pc] \in Worker
      BY DEF Worker
    <3>2. wk' \in [Workers -> Worker]
      BY <2>7, <3>1 DEF ReadSubject, Holding
    <3> QED
      BY <2>7, <3>2 DEF ReadSubject
  <2>8. ASSUME NEW w \in Workers, Send(w)
        PROVE  TypeOK'
    <3>1. \A pc \in Holding : [wk[w] EXCEPT !.pc = pc] \in Worker
      BY DEF Worker
    <3> PICK o \in Outcomes :
          /\ sent' = IF o[1] = "sent"
                     THEN [sent EXCEPT ![wk[w].job] = @ \cup {wk[w].tok}]
                     ELSE sent
          /\ wk' = [wk EXCEPT ![w].pc = o[2]]
      BY <2>8 DEF Send
    <3>2. wk' \in [Workers -> Worker]
      <4>1. o[2] \in Holding
        BY DEF Outcomes, Holding
      <4> QED
        BY <3>1, <4>1
    <3>4. sent' \in [Jobs -> SUBSET Nat]
      <4>1. wk[w].tok \in Nat
        BY DEF Worker
      <4> QED
        BY <4>1
    <3> QED
      BY <2>8, <3>2, <3>4 DEF Send
  <2>9. ASSUME NEW w \in Workers, MarkSucceeded(w)
        PROVE  TypeOK'
    <3>1. wk' \in [Workers -> Worker]
      BY <2>9, IdleType DEF MarkSucceeded
    <3> QED
      BY <2>9, <3>1 DEF MarkSucceeded, Status
  <2>10. ASSUME NEW w \in Workers, MarkFailedRead(w)
         PROVE  TypeOK'
    <3>1. CASE OwnsRow(w)
      <4>1. wk[w].pc = "raised" /\ wk[w].job \in Jobs
        BY <2>10 DEF MarkFailedRead, Holding, JobShape
      <4>2. attempts[wk[w].job] \in Nat /\ retries[wk[w].job] \in Nat
        BY <4>1
      <4>3. [wk[w] EXCEPT !.pc = "recording", !.att = attempts[wk[w].job],
                          !.ret = retries[wk[w].job]] \in Worker
        BY <4>2 DEF Worker, Holding
      <4> QED
        BY <2>10, <3>1, <4>3 DEF MarkFailedRead
    <3>2. CASE ~OwnsRow(w)
      BY <2>10, <3>2, IdleType DEF MarkFailedRead
    <3> QED
      BY <3>1, <3>2
  <2>11. ASSUME NEW w \in Workers, MarkFailedWrite(w)
         PROVE  TypeOK'
    <3>1. RetryDelay(wk[w].att) \in 0..RetryCap
      BY RetryDelayType DEF Worker
    <3>2. wk[w].ret + 1 \in Nat
      BY DEF Worker
    <3> QED
      BY <2>11, <3>1, <3>2 DEF MarkFailedWrite, Worker, Idle, Status
  <2>12. ASSUME NEW w \in Workers, Crash(w)
         PROVE  TypeOK'
    BY <2>12 DEF Crash, Worker, Idle
  <2>13. ASSUME NEW j \in Jobs, Withdraw(j)
         PROVE  TypeOK'
    BY <2>13 DEF Withdraw
  <2>14. CASE Tick
    BY <2>14, OutboxAssumption DEF Tick, NoLease
  <2>15. CASE UNCHANGED vars
    BY <2>15 DEF vars
  <2> QED
    BY <2>1, <2>2, <2>3, <2>4, <2>5, <2>6, <2>7, <2>8, <2>9, <2>10, <2>11,
       <2>12, <2>13, <2>14, <2>15 DEF Next, WorkerStep
<1>3. TypeOK /\ JobShape /\ [Next]_vars => JobShape'
  <2> SUFFICES ASSUME TypeOK, JobShape, [Next]_vars, NEW w \in Workers,
                      wk'[w].pc \in Holding
               PROVE  wk'[w].job \in Jobs
    BY DEF JobShape
  <2> USE DEF TypeOK, JobShape, Holding, row
  <2>1. CASE wk' = wk
    BY <2>1
  <2>2. ASSUME NEW v \in Workers, WorkerStep(v)
        PROVE  wk'[w].job \in Jobs
    <3>1. CASE v # w
      <4>1. wk'[w] = wk[w]
        BY <2>2, <3>1 DEF WorkerStep, Select, Claim, SkipCandidate, ReadSubject,
           Send, MarkSucceeded, MarkFailedRead, MarkFailedWrite
      <4> QED
        BY <4>1
    <3>2. CASE v = w
      <4>1. ASSUME NEW j \in Jobs, Claim(w, j)
            PROVE  wk'[w].job \in Jobs
        BY <4>1 DEF Claim, Idle
      <4>2. CASE Select(w)
        BY <4>2, wk'[w].pc = "selected" DEF Select, Idle
      <4>6. ASSUME NEW j \in Jobs, SkipCandidate(w, j)
            PROVE  wk'[w].job \in Jobs
        BY <4>6 DEF SkipCandidate, Idle, Worker
      <4>3. CASE ReadSubject(w) \/ Send(w)
        <5>1. \E pc \in {"done", "sending", "raised"} :
                 wk' = [wk EXCEPT ![w].pc = pc]
          BY <4>3 DEF ReadSubject, Send, Outcomes
        <5>2. wk[w].pc \in {"claimed", "sending"}
          BY <4>3 DEF ReadSubject, Send
        <5> QED
          BY <5>1, <5>2 DEF Worker
      <4>4. CASE MarkSucceeded(w) \/ MarkFailedWrite(w)
        BY <4>4 DEF MarkSucceeded, MarkFailedWrite, Idle
      <4>5. CASE MarkFailedRead(w)
        <5>1. wk[w].job \in Jobs
          BY <4>5 DEF MarkFailedRead
        <5> QED
          BY <4>5, <5>1 DEF MarkFailedRead, Idle, Worker
      <4> QED
        BY <2>2, <3>2, <4>1, <4>2, <4>3, <4>4, <4>5, <4>6 DEF WorkerStep
    <3> QED
      BY <3>1, <3>2
  <2>3. ASSUME NEW v \in Workers, Crash(v)
        PROVE  wk'[w].job \in Jobs
    BY <2>3 DEF Crash, Idle
  <2> QED
    BY <2>1, <2>2, <2>3 DEF Next, vars, LookUp, InsertJob, RollBack, Withdraw, Tick
<1> QED
  BY <1>1, <1>2, <1>3, PTL DEF Spec

-----------------------------------------------------------------------------
\* Init and the steps of the inductive invariant, one step per action.
LEMMA InductiveStep ==
  ASSUME IInv, TypeOK', JobShape', [Next]_vars
  PROVE  IInv'
<1>. USE DEF IInv, TypeOK, JobShape, Worker, Holding, row
<1>1. ASSUME NEW p \in Producers, NEW j \in Jobs, LookUp(p, j)
      PROVE  IInv'
  <2>1. RowShape'
    BY <1>1 DEF LookUp, RowShape
  <2>2. ClaimShape'
    BY <1>1 DEF LookUp, ClaimShape
  <2>3. OneClaimant'
    BY <1>1 DEF LookUp, OneClaimant
  <2>4. DoneMeansSent'
    BY <1>1 DEF LookUp, DoneMeansSent
  <2>5. RecordingShape'
    BY <1>1 DEF LookUp, RecordingShape
  <2>6. RetriesBelow'
    BY <1>1 DEF LookUp, RetriesBelow
  <2>7. SuccessMeansSent'
    BY <1>1 DEF LookUp, SuccessMeansSent
  <2>8. BudgetRespected'
    BY <1>1 DEF LookUp, BudgetRespected
  <2> QED
    BY <2>1, <2>2, <2>3, <2>4, <2>5, <2>6, <2>7, <2>8
<1>2. ASSUME NEW p \in Producers, InsertJob(p)
      PROVE  IInv'
  <2>1. RowShape'
    BY <1>2 DEF InsertJob, RowShape, Insertable
  <2>2. ClaimShape'
    <3>1. attempts' = attempts
      BY <1>2 DEF InsertJob, Insertable, RowShape
    <3> QED
      BY <1>2, <3>1 DEF InsertJob, ClaimShape
  <2>3. OneClaimant'
    BY <1>2 DEF InsertJob, OneClaimant, Insertable
  <2>4. DoneMeansSent'
    BY <1>2 DEF InsertJob, DoneMeansSent, Insertable
  <2>5. RecordingShape'
    BY <1>2 DEF InsertJob, RecordingShape, Insertable
  <2>6. RetriesBelow'
    BY <1>2 DEF InsertJob, RetriesBelow, Insertable
  <2>7. SuccessMeansSent'
    BY <1>2 DEF InsertJob, SuccessMeansSent, Insertable
  <2>8. BudgetRespected'
    BY <1>2, OutboxAssumption DEF InsertJob, BudgetRespected, Insertable
  <2> QED
    BY <2>1, <2>2, <2>3, <2>4, <2>5, <2>6, <2>7, <2>8
<1>3. ASSUME NEW p \in Producers, RollBack(p)
      PROVE  IInv'
  <2>1. RowShape'
    BY <1>3 DEF RollBack, RowShape
  <2>2. ClaimShape'
    BY <1>3 DEF RollBack, ClaimShape
  <2>3. OneClaimant'
    BY <1>3 DEF RollBack, OneClaimant
  <2>4. DoneMeansSent'
    BY <1>3 DEF RollBack, DoneMeansSent
  <2>5. RecordingShape'
    BY <1>3 DEF RollBack, RecordingShape
  <2>6. RetriesBelow'
    BY <1>3 DEF RollBack, RetriesBelow
  <2>7. SuccessMeansSent'
    BY <1>3 DEF RollBack, SuccessMeansSent
  <2>8. BudgetRespected'
    BY <1>3 DEF RollBack, BudgetRespected
  <2> QED
    BY <2>1, <2>2, <2>3, <2>4, <2>5, <2>6, <2>7, <2>8
<1>4. ASSUME NEW w \in Workers, Select(w)
      PROVE  IInv'
  <2>0. \A v \in Workers : wk'[v].pc \in Holding => wk'[v] = wk[v]
    <3>1. \A v \in Workers : v # w => wk'[v] = wk[v]
      BY <1>4 DEF Select
    <3>2. wk'[w].pc = "selected"
      BY <1>4 DEF Select, Idle
    <3> QED
      BY <3>1, <3>2
  <2>1. RowShape'
    BY <1>4 DEF Select, RowShape
  <2>2. ClaimShape'
    BY <1>4, <2>0 DEF Select, ClaimShape
  <2>3. OneClaimant'
    <3>1. SUFFICES ASSUME NEW u \in Workers, NEW v \in Workers,
                          wk'[u].pc \in Holding, wk'[v].pc \in Holding,
                          wk'[u].job = wk'[v].job, wk'[u].tok = wk'[v].tok
                   PROVE  u = v
      BY DEF OneClaimant
    <3>2. wk'[u] = wk[u] /\ wk'[v] = wk[v]
      BY <2>0, <3>1
    <3> QED
      BY <3>1, <3>2 DEF OneClaimant
  <2>4. DoneMeansSent'
    BY <1>4, <2>0 DEF Select, DoneMeansSent
  <2>5. RecordingShape'
    BY <1>4, <2>0 DEF Select, RecordingShape
  <2>6. RetriesBelow'
    BY <1>4 DEF Select, RetriesBelow
  <2>7. SuccessMeansSent'
    BY <1>4 DEF Select, SuccessMeansSent
  <2>8. BudgetRespected'
    BY <1>4 DEF Select, BudgetRespected
  <2> QED
    BY <2>1, <2>2, <2>3, <2>4, <2>5, <2>6, <2>7, <2>8
<1>5. ASSUME NEW w \in Workers, NEW j \in Jobs, Claim(w, j)
      PROVE  IInv'
  <2>1. RowShape'
    BY <1>5 DEF Claim, RowShape, Claimable, Idle
  <2>2. ClaimShape'
    BY <1>5 DEF Claim, ClaimShape, Claimable, Idle
  <2>3. OneClaimant'
    <3>1. wk'[w].tok = attempts[j] + 1 /\ wk'[w].job = j
      BY <1>5 DEF Claim, Idle
    <3>2. \A v \in Workers : v # w => wk'[v] = wk[v]
      BY <1>5 DEF Claim
    <3>3. \A v \in Workers :
            wk[v].pc \in Holding /\ wk[v].job = j => wk[v].tok <= attempts[j]
      BY DEF ClaimShape
    <3>4. \A v \in Workers : wk[v].tok \in Nat
      OBVIOUS
    <3>5. attempts[j] \in Nat
      OBVIOUS
    <3> QED
      <4>1. SUFFICES ASSUME NEW u \in Workers, NEW v \in Workers,
                            wk'[u].pc \in Holding, wk'[v].pc \in Holding,
                            wk'[u].job = wk'[v].job, wk'[u].tok = wk'[v].tok
                     PROVE  u = v
        BY DEF OneClaimant
      <4>2. CASE u # w /\ v # w
        BY <4>1, <4>2, <3>2 DEF OneClaimant
      <4>3. ASSUME NEW x \in Workers, x # w, wk'[x].pc \in Holding,
                   wk'[x].job = j
            PROVE  wk'[x].tok # attempts[j] + 1
        BY <4>3, <3>2, <3>3, <3>4, <3>5
      <4> QED
        BY <4>1, <4>2, <4>3, <3>1
  <2>4. DoneMeansSent'
    BY <1>5 DEF Claim, DoneMeansSent, Claimable, Idle
  <2>5. RecordingShape'
    BY <1>5 DEF Claim, RecordingShape, Claimable, Idle
  <2>6. RetriesBelow'
    BY <1>5 DEF Claim, RetriesBelow, Claimable, Idle
  <2>7. SuccessMeansSent'
    BY <1>5 DEF Claim, SuccessMeansSent, Claimable, Idle
  <2>8. BudgetRespected'
    BY <1>5 DEF Claim, BudgetRespected, Claimable, Idle
  <2> QED
    BY <2>1, <2>2, <2>3, <2>4, <2>5, <2>6, <2>7, <2>8
<1>6. ASSUME NEW w \in Workers, NEW j \in Jobs, SkipCandidate(w, j)
      PROVE  IInv'
  <2>1. RowShape'
    BY <1>6 DEF SkipCandidate, RowShape, Idle
  <2>2. ClaimShape'
    BY <1>6 DEF SkipCandidate, ClaimShape, Idle
  <2>3. OneClaimant'
    BY <1>6 DEF SkipCandidate, OneClaimant, Idle
  <2>4. DoneMeansSent'
    BY <1>6 DEF SkipCandidate, DoneMeansSent, Idle
  <2>5. RecordingShape'
    BY <1>6 DEF SkipCandidate, RecordingShape, Idle
  <2>6. RetriesBelow'
    BY <1>6 DEF SkipCandidate, RetriesBelow, Idle
  <2>7. SuccessMeansSent'
    BY <1>6 DEF SkipCandidate, SuccessMeansSent, Idle
  <2>8. BudgetRespected'
    BY <1>6 DEF SkipCandidate, BudgetRespected, Idle
  <2> QED
    BY <2>1, <2>2, <2>3, <2>4, <2>5, <2>6, <2>7, <2>8
<1>7. ASSUME NEW w \in Workers, ReadSubject(w)
      PROVE  IInv'
  <2>1. RowShape'
    BY <1>7 DEF ReadSubject, RowShape
  <2>2. ClaimShape'
    BY <1>7 DEF ReadSubject, ClaimShape
  <2>3. OneClaimant'
    BY <1>7 DEF ReadSubject, OneClaimant
  <2>4. DoneMeansSent'
    BY <1>7 DEF ReadSubject, DoneMeansSent
  <2>5. RecordingShape'
    BY <1>7 DEF ReadSubject, RecordingShape
  <2>6. RetriesBelow'
    BY <1>7 DEF ReadSubject, RetriesBelow
  <2>7. SuccessMeansSent'
    BY <1>7 DEF ReadSubject, SuccessMeansSent
  <2>8. BudgetRespected'
    BY <1>7 DEF ReadSubject, BudgetRespected
  <2> QED
    BY <2>1, <2>2, <2>3, <2>4, <2>5, <2>6, <2>7, <2>8
<1>8. ASSUME NEW w \in Workers, Send(w)
      PROVE  IInv'
  <2>1. RowShape'
    BY <1>8 DEF Send, RowShape, Outcomes
  <2>2. ClaimShape'
    BY <1>8 DEF Send, ClaimShape, Outcomes
  <2>3. OneClaimant'
    BY <1>8 DEF Send, OneClaimant, Outcomes
  <2>4. DoneMeansSent'
    <3>1. PICK o \in Outcomes :
            /\ sent' = IF o[1] = "sent"
                       THEN [sent EXCEPT ![wk[w].job] = @ \cup {wk[w].tok}]
                       ELSE sent
            /\ wk' = [wk EXCEPT ![w].pc = o[2]]
      BY <1>8 DEF Send
    <3>2. \A j \in Jobs : sent[j] \subseteq sent'[j]
      BY <3>1
    <3>3. o[2] = "done" => wk[w].tok \in sent'[wk[w].job]
      BY <1>8, <3>1 DEF Send, Outcomes
    <3>4. \A v \in Workers : wk'[v].job = wk[v].job
      BY <3>1
    <3>5. wk'[w].pc = o[2] /\ \A v \in Workers : v # w => wk'[v].pc = wk[v].pc
      BY <3>1
    <3> QED
      BY <1>8, <3>2, <3>3, <3>4, <3>5 DEF Send, DoneMeansSent
  <2>5. RecordingShape'
    BY <1>8 DEF Send, RecordingShape, Outcomes
  <2>6. RetriesBelow'
    BY <1>8 DEF Send, RetriesBelow, Outcomes
  <2>7. SuccessMeansSent'
    BY <1>8 DEF Send, SuccessMeansSent, Outcomes
  <2>8. BudgetRespected'
    BY <1>8 DEF Send, BudgetRespected, Outcomes
  <2> QED
    BY <2>1, <2>2, <2>3, <2>4, <2>5, <2>6, <2>7, <2>8
<1>9. ASSUME NEW w \in Workers, MarkSucceeded(w)
      PROVE  IInv'
  <2>1. RowShape'
    BY <1>9 DEF MarkSucceeded, RowShape, Idle, OwnsRow
  <2>2. ClaimShape'
    BY <1>9 DEF MarkSucceeded, ClaimShape, Idle, OwnsRow
  <2>3. OneClaimant'
    BY <1>9 DEF MarkSucceeded, OneClaimant, Idle, OwnsRow
  <2>4. DoneMeansSent'
    BY <1>9 DEF MarkSucceeded, DoneMeansSent, Idle, OwnsRow
  <2>5. RecordingShape'
    <3>1. \A v \in Workers : wk'[v].pc \in Holding => v # w /\ wk'[v] = wk[v]
      BY <1>9 DEF MarkSucceeded, Idle
    <3>2. ASSUME NEW v \in Workers, v # w, OwnsRow(w), wk[v].pc = "recording",
                 wk[v].job = wk[w].job
          PROVE  wk[v].tok # attempts[wk[v].job]
      BY <1>9, <3>2 DEF MarkSucceeded, OwnsRow, RowShape, ClaimShape, OneClaimant
    <3> QED
      BY <1>9, <3>1, <3>2 DEF MarkSucceeded, RecordingShape
  <2>6. RetriesBelow'
    BY <1>9 DEF MarkSucceeded, RetriesBelow, Idle, OwnsRow
  <2>7. SuccessMeansSent'
    BY <1>9 DEF MarkSucceeded, SuccessMeansSent, DoneMeansSent
  <2>8. BudgetRespected'
    BY <1>9 DEF MarkSucceeded, BudgetRespected, Idle, OwnsRow
  <2> QED
    BY <2>1, <2>2, <2>3, <2>4, <2>5, <2>6, <2>7, <2>8
<1>10. ASSUME NEW w \in Workers, MarkFailedRead(w)
      PROVE  IInv'
  <2>1. RowShape'
    BY <1>10 DEF MarkFailedRead, RowShape, Idle, OwnsRow
  <2>2. ClaimShape'
    BY <1>10 DEF MarkFailedRead, ClaimShape, Idle, OwnsRow
  <2>3. OneClaimant'
    BY <1>10 DEF MarkFailedRead, OneClaimant, Idle, OwnsRow
  <2>4. DoneMeansSent'
    BY <1>10 DEF MarkFailedRead, DoneMeansSent, Idle, OwnsRow
  <2>5. RecordingShape'
    <3>1. \A v \in Workers : v # w => wk'[v] = wk[v]
      BY <1>10 DEF MarkFailedRead
    <3>2. CASE OwnsRow(w)
      <4>1. /\ wk[w].job \in Jobs
            /\ wk[w].tok = attempts[wk[w].job]
            /\ retries[wk[w].job] < attempts[wk[w].job]
            /\ status[wk[w].job] = "RUNNING"
        BY <1>10, <3>2
           DEF MarkFailedRead, OwnsRow, RowShape, ClaimShape, RetriesBelow
      <4>2. /\ wk'[w].job = wk[w].job /\ wk'[w].tok = wk[w].tok
            /\ wk'[w].att = attempts[wk[w].job]
            /\ wk'[w].ret = retries[wk[w].job]
        BY <1>10, <3>2 DEF MarkFailedRead
      <4> QED
        BY <1>10, <3>1, <4>1, <4>2 DEF MarkFailedRead, RecordingShape
    <3>3. CASE ~OwnsRow(w)
      BY <1>10, <3>1, <3>3 DEF MarkFailedRead, RecordingShape, Idle
    <3> QED
      BY <3>2, <3>3
  <2>6. RetriesBelow'
    BY <1>10 DEF MarkFailedRead, RetriesBelow, Idle, OwnsRow
  <2>7. SuccessMeansSent'
    BY <1>10 DEF MarkFailedRead, SuccessMeansSent, Idle, OwnsRow
  <2>8. BudgetRespected'
    BY <1>10 DEF MarkFailedRead, BudgetRespected, Idle, OwnsRow
  <2> QED
    BY <2>1, <2>2, <2>3, <2>4, <2>5, <2>6, <2>7, <2>8
<1>11. ASSUME NEW w \in Workers, MarkFailedWrite(w)
      PROVE  IInv'
  <2>0. /\ wk[w].job \in Jobs /\ wk[w].att <= attempts[wk[w].job]
        /\ wk[w].ret + 1 <= wk[w].att
    BY <1>11 DEF MarkFailedWrite, ClaimShape, RecordingShape
  <2>1. RowShape'
    BY <1>11 DEF MarkFailedWrite, RowShape, Idle, OutOfAttempts
  <2>2. ClaimShape'
    BY <1>11 DEF MarkFailedWrite, ClaimShape, Idle, OutOfAttempts
  <2>3. OneClaimant'
    BY <1>11 DEF MarkFailedWrite, OneClaimant, Idle, OutOfAttempts
  <2>4. DoneMeansSent'
    BY <1>11 DEF MarkFailedWrite, DoneMeansSent, Idle, OutOfAttempts
  <2>5. RecordingShape'
    BY <1>11 DEF MarkFailedWrite, RecordingShape, Idle, OutOfAttempts
  <2>6. RetriesBelow'
    BY <1>11, <2>0 DEF MarkFailedWrite, RetriesBelow
  <2>7. SuccessMeansSent'
    BY <1>11 DEF MarkFailedWrite, SuccessMeansSent, Idle, OutOfAttempts
  <2>8. BudgetRespected'
    BY <1>11, <2>0, OutboxAssumption
       DEF MarkFailedWrite, BudgetRespected, OutOfAttempts
  <2> QED
    BY <2>1, <2>2, <2>3, <2>4, <2>5, <2>6, <2>7, <2>8
<1>12. ASSUME NEW w \in Workers, Crash(w)
      PROVE  IInv'
  <2>1. RowShape'
    BY <1>12 DEF Crash, RowShape, Idle
  <2>2. ClaimShape'
    BY <1>12 DEF Crash, ClaimShape, Idle
  <2>3. OneClaimant'
    BY <1>12 DEF Crash, OneClaimant, Idle
  <2>4. DoneMeansSent'
    BY <1>12 DEF Crash, DoneMeansSent, Idle
  <2>5. RecordingShape'
    BY <1>12 DEF Crash, RecordingShape, Idle
  <2>6. RetriesBelow'
    BY <1>12 DEF Crash, RetriesBelow, Idle
  <2>7. SuccessMeansSent'
    BY <1>12 DEF Crash, SuccessMeansSent, Idle
  <2>8. BudgetRespected'
    BY <1>12 DEF Crash, BudgetRespected, Idle
  <2> QED
    BY <2>1, <2>2, <2>3, <2>4, <2>5, <2>6, <2>7, <2>8
<1>13. ASSUME NEW j \in Jobs, Withdraw(j)
      PROVE  IInv'
  <2>1. RowShape'
    BY <1>13 DEF Withdraw, RowShape
  <2>2. ClaimShape'
    BY <1>13 DEF Withdraw, ClaimShape
  <2>3. OneClaimant'
    BY <1>13 DEF Withdraw, OneClaimant
  <2>4. DoneMeansSent'
    BY <1>13 DEF Withdraw, DoneMeansSent
  <2>5. RecordingShape'
    BY <1>13 DEF Withdraw, RecordingShape
  <2>6. RetriesBelow'
    BY <1>13 DEF Withdraw, RetriesBelow
  <2>7. SuccessMeansSent'
    BY <1>13 DEF Withdraw, SuccessMeansSent
  <2>8. BudgetRespected'
    BY <1>13 DEF Withdraw, BudgetRespected
  <2> QED
    BY <2>1, <2>2, <2>3, <2>4, <2>5, <2>6, <2>7, <2>8
<1>14. CASE Tick
  BY <1>14 DEF Tick, RowShape, ClaimShape, OneClaimant, DoneMeansSent,
     RecordingShape, RetriesBelow, SuccessMeansSent, BudgetRespected
<1>15. CASE UNCHANGED vars
  BY <1>15 DEF vars, RowShape, ClaimShape, OneClaimant, DoneMeansSent,
     RecordingShape, RetriesBelow, SuccessMeansSent, BudgetRespected
<1> QED
  BY <1>1, <1>2, <1>3, <1>4, <1>5, <1>6, <1>7, <1>8, <1>9, <1>10, <1>11,
     <1>12, <1>13, <1>14, <1>15 DEF Next, WorkerStep

\* The inductive invariant holds in every reachable state.
THEOREM InductiveInvariant == Spec => []IInv
<1>1. Init => IInv
  BY OutboxAssumption
     DEF Init, IInv, TypeOK, JobShape, RowShape, ClaimShape, OneClaimant,
         DoneMeansSent, RecordingShape, RetriesBelow, SuccessMeansSent,
         BudgetRespected, Status, Worker, Idle, Holding, NoLease
<1>2. IInv /\ (TypeOK /\ JobShape)' /\ [Next]_vars => IInv'
  BY InductiveStep
<1> QED
  BY <1>1, <1>2, TypeCorrect, PTL DEF Spec

-----------------------------------------------------------------------------
\* A job is recorded SUCCEEDED only after an attempt delivered it or found
\* nobody left to notify, for any crashes, overruns and interleavings.
THEOREM DeliveryBeforeSuccess == Spec => []SuccessMeansSent
<1>1. IInv => SuccessMeansSent
  BY DEF IInv
<1> QED
  BY <1>1, InductiveInvariant, PTL

\* A job is given up only after MaxAttempts claims, and a job that waits for a
\* retry has recorded fewer than MaxAttempts failures.
THEOREM BudgetHolds == Spec => []BudgetRespected
<1>1. IInv => BudgetRespected
  BY DEF IInv
<1> QED
  BY <1>1, InductiveInvariant, PTL

\* enqueue never gives a job its attempts back, whoever wins the insert race.
THEOREM AttemptsMonotone == Spec => AttemptsNeverReset
<1>1. IInv /\ [Next]_vars => [\A j \in Jobs : attempts'[j] >= attempts[j]]_vars
  <2> SUFFICES ASSUME IInv, Next, NEW j \in Jobs
               PROVE  attempts'[j] >= attempts[j]
    OBVIOUS
  <2> USE DEF IInv, TypeOK, row
  <2>1. CASE attempts' = attempts
    BY <2>1
  <2>2. ASSUME NEW p \in Producers, InsertJob(p)
        PROVE  attempts'[j] >= attempts[j]
    BY <2>2 DEF InsertJob, Insertable, RowShape
  <2>3. ASSUME NEW w \in Workers, NEW k \in Jobs, Claim(w, k)
        PROVE  attempts'[j] >= attempts[j]
    BY <2>3 DEF Claim
  <2> QED
    BY <2>1, <2>2, <2>3
       DEF Next, WorkerStep, LookUp, RollBack, Select, SkipCandidate,
           ReadSubject, Send, MarkSucceeded, MarkFailedRead, MarkFailedWrite,
           Crash, Withdraw, Tick
<1> QED
  BY <1>1, InductiveInvariant, PTL DEF Spec, AttemptsNeverReset

\* The finality of SUCCEEDED and FAILED has one hole only: the write of a
\* _mark_failed that read the row before a newer claim.
THEOREM OneHoleInFinality == Spec => ReopenedOnlyByStaleFailure
<1> DEFINE Hole(j) ==
      status[j] \in Settled /\ status'[j] # status[j] =>
        \E w \in Workers : /\ wk[w].pc = "recording" /\ wk[w].job = j
                           /\ wk[w].tok < attempts[j]
<1>1. IInv /\ [Next]_vars => [\A j \in Jobs : Hole(j)]_vars
  <2> SUFFICES ASSUME IInv, Next, NEW j \in Jobs, status[j] \in Settled,
                      status'[j] # status[j]
               PROVE  \E w \in Workers :
                        /\ wk[w].pc = "recording" /\ wk[w].job = j
                        /\ wk[w].tok < attempts[j]
    OBVIOUS
  <2> USE DEF IInv, TypeOK, Settled, row
  <2>1. ASSUME NEW p \in Producers
        PROVE  ~InsertJob(p)
    BY DEF InsertJob, Insertable
  <2>2. ASSUME NEW w \in Workers, NEW k \in Jobs
        PROVE  ~Claim(w, k)
    BY DEF Claim, Claimable
  <2>3. ASSUME NEW w \in Workers
        PROVE  ~MarkSucceeded(w)
    BY DEF MarkSucceeded, OwnsRow
  <2>4. PICK w \in Workers : MarkFailedWrite(w)
    BY <2>1, <2>2, <2>3
       DEF Next, WorkerStep, LookUp, RollBack, Select, SkipCandidate,
           ReadSubject, Send, MarkFailedRead, Crash, Withdraw, Tick
  <2>5. wk[w].pc = "recording" /\ wk[w].job = j
    BY <2>4 DEF MarkFailedWrite
  <2>6. wk[w].tok \in Nat /\ wk[w].att \in Nat /\ attempts[j] \in Nat
    BY DEF Worker
  <2>7. wk[w].tok <= attempts[j] /\ wk[w].att = wk[w].tok
    BY <2>5 DEF ClaimShape, RecordingShape, Holding
  <2>8. wk[w].tok # attempts[j]
    <3>1. CASE status[j] = "SUCCEEDED"
      BY <2>5, <3>1 DEF RecordingShape
    <3>2. CASE status[j] = "FAILED"
      <4>1. attempts[j] >= MaxAttempts
        BY <3>2 DEF BudgetRespected
      <4>2. ~(wk[w].att >= MaxAttempts)
        BY <2>4, <2>5, <3>2 DEF MarkFailedWrite, OutOfAttempts
      <4> QED
        BY <4>1, <4>2, <2>7
    <3> QED
      BY <3>1, <3>2
  <2> QED
    BY <2>5, <2>6, <2>7, <2>8
<1> QED
  BY <1>1, InductiveInvariant, PTL DEF Spec, ReopenedOnlyByStaleFailure
-----------------------------------------------------------------------------
(***************************************************************************)
(* Without faults every claim ends in one recorded success or failure:     *)
(* the attempts of a job are its failures, and one more while a worker     *)
(* holds it or once it has succeeded.                                      *)
(***************************************************************************)
SentWithin == \A j \in Jobs : sent[j] \subseteq 1..attempts[j]

Undisturbed ==
  faults = 0 =>
    /\ \A j \in Jobs :
         /\ attempts[j] = IF status[j] \in {"RUNNING", "SUCCEEDED"}
                          THEN retries[j] + 1 ELSE retries[j]
         /\ status[j] = "RUNNING" =>
              lease[j] > 0 /\ \E w \in Workers : Holds(w, j) /\ wk[w].tok = token[j]
    /\ \A w \in Workers : wk[w].pc \in Holding =>
         /\ OwnsRow(w)
         /\ wk[w].pc = "recording" => wk[w].ret = retries[wk[w].job]

LEMMA SentStep ==
  ASSUME IInv, SentWithin, [Next]_vars
  PROVE  SentWithin'
<1> USE DEF IInv, TypeOK, row
<1>1. ASSUME NEW j \in Jobs PROVE sent'[j] \subseteq 1..attempts'[j]
  <2>1. sent[j] \subseteq 1..attempts[j] /\ attempts[j] \in Nat
    BY DEF SentWithin
  <2>2. attempts'[j] \in Nat /\ attempts'[j] >= attempts[j]
    <3>1. CASE attempts' = attempts
      BY <2>1, <3>1
    <3>2. ASSUME NEW p \in Producers, InsertJob(p)
          PROVE  attempts'[j] \in Nat /\ attempts'[j] >= attempts[j]
      BY <3>2 DEF InsertJob, Insertable, RowShape
    <3>3. ASSUME NEW w \in Workers, NEW k \in Jobs, Claim(w, k)
          PROVE  attempts'[j] \in Nat /\ attempts'[j] >= attempts[j]
      BY <3>3 DEF Claim
    <3> QED
      BY <3>1, <3>2, <3>3
         DEF Next, WorkerStep, LookUp, RollBack, Select, SkipCandidate, vars,
             ReadSubject, Send, MarkSucceeded, MarkFailedRead, MarkFailedWrite,
             Crash, Withdraw, Tick
  <2>3. CASE sent' = sent
    BY <2>1, <2>2, <2>3
  <2>4. ASSUME NEW w \in Workers, Send(w)
        PROVE  sent'[j] \subseteq 1..attempts'[j]
    <3>1. attempts' = attempts
      BY <2>4 DEF Send
    <3>2. /\ wk[w].tok \in Nat /\ wk[w].tok # 0
          /\ wk[w].tok <= attempts[wk[w].job]
      BY <2>4 DEF Send, ClaimShape, Worker, Holding
    <3>3. sent'[j] = sent[j] \/ (wk[w].job = j /\ sent'[j] = sent[j] \cup {wk[w].tok})
      BY <2>4 DEF Send
    <3> QED
      BY <2>1, <3>1, <3>2, <3>3
  <2> QED
    BY <2>3, <2>4
       DEF Next, WorkerStep, LookUp, RollBack, InsertJob, Select, Claim, SkipCandidate, vars,
           ReadSubject, MarkSucceeded, MarkFailedRead, MarkFailedWrite,
           Crash, Withdraw, Tick
<1> QED
  BY <1>1 DEF SentWithin

LEMMA UndisturbedStep ==
  ASSUME IInv, Undisturbed, [Next]_vars
  PROVE  Undisturbed'
<1> SUFFICES ASSUME faults' = 0
             PROVE  Undisturbed'
  BY DEF Undisturbed
<1> USE DEF IInv, TypeOK, row
<1>0. faults = 0
  <2>1. CASE Tick
    BY <2>1 DEF Tick
  <2>2. ASSUME NEW w \in Workers, Crash(w) PROVE faults = 0
    BY <2>2 DEF Crash
  <2> QED
    BY <2>1, <2>2
       DEF Next, WorkerStep, LookUp, RollBack, InsertJob, Select, Claim, SkipCandidate,
           vars, ReadSubject, Send, MarkSucceeded, MarkFailedRead, MarkFailedWrite, Withdraw
<1>1. /\ \A j \in Jobs :
           /\ attempts[j] = IF status[j] \in {"RUNNING", "SUCCEEDED"}
                            THEN retries[j] + 1 ELSE retries[j]
           /\ status[j] = "RUNNING" =>
                lease[j] > 0 /\ \E w \in Workers : Holds(w, j) /\ wk[w].tok = token[j]
      /\ \A w \in Workers : wk[w].pc \in Holding =>
           /\ wk[w].job \in Jobs /\ OwnsRow(w)
           /\ wk[w].pc = "recording" => wk[w].ret = retries[wk[w].job]
  BY <1>0 DEF Undisturbed, JobShape
<1>2. \A v, w \in Workers : wk[v].pc \in Holding /\ wk[w].pc \in Holding
                              /\ wk[v].job = wk[w].job => v = w
  BY <1>1 DEF OneClaimant, OwnsRow
<1>3. CASE UNCHANGED <<row, wk>>
  BY <1>1, <1>3 DEF Undisturbed, Holds, OwnsRow
<1>4. ASSUME NEW p \in Producers, InsertJob(p) PROVE Undisturbed'
  BY <1>1, <1>4 DEF InsertJob, Insertable, RowShape, Undisturbed, Holds, OwnsRow
<1>5. ASSUME NEW w \in Workers, NEW c, c.pc \notin Holding, wk[w].pc \notin Holding,
             wk' = [wk EXCEPT ![w] = c], UNCHANGED row
      PROVE  Undisturbed'
  BY <1>1, <1>5 DEF Undisturbed, Holds, OwnsRow
<1>6. ASSUME NEW w \in Workers, Select(w) PROVE Undisturbed'
  <2>1. PICK c : c = [Idle EXCEPT !.pc = "selected", !.cand = {j \in Jobs : Claimable(j)}]
    OBVIOUS
  <2>2. c.pc \notin Holding
    BY <2>1 DEF Idle, Holding
  <2> QED
    BY <1>5, <1>6, <2>1, <2>2 DEF Select, Holding
<1>7. ASSUME NEW w \in Workers, NEW j \in Jobs, SkipCandidate(w, j) PROVE Undisturbed'
  <2>1. PICK c : c = IF wk[w].cand = {j} THEN Idle
                     ELSE [wk[w] EXCEPT !.cand = @ \ {j}]
    OBVIOUS
  <2>2. c.pc \notin Holding
    BY <1>7, <2>1 DEF SkipCandidate, Idle, Holding, Worker
  <2> QED
    BY <1>5, <1>7, <2>1, <2>2 DEF SkipCandidate, Holding
<1>8. ASSUME NEW w \in Workers, NEW j \in Jobs, Claim(w, j) PROVE Undisturbed'
  <2>1. status[j] = "PENDING"
    BY <1>1, <1>8 DEF Claim, Claimable
  <2>2. \A v \in Workers : wk[v].pc \in Holding => wk[v].job # j
    BY <1>1, <2>1 DEF OwnsRow
  <2>3. /\ wk'[w].pc = "claimed" /\ wk'[w].job = j /\ wk'[w].tok = attempts[j] + 1
        /\ \A v \in Workers \ {w} : wk'[v] = wk[v]
    BY <1>8 DEF Claim, Idle
  <2>4. /\ status'[j] = "RUNNING" /\ attempts'[j] = attempts[j] + 1
        /\ token'[j] = attempts[j] + 1 /\ lease'[j] > 0 /\ retries' = retries
        /\ \A k \in Jobs \ {j} : /\ status'[k] = status[k] /\ attempts'[k] = attempts[k]
                                 /\ token'[k] = token[k] /\ lease'[k] = lease[k]
    BY <1>8 DEF Claim
  <2>5. wk[w].pc \notin Holding
    BY <1>8 DEF Claim, Holding
  <2> QED
    BY <1>1, <2>1, <2>2, <2>3, <2>4, <2>5 DEF Undisturbed, Holds, OwnsRow, Holding
<1>9. ASSUME NEW w \in Workers, ReadSubject(w) \/ Send(w) \/ MarkFailedRead(w)
      PROVE  Undisturbed'
  <2>1. /\ UNCHANGED row /\ wk[w].pc \in Holding
        /\ \A v \in Workers \ {w} : wk'[v] = wk[v]
    BY <1>9 DEF ReadSubject, Send, MarkFailedRead, Holding
  <2>2. /\ wk'[w].pc \in Holding /\ wk'[w].job = wk[w].job /\ wk'[w].tok = wk[w].tok
        /\ wk'[w].pc = "recording" => wk'[w].ret = retries[wk[w].job]
    <3>1. CASE ReadSubject(w)
      BY <3>1 DEF ReadSubject, Holding, Worker
    <3>2. CASE Send(w)
      BY <3>2 DEF Send, Holding, Worker, Outcomes
    <3>3. CASE MarkFailedRead(w)
      <4>1. OwnsRow(w)
        BY <1>1, <2>1
      <4> QED
        BY <3>3, <4>1 DEF MarkFailedRead, Holding, Worker
    <3> QED
      BY <1>9, <3>1, <3>2, <3>3
  <2> QED
    BY <1>1, <2>1, <2>2 DEF Undisturbed, Holds, OwnsRow
<1>10. ASSUME NEW w \in Workers, MarkSucceeded(w) \/ MarkFailedWrite(w)
       PROVE  Undisturbed'
  <2>1. PICK j \in Jobs : j = wk[w].job
    BY <1>1, <1>10 DEF MarkSucceeded, MarkFailedWrite, Holding
  <2>2. /\ wk[w].pc \in Holding /\ OwnsRow(w) /\ status[j] = "RUNNING"
        /\ wk[w].pc = "recording" => wk[w].ret = retries[j]
    BY <1>1, <1>10, <2>1 DEF MarkSucceeded, MarkFailedWrite, Holding, OwnsRow
  <2>3. wk' = [wk EXCEPT ![w] = Idle] /\ Idle.pc \notin Holding
    BY <1>10 DEF MarkSucceeded, MarkFailedWrite, Idle, Holding
  <2>4. /\ attempts' = attempts
        /\ \/ status'[j] = "SUCCEEDED" /\ retries'[j] = retries[j]
           \/ status'[j] \in {"FAILED", "PENDING"} /\ retries'[j] = retries[j] + 1
        /\ \A k \in Jobs \ {j} : /\ status'[k] = status[k] /\ retries'[k] = retries[k]
                                 /\ token'[k] = token[k] /\ lease'[k] = lease[k]
    BY <1>10, <2>1, <2>2 DEF MarkSucceeded, MarkFailedWrite
  <2>5. \A v \in Workers : wk'[v].pc \in Holding =>
           v # w /\ wk'[v] = wk[v] /\ wk[v].job # j
    BY <1>2, <2>1, <2>2, <2>3
  <2>6. \A k \in Jobs \ {j}, v \in Workers : Holds(v, k) => wk'[v] = wk[v]
    BY <2>1, <2>3 DEF Holds
  <2> QED
    BY <1>1, <2>1, <2>2, <2>4, <2>5, <2>6 DEF Undisturbed, Holds, OwnsRow
<1>11. ASSUME NEW w \in Workers PROVE ~Crash(w)
  BY <1>0 DEF Crash
<1>12. CASE Tick
  <2>1. \A j \in Jobs : ~Overrun(j)
    BY <1>0, <1>12 DEF Tick
  <2>2. \A j \in Jobs : status[j] = "RUNNING" => lease'[j] > 0
    <3> SUFFICES ASSUME NEW j \in Jobs, status[j] = "RUNNING" PROVE lease'[j] > 0
      BY <1>12 DEF Tick
    <3>1. lease[j] > 0 /\ lease[j] # 1 /\ lease[j] \in (0..Lease) \cup {NoLease}
      BY <1>1, <2>1 DEF Overrun
    <3>2. lease[j] \in Nat /\ lease'[j] = lease[j] - 1
      BY <1>12, <3>1, OutboxAssumption DEF Tick, NoLease
    <3> QED
      BY <3>1, <3>2
  <2> QED
    BY <1>1, <1>12, <2>2 DEF Tick, Undisturbed, Holds, OwnsRow
<1> QED
  BY <1>3, <1>4, <1>6, <1>7, <1>8, <1>9, <1>10, <1>11, <1>12
     DEF Next, WorkerStep, LookUp, RollBack, Withdraw, vars

\* While no worker crashes and no lease runs out under its worker, each further
\* copy of a message follows a failure recorded in retry_count, for any number
\* of workers racing on _claim_next and _mark_failed.
THEOREM CopiesFollowFailures == Spec => []DuplicatesFollowFailures
<1>1. Init => SentWithin /\ Undisturbed
  BY DEF Init, SentWithin, Undisturbed, Idle, Holding
<1>2. IInv /\ SentWithin /\ Undisturbed => DuplicatesFollowFailures
  <2> SUFFICES ASSUME IInv, SentWithin, Undisturbed, NEW j \in Jobs, faults = 0
               PROVE  Cardinality(sent[j]) <= 1 + retries[j]
    BY DEF DuplicatesFollowFailures
  <2>1. attempts[j] \in Nat /\ retries[j] \in Nat
    BY DEF IInv, TypeOK
  <2>2. IsFiniteSet(1..attempts[j]) /\ Cardinality(1..attempts[j]) = attempts[j]
    <3>1. 1 \in Int /\ attempts[j] \in Int
      BY <2>1
    <3>2. /\ IsFiniteSet(1..attempts[j])
          /\ Cardinality(1..attempts[j])
               = IF 1 > attempts[j] THEN 0 ELSE attempts[j] - 1 + 1
      BY <3>1, FS_Interval
    <3> QED
      BY <2>1, <3>2
  <2>3. sent[j] \subseteq 1..attempts[j]
    BY DEF SentWithin
  <2>4. Cardinality(sent[j]) <= attempts[j]
    BY <2>2, <2>3, FS_Subset
  <2>5. attempts[j] <= retries[j] + 1
    BY <2>1 DEF Undisturbed
  <2>6. Cardinality(sent[j]) \in Nat
    BY <2>2, <2>3, FS_Subset, FS_CardinalityType
  <2> QED
    BY <2>1, <2>4, <2>5, <2>6
<1> QED
  BY <1>1, <1>2, SentStep, UndisturbedStep, InductiveInvariant, PTL DEF Spec
-----------------------------------------------------------------------------
(***************************************************************************)
(* A worker is late for the job it holds once its lease has run out or the *)
(* row is no longer its own.  Of those who hold a job all but one are      *)
(* late, and a lease that runs out under its worker is a fault.  A late    *)
(* write of _mark_failed takes the row from the worker that owns it; but   *)
(* it was late itself, and holds the job no more.                          *)
(***************************************************************************)
Late(j) == {w \in Workers : Holds(w, j) /\ ~(OwnsRow(w) /\ lease[j] > 0)}

LateByFault ==
  \A j \in Jobs : IsFiniteSet(Late(j)) /\ Cardinality(Late(j)) <= faults

LEMMA OneMore ==
  ASSUME NEW S, IsFiniteSet(S), NEW n \in Nat, Cardinality(S) <= n,
         NEW x, NEW T \in SUBSET (S \cup {x})
  PROVE  IsFiniteSet(T) /\ Cardinality(T) <= n + 1
<1>1. Cardinality(S) \in Nat /\ IsFiniteSet(S \cup {x})
  BY FS_CardinalityType, FS_AddElement
<1>2. Cardinality(S \cup {x}) <= Cardinality(S) + 1
  BY <1>1, FS_AddElement
<1>3. /\ IsFiniteSet(T) /\ Cardinality(T) <= Cardinality(S \cup {x})
      /\ Cardinality(T) \in Nat /\ Cardinality(S \cup {x}) \in Nat
  BY <1>1, FS_Subset, FS_CardinalityType
<1> QED
  BY <1>1, <1>2, <1>3

LEMMA OneForAnother ==
  ASSUME NEW S, IsFiniteSet(S), NEW n \in Nat, Cardinality(S) <= n,
         NEW v \in S, NEW x, NEW T \in SUBSET ((S \ {v}) \cup {x})
  PROVE  IsFiniteSet(T) /\ Cardinality(T) <= n
<1>1. PICK R : R = S \ {v}
  OBVIOUS
<1>2. /\ IsFiniteSet(R) /\ Cardinality(R) = Cardinality(S) - 1
      /\ Cardinality(S) \in Nat /\ Cardinality(R) \in Nat
  BY <1>1, FS_RemoveElement, FS_CardinalityType
<1>3. n - 1 \in Nat /\ Cardinality(R) <= n - 1
  BY <1>2
<1>4. T \in SUBSET (R \cup {x})
  BY <1>1
<1>5. IsFiniteSet(T) /\ Cardinality(T) <= (n - 1) + 1
  BY <1>2, <1>3, <1>4, OneMore
<1> QED
  BY <1>5

\* Two workers whose token the row carries are one.
LEMMA OneOwner ==
  ASSUME IInv, NEW v \in Workers, NEW w \in Workers, NEW j,
         Holds(v, j), Holds(w, j), OwnsRow(v), OwnsRow(w)
  PROVE  v = w
BY DEF IInv, OneClaimant, Holds, OwnsRow

LEMMA LateStep ==
  ASSUME IInv, LateByFault, [Next]_vars
  PROVE  LateByFault'
<1> USE DEF row
<1>0. TypeOK /\ RowShape
  BY DEF IInv
<1>1. SUFFICES ASSUME NEW j \in Jobs
               PROVE  IsFiniteSet(Late(j)') /\ Cardinality(Late(j)') <= faults'
  BY DEF LateByFault
<1>2. IsFiniteSet(Late(j)) /\ Cardinality(Late(j)) <= faults /\ faults \in Nat
  BY <1>0 DEF LateByFault, TypeOK
<1>3. ASSUME \A u \in Workers : u \in Late(j)' => u \in Late(j),
             faults' \in Nat, faults' >= faults
      PROVE  IsFiniteSet(Late(j)') /\ Cardinality(Late(j)') <= faults'
  <2>1. Late(j)' \in SUBSET Late(j)
    BY <1>3 DEF Late
  <2>2. /\ IsFiniteSet(Late(j)') /\ Cardinality(Late(j)') <= Cardinality(Late(j))
        /\ Cardinality(Late(j)') \in Nat /\ Cardinality(Late(j)) \in Nat
    BY <1>2, <2>1, FS_Subset, FS_CardinalityType
  <2> QED
    BY <1>2, <1>3, <2>2
<1>4. CASE UNCHANGED <<row, wk, faults>>
  BY <1>2, <1>3, <1>4 DEF Late, Holds, OwnsRow
<1>5. ASSUME NEW p \in Producers, InsertJob(p)
      PROVE  IsFiniteSet(Late(j)') /\ Cardinality(Late(j)') <= faults'
  <2>1. \A u \in Workers : u \in Late(j)' => u \in Late(j)
    BY <1>0, <1>5 DEF InsertJob, Insertable, Late, Holds, OwnsRow, TypeOK
  <2>2. faults' = faults
    BY <1>5 DEF InsertJob
  <2> QED
    BY <1>2, <1>3, <2>1, <2>2
\* A worker that keeps the row as it is, and holds what it held or nothing.
<1>6. ASSUME NEW w \in Workers, UNCHANGED row, faults' \in {faults, faults + 1},
             \A u \in Workers \ {w} : wk'[u] = wk[u],
             wk'[w].pc \in Holding => /\ wk[w].pc \in Holding
                                      /\ wk'[w].job = wk[w].job /\ wk'[w].tok = wk[w].tok
      PROVE  IsFiniteSet(Late(j)') /\ Cardinality(Late(j)') <= faults'
  <2>1. \A u \in Workers : u \in Late(j)' => u \in Late(j)
    BY <1>6 DEF Late, Holds, OwnsRow
  <2> QED
    BY <1>2, <1>3, <1>6, <2>1
<1>7. ASSUME NEW w \in Workers,
             Select(w) \/ ReadSubject(w) \/ Send(w) \/ MarkFailedRead(w) \/ Crash(w)
               \/ \E k \in Jobs : SkipCandidate(w, k)
      PROVE  IsFiniteSet(Late(j)') /\ Cardinality(Late(j)') <= faults'
  <2>1. UNCHANGED row /\ faults' \in {faults, faults + 1}
        /\ \A u \in Workers \ {w} : wk'[u] = wk[u]
    BY <1>0, <1>7 DEF Select, ReadSubject, Send, MarkFailedRead, Crash, SkipCandidate, TypeOK
  <2>2. wk'[w].pc \in Holding => /\ wk[w].pc \in Holding
                                 /\ wk'[w].job = wk[w].job /\ wk'[w].tok = wk[w].tok
    <3>1. CASE Select(w)
      <4>1. PICK c : c = [Idle EXCEPT !.pc = "selected", !.cand = {k \in Jobs : Claimable(k)}]
        OBVIOUS
      <4>2. wk'[w] = c /\ c.pc \notin Holding
        BY <1>0, <3>1, <4>1 DEF Select, TypeOK, Idle, Holding
      <4> QED
        BY <4>2
    <3>2. CASE Crash(w)
      BY <1>0, <3>2 DEF Crash, TypeOK, Idle, Holding
    <3>3. CASE ReadSubject(w)
      BY <1>0, <3>3 DEF ReadSubject, TypeOK, Worker, Holding
    <3>4. CASE Send(w)
      BY <1>0, <3>4 DEF Send, TypeOK, Worker, Holding
    <3>5. CASE MarkFailedRead(w)
      BY <1>0, <3>5 DEF MarkFailedRead, TypeOK, Worker, Holding, Idle
    <3>6. CASE \E k \in Jobs : SkipCandidate(w, k)
      BY <1>0, <3>6 DEF SkipCandidate, TypeOK, Worker, Holding, Idle
    <3> QED
      BY <1>7, <3>1, <3>2, <3>3, <3>4, <3>5, <3>6
  <2> QED
    BY <1>6, <2>1, <2>2
<1>8. ASSUME NEW w \in Workers, NEW k \in Jobs, Claim(w, k)
      PROVE  IsFiniteSet(Late(j)') /\ Cardinality(Late(j)') <= faults'
  <2>1. /\ status[k] # "RUNNING" \/ lease[k] = 0
        /\ wk'[w].job = k /\ wk'[w].tok = attempts[k] + 1
        /\ \A u \in Workers \ {w} : wk'[u] = wk[u]
        /\ status'[k] = "RUNNING" /\ token'[k] = attempts[k] + 1 /\ lease'[k] > 0
        /\ \A i \in Jobs \ {k} : /\ status'[i] = status[i] /\ token'[i] = token[i]
                                 /\ lease'[i] = lease[i]
        /\ faults' = faults
    BY <1>0, <1>8 DEF Claim, Claimable, TypeOK, Idle
  <2>2. \A u \in Workers : u \in Late(j)' => u \in Late(j)
    BY <2>1 DEF Late, Holds, OwnsRow
  <2> QED
    BY <1>2, <1>3, <2>1, <2>2
<1>9. ASSUME NEW w \in Workers, MarkSucceeded(w)
      PROVE  IsFiniteSet(Late(j)') /\ Cardinality(Late(j)') <= faults'
  <2>1. /\ \A u \in Workers \ {w} : wk'[u] = wk[u]
        /\ wk'[w].pc \notin Holding /\ wk[w].pc \in Holding
        /\ faults' = faults
    BY <1>0, <1>9 DEF MarkSucceeded, TypeOK, Idle, Holding
  <2>2. CASE ~OwnsRow(w)
    BY <1>6, <1>9, <2>1, <2>2 DEF MarkSucceeded
  <2>3. CASE OwnsRow(w)
    <3>1. \A i \in Jobs : i # wk[w].job => /\ status'[i] = status[i] /\ token'[i] = token[i]
                                           /\ lease'[i] = lease[i]
      BY <1>0, <1>9, <2>3 DEF MarkSucceeded, TypeOK
    <3>2. \A u \in Workers \ {w} : Holds(u, wk[w].job) => ~OwnsRow(u)
      BY <2>1, <2>3, OneOwner DEF Holds
    <3>3. \A u \in Workers : u \in Late(j)' => u \in Late(j)
      BY <2>1, <3>1, <3>2 DEF Late, Holds, OwnsRow
    <3> QED
      BY <1>2, <1>3, <2>1, <3>3
  <2> QED
    BY <2>2, <2>3
<1>10. ASSUME NEW w \in Workers, MarkFailedWrite(w)
       PROVE  IsFiniteSet(Late(j)') /\ Cardinality(Late(j)') <= faults'
  <2>1. /\ \A u \in Workers \ {w} : wk'[u] = wk[u]
        /\ wk'[w].pc \notin Holding /\ wk[w].pc \in Holding
        /\ faults' = faults
        /\ \A i \in Jobs : i # wk[w].job => /\ status'[i] = status[i] /\ token'[i] = token[i]
                                            /\ lease'[i] = lease[i]
    BY <1>0, <1>10 DEF MarkFailedWrite, TypeOK, Idle, Holding
  <2>2. CASE wk[w].job # j \/ w \notin Late(j)
    <3>1. wk[w].job = j => \A u \in Workers \ {w} : Holds(u, j) => ~OwnsRow(u)
      BY <2>1, <2>2, OneOwner DEF Late, Holds
    <3>2. \A u \in Workers : u \in Late(j)' => u \in Late(j)
      BY <2>1, <3>1 DEF Late, Holds, OwnsRow
    <3> QED
      BY <1>2, <1>3, <2>1, <3>2
  <2>3. CASE wk[w].job = j /\ w \in Late(j)
    <3>1. \A u \in Late(j)' : u \in Workers \ {w} /\ Holds(u, j)
      BY <2>1 DEF Late, Holds
    <3>2. PICK x : \A u \in Workers : Holds(u, j) /\ OwnsRow(u) => u = x
      <4>1. CASE \E x \in Workers : Holds(x, j) /\ OwnsRow(x)
        BY <4>1, OneOwner
      <4> QED
        BY <4>1
    <3>3. Late(j)' \in SUBSET ((Late(j) \ {w}) \cup {x})
      BY <3>1, <3>2 DEF Late
    <3> QED
      BY <1>2, <2>1, <2>3, <3>3, OneForAnother
  <2> QED
    BY <2>2, <2>3
<1>11. ASSUME Tick
       PROVE  IsFiniteSet(Late(j)') /\ Cardinality(Late(j)') <= faults'
  <2>1. /\ UNCHANGED <<status, token, wk>>
        /\ lease'[j] = IF lease[j] > 0 THEN lease[j] - 1 ELSE lease[j]
        /\ faults' = IF \E i \in Jobs : Overrun(i) THEN faults + 1 ELSE faults
        /\ lease[j] \in Int
    BY <1>0, <1>11 DEF Tick, TypeOK, NoLease
  <2>2. \A u \in Late(j)' : u \in Workers /\ Holds(u, j)
    BY <2>1 DEF Late, Holds
  <2>3. \A u \in Late(j)' : u \in Late(j) \/ (lease[j] = 1 /\ OwnsRow(u))
    BY <2>1 DEF Late, Holds, OwnsRow
  <2>4. CASE Overrun(j)
    <3>1. faults' = faults + 1
      BY <2>1, <2>4
    <3>2. PICK x : \A u \in Workers : Holds(u, j) /\ OwnsRow(u) => u = x
      <4>1. CASE \E x \in Workers : Holds(x, j) /\ OwnsRow(x)
        BY <4>1, OneOwner
      <4> QED
        BY <4>1
    <3>3. Late(j)' \in SUBSET (Late(j) \cup {x})
      BY <2>2, <2>3, <3>2
    <3> QED
      BY <1>2, <3>1, <3>3, OneMore
  <2>5. CASE ~Overrun(j)
    <3>1. \A u \in Workers : u \in Late(j)' => u \in Late(j)
      BY <2>2, <2>3, <2>5 DEF Overrun, OwnsRow, Holds
    <3> QED
      BY <1>2, <1>3, <2>1, <3>1
  <2> QED
    BY <2>4, <2>5
<1> QED
  BY <1>4, <1>5, <1>7, <1>8, <1>9, <1>10, <1>11
     DEF Next, WorkerStep, LookUp, RollBack, Withdraw, vars

\* A job is executed by two workers at once only after a crash or a lease that
\* ran out under its worker, and each further worker on it costs a further
\* fault: what _claim_next's atomic lease is worth, for any number of workers.
THEOREM HoldersAreByFault == Spec => []HoldersNeedAFault
<1>1. Init => LateByFault
  <2> SUFFICES ASSUME Init, NEW j \in Jobs
               PROVE  IsFiniteSet(Late(j)) /\ Cardinality(Late(j)) <= faults
    BY DEF LateByFault
  <2>1. Late(j) = {} /\ faults = 0
    BY DEF Init, Late, Holds, Idle, Holding
  <2> QED
    BY <2>1, FS_EmptySet
<1>2. IInv /\ LateByFault => HoldersNeedAFault
  <2> SUFFICES ASSUME IInv, LateByFault, NEW j \in Jobs
               PROVE  Cardinality({w \in Workers : Holds(w, j)}) <= 1 + faults
    BY DEF HoldersNeedAFault
  <2>1. IsFiniteSet(Late(j)) /\ Cardinality(Late(j)) <= faults /\ faults \in Nat
    BY DEF LateByFault, IInv, TypeOK
  <2>2. PICK x : \A u \in Workers : Holds(u, j) /\ OwnsRow(u) => u = x
    <3>1. CASE \E x \in Workers : Holds(x, j) /\ OwnsRow(x)
      BY <3>1, OneOwner
    <3> QED
      BY <3>1
  <2>3. PICK T : T = {w \in Workers : Holds(w, j)}
    OBVIOUS
  <2>4. T \in SUBSET (Late(j) \cup {x})
    BY <2>2, <2>3 DEF Late
  <2>5. Cardinality(T) <= faults + 1 /\ IsFiniteSet(T)
    BY <2>1, <2>4, OneMore
  <2> QED
    BY <2>1, <2>3, <2>5, FS_CardinalityType
<1> QED
  BY <1>1, <1>2, LateStep, InductiveInvariant, PTL DEF Spec
=============================================================================
