------------------------------- MODULE Outbox -------------------------------
(***************************************************************************)
(* The durable job outbox (services/jobs.py, models.OutboxJob).            *)
(*                                                                         *)
(* Request handlers enqueue a job in the transaction of the state that     *)
(* caused it; workers lease a due job, perform the external call outside   *)
(* any transaction, and record the outcome.  A job is named by its         *)
(* idempotency key, so a row exists for j iff status[j] # "ABSENT".        *)
(*                                                                         *)
(* Timestamps are kept relative to the present: wait[j] is what is left    *)
(* until available_at and lease[j] what is left until lease_expires_at, 0  *)
(* standing for every instant that has passed; Tick lets one unit of time  *)
(* go by.  The uuid lease token of a claim is the value the claim gives to *)
(* attempt_count: both are new at every claim and never used again.        *)
(***************************************************************************)
EXTENDS Integers, FiniteSets

CONSTANTS
  Jobs,         \* idempotency keys callers may enqueue
  Workers,      \* iceberg-worker processes and post-commit kicks
  Producers,    \* request handlers and scheduler ticks that enqueue
  NoJob,        \* "no job held"
  MaxAttempts,  \* ICEBERG_JOBS_MAX_ATTEMPTS
  Lease,        \* ICEBERG_JOBS_LEASE_SECONDS, in ticks
  RetryBase,    \* ICEBERG_JOBS_RETRY_BASE_SECONDS, in ticks
  RetryCap,     \* _MAX_RETRY_DELAY_SECONDS, in ticks
  MaxFaults     \* bound: crashes and lease overruns of one behaviour

ASSUME OutboxAssumption ==
  /\ NoJob \notin Jobs
  /\ MaxAttempts \in Nat \ {0}
  /\ Lease \in Nat \ {0}
  /\ RetryBase \in Nat \ {0}
  /\ RetryCap \in Nat \ {0}
  /\ MaxFaults \in Nat

\* Arithmetic the proofs need of the operator ^, evaluated in full by TLC.
ASSUME PowersOfTwo == \A k \in 0..16 : 2^k \in Nat

VARIABLES
  status,    \* OutboxJob.status, "ABSENT" before the row exists
  token,     \* lease_token, 0 for ""
  attempts,  \* attempt_count
  retries,   \* retry_count
  wait,      \* available_at - now
  lease,     \* lease_expires_at - now, NoLease for NULL
  sent,      \* the attempts that put the message on the wire
  gone,      \* the report, comment or recipient no longer qualifies
  ins,       \* the key each producer found absent and is about to insert
  wk,        \* each worker's local state between two transactions
  faults     \* crashes and lease overruns so far

vars == <<status, token, attempts, retries, wait, lease, sent, gone, ins, wk,
          faults>>
row  == <<status, token, attempts, retries, wait, lease>>

NoLease == -1
Status  == {"ABSENT", "PENDING", "RUNNING", "SUCCEEDED", "FAILED"}
Settled == {"SUCCEEDED", "FAILED"}

\* A worker is idle, has a candidate list, holds a claim it has not executed,
\* is about to send, has the outcome of the call, or has re-read the row in
\* _mark_failed and is about to write it back.
Holding == {"claimed", "sending", "done", "raised", "recording"}
Worker  == [pc : {"idle", "selected"} \cup Holding, cand : SUBSET Jobs,
            job : Jobs \cup {NoJob}, tok : Nat, att : Nat, ret : Nat]
Idle    == [pc |-> "idle", cand |-> {}, job |-> NoJob, tok |-> 0,
            att |-> 0, ret |-> 0]

Holds(w, j) == wk[w].pc \in Holding /\ wk[w].job = j

\* _retry_delay: base * 2^(attempt - 1), the exponent clipped to 16 and the
\* delay to an hour.
RetryDelay(n) ==
  LET exponent == IF n <= 1 THEN 0 ELSE IF n > 17 THEN 16 ELSE n - 1
      seconds  == RetryBase * 2^exponent
  IN  IF seconds < RetryCap THEN seconds ELSE RetryCap

\* Faulty variants of Claimable: a lease protects nothing; a failed job is
\* due again; a job left RUNNING by a dead worker is never due.
ClaimableLeased(j)  == status[j] \in {"PENDING", "RUNNING"} /\ wait[j] = 0
ClaimableFailed(j)  == \/ status[j] \in {"PENDING", "FAILED"} /\ wait[j] = 0
                       \/ status[j] = "RUNNING" /\ lease[j] = 0
ClaimablePending(j) == status[j] = "PENDING" /\ wait[j] = 0

\* _claimable_clause: available, or left behind by an expired lease.
Claimable(j) ==
  \/ status[j] = "PENDING" /\ wait[j] = 0
  \/ status[j] = "RUNNING" /\ lease[j] = 0

\* The WHERE clause of _mark_succeeded and the test of _mark_failed: the row
\* still carries the token of this claim.
OwnsRow(w) ==
  /\ status[wk[w].job] = "RUNNING"
  /\ token[wk[w].job] = wk[w].tok

\* _mark_failed gives up after the last attempt.
OutOfAttempts(w) == wk[w].att >= MaxAttempts

\* What an external call can do: put the message on the wire or not, and
\* return or raise (faulty variant: the sender swallows its own errors).
OutcomesSwallowed == {<<"sent", "done">>, <<"sent", "raised">>,
                      <<"lost", "done">>}
Outcomes          == {<<"sent", "done">>, <<"sent", "raised">>,
                      <<"lost", "raised">>}

\* The unique idempotency key.
Insertable(j) == status[j] = "ABSENT"

-----------------------------------------------------------------------------
Init ==
  /\ status   = [j \in Jobs |-> "ABSENT"]
  /\ token    = [j \in Jobs |-> 0]
  /\ attempts = [j \in Jobs |-> 0]
  /\ retries  = [j \in Jobs |-> 0]
  /\ wait     = [j \in Jobs |-> 0]
  /\ lease    = [j \in Jobs |-> NoLease]
  /\ sent     = [j \in Jobs |-> {}]
  /\ gone     = [j \in Jobs |-> FALSE]
  /\ ins      = [p \in Producers |-> NoJob]
  /\ wk       = [w \in Workers |-> Idle]
  /\ faults   = 0

\* enqueue, first half: the key is looked up and found absent.  A key that is
\* found returns the existing row, whatever its status, and changes nothing.
LookUp(p, j) ==
  /\ ins[p] = NoJob
  /\ status[j] = "ABSENT"
  /\ ins' = [ins EXCEPT ![p] = j]
  /\ UNCHANGED <<row, sent, gone, wk, faults>>

\* enqueue, second half, with the caller's commit: the savepoint inserts the
\* row, or meets the unique key another caller has committed meanwhile.
InsertJob(p) ==
  LET j == ins[p] IN
  /\ j # NoJob
  /\ ins' = [ins EXCEPT ![p] = NoJob]
  /\ \/ /\ Insertable(j)
        /\ status'   = [status EXCEPT ![j] = "PENDING"]
        /\ attempts' = [attempts EXCEPT ![j] = 0]
        /\ retries'  = [retries EXCEPT ![j] = 0]
        /\ wait'     = [wait EXCEPT ![j] = 0]
        /\ UNCHANGED <<token, lease>>
     \/ ~Insertable(j) /\ UNCHANGED row
  /\ UNCHANGED <<sent, gone, wk, faults>>

\* The caller's transaction rolls back, and the row with it.
RollBack(p) ==
  /\ ins[p] # NoJob
  /\ ins' = [ins EXCEPT ![p] = NoJob]
  /\ UNCHANGED <<row, sent, gone, wk, faults>>

-----------------------------------------------------------------------------
\* _claim_next, the SELECT: the ids that are due.  The list is ordered and cut
\* at 16 in the code; here every candidate may be tried first.
Select(w) ==
  /\ wk[w].pc = "idle"
  /\ \E j \in Jobs : Claimable(j)
  /\ wk' = [wk EXCEPT ![w] = [Idle EXCEPT !.pc = "selected",
                                  !.cand = {j \in Jobs : Claimable(j)}]]
  /\ UNCHANGED <<row, sent, gone, ins, faults>>

\* _claim_next, the conditional UPDATE of one candidate that is still due.
\* "now" was read before the SELECT, so what is left of the lease when the
\* claim commits is anything up to its full length.
Claim(w, j) ==
  /\ wk[w].pc = "selected"
  /\ j \in wk[w].cand
  /\ Claimable(j)
  /\ status'   = [status EXCEPT ![j] = "RUNNING"]
  /\ attempts' = [attempts EXCEPT ![j] = @ + 1]
  /\ token'    = [token EXCEPT ![j] = attempts[j] + 1]
  /\ \E left \in 1..Lease : lease' = [lease EXCEPT ![j] = left]
  /\ wk' = [wk EXCEPT ![w] = [Idle EXCEPT !.pc = "claimed", !.job = j,
                                          !.tok = attempts[j] + 1]]
  /\ UNCHANGED <<retries, wait, sent, gone, ins, faults>>

\* _claim_next, the UPDATE that matches no row: another worker was faster.
SkipCandidate(w, j) ==
  /\ wk[w].pc = "selected"
  /\ j \in wk[w].cand
  /\ ~Claimable(j)
  /\ wk' = [wk EXCEPT ![w] = IF wk[w].cand = {j} THEN Idle
                             ELSE [wk[w] EXCEPT !.cand = @ \ {j}]]
  /\ UNCHANGED <<row, sent, gone, ins, faults>>

\* _run_email_job, _run_webhook_job, _run_mention_job: the subject is read in
\* a session of its own; one that no longer qualifies is a silent success.
ReadSubject(w) ==
  /\ wk[w].pc = "claimed"
  /\ wk' = [wk EXCEPT ![w].pc = IF gone[wk[w].job] THEN "done" ELSE "sending"]
  /\ UNCHANGED <<row, sent, gone, ins, faults>>

\* The external call: it may reach the wire and return, raise, or raise after
\* the message has left.
Send(w) ==
  /\ wk[w].pc = "sending"
  /\ \E o \in Outcomes :
       /\ sent' = IF o[1] = "sent"
                   THEN [sent EXCEPT ![wk[w].job] = @ \cup {wk[w].tok}]
                   ELSE sent
       /\ wk' = [wk EXCEPT ![w].pc = o[2]]
  /\ UNCHANGED <<row, gone, ins, faults>>

\* _mark_succeeded: one UPDATE conditional on the claim's token.
MarkSucceeded(w) ==
  LET j == wk[w].job IN
  /\ wk[w].pc = "done"
  /\ \/ /\ OwnsRow(w)
        /\ status' = [status EXCEPT ![j] = "SUCCEEDED"]
        /\ token'  = [token EXCEPT ![j] = 0]
        /\ lease'  = [lease EXCEPT ![j] = NoLease]
        /\ UNCHANGED <<attempts, retries, wait>>
     \/ ~OwnsRow(w) /\ UNCHANGED row
  /\ wk' = [wk EXCEPT ![w] = Idle]
  /\ UNCHANGED <<sent, gone, ins, faults>>

\* _mark_failed, the read: the row is loaded and its token compared.
MarkFailedRead(w) ==
  LET j == wk[w].job IN
  /\ wk[w].pc = "raised"
  /\ wk' = [wk EXCEPT ![w] =
              IF OwnsRow(w)
              THEN [@ EXCEPT !.pc = "recording", !.att = attempts[j],
                             !.ret = retries[j]]
              ELSE Idle]
  /\ UNCHANGED <<row, sent, gone, ins, faults>>

\* _mark_failed, the commit: the session flushes the attributes it changed
\* with an UPDATE by primary key; the row is not compared again.
MarkFailedWrite(w) ==
  LET j == wk[w].job
      terminal == OutOfAttempts(w)
  IN
  /\ wk[w].pc = "recording"
  /\ status'  = [status EXCEPT ![j] = IF terminal THEN "FAILED" ELSE "PENDING"]
  /\ retries' = [retries EXCEPT ![j] = wk[w].ret + 1]
  /\ token'   = [token EXCEPT ![j] = 0]
  /\ lease'   = [lease EXCEPT ![j] = NoLease]
  /\ wait'    = [wait EXCEPT ![j] = IF terminal THEN @
                                    ELSE RetryDelay(wk[w].att)]
  /\ wk'      = [wk EXCEPT ![w] = Idle]
  /\ UNCHANGED <<attempts, sent, gone, ins, faults>>

-----------------------------------------------------------------------------
\* The worker process dies between two transactions and is started again.
Crash(w) ==
  /\ wk[w].pc # "idle"
  /\ faults < MaxFaults
  /\ faults' = faults + 1
  /\ wk' = [wk EXCEPT ![w] = Idle]
  /\ UNCHANGED <<row, sent, gone, ins>>

\* The report, the comment or the recipient of the job is deleted.
Withdraw(j) ==
  /\ ~gone[j]
  /\ gone' = [gone EXCEPT ![j] = TRUE]
  /\ UNCHANGED <<row, sent, ins, wk, faults>>

\* A lease is about to run out under a worker that still executes.
Overrun(j) ==
  /\ lease[j] = 1
  /\ \E w \in Workers : Holds(w, j) /\ wk[w].tok = token[j]

\* Time passes.  Letting a lease run out under its own worker counts as a
\* fault, of which a behaviour has at most MaxFaults.
Tick ==
  /\ \E j \in Jobs : wait[j] > 0 \/ lease[j] > 0
  /\ IF \E j \in Jobs : Overrun(j)
     THEN faults < MaxFaults /\ faults' = faults + 1
     ELSE UNCHANGED faults
  /\ wait'  = [j \in Jobs |-> IF wait[j] > 0 THEN wait[j] - 1 ELSE wait[j]]
  /\ lease' = [j \in Jobs |-> IF lease[j] > 0 THEN lease[j] - 1 ELSE lease[j]]
  /\ UNCHANGED <<status, token, attempts, retries, sent, gone, ins, wk>>

WorkerStep(w) ==
  \/ Select(w)
  \/ \E j \in Jobs : Claim(w, j) \/ SkipCandidate(w, j)
  \/ ReadSubject(w) \/ Send(w)
  \/ MarkSucceeded(w) \/ MarkFailedRead(w) \/ MarkFailedWrite(w)

Next ==
  \/ \E p \in Producers :
       InsertJob(p) \/ RollBack(p) \/ \E j \in Jobs : LookUp(p, j)
  \/ \E w \in Workers : WorkerStep(w) \/ Crash(w)
  \/ \E j \in Jobs : Withdraw(j)
  \/ Tick

Spec == Init /\ [][Next]_vars

\* iceberg-worker --forever keeps claiming; mail, webhook and feed calls have
\* timeouts, so every call returns or raises; and time passes.
Fairness ==
  /\ \A w \in Workers : WF_vars(WorkerStep(w))
  /\ WF_vars(Tick)

FairSpec == Spec /\ Fairness

-----------------------------------------------------------------------------
TypeOK ==
  /\ status   \in [Jobs -> Status]
  /\ token    \in [Jobs -> Nat]
  /\ attempts \in [Jobs -> Nat]
  /\ retries  \in [Jobs -> Nat]
  /\ wait     \in [Jobs -> 0..RetryCap]
  /\ lease    \in [Jobs -> (0..Lease) \cup {NoLease}]
  /\ sent     \in [Jobs -> SUBSET Nat]
  /\ gone     \in [Jobs -> BOOLEAN]
  /\ ins      \in [Producers -> Jobs \cup {NoJob}]
  /\ wk       \in [Workers -> Worker]
  /\ faults   \in Nat

\* A job is executed by two workers at once only after a crash or a lease that
\* ran out under its worker: _claim_next leases "atomically", and every
\* further worker on the same job costs a further fault.
HoldersNeedAFault ==
  \A j \in Jobs : Cardinality({w \in Workers : Holds(w, j)}) <= 1 + faults

\* A job is recorded SUCCEEDED only after some attempt put its message on the
\* wire or found that nobody is left to notify (process_due_jobs delivers at
\* least once), whatever crashed or overran in between.
SuccessMeansSent ==
  \A j \in Jobs : status[j] = "SUCCEEDED" => sent[j] # {} \/ gone[j]

\* _mark_failed gives up only when the budget of attempts is used up, and a
\* job it puts back still has failures to spend.
BudgetRespected ==
  \A j \in Jobs :
    /\ status[j] = "FAILED" => attempts[j] >= MaxAttempts
    /\ status[j] = "PENDING" => retries[j] < MaxAttempts

\* Concurrency alone never delivers twice: while no worker has crashed and no
\* lease has run out under its worker, each further copy of a message follows
\* a failure recorded in retry_count.  (After one overrun this is no longer
\* so: the lost updates of MarkFailedWrite can hide failures.)
DuplicatesFollowFailures ==
  \A j \in Jobs : faults = 0 => Cardinality(sent[j]) <= 1 + retries[j]

\* Enqueueing a key again, even in a race the unique key decides, never gives
\* a job its attempts back.
AttemptsNeverReset ==
  [][\A j \in Jobs : attempts'[j] >= attempts[j]]_vars

\* A settled job is opened again only by a worker that read the row in
\* _mark_failed while it owned it and writes after a newer claim of the job.
\* This is the one hole in the finality of SUCCEEDED and FAILED.
ReopenedOnlyByStaleFailure ==
  [][\A j \in Jobs :
       status[j] \in Settled /\ status'[j] # status[j] =>
         \E w \in Workers : /\ wk[w].pc = "recording" /\ wk[w].job = j
                            /\ wk[w].tok < attempts[j]]_vars

\* _mark_failed leaves a job alone when "a replacement worker owns the lease
\* now": a failure is written only over the claim that failed.
FailureSparesReplacement ==
  [][\A w \in Workers :
       wk[w].pc = "recording" /\ retries' # retries /\ wk'[w] = Idle
         => OwnsRow(w)]_vars

\* A crashed worker never strands a RUNNING job: every accepted job is
\* settled, and settled again if a stale failure reopened it.
EveryJobSettles ==
  \A j \in Jobs : status[j] # "ABSENT" ~> status[j] \in Settled
=============================================================================
