---------------------------- MODULE FeedPolling ----------------------------
(***************************************************************************)
(* RSS polls as durable jobs (services/feeds.py, web/admin_feeds.py and    *)
(* the scheduler in main.py).  Several workers may hold a poll job; one at *)
(* a time polls, under a PostgreSQL advisory lock that belongs to its      *)
(* connection, and the others report success without fetching anything.    *)
(* The queue is the number of waiting jobs; Outbox has their life.         *)
(***************************************************************************)
EXTENDS Naturals, FiniteSets

CONSTANTS Feeds,         \* feeds an administrator may configure
          Pollers,       \* workers that run poll jobs
          MaxQueue,      \* bound: poll jobs waiting at once
          MaxChanges,    \* bound: changes to the feeds
          MaxCrashes     \* bound: workers that die in a poll

ASSUME PollingAssumption ==
    /\ IsFiniteSet(Feeds) /\ IsFiniteSet(Pollers)
    /\ MaxQueue \in Nat \ {0} /\ MaxChanges \in Nat /\ MaxCrashes \in Nat

VARIABLES
    feed,        \* [Feeds -> "gone", "on" or "off"]
    fetchError,  \* feeds whose last fetch failed (fetch_error)
    queued,      \* poll jobs waiting
    bucketUsed,  \* whether this interval's key has been enqueued
    pollLock,    \* the poller that holds the advisory lock, or Nobody
    poll,        \* [Pollers -> local state of the job's run]
    touched,     \* history: the feed of the last fetch
    changes,     \* changes made to the feeds so far
    crashes      \* workers that died so far

pollVars == <<feed, fetchError, queued, bucketUsed, pollLock, poll, touched,
              changes, crashes>>

Nobody == "nobody"
NoFeed == "no feed"
Resting == [pc |-> "idle", todo |-> {}, cur |-> NoFeed, failed |-> FALSE]

PollingInit ==
    /\ feed = [f \in Feeds |-> "gone"]
    /\ fetchError = {}
    /\ queued = 0 /\ bucketUsed = FALSE
    /\ pollLock = Nobody
    /\ poll = [p \in Pollers |-> Resting]
    /\ touched = NoFeed
    /\ changes = 0 /\ crashes = 0

(***************************************************************************)
(* Administrators                                                          *)
(***************************************************************************)
Change(f, to) ==
    /\ changes < MaxChanges
    /\ feed' = [feed EXCEPT ![f] = to]
    /\ changes' = changes + 1
    /\ UNCHANGED <<queued, bucketUsed, pollLock, poll, touched, crashes>>

\* The URL must be new: a lookup first, the unique key behind it.
CreateFeed(f) ==
    /\ feed[f] = "gone"
    /\ \E to \in {"on", "off"} : Change(f, to)
    /\ UNCHANGED fetchError

UpdateFeed(f) ==
    /\ feed[f] # "gone"
    /\ Change(f, IF feed[f] = "on" THEN "off" ELSE "on")
    /\ UNCHANGED fetchError

DeleteFeed(f) ==
    /\ feed[f] # "gone"
    /\ Change(f, "gone")
    /\ fetchError' = fetchError \ {f}

(***************************************************************************)
(* Enqueueing                                                              *)
(***************************************************************************)
FetchNow ==
    /\ queued < MaxQueue
    /\ queued' = queued + 1
    /\ UNCHANGED <<feed, fetchError, bucketUsed, pollLock, poll, touched, changes, crashes>>

NextInterval ==
    /\ bucketUsed
    /\ bucketUsed' = FALSE
    /\ UNCHANGED <<feed, fetchError, queued, pollLock, poll, touched, changes, crashes>>

\* Every replica's tick uses the interval's key: only the first adds a row.
ScheduledEnqueue ==
    /\ ~bucketUsed /\ queued < MaxQueue
    /\ bucketUsed' = TRUE
    /\ queued' = queued + 1
    /\ UNCHANGED <<feed, fetchError, pollLock, poll, touched, changes, crashes>>

(***************************************************************************)
(* One run of fetch_all_enabled_for_job                                    *)
(***************************************************************************)
Enabled == {f \in Feeds : feed[f] = "on"}

StartPoll(p) ==
    /\ poll[p].pc = "idle" /\ queued > 0 /\ pollLock = Nobody
    /\ queued' = queued - 1
    /\ pollLock' = p
    /\ poll' = [poll EXCEPT ![p] = [Resting EXCEPT !.pc = "polling", !.todo = Enabled]]
    /\ touched' = NoFeed
    /\ UNCHANGED <<feed, fetchError, bucketUsed, changes, crashes>>

\* "RSS poll job skipped: another worker holds the lock": the job succeeds.
SkipPoll(p) ==
    /\ poll[p].pc = "idle" /\ queued > 0 /\ pollLock # Nobody
    /\ queued' = queued - 1
    /\ UNCHANGED <<feed, fetchError, bucketUsed, pollLock, poll, touched, changes, crashes>>

\* Faulty variant: the run's end leaves the lock where it is.
FinishKeepingLock(p) ==
    /\ pollLock' = p
    /\ poll' = [poll EXCEPT ![p] = Resting]

\* The context manager releases the lock however the run ends.
Finish(p) ==
    /\ pollLock' = Nobody
    /\ poll' = [poll EXCEPT ![p] = Resting]

\* The outbox queues a failed job again, or gives it up after its last attempt.
Retry == queued' \in {queued, IF queued < MaxQueue THEN queued + 1 ELSE queued}

\* fetch_feed records the failure of a live feed on its row; the UPDATE of a row
\* that was deleted during the fetch fails, in the handler of the failure too,
\* and ends the run.
FetchFeed(p, f) ==
    /\ poll[p].pc = "polling" /\ poll[p].cur = NoFeed /\ f \in poll[p].todo
    /\ feed[f] # "gone"
    /\ fetchError' \in {fetchError \cup {f}, fetchError \ {f}}
    /\ poll' = [poll EXCEPT ![p].cur = f, ![p].todo = @ \ {f}]
    /\ touched' = f
    /\ UNCHANGED <<feed, queued, bucketUsed, pollLock, changes, crashes>>

FetchDeleted(p, f) ==
    /\ poll[p].pc = "polling" /\ poll[p].cur = NoFeed /\ f \in poll[p].todo
    /\ feed[f] = "gone"
    /\ Finish(p) /\ Retry
    /\ UNCHANGED <<feed, fetchError, bucketUsed, touched, changes, crashes>>

\* session.refresh(feed), which raises when the row has gone.
ReadOutcome(p) ==
    /\ poll[p].cur # NoFeed
    /\ IF feed[poll[p].cur] = "gone"
       THEN Finish(p) /\ Retry
       ELSE /\ poll' = [poll EXCEPT ![p].cur = NoFeed,
                          ![p].failed = @ \/ poll[p].cur \in fetchError]
            /\ UNCHANGED <<queued, pollLock>>
    /\ UNCHANGED <<feed, fetchError, bucketUsed, touched, changes, crashes>>

EndPoll(p) ==
    /\ poll[p].pc = "polling" /\ poll[p].cur = NoFeed /\ poll[p].todo = {}
    /\ Finish(p)
    /\ IF poll[p].failed THEN Retry ELSE UNCHANGED queued
    /\ UNCHANGED <<feed, fetchError, bucketUsed, touched, changes, crashes>>

\* The connection dies with its process and the lock with it; the job's lease
\* runs out and it is claimed again.
CrashPoll(p) ==
    /\ poll[p].pc = "polling" /\ crashes < MaxCrashes
    /\ crashes' = crashes + 1
    /\ Finish(p) /\ Retry
    /\ UNCHANGED <<feed, fetchError, bucketUsed, touched, changes>>

RunStep(p) ==
    \/ StartPoll(p) \/ SkipPoll(p) \/ ReadOutcome(p) \/ EndPoll(p)
    \/ \E f \in Feeds : FetchFeed(p, f) \/ FetchDeleted(p, f)

PollingNext ==
    \/ \E f \in Feeds : CreateFeed(f) \/ UpdateFeed(f) \/ DeleteFeed(f)
    \/ FetchNow \/ NextInterval \/ ScheduledEnqueue
    \/ \E p \in Pollers : RunStep(p) \/ CrashPoll(p)

PollingSpec == PollingInit /\ [][PollingNext]_pollVars

\* iceberg-worker --forever claims what is due, fetches time out, the scheduler
\* loop ticks and intervals pass.
PollingFair ==
    /\ WF_pollVars(NextInterval) /\ WF_pollVars(ScheduledEnqueue)
    /\ \A p \in Pollers : WF_pollVars(RunStep(p))

(***************************************************************************)
(* Properties                                                              *)
(***************************************************************************)
PollingTypeOK ==
    /\ feed \in [Feeds -> {"gone", "on", "off"}]
    /\ fetchError \subseteq Feeds
    /\ queued \in 0..MaxQueue
    /\ bucketUsed \in BOOLEAN
    /\ pollLock \in Pollers \cup {Nobody}
    /\ poll \in [Pollers -> [pc : {"idle", "polling"}, todo : SUBSET Feeds,
                             cur : Feeds \cup {NoFeed}, failed : BOOLEAN]]
    /\ touched \in Feeds \cup {NoFeed}
    /\ changes \in 0..MaxChanges /\ crashes \in 0..MaxCrashes

\* A feed that stays enabled is fetched again and again: neither the workers that
\* skip because another one polls, nor failing or deleted neighbours, nor crashes
\* keep it from being polled for ever (feeds.fetch_all_enabled_for_job).
EnabledFeedsArePolled ==
    \A f \in Feeds : <>[](feed[f] = "on") => []<>(touched = f)
=============================================================================
