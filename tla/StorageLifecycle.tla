--------------------------- MODULE StorageLifecycle ---------------------------
(***************************************************************************)
(* Persistent objects and the rows that name them (services/attachments,   *)
(* figures, storage, storage_deletions, storage_maintenance).              *)
(*                                                                         *)
(* An upload stores the object first and commits its row afterwards.       *)
(* Deleting a row leaves a tombstone in the same transaction; workers      *)
(* lease tombstones, look once more for a row that names the object, and   *)
(* remove it.  A migration copies an object to a key derived from its      *)
(* present one and repoints the row; it never removes the source.          *)
(* Reconciliation leaves tombstones for old objects nobody names.          *)
(*                                                                         *)
(* An object has an immutable key: <<i, h>> is where the row of item i     *)
(* points after h migrations.  A lease token is known by the worker that   *)
(* was given it, which holds one claim at a time.  Waiting (the grace      *)
(* windows and the retry delay) is time passing between two steps.         *)
(***************************************************************************)
EXTENDS Integers, FiniteSets

CONSTANTS
  Items,        \* attachment, figure or rendered-product rows
  Workers,      \* iceberg-storage-worker processes and post-commit kicks
  None,
  MaxHops,      \* bound: migrations of one row
  MaxAttempts,  \* ICEBERG_JOBS_MAX_ATTEMPTS
  MaxFaults,    \* bound: worker crashes and lease overruns
  MaxKills      \* bound: migrations interrupted between copy and repoint

ASSUME StorageAssumption ==
  /\ None \notin Workers /\ None \notin Items
  /\ MaxHops \in Nat /\ MaxAttempts \in Nat \ {0}
  /\ MaxFaults \in Nat /\ MaxKills \in Nat

Loc == Items \X (0..MaxHops)
\* "no location": a pair no item has.
NoLoc == <<None, 0>>

VARIABLES
  item,      \* "new", "staged" (object stored, row not committed), "live",
             \* "deleted", or "failed" (the upload never committed)
  hop,       \* migrations of the row so far: it points at <<i, hop[i]>>
  obj,       \* objects in the stores
  old,       \* objects older than the orphan grace
  tomb,      \* StorageDeletion.status, "NONE" before the row exists
  owner,     \* whose lease_token the tombstone carries
  attempts,  \* attempt_count
  wk,        \* each worker's claim
  del,       \* the location a delete request has loaded, NoLoc if none runs,
             \* and the status of its tombstone as the request read it
  mig,       \* the migration run (one at a time: an advisory lock)
  rec,       \* the reconciliation run (one at a time: a CronJob)
  cut,       \* destinations of interrupted copies
  faults

vars == <<item, hop, obj, old, tomb, owner, attempts, wk, del, mig, rec, cut,
          faults>>
rows   == <<item, hop>>
store  == <<obj, old>>
stones == <<tomb, owner, attempts>>

Live(i) == item[i] = "live"
At(i)   == <<i, hop[i]>>

\* _referenced: some row names exactly this object.
Referenced(l) == Live(l[1]) /\ hop[l[1]] = l[2]

\* Tombstones that still want, or refuse, their object (_reference_sets).
Open == {"PENDING", "RUNNING", "FAILED"}

\* enqueue arms a tombstone that was absent or completed when it was read (faulty variants:
\* a failed one too; only an absent one).
RearmableFailed == {"NONE", "SUCCEEDED", "CANCELLED", "FAILED"}
RearmableNew    == {"NONE"}
Rearmable       == {"NONE", "SUCCEEDED", "CANCELLED"}

Idle == [pc |-> "idle", loc |-> NoLoc, outcome |-> "NONE", att |-> 0]
NoMigration == [pc |-> "idle", from |-> NoLoc]
Unread == "UNREAD"
NoDelete == [loc |-> NoLoc, saw |-> Unread]
NoRun == [pc |-> "idle", loc |-> NoLoc, saw |-> Unread]

-----------------------------------------------------------------------------
Init ==
  /\ item = [i \in Items |-> "new"]
  /\ hop = [i \in Items |-> 0]
  /\ obj = {} /\ old = {}
  /\ tomb = [l \in Loc |-> "NONE"]
  /\ owner = [l \in Loc |-> None]
  /\ attempts = [l \in Loc |-> 0]
  /\ wk = [w \in Workers |-> Idle]
  /\ del = [i \in Items |-> NoDelete]
  /\ mig = NoMigration
  /\ rec = NoRun
  /\ cut = {}
  /\ faults = 0

\* save_upload: put_file under a new key.
StoreUpload(i) ==
  /\ item[i] = "new"
  /\ item' = [item EXCEPT ![i] = "staged"]
  /\ obj' = obj \cup {At(i)}
  /\ UNCHANGED <<hop, old, stones, wk, del, mig, rec, cut, faults>>

\* save_upload: the row commits, or the process dies and the object stays.
CommitUpload(i) ==
  /\ item[i] = "staged"
  /\ \E outcome \in {"live", "failed"} : item' = [item EXCEPT ![i] = outcome]
  /\ UNCHANGED <<hop, store, stones, wk, del, mig, rec, cut, faults>>

\* storage_deletions.enqueue selects the tombstone; one that is pending, running
\* or failed is returned as it is.
Seen(l) == IF tomb[l] \in Rearmable THEN tomb[l] ELSE "KEEP"

\* A completed one is armed again by primary key; its cleared lease is not a
\* change and is not written.  An absent one is inserted, unless somebody else's
\* is there by now, which is returned as it is.
Enqueue(l, saw) ==
  /\ IF saw # "KEEP" /\ (saw = "NONE" => tomb[l] = "NONE")
     THEN /\ tomb' = [tomb EXCEPT ![l] = "PENDING"]
          /\ attempts' = [attempts EXCEPT ![l] = 0]
     ELSE UNCHANGED <<tomb, attempts>>
  /\ UNCHANGED owner

\* delete_attachment: the request loads the row, enqueue reads the tombstone of
\* the object it names ...
BeginDelete(i) ==
  /\ Live(i) /\ del[i] = NoDelete
  /\ del' = [del EXCEPT ![i].loc = At(i)]
  /\ UNCHANGED <<rows, store, stones, wk, mig, rec, cut, faults>>

DeleteReads(i) ==
  /\ del[i].loc # NoLoc /\ del[i].saw = Unread
  /\ del' = [del EXCEPT ![i].saw = Seen(del[i].loc)]
  /\ UNCHANGED <<rows, store, stones, wk, mig, rec, cut, faults>>

\* ... and the deletion by primary key and the tombstone commit together.
CommitDelete(i) ==
  /\ del[i].saw # Unread
  /\ item' = [item EXCEPT ![i] = "deleted"]
  /\ Enqueue(del[i].loc, del[i].saw)
  /\ del' = [del EXCEPT ![i] = NoDelete]
  /\ UNCHANGED <<hop, store, wk, mig, rec, cut, faults>>

-----------------------------------------------------------------------------
\* The worker of a lease that still runs: its process has neither crashed nor
\* finished with the claim.
Served(l) == /\ owner[l] # None
             /\ wk[owner[l]].pc # "idle" /\ wk[owner[l]].loc = l

\* _claim_next: a due tombstone, or one whose lease ran out.  A lease that runs
\* out under a worker that still executes is a fault.
Claim(w, l) ==
  /\ wk[w].pc = "idle"
  /\ \/ tomb[l] = "PENDING" /\ UNCHANGED faults
     \/ tomb[l] = "RUNNING" /\ ~Served(l) /\ UNCHANGED faults
     \/ /\ tomb[l] = "RUNNING" /\ Served(l)
        /\ faults < MaxFaults /\ faults' = faults + 1
  /\ tomb' = [tomb EXCEPT ![l] = "RUNNING"]
  /\ owner' = [owner EXCEPT ![l] = w]
  /\ attempts' = [attempts EXCEPT ![l] = @ + 1]
  /\ wk' = [wk EXCEPT ![w] = [Idle EXCEPT !.pc = "claimed", !.loc = l]]
  /\ UNCHANGED <<rows, store, del, mig, rec, cut>>

\* _execute: a row that names the object cancels the removal.
LookAgain(w) ==
  /\ wk[w].pc = "claimed"
  /\ wk' = [wk EXCEPT ![w] =
              IF Referenced(wk[w].loc)
              THEN [@ EXCEPT !.pc = "finished", !.outcome = "CANCELLED"]
              ELSE [@ EXCEPT !.pc = "clear"]]
  /\ UNCHANGED <<rows, store, stones, del, mig, rec, cut, faults>>

\* _execute: the object is missing already, or its digest is read and it is
\* removed, or the store or the digest raises an error.
Remove(w) ==
  /\ wk[w].pc = "clear"
  /\ \/ /\ obj' = obj \ {wk[w].loc} /\ old' = old \ {wk[w].loc}
        /\ wk' = [wk EXCEPT ![w] = [@ EXCEPT !.pc = "finished",
                                             !.outcome = "SUCCEEDED"]]
     \/ /\ wk' = [wk EXCEPT ![w] = [@ EXCEPT !.pc = "raised"]]
        /\ UNCHANGED store
  /\ UNCHANGED <<rows, stones, del, mig, rec, cut, faults>>

OwnsStone(w) == /\ tomb[wk[w].loc] = "RUNNING"
                /\ owner[wk[w].loc] = w

\* _mark_complete: one UPDATE conditional on the claim's token.
MarkComplete(w) ==
  /\ wk[w].pc = "finished"
  /\ IF OwnsStone(w)
     THEN /\ tomb' = [tomb EXCEPT ![wk[w].loc] = wk[w].outcome]
          /\ owner' = [owner EXCEPT ![wk[w].loc] = None]
     ELSE UNCHANGED <<tomb, owner>>
  /\ wk' = [wk EXCEPT ![w] = Idle]
  /\ UNCHANGED <<rows, store, attempts, del, mig, rec, cut, faults>>

\* _mark_failed: the row is read and its token compared ...
MarkFailedRead(w) ==
  /\ wk[w].pc = "raised"
  /\ wk' = [wk EXCEPT ![w] = IF OwnsStone(w)
                             THEN [@ EXCEPT !.pc = "recording",
                                            !.att = attempts[wk[w].loc]]
                             ELSE Idle]
  /\ UNCHANGED <<rows, store, stones, del, mig, rec, cut, faults>>

\* _mark_failed gives up after the last attempt.
OutOfAttempts(w) == wk[w].att >= MaxAttempts

\* ... and written back by primary key.
MarkFailedWrite(w) ==
  /\ wk[w].pc = "recording"
  /\ tomb' = [tomb EXCEPT ![wk[w].loc] =
                IF OutOfAttempts(w) THEN "FAILED" ELSE "PENDING"]
  /\ owner' = [owner EXCEPT ![wk[w].loc] = None]
  /\ wk' = [wk EXCEPT ![w] = Idle]
  /\ UNCHANGED <<rows, store, attempts, del, mig, rec, cut, faults>>

\* The worker process dies between two of these steps.
Crash(w) ==
  /\ wk[w].pc # "idle"
  /\ faults < MaxFaults
  /\ faults' = faults + 1
  /\ wk' = [wk EXCEPT ![w] = Idle]
  /\ UNCHANGED <<rows, store, stones, del, mig, rec, cut>>

-----------------------------------------------------------------------------
CopyOf(l) == <<l[1], l[2] + 1>>  \* _migration_key: derived from the present key

\* _migrate_unlocked: a row on the other backend is loaded.
MigrateLoad(i) ==
  /\ mig.pc = "idle"
  /\ Live(i) /\ hop[i] < MaxHops
  /\ mig' = [pc |-> "loaded", from |-> At(i)]
  /\ UNCHANGED <<rows, store, stones, wk, del, rec, cut, faults>>

\* _migrate_unlocked: the source is read, verified and put under the derived
\* key.  An object found there with the same digest is kept as it is, with its
\* age.  A source that is missing is counted and skipped.
MigrateCopy ==
  /\ mig.pc = "loaded"
  /\ IF mig.from \in obj
     THEN /\ obj' = obj \cup {CopyOf(mig.from)}
          /\ mig' = [mig EXCEPT !.pc = "copied"]
     ELSE /\ mig' = NoMigration
          /\ UNCHANGED obj
  /\ UNCHANGED <<rows, old, stones, wk, del, rec, cut, faults>>

\* _migrate_unlocked: the conditional UPDATE repoints the row if it still is
\* as it was loaded.
MigrateRepoint ==
  /\ mig.pc = "copied"
  /\ IF Referenced(mig.from)
     THEN hop' = [hop EXCEPT ![mig.from[1]] = mig.from[2] + 1]
     ELSE UNCHANGED hop
  /\ mig' = NoMigration
  /\ UNCHANGED <<item, store, stones, wk, del, rec, cut, faults>>

\* The migration is interrupted after the copy; a later run finds the row
\* unfinished and resumes in place.
MigrateKilled ==
  /\ mig.pc = "copied"
  /\ Cardinality(cut) < MaxKills
  /\ cut' = cut \cup {CopyOf(mig.from)}
  /\ mig' = NoMigration
  /\ UNCHANGED <<rows, store, stones, wk, del, rec, faults>>

-----------------------------------------------------------------------------
Known(l) == Referenced(l) \/ tomb[l] \in Open

\* An upload or a copy whose transaction is about to commit.  The orphan grace
\* "protects an upload finalized by one replica while its database transaction
\* is still committing" (faulty variant: no grace).
NoGrace(l)  == FALSE
InFlight(l) == \/ item[l[1]] = "staged" /\ l[2] = 0
               \/ mig.pc = "copied" /\ l = CopyOf(mig.from)

\* The orphan grace passes for an object.
Age(l) ==
  /\ l \in obj \ old
  /\ ~InFlight(l)
  /\ old' = old \cup {l}
  /\ UNCHANGED <<rows, obj, stones, wk, del, mig, rec, cut, faults>>

\* reconcile: the listing shows an old object nobody knew when the run began.
ReconcileList(l) ==
  /\ rec.pc = "idle"
  /\ l \in old /\ ~Known(l)
  /\ rec' = [NoRun EXCEPT !.pc = "listed", !.loc = l]
  /\ UNCHANGED <<rows, store, stones, wk, del, mig, cut, faults>>

\* reconcile: the references are read again immediately before enqueueing.
ReconcileRecheck ==
  /\ rec.pc = "listed"
  /\ rec' = IF Known(rec.loc) THEN NoRun ELSE [rec EXCEPT !.pc = "checked"]
  /\ UNCHANGED <<rows, store, stones, wk, del, mig, cut, faults>>

ReconcileReads ==
  /\ rec.pc = "checked" /\ rec.saw = Unread
  /\ rec' = [rec EXCEPT !.saw = Seen(rec.loc)]
  /\ UNCHANGED <<rows, store, stones, wk, del, mig, cut, faults>>

ReconcileEnqueue ==
  /\ rec.saw # Unread
  /\ Enqueue(rec.loc, rec.saw)
  /\ rec' = NoRun
  /\ UNCHANGED <<rows, store, wk, del, mig, cut, faults>>

-----------------------------------------------------------------------------
WorkerStep(w) ==
  \/ \E l \in Loc : Claim(w, l)
  \/ LookAgain(w) \/ Remove(w)
  \/ MarkComplete(w) \/ MarkFailedRead(w) \/ MarkFailedWrite(w)

ReconcileStep ==
  \/ \E l \in Loc : ReconcileList(l)
  \/ ReconcileRecheck \/ ReconcileReads \/ ReconcileEnqueue

Next ==
  \/ \E i \in Items : \/ StoreUpload(i) \/ CommitUpload(i)
                      \/ BeginDelete(i) \/ DeleteReads(i) \/ CommitDelete(i)
                      \/ MigrateLoad(i)
  \/ \E w \in Workers : WorkerStep(w) \/ Crash(w)
  \/ MigrateCopy \/ MigrateRepoint \/ MigrateKilled
  \/ \E l \in Loc : Age(l)
  \/ ReconcileStep

Spec == Init /\ [][Next]_vars

\* The storage worker runs for ever, the reconciliation CronJob is started
\* every hour, requests and migrations end, and time passes.
FairSpec ==
  /\ Spec
  /\ \A w \in Workers : WF_vars(WorkerStep(w))
  /\ WF_vars(ReconcileStep)
  /\ \A i \in Items : /\ WF_vars(CommitUpload(i))
                    /\ WF_vars(DeleteReads(i)) /\ WF_vars(CommitDelete(i))
  /\ WF_vars(MigrateCopy) /\ WF_vars(MigrateRepoint)
  /\ \A l \in Loc : WF_vars(Age(l))

-----------------------------------------------------------------------------
Status == {"NONE", "PENDING", "RUNNING", "SUCCEEDED", "FAILED", "CANCELLED"}

Readings == Status \cup {Unread, "KEEP"}

TypeOK ==
  /\ item \in [Items -> {"new", "staged", "live", "deleted", "failed"}]
  /\ hop \in [Items -> 0..MaxHops]
  /\ obj \subseteq Loc /\ old \subseteq obj /\ cut \subseteq Loc
  /\ tomb \in [Loc -> Status]
  /\ owner \in [Loc -> Workers \cup {None}]
  /\ attempts \in [Loc -> 0..(MaxAttempts + MaxFaults)]
  /\ wk \in [Workers ->
       [pc : {"idle", "claimed", "clear", "finished", "raised", "recording"},
        loc : Loc \cup {NoLoc},
        outcome : {"NONE", "SUCCEEDED", "CANCELLED"}, att : Nat]]
  /\ del \in [Items -> [loc : Loc \cup {NoLoc}, saw : Readings]]
  /\ mig \in [pc : {"idle", "loaded", "copied"}, from : Loc \cup {NoLoc}]
  /\ rec \in [pc : {"idle", "listed", "checked"}, loc : Loc \cup {NoLoc},
             saw : Readings]
  /\ faults \in Nat

\* Every row's object exists, whatever uploads, deletions, migrations, workers
\* and reconciliation do at the same time, unless the row was repointed at a
\* copy that an earlier, interrupted migration had left behind.
RowsKeepTheirObject ==
  \A i \in Items : Live(i) => At(i) \in obj \/ At(i) \in cut

\* "FAILED remains fail-closed for operator review": only one who read the row
\* before the claim that failed it can take a tombstone out of FAILED - a worker
\* that records its failure late, or an enqueue that saw it completed.
FailedStaysClosed ==
  [][\A l \in Loc :
       tomb[l] = "FAILED" /\ tomb'[l] # "FAILED" =>
         \/ \E w \in Workers : wk[w].pc = "recording" /\ wk[w].loc = l
         \/ \E r \in {del[i] : i \in Items} \cup {rec} :
               r.loc = l /\ r.saw \in {"SUCCEEDED", "CANCELLED"}]_vars

\* An object no row names is removed, named again, or left to an operator.
OrphansGo ==
  \A l \in Loc :
    l \in obj /\ ~Referenced(l) /\ item[l[1]] # "staged"
      ~> l \notin obj \/ Referenced(l) \/ tomb[l] = "FAILED"

\* "A worker later re-checks that no live row references the exact object
\* before removing it."
RemovalSparesLiveRows ==
  [][\A l \in obj : l \notin obj' => ~Referenced(l)]_vars

\* "Delete the row and atomically retain a durable physical-delete tombstone":
\* the object of a deleted row has a tombstone.
DeletedHasTombstone ==
  \A i \in Items :
    item[i] = "deleted" /\ At(i) \in obj => tomb[At(i)] \in Open
=============================================================================
