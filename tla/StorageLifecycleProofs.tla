----------------------- MODULE StorageLifecycleProofs -----------------------
(***************************************************************************)
(* Why uploads, deletions, migrations, workers and reconciliation do not   *)
(* need a common lock, for any number of rows, workers and attempts: an    *)
(* object is doomed only when no row can come to name it any more.  The    *)
(* one exception is the copy an interrupted migration left behind, which a *)
(* later migration takes up again.                                         *)
(***************************************************************************)
EXTENDS StorageLifecycle, TLAPS

\* An object whose upload is decided and that no migration is carrying: its row
\* is gone, or has named it.
Settled(l) ==
  \/ l \in cut
  \/ item[l[1]] \in {"deleted", "failed"}
  \/ item[l[1]] = "live" /\ l[2] <= hop[l[1]]

\* An object no row will name: its row is gone or has moved on.
Dead(l) ==
  \/ l \in cut
  \/ item[l[1]] \in {"deleted", "failed"}
  \/ item[l[1]] = "live" /\ l[2] < hop[l[1]]

\* A worker's claim.
Session ==
  [pc : {"idle", "claimed", "clear", "finished", "raised", "recording"},
   loc : Loc \cup {NoLoc}, outcome : {"NONE", "SUCCEEDED", "CANCELLED"}, att : Nat]

\* What enqueue may have read of a tombstone.
Reads == Rearmable \cup {"KEEP", Unread}

Shape ==
  /\ item \in [Items -> {"new", "staged", "live", "deleted", "failed"}]
  /\ hop \in [Items -> 0..MaxHops]
  /\ obj \subseteq Loc /\ old \subseteq obj
  /\ tomb \in [Loc -> Status] /\ attempts \in [Loc -> Nat]
  /\ wk \in [Workers -> Session]
  /\ mig \in [pc : {"idle", "loaded", "copied"}, from : Loc \cup {NoLoc}]
  /\ rec \in [pc : {"idle", "listed", "checked"}, loc : Loc \cup {NoLoc}, saw : Reads]
  /\ del \in [Items -> [loc : Loc \cup {NoLoc}, saw : Reads]]
  /\ \A i \in Items : del[i].loc # NoLoc => del[i].loc[1] = i
  \* what enqueue read is about a tombstone that is to be written
  /\ \A i \in Items : del[i].saw # Unread => del[i].loc # NoLoc
  /\ rec.saw # Unread => rec.pc = "checked"

\* No row has migrated before it is committed.
FreshRows == \A i \in Items : item[i] \in {"new", "staged"} => hop[i] = 0

\* The migration carries a row that was committed, from where it was or is.
Carrying ==
  mig.pc # "idle" =>
    /\ mig.from \in Items \X (0..(MaxHops - 1))
    /\ item[mig.from[1]] \in {"live", "deleted"}
    /\ mig.from[2] <= hop[mig.from[1]]

\* What a row names, and what a migration is about to make it name, exists.
Present ==
  /\ \A i \in Items : item[i] \in {"staged", "live"} => At(i) \in obj \cup cut
  /\ mig.pc = "copied" /\ Referenced(mig.from) => CopyOf(mig.from) \in obj \cup cut

\* Whatever is in the store is on its way to a row or settled; the grace period
\* keeps what is on its way from growing old.
StoreAccounted ==
  /\ \A l \in obj : InFlight(l) \/ Settled(l)
  /\ \A l \in old : Settled(l)

\* Tombstones, and those who are about to write one or act on one, are about
\* dead objects.
OnlyTheDead ==
  /\ \A l \in Loc : tomb[l] # "NONE" => Dead(l)
  /\ rec.pc # "idle" => rec.loc \in Loc /\ Dead(rec.loc)
  /\ \A w \in Workers : wk[w].pc # "idle" => wk[w].loc \in Loc /\ Dead(wk[w].loc)

IInv == Shape /\ FreshRows /\ Carrying /\ Present /\ StoreAccounted /\ OnlyTheDead

-----------------------------------------------------------------------------
\* Every row names a location of its own, and so does every copy.
LEMMA Locations ==
  ASSUME Shape
  PROVE  /\ \A i \in Items : At(i) \in Loc /\ At(i)[1] = i /\ At(i)[2] = hop[i]
         /\ \A l \in Items \X (0..(MaxHops - 1)) :
              CopyOf(l) \in Loc /\ CopyOf(l)[1] = l[1] /\ CopyOf(l)[2] = l[2] + 1
         /\ \A l \in Loc : l[1] \in Items /\ l[2] \in 0..MaxHops
         /\ \A l \in Loc : Referenced(l) => l = At(l[1])
  BY StorageAssumption DEF Shape, At, CopyOf, Loc, Referenced

\* How rows move: a commit settles a staged row, a deletion ends any, and a
\* migration only adds hops.
RowsAdvance ==
  /\ \A i \in Items :
       \/ item'[i] = item[i]
       \/ item[i] = "new" /\ item'[i] = "staged"
       \/ item[i] = "staged" /\ item'[i] \in {"live", "failed"}
       \/ item'[i] = "deleted"
  /\ \A i \in Items : hop'[i] \in 0..MaxHops /\ hop[i] <= hop'[i]
  /\ cut \subseteq cut'

LEMMA Advance ==
  ASSUME IInv, [Next]_vars
  PROVE  RowsAdvance
<1>. USE DEF rows
<1>0. /\ item \in [Items -> {"new", "staged", "live", "deleted", "failed"}]
      /\ hop \in [Items -> 0..MaxHops]
  BY DEF IInv, Shape
<1>1. CASE UNCHANGED <<rows, cut>>
  BY <1>0, <1>1, StorageAssumption DEF RowsAdvance
<1>2. ASSUME NEW i \in Items, StoreUpload(i) \/ CommitUpload(i) \/ CommitDelete(i)
      PROVE  RowsAdvance
  BY <1>0, <1>2, StorageAssumption
    DEF RowsAdvance, StoreUpload, CommitUpload, CommitDelete
<1>3. CASE MigrateRepoint
  <2>1. CASE Referenced(mig.from) /\ mig.pc = "copied"
    <3>1. mig.from[1] \in Items /\ mig.from[2] = hop[mig.from[1]]
          /\ mig.from[2] + 1 \in 0..MaxHops
      BY <2>1, StorageAssumption DEF IInv, Carrying, Referenced
    <3>2. hop' = [hop EXCEPT ![mig.from[1]] = mig.from[2] + 1]
          /\ UNCHANGED <<item, cut>>
      BY <1>3, <2>1 DEF MigrateRepoint
    <3> QED
      BY <1>0, <3>1, <3>2, StorageAssumption DEF RowsAdvance
  <2>2. CASE ~Referenced(mig.from)
    BY <1>1, <1>3, <2>2 DEF MigrateRepoint
  <2> QED
    BY <1>3, <2>1, <2>2 DEF MigrateRepoint
<1>4. CASE MigrateKilled
  BY <1>0, <1>4, StorageAssumption DEF RowsAdvance, MigrateKilled
<1>5. ASSUME NEW w \in Workers, WorkerStep(w) \/ Crash(w)
      PROVE  UNCHANGED <<rows, cut>>
  BY <1>5 DEF WorkerStep, Claim, LookAgain, Remove, MarkComplete, MarkFailedRead,
              MarkFailedWrite, Crash
<1>6. CASE ReconcileStep \/ MigrateCopy \/ (\E l \in Loc : Age(l))
           \/ (\E i \in Items : BeginDelete(i) \/ DeleteReads(i) \/ MigrateLoad(i))
  BY <1>1, <1>6 DEF ReconcileStep, ReconcileList, ReconcileRecheck, ReconcileReads,
       ReconcileEnqueue, MigrateCopy, Age, BeginDelete, DeleteReads, MigrateLoad
<1>7. CASE UNCHANGED vars
  BY <1>1, <1>7 DEF vars
<1> QED
  BY <1>1, <1>2, <1>3, <1>4, <1>5, <1>6, <1>7 DEF Next

\* What is settled stays settled, and what is dead stays dead.
LEMMA StaysDead ==
  ASSUME IInv, [Next]_vars, NEW l \in Loc
  PROVE  /\ Settled(l) => Settled(l)'
         /\ Dead(l) => Dead(l)'
<1>1. l[1] \in Items /\ l[2] \in 0..MaxHops /\ hop[l[1]] \in 0..MaxHops
  BY Locations DEF IInv, Shape
<1>2. RowsAdvance
  BY Advance
<1> QED
  BY <1>1, <1>2, StorageAssumption DEF RowsAdvance, Settled, Dead

\* How the migration and the reconciliation run go on.
LEMMA Runs ==
  ASSUME [Next]_vars
  PROVE  /\ \/ UNCHANGED mig
            \/ mig' = NoMigration
            \/ \E i \in Items : MigrateLoad(i)
            \/ mig.pc = "loaded" /\ mig' = [mig EXCEPT !.pc = "copied"]
         /\ \/ UNCHANGED rec
            \/ rec' = NoRun
            \/ \E l \in Loc : ReconcileList(l)
            \/ rec.pc = "listed" /\ rec' = [rec EXCEPT !.pc = "checked"]
            \/ rec.pc = "checked" /\ rec' = [rec EXCEPT !.saw = Seen(rec.loc)]
<1>1. \/ UNCHANGED mig
      \/ mig' = NoMigration
      \/ \E i \in Items : MigrateLoad(i)
      \/ mig.pc = "loaded" /\ mig' = [mig EXCEPT !.pc = "copied"]
  BY DEF Next, vars, StoreUpload, CommitUpload, BeginDelete, DeleteReads, CommitDelete,
      WorkerStep, Claim, LookAgain, Remove, MarkComplete,
      MarkFailedRead, MarkFailedWrite, Crash, MigrateCopy, MigrateRepoint,
      MigrateKilled, Age, ReconcileStep, ReconcileList, ReconcileRecheck, ReconcileReads,
      ReconcileEnqueue
<1>2. \/ UNCHANGED rec
      \/ rec' = NoRun
      \/ \E l \in Loc : ReconcileList(l)
      \/ rec.pc = "listed" /\ rec' = [rec EXCEPT !.pc = "checked"]
      \/ rec.pc = "checked" /\ rec' = [rec EXCEPT !.saw = Seen(rec.loc)]
  BY DEF Next, vars, StoreUpload, CommitUpload, BeginDelete, DeleteReads, CommitDelete,
      MigrateLoad, WorkerStep, Claim, LookAgain, Remove, MarkComplete,
      MarkFailedRead, MarkFailedWrite, Crash, MigrateCopy, MigrateRepoint,
      MigrateKilled, Age, ReconcileStep, ReconcileRecheck, ReconcileReads,
      ReconcileEnqueue
<1> QED
  BY <1>1, <1>2

-----------------------------------------------------------------------------
LEMMA ShapeStep == IInv /\ [Next]_vars => Shape'
<1> SUFFICES ASSUME IInv, [Next]_vars
             PROVE  Shape'
  OBVIOUS
<1>1. Shape
  BY DEF IInv
<1>2. /\ tomb' \in [Loc -> Status] /\ attempts' \in [Loc -> Nat]
      /\ wk' \in [Workers -> Session]
  <2>. USE DEF Status
  <2>0. Idle \in Session
    BY DEF Idle, Session
  <2>1. CASE UNCHANGED <<stones, wk>>
    BY <1>1, <2>1 DEF Shape, stones
  <2>2. ASSUME NEW l, NEW saw, Enqueue(l, saw), UNCHANGED wk
        PROVE  /\ tomb' \in [Loc -> Status] /\ attempts' \in [Loc -> Nat]
               /\ wk' \in [Workers -> Session]
    BY <1>1, <2>2 DEF Shape, stones, Enqueue
  <2>3. ASSUME NEW w \in Workers, WorkerStep(w) \/ Crash(w)
        PROVE  /\ tomb' \in [Loc -> Status] /\ attempts' \in [Loc -> Nat]
               /\ wk' \in [Workers -> Session]
    <3>0. wk[w] \in Session
      BY <1>1 DEF Shape
    <3>1. ASSUME NEW l \in Loc, Claim(w, l)
          PROVE  /\ tomb' \in [Loc -> Status] /\ attempts' \in [Loc -> Nat]
                 /\ wk' \in [Workers -> Session]
      <4>1. [Idle EXCEPT !.pc = "claimed", !.loc = l] \in Session
        BY <2>0 DEF Session
      <4> QED
        BY <1>1, <3>1, <4>1 DEF Shape, Claim
    <3>2. LookAgain(w) \/ Remove(w)
            => /\ tomb' \in [Loc -> Status] /\ attempts' \in [Loc -> Nat]
               /\ wk' \in [Workers -> Session]
      <4>1. /\ [wk[w] EXCEPT !.pc = "finished", !.outcome = "CANCELLED"] \in Session
            /\ [wk[w] EXCEPT !.pc = "finished", !.outcome = "SUCCEEDED"] \in Session
            /\ [wk[w] EXCEPT !.pc = "clear"] \in Session
            /\ [wk[w] EXCEPT !.pc = "raised"] \in Session
        BY <3>0 DEF Session
      <4> QED
        BY <1>1, <4>1 DEF Shape, LookAgain, Remove, stones
    <3>3. MarkComplete(w) \/ MarkFailedWrite(w) \/ Crash(w)
            => /\ tomb' \in [Loc -> Status] /\ attempts' \in [Loc -> Nat]
               /\ wk' \in [Workers -> Session]
      <4>1. wk[w].outcome \in Status
        BY <3>0 DEF Session
      <4> QED
        BY <1>1, <2>0, <4>1 DEF Shape, MarkComplete, MarkFailedWrite, Crash, stones
    <3>4. MarkFailedRead(w)
            => /\ tomb' \in [Loc -> Status] /\ attempts' \in [Loc -> Nat]
               /\ wk' \in [Workers -> Session]
      <4>1. MarkFailedRead(w) /\ OwnsStone(w) => wk[w].loc \in Loc
        BY <3>0 DEF MarkFailedRead, IInv, OnlyTheDead
      <4>2. ASSUME NEW n \in Nat
            PROVE  [wk[w] EXCEPT !.pc = "recording", !.att = n] \in Session
        BY <3>0 DEF Session
      <4>3. MarkFailedRead(w) => \E s \in Session : wk' = [wk EXCEPT ![w] = s]
        <5>1. attempts \in [Loc -> Nat]
          BY <1>1 DEF Shape
        <5>2. MarkFailedRead(w) /\ OwnsStone(w) =>
                wk' = [wk EXCEPT ![w] = [wk[w] EXCEPT !.pc = "recording",
                                                     !.att = attempts[wk[w].loc]]]
          BY <1>1 DEF MarkFailedRead, Shape
        <5>3. MarkFailedRead(w) /\ ~OwnsStone(w) => wk' = [wk EXCEPT ![w] = Idle]
          BY DEF MarkFailedRead
        <5> QED
          BY <2>0, <4>1, <4>2, <5>1, <5>2, <5>3
      <4> QED
        <5>1. tomb \in [Loc -> Status] /\ attempts \in [Loc -> Nat]
              /\ wk \in [Workers -> Session]
          BY <1>1 DEF Shape
        <5>2. MarkFailedRead(w) => UNCHANGED <<tomb, attempts>>
          BY DEF MarkFailedRead, stones
        <5> QED
          BY <4>3, <5>1, <5>2
    <3> QED
      BY <2>3, <3>1, <3>2, <3>3, <3>4 DEF WorkerStep
  <2>4. ASSUME NEW i \in Items, CommitDelete(i)
        PROVE  \E l, saw : Enqueue(l, saw) /\ UNCHANGED wk
    BY <2>4 DEF CommitDelete
  <2>5. CASE ReconcileEnqueue
    BY <2>2, <2>5 DEF ReconcileEnqueue
  <2> QED
    BY <2>1, <2>2, <2>3, <2>4, <2>5 DEF Next, vars, StoreUpload, CommitUpload,
      BeginDelete, DeleteReads, MigrateLoad, MigrateCopy, MigrateRepoint, MigrateKilled, Age,
      ReconcileStep, ReconcileList, ReconcileRecheck, ReconcileReads, stones
<1>3. /\ item' \in [Items -> {"new", "staged", "live", "deleted", "failed"}]
      /\ hop' \in [Items -> 0..MaxHops]
  <2>1. DOMAIN item' = Items /\ DOMAIN hop' = Items
        /\ item' = [i \in Items |-> item'[i]] /\ hop' = [i \in Items |-> hop'[i]]
    BY <1>1 DEF Shape, Next, vars, rows, StoreUpload, CommitUpload, BeginDelete, DeleteReads,
      CommitDelete, MigrateLoad, WorkerStep, Claim, LookAgain, Remove,
      MarkComplete, MarkFailedRead, MarkFailedWrite, Crash, MigrateCopy,
      MigrateRepoint, MigrateKilled, Age, ReconcileStep, ReconcileList,
      ReconcileRecheck, ReconcileReads, ReconcileEnqueue
  <2>2. \A i \in Items :
          /\ item'[i] \in {"new", "staged", "live", "deleted", "failed"}
          /\ hop'[i] \in 0..MaxHops
    BY <1>1, Advance DEF RowsAdvance, Shape
  <2> QED
    BY <2>1, <2>2
<1>4. obj' \subseteq Loc /\ old' \subseteq obj'
  <2>1. CASE UNCHANGED <<obj, old>>
    BY <1>1, <2>1 DEF Shape
  <2>2. ASSUME NEW i \in Items, StoreUpload(i)
        PROVE  obj' \subseteq Loc /\ old' \subseteq obj'
    BY <1>1, <2>2, Locations DEF Shape, StoreUpload
  <2>3. CASE MigrateCopy
    <3>1. CopyOf(mig.from) \in Loc
      BY <1>1, <2>3, Locations DEF MigrateCopy, IInv, Carrying
    <3> QED
      BY <1>1, <2>3, <3>1 DEF Shape, MigrateCopy
  <2>4. ASSUME NEW w \in Workers, WorkerStep(w) \/ Crash(w)
        PROVE  obj' \subseteq Loc /\ old' \subseteq obj'
    BY <1>1, <2>4 DEF Shape, store, WorkerStep, Claim, LookAgain, Remove,
              MarkComplete, MarkFailedRead, MarkFailedWrite, Crash
  <2>5. ASSUME NEW l \in Loc, Age(l)
        PROVE  obj' \subseteq Loc /\ old' \subseteq obj'
    BY <1>1, <2>5 DEF Shape, Age
  <2> QED
    BY <2>1, <2>2, <2>3, <2>4, <2>5 DEF Next, vars, store, CommitUpload,
         BeginDelete, DeleteReads, CommitDelete, MigrateLoad, MigrateRepoint, MigrateKilled,
         ReconcileStep, ReconcileList, ReconcileRecheck, ReconcileReads, ReconcileEnqueue
<1>5. mig' \in [pc : {"idle", "loaded", "copied"}, from : Loc \cup {NoLoc}]
  BY <1>1, Locations, Runs DEF Shape, NoMigration, MigrateLoad
<1>6. /\ rec' \in [pc : {"idle", "listed", "checked"}, loc : Loc \cup {NoLoc},
                   saw : Reads]
      /\ rec'.saw # Unread => rec'.pc = "checked"
  <2>1. ASSUME NEW l \in Loc
        PROVE  Seen(l) \in Reads /\ Seen(l) # Unread
    BY DEF Seen, Reads, Rearmable, Unread
  <2>2. NoRun \in [pc : {"idle", "listed", "checked"}, loc : Loc \cup {NoLoc},
                   saw : Reads] /\ NoRun.saw = Unread
    BY DEF NoRun, Reads
  <2>3. rec.pc = "checked" => rec.loc \in Loc
    BY DEF IInv, OnlyTheDead
  <2>4. rec.pc = "listed" => rec.saw = Unread
    BY <1>1 DEF Shape
  <2>5. rec \in [pc : {"idle", "listed", "checked"}, loc : Loc \cup {NoLoc},
                 saw : Reads] /\ (rec.saw # Unread => rec.pc = "checked")
    BY <1>1 DEF Shape
  <2>6. ASSUME NEW l \in Loc, ReconcileList(l)
        PROVE  rec' = [NoRun EXCEPT !.pc = "listed", !.loc = l]
    BY <2>6 DEF ReconcileList
  <2>7. CASE \E l \in Loc : ReconcileList(l)
    BY <2>2, <2>6, <2>7
  <2>8. CASE rec.pc = "checked" /\ rec' = [rec EXCEPT !.saw = Seen(rec.loc)]
    BY <2>1, <2>3, <2>5, <2>8
  <2>9. CASE rec.pc = "listed" /\ rec' = [rec EXCEPT !.pc = "checked"]
    BY <2>4, <2>5, <2>9
  <2> QED
    BY <2>2, <2>5, <2>7, <2>8, <2>9, Runs
<1>7. /\ del' \in [Items -> [loc : Loc \cup {NoLoc}, saw : Reads]]
      /\ \A i \in Items : del'[i].loc # NoLoc => del'[i].loc[1] = i
      /\ \A i \in Items : del'[i].saw # Unread => del'[i].loc # NoLoc
  <2>1. CASE UNCHANGED del
    BY <1>1, <2>1 DEF Shape
  <2>2. ASSUME NEW i \in Items, NEW d \in [loc : Loc \cup {NoLoc}, saw : Reads],
               d.loc # NoLoc => d.loc[1] = i, d.saw # Unread => d.loc # NoLoc,
               del' = [del EXCEPT ![i] = d]
        PROVE  /\ del' \in [Items -> [loc : Loc \cup {NoLoc}, saw : Reads]]
               /\ \A j \in Items : del'[j].loc # NoLoc => del'[j].loc[1] = j
               /\ \A j \in Items : del'[j].saw # Unread => del'[j].loc # NoLoc
    BY <1>1, <2>2 DEF Shape
  <2>3. ASSUME NEW i \in Items, BeginDelete(i) \/ DeleteReads(i) \/ CommitDelete(i)
        PROVE  \E d \in [loc : Loc \cup {NoLoc}, saw : Reads] :
                 /\ d.loc # NoLoc => d.loc[1] = i
                 /\ d.saw # Unread => d.loc # NoLoc
                 /\ del' = [del EXCEPT ![i] = d]
    <3>0. del \in [Items -> [loc : Loc \cup {NoLoc}, saw : Reads]]
          /\ del[i] \in [loc : Loc \cup {NoLoc}, saw : Reads]
          /\ NoDelete \in [loc : Loc \cup {NoLoc}, saw : Reads]
          /\ NoDelete.loc = NoLoc /\ NoDelete.saw = Unread
      BY <1>1 DEF Shape, NoDelete, Reads
    <3>1. CASE BeginDelete(i)
      <4>1. At(i) \in Loc /\ At(i)[1] = i /\ At(i) # NoLoc
        BY <1>1, Locations, StorageAssumption DEF NoLoc
      <4>2. del' = [del EXCEPT ![i] = [del[i] EXCEPT !.loc = At(i)]]
        BY <3>0, <3>1 DEF BeginDelete
      <4> QED
        BY <3>0, <4>1, <4>2
    <3>2. CASE DeleteReads(i)
      <4>1. Seen(del[i].loc) \in Reads
        BY <3>0 DEF Seen, Reads
      <4>2. del' = [del EXCEPT ![i] = [del[i] EXCEPT !.saw = Seen(del[i].loc)]]
        BY <3>0, <3>2 DEF DeleteReads
      <4>3. del[i].loc # NoLoc /\ del[i].loc[1] = i
        BY <1>1, <3>2 DEF DeleteReads, Shape
      <4> QED
        BY <3>0, <4>1, <4>2, <4>3
    <3>3. CASE CommitDelete(i)
      BY <3>0, <3>3 DEF CommitDelete
    <3> QED
      BY <2>3, <3>1, <3>2, <3>3
  <2> QED
    BY <2>1, <2>2, <2>3 DEF Next, vars, StoreUpload, CommitUpload, MigrateLoad,
      WorkerStep, Claim, LookAgain, Remove, MarkComplete, MarkFailedRead,
      MarkFailedWrite, Crash, MigrateCopy, MigrateRepoint, MigrateKilled, Age,
      ReconcileStep, ReconcileList, ReconcileRecheck, ReconcileReads, ReconcileEnqueue
<1> QED
  BY <1>2, <1>3, <1>4, <1>5, <1>6, <1>7 DEF Shape

\* The rows a migration repoints are live.
LEMMA RowsStep == IInv /\ [Next]_vars => FreshRows'
<1> SUFFICES ASSUME IInv, [Next]_vars, NEW i \in Items,
                    item'[i] \in {"new", "staged"}
             PROVE  hop'[i] = 0
  BY DEF FreshRows
<1>1. item[i] \in {"new", "staged"} /\ hop[i] = 0
  BY Advance DEF RowsAdvance, IInv, FreshRows
<1>2. CASE MigrateRepoint
  BY <1>1, <1>2 DEF MigrateRepoint, Referenced, Live, IInv, Shape
<1>3. CASE UNCHANGED hop
  BY <1>1, <1>3
<1> QED
  BY <1>2, <1>3 DEF Next, vars, rows, StoreUpload, CommitUpload, BeginDelete, DeleteReads,
      CommitDelete, MigrateLoad, WorkerStep, Claim, LookAgain, Remove,
      MarkComplete, MarkFailedRead, MarkFailedWrite, Crash, MigrateCopy,
      MigrateKilled, Age, ReconcileStep, ReconcileList, ReconcileRecheck, ReconcileReads,
      ReconcileEnqueue

\* A migration that runs goes on about the row it loaded.
LEMMA CarryingStep == IInv /\ [Next]_vars => Carrying'
<1> SUFFICES ASSUME IInv, [Next]_vars, mig'.pc # "idle"
             PROVE  /\ mig'.from \in Items \X (0..(MaxHops - 1))
                    /\ item'[mig'.from[1]] \in {"live", "deleted"}
                    /\ mig'.from[2] <= hop'[mig'.from[1]]
  BY DEF Carrying
<1>1. ASSUME NEW i \in Items, MigrateLoad(i)
      PROVE  /\ mig'.from \in Items \X (0..(MaxHops - 1))
             /\ item'[mig'.from[1]] \in {"live", "deleted"}
             /\ mig'.from[2] <= hop'[mig'.from[1]]
  <2>1. hop[i] \in 0..(MaxHops - 1)
    BY <1>1, StorageAssumption DEF MigrateLoad, IInv, Shape
  <2>2. mig'.from = <<i, hop[i]>> /\ item[i] = "live" /\ UNCHANGED <<item, hop>>
    BY <1>1 DEF MigrateLoad, At, Live, rows
  <2> QED
    BY <2>1, <2>2
<1>2. CASE mig'.from = mig.from /\ mig.pc # "idle"
  <2>1. mig.from[1] \in Items /\ mig.from[2] \in Int /\ hop[mig.from[1]] \in 0..MaxHops
    BY <1>2, StorageAssumption DEF IInv, Carrying, Shape
  <2> QED
    BY <1>2, <2>1, Advance, StorageAssumption DEF IInv, Carrying, RowsAdvance
<1>3. \/ \E i \in Items : MigrateLoad(i)
      \/ mig'.from = mig.from /\ mig.pc # "idle"
  BY Runs DEF IInv, Shape, NoMigration
<1> QED
  BY <1>1, <1>2, <1>3

\* What rows name exists: the worker removes dead objects only, a migration puts
\* the copy in place before it repoints the row.
LEMMA PresentStep == IInv /\ [Next]_vars => Present'
<1> SUFFICES ASSUME IInv, [Next]_vars
             PROVE  Present'
  OBVIOUS
<1>. USE DEF rows, store
<1>0. Shape /\ FreshRows /\ Carrying /\ Present /\ OnlyTheDead
  BY DEF IInv
<1>1. \A i \in Items : At(i) \in Loc /\ At(i)[1] = i /\ At(i)[2] = hop[i]
  BY <1>0, Locations
<1>2. CASE UNCHANGED <<item, hop, mig>> /\ obj \subseteq obj' /\ UNCHANGED cut
  BY <1>2 DEF IInv, Present, At, Referenced, Live, CopyOf
<1>3. ASSUME NEW i \in Items, StoreUpload(i)
      PROVE  Present'
  <2>1. UNCHANGED <<hop, mig, cut>> /\ obj' = obj \cup {At(i)}
        /\ item[i] = "new" /\ item' = [item EXCEPT ![i] = "staged"]
    BY <1>3 DEF StoreUpload
  <2>2. Referenced(mig.from)' => Referenced(mig.from)
    BY <1>0, <2>1 DEF Shape, Referenced, Live
  <2> QED
    BY <1>0, <2>1, <2>2 DEF Shape, Present, At, CopyOf
<1>4. ASSUME NEW i \in Items, CommitUpload(i) \/ CommitDelete(i)
      PROVE  Present'
  <2>1. UNCHANGED <<hop, mig, cut, obj>>
        /\ \/ item[i] = "staged" /\ item' = [item EXCEPT ![i] = "live"]
           \/ item' = [item EXCEPT ![i] = "failed"]
           \/ item' = [item EXCEPT ![i] = "deleted"]
    BY <1>4 DEF CommitUpload, CommitDelete
  <2>2. mig.pc = "copied" /\ Referenced(mig.from)' => Referenced(mig.from)
    BY <1>0, <2>1 DEF Shape, Carrying, Referenced, Live
  <2> QED
    BY <1>0, <2>1, <2>2 DEF Shape, Present, At, CopyOf
<1>5. ASSUME NEW w \in Workers, Remove(w)
      PROVE  Present'
  <2>1. /\ UNCHANGED <<item, hop, mig, cut>>
        /\ obj' = obj \/ obj' = obj \ {wk[w].loc}
    BY <1>5 DEF Remove
  <2>2. Dead(wk[w].loc) /\ wk[w].loc \in Loc
    BY <1>0, <1>5 DEF Remove, OnlyTheDead
  <2>3. \A i \in Items : item[i] \in {"staged", "live"} /\ At(i) = wk[w].loc
                           => At(i) \in cut
    BY <1>0, <1>1, <2>2, StorageAssumption DEF Dead, Shape
  <2>4. mig.pc = "copied" /\ Referenced(mig.from) /\ CopyOf(mig.from) = wk[w].loc
          => CopyOf(mig.from) \in cut
    <3>1. mig.pc = "copied" => mig.from \in Items \X (0..(MaxHops - 1))
      BY <1>0 DEF Carrying
    <3> QED
      BY <1>0, <2>2, <3>1, Locations, StorageAssumption
        DEF Dead, Shape, Referenced, Live
  <2> QED
    BY <1>0, <2>1, <2>3, <2>4 DEF Present, At, Referenced, Live, CopyOf
<1>6. ASSUME NEW i \in Items, MigrateLoad(i)
      PROVE  Present'
  BY <1>0, <1>6 DEF MigrateLoad, Present, At, Referenced, Live, CopyOf
<1>7. CASE MigrateCopy
  <2>1. CASE mig.from \in obj
    <3>1. /\ UNCHANGED <<item, hop, cut>> /\ obj' = obj \cup {CopyOf(mig.from)}
          /\ mig' = [mig EXCEPT !.pc = "copied"]
      BY <1>7, <2>1 DEF MigrateCopy
    <3>2. mig'.from = mig.from
      BY <1>0, <3>1 DEF Shape
    <3> QED
      BY <1>0, <3>1, <3>2 DEF Present, At, CopyOf
  <2>2. CASE mig.from \notin obj
    BY <1>0, <1>7, <2>2 DEF MigrateCopy, NoMigration, Present, At
  <2> QED
    BY <2>1, <2>2
<1>8. CASE MigrateRepoint
  <2>1. /\ mig.pc = "copied" /\ mig' = NoMigration /\ UNCHANGED <<item, obj, cut>>
    BY <1>8 DEF MigrateRepoint
  <2>2. CASE Referenced(mig.from)
    <3>1. /\ mig.from \in Items \X (0..(MaxHops - 1))
          /\ CopyOf(mig.from) \in obj \cup cut
      BY <1>0, <2>1, <2>2 DEF Carrying, Present
    <3>2. hop' = [hop EXCEPT ![mig.from[1]] = mig.from[2] + 1]
      BY <1>8, <2>2 DEF MigrateRepoint
    <3>3. \A i \in Items : At(i)' = IF i = mig.from[1] THEN CopyOf(mig.from)
                                                       ELSE At(i)
      BY <1>0, <3>1, <3>2 DEF At, CopyOf, Shape
    <3> QED
      BY <1>0, <2>1, <3>1, <3>3 DEF Present, NoMigration
  <2>3. CASE ~Referenced(mig.from)
    BY <1>0, <1>8, <2>1, <2>3 DEF MigrateRepoint, Present, At, NoMigration
  <2> QED
    BY <2>2, <2>3
<1>9. CASE MigrateKilled
  BY <1>0, <1>9 DEF MigrateKilled, Present, At, NoMigration
<1> QED
  BY <1>2, <1>3, <1>4, <1>5, <1>6, <1>7, <1>8, <1>9
    DEF Next, vars, BeginDelete, DeleteReads, WorkerStep, Claim, LookAgain, MarkComplete,
        MarkFailedRead, MarkFailedWrite, Crash, Age, ReconcileStep,
        ReconcileList, ReconcileRecheck, ReconcileReads, ReconcileEnqueue

\* Objects come into the store on their way to a row, and the row's commit or
\* the end of the migration settles them.
LEMMA StoreStep == IInv /\ [Next]_vars => StoreAccounted'
<1> SUFFICES ASSUME IInv, [Next]_vars
             PROVE  StoreAccounted'
  OBVIOUS
<1>. USE DEF rows, store
<1>0. Shape /\ FreshRows /\ Carrying /\ StoreAccounted
  BY DEF IInv
<1>1. ASSUME NEW l \in Loc, InFlight(l)
      PROVE  InFlight(l)' \/ Settled(l)'
  <2>0. l[1] \in Items /\ l[2] \in 0..MaxHops
    BY <1>0, Locations
  <2>1. CASE UNCHANGED <<item, mig>>
    BY <1>1, <2>1 DEF InFlight
  <2>2. ASSUME NEW i \in Items, StoreUpload(i) \/ CommitUpload(i) \/ CommitDelete(i)
        PROVE  InFlight(l)' \/ Settled(l)'
    <3>1. UNCHANGED <<mig, hop>>
      BY <2>2 DEF StoreUpload, CommitUpload, CommitDelete
    <3>2. \/ item'[l[1]] = item[l[1]] \/ item[l[1]] = "new"
          \/ item'[l[1]] \in {"live", "failed", "deleted"}
      BY <1>0, <2>0, <2>2 DEF Shape, StoreUpload, CommitUpload, CommitDelete
    <3>3. CASE item[l[1]] = "staged" /\ l[2] = 0
      BY <1>0, <2>0, <3>1, <3>2, <3>3, StorageAssumption
        DEF InFlight, Settled, Shape
    <3>4. CASE mig.pc = "copied" /\ l = CopyOf(mig.from)
      BY <3>1, <3>4 DEF InFlight, CopyOf
    <3> QED
      BY <1>1, <3>3, <3>4 DEF InFlight
  <2>3. CASE MigrateRepoint
    <3>1. UNCHANGED item
      BY <2>3 DEF MigrateRepoint
    <3>2. CASE item[l[1]] = "staged" /\ l[2] = 0
      BY <3>1, <3>2 DEF InFlight
    <3>3. CASE mig.pc = "copied" /\ l = CopyOf(mig.from)
      <4>1. /\ mig.from \in Items \X (0..(MaxHops - 1))
            /\ item[l[1]] \in {"live", "deleted"} /\ mig.from[2] <= hop[l[1]]
            /\ l[1] = mig.from[1] /\ l[2] = mig.from[2] + 1
        BY <1>0, <3>3, Locations DEF Carrying
      <4>2. CASE Referenced(mig.from)
        <5>1. hop' = [hop EXCEPT ![mig.from[1]] = mig.from[2] + 1]
          BY <2>3, <4>2 DEF MigrateRepoint
        <5> QED
          BY <1>0, <2>0, <3>1, <4>1, <5>1 DEF Settled, Shape
      <4>3. CASE ~Referenced(mig.from)
        <5>1. hop' = hop
          BY <2>3, <4>3 DEF MigrateRepoint
        <5>2. item[l[1]] = "deleted" \/ mig.from[2] < hop[l[1]]
          <6>1. hop[l[1]] \in 0..MaxHops /\ mig.from[2] \in 0..(MaxHops - 1)
            BY <1>0, <2>0, <4>1 DEF Shape
          <6> QED
            BY <4>1, <4>3, <6>1, StorageAssumption DEF Referenced, Live
        <5> QED
          BY <1>0, <2>0, <3>1, <4>1, <5>1, <5>2, StorageAssumption
            DEF Settled, Shape
      <4> QED
        BY <4>2, <4>3
    <3> QED
      BY <1>1, <3>2, <3>3 DEF InFlight
  <2>4. CASE MigrateKilled
    BY <1>1, <2>4 DEF MigrateKilled, InFlight, Settled
  <2>5. ASSUME (\E i \in Items : MigrateLoad(i)) \/ MigrateCopy
        PROVE  InFlight(l)' \/ Settled(l)'
    BY <1>1, <2>5 DEF MigrateLoad, MigrateCopy, InFlight
  <2> QED
    BY <2>1, <2>2, <2>3, <2>4, <2>5
      DEF Next, vars, BeginDelete, DeleteReads, WorkerStep, Claim, LookAgain, Remove,
          MarkComplete, MarkFailedRead, MarkFailedWrite, Crash, Age,
          ReconcileStep, ReconcileList, ReconcileRecheck, ReconcileReads, ReconcileEnqueue
<1>2. ASSUME NEW l \in obj, l \in obj'
      PROVE  InFlight(l)' \/ Settled(l)'
  BY <1>0, <1>1, StaysDead DEF StoreAccounted, Shape
<1>3. ASSUME NEW l \in obj', l \notin obj
      PROVE  InFlight(l)'
  <2>1. ASSUME NEW i \in Items, StoreUpload(i)
        PROVE  InFlight(l)'
    <3>1. l = At(i) /\ item'[i] = "staged" /\ item[i] = "new"
      BY <1>0, <1>3, <2>1 DEF StoreUpload, Shape
    <3> QED
      BY <1>0, <3>1 DEF InFlight, At, FreshRows
  <2>2. CASE MigrateCopy
    <3>1. l = CopyOf(mig.from) /\ mig' = [mig EXCEPT !.pc = "copied"]
      BY <1>3, <2>2 DEF MigrateCopy
    <3>2. mig'.pc = "copied" /\ mig'.from = mig.from
      BY <1>0, <3>1 DEF Shape
    <3> QED
      BY <3>1, <3>2 DEF InFlight, CopyOf
  <2>3. CASE obj' \subseteq obj
    BY <1>3, <2>3
  <2> QED
    BY <2>1, <2>2, <2>3
      DEF Next, vars, CommitUpload, BeginDelete, DeleteReads, CommitDelete, MigrateLoad,
          WorkerStep, Claim, LookAgain, Remove, MarkComplete, MarkFailedRead,
          MarkFailedWrite, Crash, MigrateRepoint, MigrateKilled, Age,
          ReconcileStep, ReconcileList, ReconcileRecheck, ReconcileReads, ReconcileEnqueue
<1>4. ASSUME NEW l \in old'
      PROVE  Settled(l)'
  <2>1. l \in old \/ Age(l)
    BY <1>4 DEF Next, vars, StoreUpload, CommitUpload, BeginDelete, DeleteReads, CommitDelete,
          MigrateLoad, WorkerStep, Claim, LookAgain, Remove, MarkComplete,
          MarkFailedRead, MarkFailedWrite, Crash, MigrateCopy, MigrateRepoint,
          MigrateKilled, Age, ReconcileStep, ReconcileList, ReconcileRecheck, ReconcileReads,
          ReconcileEnqueue
  <2>2. Settled(l) /\ l \in Loc
    BY <1>0, <2>1 DEF Age, StoreAccounted, Shape
  <2> QED
    BY <2>2, StaysDead
<1> QED
  BY <1>2, <1>3, <1>4 DEF StoreAccounted

\* Tombstones are about the dead: a deletion kills what it enqueues, and what the
\* reconciliation finds is old, so settled, and named by nobody.
LEMMA DeadStep == IInv /\ [Next]_vars => OnlyTheDead'
<1> SUFFICES ASSUME IInv, [Next]_vars
             PROVE  OnlyTheDead'
  OBVIOUS
<1>. USE DEF stones
<1>0. Shape /\ StoreAccounted /\ OnlyTheDead
  BY DEF IInv
<1>1. ASSUME NEW l \in Loc, tomb'[l] # "NONE"
      PROVE  Dead(l)'
  <2>1. CASE tomb[l] # "NONE"
    BY <1>0, <2>1, StaysDead DEF OnlyTheDead
  <2>2. CASE tomb[l] = "NONE"
    <3>1. ASSUME NEW i \in Items, CommitDelete(i)
          PROVE  Dead(l)'
      <4>1. l = del[i].loc /\ del[i].loc # NoLoc
        BY <1>0, <1>1, <2>2, <3>1 DEF Shape, CommitDelete, Enqueue
      <4>2. l[1] = i /\ item' = [item EXCEPT ![i] = "deleted"]
        BY <1>0, <3>1, <4>1 DEF Shape, CommitDelete
      <4> QED
        BY <1>0, <4>2 DEF Dead, Shape
    <3>2. CASE ReconcileEnqueue
      <4>1. l = rec.loc /\ rec.pc = "checked"
        BY <1>0, <1>1, <2>2, <3>2 DEF Shape, ReconcileEnqueue, Enqueue
      <4> QED
        BY <1>0, <4>1, StaysDead DEF OnlyTheDead
    <3>3. ASSUME NEW w \in Workers, WorkerStep(w) \/ Crash(w)
          PROVE  Dead(l)'
      <4>1. ASSUME NEW k \in Loc, Claim(w, k)
            PROVE  FALSE
        BY <1>0, <1>1, <2>2, <4>1 DEF Shape, Claim
      <4>2. wk[w].pc # "idle" /\ l = wk[w].loc
        BY <1>0, <1>1, <2>2, <3>3, <4>1 DEF Shape, WorkerStep, LookAgain, Remove,
             MarkComplete, MarkFailedRead, MarkFailedWrite, Crash
      <4> QED
        BY <1>0, <4>2, StaysDead DEF OnlyTheDead
    <3> QED
      BY <1>1, <2>2, <3>1, <3>2, <3>3
        DEF Next, vars, StoreUpload, CommitUpload, BeginDelete, DeleteReads, MigrateLoad,
            MigrateCopy, MigrateRepoint, MigrateKilled, Age, ReconcileStep,
            ReconcileList, ReconcileRecheck, ReconcileReads
  <2> QED
    BY <2>1, <2>2
<1>2. rec'.pc # "idle" => rec'.loc \in Loc /\ Dead(rec.loc)'
  <2>1. ASSUME NEW l \in Loc, ReconcileList(l)
        PROVE  rec'.loc \in Loc /\ Dead(rec.loc)'
    <3>1. Settled(l) /\ ~Referenced(l) /\ rec'.loc = l /\ UNCHANGED <<rows, cut>>
      BY <1>0, <2>1 DEF ReconcileList, Known, StoreAccounted
    <3>2. l[1] \in Items /\ l[2] \in 0..MaxHops /\ hop[l[1]] \in 0..MaxHops
      BY <1>0, Locations DEF Shape
    <3>3. Dead(l)
      BY <3>1, <3>2, StorageAssumption DEF Settled, Dead, Referenced, Live
    <3> QED
      BY <3>1, <3>3, StaysDead
  <2>2. CASE rec'.loc = rec.loc /\ rec.pc # "idle"
    BY <1>0, <2>2, StaysDead DEF OnlyTheDead
  <2>3. \/ rec'.pc = "idle" \/ \E l \in Loc : ReconcileList(l)
        \/ rec'.loc = rec.loc /\ (rec.pc # "idle" \/ rec'.pc = "idle")
    BY <1>0, Runs DEF Shape, NoRun
  <2> QED
    BY <2>1, <2>2, <2>3
<1>3. ASSUME NEW w \in Workers, wk'[w].pc # "idle"
      PROVE  wk'[w].loc \in Loc /\ Dead(wk[w].loc)'
  <2>0. wk[w] \in Session
    BY <1>0 DEF Shape
  <2>1. ASSUME NEW l \in Loc, Claim(w, l)
        PROVE  wk'[w].loc \in Loc /\ Dead(wk[w].loc)'
    <3>1. Dead(l) /\ wk'[w].loc = l
      BY <1>0, <2>1 DEF Claim, OnlyTheDead, Idle, Shape
    <3> QED
      BY <3>1, StaysDead
  <2>2. CASE wk'[w].loc = wk[w].loc /\ wk[w].pc # "idle"
    BY <1>0, <2>2, StaysDead DEF OnlyTheDead
  <2>3. ASSUME NEW v \in Workers, WorkerStep(v) \/ Crash(v)
        PROVE  wk'[w].loc \in Loc /\ Dead(wk[w].loc)'
    <3>1. CASE v # w
      <4>1. wk'[w] = wk[w]
        BY <1>0, <2>3, <3>1 DEF Shape, WorkerStep, Claim, LookAgain, Remove,
             MarkComplete, MarkFailedRead, MarkFailedWrite, Crash
      <4> QED
        BY <1>3, <2>2, <4>1
    <3>2. CASE v = w
      <4>1. \/ \E l \in Loc : Claim(w, l)
            \/ wk'[w].loc = wk[w].loc /\ wk[w].pc # "idle"
            \/ wk'[w] = Idle
        <5>0. wk \in [Workers -> Session]
          BY <1>0 DEF Shape
        <5>1. LookAgain(w) => wk'[w].loc = wk[w].loc /\ wk[w].pc # "idle"
          BY <2>0, <5>0 DEF LookAgain, Session
        <5>2. Remove(w) => wk'[w].loc = wk[w].loc /\ wk[w].pc # "idle"
          BY <2>0, <5>0 DEF Remove, Session
        <5>3. MarkFailedRead(w) => \/ wk'[w].loc = wk[w].loc /\ wk[w].pc # "idle"
                                   \/ wk'[w] = Idle
          BY <2>0, <5>0 DEF MarkFailedRead, Session
        <5>4. MarkComplete(w) \/ MarkFailedWrite(w) \/ Crash(w) => wk'[w] = Idle
          BY <5>0 DEF MarkComplete, MarkFailedWrite, Crash
        <5> QED
          BY <2>3, <3>2, <5>1, <5>2, <5>3, <5>4 DEF WorkerStep
      <4>2. Idle.pc = "idle"
        BY DEF Idle
      <4> QED
        BY <1>3, <2>1, <2>2, <4>1, <4>2
    <3> QED
      BY <3>1, <3>2
  <2>4. CASE UNCHANGED wk
    BY <1>3, <2>2, <2>4
  <2> QED
    BY <2>3, <2>4
      DEF Next, vars, StoreUpload, CommitUpload, BeginDelete, DeleteReads, CommitDelete,
          MigrateLoad, MigrateCopy, MigrateRepoint, MigrateKilled, Age,
          ReconcileStep, ReconcileList, ReconcileRecheck, ReconcileReads, ReconcileEnqueue
<1> QED
  BY <1>1, <1>2, <1>3 DEF OnlyTheDead

-----------------------------------------------------------------------------
\* IInv holds in every reachable state.
THEOREM InductiveInvariant == Spec => []IInv
<1>1. Init => IInv
  <2> SUFFICES ASSUME Init
               PROVE  IInv
    OBVIOUS
  <2>1. Shape
    BY StorageAssumption DEF Init, Shape, Session, Status, Idle, NoMigration, NoRun,
                             NoDelete, Reads
  <2>2. FreshRows /\ Carrying /\ Present /\ StoreAccounted
    BY DEF Init, FreshRows, Carrying, Present, StoreAccounted, NoMigration
  <2>3. OnlyTheDead
    BY DEF Init, OnlyTheDead, NoRun, Idle
  <2> QED
    BY <2>1, <2>2, <2>3 DEF IInv
<1>2. IInv /\ [Next]_vars => IInv'
  BY ShapeStep, RowsStep, CarryingStep, PresentStep, StoreStep, DeadStep DEF IInv
<1> QED
  BY <1>1, <1>2, PTL DEF Spec

\* No row loses its object to a worker or a reconciliation run, whatever is
\* uploaded, deleted and migrated meanwhile; but for interrupted copies that a
\* resumed migration takes up again (_migrate_unlocked).
THEOREM ObjectsOutliveRows == Spec => []RowsKeepTheirObject
<1>1. IInv => RowsKeepTheirObject
  BY DEF IInv, Present, RowsKeepTheirObject, Live
<1> QED
  BY <1>1, InductiveInvariant, PTL

\* A FAILED tombstone is left alone by enqueue, claims and completions.  Only who
\* read the row before it failed can reopen it: _mark_failed and enqueue compare
\* what they read and then write by primary key.
THEOREM FailureNeedsAnOperator == Spec => FailedStaysClosed
<1>1. ASSUME IInv, Next, NEW l \in Loc, tomb[l] = "FAILED", tomb'[l] # "FAILED"
      PROVE  \/ \E w \in Workers : wk[w].pc = "recording" /\ wk[w].loc = l
             \/ \E r \in {del[i] : i \in Items} \cup {rec} :
                   r.loc = l /\ r.saw \in {"SUCCEEDED", "CANCELLED"}
  <2>0. tomb \in [Loc -> Status]
    BY <1>1 DEF IInv, Shape
  <2>1. ASSUME NEW r \in {del[i] : i \in Items} \cup {rec},
               r.saw # Unread, Enqueue(r.loc, r.saw)
        PROVE  r.loc = l /\ r.saw \in {"SUCCEEDED", "CANCELLED"}
    <3>1. r.saw \in Reads
      BY <1>1, <2>1 DEF IInv, Shape
    <3>2. r.loc = l /\ r.saw # "KEEP" /\ r.saw # "NONE"
      BY <1>1, <2>0, <2>1 DEF Enqueue
    <3> QED
      BY <2>1, <3>1, <3>2 DEF Reads, Rearmable
  <2>2. ASSUME NEW w \in Workers, WorkerStep(w) \/ Crash(w)
        PROVE  wk[w].pc = "recording" /\ wk[w].loc = l
    BY <1>1, <2>0, <2>2 DEF WorkerStep, Claim, LookAgain, Remove, MarkComplete,
         OwnsStone, MarkFailedRead, MarkFailedWrite, Crash, stones
  <2>3. ASSUME (\E i \in Items : CommitDelete(i)) \/ ReconcileEnqueue
        PROVE  \E r \in {del[i] : i \in Items} \cup {rec} :
                 r.saw # Unread /\ Enqueue(r.loc, r.saw)
    BY <2>3 DEF CommitDelete, ReconcileEnqueue
  <2> QED
    BY <1>1, <2>1, <2>2, <2>3 DEF Next, stones, StoreUpload, CommitUpload, BeginDelete,
         DeleteReads, MigrateLoad, MigrateCopy, MigrateRepoint, MigrateKilled,
         Age, ReconcileStep, ReconcileList, ReconcileRecheck, ReconcileReads
<1>2. IInv /\ [Next]_vars =>
        [\A l \in Loc :
           tomb[l] = "FAILED" /\ tomb'[l] # "FAILED" =>
             \/ \E w \in Workers : wk[w].pc = "recording" /\ wk[w].loc = l
             \/ \E r \in {del[i] : i \in Items} \cup {rec} :
                   r.loc = l /\ r.saw \in {"SUCCEEDED", "CANCELLED"}]_vars
  BY <1>1
<1> QED
  BY <1>2, InductiveInvariant, PTL DEF Spec, FailedStaysClosed
=============================================================================
