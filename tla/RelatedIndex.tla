---------------------------- MODULE RelatedIndex ----------------------------
(***************************************************************************)
(* The index of related products (services/related.py): one entry per      *)
(* published report, labelled with the provider that made its vector and   *)
(* the report version it was made from; refreshed when a report is         *)
(* published or looked at, and by passes of the maintenance command        *)
(* (maintenance.py).                                                       *)
(*                                                                         *)
(* The text of a published report does not change, but its version does,   *)
(* with its tags.  A vector is what its provider makes of that text.       *)
(***************************************************************************)
EXTENDS Integers, FiniteSets

CONSTANTS ReportIds,   \* a set of numbers, the ids
          Workers,     \* requests and commands in flight
          Providers,   \* provider versions, some process runs each of them
          Disabled,    \* the provider that makes no vectors
          Batch,       \* entries a pass refreshes at most
          MaxRevision  \* bound: versions of a report

ASSUME RelatedAssumption ==
    /\ ReportIds \subseteq Nat /\ IsFiniteSet(ReportIds)
    /\ Disabled \notin Providers
    /\ Batch \in Nat \ {0} /\ MaxRevision \in Nat \ {0}

VARIABLES
    revision,  \* [ReportIds -> version of a published report, 0 of others]
    entry,     \* [ReportIds -> [by, version, vector] or NoEntry]
    worker,    \* [Workers -> local state]
    mixed      \* history: vectors of two providers were compared

relatedVars == <<revision, entry, worker, mixed>>

NoEntry == [by |-> Disabled]
Off == [at |-> "off"]

RelatedInit ==
    /\ revision = [r \in ReportIds |-> 0]
    /\ entry = [r \in ReportIds |-> NoEntry]
    /\ worker = [w \in Workers |-> Off]
    /\ mixed = FALSE

Published == {r \in ReportIds : revision[r] > 0}
Present == {r \in ReportIds : entry[r] # NoEntry}

\* is_stale, as a process of provider v sees it.
IsStale(e, r, v) == e.by # v \/ e.version # revision[r]
Outdated(v) == {r \in Published : entry[r] = NoEntry \/ IsStale(entry[r], r, v)}

At(w, step) == worker[w].at = step
Go(w, state) == worker' = [worker EXCEPT ![w] = state]

(***************************************************************************)
(* Writing entries                                                         *)
(***************************************************************************)
\* Faulty variant: the text is the same, so the vector that is there is kept.
AppliedKeepingVector(old, v, n) ==
    [by |-> v, version |-> n, vector |-> IF old = NoEntry THEN v ELSE old.vector]

\* _apply, to what the session loaded.
Applied(old, v, n) == [by |-> v, version |-> n, vector |-> v]

\* A flush inserts the row, or updates the columns it changed: it fails when the
\* row it would insert is there, or the one it would update is gone.
RowFits(r, old) == (old = NoEntry) <=> (entry[r] = NoEntry)
RowWritten(r, old, new) ==
    IF old = NoEntry THEN new
    ELSE [f \in DOMAIN new |-> IF new[f] # old[f] THEN new[f] ELSE entry[r][f]]

\* The transaction fails, or its process stops.
Abort(w) ==
    /\ worker[w] # Off
    /\ Go(w, Off)
    /\ UNCHANGED <<revision, entry, mixed>>

(***************************************************************************)
(* Publication, tags, and the products shown beside one                    *)
(***************************************************************************)
\* The route publishes, then refreshes the entry in a transaction of its own.
PublishAndIndex(w, r, v) ==
    /\ worker[w] = Off /\ revision[r] = 0
    /\ revision' = [revision EXCEPT ![r] = 1]
    /\ Go(w, [at |-> "upsert", r |-> r, v |-> v])
    /\ UNCHANGED <<entry, mixed>>

Retag(r) ==
    /\ r \in Published /\ revision[r] < MaxRevision
    /\ revision' = [revision EXCEPT ![r] = @ + 1]
    /\ UNCHANGED <<entry, worker, mixed>>

\* upsert_report_embedding; a process without a provider removes the entry.
LoadEntry(w) ==
    /\ At(w, "upsert") /\ worker[w].v # Disabled
    /\ LET r == worker[w].r IN
       Go(w, [at |-> "save", r |-> r, v |-> worker[w].v, old |-> entry[r],
              new |-> Applied(entry[r], worker[w].v, revision[r])])
    /\ UNCHANGED <<revision, entry, mixed>>

RemoveEntry(w) ==
    /\ At(w, "upsert") /\ worker[w].v = Disabled
    /\ entry' = [entry EXCEPT ![worker[w].r] = NoEntry]
    /\ Go(w, Off)
    /\ UNCHANGED <<revision, mixed>>

SaveEntry(w) ==
    /\ At(w, "save")
    /\ LET r == worker[w].r IN
       /\ RowFits(r, worker[w].old)
       /\ entry' = [entry EXCEPT ![r] = RowWritten(r, worker[w].old, worker[w].new)]
       /\ Go(w, [at |-> "rank", r |-> r, v |-> worker[w].v])
    /\ UNCHANGED <<revision, mixed>>

\* related_reports: an entry that is missing or stale is refreshed first, and
\* read again after its commit; entries that are stale are not compared.
Look(w, r, v) ==
    /\ worker[w] = Off /\ r \in Published
    /\ Go(w, [at |-> IF r \in Outdated(v) THEN "upsert" ELSE "rank", r |-> r, v |-> v])
    /\ UNCHANGED <<revision, entry, mixed>>

Rank(w) ==
    /\ At(w, "rank") /\ entry[worker[w].r] # NoEntry
    /\ LET r == worker[w].r
           candidates == {c \in Published \cap Present : ~IsStale(entry[c], c, worker[w].v)} IN
       mixed' = (mixed \/ \E c \in candidates \ {r} : entry[c].vector # entry[r].vector)
    /\ Go(w, Off)
    /\ UNCHANGED <<revision, entry>>

(***************************************************************************)
(* A pass of the maintenance command                                       *)
(***************************************************************************)
BeginPass(w, v) ==
    /\ worker[w] = Off
    /\ Go(w, [at |-> "prune", v |-> v, seen |-> Published])
    /\ UNCHANGED <<revision, entry, mixed>>

\* prune_orphans: entries of what was not published when the pass looked.
Prune(w) ==
    /\ At(w, "prune")
    /\ entry' = [r \in ReportIds |-> IF r \in worker[w].seen THEN entry[r] ELSE NoEntry]
    /\ Go(w, [at |-> "choose", v |-> worker[w].v])
    /\ UNCHANGED <<revision, mixed>>

\* The first that are outdated, in the order of their ids.
Chosen(v) == {r \in Outdated(v) : Cardinality({q \in Outdated(v) : q < r}) < Batch}

Choose(w) ==
    /\ At(w, "choose")
    /\ LET v == worker[w].v IN
       IF v = Disabled \/ Chosen(v) = {} THEN Go(w, Off)
       ELSE Go(w, [at |-> "write", v |-> v, old |-> [r \in Chosen(v) |-> entry[r]],
                   new |-> [r \in Chosen(v) |-> Applied(entry[r], v, revision[r])]])
    /\ UNCHANGED <<revision, entry, mixed>>

\* All in one transaction; rebuild begins the next pass while some are left.
WriteBatch(w) ==
    /\ At(w, "write")
    /\ LET old == worker[w].old IN
       /\ \A r \in DOMAIN old : RowFits(r, old[r])
       /\ entry' = [r \in ReportIds |-> IF r \in DOMAIN old
                                      THEN RowWritten(r, old[r], worker[w].new[r]) ELSE entry[r]]
    /\ Go(w, Off)
    /\ UNCHANGED <<revision, mixed>>

RelatedNext ==
    \/ \E r \in ReportIds : Retag(r)
    \/ \E w \in Workers :
         \/ LoadEntry(w) \/ RemoveEntry(w) \/ SaveEntry(w) \/ Rank(w) \/ Abort(w)
         \/ Prune(w) \/ Choose(w) \/ WriteBatch(w)
         \/ \E v \in Providers : \E r \in ReportIds : Look(w, r, v)
         \/ \E v \in Providers \cup {Disabled} :
              BeginPass(w, v) \/ \E r \in ReportIds : PublishAndIndex(w, r, v)

RelatedSpec == RelatedInit /\ [][RelatedNext]_relatedVars

(***************************************************************************)
(* Properties                                                              *)
(***************************************************************************)
Entries == [by : Providers, version : 1..MaxRevision, vector : Providers]

RelatedTypeOK ==
    /\ revision \in [ReportIds -> 0..MaxRevision]
    /\ entry \in [ReportIds -> Entries \cup {NoEntry}]
    /\ \A w \in Workers : worker[w].at \in {"off", "upsert", "save", "rank", "prune", "choose", "write"}
    /\ mixed \in BOOLEAN

\* An entry is labelled with the provider that made its vector and with a
\* version its report has had, whichever of several requests and passes, of
\* processes with different providers, wrote which of its columns
\* (related._apply, upsert_report_embedding, reindex).
LabelsTellTheVector ==
    \A r \in Present : entry[r].by = entry[r].vector /\ entry[r].version \in 1..revision[r]

\* "Every existing entry reads as stale on the next pass instead of being
\* compared against incompatible vectors" (related.py).
ComparesLikeWithLike == ~mixed

\* A pruning pass removes entries of reports that are not published.
PruningSparesPublished ==
    [][\A w \in Workers : Prune(w) => Published \cap Present \subseteq Present']_relatedVars
=============================================================================
