---------------------------- MODULE NotebookWork ----------------------------
(***************************************************************************)
(* The analyst's workspace: one notebook with a graded source              *)
(* (services/notebooks.py, source_grading.py), an indicator drawn from it  *)
(* (services/iocs.py), its stored files, and the deletion of the notebook  *)
(* with everything under it (api/notebooks.py, web/notebooks.py).          *)
(* Attachments and figures are rows of the notebook, rendered products are *)
(* rows of its report; their objects are in a store that no transaction    *)
(* reaches, and go by a tombstone written with the row's deletion.         *)
(*                                                                         *)
(* A request loads a row, works on it and commits.  The commit writes only *)
(* the columns whose value changed (SQLAlchemy), under READ COMMITTED, so  *)
(* of two overlapping requests each may keep a part of the row: `halved`   *)
(* remembers that this happened to the source.                             *)
(***************************************************************************)
CONSTANTS Writers,      \* requests of the writers
          Files,        \* stored files
          Kind,         \* ... and what each is
          DemoManaged   \* the notebook belongs to a demo workspace

Kinds == {"render", "attachment", "figure"}

ASSUME NotebookAssumption == DemoManaged \in BOOLEAN /\ Kind \in [Files -> Kinds]

VARIABLES notebook, \* "there" or "gone"
          source,   \* Source: its grade and its marking, NotAdded or Gone
          ioc,      \* IOC: its provenance and its marking, or Gone
          work,     \* per request: what it loaded and was asked
          halved,   \* history: two overlapping commits wrote the source
          reported,    \* the notebook has a report
          objects,     \* files whose object has been written
          uploading,   \* ... and whose row is not inserted yet
          stored,      \* files with a row
          tombstones,  \* files with a tombstone
          missed       \* history: files inserted too late for a deletion to list

fileVars == <<reported, objects, uploading, stored, tombstones, missed>>
noteVars == <<notebook, source, ioc, work, halved, fileVars>>

Omitted == "omitted"      \* a field the PATCH does not carry
Gone == [alive |-> FALSE]
NotAdded == [alive |-> FALSE, added |-> FALSE]
NoWork == [do |-> "nothing"]

-----------------------------------------------------------------------------
(* Grading a source; who graded it, and why, is left out.                  *)

Ungraded == "none"
Reliabilities == {"B", Ungraded}
Credibilities == {"2", "6", Ungraded}

\* set_manual_grade: both parts or neither; one alone is refused.
GradeTogether(rel, cred) == (rel = Ungraded) <=> (cred = Ungraded)

Graded(saw, rel, cred) == [saw EXCEPT !.rel = rel, !.cred = cred]

\* The heuristic knows the publisher, and then gives both parts, or it does not.
HeuristicGrades == {<<"B", "2">>, <<"B", "6">>, <<Ungraded, Ungraded>>}

ManualGrades(saw) ==
    {Graded(saw, g[1], g[2]) :
        g \in {x \in Reliabilities \X Credibilities : GradeTogether(x[1], x[2])}}
AutoGrades(saw) == {Graded(saw, g[1], g[2]) : g \in HeuristicGrades}

-----------------------------------------------------------------------------
NoteInit ==
    /\ notebook = "there"
    /\ source = NotAdded
    /\ ioc = Gone
    /\ work = [e \in Writers |-> NoWork]
    /\ halved = FALSE /\ reported = FALSE
    /\ objects = {} /\ uploading = {} /\ stored = {} /\ tombstones = {} /\ missed = {}

Begin(e, request) == /\ work[e] = NoWork
                     /\ work' = [work EXCEPT ![e] = request]
EndWork(e) == work' = [work EXCEPT ![e] = NoWork]

\* The other requests at work on the source now hold an old copy of it.
EndSourceWork(e) ==
    work' = [x \in Writers |->
                IF x = e THEN NoWork
                ELSE IF work[x].do = "source" THEN [work[x] EXCEPT !.stale = TRUE]
                ELSE work[x]]

\* A commit writes the columns that differ from what the request loaded.
Columns(held, saw, new) ==
    [c \in DOMAIN held |-> IF new[c] # saw[c] THEN new[c] ELSE held[c]]

\* A new source has the grade its analyst gives, or else the heuristic's.
AddSource ==
    /\ notebook = "there" /\ source = NotAdded
    /\ \E tlp \in {"AMBER", "CLEAR"} :
          LET new == [alive |-> TRUE, rel |-> Ungraded, cred |-> Ungraded, tlp |-> tlp]
          IN source' \in (ManualGrades(new) \ {new}) \cup AutoGrades(new)
    /\ UNCHANGED <<notebook, ioc, work, halved, fileVars>>

\* A request that works on a loaded copy of the source.
WorkOnSource(e, copies) ==
    /\ source.alive
    /\ \E new \in copies :
          Begin(e, [do |-> "source", saw |-> source, new |-> new, stale |-> FALSE])
    /\ UNCHANGED <<notebook, source, ioc, halved, fileVars>>

GradeSource(e) == WorkOnSource(e, ManualGrades(source))
RegradeSource(e) == WorkOnSource(e, AutoGrades(source))
EditSource(e) == WorkOnSource(e, {[source EXCEPT !.tlp = tlp] : tlp \in {"AMBER", "CLEAR"}})

SaveSource(e) ==
    /\ work[e].do = "source"
    /\ IF source.alive
       THEN /\ source' = Columns(source, work[e].saw, work[e].new)
            /\ halved' = (halved \/ work[e].stale)
            /\ EndSourceWork(e)
       ELSE /\ EndWork(e)
            /\ UNCHANGED <<source, halved>>
    /\ UNCHANGED <<notebook, ioc, fileVars>>

\* The database clears the provenance of the indicators drawn from it.
DropSource ==
    /\ source.alive
    /\ source' = Gone
    /\ ioc' = IF ioc.alive THEN [ioc EXCEPT !.drawn = FALSE] ELSE ioc
    /\ UNCHANGED <<notebook, work, halved, fileVars>>

\* create_ioc: a source of another notebook is dropped; without a marking of
\* its own the indicator takes its source's, and AMBER without a source.
CreateIoc ==
    /\ notebook = "there" /\ ~ioc.alive
    /\ \E drawn \in {FALSE, source.alive}, tlp \in {Omitted, "AMBER"} :
          ioc' = [alive |-> TRUE, drawn |-> drawn,
                  tlp |-> IF tlp # Omitted THEN tlp
                          ELSE IF drawn THEN source.tlp ELSE "AMBER"]
    /\ UNCHANGED <<notebook, source, work, halved, fileVars>>

\* update_ioc: a sent source is re-checked against the notebook, so that
\* None and a source of another notebook both clear it.
UpdateIoc ==
    /\ ioc.alive
    /\ \E drawn \in {ioc.drawn, FALSE, source.alive}, tlp \in {ioc.tlp, "AMBER"} :
          ioc' = [ioc EXCEPT !.drawn = drawn, !.tlp = tlp]
    /\ UNCHANGED <<notebook, source, work, halved, fileVars>>

DropIoc ==
    /\ ioc.alive
    /\ ioc' = Gone
    /\ UNCHANGED <<notebook, source, work, halved, fileVars>>

-----------------------------------------------------------------------------
(* Files, and the end of the notebook.                                     *)

AddReport ==
    /\ notebook = "there" /\ ~reported
    /\ reported' = TRUE
    /\ UNCHANGED <<notebook, source, ioc, work, halved, objects, uploading, stored, tombstones, missed>>

\* save_upload, render: the object is written first ...
PutFile(f) ==
    /\ notebook = "there" /\ f \notin objects
    /\ Kind[f] = "render" => reported
    /\ objects' = objects \cup {f} /\ uploading' = uploading \cup {f}
    /\ UNCHANGED <<notebook, source, ioc, work, halved, reported, stored, tombstones, missed>>

\* A deletion under way has listed what there was of this kind, or loaded the
\* notebook without its report.
TooLateFor(request, f) ==
    /\ request.do = "delete"
    /\ Kind[f] \notin request.left \/ (Kind[f] = "render" /\ ~request.reported)

\* ... then its row, which the foreign key refuses once the notebook is gone:
\* the object is then nobody's.
RecordFile(f) ==
    /\ f \in uploading
    /\ uploading' = uploading \ {f}
    /\ stored' = IF notebook = "there" THEN stored \cup {f} ELSE stored
    /\ missed' = IF notebook = "gone" \/ \E e \in Writers : TooLateFor(work[e], f)
                 THEN missed \cup {f} ELSE missed
    /\ UNCHANGED <<notebook, source, ioc, work, halved, reported, objects, tombstones>>

\* delete_attachment, delete_figure, delete_rendered_product: a request loads the
\* row, and deletes it and writes the tombstone in one commit.
LoadFile(e, f) ==
    /\ f \in stored
    /\ Begin(e, [do |-> "drop", file |-> f])
    /\ UNCHANGED <<notebook, source, ioc, halved, fileVars>>

DropFile(e) ==
    /\ work[e].do = "drop"
    /\ stored' = stored \ {work[e].file}
    /\ tombstones' = tombstones \cup {work[e].file}
    /\ EndWork(e)
    /\ UNCHANGED <<notebook, source, ioc, halved, reported, objects, uploading, missed>>

\* delete_notebook: the owner's (or an administrator's), never of a demo
\* workspace; it loads the notebook with its reports ...
LoadNotebook(e) ==
    /\ notebook = "there"
    /\ ~DemoManaged
    /\ Begin(e, [do |-> "delete", reported |-> reported, left |-> Kinds, listed |-> {}])
    /\ UNCHANGED <<notebook, source, ioc, halved, fileVars>>

\* ... then, one query after the other, the rendered products of those reports,
\* the attachments and the figures ...
Earlier == {<<"render", "attachment">>, <<"attachment", "figure">>}

Listable(request, kind) ==
    {f \in stored : Kind[f] = kind /\ (kind = "render" => request.reported)}

ListFiles(e, kind) ==
    /\ work[e].do = "delete" /\ kind \in work[e].left
    /\ \A other \in work[e].left : <<other, kind>> \notin Earlier
    /\ work' = [work EXCEPT ![e] = [work[e] EXCEPT !.left = @ \ {kind},
                                     !.listed = @ \cup Listable(work[e], kind)]]
    /\ UNCHANGED <<notebook, source, ioc, halved, fileVars>>

\* What enqueue is called for, in a loop per kind (faulty variant: the rendered
\* products are counted only).
EnqueuedOwn(listed) == {f \in listed : Kind[f] \in {"attachment", "figure"}}
Enqueued(listed)    == {f \in listed : Kind[f] \in Kinds}

\* ... and in one commit writes their tombstones, or finds them written, and
\* deletes the notebook, whose rows cascade.  To delete rows that another
\* request has deleted is no error.
DeleteNotebook(e) ==
    /\ work[e].do = "delete" /\ work[e].left = {}
    /\ notebook = "gone" => ~work[e].reported
    /\ notebook' = "gone" /\ source' = Gone /\ ioc' = Gone
    /\ tombstones' = tombstones \cup Enqueued(work[e].listed)
    /\ stored' = {} /\ reported' = FALSE
    /\ EndWork(e)
    /\ UNCHANGED <<halved, objects, uploading, missed>>

\* ... but of a report, which is versioned: written or deleted since it was
\* loaded, it undoes the whole request.
DeletionFails(e) ==
    /\ work[e].do = "delete" /\ work[e].left = {} /\ work[e].reported
    /\ EndWork(e)
    /\ UNCHANGED <<notebook, source, ioc, halved, fileVars>>

SourceStep ==
    \/ \E e \in Writers : \/ GradeSource(e) \/ RegradeSource(e) \/ EditSource(e)
                          \/ SaveSource(e)
    \/ AddSource \/ DropSource \/ CreateIoc \/ UpdateIoc \/ DropIoc

FileStep ==
    \/ AddReport
    \/ \E f \in Files : \/ PutFile(f) \/ RecordFile(f)
                        \/ \E e \in Writers : LoadFile(e, f)
    \/ \E e \in Writers : DropFile(e)

DeletionStep ==
    \E e \in Writers : \/ LoadNotebook(e)
                       \/ \E kind \in Kinds : ListFiles(e, kind)
                       \/ DeleteNotebook(e) \/ DeletionFails(e)

NoteNext == SourceStep \/ FileStep \/ DeletionStep

NoteSpec == NoteInit /\ [][NoteNext]_noteVars

-----------------------------------------------------------------------------
(* Properties.                                                             *)

\* Type invariant.
NoteMarkings == {"AMBER", "CLEAR"}
SourceRows == [alive : {TRUE}, rel : Reliabilities, cred : Credibilities,
               tlp : NoteMarkings]
IocRows == [alive : {TRUE}, drawn : BOOLEAN, tlp : NoteMarkings]

RowsTypeOK ==
    /\ notebook \in {"there", "gone"}
    /\ source \in {NotAdded, Gone} \cup SourceRows
    /\ ioc \in {Gone} \cup IocRows
    /\ \A e \in Writers : work[e].do \in {"nothing", "source", "drop", "delete"}
    /\ halved \in BOOLEAN

FilesTypeOK ==
    /\ reported \in BOOLEAN /\ objects \subseteq Files
    /\ \A S \in {uploading, stored, tombstones, missed} : S \subseteq objects

NoteTypeOK == RowsTypeOK /\ FilesTypeOK

\* The two parts of a grade are set and cleared together, except where two
\* overlapping requests each wrote one (services/source_grading.py:222).
GradesComeInPairs ==
    source.alive /\ ~halved => (source.rel = Ungraded <=> source.cred = Ungraded)

\* An object that is not being uploaded has its row or a tombstone, never both,
\* so that it is neither forgotten nor deleted under its row, whatever deletions
\* of the file and of the notebook race.  The exception, which is left to
\* reconciliation, is a row inserted when a deletion of the notebook had passed
\* the query that would have listed it (api/notebooks.py:142-172).
ObjectsAccountedFor ==
    /\ stored \cap tombstones = {}
    /\ objects \subseteq uploading \cup stored \cup tombstones \cup missed

\* Refuted.  A grade is never half set (services/source_grading.py:225).
GradesAlwaysPaired ==
    source.alive => (source.rel = Ungraded <=> source.cred = Ungraded)

=============================================================================
