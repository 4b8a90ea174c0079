------------------------------ MODULE AchMatrix ------------------------------
(***************************************************************************)
(* A matrix of competing hypotheses (services/ach.py): hypotheses with     *)
(* stable ids, and ratings kept under those ids.  One evidence row stands  *)
(* for all, which are numbered by the same function.                       *)
(*                                                                         *)
(* A PATCH loads the row, applies the fields it carries, normalises and    *)
(* commits; the commit writes only the columns whose value changed         *)
(* (SQLAlchemy), so of two overlapping requests each may keep a column:    *)
(* `mixed` remembers that it happened.                                     *)
(*                                                                         *)
(* A hypothesis carries, beside its id, the claim it states: a history     *)
(* variable by which a property tells an old row from a new one that was   *)
(* given the same id.                                                      *)
(***************************************************************************)
EXTENDS Integers, Sequences, FiniteSets

CONSTANTS Editors,      \* requests of the writers
          MaxClaims     \* bound: PATCHes ever sent

ASSUME AchAssumption == MaxClaims \in Nat

VARIABLES matrix,   \* ACHModel: hypotheses and the ratings of one evidence row
          claims,   \* history: numbers handed to new claims, one per PATCH
          edit,     \* per request: what it loaded and was asked
          mixed     \* history: two overlapping requests both committed

achVars == <<matrix, claims, edit, mixed>>

NewId == 0                \* a row sent without an id
NoMatrix == [alive |-> FALSE, hyps |-> <<>>, ratings |-> {}]
NoEdit == [do |-> "nothing"]

-----------------------------------------------------------------------------
(* Normalising a matrix.                                                   *)

Ids(rows) == {rows[i].id : i \in DOMAIN rows}
Highest(S) == CHOOSE n \in S \cup {0} : \A m \in S : m <= n
ClaimOf(rows, id) == rows[CHOOSE i \in DOMAIN rows :
                             /\ rows[i].id = id
                             /\ \A j \in 1..(i - 1) : rows[j].id # id].claim

\* The rows at the positions in S, in their order.
Place(S, i) == Cardinality({j \in S : j <= i})
Picked(rows, S) == [k \in 1..Cardinality(S) |-> rows[CHOOSE i \in S : Place(S, i) = k]]

Filled(rows) == {i \in DOMAIN rows : ~rows[i].blank}

KeepsId(rows, i) == /\ rows[i].id # NewId
                    /\ \A j \in 1..(i - 1) : rows[j].id # rows[i].id

RenumberFrom(top, rows) ==
    [i \in DOMAIN rows |->
        [id |-> IF KeepsId(rows, i) THEN rows[i].id
                ELSE top + Cardinality({j \in 1..i : ~KeepsId(rows, j)}),
         claim |-> rows[i].claim,
         blank |-> FALSE]]

\* A plausible slip: new numbers above the rows that are kept, not above
\* every row that was sent.
NumberedAboveKept(rows) ==
    LET kept == Picked(rows, Filled(rows))
    IN  RenumberFrom(Highest(Ids(kept)), kept)

\* _normalise_rows: blank rows go; the first row with an id keeps it and the
\* others get the next numbers above every id that was sent, blank or not.
Numbered(rows) ==
    RenumberFrom(Highest(Ids(rows)), Picked(rows, Filled(rows)))

\* A rating is kept under the id of its row; `about` is the claim it judged.
\* normalise: the ratings of rows that are no longer there are dropped.
WithoutOrphans(hyps, ratings) == {r \in ratings : r.id \in Ids(hyps)}

\* update_ach: the sent fields replace the stored ones, then both are
\* normalised together; ratings that were not sent are the stored ones.
Patched(saw, body) ==
    LET hyps == IF "hyps" \in body.sends THEN body.hyps ELSE saw.hyps
        ratings == IF "ratings" \in body.sends THEN body.ratings ELSE saw.ratings
    IN  [alive |-> TRUE,
         hyps |-> Numbered(hyps),
         ratings |-> WithoutOrphans(Numbered(hyps), ratings)]

\* A commit writes the columns that differ from what the request loaded.
Written(stored, saw, new) ==
    [c \in DOMAIN stored |-> IF new[c] # saw[c] THEN new[c] ELSE stored[c]]

\* Bodies a client sends: some of the rows it saw, one perhaps blanked, and
\* perhaps a new row; ratings of the rows it sends; or not one of the fields.
BlankedRows(saw) ==
    {<<>>} \cup {<<[id |-> n, claim |-> 0, blank |-> TRUE]>> : n \in Ids(saw.hyps)}
NewRows == {<<>>, <<[id |-> NewId, claim |-> claims + 1, blank |-> FALSE]>>}

SentBack(saw, keep, blanked, new) == Picked(saw.hyps, keep) \o blanked \o new

SentRows(saw) ==
    {SentBack(saw, keep, blanked, new) :
        keep \in SUBSET DOMAIN saw.hyps, blanked \in BlankedRows(saw), new \in NewRows}

SentRatings(rows) ==
    SUBSET {[id |-> n, about |-> ClaimOf(rows, n)] : n \in Ids(rows) \ {NewId}}

Bodies(saw) ==
    {[sends |-> {"ratings"}, hyps |-> saw.hyps, ratings |-> ratings] :
        ratings \in SentRatings(saw.hyps)}
    \cup UNION {{[sends |-> {"hyps"}, hyps |-> rows, ratings |-> {}]}
                \cup {[sends |-> {"hyps", "ratings"}, hyps |-> rows, ratings |-> ratings] :
                         ratings \in SentRatings(rows)}
                : rows \in SentRows(saw)}

-----------------------------------------------------------------------------
AchInit ==
    /\ matrix = [alive |-> TRUE, hyps |-> <<>>, ratings |-> {}]
    /\ claims = 0
    /\ edit = [e \in Editors |-> NoEdit]
    /\ mixed = FALSE

\* PATCH /ach/{id}: the row is loaded and the body applied to it ...
LoadMatrix(e) ==
    /\ matrix.alive /\ edit[e] = NoEdit
    /\ claims < MaxClaims
    /\ \E body \in Bodies(matrix) :
          edit' = [edit EXCEPT ![e] = [do |-> "patch", saw |-> matrix,
                                       body |-> body, stale |-> FALSE]]
    /\ claims' = claims + 1
    /\ UNCHANGED <<matrix, mixed>>

\* ... and committed.  A matrix deleted meanwhile has no row to update.  The
\* other requests at work now hold an old copy.
SaveMatrix(e) ==
    /\ edit[e].do = "patch"
    /\ IF matrix.alive
       THEN /\ matrix' = Written(matrix, edit[e].saw, Patched(edit[e].saw, edit[e].body))
            /\ mixed' = (mixed \/ edit[e].stale)
            /\ edit' = [x \in Editors |->
                           IF x = e \/ edit[x] = NoEdit THEN NoEdit
                           ELSE [edit[x] EXCEPT !.stale = TRUE]]
       ELSE /\ edit' = [edit EXCEPT ![e] = NoEdit]
            /\ UNCHANGED <<matrix, mixed>>
    /\ UNCHANGED claims

DeleteMatrix ==
    /\ matrix.alive
    /\ matrix' = NoMatrix
    /\ UNCHANGED <<claims, edit, mixed>>

AchNext ==
    \/ \E e \in Editors : LoadMatrix(e) \/ SaveMatrix(e)
    \/ DeleteMatrix

AchSpec == AchInit /\ [][AchNext]_achVars

-----------------------------------------------------------------------------
(* Properties.                                                             *)

\* The columns of the row, and the type invariant.
HypothesisRows == [id : 1..(2 * MaxClaims), claim : 1..MaxClaims, blank : {FALSE}]
Ratings == [id : 1..(2 * MaxClaims), about : 0..MaxClaims]

AchTypeOK ==
    /\ matrix.alive \in BOOLEAN
    /\ \A i \in DOMAIN matrix.hyps : matrix.hyps[i] \in HypothesisRows
    /\ matrix.ratings \subseteq Ratings
    /\ claims \in 0..MaxClaims
    /\ \A e \in Editors : edit[e].do \in {"nothing", "patch"}
    /\ mixed \in BOOLEAN

FitsItsRow(r) == /\ r.id \in Ids(matrix.hyps)
                 /\ r.about = ClaimOf(matrix.hyps, r.id)

\* A matrix saved with its ratings, on a copy nobody has changed since, is
\* sound: every rating belongs to a row and judges the claim that row states,
\* however rows were blanked, dropped and added (services/ach.py:46-101).
SavedRatingsFitTheirRows ==
    [][\A e \in Editors :
          /\ SaveMatrix(e)
          /\ matrix.alive
          /\ "ratings" \in edit[e].body.sends
          /\ ~edit[e].stale
          => \A r \in matrix'.ratings : FitsItsRow(r)']_achVars

\* No rating outlives its row, unless two overlapping requests each wrote a
\* column (services/ach.py:171).
NoOrphanRatings == ~mixed => \A r \in matrix.ratings : r.id \in Ids(matrix.hyps)

\* Refuted.  "Deleting a row never silently re-keys the matrix"
\* (services/ach.py:20): a rating always judges the claim of its row.
DeletingNeverRekeys == ~mixed => \A r \in matrix.ratings : FitsItsRow(r)

=============================================================================
