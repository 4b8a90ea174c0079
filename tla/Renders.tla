------------------------------ MODULE Renders ------------------------------
(***************************************************************************)
(* Rendered products of one report and format: a draft is rendered from    *)
(* the rows of the moment, a published report from its snapshot; products  *)
(* are numbered as they are stamped, kept by number and age, and offered   *)
(* to stakeholders when they carry the hash of the snapshot                *)
(* (services/reports.py, publication.py, api/reports.py).  Their files are *)
(* those of module StorageLifecycle.                                       *)
(*                                                                         *)
(* A hash is the content it is the hash of.                                *)
(***************************************************************************)
EXTENDS Integers, FiniteSets

CONSTANTS Renderers,  \* requests in flight
          Keep,       \* render_retention_keep, 0 for all
          Aging,      \* render_retention_days is set
          MaxText,    \* bound: revisions of the text
          MaxRenders  \* bound: products rendered

ASSUME RendersAssumption ==
    /\ Keep \in Nat /\ Aging \in BOOLEAN
    /\ MaxText \in Nat \ {0} /\ MaxRenders \in Nat

VARIABLES
    final,       \* the status of the report is PUBLISHED
    liveText,    \* content of its rows
    frozenText,  \* content of its snapshot, NoHash before there is one
    products,    \* rows of RenderedProduct: [stamp, text, hash]
    renderer,    \* [Renderers -> local state]
    stamps       \* products stamped so far

renderVars == <<final, liveText, frozenText, products, renderer, stamps>>

NoHash == 0
Unused == [at |-> "unused"]

\* A published report without a snapshot is from a version that made none.
RendersInit ==
    /\ final \in BOOLEAN /\ liveText = 1 /\ frozenText = NoHash
    /\ products = {} /\ stamps = 0
    /\ renderer = [w \in Renderers |-> Unused]

Becomes(w, state) == renderer' = [renderer EXCEPT ![w] = state]

Edit ==
    /\ ~final /\ liveText < MaxText
    /\ liveText' = liveText + 1
    /\ UNCHANGED <<final, frozenText, products, renderer, stamps>>

\* publish, and backfill_snapshots at the first start of a newer version.
Freeze ==
    /\ frozenText = NoHash
    /\ final' = TRUE /\ frozenText' = liveText
    /\ UNCHANGED <<liveText, products, renderer, stamps>>

(***************************************************************************)
(* Rendering                                                               *)
(***************************************************************************)
\* Faulty variant: a product carries the hash the report has when it is stored.
HashWhenStored(hash) == frozenText

\* render_report passes the hash with a rendering of the snapshot only.
HashOf(hash) == hash

\* What is typeset is read first; typesetting takes its time.
BeginRender(w) ==
    /\ renderer[w] = Unused
    /\ LET frozen == final /\ frozenText # NoHash IN
       Becomes(w, [at |-> "store", text |-> IF frozen THEN frozenText ELSE liveText,
                   hash |-> IF frozen THEN frozenText ELSE NoHash])
    /\ UNCHANGED <<final, liveText, frozenText, products, stamps>>

\* The file is stored, then the row is stamped,
StampProduct(w) ==
    /\ renderer[w].at = "store" /\ stamps < MaxRenders
    /\ stamps' = stamps + 1
    /\ Becomes(w, [at |-> "commit",
                   row |-> [stamp |-> stamps', text |-> renderer[w].text,
                            hash |-> HashOf(renderer[w].hash)]])
    /\ UNCHANGED <<final, liveText, frozenText, products>>

\* and then committed.
CommitProduct(w) ==
    /\ renderer[w].at = "commit"
    /\ products' = products \cup {renderer[w].row}
    /\ Becomes(w, [at |-> "prune"])
    /\ UNCHANGED <<final, liveText, frozenText, stamps>>

\* prune_rendered_products: all but the latest Keep, and those that are too old.
TooMany == {p \in products : Keep > 0 /\ Cardinality({q \in products : q.stamp >= p.stamp}) > Keep}

LoadStale(w, cutoff) ==
    /\ renderer[w].at = "prune"
    /\ Becomes(w, [at |-> "drop", rows |-> TooMany \cup {p \in products : p.stamp < cutoff}])
    /\ UNCHANGED <<final, liveText, frozenText, products, stamps>>

\* Rows another pass or a writer has deleted are passed over.
DropStale(w) ==
    /\ renderer[w].at = "drop"
    /\ products' = products \ renderer[w].rows
    /\ Becomes(w, Unused)
    /\ UNCHANGED <<final, liveText, frozenText, stamps>>

\* The maintenance command prunes too.
BeginPrune(w) ==
    /\ renderer[w] = Unused
    /\ Becomes(w, [at |-> "prune"])
    /\ UNCHANGED <<final, liveText, frozenText, products, stamps>>

\* A writer deletes a product while the report may be edited; it may have been
\* published since that was looked at.
BeginDeletion(w, p) ==
    /\ renderer[w] = Unused /\ ~final
    /\ Becomes(w, [at |-> "drop", rows |-> {p}])
    /\ UNCHANGED <<final, liveText, frozenText, products, stamps>>

Interrupt(w) ==
    /\ renderer[w] # Unused
    /\ Becomes(w, Unused)
    /\ UNCHANGED <<final, liveText, frozenText, products, stamps>>

RendersNext ==
    \/ Edit \/ Freeze
    \/ \E w \in Renderers :
         \/ BeginRender(w) \/ StampProduct(w) \/ CommitProduct(w) \/ DropStale(w)
         \/ BeginPrune(w) \/ Interrupt(w)
         \/ \E p \in products : BeginDeletion(w, p)
         \/ \E cutoff \in IF Aging THEN 0..stamps ELSE {0} : LoadStale(w, cutoff)

RendersSpec == RendersInit /\ [][RendersNext]_renderVars

(***************************************************************************)
(* Properties                                                              *)
(***************************************************************************)
Rows == [stamp : 1..MaxRenders, text : 1..MaxText, hash : 0..MaxText]

RendersTypeOK ==
    /\ final \in BOOLEAN /\ liveText \in 1..MaxText /\ frozenText \in 0..liveText
    /\ products \subseteq Rows /\ stamps \in 0..MaxRenders
    /\ \A w \in Renderers : renderer[w].at \in {"unused", "store", "commit", "prune", "drop"}

\* download_product and list_products, for a stakeholder.
Offered == {p \in products : final /\ p.hash = frozenText}

\* Once a report has a snapshot, every product a stakeholder can download was
\* rendered from it, whenever its rendering began: "a stakeholder may only
\* obtain a PDF built from the report's active publication snapshot"
\* (models.RenderedProduct).
OfferedIsTheSnapshot ==
    frozenText # NoHash => \A p \in Offered : p.text = frozenText

\* A finished product that is there to download stays, unless another of the
\* same snapshot takes its place.
ProductStaysAvailable == [][frozenText # NoHash /\ Offered # {} => Offered' # {}]_renderVars
=============================================================================
