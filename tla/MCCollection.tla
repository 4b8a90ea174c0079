---------------------------- MODULE MCCollection ----------------------------
(***************************************************************************)
(* Model-checking instance of the components an analyst collects and works *)
(* with, up to the editorial comments on a report.  They share no state,   *)
(* so a behaviour is one of one component: the states are the sum, not the *)
(* product, of theirs.                                                     *)
(***************************************************************************)
EXTENDS FeedReview, Taxonomy, MispPush, Tasking, NotebookWork, AchMatrix, Comments, TLC

VARIABLE part  \* the component this behaviour is about

collectionVars ==
    <<reviewVars, taxVars, pushVars, taskingVars, noteVars, achVars, vars, part>>

CollectionInit ==
    /\ part \in {"feeds", "tags", "misp", "tasking", "sources", "files", "ach", "comments"}
    /\ ReviewInit /\ TaxInit /\ PushInit /\ TaskingInit /\ NoteInit /\ AchInit /\ Init
    \* The other components say nothing of these.
    /\ part # "misp" => pushable
    /\ part # "comments" => text = [x \in Passages |-> 1]

CollectionNext ==
    /\ \/ /\ part = "feeds" /\ ReviewNext
          /\ UNCHANGED <<taxVars, pushVars, taskingVars, noteVars, achVars, vars>>
       \/ /\ part = "tags" /\ TaxNext
          /\ UNCHANGED <<reviewVars, pushVars, taskingVars, noteVars, achVars, vars>>
       \/ /\ part = "misp" /\ PushNext
          /\ UNCHANGED <<reviewVars, taxVars, taskingVars, noteVars, achVars, vars>>
       \/ /\ part = "tasking" /\ TaskingNext
          /\ UNCHANGED <<reviewVars, taxVars, pushVars, noteVars, achVars, vars>>
       \* The two halves of a notebook's work meet only in its deletion.
       \/ /\ \/ part = "sources" /\ (SourceStep \/ DeletionStep)
             \/ part = "files" /\ (FileStep \/ DeletionStep)
          /\ UNCHANGED <<reviewVars, taxVars, pushVars, taskingVars, achVars, vars>>
       \/ /\ part = "ach" /\ AchNext
          /\ UNCHANGED <<reviewVars, taxVars, pushVars, taskingVars, noteVars, vars>>
       \/ /\ part = "comments" /\ Next
          /\ UNCHANGED <<reviewVars, taxVars, pushVars, taskingVars, noteVars, achVars>>
    /\ UNCHANGED part

CollectionSpec == CollectionInit /\ [][CollectionNext]_collectionVars

(***************************************************************************)
(* Values.  Both threads quote the passage p; one replaces it, the other's *)
(* replacement is the passage itself, as when a suggestion only rewrites   *)
(* what surrounds it.                                                      *)
(***************************************************************************)
CONSTANTS h1, h2, p, q, f1, f2, f3

mcAliasLists == {{}, {"C"}}
mcOwnerOf == [n \in Needs |-> "s1"]
mcKind == [f \in Files |-> CASE f = f1 -> "render" [] f = f2 -> "attachment" [] f = f3 -> "figure"]
mcQuote == [t \in Threads |-> p]
mcReplacement == [t \in Threads |-> IF t = h1 THEN q ELSE p]

Symmetry == Permutations(Requests)
=============================================================================
