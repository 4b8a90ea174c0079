--------------------------- MODULE MCPublication ---------------------------
(***************************************************************************)
(* Model-checking instance of a report's publication, of the groups it is  *)
(* limited to, of the index of related products and of its rendered files. *)
(* They share no state here, so a behaviour is one of one component: the   *)
(* states are the sum, not the product, of theirs.                         *)
(***************************************************************************)
EXTENDS Publication, NeedToKnow, RelatedIndex, Renders, TLC

VARIABLE part  \* the component this behaviour is about

productVars == <<vars, needVars, relatedVars, renderVars, part>>

ProductInit ==
    /\ part \in {"publication", "needs", "related", "renders"}
    /\ Init /\ NeedInit /\ RelatedInit /\ RendersInit
    /\ part # "publication" => content = "c1" /\ eligible = {}  \* of the others
    /\ part # "needs" => member = {}                            \* one state each
    /\ part # "renders" => ~final

ProductNext ==
    /\ \/ /\ part = "publication" /\ Next
          /\ UNCHANGED <<needVars, relatedVars, renderVars>>
       \/ /\ part = "needs" /\ NeedNext
          /\ UNCHANGED <<vars, relatedVars, renderVars>>
       \/ /\ part = "related" /\ RelatedNext
          /\ UNCHANGED <<vars, needVars, renderVars>>
       \/ /\ part = "renders" /\ RendersNext
          /\ UNCHANGED <<vars, needVars, relatedVars>>
    /\ UNCHANGED part

ProductSpec == ProductInit /\ [][ProductNext]_productVars

(***************************************************************************)
(* Values: x1 and x2 are requests of every component, u1 and u2 readers    *)
(* and providers.                                                          *)
(***************************************************************************)
CONSTANTS x1, x2, u1, u2, g1, g2

Symmetry == Permutations({x1, x2}) \cup Permutations({u1, u2}) \cup Permutations({g1, g2})
=============================================================================
