------------------------------ MODULE MCSharing ------------------------------
(***************************************************************************)
(* Model-checking instance of what is exchanged with others: the evidence  *)
(* other systems offer, the TAXII collection they pull, and the policy     *)
(* that narrows who receives a product.  They share no state, so a         *)
(* behaviour is one of one component: the states are the sum, not the      *)
(* product, of theirs.                                                     *)
(***************************************************************************)
EXTENDS Evidence, Taxii, AudiencePolicy, TLC

VARIABLE part  \* the component this behaviour is about

sharingVars == <<vars, taxiiVars, policyVars, part>>

SharingInit ==
    /\ part \in {"evidence", "taxii", "audience", "rules"}
    /\ Init /\ TaxiiInit /\ PolicyInit
    \* One report has the tag at first, the other may be given it.
    /\ \A r \in Exported :
         report[r].terms = IF part = "taxii" /\ r = "p1" THEN Terms ELSE {}
    /\ part # "audience" => base = {}  \* the other components say nothing of it

\* The policy is explored in two ways that together stay small: a publication
\* and two versions with administrators in turn, and three versions with racing
\* administrators, fewer rules, windows and times and no publication.
AudienceNext ==
    \/ \E r \in Administrators :
         /\ \A o \in Administrators \ {r} : request[o].op = "none"
         /\ AdministratorStep(r) /\ row'[3].st = "none"
    \/ PublicationStep \/ Tick

RulesNext ==
    \/ \E r \in Administrators :
         /\ AdministratorStep(r)
         /\ \A v \in Versions : /\ row'[v].rules = {}
                                /\ row'[v].st = "draft" => row'[v].to = Unset
    \/ Tick /\ clock' = 1

SharingNext ==
    /\ \/ part = "evidence" /\ Next /\ UNCHANGED <<taxiiVars, policyVars>>
       \/ part = "taxii" /\ TaxiiNext /\ UNCHANGED <<vars, policyVars>>
       \/ part = "audience" /\ AudienceNext /\ UNCHANGED <<vars, taxiiVars>>
       \/ part = "rules" /\ RulesNext /\ UNCHANGED <<vars, taxiiVars>>
    /\ UNCHANGED part

SharingSpec == SharingInit /\ [][SharingNext]_sharingVars

\* A publication while administrators race.
RacingSpec ==
    SharingInit /\ [][part = "audience" /\ PolicyNext /\ UNCHANGED <<vars, taxiiVars, part>>]_sharingVars

(***************************************************************************)
(* Values: one report is AMBER, the other GREEN.  Rule sets: one that lets *)
(* nobody through and one that lets everybody.  Windows: open, starting    *)
(* later, ending.                                                          *)
(***************************************************************************)
CONSTANTS x1, x2, v1, v2

\* Some order of the ids.
mcRankOf(id) == CASE id[1] = "tag" -> 1
                  [] id[1] = "report" -> IF id[2] = "p1" THEN 2 ELSE 3
                  [] OTHER -> CASE id[2] = "amber" -> 4 [] id[2] = "green" -> 5 [] OTHER -> 6

mcLevel == [r \in Exported |-> IF r = "p1" THEN "amber" ELSE "green"]

mcRuleSets == {{}, Stakeholders}
mcWindows == {<<Unset, Unset>>, <<1, Unset>>, <<Unset, 1>>}

\* x1 and x2 are requests of every component.
Symmetry == Permutations({x1, x2}) \cup Permutations({v1, v2})
=============================================================================
