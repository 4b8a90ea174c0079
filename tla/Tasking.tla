------------------------------ MODULE Tasking ------------------------------
(***************************************************************************)
(* Requirements and the feedback that closes them (services/requirements.py *)
(* and feedback.py, with their routes).  Stakeholders state requirements,  *)
(* writers link reports to them and move their status, and a stakeholder   *)
(* who received a report says whether it met one.  That verdict is stored  *)
(* in one commit and satisfies the requirement in the next.                *)
(***************************************************************************)
EXTENDS Naturals, FiniteSets

CONSTANTS Products,     \* reports
          Needs,        \* ids of requirements
          OwnerOf,      \* [Needs -> Customers], who states a requirement
          Customers,    \* stakeholders
          IsDemo,       \* the members of Products and Needs made for a demo workspace
          Tabs,         \* requests
          MaxMoves      \* bound: changes of status by writers

ASSUME TaskingAssumption ==
    /\ OwnerOf \in [Needs -> Customers]
    /\ Needs \cap {"none", "nothing"} = {}  \* what a verdict is on when it is on no need
    /\ IsDemo \subseteq Products \cup Needs /\ MaxMoves \in Nat

VARIABLES
    need,      \* [Needs -> row, or NoNeed]
    addressed, \* links of products to the needs they satisfy
    delivered, \* who has which product in their feed
    verdict,   \* [Products \X Customers -> feedback row, or NoVerdict]
    tab,       \* [Tabs -> local state of a request]
    moves,     \* changes of status by writers so far
    lastWord   \* history: [Needs -> who spoke last: "writer", "met", or a "dead" request]

taskingVars == <<need, addressed, delivered, verdict, tab, moves, lastWord>>

Statuses == {"open", "in_progress", "satisfied", "closed"}
NeedKinds == {"PIR", "RFI"}
NoNeed == [status |-> "none"]
GoneNeed == [status |-> "gone"]  \* ids are not used twice
NoVerdict == [on |-> "none"]
Shut == [op |-> "shut"]

TaskingInit ==
    /\ need = [n \in Needs |-> NoNeed]
    /\ addressed = {} /\ delivered = {}
    /\ verdict = [x \in Products \X Customers |-> NoVerdict]
    /\ tab = [t \in Tabs |-> Shut]
    /\ moves = 0
    /\ lastWord = [n \in Needs |-> "writer"]

Stated(n) == need[n] \notin {NoNeed, GoneNeed}

\* Collection planning (context, review date) is for PIRs alone.
Planned(kind, plan) == kind = "PIR" /\ plan

State(n, kind, plan) ==
    /\ need[n] = NoNeed
    /\ need' = [need EXCEPT ![n] = [status |-> "open", kind |-> kind,
                                    plan |-> Planned(kind, plan)]]
    /\ UNCHANGED <<addressed, delivered, verdict, tab, moves, lastWord>>

\* The owner or an administrator edits what was loaded; what the assignments
\* did not change is not written.
BeginEdit(t, n) ==
    /\ tab[t] = Shut /\ Stated(n)
    /\ tab' = [tab EXCEPT ![t] = [op |-> "edit", n |-> n, old |-> need[n]]]
    /\ UNCHANGED <<need, addressed, delivered, verdict, moves, lastWord>>

Merge(now, old, new) == IF new = old THEN now ELSE new

CommitEdit(t, kind, plan) ==
    /\ tab[t].op = "edit"
    /\ LET n == tab[t].n IN
       IF Stated(n)
       THEN need' = [need EXCEPT
              ![n].kind = Merge(@, tab[t].old.kind, kind),
              ![n].plan = Merge(@, tab[t].old.plan, Planned(kind, plan))]
       ELSE UNCHANGED need
    /\ tab' = [tab EXCEPT ![t] = Shut]
    /\ UNCHANGED <<addressed, delivered, verdict, moves, lastWord>>

\* Writers move a requirement from any status to any other.
MoveNeed(n, s) ==
    /\ Stated(n) /\ need[n].status # s /\ moves < MaxMoves
    /\ need' = [need EXCEPT ![n].status = s]
    /\ lastWord' = [lastWord EXCEPT ![n] = "writer"]
    /\ moves' = moves + 1
    /\ UNCHANGED <<addressed, delivered, verdict, tab>>

\* Links and the requirement named in feedback go with the row.
DeleteNeed(n) ==
    /\ Stated(n) /\ n \notin IsDemo
    /\ need' = [need EXCEPT ![n] = GoneNeed]
    /\ addressed' = {l \in addressed : l[2] # n}
    /\ verdict' = [x \in DOMAIN verdict |->
                     IF verdict[x].on = n THEN [on |-> "nothing", met |-> FALSE] ELSE verdict[x]]
    /\ UNCHANGED <<delivered, tab, moves, lastWord>>

SameWorld(p, ns) == \A n \in ns : (n \in IsDemo) = (p \in IsDemo)

SetAddressed(p, ns) ==
    /\ \A n \in ns : Stated(n)
    /\ SameWorld(p, ns)
    /\ addressed' = {l \in addressed : l[1] # p} \cup ({p} \X ns)
    /\ addressed' # addressed
    /\ UNCHANGED <<need, delivered, verdict, tab, moves, lastWord>>

Deliver(p, c) ==
    /\ <<p, c>> \notin delivered
    /\ delivered' = delivered \cup {<<p, c>>}
    /\ UNCHANGED <<need, addressed, verdict, tab, moves, lastWord>>

(***************************************************************************)
(* Feedback                                                                *)
(***************************************************************************)
MayJudge(p, c, n) == <<p, n>> \in addressed /\ OwnerOf[n] = c

\* The request checks delivery, the requirement and whether feedback is there.
BeginFeedback(t, p, c, n, met) ==
    /\ tab[t] = Shut
    /\ <<p, c>> \in delivered /\ MayJudge(p, c, n)
    /\ tab' = [tab EXCEPT ![t] = [op |-> "feedback", p |-> p, c |-> c, n |-> n, met |-> met,
                                  insert |-> verdict[<<p, c>>] = NoVerdict,
                                  was |-> need[n].status]]
    /\ UNCHANGED <<need, addressed, delivered, verdict, moves, lastWord>>

\* One row per report and stakeholder: a second insert fails, and so does the
\* foreign key when the requirement is gone.
StoreFeedback(t) ==
    /\ tab[t].op = "feedback"
    /\ LET x == <<tab[t].p, tab[t].c>> n == tab[t].n IN
       IF Stated(n) /\ (tab[t].insert => verdict[x] = NoVerdict)
       THEN /\ verdict' = [verdict EXCEPT ![x] = [on |-> n, met |-> tab[t].met]]
            /\ lastWord' = [lastWord EXCEPT ![n] = IF tab[t].met THEN "met" ELSE @]
            /\ tab' = [tab EXCEPT ![t] =
                 IF tab[t].met THEN [op |-> "close", n |-> n, was |-> tab[t].was] ELSE Shut]
       ELSE /\ tab' = [tab EXCEPT ![t] = Shut]
            /\ UNCHANGED <<verdict, lastWord>>
    /\ UNCHANGED <<need, addressed, delivered, moves>>

\* Faulty variant: the status is the one loaded before the first commit.
NeedsClosingAsLoaded(t) == tab[t].was # "satisfied"

\* The commit expired the row: its status is read again.
NeedsClosing(t) == need[tab[t].n].status # "satisfied"

CloseLoop(t) ==
    /\ tab[t].op = "close"
    /\ LET n == tab[t].n IN
       need' = IF Stated(n) /\ NeedsClosing(t)
               THEN [need EXCEPT ![n].status = "satisfied"] ELSE need
    /\ tab' = [tab EXCEPT ![t] = Shut]
    /\ UNCHANGED <<addressed, delivered, verdict, moves, lastWord>>

\* A request that dies between its commits leaves the verdict without effect.
CloseTab(t) ==
    /\ tab[t] # Shut
    /\ lastWord' = IF tab[t].op = "close" THEN [lastWord EXCEPT ![tab[t].n] = "dead"]
                   ELSE lastWord
    /\ tab' = [tab EXCEPT ![t] = Shut]
    /\ UNCHANGED <<need, addressed, delivered, verdict, moves>>

TaskingNext ==
    \/ \E n \in Needs :
         \/ \E kind \in NeedKinds, plan \in BOOLEAN : State(n, kind, plan)
         \/ \E s \in Statuses : MoveNeed(n, s)
         \/ DeleteNeed(n)
    \/ \E p \in Products, ns \in SUBSET Needs : SetAddressed(p, ns)
    \/ \E p \in Products, c \in Customers : Deliver(p, c)
    \/ \E t \in Tabs :
         \/ \E n \in Needs : BeginEdit(t, n)
         \/ \E kind \in NeedKinds, plan \in BOOLEAN : CommitEdit(t, kind, plan)
         \/ \E p \in Products, c \in Customers, n \in Needs, met \in BOOLEAN :
              BeginFeedback(t, p, c, n, met)
         \/ StoreFeedback(t) \/ CloseLoop(t) \/ CloseTab(t)

TaskingSpec == TaskingInit /\ [][TaskingNext]_taskingVars

(***************************************************************************)
(* Properties                                                              *)
(***************************************************************************)
NeedRows == [status : Statuses, kind : NeedKinds, plan : BOOLEAN]
LinkRows == Products \X Needs
Deliveries == Products \X Customers
FeedbackRows == [on : Needs \cup {"nothing"}, met : BOOLEAN]

TaskingTypeOK ==
    /\ need \in [Needs -> NeedRows \cup {NoNeed, GoneNeed}]
    /\ addressed \subseteq LinkRows /\ delivered \subseteq Deliveries
    /\ verdict \in [Deliveries -> {NoVerdict} \cup FeedbackRows]
    /\ \A t \in Tabs :
          \/ tab[t] = Shut
          \/ tab[t] \in [op : {"edit"}, n : Needs, old : NeedRows]
          \/ tab[t] \in [op : {"close"}, n : Needs, was : Statuses]
          \/ tab[t] \in [op : {"feedback"}, p : Products, c : Customers, n : Needs,
                         met : BOOLEAN, insert : BOOLEAN, was : Statuses]
    /\ moves \in 0..MaxMoves
    /\ lastWord \in [Needs -> {"writer", "met", "dead"}]

\* Once a stakeholder's MET is the last word on a requirement, it is satisfied or
\* about to be, whatever its status was when the request loaded it; only a
\* request that died in between leaves it (feedback.py:99-105).
MetSatisfies ==
    \A n \in Needs : Stated(n) /\ lastWord[n] = "met" =>
        \/ need[n].status = "satisfied"
        \/ \E t \in Tabs : tab[t].op = "close" /\ tab[t].n = n

\* Feedback speaks of the stakeholder's own requirements, on delivered products,
\* and demo records are linked with demo records alone.
VerdictsAreOwn ==
    /\ \A x \in DOMAIN verdict : verdict[x] # NoVerdict =>
          /\ x \in delivered
          /\ verdict[x].on \in Needs => Stated(verdict[x].on) /\ OwnerOf[verdict[x].on] = x[2]
    /\ \A l \in addressed : Stated(l[2]) /\ (l[1] \in IsDemo) = (l[2] \in IsDemo)

\* Rows that are not PIRs carry no collection planning.
OnlyPirsArePlanned == \A n \in Needs : Stated(n) /\ need[n].plan => need[n].kind = "PIR"
=============================================================================
