----------------------------- MODULE NeedToKnow -----------------------------
(***************************************************************************)
(* Need-to-know audiences: groups of stakeholders, the groups a report is  *)
(* limited to (services/audience.py, api/audience.py and the portal's      *)
(* forms), and who is sent a published report, sees it in the feed and     *)
(* gets mail about it (services/reports.py, dissemination.py, feed.py,     *)
(* jobs._run_email_job).                                                   *)
(*                                                                         *)
(* A relationship that is replaced is written row by row: the rows to      *)
(* delete and to insert follow from what the request loaded.  A row to     *)
(* delete that is gone, or one to insert that exists or whose group is     *)
(* gone, fails the commit.                                                 *)
(*                                                                         *)
(* Every stakeholder is taken to want every report: preferences, the TLP   *)
(* ceiling and policies are in modules Publication and AudiencePolicy.     *)
(***************************************************************************)
EXTENDS FiniteSets

CONSTANTS Readers,  \* stakeholders
          Groups,   \* audience groups, existing or not
          Reports,
          InFlight  \* requests in flight

VARIABLES
    groups,     \* groups that exist
    member,     \* rows of UserAudienceGroup: <<reader, group>>
    scope,      \* rows of ReportAudienceGroup: <<report, group>>
    public,     \* published reports
    delivered,  \* dissemination events: <<reader, report>>
    outgoing,   \* mail jobs that are pending: <<reader, report>>
    request,    \* [InFlight -> local state of a request]
    asked,      \* history: the groups last assigned to a report
    crossed,    \* history: reports whose last assignment was not of what it saw
    moved,      \* history: reports whose audience changed once they went out
    strayed     \* history: mail sent to a reader who cannot open the report

needVars == <<groups, member, scope, public, delivered, outgoing, request, asked, crossed, moved, strayed>>

NoRequest == [op |-> "none"]

NeedInit ==
    /\ groups = Groups
    /\ member \in SUBSET (Readers \X Groups)
    /\ scope = {}
    /\ public = {} /\ delivered = {} /\ outgoing = {}
    /\ request = [a \in InFlight |-> NoRequest]
    /\ asked = [r \in Reports |-> {}]
    /\ crossed = {} /\ moved = {} /\ strayed = {}

(***************************************************************************)
(* Who sees what                                                           *)
(***************************************************************************)
Scope(r) == {g \in Groups : <<r, g>> \in scope}
Belongs(u) == {g \in Groups : <<u, g>> \in member}

\* ensure_visible and stakeholder_visibility_clause, of a published report.
Visible(u, r) == Scope(r) = {} \/ Belongs(u) \cap Scope(r) # {}
Audience(r) == {u \in Readers : Visible(u, r)}

\* visible_items: what was delivered and may still be read.
Feed(u) == {r \in public : <<u, r>> \in delivered /\ Visible(u, r)}

(***************************************************************************)
(* Requests                                                                *)
(***************************************************************************)
Start(a, req) == request[a] = NoRequest /\ request' = [request EXCEPT ![a] = req]
End(a) == request' = [request EXCEPT ![a] = NoRequest]

GoingOut(r) == r \in public \/ \E a \in InFlight : request[a].op = "publish" /\ request[a].r = r

\* To follow the assignments to member' and scope'.
NoteMoves == moved' = moved \cup {r \in Reports : GoingOut(r) /\ Audience(r)' # Audience(r)}

\* Rows as a flush of a replaced collection leaves them.
Flushed(rows, from, to) == (rows \ (from \ to)) \cup (to \ from)
Flushable(rows, from, to) == from \ to \subseteq rows /\ (to \ from) \cap rows = {}

\* A request that failed, or was refused when it came back.
Fail(a) ==
    /\ request[a] # NoRequest
    /\ End(a)
    /\ UNCHANGED <<groups, member, scope, public, delivered, outgoing, asked, crossed, moved, strayed>>

CreateGroup(g, us) ==
    /\ g \notin groups
    /\ groups' = groups \cup {g}
    /\ member' = member \cup (us \X {g})
    /\ UNCHANGED <<scope, public, delivered, outgoing, request, asked, crossed, moved, strayed>>

\* set_group_members: what the request loaded, and what replaces it.
BeginMembers(a, g, us) ==
    /\ g \in groups
    /\ Start(a, [op |-> "members", g |-> g, from |-> {u \in Readers : <<u, g>> \in member}, to |-> us])
    /\ UNCHANGED <<groups, member, scope, public, delivered, outgoing, asked, crossed, moved, strayed>>

CommitMembers(a) ==
    /\ request[a].op = "members"
    /\ LET g == request[a].g
           from == request[a].from \X {g}
           to == request[a].to \X {g} IN
       /\ Flushable(member, from, to) /\ (to \subseteq from \/ g \in groups)
       /\ member' = Flushed(member, from, to)
    /\ UNCHANGED scope
    /\ NoteMoves
    /\ End(a)
    /\ UNCHANGED <<groups, public, delivered, outgoing, asked, crossed, strayed>>

\* set_report_audience: resolve_groups refuses the whole request when a group
\* does not exist.
BeginScope(a, r, gs) ==
    /\ gs \subseteq groups
    /\ Start(a, [op |-> "scope", r |-> r, from |-> Scope(r), to |-> gs])
    /\ UNCHANGED <<groups, member, scope, public, delivered, outgoing, asked, crossed, moved, strayed>>

CommitScope(a) ==
    /\ request[a].op = "scope"
    /\ LET r == request[a].r
           from == request[a].from
           to == request[a].to IN
       /\ Flushable(Scope(r), from, to) /\ to \ from \subseteq groups
       /\ scope' = {row \in scope : row[1] # r} \cup ({r} \X Flushed(Scope(r), from, to))
       /\ asked' = [asked EXCEPT ![r] = to]
       /\ crossed' = IF from = Scope(r) THEN crossed \ {r} ELSE crossed \cup {r}
    /\ UNCHANGED member
    /\ NoteMoves
    /\ End(a)
    /\ UNCHANGED <<groups, public, delivered, outgoing, strayed>>

\* Faulty variant: a group is deleted whatever refers to it.
UnreferencedAlways(g) == TRUE

\* delete_group refuses a group some report is limited to, then deletes it.
Unreferenced(g) == \A r \in Reports : <<r, g>> \notin scope

BeginGroupDeletion(a, g) ==
    /\ g \in groups /\ Unreferenced(g)
    /\ Start(a, [op |-> "delete", g |-> g, of |-> {r \in Reports : <<r, g>> \in scope}])
    /\ UNCHANGED <<groups, member, scope, public, delivered, outgoing, asked, crossed, moved, strayed>>

\* The rows that refer to it go with it, those written since the check included.
CommitGroupDeletion(a) ==
    /\ request[a].op = "delete"
    /\ LET g == request[a].g IN
       /\ groups' = groups \ {g}
       /\ member' = {row \in member : row[2] # g}
       /\ scope' = {row \in scope : row[2] # g}
       /\ crossed' = crossed \cup {r \in Reports : <<r, g>> \in scope /\ r \notin request[a].of}
    /\ NoteMoves
    /\ End(a)
    /\ UNCHANGED <<public, delivered, outgoing, asked, strayed>>

(***************************************************************************)
(* Publication, mail and the feed                                          *)
(***************************************************************************)
\* Faulty variant: the audience of a report is not part of the match.
MatchedAll(r) == Readers

Matched(r) == Audience(r)

BeginPublication(a, r) ==
    /\ r \notin public
    /\ Start(a, [op |-> "publish", r |-> r, to |-> Matched(r)])
    /\ UNCHANGED <<groups, member, scope, public, delivered, outgoing, asked, crossed, moved, strayed>>

\* A new audience does not change the row of the report: nothing is checked
\* again but that the report is not published yet.
CommitPublication(a) ==
    /\ request[a].op = "publish" /\ request[a].r \notin public
    /\ LET out == request[a].to \X {request[a].r} IN
       /\ delivered' = delivered \cup out
       /\ outgoing' = outgoing \cup out
    /\ public' = public \cup {request[a].r}
    /\ End(a)
    /\ UNCHANGED <<groups, member, scope, asked, crossed, moved, strayed>>

\* The worker reads the report and the reader, never the audience.
SendMail(u, r) ==
    /\ <<u, r>> \in outgoing
    /\ outgoing' = outgoing \ {<<u, r>>}
    /\ strayed' = IF r \in Feed(u) THEN strayed ELSE strayed \cup {<<u, r>>}
    /\ UNCHANGED <<groups, member, scope, public, delivered, request, asked, crossed, moved>>

NeedNext ==
    \/ \E g \in Groups, us \in SUBSET Readers : CreateGroup(g, us)
    \/ \E a \in InFlight :
         \/ Fail(a) \/ CommitMembers(a) \/ CommitScope(a) \/ CommitGroupDeletion(a) \/ CommitPublication(a)
         \/ \E g \in Groups : BeginGroupDeletion(a, g) \/ \E us \in SUBSET Readers : BeginMembers(a, g, us)
         \/ \E r \in Reports : BeginPublication(a, r) \/ \E gs \in SUBSET Groups : BeginScope(a, r, gs)
    \/ \E u \in Readers, r \in Reports : SendMail(u, r)

NeedSpec == NeedInit /\ [][NeedNext]_needVars

(***************************************************************************)
(* Properties                                                              *)
(***************************************************************************)
NeedTypeOK ==
    /\ groups \subseteq Groups /\ public \subseteq Reports
    /\ member \subseteq Readers \X groups /\ scope \subseteq Reports \X groups
    /\ delivered \subseteq Readers \X public /\ outgoing \subseteq delivered
    /\ crossed \subseteq Reports /\ moved \subseteq Reports /\ strayed \subseteq delivered
    /\ asked \in [Reports -> SUBSET Groups]
    /\ request \in [InFlight -> {NoRequest}
         \cup [op : {"members"}, g : Groups, from : SUBSET Readers, to : SUBSET Readers]
         \cup [op : {"scope"}, r : Reports, from : SUBSET Groups, to : SUBSET Groups]
         \cup [op : {"delete"}, g : Groups, of : SUBSET Reports]
         \cup [op : {"publish"}, r : Reports, to : SUBSET Readers]]

\* A report is limited to the groups last assigned to it, unless that
\* assignment met another one, or one of them was deleted by a request that had
\* found it unused before (audience.set_report_audience, delete_group).
ScopeOpensOnlyByRace == \A r \in Reports : Scope(r) # asked[r] => r \in crossed

\* Mail about a report reaches someone who cannot open it only if its audience
\* changed after its recipients had been chosen (publication.publish_report,
\* jobs._run_email_job).
MailStraysOnlyAfterAMove == \A s \in strayed : s[2] \in moved

\* "An invalid group id can never silently turn a restricted product into an
\* unscoped one" (audience.py).
ScopeNeverOpensItself == \A r \in Reports : asked[r] # {} => Scope(r) # {}

\* Nobody is sent mail about a report that he cannot open.
MailStaysInScope == strayed = {}
=============================================================================
