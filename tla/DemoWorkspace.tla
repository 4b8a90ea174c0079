---------------------------- MODULE DemoWorkspace ----------------------------
(***************************************************************************)
(* Demo workspaces (services/demo.py).  An analyst starts one and hands out *)
(* its code; the first stakeholder to join gets a scenario of ordinary     *)
(* records, which owner or administrator may replace as a whole.  Join and *)
(* reset load the workspace, decide, and then compare and swap on its row, *)
(* whose lock they hold while they replace the scenario.                   *)
(***************************************************************************)
EXTENDS Naturals, FiniteSets

CONSTANTS Visitors,    \* requests of stakeholders and owners
          Guests,      \* stakeholders
          MaxScenarios, MaxGeneration \* bounds: scenarios made, resets

ASSUME DemoAssumption == MaxScenarios \in Nat /\ MaxGeneration \in Nat \ {0}

Nobody == 0
ASSUME GuestsAssumption == Nobody \notin Guests

VARIABLES
    workspace, \* the row of one owner, or NoWorkspace
    visit,     \* [Visitors -> local state of a request]
    scenes,    \* scenarios there are: what each was made for, by number
    made       \* scenarios made so far

demoVars == <<workspace, visit, scenes, made>>

NoWorkspace == [generation |-> 0, guest |-> Nobody, code |-> FALSE, expired |-> FALSE]
Elsewhere == [op |-> "elsewhere"]

\* Faulty variant: the row is read and written back, and nobody waits for it.
LockedNever == FALSE

\* The row lock of an UPDATE is held until its transaction ends.
Locked == \E v \in Visitors : visit[v].op = "locked"

DemoInit ==
    /\ workspace = NoWorkspace
    /\ visit = [v \in Visitors |-> Elsewhere]
    /\ scenes = {} /\ made = 0

\* One workspace per owner: whoever inserts second fails.
StartDemo ==
    /\ workspace = NoWorkspace
    /\ workspace' = [generation |-> 1, guest |-> Nobody, code |-> TRUE, expired |-> FALSE]
    /\ UNCHANGED <<visit, scenes, made>>

CodeExpires ==
    /\ workspace # NoWorkspace /\ ~workspace.expired
    /\ workspace' = [workspace EXCEPT !.expired = TRUE]
    /\ UNCHANGED <<visit, scenes, made>>

\* The code is checked against what the request loaded.
BeginJoin(v, g) ==
    /\ visit[v] = Elsewhere
    /\ workspace.code /\ ~workspace.expired
    /\ visit' = [visit EXCEPT ![v] = [op |-> "join", guest |-> g]]
    /\ UNCHANGED <<workspace, scenes, made>>

\* A reset says which generation its page showed.
BeginReset(v) ==
    /\ visit[v] = Elsewhere /\ workspace # NoWorkspace
    /\ workspace.generation < MaxGeneration
    /\ visit' = [visit EXCEPT ![v] = [op |-> "reset", expected |-> workspace.generation]]
    /\ UNCHANGED <<workspace, scenes, made>>

Vacant == workspace.guest = Nobody /\ workspace.code

\* What a transaction wrote is seen by others once it commits.
SwapGuest(v) ==
    /\ visit[v].op = "join" /\ ~Locked
    /\ visit' = [visit EXCEPT ![v] =
         IF Vacant THEN [op |-> "locked", scenes |-> scenes, for |-> visit[v].guest,
                         row |-> [workspace EXCEPT !.guest = visit[v].guest, !.code = FALSE]]
         ELSE Elsewhere]
    /\ UNCHANGED <<workspace, scenes, made>>

SameGeneration(v) == workspace.generation = visit[v].expected

SwapGeneration(v) ==
    /\ visit[v].op = "reset" /\ ~Locked
    /\ visit' = [visit EXCEPT ![v] =
         IF SameGeneration(v)
         THEN [op |-> "locked", scenes |-> scenes, for |-> workspace.guest,
               row |-> [workspace EXCEPT !.generation = visit[v].expected + 1]]
         ELSE Elsewhere]
    /\ UNCHANGED <<workspace, scenes, made>>

\* _replace_scenario and the commit: the old records go, their objects leave
\* tombstones, and new ones are made for the guest; without a guest, nothing.
ReplaceScenario(v) ==
    /\ visit[v].op = "locked" /\ made < MaxScenarios
    /\ workspace' = [visit[v].row EXCEPT !.expired = workspace.expired]
    /\ IF visit[v].for = Nobody THEN UNCHANGED <<scenes, made>>
       ELSE /\ scenes' = (scenes \ visit[v].scenes) \cup {[number |-> made + 1, guest |-> visit[v].for]}
            /\ made' = made + 1
    /\ visit' = [visit EXCEPT ![v] = Elsewhere]

LeaveDemo(v) ==
    /\ visit[v] # Elsewhere
    /\ visit' = [visit EXCEPT ![v] = Elsewhere]
    /\ UNCHANGED <<workspace, scenes, made>>

\* The managed roots are deleted by no other request; the report can be, by its
\* author, together with its attachments.
DemoNext ==
    \/ StartDemo \/ CodeExpires
    \/ \E v \in Visitors :
         \/ \E g \in Guests : BeginJoin(v, g)
         \/ BeginReset(v) \/ SwapGuest(v) \/ SwapGeneration(v)
         \/ ReplaceScenario(v) \/ LeaveDemo(v)

DemoSpec == DemoInit /\ [][DemoNext]_demoVars

(***************************************************************************)
(* Properties                                                              *)
(***************************************************************************)
People == Guests \cup {Nobody}
WorkspaceRows == [generation : 0..MaxGeneration, guest : People, code : BOOLEAN,
                  expired : BOOLEAN]
Scenes == [number : 1..MaxScenarios, guest : Guests]

DemoTypeOK ==
    /\ workspace \in WorkspaceRows
    /\ visit \in [Visitors -> {Elsewhere} \cup [op : {"join"}, guest : Guests]
                    \cup [op : {"reset"}, expected : 0..MaxGeneration]
                    \cup [op : {"locked"}, scenes : SUBSET Scenes, for : People, row : WorkspaceRows]]
    /\ scenes \subseteq Scenes /\ made \in 0..MaxScenarios

\* The guest of a workspace has one scenario, the newest, made for them, and a
\* workspace without a guest has none - whoever joined or reset at once.
OneScenarioForItsGuest ==
    IF workspace.guest = Nobody THEN scenes = {}
    ELSE scenes = {[number |-> made, guest |-> workspace.guest]}

\* A guest is never replaced, and no reset takes the workspace back to a
\* generation it has left.
GuestStays ==
    [][/\ workspace.guest # Nobody => workspace'.guest = workspace.guest
       /\ workspace'.generation >= workspace.generation]_demoVars
=============================================================================
