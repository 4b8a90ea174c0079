----------------------------- MODULE Taxonomy -----------------------------
(***************************************************************************)
(* The controlled vocabulary (services/tags.py, api/tags.py): terms with a *)
(* label and aliases, the links that classify reports and subscribe users, *)
(* renames, merges, retirement, and the starter terms every boot imports.  *)
(* One kind of tag is modelled; a slug is its label.                       *)
(*                                                                         *)
(* A curator's request loads tags, checks them, and writes by primary key  *)
(* in one commit, except undo_rename, which commits twice.  A merge also   *)
(* selects the links it will move before it commits.                       *)
(***************************************************************************)
EXTENDS Naturals, FiniteSets

CONSTANTS Tags,       \* tag rows that may be created
          Names,      \* labels and aliases
          AliasLists, \* alias lists an administrator may enter
          Starter,    \* labels of the starter taxonomy
          Owners,     \* reports and users that link to tags
          Curators,   \* requests in flight at once
          MaxEdits    \* bound: changes committed

ASSUME TaxonomyAssumption ==
    /\ Starter \subseteq Names /\ AliasLists \subseteq SUBSET Names
    /\ IsFiniteSet(Tags) /\ IsFiniteSet(Names)
    /\ MaxEdits \in Nat

VARIABLES
    tag,        \* [Tags -> row, or NoTag]
    links,      \* ReportTag and UserTagSubscription rows: subset of Owners \X Tags
    curator,    \* [Curators -> local state of the request]
    crossed,    \* history: tags a commit touched after what it had read of them changed
    renamed,    \* history: <<tag, name>> for each name a rename left behind
    edits       \* changes committed so far

taxVars == <<tag, links, curator, crossed, renamed, edits>>

NoTag == [row |-> FALSE]
None == "none"
AtRest == [op |-> "idle"]

Row(l, as) == [row |-> TRUE, label |-> l, aliases |-> as \ {l},
               active |-> TRUE, into |-> None]
Exists(t) == tag[t].row
Merged(t) == Exists(t) /\ tag[t].into # None
HasName(l) == \E t \in Tags : Exists(t) /\ tag[t].label = l

TaxInit ==
    /\ tag = [t \in Tags |-> NoTag]
    /\ links = {}
    /\ curator = [c \in Curators |-> AtRest]
    /\ crossed = {} /\ renamed = {}
    /\ edits = 0

Counted == edits < MaxEdits /\ edits' = edits + 1

(***************************************************************************)
(* Creation: by an administrator, or for each missing starter term at boot *)
(***************************************************************************)
Insert(t, l, as) ==
    /\ ~Exists(t) /\ ~HasName(l)
    /\ tag' = [tag EXCEPT ![t] = Row(l, as)]

CreateTag(t, l, as) ==
    /\ Insert(t, l, as) /\ Counted
    /\ UNCHANGED <<links, curator, crossed, renamed>>

SeedTag(t, l) ==
    /\ l \in Starter
    /\ Insert(t, l, {}) /\ Counted
    /\ UNCHANGED <<links, curator, crossed, renamed>>

\* iceberg.seed --update puts the bundled aliases back on a starter term.
ReseedTag(t) ==
    /\ Exists(t) /\ tag[t].label \in Starter /\ tag[t].aliases # {}
    /\ tag' = [tag EXCEPT ![t].aliases = {}]
    /\ Counted
    /\ UNCHANGED <<links, curator, crossed, renamed>>

(***************************************************************************)
(* Editing and retiring in one request                                     *)
(***************************************************************************)
\* A label clash is refused; aliases are not compared with other tags.
UpdateTag(t, l, as) ==
    /\ Exists(t)
    /\ l = tag[t].label \/ ~HasName(l)
    /\ tag' = [tag EXCEPT ![t].label = l, ![t].aliases = as \ {l}]
    /\ Counted
    /\ UNCHANGED <<links, curator, crossed, renamed>>

SetActive(t, on) ==
    /\ Exists(t) /\ tag[t].active # on
    /\ ~(on /\ Merged(t))
    /\ tag' = [tag EXCEPT ![t].active = on]
    /\ Counted
    /\ UNCHANGED <<links, curator, crossed, renamed>>

(***************************************************************************)
(* Renaming, with the old name kept as an alias, and its undoing           *)
(***************************************************************************)
\* rename_impact: the new name is no other tag's label or alias.
RenameAllowed(t, l) ==
    /\ Exists(t) /\ ~Merged(t)
    /\ \A o \in Tags \ {t} :
          Exists(o) => tag[o].label # l /\ l \notin tag[o].aliases

Renamed(t, l) ==
    [tag EXCEPT ![t].label = l, ![t].aliases = (@ \cup {tag[t].label}) \ {l}]

RenameTag(t, l) ==
    /\ RenameAllowed(t, l) /\ l # tag[t].label
    /\ tag' = Renamed(t, l)
    /\ renamed' = renamed \cup {<<t, tag[t].label>>}
    /\ Counted
    /\ UNCHANGED <<links, curator, crossed>>

\* First commit of undo_rename: the rename back.
UndoRename(c, t, l) ==
    /\ curator[c] = AtRest
    /\ RenameAllowed(t, l) /\ l \in tag[t].aliases
    /\ tag' = Renamed(t, l)
    /\ renamed' = {n \in renamed : n # <<t, l>>}
    /\ curator' = [curator EXCEPT ![c] = [op |-> "undo", t |-> t, drop |-> tag[t].label]]
    /\ Counted
    /\ UNCHANGED <<links, crossed>>

\* Second commit: the superseded name goes from the aliases.
DropAlias(c) ==
    /\ curator[c].op = "undo" /\ Exists(curator[c].t)
    /\ tag' = [tag EXCEPT ![curator[c].t].aliases = @ \ {curator[c].drop}]
    /\ curator' = [curator EXCEPT ![c] = AtRest]
    /\ UNCHANGED <<links, crossed, renamed, edits>>

(***************************************************************************)
(* Merging: checks on the loaded rows, the links selected, one commit      *)
(***************************************************************************)
\* Faulty variant: a retired target is accepted.
MergeableIntoAny(s, t) == s # t /\ Exists(s) /\ Exists(t) /\ ~Merged(s)
Mergeable(s, t) == MergeableIntoAny(s, t) /\ tag[t].active

\* owners: whose links the request moves; fresh: those the target had not.
MergeOf(s, t) ==
    [op |-> "merge", s |-> s, t |-> t, src |-> tag[s], dst |-> tag[t],
     selected |-> FALSE, owners |-> {}, fresh |-> {}]

BeginMerge(c, s, t) ==
    /\ curator[c] = AtRest
    /\ Mergeable(s, t)
    /\ curator' = [curator EXCEPT ![c] = MergeOf(s, t)]
    /\ UNCHANGED <<tag, links, crossed, renamed, edits>>

LinkedTo(t) == {o \in Owners : <<o, t>> \in links}

\* The SELECTs of _move_tag_links.
SelectLinks(c) ==
    /\ curator[c].op = "merge" /\ ~curator[c].selected
    /\ LET m == curator[c] IN
       curator' = [curator EXCEPT ![c] =
           [m EXCEPT !.selected = TRUE, !.owners = LinkedTo(m.s),
                     !.fresh = LinkedTo(m.s) \ LinkedTo(m.t)]]
    /\ UNCHANGED <<tag, links, crossed, renamed, edits>>

\* A column that is set to what the request loaded is not written.
Write(old, new, current) == IF new = old THEN current ELSE new

\* The selected rows are deleted, whether or not they are still there; an owner
\* the target has meanwhile is an IntegrityError, and the request is abandoned.
\* A link made since the SELECT stays on the source.
CommitMerge(c) ==
    /\ curator[c].op = "merge" /\ curator[c].selected
    /\ LET m == curator[c]
           names == (m.dst.aliases \cup {m.src.label} \cup m.src.aliases) \ {m.dst.label}
       IN
       /\ Exists(m.s) /\ Exists(m.t)
       /\ m.fresh \cap LinkedTo(m.t) = {}
       /\ links' = (links \ (m.owners \X {m.s})) \cup (m.fresh \X {m.t})
       /\ tag' = [tag EXCEPT ![m.s].active = Write(m.src.active, FALSE, @),
                             ![m.s].into = m.t,
                             ![m.t].aliases = Write(m.dst.aliases, names, @)]
       /\ crossed' = IF \/ tag[m.s].into # m.src.into \/ tag[m.s].active # m.src.active
                        \/ tag[m.t].active # m.dst.active
                     THEN crossed \cup {m.s, m.t} ELSE crossed
    /\ curator' = [curator EXCEPT ![c] = AtRest]
    /\ Counted
    /\ UNCHANGED renamed

(***************************************************************************)
(* Deleting: refused for either end of a lineage                           *)
(***************************************************************************)
InLineage(t) == Merged(t) \/ \E s \in Tags : Merged(s) /\ tag[s].into = t

BeginDelete(c, t) ==
    /\ curator[c] = AtRest
    /\ Exists(t) /\ ~InLineage(t)
    /\ curator' = [curator EXCEPT ![c] = [op |-> "delete", t |-> t]]
    /\ UNCHANGED <<tag, links, crossed, renamed, edits>>

\* merged_into_tag_id is ON DELETE SET NULL; the links cascade.
CommitDelete(c) ==
    /\ curator[c].op = "delete"
    /\ LET t == curator[c].t IN
       /\ Exists(t)
       /\ tag' = [o \in Tags |->
                    IF o = t THEN NoTag
                    ELSE IF Merged(o) /\ tag[o].into = t
                         THEN [tag[o] EXCEPT !.into = None] ELSE tag[o]]
       /\ links' = {k \in links : k[2] # t}
       /\ crossed' = crossed \ {t}
       /\ renamed' = {n \in renamed : n[1] # t}
    /\ curator' = [curator EXCEPT ![c] = AtRest]
    /\ Counted

(***************************************************************************)
(* Classifying a report, subscribing a user: _tags_by_id refuses a merged  *)
(* tag, then the owner's whole set of links is replaced.                   *)
(***************************************************************************)
BeginLink(c, o, ts) ==
    /\ curator[c] = AtRest
    /\ \A t \in ts : Exists(t) /\ ~Merged(t)
    /\ curator' = [curator EXCEPT ![c] = [op |-> "link", o |-> o, ts |-> ts]]
    /\ UNCHANGED <<tag, links, crossed, renamed, edits>>

CommitLink(c) ==
    /\ curator[c].op = "link"
    /\ LET k == curator[c] IN
       /\ \A t \in k.ts : Exists(t)           \* foreign key
       /\ links' = {j \in links : j[1] # k.o} \cup ({k.o} \X k.ts)
       /\ crossed' = crossed \cup {t \in k.ts : Merged(t)}
    /\ curator' = [curator EXCEPT ![c] = AtRest]
    /\ Counted
    /\ UNCHANGED <<tag, renamed>>

AbandonCuration(c) ==
    /\ curator[c] # AtRest
    /\ curator' = [curator EXCEPT ![c] = AtRest]
    /\ UNCHANGED <<tag, links, crossed, renamed, edits>>

TaxNext ==
    \/ \E t \in Tags, l \in Names :
         \/ SeedTag(t, l) \/ RenameTag(t, l)
         \/ \E as \in AliasLists : CreateTag(t, l, as) \/ UpdateTag(t, l, as)
         \/ \E c \in Curators : UndoRename(c, t, l)
    \/ \E t \in Tags : ReseedTag(t)
    \/ \E t \in Tags, on \in BOOLEAN : SetActive(t, on)
    \/ \E c \in Curators :
         \/ \E s, t \in Tags : BeginMerge(c, s, t)
         \/ \E t \in Tags : BeginDelete(c, t)
         \/ \E o \in Owners, ts \in SUBSET Tags : BeginLink(c, o, ts)
         \/ DropAlias(c) \/ SelectLinks(c) \/ CommitMerge(c) \/ CommitDelete(c) \/ CommitLink(c)
         \/ AbandonCuration(c)

TaxSpec == TaxInit /\ [][TaxNext]_taxVars

(***************************************************************************)
(* Properties                                                              *)
(***************************************************************************)
TagRows == [row : {TRUE}, label : Names, aliases : SUBSET Names,
            active : BOOLEAN, into : Tags \cup {None}] \cup {NoTag}

TaxTypeOK ==
    /\ tag \in [Tags -> TagRows]
    /\ links \subseteq Owners \X Tags
    /\ curator \in [Curators ->
          [op : {"idle"}] \cup [op : {"undo"}, t : Tags, drop : Names]
          \cup [op : {"merge"}, s : Tags, t : Tags, src : TagRows, dst : TagRows,
                selected : BOOLEAN, owners : SUBSET Owners, fresh : SUBSET Owners]
          \cup [op : {"delete"}, t : Tags]
          \cup [op : {"link"}, o : Owners, ts : SUBSET Tags]]
    /\ crossed \subseteq Tags
    /\ renamed \subseteq Tags \X Names
    /\ edits \in 0..MaxEdits

\* The lineage of merges has no cycle: the pointers of merged terms lead to a
\* term that is not merged (merge_tags refuses merged sources and inactive
\* targets), so no set of them is closed.  Only a merge that committed after its
\* terms had changed bends the lineage back: a term that is merged while another
\* request retires, reactivates or merges it.
LineageEndsInATerm ==
    \A ts \in SUBSET {t \in Tags : Merged(t) /\ t \notin crossed} :
        ts # {} => \E t \in ts : tag[t].into \notin ts /\ Exists(tag[t].into)

\* find_by_identifier: a label first, an alias otherwise.
Resolves(n, t) ==
    \/ Exists(t) /\ tag[t].label = n
    \/ ~HasName(n) /\ Exists(t) /\ n \in tag[t].aliases

\* "An old link keeps working after a rename: the previous name still lands on
\* the entity" (tags.py:584), as long as nobody edits the aliases.
OldNamesLandOnTheTerm ==
    \A n \in renamed : n[2] \in tag[n[1]].aliases => Resolves(n[2], n[1])
=============================================================================
