----------------------------- MODULE Settings -----------------------------
(***************************************************************************)
(* The settings rows an administrator edits (services/singleton.py and the *)
(* *_settings services): each is created from the environment the first    *)
(* time anyone reads it, patched by forms, and read at the next use.  And  *)
(* the one thing built from them that outlives a request: each worker's    *)
(* registry of login clients (auth/routes.py), kept as long as the rows it *)
(* was built from carry the same updated_at.                               *)
(***************************************************************************)
EXTENDS Integers, FiniteSets

CONSTANTS Kinds,     \* settings rows; the registry is built from all of them
          Fields, Values,
          Default,   \* [Fields -> Values], what the environment says
          Callers,   \* requests that read a row within work of their own
          Admins,    \* requests that save a form
          Workers,   \* processes with a registry
          MaxSaves   \* bound: saves

ASSUME SettingsAssumption ==
    /\ Default \in [Fields -> Values]
    /\ IsFiniteSet(Kinds) /\ MaxSaves \in Nat

VARIABLES
    settings,  \* [Kinds -> [fields, updated_at], or Absent]
    caller,    \* [Callers -> where its transaction stands]
    form,      \* [Admins -> local state]
    registry,  \* [Workers -> the built clients and the version they carry]
    lookup,    \* [Workers -> what a login has read of the rows so far]
    stamp,     \* source of updated_at
    half,      \* history: callers that failed with part of their work committed
    submitted, \* history: per row, the forms that were ever saved
    overlaid   \* history: rows saved by requests that overlapped

settingsVars == <<settings, caller, form, registry, lookup, stamp, half, submitted, overlaid>>

Absent == [updated_at |-> -1]
Seed == [updated_at |-> 0, fields |-> Default]
Idle == [op |-> "idle"]
NotBuilt == [phase |-> "empty"]
\* What is not in `asked` or `read` has the initial value and no meaning.
NoLookup == [asked |-> {}, version |-> [k \in Kinds |-> 0],
              read |-> {}, config |-> [k \in Kinds |-> Default]]

SettingsInit ==
    /\ settings = [k \in Kinds |-> Absent]
    /\ caller = [c \in Callers |-> Idle]
    /\ form = [a \in Admins |-> Idle]
    /\ registry = [w \in Workers |-> NotBuilt]
    /\ lookup = [w \in Workers |-> NoLookup]
    /\ stamp = 0
    /\ half = {} /\ overlaid = {}
    /\ submitted = [k \in Kinds |-> {Default}]

Present(k) == settings[k] # Absent

\* INSERT .. ON CONFLICT DO NOTHING
Inserted(k) == IF Present(k) THEN settings ELSE [settings EXCEPT ![k] = Seed]

(***************************************************************************)
(* A request reads a row in the middle of its own transaction              *)
(***************************************************************************)
BeginWork(c) ==
    /\ caller[c] = Idle
    /\ caller' = [caller EXCEPT ![c] = [op |-> "work", saved |-> FALSE]]
    /\ UNCHANGED <<settings, form, registry, lookup, stamp, half, submitted, overlaid>>

\* get_or_create finds no row ...
MissRow(c, k) ==
    /\ caller[c].op = "work" /\ ~Present(k)
    /\ caller' = [caller EXCEPT ![c] = [op |-> "seed", k |-> k]]
    /\ UNCHANGED <<settings, form, registry, lookup, stamp, half, submitted, overlaid>>

\* ... and its commit takes the caller's pending work with it.
SeedRow(c) ==
    /\ caller[c].op = "seed"
    /\ settings' = Inserted(caller[c].k)
    /\ caller' = [caller EXCEPT ![c] = [op |-> "work", saved |-> TRUE]]
    /\ UNCHANGED <<form, registry, lookup, stamp, half, submitted, overlaid>>

EndWork(c, ok) ==
    /\ caller[c].op \in {"work", "seed"}
    /\ half' = IF ~ok /\ caller[c].op = "work" /\ caller[c].saved THEN half \cup {c} ELSE half
    /\ caller' = [caller EXCEPT ![c] = Idle]
    /\ UNCHANGED <<settings, form, registry, lookup, stamp, submitted, overlaid>>

(***************************************************************************)
(* Saving a form: load, assign every field, commit                         *)
(***************************************************************************)
LoadForm(a, k, fs) ==
    /\ form[a] = Idle
    /\ settings' = Inserted(k)
    /\ form' = [form EXCEPT ![a] =
                  [op |-> "save", k |-> k, new |-> fs, old |-> Inserted(k)[k].fields]]
    /\ UNCHANGED <<caller, registry, lookup, stamp, half, submitted, overlaid>>

\* Columns that were assigned what the request loaded are not written.
Edited(k, old, new) ==
    [f \in Fields |-> IF new[f] = old[f] THEN settings[k].fields[f] ELSE new[f]]

SaveForm(a) ==
    /\ form[a].op = "save" /\ stamp < MaxSaves
    /\ LET k == form[a].k IN
       /\ settings' = [settings EXCEPT ![k] =
                         [updated_at |-> stamp + 1,
                          fields |-> Edited(k, form[a].old, form[a].new)]]
       /\ overlaid' = IF settings[k].fields = form[a].old THEN overlaid
                      ELSE overlaid \cup {k}
       /\ submitted' = [submitted EXCEPT ![k] = @ \cup {form[a].new}]
    /\ stamp' = stamp + 1
    /\ form' = [form EXCEPT ![a] = Idle]
    /\ UNCHANGED <<caller, registry, lookup, half>>

DropForm(a) ==
    /\ form[a] # Idle
    /\ form' = [form EXCEPT ![a] = Idle]
    /\ UNCHANGED <<settings, caller, registry, lookup, stamp, half, submitted, overlaid>>

(***************************************************************************)
(* The registry of login clients                                           *)
(***************************************************************************)
Created(k) == IF Present(k) THEN settings[k] ELSE Seed

\* Faulty variant: the version leaves rows out (#277 had no proxy row in it).
VersionOfSome(k) == IF k = CHOOSE o \in Kinds : TRUE THEN Created(k).updated_at ELSE 0

VersionOf(k) == Created(k).updated_at

Version == [k \in Kinds |-> VersionOf(k)]
Config == [k \in Kinds |-> Created(k).fields]

\* A login reads the updated_at of one row after the other, each creating the
\* row if need be.  Nothing keeps the rows it read, so nothing else is kept.
AskVersion(w, k) ==
    /\ k \notin lookup[w].asked
    /\ settings' = Inserted(k)
    /\ lookup' = [lookup EXCEPT ![w].asked = @ \cup {k}, ![w].version[k] = VersionOf(k)]
    /\ UNCHANGED <<caller, form, registry, stamp, half, submitted, overlaid>>

Asked(w) == lookup[w].asked = Kinds
Fresh(w) == registry[w] # NotBuilt /\ registry[w].version = lookup[w].version

KeepRegistry(w) ==
    /\ Asked(w) /\ lookup[w].read = {} /\ Fresh(w)
    /\ lookup' = [lookup EXCEPT ![w] = NoLookup]
    /\ UNCHANGED <<settings, caller, form, registry, stamp, half, submitted, overlaid>>

\* _build_oauth reads the rows again, one after the other ...
ReadRow(w, k) ==
    /\ Asked(w) /\ k \notin lookup[w].read /\ ~Fresh(w)
    /\ settings' = Inserted(k)
    /\ lookup' = [lookup EXCEPT ![w].read = @ \cup {k}, ![w].config[k] = Created(k).fields]
    /\ UNCHANGED <<caller, form, registry, stamp, half, submitted, overlaid>>

\* ... and the clients are kept under the version that was asked for.
BuildRegistry(w) ==
    /\ lookup[w].read = Kinds
    /\ registry' = [registry EXCEPT ![w] =
                      [phase |-> "built", version |-> lookup[w].version,
                       config |-> lookup[w].config]]
    /\ lookup' = [lookup EXCEPT ![w] = NoLookup]
    /\ UNCHANGED <<settings, caller, form, stamp, half, submitted, overlaid>>

\* reset_oauth, after a save in this worker or for an unknown client.
ResetRegistry(w) ==
    /\ registry[w].phase = "built"
    /\ registry' = [registry EXCEPT ![w] = NotBuilt]
    /\ UNCHANGED <<settings, caller, form, lookup, stamp, half, submitted, overlaid>>

SettingsNext ==
    \/ \E c \in Callers :
         \/ BeginWork(c) \/ SeedRow(c)
         \/ \E k \in Kinds : MissRow(c, k)
         \/ \E ok \in BOOLEAN : EndWork(c, ok)
    \/ \E a \in Admins :
         \/ \E k \in Kinds, fs \in [Fields -> Values] : LoadForm(a, k, fs)
         \/ SaveForm(a) \/ DropForm(a)
    \/ \E w \in Workers :
         \/ \E k \in Kinds : AskVersion(w, k) \/ ReadRow(w, k)
         \/ KeepRegistry(w) \/ BuildRegistry(w) \/ ResetRegistry(w)

SettingsSpec == SettingsInit /\ [][SettingsNext]_settingsVars

(***************************************************************************)
(* Properties                                                              *)
(***************************************************************************)
FieldSets == [Fields -> Values]
SettingsRows == [fields : FieldSets, updated_at : 0..MaxSaves]
Versions == [Kinds -> 0..MaxSaves]

SettingsTypeOK ==
    /\ settings \in [Kinds -> SettingsRows \cup {Absent}]
    /\ caller \in [Callers -> {Idle} \cup [op : {"work"}, saved : BOOLEAN]
                                     \cup [op : {"seed"}, k : Kinds]]
    /\ form \in [Admins -> {Idle} \cup [op : {"save"}, k : Kinds, new : FieldSets,
                                        old : FieldSets]]
    /\ registry \in [Workers ->
          {NotBuilt} \cup [phase : {"built"}, version : Versions, config : [Kinds -> FieldSets]]]
    /\ lookup \in [Workers -> [asked : SUBSET Kinds, version : Versions,
                               read : SUBSET Kinds, config : [Kinds -> FieldSets]]]
    /\ stamp \in 0..MaxSaves
    /\ half \subseteq Callers /\ overlaid \subseteq Kinds
    /\ submitted \in [Kinds -> SUBSET FieldSets]

\* A registry that carries the version of the rows was built from these rows, in
\* every worker, though the rows are read twice and saved in between (#277).
RegistryIsCurrent ==
    \A w \in Workers :
        registry[w].phase = "built" /\ registry[w].version = Version => registry[w].config = Config

\* What an administrator saved stays: a row holds the environment's values or
\* one form as a whole, whoever creates the row at the same moment, unless two
\* forms for it overlapped.
RowIsOneForm ==
    \A k \in Kinds : Present(k) /\ k \notin overlaid =>
        /\ settings[k].fields \in submitted[k]
        /\ settings[k].updated_at = 0 => settings[k].fields = Default

\* The same without the exception.
RowIsAlwaysOneForm ==
    \A k \in Kinds : Present(k) => settings[k].fields \in submitted[k]

\* Reading a setting is no reason for a failed request to leave traces.
ReadingCommitsNothing == half = {}

\* Seeding a row never puts an administrator's value back.
SeedingOverwritesNothing ==
    [][\A k \in Kinds : Present(k) => settings'[k].updated_at >= settings[k].updated_at]_settingsVars
=============================================================================
