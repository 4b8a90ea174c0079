------------------------------ MODULE AIAssist ------------------------------
(***************************************************************************)
(* AI assistance (api/ai.py, services/ai.py, services/ai_settings.py).     *)
(* A request resolves the provider's settings, loads what it wants to send *)
(* and gates it on its TLP marking, and then calls the provider, which     *)
(* takes long enough for an analyst to mark the material up, or for an     *)
(* administrator to change provider or ceiling.  A suggestion changes      *)
(* nothing; an analyst who takes it stamps the fields it went into.        *)
(***************************************************************************)
EXTENDS Integers, FiniteSets

CONSTANTS Reports, Sources, \* the reports and sources of one notebook
          Ceilings,         \* TLP markings, 0 is CLEAR
          Approved,         \* operator's base URL for the free-form backends
          KeySet,           \* whether the environment holds an API key
          AIFields,         \* fields a suggestion can go into
          Tried,            \* the settings rows that forms and direct edits write
          Assistants,       \* requests
          MaxVersion        \* bound: versions of a report

NoUrl == ""
Urls == {NoUrl, "gateway", "elsewhere"}

\* Backends: one with a host in the code, one without.
Backends == {"none", "openai", "compatible"}
Malformed == -1
\* complete stands for the model, the region, the timeout and a known backend.
ProviderRows == [backend : Backends, url : Urls, ceiling : Ceilings \cup {Malformed},
         complete : BOOLEAN]

ASSUME AIAssumption ==
    /\ Reports \cap Sources = {}
    /\ Ceilings \subseteq Nat /\ 0 \in Ceilings /\ Approved \in Urls /\ KeySet \in BOOLEAN
    /\ Tried \subseteq ProviderRows
    /\ MaxVersion \in Nat

VARIABLES
    mark,     \* [Reports \cup Sources -> marking]
    provider, \* the AISettings row
    call,     \* [Assistants -> local state of a request]
    stamps,   \* [Reports \cup Sources -> the fields stamped in ai_provenance]
    version,  \* [Reports -> version_id]
    confirmed \* history: the fields whose stamp on a report was committed

aiVars == <<mark, provider, call, stamps, version, confirmed>>

Marked == Reports \cup Sources
Waiting == [op |-> "waiting"]
Crashed == [op |-> "crashed"]

AIInit ==
    /\ mark = [m \in Marked |-> 0]
    /\ provider = [backend |-> "none", url |-> NoUrl, ceiling |-> 0, complete |-> TRUE]
    /\ call = [c \in Assistants |-> Waiting]
    /\ stamps = [m \in Marked |-> {}] /\ confirmed = [r \in Reports |-> {}]
    /\ version = [r \in Reports |-> 0]

(***************************************************************************)
(* Resolving the settings                                                  *)
(***************************************************************************)
\* The base URL of a free-form backend must be the operator's.
UrlIsPinned(row) ==
    row.backend = "compatible" => Approved # NoUrl /\ row.url = Approved

\* A row with any problem resolves to no backend at all, however it was written.
ValidSelection(row) ==
    \/ row.backend = "none"
    \/ /\ row.complete /\ KeySet
       /\ row.ceiling \in Ceilings
       /\ UrlIsPinned(row)

Resolve(row) == IF ValidSelection(row) THEN row ELSE [row EXCEPT !.backend = "none"]

\* The host a call goes to, NoUrl when the backend refuses.
Host(cfg) ==
    IF cfg.backend = "openai" THEN "provider"
    ELSE IF Approved # NoUrl /\ cfg.url = Approved THEN Approved ELSE NoUrl

(***************************************************************************)
(* Markings and settings change                                            *)
(***************************************************************************)
\* Requests on their way are marked as overtaken (history).
Overtaken == [c \in Assistants |->
                IF call[c].op \in {"resolved", "loaded"} THEN [call[c] EXCEPT !.raced = TRUE]
                ELSE call[c]]

Mark(m, t) ==
    /\ t # mark[m]
    /\ IF m \in Reports
       THEN version[m] < MaxVersion /\ version' = [version EXCEPT ![m] = @ + 1]
       ELSE UNCHANGED version
    /\ mark' = [mark EXCEPT ![m] = t]
    /\ call' = Overtaken
    /\ UNCHANGED <<provider, stamps, confirmed>>

\* The form coerces what it does not know (AMBER stands for a bad ceiling).
Coerced(row) == [row EXCEPT !.ceiling = IF @ \in Ceilings THEN @ ELSE 0]

SaveProvider(row) ==
    /\ provider' = Coerced(row)
    /\ provider' # provider
    /\ call' = Overtaken
    /\ UNCHANGED <<mark, stamps, version, confirmed>>

\* The row is edited past the form.
EditProvider(row) ==
    /\ provider' = row /\ row # provider
    /\ call' = Overtaken
    /\ UNCHANGED <<mark, stamps, version, confirmed>>

(***************************************************************************)
(* A request                                                               *)
(***************************************************************************)
BeginAssist(c) ==
    /\ call[c] = Waiting
    /\ call' = [call EXCEPT ![c] = [op |-> "resolved", cfg |-> Resolve(provider),
                                    raced |-> FALSE]]
    /\ UNCHANGED <<mark, provider, stamps, version, confirmed>>

Cleared(m, cfg) == mark[m] <= cfg.ceiling

\* Faulty variant: everything in the notebook rides along (#97, #155).
SendableAny(S, cfg) == S

Sendable(S, cfg) == {m \in S : Cleared(m, cfg)}

\* The request has loaded its material: what it will send, or why it will not.
Loaded(c, payload) ==
    [op |-> "loaded", cfg |-> call[c].cfg, raced |-> call[c].raced, payload |-> payload]

Off(c) == call[c].cfg.backend = "none"
Refused(c, why) == [op |-> "refused", why |-> why, off |-> Off(c)]

\* Comparing a marking with a ceiling that is none raises.
CannotGate(S, c) == S # {} /\ call[c].cfg.ceiling = Malformed

\* judgements: a report with the sources of its notebook that may go, gated
\* before the backend is asked for; challenge and suggest-tags: the report alone.
LoadReport(c, r, sources) ==
    /\ call[c].op = "resolved"
    /\ call' = [call EXCEPT ![c] =
         IF CannotGate(sources, c) THEN Crashed
         ELSE IF Off(c) THEN Refused(c, "off")
         ELSE IF ~Cleared(r, call[c].cfg) THEN Refused(c, "ceiling")
         ELSE Loaded(c, {r} \cup Sendable(sources, call[c].cfg))]
    /\ UNCHANGED <<mark, provider, stamps, version, confirmed>>

\* summarise-source and extract-iocs.
LoadSource(c, s) ==
    /\ call[c].op = "resolved"
    /\ call' = [call EXCEPT ![c] =
         IF Off(c) THEN Refused(c, "off")
         ELSE IF ~Cleared(s, call[c].cfg) THEN Refused(c, "ceiling")
         ELSE Loaded(c, {s})]
    /\ UNCHANGED <<mark, provider, stamps, version, confirmed>>

\* diamond and ach: the notebook's reports, again gated first.
LoadNotebook(c) ==
    /\ call[c].op = "resolved"
    /\ call' = [call EXCEPT ![c] =
         IF CannotGate(Reports, c) THEN Crashed
         ELSE IF Sendable(Reports, call[c].cfg) = {} THEN Refused(c, "ceiling")
         ELSE IF Off(c) THEN Refused(c, "off")
         ELSE Loaded(c, Sendable(Reports, call[c].cfg))]
    /\ UNCHANGED <<mark, provider, stamps, version, confirmed>>

\* The provider is called; over is what the ceiling now in the row would hold
\* back (history).
Dispatch(c) ==
    /\ call[c].op = "loaded"
    /\ call' = [call EXCEPT ![c] =
         IF Host(@.cfg) = NoUrl THEN Waiting
         ELSE [op |-> "sent", host |-> Host(@.cfg), raced |-> @.raced, backend |-> @.cfg.backend,
               over |-> {m \in @.payload : ~Cleared(m, provider)}]]
    /\ UNCHANGED <<mark, provider, stamps, version, confirmed>>

\* Suggestion, failure and refusal are audited and answered, an error as such.
Answer(c) ==
    /\ call[c].op \in {"sent", "refused", "crashed"}
    /\ call' = [call EXCEPT ![c] = Waiting]
    /\ UNCHANGED <<mark, provider, stamps, version, confirmed>>

(***************************************************************************)
(* Accepting a suggestion                                                  *)
(***************************************************************************)
BeginAccept(c, m, fs) ==
    /\ call[c] = Waiting
    /\ call' = [call EXCEPT ![c] =
                  [op |-> "accept", m |-> m, stamps |-> stamps[m] \cup fs,
                   new |-> fs, version |-> IF m \in Reports THEN version[m] ELSE 0]]
    /\ UNCHANGED <<mark, provider, stamps, version, confirmed>>

\* Reports are versioned; sources are not.
FreshReport(c) == call[c].m \in Reports => version[call[c].m] = call[c].version

\* The whole JSON column is written with what was loaded.
CommitAccept(c) ==
    /\ call[c].op = "accept"
    /\ LET m == call[c].m IN
       IF FreshReport(c)
       THEN /\ stamps' = [stamps EXCEPT ![m] = call[c].stamps]
            /\ IF m \in Reports
               THEN /\ version[m] < MaxVersion
                    /\ version' = [version EXCEPT ![m] = @ + 1]
                    /\ confirmed' = [confirmed EXCEPT ![m] = @ \cup call[c].new]
               ELSE UNCHANGED <<version, confirmed>>
       ELSE UNCHANGED <<stamps, confirmed, version>>
    /\ call' = [call EXCEPT ![c] = Waiting]
    /\ UNCHANGED <<mark, provider>>

AINext ==
    \/ \E m \in Marked, t \in Ceilings : Mark(m, t)
    \/ \E row \in Tried : SaveProvider(row) \/ EditProvider(row)
    \/ \E c \in Assistants :
         \/ BeginAssist(c) \/ LoadNotebook(c) \/ Dispatch(c) \/ Answer(c)
         \/ \E r \in Reports, S \in {{}, Sources} : LoadReport(c, r, S)
         \/ \E s \in Sources : LoadSource(c, s)
         \/ \E m \in Marked, fs \in SUBSET AIFields \ {{}} : BeginAccept(c, m, fs)
         \/ CommitAccept(c)

AISpec == AIInit /\ [][AINext]_aiVars

(***************************************************************************)
(* Properties                                                              *)
(***************************************************************************)
AITypeOK ==
    /\ mark \in [Marked -> Ceilings]
    /\ provider \in ProviderRows
    /\ \A c \in Assistants :
          \/ call[c] \in {Waiting, Crashed}
          \/ call[c] \in [op : {"refused"}, why : {"off", "ceiling"}, off : BOOLEAN]
          \/ call[c] \in [op : {"resolved"}, cfg : ProviderRows, raced : BOOLEAN]
          \/ call[c] \in [op : {"loaded"}, cfg : ProviderRows, raced : BOOLEAN, payload : SUBSET Marked]
          \/ call[c] \in [op : {"sent"}, host : {"provider"} \cup Urls, raced : BOOLEAN,
                          backend : Backends, over : SUBSET Marked]
          \/ call[c] \in [op : {"accept"}, m : Marked, stamps : SUBSET AIFields,
                          new : SUBSET AIFields, version : 0..MaxVersion]
    /\ stamps \in [Marked -> SUBSET AIFields] /\ confirmed \in [Reports -> SUBSET AIFields]
    /\ version \in [Reports -> 0..MaxVersion]

\* Nothing above the ceiling leaves, no report with a report and no source with
\* a report, unless marking or settings changed while the request was under way;
\* and the API key goes to the provider's own host or the operator's, however
\* the row was written.
EgressIsCleared ==
    \A c \in Assistants : call[c].op = "sent" =>
        /\ call[c].over = {} \/ call[c].raced
        /\ call[c].host = IF call[c].backend = "openai" THEN "provider" ELSE Approved

\* A confirmation an analyst gave on a report is on the report.
ReportStampsStay == \A r \in Reports : confirmed[r] \subseteq stamps[r]

\* The ceiling is named as the reason only where it is the reason (#117).
OffIsCalledOff ==
    \A c \in Assistants : call[c].op = "refused" /\ call[c].why = "ceiling" => ~call[c].off

\* A row no form would have written switches AI off and breaks nothing (#275).
BadRowDisablesAI == \A c \in Assistants : call[c] # Crashed
=============================================================================
