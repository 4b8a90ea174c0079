------------------------------- MODULE Taxii -------------------------------
(***************************************************************************)
(* The TAXII collection of published reports (services/taxii.py) and the   *)
(* STIX bundles it serves (services/stix.py): bundles cached under the     *)
(* time stamps of their report and tags, objects deduplicated by id,       *)
(* pages in the order of the date an object was added, and a consumer who  *)
(* comes back with the newest date it has seen.  The consumer may read     *)
(* every published report.                                                 *)
(*                                                                         *)
(* A stamp is read at the start of a request and stored by its commit.  No *)
(* two requests read the same one, as the code's are in microseconds.      *)
(***************************************************************************)
EXTENDS Integers, FiniteSets

CONSTANTS Exported,    \* reports
          Techniques,  \* tags exported as attack patterns or sectors
          Actors,      \* tags exported under ids of their report
          Level,       \* [Exported -> STIX marking the TLP is mapped to]
          Sessions,    \* requests in flight
          RankOf(_),   \* the order of object ids, which are strings
          PageSize,    \* the limit the consumer asks for
          MaxStamp     \* bound: stamps read

Terms == Techniques \cup Actors

\* An attack pattern or a sector is named by its tag alone.
TermId(r, t) == IF t \in Techniques THEN <<"tag", t>> ELSE <<"tag", t, r>>
NeedToKnow == "need-to-know"
AllIds == {<<"report", r>> : r \in Exported} \cup {TermId(r, t) : r \in Exported, t \in Terms}
          \cup {<<"marking", m>> : m \in {Level[r] : r \in Exported} \cup {NeedToKnow}}

ASSUME TaxiiAssumption ==
    /\ IsFiniteSet(Exported) /\ IsFiniteSet(Terms)
    /\ Techniques \cap Actors = {}
    /\ \A r \in Exported : Level[r] # NeedToKnow
    /\ \A id \in AllIds : RankOf(id) \in Nat
    /\ \A i, j \in AllIds : RankOf(i) = RankOf(j) => i = j
    /\ PageSize \in Nat \ {0} /\ MaxStamp \in Nat

VARIABLES
    report,     \* [Exported -> columns of the report and its links]
    term,       \* [Terms -> [stamp, text] of the tag]
    session,    \* [Sessions -> local state of a request]
    cache,      \* [Exported -> newest entry of _BUNDLE_CACHE, or Uncached]
    pull,       \* the consumer: date it comes back with, cursor of its pages
    held,       \* objects the consumer has
    now,        \* stamps read so far
    unstamped,  \* history: published reports changed since their last stamp
    behind      \* history: ids that came under a date the consumer had passed

taxiiVars == <<report, term, session, cache, pull, held, now, unstamped, behind>>

Uncached == [key |-> {}]
Resting == [op |-> "resting"]
NoCursor == <<0, <<>>>>

TaxiiInit ==
    /\ report \in [Exported -> [public : {FALSE}, at : {0}, updated : {0},
                                 terms : SUBSET Terms, scoped : {FALSE}]]
    /\ term = [t \in Terms |-> [stamp |-> 0, text |-> 0]]
    /\ session = [w \in Sessions |-> Resting]
    /\ cache = [r \in Exported |-> Uncached]
    /\ pull = [since |-> 0, cursor |-> NoCursor]
    /\ held = {}
    /\ now = 0
    /\ unstamped = {} /\ behind = {}

(***************************************************************************)
(* Bundles                                                                 *)
(***************************************************************************)
Newest(S) == CHOOSE m \in S : \A n \in S : n <= m

Modified(r) == Newest({report[r].updated} \cup {term[t].stamp : t \in report[r].terms})
DateAdded(r) == Newest({report[r].at} \cup {term[t].stamp : t \in report[r].terms})

\* Every object carries the markings of its report; of a tag it says what the
\* row says now.
Markings(r) == {Level[r]} \cup (IF report[r].scoped THEN {NeedToKnow} ELSE {})

Bundle(r) ==
    {[id |-> <<"report", r>>, says |-> {Modified(r)}, marks |-> Markings(r)]}
    \cup {[id |-> TermId(r, t), says |-> {term[t].stamp, -term[t].text}, marks |-> Markings(r)] :
             t \in report[r].terms}
    \cup {[id |-> <<"marking", m>>, says |-> {}, marks |-> {}] : m \in Markings(r)}

\* Faulty variant: the key leaves out the tags.
KeyOfReport(r) == {<<"updated", report[r].updated>>, <<"published", report[r].at>>}

Key(r) == {<<"updated", report[r].updated>>, <<"published", report[r].at>>}
          \cup {<<t, term[t].stamp>> : t \in report[r].terms}

\* _cached_bundle: what is cached under the key of the moment, or a new bundle.
Served(r) == IF cache[r].key = Key(r) THEN cache[r].bundle ELSE Bundle(r)

\* The ids of its objects.
Ids(r) == {<<"report", r>>} \cup {TermId(r, t) : t \in report[r].terms}
          \cup {<<"marking", m>> : m \in Markings(r)}

(***************************************************************************)
(* The collection                                                          *)
(***************************************************************************)
Public == {r \in Exported : report[r].public}

Records == UNION {{[date |-> DateAdded(r), from |-> report[r].at, obj |-> o] :
                      o \in Served(r)} : r \in Public}

\* The earliest record of an id is served; of two of one date, that of the
\* report published first.
Earlier(d, e) == d.date < e.date \/ (d.date = e.date /\ d.from < e.from)
Unique == LET all == Records IN
          {e \in all : \A d \in all : d.obj.id = e.obj.id => ~Earlier(d, e)}

\* Faulty variant: the cursor holds a date only.
AfterDate(d, id, cursor) == d > cursor[1]

After(d, id, cursor) ==
    \/ d > cursor[1]
    \/ d = cursor[1] /\ (cursor[2] = <<>> \/ RankOf(id) > RankOf(cursor[2]))

Wanted == {e \in Unique : e.date > pull.since /\ After(e.date, e.obj.id, pull.cursor)}

\* The first records by date, and by id within a date, as many as the limit.
Page(wanted) == {e \in wanted :
            Cardinality({d \in wanted : d.date < e.date
                           \/ (d.date = e.date /\ RankOf(d.obj.id) < RankOf(e.obj.id))}) < PageSize}

EndOf(S) == CHOOSE e \in S : \A d \in S :
              d.date < e.date \/ (d.date = e.date /\ RankOf(d.obj.id) <= RankOf(e.obj.id))

\* Every bundle served is cached; the consumer comes back with the last date of
\* the last page.
PullPage ==
  LET wanted == Wanted
      page == Page(wanted)
      end == EndOf(page) IN
    /\ page # {}
    /\ cache' = [r \in Exported |-> IF r \in Public
                                    THEN [key |-> Key(r), bundle |-> Served(r)] ELSE cache[r]]
    /\ held' = {o \in held : o.id \notin {e.obj.id : e \in page}} \cup {e.obj : e \in page}
    /\ pull' = IF page # wanted THEN [pull EXCEPT !.cursor = <<end.date, end.obj.id>>]
               ELSE [since |-> end.date, cursor |-> NoCursor]
    /\ UNCHANGED <<report, term, session, now, unstamped, behind>>

\* The least recently used entries go, and all of them with their process.
Evict(r) ==
    /\ cache[r] # Uncached
    /\ cache' = [cache EXCEPT ![r] = Uncached]
    /\ UNCHANGED <<report, term, session, pull, held, now, unstamped, behind>>

(***************************************************************************)
(* Publication and the changes after it                                    *)
(***************************************************************************)
ReadClock == now < MaxStamp /\ now' = now + 1

\* The date the consumer will come back with, as far as it has read.
Seen == Newest({pull.since, pull.cursor[1]})
LeftBehind(S) ==
    LET passed == {r \in S : report'[r].public /\ DateAdded(r)' <= Seen}
        ids == UNION {Ids(r)' : r \in passed} IN
    behind' = behind \cup (ids \ {o.id : o \in held})

\* publish stamps the report and commits after its snapshot has been made; the
\* commit fails when the report's version has changed since.
BeginPublish(w, r) ==
    /\ session[w] = Resting /\ ~report[r].public /\ ReadClock
    /\ session' = [session EXCEPT ![w] = [op |-> "publish", r |-> r, stamp |-> now']]
    /\ UNCHANGED <<report, term, cache, pull, held, unstamped, behind>>

Conflicted(rs, w) == [v \in Sessions |->
    IF v = w \/ (session[v].op = "publish" /\ session[v].r \in rs) THEN Resting ELSE session[v]]

CommitPublish(w) ==
    /\ session[w].op = "publish"
    /\ LET r == session[w].r IN
       /\ report' = [report EXCEPT ![r].public = TRUE, ![r].at = session[w].stamp,
                                     ![r].updated = session[w].stamp]
       /\ UNCHANGED term
       /\ unstamped' = unstamped \ {r}
       /\ LeftBehind({r})
       /\ session' = Conflicted({r}, w)
    /\ UNCHANGED <<cache, pull, held, now>>

BeginRename(w, t, undo) ==
    /\ session[w] = Resting /\ ReadClock
    /\ session' = [session EXCEPT ![w] = [op |-> "edit", t |-> t, stamp |-> now', undo |-> undo]]
    /\ UNCHANGED <<report, term, cache, pull, held, unstamped, behind>>

\* update_tag and rename_tag stamp the tag and, through _touch_tagged_reports,
\* the reports it is on.
Carrying(t) == {r \in Exported : t \in report[r].terms}

CommitRename(w) ==
    /\ session[w].op = "edit"
    /\ LET t == session[w].t
           s == session[w].stamp IN
       /\ term' = [term EXCEPT ![t] = [stamp |-> s, text |-> @.text + 1]]
       /\ report' = [r \in Exported |-> IF r \in Carrying(t)
                                         THEN [report[r] EXCEPT !.updated = s] ELSE report[r]]
       /\ unstamped' = unstamped \ Carrying(t)
       /\ LeftBehind(Carrying(t))
       /\ session' = IF session[w].undo
                     THEN [Conflicted(Carrying(t), w) EXCEPT ![w] = [op |-> "undo", t |-> t]]
                     ELSE Conflicted(Carrying(t), w)
    /\ UNCHANGED <<cache, pull, held, now>>

\* undo_rename removes the alias in a second commit, which stamps the tag alone.
FinishUndo(w) ==
    /\ session[w].op = "undo" /\ ReadClock
    /\ LET t == session[w].t IN
       /\ term' = [term EXCEPT ![t] = [stamp |-> now', text |-> @.text + 1]]
       /\ UNCHANGED report
       /\ unstamped' = unstamped \ Carrying(t)
       /\ LeftBehind(Carrying(t))
    /\ session' = [session EXCEPT ![w] = Resting]
    /\ UNCHANGED <<cache, pull, held>>

\* set_report_tags, open to the author after publication too.
Classify(r, ts) ==
    /\ ts # report[r].terms /\ ReadClock
    /\ report' = [report EXCEPT ![r].terms = ts, ![r].updated = now']
    /\ UNCHANGED term
    /\ unstamped' = unstamped \ {r}
    /\ LeftBehind({r})
    /\ session' = Conflicted({r}, CHOOSE w \in Sessions \cup {r} : w \notin Sessions)
    /\ UNCHANGED <<cache, pull, held>>

\* The ATT&CK import and the re-seeding of terms, which stamp nothing.
Refresh(t) ==
    /\ now < MaxStamp /\ now' = now + 1     \* bounds the refreshments too
    /\ term' = [term EXCEPT ![t].text = @ + 1]
    /\ unstamped' = unstamped \cup (Carrying(t) \cap Public)
    /\ UNCHANGED <<report, session, cache, pull, held, behind>>

\* set_report_audience replaces rows of another table only.
Rescope(r, on) ==
    /\ report[r].scoped # on
    /\ report' = [report EXCEPT ![r].scoped = on]
    /\ UNCHANGED term
    /\ unstamped' = unstamped \cup ({r} \cap Public)
    /\ LeftBehind({r})
    /\ UNCHANGED <<session, cache, pull, held, now>>

TaxiiNext ==
    \/ PullPage
    \/ \E r \in Exported :
         \/ Evict(r)
         \/ \E ts \in SUBSET Terms : Classify(r, ts)
         \/ \E on \in BOOLEAN : Rescope(r, on)
         \/ \E w \in Sessions : BeginPublish(w, r)
    \/ \E t \in Terms : Refresh(t)
    \/ \E w \in Sessions :
         \/ CommitPublish(w) \/ CommitRename(w) \/ FinishUndo(w)
         \/ \E t \in Terms, undo \in BOOLEAN : BeginRename(w, t, undo)

TaxiiSpec == TaxiiInit /\ [][TaxiiNext]_taxiiVars

(***************************************************************************)
(* Properties                                                              *)
(***************************************************************************)
TaxiiTypeOK ==
    /\ report \in [Exported -> [public : BOOLEAN, at : 0..MaxStamp, updated : 0..MaxStamp,
                                 terms : SUBSET Terms, scoped : BOOLEAN]]
    /\ term \in [Terms -> [stamp : 0..MaxStamp, text : 0..2 * MaxStamp]]
    /\ session \in [Sessions -> {Resting}
                     \cup [op : {"publish"}, r : Exported, stamp : 1..MaxStamp]
                     \cup [op : {"edit"}, t : Terms, stamp : 1..MaxStamp, undo : BOOLEAN]
                     \cup [op : {"undo"}, t : Terms]]
    /\ pull.since \in 0..MaxStamp
    /\ now \in 0..MaxStamp
    /\ unstamped \subseteq Exported /\ behind \subseteq AllIds

\* A bundle that is served is the one report_bundle would make now, unless the
\* report was changed, since it or a tag of it was last stamped, by something
\* that stamps neither: an ATT&CK refresh, a re-seeded term, a new audience
\* (taxii._cached_bundle).
StaleOnlyUnstamped ==
    \A r \in Public : Served(r) # Bundle(r) => r \in unstamped

\* A consumer who follows the pages to their end and comes back with the date
\* of the last object misses an object only if a report brought it when its date
\* had been passed already; or a marking for an audience that was limited without
\* a stamp (taxii._query_records).
Misses(o) == \A h \in held : h.id # o.id

MissedOnlyBehind ==
    pull.cursor = NoCursor =>
        \A r \in Public : DateAdded(r) <= pull.since =>
            \A o \in Bundle(r) :
                Misses(o) => o.id \in behind \cup {<<"marking", NeedToKnow>>}

\* "Every object a report derives is scoped to that report, so one id always
\* identifies one representation" (stix.py).
OneIdOneObject ==
    \A q, r \in Public : \A a \in Bundle(q), b \in Bundle(r) : a.id = b.id => a = b

\* "A bundle is fully determined by the report's mutation timestamps" (taxii.py).
ServedIsCurrent == \A r \in Public : Served(r) = Bundle(r)

\* Nothing published is missed by a consumer who follows the pages.
NothingIsMissed ==
    pull.cursor = NoCursor =>
        \A r \in Public : DateAdded(r) <= pull.since =>
            \A o \in Bundle(r) : ~Misses(o)
=============================================================================
