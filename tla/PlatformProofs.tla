--------------------------- MODULE PlatformProofs ---------------------------
(***************************************************************************)
(* What the platform guarantees for any number of requests and workers:    *)
(* accounts and sessions, the gate and its audit trail, settings and the   *)
(* login clients made from them, the ceiling of the AI assistant, the demo *)
(* workspaces and the token buckets.                                       *)
(***************************************************************************)
EXTENDS Accounts, RateLimiter, RequestGate, Settings, AIAssist, DemoWorkspace, TLAPS

(***************************************************************************)
(* Accounts and sessions.  An account once there stays; a token of an      *)
(* account is of its present version or of an earlier one, and one that    *)
(* was ended of an earlier one, unless two logouts wrote the version at    *)
(* once.  No two accounts collide that were both committed while their     *)
(* checks held.                                                            *)
(***************************************************************************)
Writes ==
  [op : {"write"}, how : {"refresh", "adopt", "insert", "dev", "link"},
   new : BOOLEAN, u : Users, p : Providers \cup {None},
   s : Subjects \cup {None}, e : Emails \cup {None}]
Logouts == [op : {"logout"}, u : Users]
Bumps == [op : {"bump"}, u : Users, ver : 0..(MaxLogouts - 1)]

\* What the checks of a planned write leave true of it.
Planned(w) ==
  /\ w.how \in {"refresh", "adopt", "insert", "dev"} => w.e \in Emails
  /\ w.how \in {"refresh", "adopt", "insert"} => w.s \in Subjects /\ w.p \in Providers
  /\ w.how = "dev" => w.s = None /\ w.p = None
  /\ w.how = "link" => w.s \in Subjects /\ w.p = Entra
  /\ w.how = "insert" => w.new
  /\ w.how \in {"refresh", "adopt", "link"} => ~w.new
  /\ ~w.new => Known(w.u)

AccountInv ==
  /\ AccountTypeOK /\ IdentitiesCollideOnlyByRace
  /\ \A q \in Logins :
       /\ req[q].op = "write" => Planned(req[q])
       /\ req[q].op \in {"logout", "bump"} => Known(req[q].u)
  /\ \A k \in token :
       /\ Known(k.row)
       /\ k.row \notin overlapped => k.ver <= account[k.row].ver
  /\ \A k \in ended : k.row \notin overlapped => k.ver < account[k.row].ver
-----------------------------------------------------------------------------
LEMMA AccountRows ==
  ASSUME AccountTypeOK, NEW u \in Users
  PROVE  /\ Known(u) <=> account[u] \in Accounts
         /\ ~Known(u) <=> account[u] = NoAccount
         /\ Known(u) => /\ account[u].row = TRUE /\ account[u].ver \in 0..MaxLogouts
                        /\ account[u].provider \in Providers \cup {None}
                        /\ account[u].subject \in Subjects \cup {None}
                        /\ account[u].email \in Emails
<1>1. account[u] \in Accounts \cup {NoAccount}
  BY DEF AccountTypeOK
<1>2. CASE account[u] \in Accounts
  <2>1. account[u].row = TRUE
    BY <1>2 DEF Accounts
  <2>2. account[u] # NoAccount /\ Known(u)
    BY <2>1 DEF NoAccount, Known
  <2>3. /\ account[u].ver \in 0..MaxLogouts
        /\ account[u].provider \in Providers \cup {None}
        /\ account[u].subject \in Subjects \cup {None}
        /\ account[u].email \in Emails
    BY <1>2 DEF Accounts
  <2>. QED  BY <1>2, <2>1, <2>2, <2>3
<1>3. CASE account[u] = NoAccount
  <2>1. account[u].row = FALSE
    BY <1>3 DEF NoAccount
  <2>2. account[u] \notin Accounts
    BY <2>1 DEF Accounts
  <2>. QED  BY <1>3, <2>1, <2>2 DEF Known
<1>. QED  BY <1>1, <1>2, <1>3

LEMMA RequestStates ==
  ASSUME AccountTypeOK, NEW q \in Logins
  PROVE  /\ req[q].op = "write" => req[q] \in Writes
         /\ req[q].op = "logout" => req[q] \in Logouts
         /\ req[q].op = "bump" => req[q] \in Bumps
  BY DEF AccountTypeOK, Writes, Logouts, Bumps, Free

LEMMA AccountInitInv == AccountInit => AccountInv
<1> SUFFICES ASSUME AccountInit PROVE AccountInv
  OBVIOUS
<1>1. \A s \in Subjects, e \in Emails : Account(None, s, e) \in Accounts
  BY AccountsAssumption DEF Account, Accounts
<1>2. account \in [Users -> Accounts \cup {NoAccount}]
  BY <1>1 DEF AccountInit
<1>3. AccountTypeOK
  BY <1>2 DEF AccountInit, AccountTypeOK
<1>4. IdentitiesCollideOnlyByRace
  BY DEF AccountInit, IdentitiesCollideOnlyByRace
<1>. QED  BY <1>3, <1>4 DEF AccountInit, AccountInv, Free

\* A request takes up a new state; accounts and tokens stay.
LEMMA LoginMoves ==
  ASSUME AccountInv, NEW q \in Logins, NEW r \in {Free} \cup Writes \cup Logouts \cup Bumps,
         r.op = "write" => Planned(r),
         r.op \in {"logout", "bump"} => Known(r.u),
         req' = [req EXCEPT ![q] = r],
         UNCHANGED <<account, token, ended, raced, overlapped>>
  PROVE  AccountInv'
<1>1. req \in [Logins -> {Free} \cup Writes \cup Logouts \cup Bumps]
  BY DEF AccountInv, AccountTypeOK, Writes, Logouts, Bumps
<1>2. req' \in [Logins -> {Free} \cup Writes \cup Logouts \cup Bumps]
  BY <1>1
<1>3. \A p \in Logins : req'[p] = IF p = q THEN r ELSE req[p]
  BY <1>1
<1>4. AccountTypeOK'
  BY <1>2 DEF AccountInv, AccountTypeOK, Writes, Logouts, Bumps
<1>5. IdentitiesCollideOnlyByRace'
  BY DEF AccountInv, IdentitiesCollideOnlyByRace, Known, Bound
<1>6. \A p \in Logins : /\ req'[p].op = "write" => Planned(req'[p])
                        /\ req'[p].op \in {"logout", "bump"} => Known(req'[p].u)
  BY <1>3 DEF AccountInv
<1>7. \A p \in Logins : /\ (req[p].op = "write" => Planned(req[p]))'
                        /\ (req[p].op \in {"logout", "bump"} => Known(req[p].u))'
  BY <1>6 DEF Planned, Known
<1>8. /\ \A k \in token' : (Known(k.row) /\ (k.row \notin overlapped => k.ver <= account[k.row].ver))'
      /\ \A k \in ended' : (k.row \notin overlapped => k.ver < account[k.row].ver)'
  BY DEF AccountInv, Known
<1>. QED  BY <1>4, <1>5, <1>7, <1>8 DEF AccountInv

LEMMA PlanStep ==
  ASSUME AccountInv, NEW q \in Logins, NEW w \in Writes, Plan(q, w), Planned(w)
  PROVE  AccountInv'
<1>1. w.op = "write"
  BY DEF Writes
<1>. QED  BY <1>1, LoginMoves DEF Plan
\* A row is written that keeps version and subject counted: what stays true of
\* requests and tokens.
LEMMA RowsStayKnown ==
  ASSUME AccountInv, NEW u \in Users, NEW row \in Accounts,
         account' = [account EXCEPT ![u] = row],
         Known(u) => row.ver >= account[u].ver
  PROVE  /\ account' \in [Users -> Accounts \cup {NoAccount}]
         /\ \A v \in Users : account'[v] = IF v = u THEN row ELSE account[v]
         /\ Known(u)' /\ row.row = TRUE
         /\ \A v \in Users : Known(v) => Known(v)' /\ account'[v].ver >= account[v].ver
         /\ \A v \in Users : v # u => (Known(v)' <=> Known(v))
<1>1. AccountTypeOK /\ account \in [Users -> Accounts \cup {NoAccount}]
  BY DEF AccountInv, AccountTypeOK
<1>2. \A v \in Users : account'[v] = IF v = u THEN row ELSE account[v]
  BY <1>1
<1>3. account' \in [Users -> Accounts \cup {NoAccount}]
  BY <1>1
<1>4. row.row = TRUE
  BY DEF Accounts
<1>5. Known(u)'
  BY <1>2, <1>4 DEF Known
<1>6. \A v \in Users : v # u => (Known(v)' <=> Known(v))
  BY <1>2 DEF Known
<1>7. ASSUME NEW v \in Users, Known(v)
      PROVE  Known(v)' /\ account'[v].ver >= account[v].ver
  <2>1. account[v].ver \in 0..MaxLogouts
    BY <1>1, <1>7, AccountRows
  <2>. QED  BY <1>2, <1>5, <1>6, <1>7, <2>1, AccountsAssumption
<1>. QED  BY <1>2, <1>3, <1>4, <1>5, <1>6, <1>7

\* Which of the checks a write was planned on hold at its commit decides what
\* its row can share with another.
LEMMA CheckedRowIsAlone ==
  ASSUME AccountInv, NEW w \in Writes, Planned(w), Commits(w), Allowed(w),
         NEW v \in Users, v # w.u, Known(v)
  PROVE  LET row == RowAfter(w) IN
         /\ row.subject # None /\ row.subject = account[v].subject
              => Known(w.u) /\ account[w.u].subject = row.subject
         /\ row.email = account[v].email /\ row.provider = None /\ row.subject = None
              => Known(w.u) /\ account[w.u].email = row.email /\ ~Bound(w.u)
         /\ row.email = account[v].email /\ ~Bound(v)
              => Known(w.u) /\ account[w.u].email = row.email
<1> DEFINE row == RowAfter(w)
<1>w. /\ w.u \in Users /\ w.how \in {"refresh", "adopt", "insert", "dev", "link"}
      /\ w.new \in BOOLEAN
  BY DEF Writes
<1>k. Known(w.u) => /\ account[w.u] \in Accounts
                    /\ account[v] \in Accounts
  BY <1>w, AccountRows DEF AccountInv
<1>n. w.new <=> ~Known(w.u)
  BY DEF Commits, Planned
<1>1. CASE w.how = "refresh"
  <2>1. w.u \in Holders(w.p, w.s) /\ KeepsOrFrees(w.u, w.e)
    BY <1>1 DEF Allowed, MayRefresh
  <2>2. Known(w.u) /\ account[w.u].subject = w.s /\ w.s # None
    BY <1>1, <2>1, AccountsAssumption DEF Holders, Planned
  <2>3. ~w.new
    BY <1>n, <2>2
  <2>4. row = [account[w.u] EXCEPT !.email = w.e]
    BY <1>1, <2>3 DEF RowAfter
  <2>5. row.subject = w.s /\ row.email = w.e
    BY <1>k, <2>2, <2>4 DEF Accounts
  <2>6. account[v].email = w.e /\ ~Bound(v) => account[w.u].email = w.e
    BY <2>1 DEF KeepsOrFrees, EmailIsFree, Owners
  <2>. QED  BY <2>2, <2>5, <2>6
<1>2. CASE w.how = "adopt"
  <2>1. w.u \in Holders(None, w.s) /\ KeepsOrFrees(w.u, w.e)
    BY <1>2 DEF Allowed, MayAdopt
  <2>2. Known(w.u) /\ account[w.u].subject = w.s /\ w.s # None
    BY <1>2, <2>1, AccountsAssumption DEF Holders, Planned
  <2>3. ~w.new
    BY <1>n, <2>2
  <2>4. row = [account[w.u] EXCEPT !.email = w.e, !.provider = w.p]
    BY <1>2, <2>3 DEF RowAfter
  <2>5. row.subject = w.s /\ row.email = w.e
    BY <1>k, <2>2, <2>4 DEF Accounts
  <2>6. account[v].email = w.e /\ ~Bound(v) => account[w.u].email = w.e
    BY <2>1 DEF KeepsOrFrees, EmailIsFree, Owners
  <2>. QED  BY <2>2, <2>5, <2>6
<1>3. CASE w.how = "insert"
  <2>1. OfSubject(w.s) = {} /\ EmailIsFree(w.e, {}) /\ w.new
    BY <1>3 DEF Allowed, MayInsert, Planned
  <2>2. row.subject = w.s /\ row.email = w.e /\ w.s # None
    BY <1>3, <2>1, AccountsAssumption DEF RowAfter, Account, Planned
  <2>3. account[v].subject # w.s
    BY <2>1 DEF OfSubject
  <2>4. account[v].email = w.e => Bound(v)
    BY <2>1 DEF EmailIsFree, Owners
  <2>. QED  BY <2>2, <2>3, <2>4
<1>4. CASE w.how = "dev"
  <2>1. /\ \A o \in Owners(w.e) : ~Bound(o)
        /\ IF Owners(w.e) = {} THEN ~Known(w.u) ELSE w.u \in Owners(w.e)
    BY <1>4 DEF Allowed, MayDevLogin
  <2>2. CASE w.new
    <3>1. Owners(w.e) = {}
      BY <1>n, <2>1, <2>2 DEF Owners
    <3>2. row.subject = None /\ row.email = w.e
      BY <1>4, <2>2 DEF RowAfter, Account, Planned
    <3>3. account[v].email # w.e
      BY <3>1 DEF Owners
    <3>. QED  BY <3>2, <3>3
  <2>3. CASE ~w.new
    <3>1. row = account[w.u] /\ Known(w.u)
      BY <1>4, <1>n, <2>3, <1>w DEF RowAfter
    <3>. QED  BY <3>1 DEF Bound
  <2>. QED  BY <2>2, <2>3, <1>w
<1>5. CASE w.how = "link"
  <2>1. Known(w.u) /\ OfSubject(w.s) \subseteq {w.u} /\ w.s # None
    BY <1>5, AccountsAssumption DEF Allowed, MayLink, Planned
  <2>2. ~w.new
    BY <1>n, <2>1
  <2>3. row = [account[w.u] EXCEPT !.provider = w.p, !.subject = w.s]
    BY <1>5, <2>2 DEF RowAfter
  <2>4. row.subject = w.s /\ row.email = account[w.u].email
    BY <1>k, <2>1, <2>3 DEF Accounts
  <2>5. account[v].subject # w.s
    BY <2>1 DEF OfSubject
  <2>. QED  BY <2>1, <2>4, <2>5
<1>. QED  BY <1>w, <1>1, <1>2, <1>3, <1>4, <1>5
LEMMA RowAfterIsARow ==
  ASSUME AccountInv, NEW w \in Writes, Planned(w), Commits(w)
  PROVE  /\ RowAfter(w) \in Accounts
         /\ RowAfter(w).ver = IF w.new THEN 0 ELSE account[w.u].ver
         /\ w.new <=> ~Known(w.u)
<1>w. /\ w.u \in Users /\ w.how \in {"refresh", "adopt", "insert", "dev", "link"}
      /\ w.new \in BOOLEAN /\ w.p \in Providers \cup {None} /\ w.s \in Subjects \cup {None}
  BY DEF Writes
<1>n. w.new <=> ~Known(w.u)
  BY DEF Commits, Planned
<1>1. CASE w.new
  <2>1. w.e \in Emails
    BY <1>1, <1>w DEF Planned
  <2>. QED
    BY <1>1, <1>n, <1>w, <2>1, AccountsAssumption DEF RowAfter, Account, Accounts
<1>2. CASE ~w.new
  <2>1. account[w.u] \in Accounts
    BY <1>2, <1>n, <1>w, AccountRows DEF AccountInv
  <2>2. CASE w.how = "refresh"
    BY <1>2, <1>n, <2>1, <2>2 DEF RowAfter, Accounts, Planned
  <2>3. CASE w.how = "adopt"
    BY <1>2, <1>n, <1>w, <2>1, <2>3 DEF RowAfter, Accounts, Planned
  <2>4. CASE w.how = "dev"
    BY <1>2, <1>n, <2>1, <2>4 DEF RowAfter
  <2>5. CASE w.how = "link"
    BY <1>2, <1>n, <1>w, <2>1, <2>5 DEF RowAfter, Accounts
  <2>. QED  BY <1>2, <1>w, <2>2, <2>3, <2>4, <2>5, <1>n DEF Planned
<1>. QED  BY <1>w, <1>1, <1>2

\* What is true of requests, once an account was written.
LEMMA RequestsAfter ==
  ASSUME AccountInv, NEW q \in Logins, req' = [req EXCEPT ![q] = Free],
         \A v \in Users : Known(v) => Known(v)'
  PROVE  \A p \in Logins : /\ (req[p].op = "write" => Planned(req[p]))'
                           /\ (req[p].op \in {"logout", "bump"} => Known(req[p].u))'
<1> SUFFICES ASSUME NEW p \in Logins
             PROVE  /\ (req[p].op = "write" => Planned(req[p]))'
                    /\ (req[p].op \in {"logout", "bump"} => Known(req[p].u))'
  OBVIOUS
<1>t. AccountTypeOK
  BY DEF AccountInv
<1>1. req'[p] = Free \/ req'[p] = req[p]
  BY DEF AccountInv, AccountTypeOK
<1>2. CASE req'[p] = Free
  BY <1>2 DEF Free
<1>3. CASE req'[p] = req[p]
  <2>1. CASE req[p].op = "write"
    <3>1. Planned(req[p]) /\ req[p].u \in Users
      BY <1>t, <2>1, RequestStates DEF AccountInv, Writes
    <3>. QED  BY <1>3, <2>1, <3>1 DEF Planned
  <2>2. CASE req[p].op \in {"logout", "bump"}
    <3>1. Known(req[p].u) /\ req[p].u \in Users
      BY <1>t, <2>2, RequestStates DEF AccountInv, Logouts, Bumps
    <3>. QED  BY <1>3, <2>2, <3>1
  <2>. QED  BY <1>3, <2>1, <2>2
<1>. QED  BY <1>1, <1>2, <1>3

LEMMA CommitWriteStep ==
  ASSUME AccountInv, NEW q \in Logins, CommitWrite(q)
  PROVE  AccountInv'
<1>w. PICK w : w = req[q]
  OBVIOUS
<1>r. PICK row : row = RowAfter(w)
  OBVIOUS
<1>t. AccountTypeOK /\ token \subseteq Tokens /\ ended \subseteq token
      /\ raced \subseteq Users /\ overlapped \subseteq Users
  BY DEF AccountInv, AccountTypeOK
<1>1. w \in Writes /\ Planned(w) /\ Commits(w)
  BY <1>t, <1>w, RequestStates DEF CommitWrite, AccountInv
<1>2. /\ account' = [account EXCEPT ![w.u] = row]
      /\ raced' = IF Allowed(w) THEN raced ELSE raced \cup {w.u}
      /\ token' = IF w.how = "link" THEN token
                  ELSE token \cup {[row |-> w.u, ver |-> IF w.new THEN 0
                                                         ELSE account[w.u].ver]}
      /\ req' = [req EXCEPT ![q] = Free]
      /\ UNCHANGED <<ended, overlapped>>
  BY <1>w, <1>r DEF CommitWrite
<1>3. w.u \in Users
  BY <1>1 DEF Writes
<1>4. row \in Accounts /\ row.ver = (IF w.new THEN 0 ELSE account[w.u].ver)
      /\ (w.new <=> ~Known(w.u))
  BY <1>1, <1>r, RowAfterIsARow
<1>v. row.ver \in 0..MaxLogouts
  BY <1>4 DEF Accounts
<1>5. Known(w.u) => row.ver >= account[w.u].ver
  <2>1. Known(w.u) => account[w.u].ver \in 0..MaxLogouts
    BY <1>3, <1>t, AccountRows
  <2>. QED  BY <1>4, <2>1, AccountsAssumption
<1>6. /\ account' \in [Users -> Accounts \cup {NoAccount}]
      /\ \A v \in Users : account'[v] = IF v = w.u THEN row ELSE account[v]
      /\ Known(w.u)' /\ row.row = TRUE
      /\ \A v \in Users : Known(v) => Known(v)' /\ account'[v].ver >= account[v].ver
      /\ \A v \in Users : v # w.u => (Known(v)' <=> Known(v))
  BY <1>2, <1>3, <1>4, <1>5, RowsStayKnown
<1>7. AccountTypeOK'
  <2>1. [row |-> w.u, ver |-> row.ver] \in Tokens
    BY <1>3, <1>v DEF Tokens
  <2>2. token' \subseteq Tokens /\ ended' \subseteq token'
    BY <1>2, <1>4, <1>t, <2>1
  <2>3. raced' \subseteq Users /\ overlapped' \subseteq Users
    BY <1>2, <1>3, <1>t
  <2>4. req' \in [Logins -> {Free} \cup Writes \cup Logouts \cup Bumps]
    BY <1>2, <1>t DEF AccountTypeOK, Writes, Logouts, Bumps
  <2>. QED  BY <1>6, <2>2, <2>3, <2>4 DEF AccountTypeOK, Writes, Logouts, Bumps
<1>8. IdentitiesCollideOnlyByRace'
  <2> SUFFICES ASSUME NEW u \in Users, NEW v \in Users, u # v, Known(u)', Known(v)',
                      (\/ account[u].subject # None /\ account[u].subject = account[v].subject
                       \/ account[u].email = account[v].email /\ ~Bound(u))',
                      {u, v} \cap raced' = {}
               PROVE  FALSE
    BY DEF IdentitiesCollideOnlyByRace
  <2>0. raced \subseteq raced' /\ {u, v} \cap raced = {}
    BY <1>2
  <2>1. CASE u # w.u /\ v # w.u
    <3>1. account'[u] = account[u] /\ account'[v] = account[v] /\ Known(u) /\ Known(v)
      BY <1>6, <2>1
    <3>. QED  BY <2>0, <3>1 DEF AccountInv, IdentitiesCollideOnlyByRace, Bound
  <2>2. CASE u = w.u
    <3>1. account'[u] = row /\ account'[v] = account[v] /\ Known(v) /\ v # w.u
      BY <1>6, <2>2
    <3>2. Allowed(w)
      BY <1>2, <2>2
    <3>3. /\ row.subject # None /\ row.subject = account[v].subject
              => Known(w.u) /\ account[w.u].subject = row.subject
          /\ row.email = account[v].email /\ row.provider = None /\ row.subject = None
              => Known(w.u) /\ account[w.u].email = row.email /\ ~Bound(w.u)
      BY <1>1, <3>1, <3>2, <1>r, CheckedRowIsAlone
    <3>. QED  BY <2>0, <2>2, <3>1, <3>3 DEF AccountInv, IdentitiesCollideOnlyByRace, Bound
  <2>3. CASE v = w.u
    <3>1. account'[v] = row /\ account'[u] = account[u] /\ Known(u) /\ u # w.u
      BY <1>6, <2>3
    <3>2. Allowed(w)
      BY <1>2, <2>3
    <3>3. /\ row.subject # None /\ row.subject = account[u].subject
              => Known(w.u) /\ account[w.u].subject = row.subject
          /\ row.email = account[u].email /\ ~Bound(u)
              => Known(w.u) /\ account[w.u].email = row.email
      BY <1>1, <3>1, <3>2, <1>r, CheckedRowIsAlone
    <3>. QED  BY <2>0, <2>3, <3>1, <3>3 DEF AccountInv, IdentitiesCollideOnlyByRace, Bound
  <2>. QED  BY <2>1, <2>2, <2>3
<1>9. \A p \in Logins : /\ (req[p].op = "write" => Planned(req[p]))'
                        /\ (req[p].op \in {"logout", "bump"} => Known(req[p].u))'
  BY <1>2, <1>6, RequestsAfter
<1>10. ASSUME NEW k \in token'
       PROVE  (Known(k.row) /\ (k.row \notin overlapped => k.ver <= account[k.row].ver))'
  <2>1. CASE k \in token
    <3>1. /\ k.row \in Users /\ k.ver \in 0..MaxLogouts /\ Known(k.row)
          /\ k.row \notin overlapped => k.ver <= account[k.row].ver
      BY <1>t, <2>1 DEF AccountInv, Tokens
    <3>2. account[k.row].ver \in 0..MaxLogouts /\ account'[k.row].ver \in 0..MaxLogouts
      BY <1>6, <1>t, <1>v, <3>1, AccountRows
    <3>. QED  BY <1>2, <1>6, <3>1, <3>2, AccountsAssumption
  <2>2. CASE k \notin token
    <3>1. k = [row |-> w.u, ver |-> row.ver]
      BY <1>2, <1>4, <2>2
    <3>. QED  BY <1>3, <1>6, <1>v, <3>1, AccountsAssumption
  <2>. QED  BY <2>1, <2>2
<1>11. ASSUME NEW k \in ended'
       PROVE  (k.row \notin overlapped => k.ver < account[k.row].ver)'
  <2>1. /\ k \in token /\ k.row \in Users /\ k.ver \in 0..MaxLogouts /\ Known(k.row)
        /\ k.row \notin overlapped => k.ver < account[k.row].ver
    BY <1>2, <1>t DEF AccountInv, Tokens
  <2>2. account[k.row].ver \in 0..MaxLogouts /\ account'[k.row].ver \in 0..MaxLogouts
    BY <1>6, <1>t, <1>v, <2>1, AccountRows
  <2>. QED  BY <1>2, <1>6, <2>1, <2>2, AccountsAssumption
<1>. QED  BY <1>7, <1>8, <1>9, <1>10, <1>11 DEF AccountInv
LEMMA CommitLogoutStep ==
  ASSUME AccountInv, NEW q \in Logins, CommitLogout(q)
  PROVE  AccountInv'
<1>t. AccountTypeOK /\ token \subseteq Tokens /\ ended \subseteq token
      /\ raced \subseteq Users /\ overlapped \subseteq Users
  BY DEF AccountInv, AccountTypeOK
<1>1. PICK l \in Bumps : l = req[q]
  BY <1>t, RequestStates DEF CommitLogout
<1>2. l.u \in Users /\ l.ver \in 0..(MaxLogouts - 1) /\ Known(l.u)
  BY <1>1 DEF Bumps, AccountInv
<1>3. account[l.u] \in Accounts /\ account[l.u].ver \in 0..MaxLogouts
  BY <1>2, <1>t, AccountRows
<1>4. PICK row : row = [account[l.u] EXCEPT !.ver = l.ver + 1]
  OBVIOUS
<1>5. /\ row \in Accounts /\ row.ver = l.ver + 1
      /\ row.subject = account[l.u].subject /\ row.email = account[l.u].email
      /\ row.provider = account[l.u].provider /\ row.row = TRUE
  <2>1. l.ver + 1 \in 0..MaxLogouts
    BY <1>2, AccountsAssumption
  <2>. QED  BY <1>3, <1>4, <2>1 DEF Accounts
<1>6. /\ account' = [account EXCEPT ![l.u] = row]
      /\ ended' = ended \cup {k \in token : k.row = l.u /\ k.ver <= l.ver}
      /\ overlapped' = IF account[l.u].ver = l.ver THEN overlapped
                       ELSE overlapped \cup {l.u}
      /\ req' = [req EXCEPT ![q] = Free]
      /\ UNCHANGED <<token, raced>>
  BY <1>1, <1>4 DEF CommitLogout, NextVersion
<1>7. /\ account' \in [Users -> Accounts \cup {NoAccount}]
      /\ \A v \in Users : account'[v] = IF v = l.u THEN row ELSE account[v]
  BY <1>2, <1>5, <1>6, <1>t DEF AccountTypeOK
<1>8. \A v \in Users : (Known(v)' <=> Known(v)) /\ (Bound(v)' <=> Bound(v))
  BY <1>2, <1>5, <1>7 DEF Known, Bound
<1>9. AccountTypeOK'
  <2>1. ended' \subseteq token' /\ token' \subseteq Tokens
        /\ raced' \subseteq Users /\ overlapped' \subseteq Users
    BY <1>2, <1>6, <1>t
  <2>2. req' \in [Logins -> {Free} \cup Writes \cup Logouts \cup Bumps]
    BY <1>6, <1>t DEF AccountTypeOK, Writes, Logouts, Bumps
  <2>. QED  BY <1>7, <2>1, <2>2 DEF AccountTypeOK, Writes, Logouts, Bumps
<1>10. IdentitiesCollideOnlyByRace'
  <2>1. \A v \in Users : /\ account'[v].subject = account[v].subject
                         /\ account'[v].email = account[v].email
    BY <1>5, <1>7
  <2>. QED  BY <1>6, <1>8, <2>1 DEF AccountInv, IdentitiesCollideOnlyByRace
<1>11. \A p \in Logins : /\ (req[p].op = "write" => Planned(req[p]))'
                         /\ (req[p].op \in {"logout", "bump"} => Known(req[p].u))'
  BY <1>6, <1>8, RequestsAfter
\* what the version of a token's row now is
<1>12. ASSUME NEW k \in token, k.row \notin overlapped'
       PROVE  /\ k.row \in Users /\ k.ver \in 0..MaxLogouts /\ k.ver <= account[k.row].ver
              /\ k.row \notin overlapped
              /\ IF k.row = l.u
                 THEN account[k.row].ver = l.ver /\ account'[k.row].ver = l.ver + 1
                 ELSE account'[k.row].ver = account[k.row].ver
  BY <1>2, <1>5, <1>6, <1>7, <1>12, <1>t DEF AccountInv, Tokens
<1>13. ASSUME NEW k \in token'
       PROVE  (Known(k.row) /\ (k.row \notin overlapped => k.ver <= account[k.row].ver))'
  <2>1. k.row \in Users /\ Known(k.row) /\ k \in token
    BY <1>6, <1>t DEF AccountInv, Tokens
  <2>2. Known(k.row)'
    BY <1>8, <2>1
  <2>3. k.row \notin overlapped' => k.ver <= account'[k.row].ver
    BY <1>2, <1>12, <2>1, AccountsAssumption
  <2>. QED  BY <2>2, <2>3
<1>14. ASSUME NEW k \in ended'
       PROVE  (k.row \notin overlapped => k.ver < account[k.row].ver)'
  <2>1. k \in token
    BY <1>6, <1>t
  <2>2. CASE k.row = l.u /\ k.ver <= l.ver
    BY <1>2, <1>12, <2>1, <2>2, AccountsAssumption
  <2>3. CASE ~(k.row = l.u /\ k.ver <= l.ver)
    <3>1. k \in ended
      BY <1>6, <2>3
    <3>. QED  BY <1>2, <1>12, <2>1, <3>1, AccountsAssumption DEF AccountInv
  <2>. QED  BY <2>2, <2>3
<1>. QED  BY <1>9, <1>10, <1>11, <1>13, <1>14 DEF AccountInv

LEMMA AccountStep == AccountInv /\ [AccountNext]_accountVars => AccountInv'
<1> SUFFICES ASSUME AccountInv, [AccountNext]_accountVars PROVE AccountInv'
  OBVIOUS
<1>t. AccountTypeOK
  BY DEF AccountInv
<1>1. ASSUME NEW q \in Logins, NEW u \in Users, NEW e \in Emails, BeginDev(q, u, e)
      PROVE  AccountInv'
  <2> DEFINE w == [op |-> "write", how |-> "dev", new |-> ~Known(u), u |-> u,
                   p |-> None, s |-> None, e |-> e]
  <2>1. w \in Writes /\ Planned(w)
    BY DEF Writes, Planned
  <2>2. Plan(q, w)
    BY <1>1 DEF BeginDev
  <2>. QED  BY <2>1, <2>2, PlanStep
<1>2. ASSUME NEW q \in Logins, NEW u \in Users, NEW e \in Emails, NEW p \in Providers,
             NEW s \in Subjects, BeginOidc(q, u, p, s, e)
      PROVE  AccountInv'
  <2>1. PICK how \in {"refresh", "adopt", "insert"} :
          Plan(q, [op |-> "write", how |-> how, new |-> ~Known(u), u |-> u,
                   p |-> p, s |-> s, e |-> e])
    BY <1>2 DEF BeginOidc
  <2> DEFINE w == [op |-> "write", how |-> how, new |-> ~Known(u), u |-> u,
                   p |-> p, s |-> s, e |-> e]
  <2>2. w \in Writes
    BY DEF Writes
  <2>3. Allowed(w)
    BY <2>1 DEF Plan
  <2>4. how = "insert" => ~Known(u)
    BY <2>3 DEF Allowed, MayInsert
  <2>5. how # "insert" => Known(u)
    BY <2>3 DEF Allowed, MayRefresh, MayAdopt, Holders
  <2>6. Planned(w)
    BY <2>4, <2>5 DEF Planned
  <2>. QED  BY <2>1, <2>2, <2>6, PlanStep
<1>3. ASSUME NEW q \in Logins, NEW u \in Users, NEW s \in Subjects, BeginLink(q, u, s)
      PROVE  AccountInv'
  <2> DEFINE w == [op |-> "write", how |-> "link", new |-> FALSE, u |-> u,
                   p |-> Entra, s |-> s, e |-> None]
  <2>1. Plan(q, w) /\ Allowed(w)
    BY <1>3 DEF BeginLink, Plan
  <2>2. Known(u)
    BY <2>1 DEF Allowed, MayLink
  <2>3. w \in Writes /\ Planned(w)
    BY <2>2, AccountsAssumption DEF Writes, Planned
  <2>. QED  BY <2>1, <2>3, PlanStep
<1>4. ASSUME NEW q \in Logins, NEW k \in token, BeginLogout(q, k) PROVE AccountInv'
  <2> DEFINE r == [op |-> "logout", u |-> k.row]
  <2>1. k.row \in Users /\ Known(k.row)
    BY <1>t DEF AccountInv, AccountTypeOK, Tokens
  <2>2. r \in Logouts
    BY <2>1 DEF Logouts
  <2>. QED  BY <1>4, <2>1, <2>2, LoginMoves DEF BeginLogout
<1>5. ASSUME NEW q \in Logins, LoadVersion(q) PROVE AccountInv'
  <2> DEFINE r == [op |-> "bump", u |-> req[q].u, ver |-> account[req[q].u].ver]
  <2>1. req[q].u \in Users /\ Known(req[q].u)
    BY <1>5, <1>t, RequestStates DEF LoadVersion, AccountInv, Logouts
  <2>2. account[req[q].u].ver \in 0..MaxLogouts /\ account[req[q].u].ver < MaxLogouts
    BY <1>5, <1>t, <2>1, AccountRows DEF LoadVersion
  <2>3. account[req[q].u].ver \in 0..(MaxLogouts - 1)
    BY <2>2, AccountsAssumption
  <2>4. r \in Bumps
    BY <2>1, <2>3 DEF Bumps
  <2>. QED  BY <1>5, <2>1, <2>4, LoginMoves DEF LoadVersion
<1>6. ASSUME NEW q \in Logins, AbandonRequest(q) PROVE AccountInv'
  BY <1>6, LoginMoves DEF AbandonRequest, Free
<1>7. CASE UNCHANGED accountVars
  <2>1. AccountTypeOK'
    BY <1>7, <1>t DEF accountVars, AccountTypeOK
  <2>2. IdentitiesCollideOnlyByRace'
    BY <1>7 DEF accountVars, AccountInv, IdentitiesCollideOnlyByRace, Known, Bound
  <2>. QED  BY <1>7, <2>1, <2>2 DEF accountVars, AccountInv, Planned, Known
<1>. QED
  BY <1>1, <1>2, <1>3, <1>4, <1>5, <1>6, <1>7, CommitWriteStep, CommitLogoutStep
  DEF AccountNext
-----------------------------------------------------------------------------
\* Rows of the user table, requests and tokens are of the form services/users.py
\* and auth/tokens.py give them.
THEOREM AccountTypeCorrect == AccountSpec => []AccountTypeOK
<1>1. AccountInv => AccountTypeOK
  BY DEF AccountInv
<1>. QED  BY AccountInitInv, AccountStep, <1>1, PTL DEF AccountSpec

\* upsert_user and link_legacy_oidc_subject, for any number of accounts,
\* providers and requests: two accounts share a subject, or an address that one
\* holds unbound, only where one was committed after its checks had failed.
THEOREM CollisionsAreRaces == AccountSpec => []IdentitiesCollideOnlyByRace
<1>1. AccountInv => IdentitiesCollideOnlyByRace
  BY DEF AccountInv
<1>. QED  BY AccountInitInv, AccountStep, <1>1, PTL DEF AccountSpec

\* auth/routes.py logout, for any number of sessions: a token that a logout ended
\* is never accepted again, unless two logouts of the account overlapped.
THEOREM LogoutsLast == AccountSpec => []EndedSessionsStayEnded
<1>1. AccountInv => EndedSessionsStayEnded
  <2> SUFFICES ASSUME AccountInv, NEW k \in ended, Accepted(k), k.row \notin overlapped
               PROVE  FALSE
    BY DEF EndedSessionsStayEnded
  <2>1. k.row \in Users /\ k.ver \in 0..MaxLogouts /\ k.ver < account[k.row].ver
    BY DEF AccountInv, AccountTypeOK, Tokens
  <2>. QED  BY <2>1, AccountsAssumption DEF Accepted
<1>. QED  BY AccountInitInv, AccountStep, <1>1, PTL DEF AccountSpec

-----------------------------------------------------------------------------
(***************************************************************************)
(* The request gate.  Why a request was refused and with which status go   *)
(* together from the place of the refusal to the audit middleware, and a   *)
(* request past the origin check is not a cross-origin one, so the status  *)
(* and the headers tell the middleware which refusal it sees.              *)
(***************************************************************************)
Places == {"limit", "origin", "body", "login", "guard", "handler", "raised", "audit",
           "sent", "over"}
Statuses == {0, 200, 303, 401, 403, 409, 413, 429}
Reasons == {"none", "size", "limit", "csrf", "auth", "role", "login", "stopped"}
Requests ==
  [at : Places, status : Statuses, why : Reasons, user : SignedIn, kind : RequestKinds]

Blocked(h) == ~h.kind.safe /\ h.kind.creds = "cookie" /\ ~h.kind.same

\* The status that the refusal of a check inside the middleware has.
StatusFits(h) ==
  /\ h.why = "auth" => h.status = 401
  /\ h.why = "role" => h.status = 403
  /\ ~Blocked(h)

Underway(h) ==
  /\ h.at \in {"limit", "origin", "body", "login", "guard", "handler"} => h.why = "none"
  /\ h.at \in {"body", "login", "guard", "handler"} => ~Blocked(h)
  /\ h.at = "raised" => h.why \in {"auth", "role", "login"} /\ StatusFits(h)
  /\ h.at = "audit" =>
       \/ h.why = "csrf" /\ h.status = 403 /\ Blocked(h)
       \/ h.why \in {"auth", "role", "login"} /\ (h.status = 303 \/ StatusFits(h))

GateInv ==
  /\ GateTypeOK /\ DenialsAreRecorded
  /\ http \in [Calls -> {NoRequest} \cup Requests]
  /\ \A q \in Calls : http[q] # NoRequest => Underway(http[q])
-----------------------------------------------------------------------------
LEMMA GateInitInv == GateInit => GateInv
<1> SUFFICES ASSUME GateInit PROVE GateInv
  OBVIOUS
<1>1. GateTypeOK
  BY DEF GateInit, GateTypeOK
<1>2. DenialsAreRecorded
  BY DEF GateInit, DenialsAreRecorded, Denied
<1>. QED  BY <1>1, <1>2 DEF GateInit, GateInv

\* The next state is well formed if its parts are.
LEMMA GateTyped ==
  ASSUME session' \in [SignedIn -> BOOLEAN], role' \in [SignedIn -> Roles],
         http' \in [Calls -> {NoRequest} \cup Requests], trail' \subseteq Events,
         tasks' \subseteq trail', lost' \subseteq trail',
         siem' \in [Sinks -> SUBSET trail'], wavered' \subseteq Calls
  PROVE  GateTypeOK'
  BY DEF GateTypeOK, Requests, Places, Statuses, Reasons

\* A request at a place is one.
LEMMA PresentAt ==
  ASSUME GateInv, NEW q \in Calls, NEW place, At(q, place), place # "absent"
  PROVE  http[q] # NoRequest /\ http[q] \in Requests /\ Underway(http[q])
  BY DEF GateInv, At, NoRequest, Requests

\* One request moves; events may be added to the trail and to the tasks.
LEMMA RequestGoes ==
  ASSUME GateInv, NEW q \in Calls, NEW h \in Requests, Underway(h),
         http' = [http EXCEPT ![q] = h],
         UNCHANGED <<session, role, siem, wavered>>,
         trail \subseteq trail', trail' \subseteq Events,
         tasks' \subseteq trail', lost' \subseteq trail',
         h.at = "sent" /\ h.why \in {"csrf", "auth", "role"} /\ h.status # 303 =>
            \E e \in trail' :
               /\ e.of = q
               /\ e.action \in IF h.why = "csrf" THEN {"CSRF_BLOCKED"} ELSE {"AUTHZ_DENIED"}
  PROVE  GateInv'
<1>1. http' \in [Calls -> {NoRequest} \cup Requests]
  BY DEF GateInv
<1>2. \A p \in Calls : http'[p] = IF p = q THEN h ELSE http[p]
  BY DEF GateInv
<1>3. siem' \in [Sinks -> SUBSET trail']
  BY DEF GateInv, GateTypeOK
<1>4. GateTypeOK'
  BY <1>1, <1>3, GateTyped DEF GateInv, GateTypeOK
<1>5. DenialsAreRecorded'
  <2> SUFFICES ASSUME NEW p \in Calls, (Denied(p) /\ ~Redirected(p))'
               PROVE  Recorded(p, IF http[p].why = "csrf"
                                  THEN {"CSRF_BLOCKED"} ELSE {"AUTHZ_DENIED"})'
    BY DEF DenialsAreRecorded
  <2>1. CASE p = q
    BY <2>1, <1>2 DEF Denied, Redirected, Recorded, At
  <2>2. CASE p # q
    <3>1. http'[p] = http[p]
      BY <2>2, <1>2
    <3>2. Denied(p) /\ ~Redirected(p)
      BY <3>1 DEF Denied, Redirected, At
    <3>3. Recorded(p, IF http[p].why = "csrf"
                      THEN {"CSRF_BLOCKED"} ELSE {"AUTHZ_DENIED"})
      BY <3>2 DEF GateInv, DenialsAreRecorded
    <3>. QED  BY <3>1, <3>3 DEF Recorded
  <2>. QED  BY <2>1, <2>2
<1>6. \A p \in Calls : http'[p] # NoRequest => Underway(http'[p])
  BY <1>2 DEF GateInv
<1>. QED  BY <1>1, <1>4, <1>5, <1>6 DEF GateInv

LEMMA RecordedEvent ==
  ASSUME GateInv, NEW q \in Calls, http[q] \in Requests, NEW action \in Actions
  PROVE  Event(q, action) \in Events /\ Event(q, action).of = q
         /\ Event(q, action).action = action
  BY DEF Event, Actor, Events, Requests

\* Goes, Answers and StopProcess write a request.
LEMMA PlacesAreRequests ==
  ASSUME NEW h \in Requests, NEW place \in Places
  PROVE  /\ [h EXCEPT !.at = place] \in Requests
         /\ [h EXCEPT !.at = place].at = place
         /\ [h EXCEPT !.at = place].status = h.status
         /\ [h EXCEPT !.at = place].why = h.why
         /\ [h EXCEPT !.at = place].kind = h.kind
  BY DEF Requests

Answered(h, place, code, reason) ==
  [h EXCEPT !.at = place, !.status = code, !.why = reason]

LEMMA AnswersAreRequests ==
  ASSUME NEW h \in Requests, NEW place \in Places, NEW code \in Statuses,
         NEW reason \in Reasons
  PROVE  /\ Answered(h, place, code, reason) \in Requests
         /\ Answered(h, place, code, reason).at = place
         /\ Answered(h, place, code, reason).status = code
         /\ Answered(h, place, code, reason).why = reason
         /\ Answered(h, place, code, reason).kind = h.kind
  BY DEF Requests, Answered

LEMMA StoppedAreRequests ==
  ASSUME NEW h \in Requests, NEW place \in Places, NEW reason \in Reasons
  PROVE  /\ [h EXCEPT !.why = reason, !.at = place] \in Requests
         /\ [h EXCEPT !.why = reason, !.at = place].at = place
  BY DEF Requests

LEMMA Vocabulary ==
  /\ "limit" \in Places /\ "origin" \in Places /\ "body" \in Places /\ "login" \in Places
  /\ "guard" \in Places /\ "handler" \in Places /\ "raised" \in Places
  /\ "audit" \in Places /\ "sent" \in Places /\ "over" \in Places
  /\ 0 \in Statuses /\ 200 \in Statuses /\ 303 \in Statuses /\ 401 \in Statuses
  /\ 403 \in Statuses /\ 409 \in Statuses /\ 413 \in Statuses /\ 429 \in Statuses
  /\ "none" \in Reasons /\ "size" \in Reasons /\ "limit" \in Reasons
  /\ "csrf" \in Reasons /\ "auth" \in Reasons /\ "role" \in Reasons
  /\ "login" \in Reasons /\ "stopped" \in Reasons
  BY DEF Places, Statuses, Reasons

\* What a step of a request leaves.
Becomes(q, h, place) ==
  /\ h \in Requests /\ h.at = place /\ h.kind = http[q].kind
  /\ http' = [http EXCEPT ![q] = h]

LEMMA GoesOn ==
  ASSUME NEW q \in Calls, http[q] \in Requests, NEW place \in Places, Goes(q, place)
  PROVE  \E h : /\ Becomes(q, h, place)
                /\ h.status = http[q].status /\ h.why = http[q].why
<1>1. http' = [http EXCEPT ![q] = [http[q] EXCEPT !.at = place]]
  BY DEF Goes
<1>. QED  BY <1>1, PlacesAreRequests DEF Becomes

LEMMA IsAnswered ==
  ASSUME NEW q \in Calls, http[q] \in Requests, NEW place \in Places,
         NEW code \in Statuses, NEW reason \in Reasons, Answers(q, place, code, reason)
  PROVE  \E h : /\ Becomes(q, h, place)
                /\ h.status = code /\ h.why = reason
<1> DEFINE h == Answered(http[q], place, code, reason)
<1>1. http' = [http EXCEPT ![q] = h]
  BY DEF Answers, Answered
<1>2. /\ h \in Requests /\ h.at = place /\ h.kind = http[q].kind
      /\ h.status = code /\ h.why = reason
  BY AnswersAreRequests
<1>3. Becomes(q, h, place)
  BY <1>1, <1>2 DEF Becomes
<1>. QED  BY <1>2, <1>3

LEMMA GateStep == GateInv /\ [GateNext]_gateVars => GateInv'
<1> SUFFICES ASSUME GateInv, [GateNext]_gateVars PROVE GateInv'
  OBVIOUS
<1>. /\ trail \subseteq Events /\ tasks \subseteq trail /\ lost \subseteq trail
     /\ http \in [Calls -> {NoRequest} \cup Requests]
  BY DEF GateInv, GateTypeOK
\* a quiet move of a request to a place it had not yet left
<1>q. ASSUME NEW q \in Calls, NEW h \in Requests, Underway(h), h.at # "sent",
             http' = [http EXCEPT ![q] = h], UNCHANGED <<trail, tasks>>, Unchecked
      PROVE  GateInv'
  BY <1>q, RequestGoes DEF Unchecked
<1>1. CASE StopProcess
  <2>1. \A q \in Calls :
          http'[q] = IF http[q] = NoRequest THEN NoRequest
                     ELSE [http[q] EXCEPT !.why = IF At(q, "over") THEN http[q].why
                                                  ELSE "stopped",
                                          !.at = "over"]
    BY <1>1 DEF StopProcess
  <2>2. ASSUME NEW q \in Calls
        PROVE  \/ http'[q] = NoRequest
               \/ http'[q] \in Requests /\ http'[q].at = "over"
    <3>1. CASE http[q] = NoRequest
      BY <2>1, <3>1
    <3>2. CASE http[q] # NoRequest
      <4>1. http[q] \in Requests
        BY <3>2
      <4>2. http[q].why \in Reasons
        BY <4>1 DEF Requests
      <4> DEFINE why == IF At(q, "over") THEN http[q].why ELSE "stopped"
      <4>3. why \in Reasons
        BY <4>2, Vocabulary
      <4> HIDE DEF why
      <4>4. /\ [http[q] EXCEPT !.why = why, !.at = "over"] \in Requests
            /\ [http[q] EXCEPT !.why = why, !.at = "over"].at = "over"
        BY <4>1, <4>3, StoppedAreRequests, Vocabulary
      <4>. QED  BY <2>1, <3>2, <4>4 DEF why
    <3>. QED  BY <3>1, <3>2
  <2>3. http' \in [Calls -> {NoRequest} \cup Requests]
    BY <1>1, <2>2 DEF StopProcess
  <2>4. GateTypeOK'
    BY <1>1, <2>3, GateTyped DEF StopProcess, GateInv, GateTypeOK
  <2>5. DenialsAreRecorded'
    BY <2>2 DEF DenialsAreRecorded, Denied, At
  <2>6. \A q \in Calls : http'[q] # NoRequest => Underway(http'[q])
    BY <2>2 DEF Underway
  <2>. QED  BY <2>3, <2>4, <2>5, <2>6 DEF GateInv
<1>2. ASSUME NEW u \in SignedIn, EndSession(u) \/ \E r \in Roles : ChangeRole(u, r)
      PROVE  GateInv'
  <2>1. /\ session' \in [SignedIn -> BOOLEAN] /\ role' \in [SignedIn -> Roles]
        /\ wavered' \subseteq Calls
    <3>1. Unfinished(u) \subseteq Calls
      BY DEF Unfinished
    <3>2. CASE EndSession(u)
      BY <3>1, <3>2 DEF GateInv, GateTypeOK, EndSession
    <3>3. CASE \E r \in Roles : ChangeRole(u, r)
      BY <3>1, <3>3 DEF GateInv, GateTypeOK, ChangeRole
    <3>. QED  BY <1>2, <3>2, <3>3
  <2>2. UNCHANGED <<http, trail, tasks, siem, lost>>
    BY <1>2 DEF EndSession, ChangeRole
  <2>3. GateTypeOK'
    BY <2>1, <2>2 DEF GateInv, GateTypeOK
  <2>4. DenialsAreRecorded'
    BY <2>2 DEF GateInv, DenialsAreRecorded, Denied, Redirected, Recorded, At
  <2>. QED  BY <2>2, <2>3, <2>4 DEF GateInv
<1>3. ASSUME NEW q \in Calls, NEW u \in SignedIn, NEW k \in RequestKinds, Arrive(q, u, k)
      PROVE  GateInv'
  <2> DEFINE h == [at |-> IF k.body = "declared" THEN "over" ELSE "limit",
                   status |-> IF k.body = "declared" THEN 413 ELSE 0,
                   why |-> IF k.body = "declared" THEN "size" ELSE "none",
                   user |-> u, kind |-> k]
  <2>1. h \in Requests /\ Underway(h) /\ h.at # "sent"
    BY Vocabulary DEF Requests, Underway
  <2>. QED  BY <2>1, <1>3, <1>q DEF Arrive, Unchecked
<1>4. ASSUME NEW q \in Calls, Admit(q) PROVE GateInv'
  <2>1. http[q] \in Requests /\ Underway(http[q]) /\ http[q].at = "limit"
    BY <1>4, PresentAt DEF Admit, At
  <2>2. PICK h : /\ Becomes(q, h, "origin")
                /\ h.status = http[q].status /\ h.why = http[q].why
    BY <1>4, <2>1, GoesOn, Vocabulary DEF Admit
  <2>3. Underway(h)
    BY <2>1, <2>2 DEF Becomes, Underway, Blocked, StatusFits, CrossOrigin
  <2>. QED  BY <2>2, <2>3, <1>4, <1>q DEF Admit, Becomes
<1>5. ASSUME NEW q \in Calls, Throttle(q) PROVE GateInv'
  <2>1. http[q] \in Requests
    BY <1>5, PresentAt DEF Throttle
  <2>2. PICK h : /\ Becomes(q, h, "sent")
                 /\ h.status = 429 /\ h.why = "limit"
    BY <1>5, <2>1, IsAnswered, Vocabulary DEF Throttle
  <2>3. Underway(h)
    BY <2>1, <2>2 DEF Becomes, Underway, Blocked, StatusFits
  <2>4. Event(q, "RATE_LIMITED") \in Events
    BY <2>1, RecordedEvent DEF Actions
  <2>5. /\ trail \subseteq trail' /\ trail' \subseteq Events
        /\ tasks' \subseteq trail' /\ lost' \subseteq trail'
        /\ UNCHANGED <<session, role, siem, wavered>>
    BY <1>5, <2>4 DEF Throttle, Records, Unchecked
  <2>. QED  BY <2>2, <2>3, <2>5, RequestGoes DEF Becomes
<1>6. ASSUME NEW q \in Calls, CheckOrigin(q) PROVE GateInv'
  <2>1. http[q] \in Requests /\ Underway(http[q]) /\ http[q].at = "origin"
    BY <1>6, PresentAt DEF CheckOrigin, At
  <2>2. CASE CrossOrigin(q)
    <3>1. PICK h : /\ Becomes(q, h, "audit")
                  /\ h.status = 403 /\ h.why = "csrf"
      BY <2>2, <1>6, <2>1, IsAnswered, Vocabulary DEF CheckOrigin
    <3>2. Underway(h)
      BY <2>2, <2>1, <3>1 DEF Becomes, Underway, Blocked, StatusFits, CrossOrigin
    <3>. QED  BY <3>1, <3>2, <1>6, <1>q DEF CheckOrigin, Becomes
  <2>3. CASE ~CrossOrigin(q)
    <3>1. PICK h : /\ Becomes(q, h, "body")
                  /\ h.status = http[q].status /\ h.why = http[q].why
      BY <2>3, <1>6, <2>1, GoesOn, Vocabulary DEF CheckOrigin
    <3>2. Underway(h)
      BY <2>3, <2>1, <3>1 DEF Becomes, Underway, Blocked, StatusFits, CrossOrigin
    <3>. QED  BY <3>1, <3>2, <1>6, <1>q DEF CheckOrigin, Becomes
  <2>. QED  BY <2>2, <2>3
<1>7. ASSUME NEW q \in Calls, ReadBody(q) PROVE GateInv'
  <2>1. http[q] \in Requests /\ Underway(http[q]) /\ http[q].at = "body"
    BY <1>7, PresentAt DEF ReadBody, At
  <2>2. CASE http[q].kind.body = "chunked"
    <3>1. PICK h : /\ Becomes(q, h, "over")
                  /\ h.status = 413 /\ h.why = "size"
      BY <2>2, <1>7, <2>1, IsAnswered, Vocabulary DEF ReadBody
    <3>2. Underway(h)
      BY <2>2, <2>1, <3>1 DEF Becomes, Underway, Blocked, StatusFits, CrossOrigin
    <3>. QED  BY <3>1, <3>2, <1>7, <1>q DEF ReadBody, Becomes
  <2>3. CASE http[q].kind.body # "chunked"
    <3>1. PICK h : /\ Becomes(q, h, "login")
                  /\ h.status = http[q].status /\ h.why = http[q].why
      BY <2>3, <1>7, <2>1, GoesOn, Vocabulary DEF ReadBody
    <3>2. Underway(h)
      BY <2>3, <2>1, <3>1 DEF Becomes, Underway, Blocked, StatusFits, CrossOrigin
    <3>. QED  BY <3>1, <3>2, <1>7, <1>q DEF ReadBody, Becomes
  <2>. QED  BY <2>2, <2>3
<1>8. ASSUME NEW q \in Calls, Authenticate(q) PROVE GateInv'
  <2>1. http[q] \in Requests /\ Underway(http[q]) /\ http[q].at = "login"
    BY <1>8, PresentAt DEF Authenticate, At
  <2>2. CASE Guarded(q) /\ Actor(q) = "anonymous"
    <3>1. PICK h : /\ Becomes(q, h, "raised")
                  /\ h.status = 401 /\ h.why = "auth"
      BY <2>2, <1>8, <2>1, IsAnswered, Vocabulary DEF Authenticate
    <3>2. Underway(h)
      BY <2>2, <2>1, <3>1 DEF Becomes, Underway, Blocked, StatusFits, CrossOrigin
    <3>. QED  BY <3>1, <3>2, <1>8, <1>q DEF Authenticate, Becomes
  <2>3. CASE ~(Guarded(q) /\ Actor(q) = "anonymous")
    <3>1. PICK h : /\ Becomes(q, h, "guard")
                  /\ h.status = http[q].status /\ h.why = http[q].why
      BY <2>3, <1>8, <2>1, GoesOn, Vocabulary DEF Authenticate
    <3>2. Underway(h)
      BY <2>3, <2>1, <3>1 DEF Becomes, Underway, Blocked, StatusFits, CrossOrigin
    <3>. QED  BY <3>1, <3>2, <1>8, <1>q DEF Authenticate, Becomes
  <2>. QED  BY <2>2, <2>3
<1>9. ASSUME NEW q \in Calls, CheckRole(q) PROVE GateInv'
  <2>1. http[q] \in Requests /\ Underway(http[q]) /\ http[q].at = "guard"
    BY <1>9, PresentAt DEF CheckRole, At
  <2>2. CASE Guarded(q) /\ ~Qualifies(q)
    <3>1. PICK h : /\ Becomes(q, h, "raised")
                  /\ h.status = 403 /\ h.why = "role"
      BY <2>2, <1>9, <2>1, IsAnswered, Vocabulary DEF CheckRole
    <3>2. Underway(h)
      BY <2>2, <2>1, <3>1 DEF Becomes, Underway, Blocked, StatusFits, CrossOrigin
    <3>. QED  BY <3>1, <3>2, <1>9, <1>q DEF CheckRole, Becomes
  <2>3. CASE ~(Guarded(q) /\ ~Qualifies(q))
    <3>1. PICK h : /\ Becomes(q, h, "handler")
                  /\ h.status = http[q].status /\ h.why = http[q].why
      BY <2>3, <1>9, <2>1, GoesOn, Vocabulary DEF CheckRole
    <3>2. Underway(h)
      BY <2>3, <2>1, <3>1 DEF Becomes, Underway, Blocked, StatusFits, CrossOrigin
    <3>. QED  BY <3>1, <3>2, <1>9, <1>q DEF CheckRole, Becomes
  <2>. QED  BY <2>2, <2>3
<1>10. ASSUME NEW q \in Calls, NEW audited \in BOOLEAN, Succeed(q, audited) PROVE GateInv'
  <2>1. http[q] \in Requests
    BY <1>10, PresentAt DEF Succeed
  <2>2. PICK h : /\ Becomes(q, h, "sent")
                 /\ h.status = 200 /\ h.why = "none"
    BY <1>10, <2>1, IsAnswered, Vocabulary DEF Succeed
  <2>3. Underway(h)
    BY <2>1, <2>2 DEF Becomes, Underway, Blocked, StatusFits
  <2>4. Event(q, "SUCCESS") \in Events
    BY <2>1, RecordedEvent DEF Actions
  <2>5. /\ trail \subseteq trail' /\ trail' \subseteq Events
        /\ tasks' \subseteq trail' /\ lost' \subseteq trail'
        /\ UNCHANGED <<session, role, siem, wavered>>
    BY <1>10, <2>4 DEF Succeed, Records, Unchecked
  <2>. QED  BY <2>2, <2>3, <2>5, RequestGoes DEF Becomes
<1>11. ASSUME NEW q \in Calls, NEW status \in {401, 409}, FailLogin(q, status) PROVE GateInv'
  <2>1. http[q] \in Requests /\ Underway(http[q]) /\ http[q].at = "handler"
    BY <1>11, PresentAt DEF FailLogin, At
  <2>2. PICK h : /\ Becomes(q, h, "raised")
                 /\ h.status = status /\ h.why = "login"
    BY <1>11, <2>1, IsAnswered, Vocabulary DEF FailLogin
  <2>3. Underway(h)
    BY <2>1, <2>2 DEF Becomes, Underway, Blocked, StatusFits
  <2>4. Event(q, "AUTH_LOGIN") \in Events
    BY <2>1, RecordedEvent DEF Actions
  <2>5. /\ trail \subseteq trail' /\ trail' \subseteq Events
        /\ tasks' \subseteq trail' /\ lost' \subseteq trail'
        /\ UNCHANGED <<session, role, siem, wavered>>
    BY <1>11, <2>4 DEF FailLogin, Records, Unchecked
  <2>. QED  BY <2>2, <2>3, <2>5, RequestGoes DEF Becomes
<1>12. ASSUME NEW q \in Calls, Refuse(q) PROVE GateInv'
  <2>1. http[q] \in Requests
    BY <1>12, PresentAt DEF Refuse
  <2>2. PICK h : /\ Becomes(q, h, "sent")
                 /\ h.status = 409 /\ h.why = "none"
    BY <1>12, <2>1, IsAnswered, Vocabulary DEF Refuse
  <2>3. Underway(h)
    BY <2>1, <2>2 DEF Becomes, Underway, Blocked, StatusFits
  <2>. QED  BY <2>2, <2>3, <1>12, RequestGoes DEF Refuse, Becomes, Unchecked
<1>13. ASSUME NEW q \in Calls, HandleError(q) PROVE GateInv'
  <2>1. http[q] \in Requests /\ Underway(http[q]) /\ http[q].at = "raised"
    BY <1>13, PresentAt DEF HandleError, At
  <2>2. CASE ToLoginPage(q)
    <3>0. Answers(q, "audit", 303, http[q].why) /\ http[q].why \in Reasons
      BY <2>1, <2>2, <1>13 DEF HandleError, Requests
    <3>1. PICK h : /\ Becomes(q, h, "audit")
                  /\ h.status = 303 /\ h.why = http[q].why
      BY <3>0, <2>1, IsAnswered, Vocabulary
    <3>2. Underway(h)
      BY <2>2, <2>1, <3>1 DEF Becomes, Underway, Blocked, StatusFits, CrossOrigin
    <3>. QED  BY <3>1, <3>2, <1>13, <1>q DEF HandleError, Becomes
  <2>3. CASE ~ToLoginPage(q)
    <3>1. PICK h : /\ Becomes(q, h, "audit")
                  /\ h.status = http[q].status /\ h.why = http[q].why
      BY <2>3, <1>13, <2>1, GoesOn, Vocabulary DEF HandleError
    <3>2. Underway(h)
      BY <2>3, <2>1, <3>1 DEF Becomes, Underway, Blocked, StatusFits, CrossOrigin
    <3>. QED  BY <3>1, <3>2, <1>13, <1>q DEF HandleError, Becomes
  <2>. QED  BY <2>2, <2>3
<1>14. ASSUME NEW q \in Calls, AuditResponse(q) PROVE GateInv'
  <2> DEFINE action == IF LooksLikeCsrf(q) THEN "CSRF_BLOCKED" ELSE "AUTHZ_DENIED"
  <2>1. http[q] \in Requests /\ Underway(http[q]) /\ http[q].at = "audit"
    BY <1>14, PresentAt DEF AuditResponse, At
  <2>2. PICK h : /\ Becomes(q, h, "sent")
                 /\ h.status = http[q].status /\ h.why = http[q].why
    BY <1>14, <2>1, GoesOn, Vocabulary DEF AuditResponse
  <2>3. Underway(h)
    BY <2>2 DEF Becomes, Underway
  <2>4. /\ Event(q, action) \in Events /\ Event(q, action).of = q
        /\ Event(q, action).action = action
    BY <2>1, RecordedEvent DEF Actions
  <2>5. /\ trail \subseteq trail' /\ trail' \subseteq Events
        /\ tasks' \subseteq trail' /\ lost' \subseteq trail'
        /\ UNCHANGED <<session, role, siem, wavered>>
    BY <1>14, <2>4 DEF AuditResponse, Records, Unchecked
  <2>6. ASSUME h.why \in {"csrf", "auth", "role"}, h.status # 303
        PROVE  \E e \in trail' :
                  /\ e.of = q
                  /\ e.action \in IF h.why = "csrf" THEN {"CSRF_BLOCKED"}
                                  ELSE {"AUTHZ_DENIED"}
    <3>1. http[q].status \in Denials
      BY <2>1, <2>2, <2>6 DEF Underway, StatusFits, Denials
    <3>2. LooksLikeCsrf(q) <=> h.why = "csrf"
      BY <2>1, <2>2, <2>6 DEF Underway, StatusFits, LooksLikeCsrf, CrossOrigin, Blocked
    <3>3. Event(q, action) \in trail'
      BY <1>14, <3>1 DEF AuditResponse, Records
    <3>. QED  BY <2>4, <3>2, <3>3
  <2>. QED  BY <2>2, <2>3, <2>5, <2>6, RequestGoes DEF Becomes
<1>15. ASSUME NEW q \in Calls, NEW reached \in SUBSET Sinks, Emit(q, reached)
       PROVE  GateInv'
  <2>1. http[q] \in Requests
    BY <1>15, PresentAt DEF Emit
  <2>2. PICK h : Becomes(q, h, "over")
    BY <1>15, <2>1, GoesOn, Vocabulary DEF Emit
  <2>3. Underway(h) /\ h.at = "over"
    BY <2>2 DEF Becomes, Underway
  <2>4. http' \in [Calls -> {NoRequest} \cup Requests]
    BY <2>2 DEF Becomes
  <2>5. \A p \in Calls : http'[p] = IF p = q THEN h ELSE http[p]
    BY <2>2 DEF Becomes
  <2>6. siem' \in [Sinks -> SUBSET trail'] /\ tasks' \subseteq trail' /\ lost' \subseteq trail'
    BY <1>15 DEF Emit, GateInv, GateTypeOK
  <2>7. UNCHANGED <<session, role, trail, wavered>>
    BY <1>15 DEF Emit
  <2>8. GateTypeOK'
    BY <2>4, <2>6, <2>7, GateTyped DEF GateInv, GateTypeOK
  <2>9. DenialsAreRecorded'
    <3> SUFFICES ASSUME NEW p \in Calls, (Denied(p) /\ ~Redirected(p))'
                 PROVE  Recorded(p, IF http[p].why = "csrf"
                                    THEN {"CSRF_BLOCKED"} ELSE {"AUTHZ_DENIED"})'
      BY DEF DenialsAreRecorded
    <3>1. p # q /\ http'[p] = http[p]
      BY <2>3, <2>5 DEF Denied, At
    <3>2. Recorded(p, IF http[p].why = "csrf" THEN {"CSRF_BLOCKED"} ELSE {"AUTHZ_DENIED"})
      BY <3>1 DEF GateInv, DenialsAreRecorded, Denied, Redirected, At
    <3>. QED  BY <3>1, <3>2, <2>7 DEF Recorded
  <2>10. \A p \in Calls : http'[p] # NoRequest => Underway(http'[p])
    BY <2>3, <2>5 DEF GateInv
  <2>. QED  BY <2>4, <2>8, <2>9, <2>10 DEF GateInv
<1>16. CASE UNCHANGED gateVars
  BY <1>16 DEF gateVars, GateInv, GateTypeOK, DenialsAreRecorded, Denied, Redirected,
               Recorded, At
<1>. QED
  BY <1>1, <1>2, <1>3, <1>4, <1>5, <1>6, <1>7, <1>8, <1>9, <1>10, <1>11, <1>12, <1>13,
     <1>14, <1>15, <1>16
  DEF GateNext
-----------------------------------------------------------------------------
\* Requests and the audit trail are always of the form main.py and
\* services/audit.py give them, and nothing is emitted that is not on the trail.
THEOREM GateTypeCorrect == GateSpec => []GateTypeOK
<1>1. GateInv => GateTypeOK
  BY DEF GateInv
<1>. QED  BY GateInitInv, GateStep, <1>1, PTL DEF GateSpec

\* auth/audit_middleware.py, for any number of requests, users and routes, while
\* sessions end and roles change: every refusal that reaches it is recorded as
\* what it was, except a browser sent to the login page.
THEOREM RefusalsAreOnTheTrail == GateSpec => []DenialsAreRecorded
<1>1. GateInv => DenialsAreRecorded
  BY DEF GateInv
<1>. QED  BY GateInitInv, GateStep, <1>1, PTL DEF GateSpec

-----------------------------------------------------------------------------
\* A request that is past authentication, and has not wavered, is its user's.
StaysKnown(q) ==
  LET h == http[q] IN
    /\ h # NoRequest /\ q \notin wavered
    /\ \/ h.at = "guard" /\ Guarded(q)
       \/ h.at \in {"raised", "audit"} /\ h.why = "role"
    => Actor(q) = h.user

NameInv ==
  /\ GateInv /\ DenialNamesTheUser
  /\ \A q \in Calls : StaysKnown(q)
  /\ \A e \in trail : e.action = "AUTHZ_DENIED" => http[e.of].at \in {"sent", "over"}

\* What a step records is no refusal, and is about the request q.
NoDenial(q) == \A e \in trail' : e \in trail \/ (e.of = q /\ e.action # "AUTHZ_DENIED")

LEMMA SilentStep ==
  ASSUME trail' = trail, NEW q PROVE NoDenial(q)
  BY DEF NoDenial

LEMMA NamedStep ==
  ASSUME NEW q, NEW action, action # "AUTHZ_DENIED", trail' = trail \cup {Event(q, action)}
  PROVE  NoDenial(q)
  BY DEF NoDenial, Event

LEMMA NameStep ==
  NameInv /\ [GateNext]_gateVars => NameInv'
<1> SUFFICES ASSUME NameInv, [GateNext]_gateVars PROVE NameInv'
  OBVIOUS
<1>g. /\ GateInv /\ GateInv' /\ trail \subseteq Events
      /\ http \in [Calls -> {NoRequest} \cup Requests]
      /\ session \in [SignedIn -> BOOLEAN]
      /\ \A q \in Calls : StaysKnown(q)
  BY GateStep DEF NameInv, GateInv, GateTypeOK
<1>e. \A e \in trail : e.of \in Calls
  BY <1>g DEF Events
\* one request moves, and what is recorded is no refusal over its role
<1>m. ASSUME NEW q \in Calls, NEW h, http' = [http EXCEPT ![q] = h], h.at # "absent",
             h.why = "role" /\ h.at \in {"sent", "over"} =>
                http[q].at \in {"sent", "over"} /\ http[q].why = "role" /\ h.user = http[q].user,
             StaysKnown(q)',
             http[q].at \in {"sent", "over"} => h.at \in {"sent", "over"},
             NoDenial(q),
             UNCHANGED <<session, wavered>>
      PROVE  NameInv'
  <2>1. \A p \in Calls : p # q => http'[p] = http[p]
    BY <1>g, <1>m
  <2>2. http'[q] = h
    BY <1>g, <1>m
  <2>3. ASSUME NEW p \in Calls PROVE StaysKnown(p)'
    <3>1. CASE p = q
      BY <3>1, <1>m
    <3>2. CASE p # q
      BY <3>2, <2>1, <1>g, <1>m DEF StaysKnown, Actor, Guarded
    <3>. QED  BY <3>1, <3>2
  <2>4. \A e \in trail' : e.action = "AUTHZ_DENIED" => e \in trail
    BY <1>m DEF NoDenial
  <2>5. \A e \in trail' : e.action = "AUTHZ_DENIED" => http'[e.of].at \in {"sent", "over"}
    BY <2>1, <2>2, <2>4, <1>e, <1>m DEF NameInv
  <2>6. DenialNamesTheUser'
    BY <2>1, <2>2, <2>4, <2>5, <1>e, <1>m DEF NameInv, DenialNamesTheUser
  <2>. QED  BY <2>3, <2>5, <2>6, <1>g DEF NameInv
\* the forms a move takes
<1>a. ASSUME NEW q \in Calls, http[q] \in Requests, NEW place, Goes(q, place)
      PROVE  \E h : /\ http' = [http EXCEPT ![q] = h] /\ h.at = place /\ h.why = http[q].why
                    /\ h.user = http[q].user /\ h.kind = http[q].kind
                    /\ h.status = http[q].status
  <2> DEFINE h == [http[q] EXCEPT !.at = place]
  <2>1. http' = [http EXCEPT ![q] = h]
    BY <1>a DEF Goes
  <2>2. /\ h.at = place /\ h.why = http[q].why /\ h.user = http[q].user
        /\ h.kind = http[q].kind /\ h.status = http[q].status
    BY <1>a DEF Requests
  <2>. QED  BY <2>1, <2>2
<1>b. ASSUME NEW q \in Calls, http[q] \in Requests, NEW place, NEW code, NEW why,
             Answers(q, place, code, why)
      PROVE  \E h : /\ http' = [http EXCEPT ![q] = h] /\ h.at = place /\ h.why = why
                    /\ h.user = http[q].user /\ h.kind = http[q].kind
  <2> DEFINE h == [http[q] EXCEPT !.at = place, !.status = code, !.why = why]
  <2>1. http' = [http EXCEPT ![q] = h]
    BY <1>b DEF Answers
  <2>2. /\ h.at = place /\ h.why = why /\ h.user = http[q].user
        /\ h.kind = http[q].kind
    BY <1>b DEF Requests
  <2>. QED  BY <2>1, <2>2
<1>1. CASE StopProcess
  <2>1. \A q \in Calls :
          http'[q] = IF http[q] = NoRequest THEN NoRequest
                     ELSE [http[q] EXCEPT !.why = IF At(q, "over") THEN http[q].why
                                                  ELSE "stopped",
                                          !.at = "over"]
    BY <1>1 DEF StopProcess
  <2>2. ASSUME NEW q \in Calls, http[q] # NoRequest
        PROVE  /\ http'[q].at = "over" /\ http'[q].user = http[q].user
               /\ http'[q].why = "role" => http[q].why = "role"
    <3>1. http[q] \in Requests
      BY <2>2, <1>g
    <3>2. http'[q] = [http[q] EXCEPT !.why = IF At(q, "over") THEN http[q].why ELSE "stopped",
                                     !.at = "over"]
      BY <2>1, <2>2
    <3>3. http'[q].why = IF At(q, "over") THEN http[q].why ELSE "stopped"
      BY <3>1, <3>2 DEF Requests
    <3>. QED  BY <3>1, <3>2, <3>3 DEF Requests
  <2>3. \A q \in Calls : StaysKnown(q)'
    <3> SUFFICES ASSUME NEW q \in Calls PROVE StaysKnown(q)'
      OBVIOUS
    <3>1. CASE http[q] = NoRequest
      BY <3>1, <2>1 DEF StaysKnown
    <3>2. CASE http[q] # NoRequest
      BY <3>2, <2>2 DEF StaysKnown
    <3>. QED  BY <3>1, <3>2
  <2>4. trail' = trail /\ wavered' = wavered
    BY <1>1 DEF StopProcess
  <2>5. \A e \in trail : e.action = "AUTHZ_DENIED" => http[e.of] # NoRequest
    BY DEF NameInv, NoRequest
  <2>6. \A e \in trail' : e.action = "AUTHZ_DENIED" => http'[e.of].at \in {"sent", "over"}
    BY <2>2, <2>4, <2>5, <1>e
  <2>7. DenialNamesTheUser'
    BY <2>2, <2>4, <2>5, <1>e DEF NameInv, DenialNamesTheUser
  <2>. QED  BY <2>3, <2>6, <2>7, <1>g DEF NameInv
<1>2. ASSUME NEW u \in SignedIn, EndSession(u) \/ \E r \in Roles : ChangeRole(u, r)
      PROVE  NameInv'
  <2>1. /\ UNCHANGED <<http, trail>> /\ wavered' = wavered \cup Unfinished(u)
        /\ \A v \in SignedIn : v # u => session'[v] = session[v]
    BY <1>2, <1>g DEF EndSession, ChangeRole
  <2>2. ASSUME NEW q \in Calls PROVE StaysKnown(q)'
    <3> SUFFICES ASSUME http[q] # NoRequest, q \notin wavered',
                        \/ http[q].at = "guard" /\ Guarded(q)
                        \/ http[q].at \in {"raised", "audit"} /\ http[q].why = "role"
                 PROVE  Actor(q)' = http[q].user
      BY <2>1 DEF StaysKnown, Guarded
    <3>1. http[q] \in Requests /\ http[q].user \in SignedIn /\ q \notin Unfinished(u)
      BY <2>1, <1>g DEF Requests
    <3>2. http[q].user # u
      BY <3>1 DEF Unfinished, At
    <3>3. Actor(q)' = Actor(q)
      BY <3>1, <3>2, <2>1 DEF Actor
    <3>4. StaysKnown(q) /\ q \notin wavered
      BY <2>1, <1>g
    <3>. QED  BY <3>3, <3>4 DEF StaysKnown, Guarded
  <2>3. DenialNamesTheUser'
    BY <2>1 DEF NameInv, DenialNamesTheUser
  <2>. QED  BY <2>1, <2>2, <2>3, <1>g DEF NameInv
<1>3. ASSUME NEW q \in Calls, NEW u \in SignedIn, NEW k \in RequestKinds, Arrive(q, u, k)
      PROVE  NameInv'
  <2> DEFINE h == [at |-> IF k.body = "declared" THEN "over" ELSE "limit",
                   status |-> IF k.body = "declared" THEN 413 ELSE 0,
                   why |-> IF k.body = "declared" THEN "size" ELSE "none",
                   user |-> u, kind |-> k]
  <2>1. /\ http' = [http EXCEPT ![q] = h] /\ h.at \in {"limit", "over"} /\ h.why # "role"
        /\ UNCHANGED <<session, wavered>> /\ NoDenial(q) /\ http[q].at = "absent"
    BY <1>3, SilentStep DEF Arrive, NoRequest
  <2>2. http'[q] = h
    BY <2>1, <1>g
  <2>3. StaysKnown(q)'
    BY <2>1, <2>2 DEF StaysKnown
  <2> HIDE DEF h
  <2>. QED  BY <2>1, <2>3, <1>m
\* a request goes where neither a refusal over its role nor its guard is
<1>p. ASSUME NEW q \in Calls, http[q] \in Requests, http[q].at \notin {"sent", "over"},
             NEW h, http' = [http EXCEPT ![q] = h], h.at # "absent", h.at # "guard",
             h.why # "role",
             NoDenial(q),
             UNCHANGED <<session, wavered>>
      PROVE  NameInv'
  <2>1. http'[q] = h
    BY <1>p, <1>g
  <2>2. StaysKnown(q)'
    BY <1>p, <2>1 DEF StaysKnown
  <2>. QED  BY <1>p, <2>2, <1>m
<1>4. ASSUME NEW q \in Calls,
             \/ Admit(q) \/ Throttle(q) \/ CheckOrigin(q) \/ ReadBody(q)
             \/ \E audited \in BOOLEAN : Succeed(q, audited)
             \/ \E status \in {401, 409} : FailLogin(q, status)
             \/ Refuse(q)
      PROVE  NameInv'
  <2>1. /\ http[q].at \in {"limit", "origin", "body", "handler"}
        /\ UNCHANGED <<session, wavered>> /\ NoDenial(q)
    <3>1. CASE Admit(q) \/ CheckOrigin(q) \/ ReadBody(q) \/ Refuse(q)
      BY <3>1, SilentStep DEF Admit, CheckOrigin, ReadBody, Refuse, At, Unchecked
    <3>2. CASE Throttle(q)
      BY <3>2, NamedStep DEF Throttle, At, Unchecked, Records
    <3>3. CASE \E audited \in BOOLEAN : Succeed(q, audited)
      BY <3>3, SilentStep, NamedStep DEF Succeed, At, Unchecked, Records
    <3>4. CASE \E status \in {401, 409} : FailLogin(q, status)
      BY <3>4, NamedStep DEF FailLogin, At
    <3>. QED  BY <1>4, <3>1, <3>2, <3>3, <3>4
  <2>2. http[q] \in Requests /\ http[q].why = "none"
    BY <2>1, <1>g, PresentAt DEF At, Underway
  <2>3. \/ Goes(q, "origin") \/ Goes(q, "body") \/ Goes(q, "login")
        \/ Answers(q, "sent", 429, "limit") \/ Answers(q, "audit", 403, "csrf")
        \/ Answers(q, "over", 413, "size") \/ Answers(q, "sent", 409, "none")
        \/ Answers(q, "sent", 200, "none")
        \/ \E status \in {401, 409} : Answers(q, "raised", status, "login")
    BY <1>4 DEF Admit, Throttle, CheckOrigin, ReadBody, Succeed, FailLogin, Refuse
  <2>4. \E h : /\ http' = [http EXCEPT ![q] = h] /\ h.why # "role"
               /\ h.at \in {"origin", "body", "login", "sent", "audit", "over", "raised"}
    <3>1. CASE Goes(q, "origin") \/ Goes(q, "body") \/ Goes(q, "login")
      BY <3>1, <2>2, <1>a
    <3>2. CASE \/ Answers(q, "sent", 429, "limit") \/ Answers(q, "audit", 403, "csrf")
               \/ Answers(q, "over", 413, "size") \/ Answers(q, "sent", 409, "none")
               \/ Answers(q, "sent", 200, "none")
               \/ \E status \in {401, 409} : Answers(q, "raised", status, "login")
      BY <3>2, <2>2, <1>b
    <3>. QED  BY <2>3, <3>1, <3>2
  <2>. QED  BY <2>1, <2>2, <2>4, <1>p
<1>5. ASSUME NEW q \in Calls, Authenticate(q) PROVE NameInv'
  <2>1. /\ http[q].at = "login" /\ UNCHANGED <<session, wavered>> /\ NoDenial(q)
    BY <1>5, SilentStep DEF Authenticate, At, Unchecked
  <2>2. http[q] \in Requests /\ http[q].why = "none"
    BY <2>1, <1>g, PresentAt DEF At, Underway
  <2>3. CASE Guarded(q) /\ Actor(q) = "anonymous"
    <3>1. PICK h : http' = [http EXCEPT ![q] = h] /\ h.at = "raised" /\ h.why = "auth"
      BY <1>5, <2>2, <2>3, <1>b DEF Authenticate
    <3>. QED  BY <3>1, <2>1, <2>2, <1>p
  <2>4. CASE ~(Guarded(q) /\ Actor(q) = "anonymous")
    <3>1. PICK h : /\ http' = [http EXCEPT ![q] = h] /\ h.at = "guard" /\ h.why = "none"
                   /\ h.user = http[q].user /\ h.kind = http[q].kind
      BY <1>5, <2>2, <2>4, <1>a DEF Authenticate
    <3>2. http'[q] = h
      BY <3>1, <1>g
    <3>3. Guarded(q) => Actor(q) = http[q].user
      BY <2>4 DEF Actor
    <3>4. StaysKnown(q)'
      BY <3>1, <3>2, <3>3, <2>1 DEF StaysKnown, Guarded, Actor
    <3>. QED  BY <3>1, <3>4, <2>1, <1>m
  <2>. QED  BY <2>3, <2>4
<1>6. ASSUME NEW q \in Calls, CheckRole(q) PROVE NameInv'
  <2>1. /\ http[q].at = "guard" /\ UNCHANGED <<session, wavered>> /\ NoDenial(q)
    BY <1>6, SilentStep DEF CheckRole, At, Unchecked
  <2>2. http[q] \in Requests /\ http[q].why = "none" /\ http[q] # NoRequest
    BY <2>1, <1>g, PresentAt DEF At, Underway
  <2>3. CASE Guarded(q) /\ ~Qualifies(q)
    <3>1. PICK h : /\ http' = [http EXCEPT ![q] = h] /\ h.at = "raised" /\ h.why = "role"
                   /\ h.user = http[q].user /\ h.kind = http[q].kind
      BY <1>6, <2>2, <2>3, <1>b DEF CheckRole
    <3>2. http'[q] = h
      BY <3>1, <1>g
    <3>3. q \notin wavered => Actor(q) = http[q].user
      BY <2>1, <2>2, <2>3, <1>g DEF StaysKnown, Guarded
    <3>4. StaysKnown(q)'
      BY <3>1, <3>2, <3>3, <2>1 DEF StaysKnown, Actor
    <3>. QED  BY <3>1, <3>4, <2>1, <1>m
  <2>4. CASE ~(Guarded(q) /\ ~Qualifies(q))
    <3>1. PICK h : http' = [http EXCEPT ![q] = h] /\ h.at = "handler" /\ h.why = "none"
      BY <1>6, <2>2, <2>4, <1>a DEF CheckRole
    <3>. QED  BY <3>1, <2>1, <2>2, <1>p
  <2>. QED  BY <2>3, <2>4
<1>7. ASSUME NEW q \in Calls, HandleError(q) PROVE NameInv'
  <2>1. /\ http[q].at = "raised" /\ UNCHANGED <<session, wavered>> /\ NoDenial(q)
    BY <1>7, SilentStep DEF HandleError, At, Unchecked
  <2>2. http[q] \in Requests /\ http[q] # NoRequest
    BY <2>1, <1>g, PresentAt DEF At
  <2>3. PICK h : /\ http' = [http EXCEPT ![q] = h] /\ h.at = "audit"
                 /\ h.why = http[q].why /\ h.user = http[q].user /\ h.kind = http[q].kind
    <3>1. CASE ToLoginPage(q)
      BY <1>7, <2>2, <3>1, <1>b DEF HandleError
    <3>2. CASE ~ToLoginPage(q)
      BY <1>7, <2>2, <3>2, <1>a DEF HandleError
    <3>. QED  BY <3>1, <3>2
  <2>4. http'[q] = h
    BY <2>3, <1>g
  <2>5. h.why = "role" /\ q \notin wavered => Actor(q) = http[q].user
    BY <2>1, <2>2, <2>3, <1>g DEF StaysKnown
  <2>6. StaysKnown(q)'
    BY <2>1, <2>3, <2>4, <2>5 DEF StaysKnown, Actor
  <2>. QED  BY <2>1, <2>3, <2>6, <1>m
<1>8. ASSUME NEW q \in Calls, AuditResponse(q) PROVE NameInv'
  <2>1. /\ http[q].at = "audit" /\ UNCHANGED <<session, wavered>>
        /\ \A e \in trail' : e \in trail \/ (e.of = q /\ e.actor = Actor(q))
    <3>1. trail' = trail \/ \E action : trail' = trail \cup {Event(q, action)}
      BY <1>8 DEF AuditResponse, Records
    <3>. QED  BY <3>1, <1>8 DEF AuditResponse, At, Unchecked, Event
  <2>2. http[q] \in Requests /\ http[q] # NoRequest
    BY <2>1, <1>g, PresentAt DEF At
  <2>3. PICK h : /\ http' = [http EXCEPT ![q] = h] /\ h.at = "sent"
                 /\ h.why = http[q].why /\ h.user = http[q].user
    BY <1>8, <2>2, <1>a DEF AuditResponse
  <2>4. http'[q] = h /\ \A p \in Calls : p # q => http'[p] = http[p]
    BY <2>3, <1>g
  <2>5. ASSUME NEW p \in Calls PROVE StaysKnown(p)'
    <3>1. CASE p = q
      BY <3>1, <2>3, <2>4 DEF StaysKnown
    <3>2. CASE p # q
      BY <3>2, <2>1, <2>4, <1>g DEF StaysKnown, Actor, Guarded
    <3>. QED  BY <3>1, <3>2
  <2>6. ASSUME NEW e \in trail', e.action = "AUTHZ_DENIED"
        PROVE  /\ http'[e.of].at \in {"sent", "over"}
               /\ http'[e.of].why = "role" /\ e.of \notin wavered' => e.actor = http'[e.of].user
    <3>1. CASE e.of = q
      <4>1. e \notin trail
        BY <3>1, <2>1, <2>6 DEF NameInv
      <4>2. http[q].why = "role" /\ q \notin wavered => Actor(q) = http[q].user
        BY <2>1, <2>2, <1>g DEF StaysKnown
      <4>. QED  BY <3>1, <4>1, <4>2, <2>1, <2>3, <2>4
    <3>2. CASE e.of # q
      <4>1. e \in trail /\ e.of \in Calls /\ http'[e.of] = http[e.of]
        BY <3>2, <2>1, <2>4, <1>e
      <4>. QED  BY <4>1, <2>1, <2>6 DEF NameInv, DenialNamesTheUser
    <3>. QED  BY <3>1, <3>2
  <2>. QED  BY <2>5, <2>6, <1>g DEF NameInv, DenialNamesTheUser
<1>9. ASSUME NEW q \in Calls, NEW reached \in SUBSET Sinks, Emit(q, reached) PROVE NameInv'
  <2>1. /\ http[q].at = "sent" /\ UNCHANGED <<session, wavered>> /\ NoDenial(q)
    BY <1>9, SilentStep DEF Emit, At
  <2>2. http[q] \in Requests
    BY <2>1, <1>g, PresentAt DEF At
  <2>3. PICK h : /\ http' = [http EXCEPT ![q] = h] /\ h.at = "over"
                 /\ h.why = http[q].why /\ h.user = http[q].user
    BY <1>9, <2>2, <1>a DEF Emit
  <2>4. http'[q] = h
    BY <2>3, <1>g
  <2>5. StaysKnown(q)'
    BY <2>3, <2>4 DEF StaysKnown
  <2>. QED  BY <2>1, <2>3, <2>5, <1>m
<1>10. CASE UNCHANGED gateVars
  BY <1>10, <1>g DEF gateVars, NameInv, DenialNamesTheUser, StaysKnown, Actor, Guarded
<1>. QED
  BY <1>1, <1>2, <1>3, <1>4, <1>5, <1>6, <1>7, <1>8, <1>9, <1>10 DEF GateNext

\* The middleware looks the actor up again after the answer was made: a refusal
\* over the role still names the user who was refused, unless session or role
\* changed under the request.
THEOREM DenialsNameTheirUser == GateSpec => []DenialNamesTheUser
<1>1. GateInit => NameInv
  <2> SUFFICES ASSUME GateInit PROVE NameInv
    OBVIOUS
  <2>1. DenialNamesTheUser /\ \A q \in Calls : StaysKnown(q)
    BY DEF GateInit, DenialNamesTheUser, StaysKnown
  <2>. QED  BY <2>1, GateInitInv DEF NameInv, GateInit
<1>2. NameInv => DenialNamesTheUser
  BY DEF NameInv
<1>. QED  BY <1>1, <1>2, NameStep, PTL DEF GateSpec

-----------------------------------------------------------------------------
(***************************************************************************)
(* Settings rows and the registry of login clients.  A row takes a new     *)
(* value only with a stamp no registry has seen, so what a registry holds  *)
(* of a row is what the row says for as long as their stamps agree, each   *)
(* row by itself.                                                          *)
(***************************************************************************)
BuiltRegistries ==
  [phase : {"built"}, version : Versions, config : [Kinds -> FieldSets]]
Registries == {NotBuilt} \cup BuiltRegistries
Lookups == [asked : SUBSET Kinds, version : Versions,
            read : SUBSET Kinds, config : [Kinds -> FieldSets]]

HoldsTheRows(r) ==
  \A k \in Kinds : /\ r.version[k] <= stamp
                   /\ r.version[k] = VersionOf(k) => r.config[k] = Created(k).fields

\* What a login has read of the rows so far: the version of a row before the row.
LookupHolds(l) ==
  /\ l.read \subseteq l.asked
  /\ \A k \in Kinds :
       /\ l.version[k] <= stamp
       /\ k \in l.read /\ l.version[k] = VersionOf(k) => l.config[k] = Created(k).fields

\* The parts of the state no property is about.
Bystanders ==
  /\ caller \in [Callers -> {Idle} \cup [op : {"work"}, saved : BOOLEAN]
                                  \cup [op : {"seed"}, k : Kinds]]
  /\ half \subseteq Callers

Forms == [op : {"save"}, k : Kinds, new : FieldSets, old : FieldSets]

SettingsInv ==
  /\ SettingsTypeOK /\ RowIsOneForm
  /\ \A k \in Kinds : /\ Present(k) => settings[k].updated_at <= stamp
                      /\ Default \in submitted[k]
  /\ \A w \in Workers : /\ registry[w] # NotBuilt => HoldsTheRows(registry[w])
                        /\ LookupHolds(lookup[w])
  /\ \A a \in Admins : form[a] # Idle => Present(form[a].k)
-----------------------------------------------------------------------------
LEMMA SettingsInitInv == SettingsInit => SettingsInv
<1> SUFFICES ASSUME SettingsInit PROVE SettingsInv
  OBVIOUS
<1>1. settings \in [Kinds -> SettingsRows \cup {Absent}]
  BY DEF SettingsInit
<1>2. registry \in [Workers -> Registries]
  BY DEF SettingsInit, Registries
<1>3. submitted \in [Kinds -> SUBSET FieldSets]
  BY SettingsAssumption DEF SettingsInit, FieldSets
<1>4. NoLookup \in Lookups /\ LookupHolds(NoLookup)
  BY SettingsAssumption
  DEF SettingsInit, NoLookup, Lookups, LookupHolds, Versions, FieldSets
<1>5. SettingsTypeOK
  BY <1>1, <1>2, <1>3, <1>4, SettingsAssumption
  DEF SettingsInit, SettingsTypeOK, Registries, BuiltRegistries, Lookups
<1>6. \A k \in Kinds : ~Present(k)
  BY DEF SettingsInit, Present
<1>. QED  BY <1>4, <1>5, <1>6 DEF SettingsInit, SettingsInv, RowIsOneForm, NotBuilt

\* The next state is well formed if its parts are.
LEMMA SettingsTyped ==
  ASSUME settings' \in [Kinds -> SettingsRows \cup {Absent}], Bystanders',
         form' \in [Admins -> {Idle} \cup Forms],
         registry' \in [Workers -> Registries], lookup' \in [Workers -> Lookups],
         stamp' \in 0..MaxSaves,
         overlaid' \subseteq Kinds, submitted' \in [Kinds -> SUBSET FieldSets]
  PROVE  SettingsTypeOK'
  BY DEF SettingsTypeOK, Bystanders, Forms, Registries, BuiltRegistries, Lookups

LEMMA SettingsParts ==
  ASSUME SettingsInv
  PROVE  /\ settings \in [Kinds -> SettingsRows \cup {Absent}] /\ Bystanders
         /\ form \in [Admins -> {Idle} \cup Forms]
         /\ registry \in [Workers -> Registries] /\ lookup \in [Workers -> Lookups]
         /\ stamp \in 0..MaxSaves
         /\ overlaid \subseteq Kinds /\ submitted \in [Kinds -> SUBSET FieldSets]
  BY DEF SettingsInv, SettingsTypeOK, Bystanders, Forms, Registries, BuiltRegistries,
         Lookups

LEMMA SeedIsARow == Seed \in SettingsRows /\ Seed # Absent
  BY SettingsAssumption DEF Seed, Absent, SettingsRows, FieldSets

LEMMA RowsAreCreated ==
  ASSUME SettingsInv, NEW k \in Kinds
  PROVE  /\ Created(k) \in SettingsRows /\ Created(k) # Absent
         /\ Created(k).updated_at <= stamp
         /\ k \notin overlaid => /\ Created(k).fields \in submitted[k]
                                 /\ Created(k).updated_at = 0 => Created(k).fields = Default
<1>1. settings[k] \in SettingsRows \cup {Absent} /\ stamp \in Nat
  BY SettingsAssumption DEF SettingsInv, SettingsTypeOK
<1>2. CASE Present(k)
  <2>1. Created(k) = settings[k]
    BY <1>2 DEF Created
  <2>. QED  BY <1>1, <1>2, <2>1 DEF Present, SettingsInv, RowIsOneForm
<1>3. CASE ~Present(k)
  <2>1. Created(k) = Seed /\ Seed.updated_at = 0 /\ Seed.fields = Default
    BY <1>3 DEF Created, Seed
  <2>. QED  BY <1>1, <2>1, SeedIsARow, SettingsAssumption DEF SettingsInv
<1>. QED  BY <1>2, <1>3
\* Rows are created at most, which changes nothing about what they say, and
\* registries hold the rows.
LEMMA RowsAtMostCreated ==
  ASSUME SettingsInv, Bystanders',
         settings' \in [Kinds -> SettingsRows \cup {Absent}],
         \A k \in Kinds : settings'[k] \in {settings[k], Created(k)},
         form' \in [Admins -> {Idle} \cup Forms],
         registry' \in [Workers -> Registries],
         lookup' \in [Workers -> Lookups],
         \A w \in Workers : /\ registry'[w] # NotBuilt => HoldsTheRows(registry'[w])
                            /\ LookupHolds(lookup'[w]),
         \A a \in Admins : form'[a] # Idle => settings'[form'[a].k] # Absent,
         UNCHANGED <<stamp, submitted, overlaid>>
  PROVE  SettingsInv'
<1>1. SettingsTypeOK'
  BY SettingsParts, SettingsTyped
<1>2. \A k \in Kinds : Created(k)' = Created(k)
  BY RowsAreCreated DEF Created, Present, Absent
<1>3. \A k \in Kinds : Present(k)' => settings'[k] = Created(k)
  BY DEF Created, Present
<1>4. RowIsOneForm'
  BY <1>3, RowsAreCreated DEF RowIsOneForm
<1>5. \A k \in Kinds : /\ Present(k)' => settings'[k].updated_at <= stamp'
                       /\ Default \in submitted'[k]
  <2>1. \A k \in Kinds : Present(k)' => settings'[k].updated_at <= stamp'
    BY <1>3, RowsAreCreated
  <2>2. \A k \in Kinds : Default \in submitted'[k]
    BY DEF SettingsInv
  <2>. QED  BY <2>1, <2>2
<1>6. ASSUME NEW w \in Workers, registry'[w] # NotBuilt
      PROVE  HoldsTheRows(registry[w])'
  <2>1. HoldsTheRows(registry'[w])
    BY <1>6
  <2>. QED  BY <2>1, <1>2 DEF HoldsTheRows, VersionOf
<1>7. ASSUME NEW w \in Workers
      PROVE  LookupHolds(lookup[w])'
  <2>1. LookupHolds(lookup'[w])
    BY <1>7
  <2>. QED  BY <2>1, <1>2 DEF LookupHolds, VersionOf
<1>8. \A a \in Admins : (form[a] # Idle => Present(form[a].k))'
  BY DEF Present
<1>. QED  BY <1>1, <1>4, <1>5, <1>6, <1>7, <1>8 DEF SettingsInv

\* Nothing about rows and registries changes.
LEMMA RowsStay ==
  ASSUME SettingsInv, Bystanders', form' \in [Admins -> {Idle} \cup Forms],
         \A a \in Admins : form'[a] \in {Idle, form[a]},
         UNCHANGED <<settings, registry, lookup, stamp, submitted, overlaid>>
  PROVE  SettingsInv'
<1>1. \A w \in Workers : /\ registry'[w] # NotBuilt => HoldsTheRows(registry'[w])
                         /\ LookupHolds(lookup'[w])
  BY DEF SettingsInv
<1>2. \A a \in Admins : form'[a] # Idle => settings'[form'[a].k] # Absent
  BY DEF SettingsInv, Present
<1>. QED  BY <1>1, <1>2, SettingsParts, RowsAtMostCreated

LEMMA InsertedRows ==
  ASSUME SettingsInv, NEW k \in Kinds
  PROVE  /\ Inserted(k) \in [Kinds -> SettingsRows \cup {Absent}]
         /\ \A j \in Kinds : Inserted(k)[j] \in {settings[j], Created(j)}
         /\ Inserted(k)[k] \in SettingsRows
<1>1. settings \in [Kinds -> SettingsRows \cup {Absent}]
  BY SettingsParts
<1>. QED  BY <1>1, SeedIsARow DEF Inserted, Created, Present

LEMMA SaveFormStep ==
  ASSUME SettingsInv, NEW a \in Admins, SaveForm(a)
  PROVE  SettingsInv'
<1>. /\ settings \in [Kinds -> SettingsRows \cup {Absent}] /\ Bystanders
     /\ form \in [Admins -> {Idle} \cup Forms]
     /\ registry \in [Workers -> Registries] /\ lookup \in [Workers -> Lookups]
     /\ stamp \in 0..MaxSaves
     /\ overlaid \subseteq Kinds /\ submitted \in [Kinds -> SUBSET FieldSets]
  BY SettingsParts
<1>1. PICK k \in Kinds, new \in FieldSets, old \in FieldSets :
        form[a].k = k /\ form[a].new = new /\ form[a].old = old
  BY DEF SaveForm, Idle, Forms
<1> DEFINE row == [updated_at |-> stamp + 1, fields |-> Edited(k, old, new)]
<1>2. /\ settings' = [settings EXCEPT ![k] = row]
      /\ overlaid' = IF settings[k].fields = old THEN overlaid ELSE overlaid \cup {k}
      /\ submitted' = [submitted EXCEPT ![k] = @ \cup {new}]
      /\ stamp < MaxSaves /\ stamp' = stamp + 1
      /\ form' = [form EXCEPT ![a] = Idle]
      /\ UNCHANGED <<caller, registry, lookup, half>>
  BY <1>1 DEF SaveForm
<1>3. Present(k) /\ settings[k] \in SettingsRows
  <2>1. form[a] # Idle
    BY DEF SaveForm, Idle
  <2>. QED  BY <2>1, <1>1 DEF SettingsInv, Present
<1>4. settings[k].fields \in FieldSets
  BY <1>3 DEF SettingsRows
<1>5. Edited(k, old, new) \in FieldSets
  BY <1>4 DEF Edited, FieldSets
<1>6. settings[k].fields = old => Edited(k, old, new) = new
  <2>1. ASSUME settings[k].fields = old PROVE \A f \in Fields : Edited(k, old, new)[f] = new[f]
    BY <2>1 DEF Edited
  <2>. QED  BY <2>1, <1>5 DEF FieldSets
<1>7. row \in SettingsRows /\ row # Absent
  BY <1>2, <1>5, SettingsAssumption DEF SettingsRows, Absent
<1>8. SettingsTypeOK'
  <2>1. settings' \in [Kinds -> SettingsRows \cup {Absent}]
    BY <1>2, <1>7
  <2>2. overlaid' \subseteq Kinds /\ submitted' \in [Kinds -> SUBSET FieldSets]
    BY <1>2
  <2>3. form' \in [Admins -> {Idle} \cup Forms] /\ stamp' \in 0..MaxSaves
    BY <1>2, SettingsAssumption
  <2>4. Bystanders'
    BY <1>2 DEF Bystanders
  <2>. QED  BY <1>2, <2>1, <2>2, <2>3, <2>4, SettingsTyped
<1>9. \A j \in Kinds : settings'[j] = IF j = k THEN row ELSE settings[j]
  BY <1>2
<1>10. RowIsOneForm'
  <2> SUFFICES ASSUME NEW j \in Kinds, Present(j)', j \notin overlaid'
               PROVE  /\ settings'[j].fields \in submitted'[j]
                      /\ settings'[j].updated_at = 0 => settings'[j].fields = Default
    BY DEF RowIsOneForm
  <2>1. CASE j = k
    <3>1. settings[k].fields = old
      BY <1>2, <2>1
    <3>2. settings'[j] = row /\ row.fields = new /\ row.updated_at # 0
      BY <1>6, <1>9, <2>1, <3>1, SettingsAssumption
    <3>3. new \in submitted'[k]
      BY <1>2
    <3>. QED  BY <2>1, <3>2, <3>3
  <2>2. CASE j # k
    <3>1. /\ settings'[j] = settings[j] /\ submitted'[j] = submitted[j]
          /\ Present(j) /\ j \notin overlaid
      BY <1>2, <1>9, <2>2 DEF Present
    <3>. QED  BY <3>1 DEF SettingsInv, RowIsOneForm
  <2>. QED  BY <2>1, <2>2
<1>11. \A j \in Kinds : /\ Present(j)' => settings'[j].updated_at <= stamp'
                        /\ Default \in submitted'[j]
  <2>1. ASSUME NEW j \in Kinds, settings'[j] # Absent
        PROVE  settings'[j].updated_at <= stamp'
    <3>1. CASE j = k
      BY <1>2, <1>9, <3>1
    <3>2. CASE j # k
      <4>1. settings[j] \in SettingsRows /\ settings[j].updated_at <= stamp
        BY <1>9, <2>1, <3>2 DEF SettingsInv, Present
      <4>. QED  BY <1>2, <1>9, <3>2, <4>1 DEF SettingsRows
    <3>. QED  BY <3>1, <3>2
  <2>2. \A j \in Kinds : submitted[j] \subseteq submitted'[j]
    BY <1>2
  <2>3. \A j \in Kinds : Default \in submitted'[j]
    BY <2>2 DEF SettingsInv
  <2>. QED  BY <2>1, <2>3 DEF Present
\* A version somebody read is not the one the row has now.
<1>12. ASSUME NEW v \in Versions, NEW j \in Kinds, v[j] <= stamp
       PROVE  /\ v[j] <= stamp' /\ v[j] # stamp + 1
              /\ v[j] = VersionOf(j)' =>
                   Created(j)' = Created(j) /\ v[j] = VersionOf(j)
  <2>1. v[j] \in 0..MaxSaves
    BY DEF Versions
  <2>2. v[j] <= stamp' /\ v[j] # stamp + 1
    BY <1>2, <1>12, <2>1
  <2>3. CASE j = k
    <3>1. Created(j)' = row
      BY <1>7, <1>9, <2>3 DEF Created, Present
    <3>2. VersionOf(j)' = stamp + 1
      BY <3>1 DEF VersionOf
    <3>. QED  BY <2>2, <3>2
  <2>4. CASE j # k
    <3>1. Created(j)' = Created(j)
      BY <1>9, <2>4 DEF Created, Present
    <3>. QED  BY <2>2, <3>1 DEF VersionOf
  <2>. QED  BY <2>3, <2>4
<1>14. ASSUME NEW w \in Workers, registry'[w] # NotBuilt
       PROVE  HoldsTheRows(registry[w])'
  <2>1. HoldsTheRows(registry[w]) /\ registry[w].version \in Versions
    BY <1>2, <1>14 DEF SettingsInv, Registries, BuiltRegistries
  <2>. QED  BY <1>2, <1>12, <2>1 DEF HoldsTheRows
<1>15. ASSUME NEW w \in Workers
       PROVE  LookupHolds(lookup[w])'
  <2>1. LookupHolds(lookup[w]) /\ lookup[w].version \in Versions
    BY DEF SettingsInv, Lookups
  <2>. QED  BY <1>2, <1>12, <2>1 DEF LookupHolds
<1>13. ASSUME NEW b \in Admins, form'[b] # Idle
       PROVE  settings'[form'[b].k] # Absent
  <2>1. form'[b] = form[b]
    BY <1>2, <1>13
  <2>2. settings[form[b].k] # Absent
    BY <1>13, <2>1 DEF SettingsInv, Present
  <2>3. form[b].k \in Kinds
    BY <1>13, <2>1 DEF Forms
  <2>. QED  BY <1>7, <1>9, <2>1, <2>2, <2>3
<1>. QED  BY <1>8, <1>10, <1>11, <1>13, <1>14, <1>15 DEF SettingsInv, Present

LEMMA CallerStep ==
  ASSUME SettingsInv, NEW c \in Callers,
         \/ BeginWork(c)
         \/ \E k \in Kinds : MissRow(c, k)
         \/ \E ok \in BOOLEAN : EndWork(c, ok)
  PROVE  SettingsInv'
<1>1. Bystanders
  BY SettingsParts
<1>2. UNCHANGED <<settings, form, registry, lookup, stamp, submitted, overlaid>>
  BY DEF BeginWork, MissRow, EndWork
<1>3. Bystanders'
  <2>1. CASE BeginWork(c)
    BY <1>1, <2>1 DEF BeginWork, Bystanders
  <2>2. CASE \E k \in Kinds : MissRow(c, k)
    BY <1>1, <2>2 DEF MissRow, Bystanders
  <2>3. CASE \E ok \in BOOLEAN : EndWork(c, ok)
    BY <1>1, <2>3 DEF EndWork, Bystanders
  <2>. QED  BY <2>1, <2>2, <2>3
<1>. QED  BY <1>2, <1>3, SettingsParts, RowsStay

LEMMA SeedRowStep ==
  ASSUME SettingsInv, NEW c \in Callers, SeedRow(c)
  PROVE  SettingsInv'
<1>1. PICK k \in Kinds : caller[c].k = k
  BY SettingsParts DEF SeedRow, Bystanders, Idle
<1>2. settings' = Inserted(k) /\ UNCHANGED <<form, registry, lookup, stamp, half, submitted, overlaid>>
  BY <1>1 DEF SeedRow
<1>3. Bystanders'
  BY SettingsParts DEF SeedRow, Bystanders
<1>4. \A j \in Kinds : settings[j] # Absent => settings'[j] # Absent
  BY <1>2, InsertedRows, RowsAreCreated
<1>5. \A a \in Admins : form'[a] # Idle => settings'[form'[a].k] # Absent
  BY <1>2, <1>4, SettingsParts DEF SettingsInv, Present, Forms
<1>6. \A w \in Workers : /\ registry'[w] # NotBuilt => HoldsTheRows(registry'[w])
                         /\ LookupHolds(lookup'[w])
  BY <1>2 DEF SettingsInv
<1>. QED  BY <1>2, <1>3, <1>5, <1>6, SettingsParts, InsertedRows, RowsAtMostCreated

LEMMA LoadFormStep ==
  ASSUME SettingsInv, NEW a \in Admins, NEW k \in Kinds, NEW fs \in FieldSets,
         LoadForm(a, k, fs)
  PROVE  SettingsInv'
<1> DEFINE q == [op |-> "save", k |-> k, new |-> fs, old |-> Inserted(k)[k].fields]
<1>1. Inserted(k)[k] \in SettingsRows /\ Inserted(k)[k] # Absent
  BY InsertedRows DEF SettingsRows, Absent
<1>2. q \in Forms /\ q.k = k
  BY <1>1 DEF Forms, SettingsRows
<1>3. /\ settings' = Inserted(k) /\ form' = [form EXCEPT ![a] = q]
      /\ UNCHANGED <<caller, registry, lookup, stamp, half, submitted, overlaid>>
  BY DEF LoadForm
<1>4. form' \in [Admins -> {Idle} \cup Forms] /\ Bystanders'
  BY <1>2, <1>3, SettingsParts DEF Bystanders
<1>5. \A j \in Kinds : settings[j] # Absent => settings'[j] # Absent
  BY <1>3, InsertedRows, RowsAreCreated
<1>6. ASSUME NEW b \in Admins, form'[b] # Idle
      PROVE  settings'[form'[b].k] # Absent
  <2>1. CASE b = a
    BY <1>1, <1>2, <1>3, <2>1, SettingsParts
  <2>2. CASE b # a
    <3>1. form'[b] = form[b]
      BY <1>3, <2>2, SettingsParts
    <3>2. form[b].k \in Kinds
      BY <1>6, <3>1, SettingsParts DEF Forms
    <3>. QED  BY <1>5, <1>6, <3>1, <3>2 DEF SettingsInv, Present
  <2>. QED  BY <2>1, <2>2
<1>7. \A w \in Workers : /\ registry'[w] # NotBuilt => HoldsTheRows(registry'[w])
                         /\ LookupHolds(lookup'[w])
  BY <1>3 DEF SettingsInv
<1>. QED  BY <1>3, <1>4, <1>6, <1>7, SettingsParts, InsertedRows, RowsAtMostCreated

\* What AskVersion and ReadRow read.
LEMMA VersionAndConfig ==
  ASSUME SettingsInv
  PROVE  /\ Version \in Versions /\ Config \in [Kinds -> FieldSets]
         /\ \A k \in Kinds : /\ Version[k] = VersionOf(k)
                             /\ VersionOf(k) \in 0..MaxSaves /\ VersionOf(k) <= stamp
                             /\ Config[k] = Created(k).fields
                             /\ Created(k).fields \in FieldSets
  BY RowsAreCreated DEF Version, Versions, VersionOf, Config, SettingsRows

\* A login reads of a row what it says, and never the row before its version.
LEMMA LookupStep ==
  ASSUME SettingsInv, NEW w \in Workers, NEW k \in Kinds, AskVersion(w, k) \/ ReadRow(w, k)
  PROVE  SettingsInv'
<1>. /\ settings \in [Kinds -> SettingsRows \cup {Absent}] /\ Bystanders
     /\ form \in [Admins -> {Idle} \cup Forms]
     /\ registry \in [Workers -> Registries] /\ lookup \in [Workers -> Lookups]
  BY SettingsParts
<1>0. /\ lookup[w] \in Lookups /\ LookupHolds(lookup[w])
      /\ lookup[w].asked \subseteq Kinds /\ lookup[w].read \subseteq Kinds
      /\ lookup[w].version \in Versions /\ lookup[w].config \in [Kinds -> FieldSets]
  BY DEF SettingsInv, Lookups
<1>1. /\ Bystanders' /\ settings' = Inserted(k)
      /\ UNCHANGED <<form, registry, stamp, submitted, overlaid>>
  BY DEF AskVersion, ReadRow, Bystanders
<1>2. \A a \in Admins : form'[a] # Idle => settings'[form'[a].k] # Absent
  BY <1>1, InsertedRows, RowsAreCreated DEF SettingsInv, Present, Forms
<1>3. ASSUME NEW l \in Lookups, LookupHolds(l), lookup' = [lookup EXCEPT ![w] = l]
      PROVE  SettingsInv'
  <2>1. lookup' \in [Workers -> Lookups]
    BY <1>3
  <2>2. \A v \in Workers : /\ registry'[v] # NotBuilt => HoldsTheRows(registry'[v])
                           /\ LookupHolds(lookup'[v])
    BY <1>1, <1>3 DEF SettingsInv
  <2>. QED  BY <1>1, <1>2, <2>1, <2>2, InsertedRows, RowsAtMostCreated
<1>4. CASE AskVersion(w, k)
  <2> DEFINE v == [lookup[w].version EXCEPT ![k] = VersionOf(k)]
             l == [lookup[w] EXCEPT !.asked = @ \cup {k}, !.version = v]
  <2>1. v \in Versions /\ \A j \in Kinds : v[j] = IF j = k THEN VersionOf(k)
                                                       ELSE lookup[w].version[j]
    BY <1>0, VersionAndConfig DEF Versions
  <2>2. /\ l.asked = lookup[w].asked \cup {k} /\ l.version = v
        /\ l.read = lookup[w].read /\ l.config = lookup[w].config /\ l \in Lookups
    BY <1>0, <2>1 DEF Lookups
  <2>3. k \notin lookup[w].read
    BY <1>0, <1>4 DEF AskVersion, LookupHolds
  <2>4. LookupHolds(l)
    BY <1>0, <2>1, <2>2, <2>3, VersionAndConfig DEF LookupHolds
  <2>5. lookup' = [lookup EXCEPT ![w] = l]
    BY <1>0, <1>4 DEF AskVersion, Lookups
  <2>. QED  BY <1>3, <2>2, <2>4, <2>5
<1>5. CASE ReadRow(w, k)
  <2> DEFINE c == [lookup[w].config EXCEPT ![k] = Created(k).fields]
             l == [lookup[w] EXCEPT !.read = @ \cup {k}, !.config = c]
  <2>1. c \in [Kinds -> FieldSets]
        /\ \A j \in Kinds : c[j] = IF j = k THEN Created(k).fields ELSE lookup[w].config[j]
    BY <1>0, VersionAndConfig
  <2>2. /\ l.asked = lookup[w].asked /\ l.version = lookup[w].version
        /\ l.read = lookup[w].read \cup {k} /\ l.config = c /\ l \in Lookups
    BY <1>0, <2>1 DEF Lookups
  <2>3. k \in lookup[w].asked
    BY <1>5 DEF ReadRow, Asked
  <2>4. LookupHolds(l)
    BY <1>0, <2>1, <2>2, <2>3 DEF LookupHolds
  <2>5. lookup' = [lookup EXCEPT ![w] = l]
    BY <1>0, <1>5 DEF ReadRow, Lookups
  <2>. QED  BY <1>3, <2>2, <2>4, <2>5
<1>. QED  BY <1>4, <1>5

LEMMA RegistryStep ==
  ASSUME SettingsInv, NEW w \in Workers,
         KeepRegistry(w) \/ BuildRegistry(w) \/ ResetRegistry(w)
  PROVE  SettingsInv'
<1>. /\ settings \in [Kinds -> SettingsRows \cup {Absent}] /\ Bystanders
     /\ form \in [Admins -> {Idle} \cup Forms]
     /\ registry \in [Workers -> Registries] /\ lookup \in [Workers -> Lookups]
  BY SettingsParts
<1>1. Bystanders' /\ UNCHANGED <<settings, form, stamp, submitted, overlaid>>
  BY DEF KeepRegistry, BuildRegistry, ResetRegistry, Bystanders
<1>2. \A a \in Admins : form'[a] # Idle => settings'[form'[a].k] # Absent
  BY <1>1 DEF SettingsInv, Present
<1>3. NoLookup \in Lookups /\ LookupHolds(NoLookup)
  <2>1. stamp \in Nat
    BY SettingsParts, SettingsAssumption
  <2>. QED  BY <2>1, SettingsAssumption
            DEF NoLookup, Lookups, LookupHolds, Versions, FieldSets
<1>4. lookup' = [lookup EXCEPT ![w] = NoLookup] \/ lookup' = lookup
  BY DEF KeepRegistry, BuildRegistry, ResetRegistry
<1>5. lookup' \in [Workers -> Lookups] /\ \A v \in Workers : LookupHolds(lookup'[v])
  BY <1>3, <1>4 DEF SettingsInv
<1>6. ASSUME NEW r \in Registries, r # NotBuilt => HoldsTheRows(r),
             registry' = [registry EXCEPT ![w] = r]
      PROVE  SettingsInv'
  <2>1. registry' \in [Workers -> Registries]
    BY <1>6
  <2>2. \A v \in Workers : registry'[v] # NotBuilt => HoldsTheRows(registry'[v])
    BY <1>6 DEF SettingsInv
  <2>. QED  BY <1>1, <1>2, <1>5, <2>1, <2>2, RowsAtMostCreated
<1>7. CASE KeepRegistry(w)
  <2>1. \A v \in Workers : registry'[v] # NotBuilt => HoldsTheRows(registry'[v])
    BY <1>7 DEF KeepRegistry, SettingsInv
  <2>2. registry' \in [Workers -> Registries]
    BY <1>7 DEF KeepRegistry
  <2>. QED  BY <1>1, <1>2, <1>5, <2>1, <2>2, RowsAtMostCreated
<1>8. CASE BuildRegistry(w)
  <2> DEFINE r == [phase |-> "built", version |-> lookup[w].version,
                   config |-> lookup[w].config]
  <2>1. r \in Registries
    BY DEF Registries, BuiltRegistries, Lookups
  <2>2. LookupHolds(lookup[w]) /\ lookup[w].read = Kinds
    BY <1>8 DEF BuildRegistry, SettingsInv
  <2>3. HoldsTheRows(r)
    BY <2>2 DEF HoldsTheRows, LookupHolds
  <2>. QED  BY <1>6, <1>8, <2>1, <2>3 DEF BuildRegistry
<1>9. CASE ResetRegistry(w)
  BY <1>6, <1>9 DEF ResetRegistry, Registries
<1>. QED  BY <1>7, <1>8, <1>9

LEMMA SettingsStep == SettingsInv /\ [SettingsNext]_settingsVars => SettingsInv'
<1> SUFFICES ASSUME SettingsInv, [SettingsNext]_settingsVars PROVE SettingsInv'
  OBVIOUS
<1>1. ASSUME NEW a \in Admins, DropForm(a) PROVE SettingsInv'
  <2>1. /\ form' \in [Admins -> {Idle} \cup Forms]
        /\ \A b \in Admins : form'[b] \in {Idle, form[b]}
    BY <1>1, SettingsParts DEF DropForm
  <2>2. Bystanders'
    BY <1>1, SettingsParts DEF DropForm, Bystanders
  <2>. QED  BY <1>1, <2>1, <2>2, RowsStay DEF DropForm
<1>2. CASE UNCHANGED settingsVars
  <2>1. Bystanders'
    BY <1>2, SettingsParts DEF settingsVars, Bystanders
  <2>. QED  BY <1>2, <2>1, SettingsParts, RowsStay DEF settingsVars
<1>. QED
  BY <1>1, <1>2, CallerStep, SeedRowStep, LoadFormStep, SaveFormStep, LookupStep, RegistryStep
  DEF SettingsNext, FieldSets
-----------------------------------------------------------------------------
\* Rows, forms and registries are of the form services/singleton.py and
\* auth/routes.py give them.
THEOREM SettingsTypeCorrect == SettingsSpec => []SettingsTypeOK
<1>1. SettingsInv => SettingsTypeOK
  BY DEF SettingsInv
<1>. QED  BY SettingsInitInv, SettingsStep, <1>1, PTL DEF SettingsSpec

\* auth/routes.py get_oauth, for any number of rows, workers and saves: the
\* login clients a worker keeps under the rows' version are those of the rows.
THEOREM ClientsFollowTheRows == SettingsSpec => []RegistryIsCurrent
<1>1. SettingsInv => RegistryIsCurrent
  <2> SUFFICES ASSUME SettingsInv, NEW w \in Workers, registry[w].phase = "built",
                      registry[w].version = Version
               PROVE  registry[w].config = Config
    BY DEF RegistryIsCurrent
  <2>1. registry[w] \in BuiltRegistries /\ HoldsTheRows(registry[w])
    BY SettingsParts DEF Registries, NotBuilt, SettingsInv
  <2>2. \A k \in Kinds : registry[w].config[k] = Config[k]
    BY <2>1, VersionAndConfig DEF HoldsTheRows, VersionOf
  <2>. QED  BY <2>1, <2>2, VersionAndConfig DEF BuiltRegistries
<1>. QED  BY SettingsInitInv, SettingsStep, <1>1, PTL DEF SettingsSpec

\* get_or_create and the forms: a row is the environment's or one form as a
\* whole, whoever creates it at the same moment, unless two forms overlapped.
THEOREM FormsAreKeptWhole == SettingsSpec => []RowIsOneForm
<1>1. SettingsInv => RowIsOneForm
  BY DEF SettingsInv
<1>. QED  BY SettingsInitInv, SettingsStep, <1>1, PTL DEF SettingsSpec

\* get_or_create inserts or leaves alone, and only a form moves a stamp: on.
THEOREM SeedingLeavesRowsAlone == SettingsSpec => SeedingOverwritesNothing
<1>1. ASSUME SettingsInv, [SettingsNext]_settingsVars, NEW k \in Kinds, Present(k)
      PROVE  settings'[k].updated_at >= settings[k].updated_at
  <2>1. /\ settings \in [Kinds -> SettingsRows \cup {Absent}]
        /\ stamp \in Nat /\ settings[k] \in SettingsRows /\ settings[k].updated_at \in Int
        /\ settings[k].updated_at <= stamp /\ Created(k) = settings[k]
    BY <1>1, SettingsParts, SettingsAssumption
    DEF SettingsInv, Present, Created, SettingsRows
  <2>2. CASE settings'[k] \in {settings[k], Created(k)}
    BY <2>1, <2>2
  <2>3. ASSUME NEW a \in Admins, SaveForm(a)
        PROVE  settings'[k].updated_at >= settings[k].updated_at
    <3>1. settings'[k] = settings[k] \/ settings'[k].updated_at = stamp + 1
      BY <2>1, <2>3 DEF SaveForm
    <3>. QED  BY <2>1, <3>1
  <2>4. ASSUME NEW a \in Admins, NEW j \in Kinds, NEW fs \in [Fields -> Values],
               LoadForm(a, j, fs)
        PROVE  settings'[k].updated_at >= settings[k].updated_at
    BY <1>1, <2>2, <2>4, InsertedRows DEF LoadForm
  <2>5. ASSUME NEW c \in Callers, SeedRow(c)
        PROVE  settings'[k].updated_at >= settings[k].updated_at
    BY <1>1, <2>2, <2>5 DEF SeedRow, Inserted, Seed, Present
  <2>6. ASSUME NEW w \in Workers, NEW j \in Kinds, AskVersion(w, j) \/ ReadRow(w, j)
        PROVE  settings'[k].updated_at >= settings[k].updated_at
    BY <1>1, <2>2, <2>6, InsertedRows DEF AskVersion, ReadRow
  <2>7. CASE UNCHANGED settings
    BY <2>2, <2>7
  <2>. QED
    BY <1>1, <2>3, <2>4, <2>5, <2>6, <2>7
    DEF SettingsNext, settingsVars, BeginWork, MissRow, EndWork, DropForm, KeepRegistry,
        BuildRegistry, ResetRegistry
<1>2. SettingsInv /\ [SettingsNext]_settingsVars
        => [\A k \in Kinds : Present(k) => settings'[k].updated_at >= settings[k].updated_at]_settingsVars
  BY <1>1
<1>. QED
  BY SettingsInitInv, SettingsStep, <1>2, PTL DEF SettingsSpec, SeedingOverwritesNothing

-----------------------------------------------------------------------------
(***************************************************************************)
(* AI assistance.  A request under way holds settings that once were valid,*)
(* and, unless it was overtaken, the ceiling of the row as it is; so what  *)
(* it has loaded is cleared by that row until somebody changes a marking   *)
(* or the row, and either overtakes it.                                    *)
(***************************************************************************)
Assists ==
  {Waiting, Crashed}
  \cup [op : {"refused"}, why : {"off", "ceiling"}, off : BOOLEAN]
  \cup [op : {"resolved"}, cfg : ProviderRows, raced : BOOLEAN]
  \cup [op : {"loaded"}, cfg : ProviderRows, raced : BOOLEAN, payload : SUBSET Marked]
  \cup [op : {"sent"}, host : {"provider"} \cup Urls, raced : BOOLEAN,
        backend : Backends, over : SUBSET Marked]
  \cup [op : {"accept"}, m : Marked, stamps : SUBSET AIFields,
        new : SUBSET AIFields, version : 0..MaxVersion]

\* What holds of a request, given markings and the provider's row.
InOrder(q) ==
  /\ q.op = "resolved" =>
       /\ ValidSelection(q.cfg)
       /\ q.raced \/ q.cfg.ceiling = provider.ceiling
  /\ q.op = "loaded" =>
       /\ ValidSelection(q.cfg) /\ q.cfg.backend # "none"
       /\ q.raced \/ \A m \in q.payload : Cleared(m, provider)
  /\ q.op = "sent" =>
       /\ q.over = {} \/ q.raced
       /\ q.host = IF q.backend = "openai" THEN "provider" ELSE Approved

AIInv ==
  /\ AITypeOK /\ call \in [Assistants -> Assists]
  /\ \A c \in Assistants : InOrder(call[c])
-----------------------------------------------------------------------------
LEMMA AssistFields ==
  ASSUME NEW q \in Assists
  PROVE  /\ q.op \in {"waiting", "crashed", "refused", "resolved", "loaded", "sent", "accept"}
         /\ q.op = "waiting" => q = Waiting
         /\ q.op = "resolved" => q.cfg \in ProviderRows /\ q.raced \in BOOLEAN
         /\ q.op = "loaded" => /\ q.cfg \in ProviderRows /\ q.raced \in BOOLEAN
                               /\ q.payload \in SUBSET Marked
         /\ q.op = "accept" => /\ q.m \in Marked /\ q.stamps \in SUBSET AIFields
                               /\ q.new \in SUBSET AIFields
  BY DEF Assists, Waiting, Crashed

LEMMA AITyped ==
  AITypeOK <=> /\ mark \in [Marked -> Ceilings]
               /\ provider \in ProviderRows
               /\ \A c \in Assistants : call[c] \in Assists
               /\ stamps \in [Marked -> SUBSET AIFields]
               /\ confirmed \in [Reports -> SUBSET AIFields]
               /\ version \in [Reports -> 0..MaxVersion]
  BY DEF AITypeOK, Assists

LEMMA Overtaking ==
  ASSUME NEW q \in Assists, q.op \in {"resolved", "loaded"}
  PROVE  /\ [q EXCEPT !.raced = TRUE] \in Assists
         /\ [q EXCEPT !.raced = TRUE].op = q.op
         /\ [q EXCEPT !.raced = TRUE].raced = TRUE
         /\ [q EXCEPT !.raced = TRUE].cfg = q.cfg
<1>1. CASE q.op = "resolved"
  <2>1. q \in [op : {"resolved"}, cfg : ProviderRows, raced : BOOLEAN]
    BY <1>1 DEF Assists, Waiting, Crashed
  <2>. QED  BY <2>1 DEF Assists
<1>2. CASE q.op = "loaded"
  <2>1. q \in [op : {"loaded"}, cfg : ProviderRows, raced : BOOLEAN,
               payload : SUBSET Marked]
    BY <1>2 DEF Assists, Waiting, Crashed
  <2>. QED  BY <2>1 DEF Assists
<1>. QED  BY <1>1, <1>2

\* What a request resolves to is valid, and has the ceiling of the row.
LEMMA ResolvedIsValid ==
  ASSUME NEW row \in ProviderRows
  PROVE  /\ Resolve(row) \in ProviderRows
         /\ ValidSelection(Resolve(row))
         /\ Resolve(row).ceiling = row.ceiling
  BY DEF ProviderRows, Backends, Resolve, ValidSelection, UrlIsPinned
LEMMA AIInitInv == AIInit => AIInv
<1> SUFFICES ASSUME AIInit PROVE AIInv
  OBVIOUS
<1>1. provider \in ProviderRows
  BY AIAssumption DEF AIInit, ProviderRows, Backends, Urls
<1>2. call \in [Assistants -> Assists]
  BY DEF AIInit, Assists
<1>3. mark \in [Marked -> Ceilings] /\ version \in [Reports -> 0..MaxVersion]
  BY AIAssumption DEF AIInit
<1>4. stamps \in [Marked -> SUBSET AIFields] /\ confirmed \in [Reports -> SUBSET AIFields]
  BY DEF AIInit
<1>5. AITypeOK
  BY <1>1, <1>2, <1>3, <1>4, AITyped
<1>. QED  BY <1>2, <1>5 DEF AIInit, AIInv, InOrder, Waiting

\* One request takes up a new state; markings and row stay.
LEMMA RequestMoves ==
  ASSUME AIInv, NEW c \in Assistants, NEW q \in Assists, InOrder(q),
         call' = [call EXCEPT ![c] = q], UNCHANGED <<mark, provider>>,
         stamps' \in [Marked -> SUBSET AIFields],
         confirmed' \in [Reports -> SUBSET AIFields],
         version' \in [Reports -> 0..MaxVersion]
  PROVE  AIInv'
<1>1. \A d \in Assistants : call'[d] = IF d = c THEN q ELSE call[d]
  BY DEF AIInv
<1>2. call' \in [Assistants -> Assists]
  BY DEF AIInv
<1>3. AITypeOK'
  BY <1>2 DEF AIInv, AITypeOK, Assists
<1>4. ASSUME NEW d \in Assistants PROVE InOrder(call[d])'
  BY <1>1, <1>4 DEF AIInv, InOrder, Cleared
<1>. QED  BY <1>2, <1>3, <1>4 DEF AIInv

\* Markings or the row change, and every request under way is overtaken.
LEMMA EverythingOvertaken ==
  ASSUME AIInv, mark' \in [Marked -> Ceilings], provider' \in ProviderRows,
         version' \in [Reports -> 0..MaxVersion],
         call' = Overtaken, UNCHANGED <<stamps, confirmed>>
  PROVE  AIInv'
<1>1. \A c \in Assistants : call[c] \in Assists
  BY AITyped DEF AIInv
<1>2. \A c \in Assistants :
        call'[c] = IF call[c].op \in {"resolved", "loaded"}
                   THEN [call[c] EXCEPT !.raced = TRUE] ELSE call[c]
  BY DEF Overtaken
<1>3. call' \in [Assistants -> Assists]
  BY <1>1, <1>2, Overtaking DEF Overtaken
<1>4. AITypeOK'
  BY <1>3 DEF AIInv, AITypeOK, Assists
<1>5. ASSUME NEW c \in Assistants PROVE InOrder(call[c])'
  <2>1. CASE call[c].op \in {"resolved", "loaded"}
    <3>1. /\ call'[c].op = call[c].op /\ call'[c].raced = TRUE
          /\ call'[c].cfg = call[c].cfg
      BY <1>1, <1>2, <2>1, Overtaking
    <3>. QED  BY <2>1, <3>1, <1>5 DEF AIInv, InOrder, ValidSelection, UrlIsPinned
  <2>2. CASE call[c].op \notin {"resolved", "loaded"}
    BY <1>2, <1>5, <2>2 DEF AIInv, InOrder
  <2>. QED  BY <2>1, <2>2
<1>. QED  BY <1>3, <1>4, <1>5 DEF AIInv

LEMMA AIStep == AIInv /\ [AINext]_aiVars => AIInv'
<1> SUFFICES ASSUME AIInv, [AINext]_aiVars PROVE AIInv'
  OBVIOUS
<1>. /\ mark \in [Marked -> Ceilings] /\ provider \in ProviderRows
     /\ stamps \in [Marked -> SUBSET AIFields] /\ confirmed \in [Reports -> SUBSET AIFields]
     /\ version \in [Reports -> 0..MaxVersion]
  BY DEF AIInv, AITypeOK
<1>t. \A c \in Assistants : call[c] \in Assists /\ InOrder(call[c])
  BY AITyped DEF AIInv
<1>w. Waiting \in Assists /\ Crashed \in Assists /\ InOrder(Waiting) /\ InOrder(Crashed)
  BY DEF Assists, InOrder, Waiting, Crashed
<1>r. ASSUME NEW c \in Assistants, NEW why \in {"off", "ceiling"}
      PROVE  Refused(c, why) \in Assists /\ InOrder(Refused(c, why))
  BY DEF Refused, Off, Assists, InOrder
\* what a request loads: only what its own ceiling clears
<1>l. ASSUME NEW c \in Assistants, call[c].op = "resolved", ~Off(c),
             NEW payload \in SUBSET Marked, \A m \in payload : Cleared(m, call[c].cfg)
      PROVE  Loaded(c, payload) \in Assists /\ InOrder(Loaded(c, payload))
  <2>1. call[c].cfg \in ProviderRows /\ call[c].raced \in BOOLEAN
    BY <1>t, <1>l, AssistFields
  <2>2. Loaded(c, payload) \in Assists
    BY <2>1, <1>l DEF Loaded, Assists
  <2>3. ValidSelection(call[c].cfg)
        /\ (call[c].raced \/ call[c].cfg.ceiling = provider.ceiling)
    BY <1>t, <1>l DEF InOrder
  <2>4. InOrder(Loaded(c, payload))
    BY <2>3, <1>l DEF InOrder, Loaded, Off, Cleared
  <2>. QED  BY <2>2, <2>4
<1>1. ASSUME NEW m \in Marked, NEW t \in Ceilings, Mark(m, t) PROVE AIInv'
  <2>1. mark' \in [Marked -> Ceilings] /\ version' \in [Reports -> 0..MaxVersion]
    BY <1>1, AIAssumption DEF Mark
  <2>. QED  BY <2>1, <1>1, EverythingOvertaken DEF Mark
<1>2. ASSUME NEW row \in Tried, SaveProvider(row) \/ EditProvider(row) PROVE AIInv'
  <2>1. row \in ProviderRows /\ Coerced(row) \in ProviderRows
    BY AIAssumption DEF Coerced, ProviderRows
  <2>. QED  BY <2>1, <1>2, EverythingOvertaken DEF SaveProvider, EditProvider
<1>3. ASSUME NEW c \in Assistants, BeginAssist(c) PROVE AIInv'
  <2> DEFINE q == [op |-> "resolved", cfg |-> Resolve(provider), raced |-> FALSE]
  <2>1. q \in Assists /\ InOrder(q)
    BY ResolvedIsValid DEF Assists, InOrder
  <2>. QED  BY <2>1, <1>3, RequestMoves DEF BeginAssist
<1>4. ASSUME NEW c \in Assistants, NEW r \in Reports, NEW S \in {{}, Sources},
             LoadReport(c, r, S)
      PROVE  AIInv'
  <2> DEFINE q == IF CannotGate(S, c) THEN Crashed
                  ELSE IF Off(c) THEN Refused(c, "off")
                  ELSE IF ~Cleared(r, call[c].cfg) THEN Refused(c, "ceiling")
                  ELSE Loaded(c, {r} \cup Sendable(S, call[c].cfg))
  <2>1. q \in Assists /\ InOrder(q)
    <3>1. CASE CannotGate(S, c) \/ Off(c) \/ ~Cleared(r, call[c].cfg)
      BY <3>1, <1>w, <1>r
    <3>2. CASE ~CannotGate(S, c) /\ ~Off(c) /\ Cleared(r, call[c].cfg)
      <4>1. {r} \cup Sendable(S, call[c].cfg) \in SUBSET Marked
        BY DEF Sendable, Marked
      <4>2. \A m \in {r} \cup Sendable(S, call[c].cfg) : Cleared(m, call[c].cfg)
        BY <3>2 DEF Sendable
      <4>3. call[c].op = "resolved"
        BY <1>4 DEF LoadReport
      <4>. QED  BY <3>2, <4>1, <4>2, <4>3, <1>l
    <3>. QED  BY <3>1, <3>2
  <2>. QED  BY <2>1, <1>4, RequestMoves DEF LoadReport
<1>5. ASSUME NEW c \in Assistants, NEW s \in Sources, LoadSource(c, s) PROVE AIInv'
  <2> DEFINE q == IF Off(c) THEN Refused(c, "off")
                  ELSE IF ~Cleared(s, call[c].cfg) THEN Refused(c, "ceiling")
                  ELSE Loaded(c, {s})
  <2>1. q \in Assists /\ InOrder(q)
    <3>1. {s} \in SUBSET Marked /\ call[c].op = "resolved"
      BY <1>5 DEF LoadSource, Marked
    <3>. QED  BY <3>1, <1>r, <1>l
  <2>. QED  BY <2>1, <1>5, RequestMoves DEF LoadSource
<1>6. ASSUME NEW c \in Assistants, LoadNotebook(c) PROVE AIInv'
  <2> DEFINE q == IF CannotGate(Reports, c) THEN Crashed
                  ELSE IF Sendable(Reports, call[c].cfg) = {} THEN Refused(c, "ceiling")
                  ELSE IF Off(c) THEN Refused(c, "off")
                  ELSE Loaded(c, Sendable(Reports, call[c].cfg))
  <2>1. q \in Assists /\ InOrder(q)
    <3>1. /\ Sendable(Reports, call[c].cfg) \in SUBSET Marked
          /\ call[c].op = "resolved"
          /\ \A m \in Sendable(Reports, call[c].cfg) : Cleared(m, call[c].cfg)
      BY <1>6 DEF LoadNotebook, Sendable, Marked
    <3>. QED  BY <3>1, <1>w, <1>r, <1>l
  <2>. QED  BY <2>1, <1>6, RequestMoves DEF LoadNotebook
<1>7. ASSUME NEW c \in Assistants, Dispatch(c) PROVE AIInv'
  <2> DEFINE cfg == call[c].cfg
             q == IF Host(cfg) = NoUrl THEN Waiting
                  ELSE [op |-> "sent", host |-> Host(cfg), raced |-> call[c].raced,
                        backend |-> cfg.backend,
                        over |-> {m \in call[c].payload : ~Cleared(m, provider)}]
  <2>1. /\ cfg \in ProviderRows /\ call[c].raced \in BOOLEAN
        /\ call[c].payload \in SUBSET Marked
    BY <1>7, <1>t, AssistFields DEF Dispatch
  <2>2. /\ cfg.backend # "none" /\ UrlIsPinned(cfg)
        /\ call[c].raced \/ \A m \in call[c].payload : Cleared(m, provider)
    BY <1>7, <1>t DEF Dispatch, InOrder, ValidSelection
  <2>3. cfg.backend \in {"openai", "compatible"}
    BY <2>1, <2>2 DEF ProviderRows, Backends
  <2>4. Host(cfg) = IF cfg.backend = "openai" THEN "provider" ELSE Approved
    BY <2>2, <2>3 DEF Host, UrlIsPinned
  <2>5. q \in Assists
    BY <2>1, <2>3, <2>4, <1>w, AIAssumption DEF Assists, Backends
  <2>6. InOrder(q)
    BY <2>2, <2>4, <1>w DEF InOrder
  <2>7. call' = [call EXCEPT ![c] = q]
    BY <1>7 DEF Dispatch
  <2>. QED  BY <2>5, <2>6, <2>7, <1>7, RequestMoves DEF Dispatch
<1>8. ASSUME NEW c \in Assistants, Answer(c) PROVE AIInv'
  BY <1>8, <1>w, RequestMoves DEF Answer
<1>9. ASSUME NEW c \in Assistants, NEW m \in Marked, NEW fs \in SUBSET AIFields \ {{}},
             BeginAccept(c, m, fs)
      PROVE  AIInv'
  <2> DEFINE q == [op |-> "accept", m |-> m, stamps |-> stamps[m] \cup fs, new |-> fs,
                   version |-> IF m \in Reports THEN version[m] ELSE 0]
  <2>1. q \in Assists /\ InOrder(q)
    BY AIAssumption DEF Assists, InOrder
  <2>. QED  BY <2>1, <1>9, RequestMoves DEF BeginAccept
<1>10. ASSUME NEW c \in Assistants, CommitAccept(c) PROVE AIInv'
  <2>1. /\ call[c].m \in Marked /\ call[c].stamps \in SUBSET AIFields
        /\ call[c].new \in SUBSET AIFields
    BY <1>10, <1>t, AssistFields DEF CommitAccept
  <2>2. stamps' \in [Marked -> SUBSET AIFields]
    BY <1>10, <2>1 DEF CommitAccept
  <2>3. confirmed' \in [Reports -> SUBSET AIFields] /\ version' \in [Reports -> 0..MaxVersion]
    BY <1>10, <2>1, AIAssumption DEF CommitAccept
  <2>. QED  BY <2>2, <2>3, <1>10, <1>w, RequestMoves DEF CommitAccept
<1>11. CASE UNCHANGED aiVars
  BY <1>11 DEF aiVars, AIInv, AITypeOK, InOrder, Cleared
<1>. QED
  BY <1>1, <1>2, <1>3, <1>4, <1>5, <1>6, <1>7, <1>8, <1>9, <1>10, <1>11 DEF AINext
-----------------------------------------------------------------------------
\* Every request to the AI provider is in one of the states of api/ai.py.
THEOREM AITypeCorrect == AISpec => []AITypeOK
<1>1. AIInv => AITypeOK
  BY DEF AIInv
<1>. QED  BY AIInitInv, AIStep, <1>1, PTL DEF AISpec

\* The gate of services/ai.py, for any number of requests, reports and changes
\* of marking or settings: nothing above the ceiling leaves unless it was
\* overtaken, and the key goes to no host but the provider's or the operator's.
THEOREM NothingLeavesUncleared == AISpec => []EgressIsCleared
<1>1. AIInv => EgressIsCleared
  BY DEF AIInv, InOrder, EgressIsCleared
<1>. QED  BY AIInitInv, AIStep, <1>1, PTL DEF AISpec

-----------------------------------------------------------------------------
\* Whoever is about to stamp a report that has not changed holds all its stamps.
HoldsTheStamps(q) ==
  q.op = "accept" =>
    /\ q.new \subseteq q.stamps
    /\ q.m \in Reports =>
         /\ q.version <= version[q.m]
         /\ q.version = version[q.m] => confirmed[q.m] \subseteq q.stamps

StampInv ==
  AIInv /\ ReportStampsStay /\ \A c \in Assistants : HoldsTheStamps(call[c])

LEMMA StampStep == StampInv /\ [AINext]_aiVars => StampInv'
<1> SUFFICES ASSUME StampInv, [AINext]_aiVars PROVE StampInv'
  OBVIOUS
<1>. /\ stamps \in [Marked -> SUBSET AIFields] /\ confirmed \in [Reports -> SUBSET AIFields]
     /\ version \in [Reports -> 0..MaxVersion] /\ call \in [Assistants -> Assists]
     /\ Reports \subseteq Marked /\ MaxVersion \in Nat
     /\ AIInv' /\ \A r \in Reports : confirmed[r] \subseteq stamps[r]
  BY AIStep, AIAssumption DEF StampInv, AIInv, AITypeOK, Marked, ReportStampsStay
<1>t. \A c \in Assistants : call[c] \in Assists /\ HoldsTheStamps(call[c])
  BY DEF StampInv
<1>f. ASSUME NEW c \in Assistants, call[c].op = "accept"
      PROVE  /\ call[c].m \in Marked /\ call[c].stamps \in SUBSET AIFields
             /\ call[c].new \in SUBSET AIFields /\ call[c].version \in Int
  BY <1>t, <1>f DEF Assists, Waiting, Crashed
\* stamps stay, versions may go up, and of the requests that accept one may
\* give up
<1>s. ASSUME UNCHANGED <<stamps, confirmed>>,
             version' \in [Reports -> Int], \A r \in Reports : version'[r] >= version[r],
             \A c \in Assistants : call'[c].op = "accept" => call'[c] = call[c]
      PROVE  StampInv'
  <2>1. ASSUME NEW c \in Assistants PROVE HoldsTheStamps(call[c])'
    <3>1. CASE call'[c].op # "accept"
      BY <3>1 DEF HoldsTheStamps
    <3>2. CASE call'[c].op = "accept"
      <4>1. call'[c] = call[c] /\ HoldsTheStamps(call[c]) /\ call[c].version \in Int
        BY <3>2, <1>s, <1>t, <1>f
      <4>2. ASSUME call[c].m \in Reports
            PROVE  version[call[c].m] \in Int /\ version'[call[c].m] >= version[call[c].m]
                   /\ version'[call[c].m] \in Int
        BY <4>2, <1>s
      <4>. QED  BY <4>1, <4>2, <3>2, <1>s DEF HoldsTheStamps
    <3>. QED  BY <3>1, <3>2
  <2>. QED  BY <2>1, <1>s DEF StampInv, ReportStampsStay
<1>1. ASSUME NEW m \in Marked, NEW t \in Ceilings, Mark(m, t) PROVE StampInv'
  <2>1. version' \in [Reports -> Int] /\ \A r \in Reports : version'[r] >= version[r]
    BY <1>1 DEF Mark
  <2>2. \A c \in Assistants : call'[c].op = "accept" => call'[c] = call[c]
    BY <1>1, <1>t, Overtaking DEF Mark, Overtaken
  <2>. QED  BY <2>1, <2>2, <1>1, <1>s DEF Mark
<1>2. ASSUME NEW row \in Tried, SaveProvider(row) \/ EditProvider(row) PROVE StampInv'
  <2>1. UNCHANGED <<stamps, confirmed, version>> /\ call' = Overtaken
    BY <1>2 DEF SaveProvider, EditProvider
  <2>2. \A c \in Assistants : call'[c].op = "accept" => call'[c] = call[c]
    BY <2>1, <1>t, Overtaking DEF Overtaken
  <2>. QED  BY <2>1, <2>2, <1>s
\* a request moves on that is not about to stamp
<1>m. ASSUME NEW c \in Assistants, NEW q, q.op # "accept", call' = [call EXCEPT ![c] = q],
             UNCHANGED <<stamps, confirmed, version>>
      PROVE  StampInv'
  BY <1>m, <1>s
<1>w. /\ Waiting.op # "accept" /\ Crashed.op # "accept"
      /\ \A c \in Assistants, why \in {"off", "ceiling"} : Refused(c, why).op # "accept"
      /\ \A c \in Assistants, S \in SUBSET Marked : Loaded(c, S).op # "accept"
  BY DEF Waiting, Crashed, Refused, Loaded
<1>3. ASSUME NEW c \in Assistants, BeginAssist(c) PROVE StampInv'
  BY <1>3, <1>m DEF BeginAssist
<1>4. ASSUME NEW c \in Assistants,
             \/ \E r \in Reports, S \in {{}, Sources} : LoadReport(c, r, S)
             \/ \E s \in Sources : LoadSource(c, s)
             \/ LoadNotebook(c)
      PROVE  StampInv'
  <2>1. /\ UNCHANGED <<stamps, confirmed, version>>
        /\ \E q : q.op # "accept" /\ call' = [call EXCEPT ![c] = q]
    BY <1>4 DEF LoadReport, LoadSource, LoadNotebook, Waiting, Crashed, Refused, Loaded
  <2>. QED  BY <2>1, <1>m
<1>5. ASSUME NEW c \in Assistants, Dispatch(c) \/ Answer(c) PROVE StampInv'
  <2>1. /\ UNCHANGED <<stamps, confirmed, version>>
        /\ \E q : q.op # "accept" /\ call' = [call EXCEPT ![c] = q]
    BY <1>5 DEF Dispatch, Answer, Waiting
  <2>. QED  BY <2>1, <1>m
<1>6. ASSUME NEW c \in Assistants, NEW m \in Marked, NEW fs \in SUBSET AIFields \ {{}},
             BeginAccept(c, m, fs)
      PROVE  StampInv'
  <2> DEFINE q == [op |-> "accept", m |-> m, stamps |-> stamps[m] \cup fs, new |-> fs,
                   version |-> IF m \in Reports THEN version[m] ELSE 0]
  <2>1. call' = [call EXCEPT ![c] = q] /\ UNCHANGED <<stamps, confirmed, version>>
    BY <1>6 DEF BeginAccept
  <2>2. HoldsTheStamps(q)
    BY DEF HoldsTheStamps
  <2>3. \A d \in Assistants : HoldsTheStamps(call'[d])
    BY <2>1, <2>2, <1>t
  <2>. QED  BY <2>1, <2>3 DEF StampInv, ReportStampsStay, HoldsTheStamps
<1>7. ASSUME NEW c \in Assistants, CommitAccept(c) PROVE StampInv'
  <2>1. call[c].op = "accept" /\ call' = [call EXCEPT ![c] = Waiting]
    BY <1>7 DEF CommitAccept
  <2> DEFINE m == call[c].m
  <2>2. CASE ~FreshReport(c)
    BY <1>7, <2>2, <1>w, <1>m DEF CommitAccept
  <2>3. CASE FreshReport(c) /\ m \notin Reports
    <3>1. /\ stamps' = [stamps EXCEPT ![m] = call[c].stamps] /\ UNCHANGED <<version, confirmed>>
      BY <1>7, <2>3 DEF CommitAccept
    <3>2. ReportStampsStay'
      BY <3>1, <2>3 DEF ReportStampsStay
    <3>3. \A d \in Assistants : HoldsTheStamps(call[d])'
      BY <1>t, <3>1, <2>1, <1>w DEF HoldsTheStamps
    <3>. QED  BY <3>2, <3>3 DEF StampInv
  <2>4. CASE FreshReport(c) /\ m \in Reports
    <3>1. /\ stamps' = [stamps EXCEPT ![m] = call[c].stamps]
          /\ version' = [version EXCEPT ![m] = @ + 1]
          /\ confirmed' = [confirmed EXCEPT ![m] = @ \cup call[c].new]
      BY <1>7, <2>4 DEF CommitAccept
    <3>2. confirmed[m] \subseteq call[c].stamps /\ call[c].new \subseteq call[c].stamps
      BY <2>1, <2>4, <1>t DEF HoldsTheStamps, FreshReport
    <3>3. ReportStampsStay'
      BY <3>1, <3>2, <2>4 DEF ReportStampsStay
    <3>4. ASSUME NEW d \in Assistants PROVE HoldsTheStamps(call[d])'
      <4>1. CASE call'[d].op # "accept"
        BY <4>1 DEF HoldsTheStamps
      <4>2. CASE call'[d].op = "accept"
        <5>1. call'[d] = call[d] /\ HoldsTheStamps(call[d]) /\ call[d].version \in Int
          BY <4>2, <2>1, <1>w, <1>t, <1>f
        <5>2. version[m] \in Int /\ version'[m] = version[m] + 1
          BY <3>1, <2>4
        <5>3. CASE call[d].m = m
          BY <5>1, <5>2, <5>3, <4>2, <2>4 DEF HoldsTheStamps
        <5>4. CASE call[d].m # m
          BY <5>1, <5>4, <4>2, <3>1 DEF HoldsTheStamps
        <5>. QED  BY <5>3, <5>4
      <4>. QED  BY <4>1, <4>2
    <3>. QED  BY <3>3, <3>4 DEF StampInv
  <2>. QED  BY <2>2, <2>3, <2>4
<1>8. CASE UNCHANGED aiVars
  BY <1>8, <1>s DEF aiVars
<1>. QED
  BY <1>1, <1>2, <1>3, <1>4, <1>5, <1>6, <1>7, <1>8 DEF AINext

\* The optimistic lock of a report keeps its AI provenance: a confirmation that
\* an analyst gave on a report is on the report, however acceptances overlap.
THEOREM StampsStay == AISpec => []ReportStampsStay
<1>1. AIInit => StampInv
  <2> SUFFICES ASSUME AIInit PROVE StampInv
    OBVIOUS
  <2>1. ReportStampsStay /\ \A c \in Assistants : HoldsTheStamps(call[c])
    BY DEF AIInit, ReportStampsStay, HoldsTheStamps, Waiting, Marked
  <2>. QED  BY <2>1, AIInitInv DEF StampInv
<1>2. StampInv => ReportStampsStay
  BY DEF StampInv
<1>. QED  BY <1>1, <1>2, StampStep, PTL DEF AISpec

-----------------------------------------------------------------------------
(***************************************************************************)
(* Demo workspaces.  One transaction at a time holds the row, and what it  *)
(* is about to write was read under that lock: the scenarios there are,    *)
(* and a guest who is the one there is, if there is one.                   *)
(***************************************************************************)
Visits ==
  {Elsewhere} \cup [op : {"join"}, guest : Guests]
  \cup [op : {"reset"}, expected : 0..MaxGeneration]
  \cup [op : {"locked"}, scenes : SUBSET Scenes, for : People, row : WorkspaceRows]

HoldsTheRow(q) ==
  /\ q.scenes = scenes
  /\ q.row.guest = q.for /\ workspace.guest \in {Nobody, q.for}
  /\ workspace # NoWorkspace /\ q.row.generation >= workspace.generation

DemoInv ==
  /\ DemoTypeOK /\ OneScenarioForItsGuest
  /\ workspace # NoWorkspace => workspace.generation > 0
  /\ \A v \in Visitors :
       /\ visit[v].op = "locked" => HoldsTheRow(visit[v])
       /\ visit[v].op = "reset" => visit[v].expected \in 1..(MaxGeneration - 1)
  /\ \A v, u \in Visitors : visit[v].op = "locked" /\ visit[u].op = "locked" => u = v
-----------------------------------------------------------------------------
LEMMA VisitFields ==
  ASSUME NEW q \in Visits
  PROVE  /\ q.op = "join" => q.guest \in Guests
         /\ q.op = "reset" => q.expected \in 0..MaxGeneration
         /\ q.op = "locked" => /\ q.scenes \in SUBSET Scenes /\ q.for \in People
                               /\ q.row \in WorkspaceRows
  BY DEF Visits, Elsewhere

LEMMA NoWorkspaceIsARow == NoWorkspace \in WorkspaceRows
  BY DemoAssumption DEF NoWorkspace, WorkspaceRows, People

LEMMA DemoInitInv == DemoInit => DemoInv
<1> SUFFICES ASSUME DemoInit PROVE DemoInv
  OBVIOUS
<1>1. DemoTypeOK
  BY NoWorkspaceIsARow, DemoAssumption DEF DemoInit, DemoTypeOK, Elsewhere
<1>2. OneScenarioForItsGuest
  BY DEF DemoInit, OneScenarioForItsGuest, NoWorkspace
<1>. QED  BY <1>1, <1>2 DEF DemoInit, DemoInv, Elsewhere

\* A visit that takes up a state which does not hold the row.
LEMMA VisitMoves ==
  ASSUME DemoInv, NEW v \in Visitors, NEW q \in Visits, q.op # "locked",
         q.op = "reset" => q.expected \in 1..(MaxGeneration - 1),
         visit' = [visit EXCEPT ![v] = q], UNCHANGED <<workspace, scenes, made>>
  PROVE  DemoInv'
<1>1. visit \in [Visitors -> Visits]
  BY DEF DemoInv, DemoTypeOK, Visits
<1>2. visit' \in [Visitors -> Visits]
  BY <1>1
<1>3. \A u \in Visitors : visit'[u] = IF u = v THEN q ELSE visit[u]
  BY <1>1
<1>4. DemoTypeOK'
  BY <1>2 DEF DemoInv, DemoTypeOK, Visits
<1>5. OneScenarioForItsGuest'
  BY DEF DemoInv, OneScenarioForItsGuest
<1>6. ASSUME NEW u \in Visitors
      PROVE  /\ visit'[u].op = "locked" => HoldsTheRow(visit[u])' /\ visit[u].op = "locked"
             /\ visit'[u].op = "reset" => visit'[u].expected \in 1..(MaxGeneration - 1)
  <2>1. CASE u = v
    BY <1>3, <2>1
  <2>2. CASE u # v
    BY <1>3, <2>2 DEF DemoInv, HoldsTheRow
  <2>. QED  BY <2>1, <2>2
<1>. QED  BY <1>4, <1>5, <1>6 DEF DemoInv

\* A visit that finds nobody holding the row, and takes it with what it read.
LEMMA VisitLocks ==
  ASSUME DemoInv, NEW v \in Visitors, ~Locked, NEW q \in Visits, q.op = "locked",
         HoldsTheRow(q), visit' = [visit EXCEPT ![v] = q],
         UNCHANGED <<workspace, scenes, made>>
  PROVE  DemoInv'
<1>1. visit \in [Visitors -> Visits]
  BY DEF DemoInv, DemoTypeOK, Visits
<1>2. visit' \in [Visitors -> Visits]
  BY <1>1
<1>3. \A u \in Visitors : visit'[u] = IF u = v THEN q ELSE visit[u]
  BY <1>1
<1>4. DemoTypeOK'
  BY <1>2 DEF DemoInv, DemoTypeOK, Visits
<1>5. OneScenarioForItsGuest'
  BY DEF DemoInv, OneScenarioForItsGuest
<1>6. ASSUME NEW u \in Visitors
      PROVE  /\ visit'[u].op = "locked" => u = v /\ HoldsTheRow(visit[u])'
             /\ visit'[u].op = "reset" => visit'[u].expected \in 1..(MaxGeneration - 1)
  <2>1. CASE u = v
    BY <1>3, <2>1 DEF HoldsTheRow
  <2>2. CASE u # v
    BY <1>3, <2>2 DEF DemoInv, Locked
  <2>. QED  BY <2>1, <2>2
<1>. QED  BY <1>4, <1>5, <1>6 DEF DemoInv

LEMMA DemoStep == DemoInv /\ [DemoNext]_demoVars => DemoInv'
<1> SUFFICES ASSUME DemoInv, [DemoNext]_demoVars PROVE DemoInv'
  OBVIOUS
<1>. /\ workspace \in WorkspaceRows /\ visit \in [Visitors -> Visits]
     /\ scenes \subseteq Scenes /\ made \in 0..MaxScenarios
     /\ OneScenarioForItsGuest
  BY DEF DemoInv, DemoTypeOK, Visits
<1>0. /\ workspace.generation \in 0..MaxGeneration /\ workspace.guest \in People
      /\ Elsewhere \in Visits /\ Elsewhere.op = "elsewhere"
  BY DEF WorkspaceRows, Visits, Elsewhere
<1>1. CASE UNCHANGED demoVars
  BY <1>1 DEF demoVars, DemoInv, DemoTypeOK, OneScenarioForItsGuest, HoldsTheRow
\* The row changes and its guest does not, while somebody may hold it.
<1>2. ASSUME workspace' \in WorkspaceRows, workspace'.guest = workspace.guest,
             workspace' # NoWorkspace, workspace'.generation > 0,
             workspace'.generation = workspace.generation \/ workspace = NoWorkspace,
             UNCHANGED <<visit, scenes, made>>
      PROVE  DemoInv'
  <2>1. DemoTypeOK'
    BY <1>2 DEF DemoTypeOK, Visits
  <2>2. OneScenarioForItsGuest'
    BY <1>2 DEF OneScenarioForItsGuest
  <2>3. \A v \in Visitors : visit[v].op = "locked" => HoldsTheRow(visit[v])'
    BY <1>2 DEF DemoInv, HoldsTheRow
  <2>. QED  BY <1>2, <2>1, <2>2, <2>3 DEF DemoInv, HoldsTheRow
<1>3. CASE StartDemo
  <2>1. workspace' \in WorkspaceRows
    BY <1>3, DemoAssumption DEF StartDemo, WorkspaceRows, People
  <2>2. workspace'.guest = workspace.guest /\ workspace'.generation = 1
    BY <1>3 DEF StartDemo, NoWorkspace
  <2>3. workspace' # NoWorkspace
    BY <2>2 DEF NoWorkspace
  <2>. QED  BY <1>2, <1>3, <2>1, <2>2, <2>3 DEF StartDemo
<1>4. CASE CodeExpires
  <2>1. /\ workspace' \in WorkspaceRows /\ workspace'.guest = workspace.guest
        /\ workspace'.generation = workspace.generation
    BY <1>4 DEF CodeExpires, WorkspaceRows
  <2>2. workspace.generation > 0
    BY <1>4 DEF CodeExpires, DemoInv
  <2>3. workspace' # NoWorkspace
    BY <1>0, <2>1, <2>2 DEF NoWorkspace
  <2>. QED  BY <1>2, <1>4, <2>1, <2>2, <2>3 DEF CodeExpires
<1>5. ASSUME NEW v \in Visitors, NEW g \in Guests, BeginJoin(v, g) PROVE DemoInv'
  <2>1. PICK q : q = [op |-> "join", guest |-> g]
    OBVIOUS
  <2>2. q \in Visits /\ q.op = "join"
    BY <2>1 DEF Visits
  <2>. QED  BY <1>5, <2>1, <2>2, VisitMoves DEF BeginJoin
<1>6. ASSUME NEW v \in Visitors, BeginReset(v) PROVE DemoInv'
  <2>1. PICK q : q = [op |-> "reset", expected |-> workspace.generation]
    OBVIOUS
  <2>2. q \in Visits /\ q.op = "reset"
    BY <1>0, <2>1 DEF Visits
  <2>3. workspace.generation \in 1..(MaxGeneration - 1)
    BY <1>0, <1>6, DemoAssumption DEF BeginReset, DemoInv
  <2>. QED  BY <1>6, <2>1, <2>2, <2>3, VisitMoves DEF BeginReset
<1>7. ASSUME NEW v \in Visitors, LeaveDemo(v) PROVE DemoInv'
  BY <1>0, <1>7, VisitMoves DEF LeaveDemo
<1>8. ASSUME NEW v \in Visitors, SwapGuest(v) PROVE DemoInv'
  <2>1. PICK g, row : /\ g = visit[v].guest
                      /\ row = [workspace EXCEPT !.guest = g, !.code = FALSE]
    OBVIOUS
  <2>2. g \in Guests
    BY <1>8, <2>1, VisitFields DEF SwapGuest
  <2>3. PICK q : q = [op |-> "locked", scenes |-> scenes, for |-> g, row |-> row]
    OBVIOUS
  <2>4. row \in WorkspaceRows /\ row.guest = g /\ row.generation = workspace.generation
    BY <2>1, <2>2 DEF WorkspaceRows, People
  <2>5. q \in Visits /\ q.op = "locked"
    BY <2>2, <2>3, <2>4 DEF Visits, People
  <2>6. CASE Vacant
    <3>1. workspace # NoWorkspace
      BY <2>6 DEF Vacant, NoWorkspace
    <3>2. HoldsTheRow(q)
      BY <1>0, <2>3, <2>4, <2>6, <3>1 DEF Vacant, HoldsTheRow
    <3>3. visit' = [visit EXCEPT ![v] = q]
      BY <1>8, <2>1, <2>3, <2>6 DEF SwapGuest
    <3>. QED  BY <1>8, <2>5, <3>2, <3>3, VisitLocks DEF SwapGuest
  <2>7. CASE ~Vacant
    BY <1>0, <1>8, <2>7, VisitMoves DEF SwapGuest
  <2>. QED  BY <2>6, <2>7
<1>9. ASSUME NEW v \in Visitors, SwapGeneration(v) PROVE DemoInv'
  <2>1. PICK n, row : n = visit[v].expected /\ row = [workspace EXCEPT !.generation = n + 1]
    OBVIOUS
  <2>2. n \in 1..(MaxGeneration - 1)
    BY <1>9, <2>1 DEF SwapGeneration, DemoInv
  <2>3. PICK q : q = [op |-> "locked", scenes |-> scenes, for |-> workspace.guest, row |-> row]
    OBVIOUS
  <2>4. row \in WorkspaceRows /\ row.guest = workspace.guest /\ row.generation = n + 1
    <3>1. n + 1 \in 0..MaxGeneration
      BY <2>2, DemoAssumption
    <3>. QED  BY <2>1, <3>1 DEF WorkspaceRows
  <2>5. q \in Visits /\ q.op = "locked"
    BY <1>0, <2>3, <2>4 DEF Visits
  <2>6. CASE SameGeneration(v)
    <3>1. workspace.generation = n
      BY <2>1, <2>6 DEF SameGeneration
    <3>2. workspace # NoWorkspace
      BY <2>2, <3>1 DEF NoWorkspace
    <3>3. HoldsTheRow(q)
      BY <2>2, <2>3, <2>4, <3>1, <3>2, DemoAssumption DEF HoldsTheRow
    <3>4. visit' = [visit EXCEPT ![v] = q]
      BY <1>9, <2>1, <2>3, <2>6 DEF SwapGeneration
    <3>. QED  BY <1>9, <2>5, <3>3, <3>4, VisitLocks DEF SwapGeneration
  <2>7. CASE ~SameGeneration(v)
    BY <1>0, <1>9, <2>7, VisitMoves DEF SwapGeneration
  <2>. QED  BY <2>6, <2>7
<1>10. ASSUME NEW v \in Visitors, ReplaceScenario(v) PROVE DemoInv'
  <2>1. PICK q : q = visit[v]
    OBVIOUS
  <2>2. /\ HoldsTheRow(q) /\ q.for \in People /\ q.row \in WorkspaceRows /\ q.op = "locked"
    BY <1>10, <2>1, VisitFields DEF ReplaceScenario, DemoInv
  <2>3. workspace' = [q.row EXCEPT !.expired = workspace.expired]
    BY <1>10, <2>1 DEF ReplaceScenario
  <2>4. /\ workspace' \in WorkspaceRows /\ workspace'.guest = q.for
        /\ workspace'.generation = q.row.generation
    BY <2>2, <2>3 DEF WorkspaceRows, HoldsTheRow
  <2>5. q.row.generation \in 0..MaxGeneration
    BY <2>2 DEF WorkspaceRows
  <2>6. workspace.generation > 0
    BY <2>2 DEF DemoInv, HoldsTheRow
  <2>7. workspace'.generation > 0 /\ workspace'.generation >= workspace.generation
    BY <1>0, <2>2, <2>4, <2>5, <2>6 DEF HoldsTheRow
  <2>8. visit' = [visit EXCEPT ![v] = Elsewhere]
    BY <1>10 DEF ReplaceScenario
  <2>9. \A u \in Visitors : visit'[u] = IF u = v THEN Elsewhere ELSE visit[u]
    BY <2>8
  <2>10. \A u \in Visitors : visit'[u].op # "locked"
    BY <1>0, <2>1, <2>2, <2>9 DEF DemoInv
  <2>11. \A u \in Visitors : visit'[u].op = "reset" => visit'[u].expected \in 1..(MaxGeneration - 1)
    BY <1>0, <2>9 DEF DemoInv
  <2>12. visit' \in [Visitors -> Visits]
    BY <1>0, <2>8
  <2>13. CASE q.for = Nobody
    <3>1. UNCHANGED <<scenes, made>>
      BY <1>10, <2>1, <2>13 DEF ReplaceScenario
    <3>2. workspace.guest = Nobody
      BY <2>2, <2>13 DEF HoldsTheRow
    <3>3. OneScenarioForItsGuest'
      BY <2>4, <2>13, <3>1, <3>2 DEF OneScenarioForItsGuest
    <3>4. DemoTypeOK'
      BY <2>4, <2>12, <3>1 DEF DemoTypeOK, Visits
    <3>. QED  BY <2>7, <2>10, <2>11, <3>3, <3>4 DEF DemoInv
  <2>14. CASE q.for # Nobody
    <3>1. made' = made + 1 /\ made < MaxScenarios
      BY <1>10, <2>1, <2>14 DEF ReplaceScenario
    <3>2. scenes' = {[number |-> made', guest |-> q.for]}
      <4>1. scenes' = (scenes \ q.scenes) \cup {[number |-> made + 1, guest |-> q.for]}
        BY <1>10, <2>1, <2>14 DEF ReplaceScenario
      <4>2. scenes \ q.scenes = {}
        BY <2>2 DEF HoldsTheRow
      <4>. QED  BY <3>1, <4>1, <4>2
    <3>3. made' \in 1..MaxScenarios /\ made' \in 0..MaxScenarios
      BY <3>1, DemoAssumption
    <3>4. q.for \in Guests
      BY <2>2, <2>14 DEF People
    <3>5. scenes' \subseteq Scenes
      BY <3>2, <3>3, <3>4 DEF Scenes
    <3>6. OneScenarioForItsGuest'
      BY <2>4, <2>14, <3>2 DEF OneScenarioForItsGuest
    <3>7. DemoTypeOK'
      BY <2>4, <2>12, <3>3, <3>5 DEF DemoTypeOK, Visits
    <3>. QED  BY <2>7, <2>10, <2>11, <3>6, <3>7 DEF DemoInv
  <2>. QED  BY <2>13, <2>14
<1>. QED
  BY <1>1, <1>3, <1>4, <1>5, <1>6, <1>7, <1>8, <1>9, <1>10 DEF DemoNext

\* A step that changes the row is the start, a code that expires, or the
\* replacement by whoever held the row.
LEMMA GuestStep ==
  ASSUME DemoInv, [DemoNext]_demoVars
  PROVE  /\ workspace.guest # Nobody => workspace'.guest = workspace.guest
         /\ workspace'.generation >= workspace.generation
<1>. workspace \in WorkspaceRows /\ visit \in [Visitors -> Visits]
  BY DEF DemoInv, DemoTypeOK, Visits
<1>0. workspace.generation \in Nat
  BY DemoAssumption DEF WorkspaceRows
<1>1. CASE UNCHANGED workspace
  BY <1>0, <1>1
<1>2. CASE StartDemo
  BY <1>2 DEF StartDemo, NoWorkspace
<1>3. CASE CodeExpires
  BY <1>0, <1>3 DEF CodeExpires, WorkspaceRows
<1>4. ASSUME NEW v \in Visitors, ReplaceScenario(v)
      PROVE  /\ workspace.guest # Nobody => workspace'.guest = workspace.guest
             /\ workspace'.generation >= workspace.generation
  <2>1. PICK q : q = visit[v]
    OBVIOUS
  <2>2. HoldsTheRow(q) /\ q.row \in WorkspaceRows
    BY <1>4, <2>1, VisitFields DEF ReplaceScenario, DemoInv
  <2>3. workspace' = [q.row EXCEPT !.expired = workspace.expired]
    BY <1>4, <2>1 DEF ReplaceScenario
  <2>4. workspace'.guest = q.row.guest /\ workspace'.generation = q.row.generation
    BY <2>2, <2>3 DEF WorkspaceRows
  <2>. QED  BY <2>2, <2>4 DEF HoldsTheRow
<1>. QED
  BY <1>1, <1>2, <1>3, <1>4
     DEF DemoNext, demoVars, BeginJoin, BeginReset, SwapGuest, SwapGeneration, LeaveDemo

\* The guest of a demo workspace has one scenario, made for them, and a workspace
\* without a guest has none (services/demo.py).
THEOREM OneScenario == DemoSpec => []OneScenarioForItsGuest
<1>1. DemoInv => OneScenarioForItsGuest
  BY DEF DemoInv
<1>. QED  BY DemoInitInv, DemoStep, <1>1, PTL DEF DemoSpec

\* No visit replaces a guest, or takes the workspace back a generation.
THEOREM GuestsStay == DemoSpec => GuestStays
<1>1. DemoInv /\ [DemoNext]_demoVars =>
        [/\ workspace.guest # Nobody => workspace'.guest = workspace.guest
         /\ workspace'.generation >= workspace.generation]_demoVars
  BY GuestStep
<1>. QED  BY DemoInitInv, DemoStep, <1>1, PTL DEF DemoSpec, GuestStays

-----------------------------------------------------------------------------
(***************************************************************************)
(* The inductive invariant is the token bucket's account: what was let     *)
(* through since a moment and the tokens that are left never exceed the    *)
(* capacity and the refill since that moment.                              *)
(***************************************************************************)
ClocksLag ==
    \A w \in Limiters : asking[w] # NotAsking =>
        asking[w].at <= time /\ time <= asking[w].at + MaxLag

BucketsAreKept ==
    \A k \in Keys : bucket[k] # Unused =>
        bucket[k].ts <= time /\ bucket[k].ts + Ttl <= bucket[k].until

BucketAccounts ==
    \A k \in Keys \ turned : \A t \in 0..MaxTime :
        /\ bucket[k] = Unused => admitted[k][t] = 0
        /\ bucket[k] # Unused =>
             /\ t > bucket[k].ts => admitted[k][t] = 0
             /\ t <= bucket[k].ts =>
                  admitted[k][t] * Period + bucket[k].tokens
                    <= Capacity + (bucket[k].ts - t) * Limit

RateInv == RateTypeOK /\ ClocksLag /\ BucketsAreKept /\ BucketAccounts /\ BudgetHolds

(***************************************************************************)
(* Arithmetic                                                              *)
(***************************************************************************)
LEMMA Products ==
  ASSUME NEW x \in Int, NEW y \in Int, NEW z \in Int
  PROVE  /\ (x + y) * z = x * z + y * z /\ (x - y) * z = x * z - y * z
         /\ x * z \in Int
BY Z3

LEMMA NonNegative ==
  ASSUME NEW x \in Nat, NEW z \in Nat
  PROVE  x * z \in Nat
BY Z3

LEMMA Ordered ==
  ASSUME NEW x \in Int, NEW y \in Int, NEW z \in Nat, x <= y
  PROVE  x * z <= y * z
<1>1. (y - x) * z \in Nat
  BY NonNegative
<1>2. (y - x) * z = y * z - x * z /\ x * z \in Int /\ y * z \in Int
  BY Products
<1>3. QED
  BY <1>1, <1>2

LEMMA Parameters ==
  /\ Limit \in Nat \ {0} /\ Period \in Nat \ {0} /\ MaxLag \in Nat /\ MaxTime \in Nat
  /\ Capacity \in Nat /\ Ttl \in Nat
  /\ MaxLag <= Ttl
<1>1. /\ Limit \in Nat \ {0} /\ Period \in Nat \ {0} /\ MaxLag \in Nat /\ MaxTime \in Nat
      /\ MinTtl \in Nat \ {0} /\ Burst \in Nat
  BY RateAssumption DEF RateAssumption
<1>2. Capacity \in Nat
  BY <1>1, NonNegative DEF Capacity
<1>3. PICK c \in Int : c = Ceil(Capacity * 2, Limit)
  BY <1>1, <1>2 DEF Ceil
<1>4. Ttl \in Nat
  <2>1. \E x \in {MinTtl, c} : \A y \in {MinTtl, c} : x >= y
    BY <1>1
  <2>2. Ttl \in {MinTtl, c} /\ Ttl >= MinTtl
    BY <1>3, <2>1 DEF Ttl, Max
  <2>3. QED
    BY <1>1, <2>2
<1>5. MaxLag <= Ttl
  <2>1. SUFFICES ASSUME Ttl < MaxLag PROVE FALSE
    BY <1>1, <1>4
  <2>2. (Ttl - MaxLag) * Limit <= -1 * Limit
    BY <1>1, <1>4, <2>1, Ordered
  <2>3. (Ttl - MaxLag) * Limit \in Int
    BY <1>1, <1>4, Products
  <2>4. QED
    BY <1>1, <1>2, <2>2, <2>3, LagAssumption DEF LagAssumption
<1>6. QED
  BY <1>1, <1>2, <1>4, <1>5

LEMMA RateInitInv == RateInit => RateInv
<1> SUFFICES ASSUME RateInit PROVE RateInv
  OBVIOUS
<1>1. RateTypeOK
  BY Parameters DEF RateInit, RateTypeOK
<1>2. ClocksLag /\ BucketsAreKept /\ BucketAccounts
  BY DEF RateInit, ClocksLag, BucketsAreKept, BucketAccounts
<1>3. BudgetHolds
  <2> SUFFICES ASSUME NEW k \in Keys, NEW a \in 0..MaxTime, NEW b \in 0..MaxTime, a <= b
               PROVE  Within(k, a, b)
    BY DEF BudgetHolds
  <2>1. Since(k, a) = 0 /\ Since(k, b + 1) = 0
    BY Parameters DEF RateInit, Since
  <2>2. (b - a) * Limit \in Nat /\ (b - a) * Limit = Limit * (b - a)
    BY Parameters, NonNegative
  <2>3. QED
    BY <2>1, <2>2, Parameters DEF Within
<1>4. QED
  BY <1>1, <1>2, <1>3 DEF RateInv
(***************************************************************************)
(* The script                                                              *)
(***************************************************************************)
LEMMA UsedBucket ==
  ASSUME RateInv, NEW k \in Keys, bucket[k] # Unused
  PROVE  /\ bucket[k].tokens \in 0..Capacity /\ bucket[k].ts \in 0..MaxTime
         /\ bucket[k].until \in Nat
BY DEF RateInv, RateTypeOK, Buckets

LEMMA AskedKey ==
  ASSUME RateInv, NEW w \in Limiters, asking[w] # NotAsking
  PROVE  /\ asking[w].key \in Keys /\ asking[w].at \in 0..MaxTime
         /\ asking[w].at <= time /\ time <= asking[w].at + MaxLag
BY DEF RateInv, RateTypeOK, ClocksLag

\* The refill is what the time between the stamps brings, at most: a bucket that
\* has expired would be full.
LEMMA RefillIsBounded ==
  ASSUME RateInv, NEW k \in Keys, NEW at \in 0..MaxTime,
         at <= time, time <= at + MaxLag
  PROVE  /\ Refilled(k, at) \in 0..Capacity
         /\ bucket[k] # Unused /\ ~(Held(k) /\ at < bucket[k].ts) =>
              /\ bucket[k].ts <= at
              /\ Refilled(k, at) <= bucket[k].tokens + (at - bucket[k].ts) * Limit
<1>0. time \in 0..MaxTime
  BY DEF RateInv, RateTypeOK
<1>1. CASE ~Held(k)
  <2>1. Refilled(k, at) = Capacity
    BY <1>1 DEF Refilled
  <2>2. ASSUME bucket[k] # Unused
        PROVE  /\ bucket[k].ts <= at
               /\ Capacity <= bucket[k].tokens + (at - bucket[k].ts) * Limit
    <3>1. bucket[k].until <= time /\ bucket[k].ts + Ttl <= bucket[k].until
      BY <1>0, <1>1, <2>2, UsedBucket DEF Held, RateInv, BucketsAreKept
    <3>2. Ttl - MaxLag <= at - bucket[k].ts
      BY <1>0, <2>2, <3>1, UsedBucket, Parameters
    <3>3. (Ttl - MaxLag) * Limit <= (at - bucket[k].ts) * Limit
      BY <2>2, <3>2, UsedBucket, Parameters, Ordered
    <3>4. (Ttl - MaxLag) * Limit \in Int /\ (at - bucket[k].ts) * Limit \in Int
      BY <2>2, UsedBucket, Parameters, Products
    <3>5. QED
      BY <2>2, <3>2, <3>3, <3>4, UsedBucket, Parameters, LagAssumption DEF LagAssumption
  <2>3. QED
    BY <2>1, <2>2, Parameters
<1>2. CASE Held(k)
  <2>1. bucket[k] # Unused
    BY <1>2 DEF Held
  <2>2. PICK gap \in Nat : gap = IF at > bucket[k].ts THEN at - bucket[k].ts ELSE 0
    BY <2>1, UsedBucket
  <2>3. gap * Limit \in Nat
    BY <2>2, Parameters, NonNegative
  <2>4. Refilled(k, at) = Lower(Capacity, bucket[k].tokens + gap * Limit)
    BY <1>2, <2>2 DEF Refilled
  <2>5. /\ Refilled(k, at) \in 0..Capacity
        /\ Refilled(k, at) <= bucket[k].tokens + gap * Limit
    BY <2>1, <2>3, <2>4, UsedBucket, Parameters DEF Lower
  <2>6. ~(at < bucket[k].ts) => gap = at - bucket[k].ts /\ bucket[k].ts <= at
    BY <2>1, <2>2, UsedBucket
  <2>7. QED
    BY <1>2, <2>5, <2>6
<1>3. QED
  BY <1>1, <1>2

LEMMA ConsumeStep ==
  ASSUME RateInv, NEW w \in Limiters, Consume(w)
  PROVE  RateInv'
<1>0. /\ time \in 0..MaxTime /\ bucket \in [Keys -> Buckets \cup {Unused}]
      /\ asking \in [Limiters -> [key : Keys, at : 0..MaxTime] \cup {NotAsking}]
      /\ admitted \in [Keys -> [0..MaxTime -> Nat]] /\ turned \subseteq Keys
  BY DEF RateInv, RateTypeOK
<1>1. PICK k \in Keys, at \in 0..MaxTime :
         /\ k = asking[w].key /\ at = asking[w].at
         /\ at <= time /\ time <= at + MaxLag
  BY AskedKey DEF Consume
<1>2. PICK tokens : tokens = Refilled(k, at)
  OBVIOUS
<1>3. /\ tokens \in 0..Capacity
      /\ bucket[k] # Unused /\ ~(Held(k) /\ at < bucket[k].ts) =>
           /\ bucket[k].ts <= at
           /\ tokens <= bucket[k].tokens + (at - bucket[k].ts) * Limit
  BY <1>1, <1>2, RefillIsBounded
<1>4. PICK one \in {0, 1} : one = IF tokens >= Period THEN 1 ELSE 0
  OBVIOUS
<1>5. PICK b : b = Charged(tokens, at)
  OBVIOUS
<1>6. /\ b.tokens = tokens - one * Period /\ b.tokens \in 0..Capacity
      /\ b.ts = at /\ b.until = time + Ttl /\ b \in Buckets /\ b # Unused
  <2>1. b.tokens = tokens - one * Period /\ b.tokens \in 0..Capacity
    BY <1>3, <1>4, <1>5, Parameters DEF Charged
  <2>2. b.ts = at /\ b.until = time + Ttl /\ b.until \in Nat
    BY <1>0, <1>5, Parameters DEF Charged
  <2>3. b \in Buckets
    BY <1>5, <2>1, <2>2 DEF Buckets, Charged
  <2>4. b # Unused
    BY <2>2, Parameters DEF Unused
  <2>5. QED
    BY <2>1, <2>2, <2>3, <2>4
<1>7. /\ bucket' = [bucket EXCEPT ![k] = b] /\ UNCHANGED <<time, unmetered>>
      /\ asking' = [asking EXCEPT ![w] = NotAsking]
      /\ turned' = IF Held(k) /\ at < bucket[k].ts THEN turned \cup {k} ELSE turned
      /\ admitted' = IF tokens >= Period
                     THEN [admitted EXCEPT ![k] = CountedAt(@, at)] ELSE admitted
  BY <1>1, <1>2, <1>5 DEF Consume
<1>8. /\ \A t \in 0..MaxTime :
           admitted'[k][t] = admitted[k][t] + (IF t <= at THEN one ELSE 0)
      /\ \A q \in Keys \ {k} : admitted'[q] = admitted[q]
      /\ admitted' \in [Keys -> [0..MaxTime -> Nat]]
  <2>1. CASE tokens >= Period
    <3>1. PICK f : f = CountedAt(admitted[k], at)
      OBVIOUS
    <3>2. \A t \in 0..MaxTime : f[t] = admitted[k][t] + (IF t <= at THEN one ELSE 0)
      BY <1>4, <2>1, <3>1 DEF CountedAt
    <3>3. f \in [0..MaxTime -> Nat]
      <4>1. f = [t \in 0..MaxTime |-> admitted[k][t] + (IF t <= at THEN 1 ELSE 0)]
        BY <3>1 DEF CountedAt
      <4>2. \A t \in 0..MaxTime : admitted[k][t] + (IF t <= at THEN 1 ELSE 0) \in Nat
        <5>1. PICK f0 : f0 = admitted[k]
          OBVIOUS
        <5>2. f0 \in [0..MaxTime -> Nat]
          BY <1>0, <5>1
        <5>3. \A t \in 0..MaxTime : f0[t] \in Nat /\ f0[t] + 0 \in Nat /\ f0[t] + 1 \in Nat
          BY <5>2, Parameters
        <5>4. QED
          BY <5>1, <5>3
      <4>3. QED
        BY <4>1, <4>2
    <3>4. admitted' = [admitted EXCEPT ![k] = f]
      BY <1>7, <2>1, <3>1
    <3>5. QED
      BY <1>0, <3>2, <3>3, <3>4
  <2>2. CASE ~(tokens >= Period)
    <3>1. \A t \in 0..MaxTime : admitted[k][t] \in Nat
      BY <1>0
    <3>2. QED
      BY <1>0, <1>4, <1>7, <2>2, <3>1
  <2>3. QED
    BY <2>1, <2>2
<1>9. RateTypeOK'
  <2>1. asking' \in [Limiters -> [key : Keys, at : 0..MaxTime] \cup {NotAsking}]
    BY <1>0, <1>7
  <2>2. bucket' \in [Keys -> Buckets \cup {Unused}]
    BY <1>0, <1>6, <1>7
  <2>3. QED
    BY <1>0, <1>7, <1>8, <2>1, <2>2 DEF RateInv, RateTypeOK
<1>10. ClocksLag'
  BY <1>0, <1>7 DEF RateInv, ClocksLag
<1>11. BucketsAreKept'
  <2> SUFFICES ASSUME NEW q \in Keys, bucket'[q] # Unused
               PROVE  bucket'[q].ts <= time /\ bucket'[q].ts + Ttl <= bucket'[q].until
    BY <1>7 DEF BucketsAreKept
  <2>1. CASE q = k
    BY <1>0, <1>1, <1>6, <1>7, <2>1, Parameters
  <2>2. CASE q # k
    BY <1>0, <1>7, <2>2 DEF RateInv, BucketsAreKept
  <2>3. QED
    BY <2>1, <2>2
\* The account of the key that was charged.
<1>12. ASSUME k \notin turned'
       PROVE  \A t \in 0..MaxTime :
                /\ t > at => admitted'[k][t] = 0
                /\ t <= at => admitted'[k][t] * Period + b.tokens
                                <= Capacity + (at - t) * Limit
  <2>0. k \notin turned /\ ~(Held(k) /\ at < bucket[k].ts)
    BY <1>7, <1>12
  <2> SUFFICES ASSUME NEW t \in 0..MaxTime
               PROVE  /\ t > at => admitted'[k][t] = 0
                      /\ t <= at => admitted'[k][t] * Period + b.tokens
                                      <= Capacity + (at - t) * Limit
    OBVIOUS
  <2>1. admitted[k][t] \in Nat
    BY <1>0
  <2>2. admitted[k][t] = 0 \/ (bucket[k] # Unused /\ t <= bucket[k].ts)
    BY <2>0, UsedBucket DEF RateInv, BucketAccounts
  <2>3. ASSUME t > at PROVE admitted'[k][t] = 0
    <3>1. admitted[k][t] = 0
      BY <1>3, <2>0, <2>2, <2>3, UsedBucket
    <3>2. QED
      BY <1>8, <2>3, <3>1
  <2>4. ASSUME t <= at
        PROVE  admitted'[k][t] * Period + b.tokens <= Capacity + (at - t) * Limit
    <3>1. admitted'[k][t] * Period + b.tokens = admitted[k][t] * Period + tokens
      <4>1. admitted'[k][t] = admitted[k][t] + one
        BY <1>8, <2>4
      <4>2. (admitted[k][t] + one) * Period = admitted[k][t] * Period + one * Period
        <5>1. PICK n \in Int : n = admitted[k][t]
          BY <2>1
        <5>2. one \in Int /\ Period \in Int
          BY <1>4, Parameters
        <5>3. QED
          BY <5>1, <5>2, Products
      <4>3. admitted[k][t] * Period \in Int /\ one * Period \in Int
        BY <2>1, Parameters, Products
      <4>4. QED
        BY <1>3, <1>6, <4>1, <4>2, <4>3
    <3>2. (at - t) * Limit \in Nat
      BY <2>4, Parameters, NonNegative
    <3>3. CASE admitted[k][t] = 0
      <4>1. admitted[k][t] * Period = 0
        BY <3>3, Parameters
      <4>2. QED
        BY <1>3, <3>1, <3>2, <4>1, Parameters
    <3>4. CASE bucket[k] # Unused /\ t <= bucket[k].ts
      <4>1. admitted[k][t] * Period + bucket[k].tokens
              <= Capacity + (bucket[k].ts - t) * Limit
        BY <2>0, <3>4 DEF RateInv, BucketAccounts
      <4>2. tokens <= bucket[k].tokens + (at - bucket[k].ts) * Limit
        BY <1>3, <2>0, <3>4
      <4>3. PICK ts \in Int, old \in Int : ts = bucket[k].ts /\ old = bucket[k].tokens
        BY <3>4, UsedBucket
      <4>4. (at - t) * Limit = (at - ts) * Limit + (ts - t) * Limit
        <5>1. at - t = (at - ts) + (ts - t)
          BY <4>3
        <5>2. QED
          BY <4>3, <5>1, Parameters, Products
      <4>5. /\ (at - ts) * Limit \in Int /\ (ts - t) * Limit \in Int
            /\ admitted[k][t] * Period \in Int
        BY <2>1, <4>3, Parameters, Products
      <4>6. QED
        BY <1>3, <3>1, <4>1, <4>2, <4>3, <4>4, <4>5, Parameters
    <3>5. QED
      BY <2>2, <3>3, <3>4
  <2>5. QED
    BY <2>3, <2>4
<1>13. BucketAccounts'
  <2> SUFFICES ASSUME NEW q \in Keys \ turned', NEW t \in 0..MaxTime
               PROVE  /\ bucket'[q] = Unused => admitted'[q][t] = 0
                      /\ bucket'[q] # Unused =>
                           /\ t > bucket'[q].ts => admitted'[q][t] = 0
                           /\ t <= bucket'[q].ts =>
                                admitted'[q][t] * Period + bucket'[q].tokens
                                  <= Capacity + (bucket'[q].ts - t) * Limit
    BY DEF BucketAccounts
  <2>1. CASE q = k
    <3>1. bucket'[q] = b
      BY <1>0, <1>7, <2>1
    <3>2. QED
      BY <1>6, <1>12, <2>1, <3>1
  <2>2. CASE q # k
    <3>1. bucket'[q] = bucket[q] /\ admitted'[q] = admitted[q] /\ q \notin turned
      BY <1>0, <1>7, <1>8, <2>2
    <3>2. QED
      BY <3>1 DEF RateInv, BucketAccounts
  <2>3. QED
    BY <2>1, <2>2
<1>14. BudgetHolds'
  <2> SUFFICES ASSUME NEW q \in Keys \ turned', NEW a \in 0..MaxTime, NEW z \in 0..MaxTime, a <= z
               PROVE  (Since(q, a)' - Since(q, z + 1)') * Period <= Capacity + Limit * (z - a)
    BY DEF BudgetHolds, Within
  <2>0. q \notin turned
    BY <1>7
  <2>1. CASE q # k
    <3>1. admitted'[q] = admitted[q]
      BY <1>8, <2>1
    <3>2. Since(q, a)' = Since(q, a) /\ Since(q, z + 1)' = Since(q, z + 1)
      BY <3>1 DEF Since
    <3>3. QED
      BY <2>0, <3>2 DEF RateInv, BudgetHolds, Within
  <2>2. CASE q = k
    <3>1. /\ Since(k, a)' = Since(k, a) + (IF a <= at THEN one ELSE 0)
          /\ Since(k, z + 1)' = Since(k, z + 1) + (IF z + 1 <= at THEN one ELSE 0)
          /\ Since(k, a) \in Nat /\ Since(k, z + 1) \in Nat
      BY <1>0, <1>8, Parameters DEF Since
    <3>2. CASE a > at \/ z + 1 <= at
      <4>1. Since(k, a)' - Since(k, z + 1)' = Since(k, a) - Since(k, z + 1)
        BY <3>1, <3>2
      <4>2. QED
        BY <2>0, <2>2, <4>1 DEF RateInv, BudgetHolds, Within
    <3>3. CASE a <= at /\ at <= z
      <4>1. Since(k, z + 1)' = 0
        BY <1>12, <2>2, <3>3, Parameters DEF Since
      <4>2. Since(k, a)' = admitted'[k][a] /\ admitted'[k][a] \in Nat
        BY <1>8, Parameters DEF Since
      <4>3. admitted'[k][a] * Period + b.tokens <= Capacity + (at - a) * Limit
        BY <1>12, <2>2, <3>3
      <4>4. (at - a) * Limit <= (z - a) * Limit
        BY <3>3, Parameters, Ordered
      <4>5. (at - a) * Limit \in Int /\ (z - a) * Limit \in Int /\ admitted'[k][a] * Period \in Int
        BY <4>2, Parameters, Products
      <4>6. admitted'[k][a] * Period <= Capacity + (z - a) * Limit
        BY <1>6, <4>3, <4>4, <4>5, Parameters
      <4>7. (z - a) * Limit = Limit * (z - a)
        BY Parameters
      <4>8. QED
        BY <2>2, <4>1, <4>2, <4>6, <4>7
    <3>4. QED
      BY <3>2, <3>3
  <2>3. QED
    BY <2>1, <2>2
<1>15. QED
  BY <1>9, <1>10, <1>11, <1>13, <1>14 DEF RateInv

LEMMA RateStep ==
  ASSUME RateInv, [RateNext]_rateVars
  PROVE  RateInv'
<1>0. /\ time \in 0..MaxTime
      /\ asking \in [Limiters -> [key : Keys, at : 0..MaxTime] \cup {NotAsking}]
  BY DEF RateInv, RateTypeOK
\* Steps that leave the buckets and their history alone.
<1>1. ASSUME UNCHANGED <<bucket, admitted, turned>>,
             time' \in 0..MaxTime, time' >= time, unmetered' \in 0..1,
             asking' \in [Limiters -> [key : Keys, at : 0..MaxTime] \cup {NotAsking}],
             ClocksLag'
      PROVE  RateInv'
  <2>1. BucketsAreKept'
    <3> SUFFICES ASSUME NEW k \in Keys, bucket[k] # Unused
                 PROVE  bucket[k].ts <= time' /\ bucket[k].ts + Ttl <= bucket[k].until
      BY <1>1 DEF BucketsAreKept
    <3>1. QED
      BY <1>0, <1>1, UsedBucket DEF RateInv, BucketsAreKept
  <2>2. RateTypeOK'
    BY <1>1 DEF RateInv, RateTypeOK
  <2>3. QED
    BY <1>1, <2>1, <2>2 DEF RateInv, BucketAccounts, BudgetHolds, Within, Since
<1>2. CASE UNCHANGED rateVars
  BY <1>0, <1>1, <1>2 DEF rateVars, RateInv, RateTypeOK, ClocksLag
<1>3. CASE Tick
  BY <1>0, <1>1, <1>3, Parameters DEF Tick, RateInv, RateTypeOK, ClocksLag
<1>4. ASSUME NEW w \in Limiters, NEW k \in Keys, Arrives(w, k) PROVE RateInv'
  <2>1. ClocksLag'
    BY <1>0, <1>4, Parameters DEF Arrives, RateInv, ClocksLag
  <2>2. asking' \in [Limiters -> [key : Keys, at : 0..MaxTime] \cup {NotAsking}]
    BY <1>0, <1>4 DEF Arrives
  <2>3. QED
    BY <1>0, <1>1, <1>4, <2>1, <2>2 DEF Arrives, RateInv, RateTypeOK
<1>5. ASSUME NEW w \in Limiters, NEW failOpen \in BOOLEAN, StoreFails(w, failOpen) PROVE RateInv'
  <2>1. ClocksLag'
    BY <1>0, <1>5 DEF StoreFails, RateInv, ClocksLag
  <2>2. unmetered' \in 0..1
    BY <1>5 DEF StoreFails, Lower, RateInv, RateTypeOK
  <2>3. asking' \in [Limiters -> [key : Keys, at : 0..MaxTime] \cup {NotAsking}]
    BY <1>0, <1>5 DEF StoreFails
  <2>4. QED
    BY <1>0, <1>1, <1>5, <2>1, <2>2, <2>3 DEF StoreFails
<1>6. QED
  BY <1>2, <1>3, <1>4, <1>5, ConsumeStep DEF RateNext

\* The clocks, buckets and requests at the limiter are of their types, and no
\* bucket holds more than its capacity (auth/rate_limit.py).
THEOREM RateTypeCorrect == RateSpec => []RateTypeOK
<1>1. RateInv => RateTypeOK
  BY DEF RateInv
<1>2. QED
  BY RateInitInv, RateStep, <1>1, PTL DEF RateSpec

\* In every window of time a key is let through no more often than its burst and
\* the refill of the window allow, for any policy and any number of workers that
\* run the script soon enough after reading the clock, unless one of them turned
\* the stamp back
\* (auth/rate_limit.py, the bucket script).
THEOREM BudgetsAreKept == RateSpec => []BudgetHolds
<1>1. RateInv => BudgetHolds
  BY DEF RateInv
<1>2. QED
  BY RateInitInv, RateStep, <1>1, PTL DEF RateSpec

=============================================================================
