----------------------------- MODULE Accounts -----------------------------
(***************************************************************************)
(* Accounts and sessions (services/users.py, auth/routes.py, auth/tokens,  *)
(* auth/dependencies.py, auth/oidc): provisioning at login through several *)
(* identity providers and the development bypass, the administrator's link *)
(* of a legacy account, and logout by token version.                       *)
(*                                                                         *)
(* Every request reads rows, decides, and commits later; only the triple   *)
(* (provider, issuer, sub) is unique in the database.  A subject stands    *)
(* for the pair (issuer, sub); roles and profile fields are left out.      *)
(***************************************************************************)
EXTENDS Naturals

CONSTANTS Users, Providers, Subjects, Emails,
          Entra,        \* the provider that adopts rows of the single-provider days
          Logins,       \* requests in flight at once
          MaxLogouts    \* bound: logouts of an account

VARIABLES
    account,    \* [Users -> row of the user table, or NoAccount]
    req,        \* [Logins -> local state]
    token,      \* JWTs minted; none expires here: set of [row, ver]
    ended,      \* history: JWTs a committed logout was to invalidate
    raced,      \* history: rows committed after their checks had become false
    overlapped  \* history: rows whose version two logouts wrote at once

accountVars == <<account, req, token, ended, raced, overlapped>>

NoAccount == [row |-> FALSE]
None == "none"

ASSUME AccountsAssumption ==
    /\ Entra \in Providers /\ MaxLogouts \in Nat
    /\ None \notin Providers \cup Subjects

Free == [op |-> "free"]
Account(p, s, e) ==
    [row |-> TRUE, provider |-> p, subject |-> s, email |-> e, ver |-> 0]

Known(u) == account[u].row
Bound(u) == account[u].provider # None \/ account[u].subject # None
Owners(e) == {u \in Users : Known(u) /\ account[u].email = e}
Holders(p, s) == {u \in Users : Known(u) /\ account[u].provider = p /\ account[u].subject = s}
OfSubject(s) == {u \in Users : Known(u) /\ account[u].subject = s}

\* At most one account from before the provider column, bound by subject only.
AccountInit ==
    /\ account \in [Users -> {NoAccount} \cup
                      {Account(None, s, e) : s \in Subjects, e \in Emails}]
    /\ \A u, v \in Users : Known(u) /\ Known(v) => u = v
    /\ req = [q \in Logins |-> Free]
    /\ token = {} /\ ended = {} /\ raced = {} /\ overlapped = {}

(***************************************************************************)
(* The checks of upsert_user and of the administrator's link               *)
(***************************************************************************)
\* Faulty variant: a login may take any address.
EmailIsFreeAlways(e, self) == e \in Emails /\ self \subseteq Users

\* _reject_unbound_email_owner
EmailIsFree(e, self) == \A o \in Owners(e) \ self : Bound(o)

KeepsOrFrees(u, e) == account[u].email = e \/ EmailIsFree(e, {u})

\* What a login with this identity may do: refresh its row, adopt, or insert.
MayRefresh(u, p, s, e) == u \in Holders(p, s) /\ KeepsOrFrees(u, e)
MayAdopt(u, p, s, e) ==
    /\ p = Entra /\ Holders(p, s) = {}
    /\ u \in Holders(None, s) /\ KeepsOrFrees(u, e)
MayInsert(u, s, e) == ~Known(u) /\ OfSubject(s) = {} /\ EmailIsFree(e, {})
MayDevLogin(u, e) ==
    /\ \A o \in Owners(e) : ~Bound(o)
    /\ IF Owners(e) = {} THEN ~Known(u) ELSE u \in Owners(e)
MayLink(u, s) ==
    /\ Known(u) /\ account[u].provider = None
    /\ account[u].subject = None
    /\ OfSubject(s) \subseteq {u}

Allowed(w) ==
    CASE w.how = "refresh" -> MayRefresh(w.u, w.p, w.s, w.e)
      [] w.how = "adopt" -> MayAdopt(w.u, w.p, w.s, w.e)
      [] w.how = "insert" -> MayInsert(w.u, w.s, w.e)
      [] w.how = "dev" -> MayDevLogin(w.u, w.e)
      [] w.how = "link" -> MayLink(w.u, w.s)

(***************************************************************************)
(* A login or a link: the checks, then the write                           *)
(***************************************************************************)
Plan(q, w) ==
    /\ req[q] = Free
    /\ Allowed(w)
    /\ req' = [req EXCEPT ![q] = w]
    /\ UNCHANGED <<account, token, ended, raced, overlapped>>

\* _finish_login; claims without issuer, subject or verified email come to nothing.
BeginOidc(q, u, p, s, e) ==
    \E how \in {"refresh", "adopt", "insert"} :
        Plan(q, [op |-> "write", how |-> how, new |-> ~Known(u), u |-> u,
                 p |-> p, s |-> s, e |-> e])

BeginDev(q, u, e) ==
    Plan(q, [op |-> "write", how |-> "dev", new |-> ~Known(u), u |-> u,
             p |-> None, s |-> None, e |-> e])

\* The route passes no provider: the link is to Entra.
BeginLink(q, u, s) ==
    Plan(q, [op |-> "write", how |-> "link", new |-> FALSE, u |-> u,
             p |-> Entra, s |-> s, e |-> None])

RowAfter(w) ==
    IF w.new THEN Account(w.p, w.s, w.e)
    ELSE CASE w.how = "refresh" -> [account[w.u] EXCEPT !.email = w.e]
           [] w.how = "adopt" -> [account[w.u] EXCEPT !.email = w.e, !.provider = w.p]
           [] w.how = "dev" -> account[w.u]
           [] w.how = "link" -> [account[w.u] EXCEPT !.provider = w.p, !.subject = w.s]

\* The only check the database makes: the unique triple.
Commits(w) ==
    /\ w.new => ~Known(w.u)
    /\ w.p # None => Holders(w.p, w.s) \subseteq {w.u}

CommitWrite(q) ==
    LET w == req[q] IN
    /\ w.op = "write" /\ Commits(w)
    /\ account' = [account EXCEPT ![w.u] = RowAfter(w)]
    /\ raced' = IF Allowed(w) THEN raced ELSE raced \cup {w.u}
    /\ token' = IF w.how = "link" THEN token
                ELSE token \cup {[row |-> w.u, ver |-> IF w.new THEN 0 ELSE account[w.u].ver]}
    /\ req' = [req EXCEPT ![q] = Free]
    /\ UNCHANGED <<ended, overlapped>>

(***************************************************************************)
(* Sessions                                                                *)
(***************************************************************************)
\* get_optional_user: the account exists and its version is the token's.
Accepted(k) == Known(k.row) /\ k.ver = account[k.row].ver

BeginLogout(q, k) ==
    /\ req[q] = Free /\ k \in token /\ Accepted(k)
    /\ account[k.row].ver < MaxLogouts
    /\ req' = [req EXCEPT ![q] = [op |-> "logout", u |-> k.row]]
    /\ UNCHANGED <<account, token, ended, raced, overlapped>>

\* The audit commit expired the row: the version is read again.
LoadVersion(q) ==
    /\ req[q].op = "logout"
    /\ account[req[q].u].ver < MaxLogouts
    /\ req' = [req EXCEPT ![q] =
                 [op |-> "bump", u |-> req[q].u, ver |-> account[req[q].u].ver]]
    /\ UNCHANGED <<account, token, ended, raced, overlapped>>

\* Faulty variant: logout leaves the version alone.
SameVersion(ver) == ver

NextVersion(ver) == ver + 1

CommitLogout(q) ==
    LET l == req[q] IN
    /\ l.op = "bump"
    /\ account' = [account EXCEPT ![l.u].ver = NextVersion(l.ver)]
    /\ ended' = ended \cup {k \in token : k.row = l.u /\ k.ver <= l.ver}
    /\ overlapped' = IF account[l.u].ver = l.ver THEN overlapped
                     ELSE overlapped \cup {l.u}
    /\ req' = [req EXCEPT ![q] = Free]
    /\ UNCHANGED <<token, raced>>

\* An error, an integrity failure, or the end of the process.
AbandonRequest(q) ==
    /\ req[q] # Free
    /\ req' = [req EXCEPT ![q] = Free]
    /\ UNCHANGED <<account, token, ended, raced, overlapped>>

AccountNext ==
    \E q \in Logins :
         \/ \E u \in Users, e \in Emails :
              \/ BeginDev(q, u, e)
              \/ \E p \in Providers, s \in Subjects : BeginOidc(q, u, p, s, e)
         \/ \E u \in Users, s \in Subjects : BeginLink(q, u, s)
         \/ \E k \in token : BeginLogout(q, k)
         \/ CommitWrite(q) \/ LoadVersion(q) \/ CommitLogout(q) \/ AbandonRequest(q)

AccountSpec == AccountInit /\ [][AccountNext]_accountVars

(***************************************************************************)
(* Properties                                                              *)
(***************************************************************************)
Accounts == [row : {TRUE}, provider : Providers \cup {None},
             subject : Subjects \cup {None}, email : Emails,
             ver : 0..MaxLogouts]
Tokens == [row : Users, ver : 0..MaxLogouts]

AccountTypeOK ==
    /\ account \in [Users -> Accounts \cup {NoAccount}]
    /\ req \in [Logins -> {Free}
          \cup [op : {"write"}, how : {"refresh", "adopt", "insert", "dev", "link"},
                new : BOOLEAN, u : Users, p : Providers \cup {None},
                s : Subjects \cup {None}, e : Emails \cup {None}]
          \cup [op : {"logout"}, u : Users]
          \cup [op : {"bump"}, u : Users, ver : 0..(MaxLogouts - 1)]]
    /\ token \subseteq Tokens /\ ended \subseteq token
    /\ raced \subseteq Users /\ overlapped \subseteq Users

\* "A cross-provider identity collision is refused", and no login shadows the
\* address of an account that is not bound to a provider (users.py:73): two
\* accounts share a subject, or an address one of them holds unbound, only where
\* one was committed after its checks had become false.
IdentitiesCollideOnlyByRace ==
    \A u, v \in Users :
        /\ u # v /\ Known(u) /\ Known(v)
        /\ \/ account[u].subject # None /\ account[u].subject = account[v].subject
           \/ account[u].email = account[v].email /\ ~Bound(u)
        => {u, v} \cap raced # {}

\* "Logout increments the user's token version, invalidating existing Iceberg
\* JWTs" (README.md:733), for good: such a token is not accepted again unless two
\* logouts of the account overlapped.
EndedSessionsStayEnded ==
    \A k \in ended : Accepted(k) => k.row \in overlapped

\* The same without the exception.
LogoutIsFinal == \A k \in ended : ~Accepted(k)
=============================================================================
