------------------------------ MODULE Accounts ------------------------------
(***************************************************************************)
(* Hosting accounts and the Linux users behind them: creation and deletion *)
(* of accounts, the provisioning of a Linux user when an account first     *)
(* needs one, and the sites an account's deletion has to take down.        *)
(*                                                                         *)
(* Two locks keep these apart: accountMu is held by a deletion, tenantMu   *)
(* while a Linux user is chosen, made and recorded.  The creation of an    *)
(* account takes neither.  Each statement, command and critical section is *)
(* a step; statements that only read do not fail.                          *)
(***************************************************************************)
EXTENDS Naturals, Sequences, FiniteSets

CONSTANTS
  Account,      \* ids of the users table, each given out once
  Name,         \* panel usernames
  Login,        \* names of ordinary Linux users
  Candidates,   \* Candidates[n]: what deriveSystemUser tries for n, in order
  Present,      \* Linux users of the host the panel did not make
  Tables,       \* contents of the users table to begin with
  Handler,      \* concurrent requests
  None,
  Failures,     \* whether commands and statements may fail
  MaxOps        \* requests in a behaviour

User   == [name : Name \cup {None}, role : {"admin", "user"}, sys : Login \cup {None}]
NoUser == [name |-> None, role |-> "user", sys |-> None]

Request == {"create", "delete", "site", "addcron", "delcron"}

ASSUME AccountAssumption ==
  /\ Tables \subseteq [Account -> User]
  /\ \A t \in Tables :
       /\ \E a \in Account : t[a] # NoUser /\ t[a].role = "admin"
       /\ \A a, b \in Account : t[a].name = t[b].name => a = b \/ t[a] = NoUser
       /\ \A a \in Account : t[a].name = None => t[a] = NoUser
       /\ IsFiniteSet({a \in Account : t[a] # NoUser})
  /\ None \notin Account \cup Name \cup Login \cup Handler \cup Request
  /\ Candidates \in [Name -> Seq(Login)] /\ Present \subseteq Login
  /\ Failures \in BOOLEAN /\ MaxOps \in Nat

VARIABLES
  user,       \* user[a]: the row of an account
  minted,     \* ids given out
  sites,      \* accounts with a row in sites (one site each is enough)
  built,      \* accounts whose site has its virtual host and pool
  logins,     \* Linux users
  accountMu, tenantMu,
  hd,         \* request goroutines
  ops,
  auto,       \* history: accounts whose Linux user was chosen by ensureTenant
  contested   \* history: accounts and Linux users taken away from under a request

tables  == <<user, minted, sites>>
host    == <<built, logins>>
locks   == <<accountMu, tenantMu>>
history == <<auto, contested>>
avars   == <<tables, host, locks, hd, ops, history>>

-----------------------------------------------------------------------------
(* Types *)

Pc == {"idle", "ensure", "insert",                                \* postCreateUser
       "lock", "list", "teardown", "objects", "drop", "count", "userdel",   \* DeleteAccount
       "tenant", "wait", "provision", "persist", "upgrade", "ready", "refused",   \* ensureTenant
       "record",                                                  \* CreateSite
       "install"}                                                 \* syncCron
Handling == [op : Request \cup {None}, pc : Pc, who : Account \cup {None}, row : User,
             login : Login \cup {None}, had : BOOLEAN]
NoHandling == [op |-> None, pc |-> "idle", who |-> None, row |-> NoUser, login |-> None,
               had |-> FALSE]

Exists(a) == user[a] # NoUser
Admins    == {a \in Account : Exists(a) /\ user[a].role = "admin"}
CountBySystemUser(l) == Cardinality({a \in Account : user[a].sys = l})

AccountsTypeOK ==
  /\ user \in [Account -> User] /\ minted \subseteq Account
  /\ sites \subseteq Account /\ built \subseteq Account /\ logins \subseteq Login
  /\ accountMu \in Handler \cup {None} /\ tenantMu \in Handler \cup {None}
  /\ hd \in [Handler -> Handling] /\ ops \in Nat
  /\ auto \subseteq Account /\ contested \subseteq Account \cup Login

-----------------------------------------------------------------------------
(* Requests *)

Busy(h)        == hd[h].pc # "idle"
At(h, op, pc)  == hd[h].op = op /\ hd[h].pc = pc
Goto(h, pc)    == hd' = [hd EXCEPT ![h].pc = pc]
Reply(h)       == hd' = [hd EXCEPT ![h] = NoHandling]
Ask(h, new)    == ~Busy(h) /\ ops < MaxOps /\ ops' = ops + 1 /\ hd' = [hd EXCEPT ![h] = new]

-----------------------------------------------------------------------------
(* postCreateUser *)

\* The username is looked up first; a Linux user may be named, or none.
CreateUser(h, n, role, l) ==
  /\ \A a \in Account : user[a].name # n
  /\ Ask(h, [NoHandling EXCEPT !.op = "create", !.row = [name |-> n, role |-> role, sys |-> l],
                               !.pc = IF l = None THEN "insert" ELSE "ensure"])
  /\ UNCHANGED <<tables, host, locks, history>>

\* Ensure reuses an ordinary Linux user that is there, whoever made it.
EnsureLogin(h, l, next) ==
  \/ /\ logins' = logins \cup {l} /\ Goto(h, next) /\ UNCHANGED <<tenantMu, auto>>
  \/ /\ Failures /\ l \notin logins
     /\ UNCHANGED <<logins, auto>>
     /\ IF hd[h].op = "create" THEN Reply(h) /\ UNCHANGED tenantMu
        ELSE Goto(h, "refused") /\ tenantMu' = None

CreateEnsure(h) ==
  /\ At(h, "create", "ensure")
  /\ EnsureLogin(h, hd[h].row.sys, "insert")
  /\ UNCHANGED <<tables, built, accountMu, ops, contested>>

\* Linux users counted as unused and about to be removed.
Doomed == {hd[g].row.sys : g \in {f \in Handler : At(f, "delete", "userdel")}}

\* username is UNIQUE, system_user is not.
CreateInsert(h) ==
  /\ At(h, "create", "insert")
  /\ \/ /\ \A a \in Account : user[a].name # hd[h].row.name
        /\ \E a \in Account \ minted :
             user' = [user EXCEPT ![a] = hd[h].row] /\ minted' = minted \cup {a}
        /\ contested' = contested \cup ({hd[h].row.sys} \cap Doomed)
     \/ /\ Failures \/ \E a \in Account : user[a].name = hd[h].row.name
        /\ UNCHANGED <<user, minted, contested>>
  /\ Reply(h)
  /\ UNCHANGED <<sites, host, locks, ops, auto>>

-----------------------------------------------------------------------------
(* postDeleteUser, DeleteAccount *)

\* An administrator deletes an account other than their own.
DeleteUser(h, a) ==
  /\ Exists(a) /\ Admins \ {a} # {}
  /\ Ask(h, [NoHandling EXCEPT !.op = "delete", !.pc = "lock", !.who = a])
  /\ UNCHANGED <<tables, host, locks, history>>

Unlock(h) == accountMu' = None /\ Reply(h)

\* Bug: the administrators are counted before the lock is taken.
DeleteBeginUnlocked(h) ==
  /\ At(h, "delete", "lock")
  /\ Exists(hd[h].who) /\ (user[hd[h].who].role = "admin" => Cardinality(Admins) > 1)
  /\ hd' = [hd EXCEPT ![h].pc = "list", ![h].row = user[hd[h].who]] /\ UNCHANGED accountMu
  /\ UNCHANGED <<tables, host, tenantMu, ops, history>>

DeleteBegin(h) ==
  LET a == hd[h].who IN
  /\ At(h, "delete", "lock") /\ accountMu = None
  /\ \/ /\ Exists(a) /\ (user[a].role = "admin" => Cardinality(Admins) > 1)
        /\ accountMu' = h
        /\ hd' = [hd EXCEPT ![h].pc = "list", ![h].row = user[a]]
     \/ /\ ~Exists(a) \/ (user[a].role = "admin" /\ Cardinality(Admins) <= 1)
        /\ Reply(h) /\ UNCHANGED accountMu
  /\ UNCHANGED <<tables, host, tenantMu, ops, history>>

DeleteList(h) ==
  /\ At(h, "delete", "list")
  /\ hd' = [hd EXCEPT ![h].pc = "teardown", ![h].had = hd[h].who \in sites]
  /\ UNCHANGED <<tables, host, locks, ops, history>>

\* Virtual host and pool of the listed sites, then Apply.
DeleteTeardown(h) ==
  /\ At(h, "delete", "teardown")
  /\ built' = IF hd[h].had THEN built \ {hd[h].who} ELSE built
  /\ \/ Goto(h, "objects") /\ UNCHANGED accountMu
     \/ Failures /\ Unlock(h)
  /\ UNCHANGED <<tables, logins, tenantMu, ops, history>>

\* The account's databases and database users are dropped, as far as that works.
DeleteObjects(h) ==
  /\ At(h, "delete", "objects") /\ Goto(h, "drop")
  /\ UNCHANGED <<tables, host, locks, ops, history>>

\* The row goes, and by ON DELETE CASCADE all that refers to it: a site created
\* since the sites were listed too.
DeleteRow(h) ==
  LET a == hd[h].who IN
  /\ At(h, "delete", "drop")
  /\ \/ /\ user' = [user EXCEPT ![a] = NoUser] /\ sites' = sites \ {a}
        /\ contested' = contested \cup (IF hd[h].had THEN {} ELSE sites \cap {a})
        /\ IF hd[h].row.sys = None THEN Unlock(h) ELSE Goto(h, "count") /\ UNCHANGED accountMu
     \/ Failures /\ Unlock(h) /\ UNCHANGED <<user, sites, contested>>
  /\ UNCHANGED <<minted, host, tenantMu, ops, auto>>

\* Bug: whether another account uses the Linux user is not asked.
DeleteCountNot(h) ==
  /\ At(h, "delete", "count") /\ Goto(h, "userdel")
  /\ UNCHANGED <<tables, host, locks, ops, history>>

DeleteCount(h) ==
  /\ At(h, "delete", "count")
  /\ IF CountBySystemUser(hd[h].row.sys) = 0 THEN Goto(h, "userdel") /\ UNCHANGED accountMu
     ELSE Unlock(h)
  /\ UNCHANGED <<tables, host, tenantMu, ops, history>>

\* Requests that found the Linux user l there and have not recorded it yet.
Holding(l) == {g \in Handler : \/ At(g, "create", "insert") /\ hd[g].row.sys = l
                               \/ hd[g].pc = "persist" /\ hd[g].login = l}

\* crontab -r, then userdel; errors are ignored.  Since the count, another request
\* may have recorded the same Linux user (Doomed), or is about to.
DeleteLogin(h) ==
  LET l == hd[h].row.sys IN
  /\ At(h, "delete", "userdel")
  /\ \/ logins' = logins \ {l}
     \/ Failures /\ UNCHANGED logins
  /\ contested' = IF Holding(l) = {} THEN contested ELSE contested \cup {l}
  /\ Unlock(h)
  /\ UNCHANGED <<tables, built, tenantMu, ops, auto>>

-----------------------------------------------------------------------------
(* ensureTenant, for whatever request runs it *)

\* An account that has a Linux user needs no lock.
TenantLook(h) ==
  /\ hd[h].pc = "tenant"
  /\ hd' = [hd EXCEPT ![h].pc = IF hd[h].row.sys = None THEN "wait" ELSE "ready",
                      ![h].login = hd[h].row.sys]
  /\ UNCHANGED <<tables, host, locks, ops, history>>

\* deriveSystemUser skips names other accounts use and Linux users that are there.
Free(l)     == CountBySystemUser(l) = 0 /\ l \notin logins
Derivable(n) == {i \in DOMAIN Candidates[n] : Free(Candidates[n][i])}
Derived(n)  == Candidates[n][CHOOSE i \in Derivable(n) : \A j \in Derivable(n) : i <= j]

\* Bug: the name is derived before the lock is taken.
TenantDeriveUnlocked(h) ==
  LET n == hd[h].row.name IN
  /\ hd[h].pc = "wait" /\ Derivable(n) # {}
  /\ hd' = [hd EXCEPT ![h].pc = "provision", ![h].login = Derived(n)]
  /\ UNCHANGED <<tables, host, locks, ops, history>>

\* Bug: that no name was found is not looked at.
TenantDeriveUnchecked(h) ==
  LET now == user[hd[h].who]  n == hd[h].row.name IN
  /\ hd[h].pc = "wait" /\ tenantMu = None
  /\ now # NoUser /\ now.sys = None
  /\ tenantMu' = h
  /\ hd' = [hd EXCEPT ![h].pc = "provision",
                      ![h].login = IF Derivable(n) = {} THEN None ELSE Derived(n)]
  /\ UNCHANGED <<tables, host, accountMu, ops, history>>

\* The row is read again under the lock.
TenantDerive(h) ==
  LET now == user[hd[h].who]  n == hd[h].row.name IN
  /\ hd[h].pc = "wait" /\ tenantMu = None
  /\ \/ /\ now # NoUser /\ now.sys = None /\ Derivable(n) # {}
        /\ tenantMu' = h
        /\ hd' = [hd EXCEPT ![h].pc = "provision", ![h].login = Derived(n)]
     \/ /\ now.sys # None /\ UNCHANGED tenantMu
        /\ hd' = [hd EXCEPT ![h].pc = "ready", ![h].login = now.sys]
     \/ /\ now = NoUser \/ (now.sys = None /\ Derivable(n) = {})
        /\ Goto(h, "refused") /\ UNCHANGED tenantMu
  /\ UNCHANGED <<tables, host, accountMu, ops, history>>

TenantEnsure(h) ==
  /\ hd[h].pc = "provision"
  /\ EnsureLogin(h, hd[h].login, "persist")
  /\ UNCHANGED <<tables, built, accountMu, ops, contested>>

\* UPDATE users ... WHERE id = ?: nothing happens to an account deleted meanwhile.
TenantPersist(h) ==
  LET a == hd[h].who IN
  /\ hd[h].pc = "persist"
  /\ \/ /\ user' = IF Exists(a) THEN [user EXCEPT ![a].sys = hd[h].login] ELSE user
        /\ auto' = IF Exists(a) THEN auto \cup {a} ELSE auto
        /\ contested' = contested \cup ({hd[h].login} \cap Doomed)
        /\ Goto(h, "upgrade") /\ UNCHANGED tenantMu
     \/ Failures /\ Goto(h, "refused") /\ tenantMu' = None /\ UNCHANGED <<user, history>>
  /\ UNCHANGED <<minted, sites, host, accountMu, ops>>

\* upgradeOwnerSites: the account's sites change hands, still under the lock.
TenantUpgrade(h) ==
  /\ hd[h].pc = "upgrade" /\ tenantMu' = None /\ Goto(h, "ready")
  /\ UNCHANGED <<tables, host, accountMu, ops, history>>

-----------------------------------------------------------------------------
(* CreateSite, as far as accounts go *)

CreateSite(h, a) ==
  /\ Exists(a) /\ a \notin sites \cup built
  /\ \A g \in Handler : hd[g].op = "site" => hd[g].who # a
  /\ Ask(h, [NoHandling EXCEPT !.op = "site", !.pc = "tenant", !.who = a, !.row = user[a]])
  /\ UNCHANGED <<tables, host, locks, history>>

\* Pool and virtual host, with the Linux user or, when ensureTenant failed, without one;
\* both are taken back when one of them fails.
SiteBuild(h) ==
  /\ At(h, "site", "ready") \/ At(h, "site", "refused")
  /\ \/ built' = built \cup {hd[h].who} /\ Goto(h, "record")
     \/ Failures /\ Reply(h) /\ UNCHANGED built
  /\ UNCHANGED <<tables, logins, locks, ops, history>>

\* Bug: what was built stays when the row is refused.
SiteRecordKeeps(h) ==
  LET a == hd[h].who IN
  /\ At(h, "site", "record")
  /\ sites' = IF Exists(a) THEN sites \cup {a} ELSE sites
  /\ Reply(h)
  /\ UNCHANGED <<user, minted, host, locks, ops, history>>

\* user_id refers to a row; without one what was built is taken back.
SiteRecord(h) ==
  LET a == hd[h].who IN
  /\ At(h, "site", "record")
  /\ \/ Exists(a) /\ sites' = sites \cup {a} /\ UNCHANGED built
     \/ (Failures \/ ~Exists(a)) /\ built' = built \ {a} /\ UNCHANGED sites
  /\ Reply(h)
  /\ UNCHANGED <<user, minted, logins, locks, ops, history>>

-----------------------------------------------------------------------------
(* The process ends: requests and locks are gone.  A site that was up and not yet *)
(* recorded stays up.                                                       *)

Interrupted ==
  /\ hd' = [h \in Handler |-> NoHandling] /\ accountMu' = None /\ tenantMu' = None
  /\ contested' = contested \cup {hd[h].who : h \in {g \in Handler : At(g, "site", "record")}}
  /\ UNCHANGED <<tables, host, auto>>

-----------------------------------------------------------------------------
(* Beginning, and the steps; Panel composes them with what hangs on an account *)

\* A panel with some accounts, an administrator among them (ensureAdmin).
AccountsInit ==
  /\ user \in Tables
  /\ minted = {a \in Account : Exists(a)} /\ sites \in SUBSET minted /\ built = sites
  /\ logins = Present \cup ({user[a].sys : a \in Account} \ {None})
  /\ accountMu = None /\ tenantMu = None
  /\ hd = [h \in Handler |-> NoHandling] /\ ops = 0 /\ auto = {} /\ contested = {}

AccountRequest(h) ==
  \/ \E n \in Name, role \in {"admin", "user"}, l \in Login \cup {None} : CreateUser(h, n, role, l)
  \/ \E a \in Account : DeleteUser(h, a) \/ CreateSite(h, a)

Tenant(h) == TenantLook(h) \/ TenantDerive(h) \/ TenantEnsure(h) \/ TenantPersist(h)

\* Steps no other component takes part in, and the two others do.
AccountStep(h) ==
  \/ CreateEnsure(h) \/ CreateInsert(h)
  \/ DeleteBegin(h) \/ DeleteList(h) \/ DeleteTeardown(h) \/ DeleteRow(h) \/ DeleteCount(h)
  \/ SiteBuild(h) \/ SiteRecord(h)
  \/ Tenant(h)

-----------------------------------------------------------------------------
(* Properties *)

\* However many deletions are asked for at a time, an administrator remains.
AdminRemains == Admins # {}

\* The Linux user an account names is there: provisioned, shared or reused, no
\* deletion of another account takes it away, but for one whose userdel met a
\* request that had just found it (contested).
LoginsStand == \A a \in Account : user[a].sys \in logins \cup contested \cup {None}

\* ensureTenant never gives two accounts one Linux user.
JitExclusive == \A a, b \in auto : a # b /\ Exists(a) /\ Exists(b) => user[a].sys # user[b].sys

\* A site is up only for an account that has its row, or while it is created: no
\* deletion leaves one running, but for a site that came after the sites were listed or
\* one whose creation the end of the process cut short (contested).
SitesOwned ==
  built \subseteq sites \cup contested \cup {hd[h].who : h \in {g \in Handler : At(g, "site", "record")}}
=============================================================================
