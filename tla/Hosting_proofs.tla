--------------------------- MODULE Hosting_proofs ---------------------------
(***************************************************************************)
(* What the steps of Accounts preserve, and what hangs on an account: cron *)
(* jobs against crontabs, files against their owners, rows about MariaDB   *)
(* objects against the server.  For each an inductive invariant, kept by   *)
(* its own steps, by those of Accounts and by the end of the process, for  *)
(* every number of accounts, names, Linux users and concurrent requests.   *)
(* None of these modules has a specification of its own: Panel_proofs      *)
(* takes these lemmas to the steps of Panel.                               *)
(***************************************************************************)
EXTENDS CronSync, DBObjects, Files, FiniteSetTheorems, SequenceTheorems, WellFoundedInduction, TLAPS

-----------------------------------------------------------------------------
(* Accounts: the invariant *)

\* While a deletion holds accountMu, and before its row is gone.
Deleting == {"list", "teardown", "objects", "drop", "count", "userdel"}
Listing  == {"list", "teardown", "objects", "drop"}

\* While ensureTenant holds tenantMu, and before the Linux user is recorded.
Provisioning == {"provision", "persist", "upgrade"}
Recording    == {"provision", "persist"}

\* What a request that is somewhere has in hand.
HandlingOK(x) ==
  /\ x \in Handling
  /\ x.pc \in Deleting \cup {"lock"} => x.op = "delete" /\ x.who \in Account
  /\ x.pc \in {"ensure", "insert"} => x.op = "create" /\ x.row.name \in Name
  /\ x.pc = "ensure" => x.row.sys \in Login
  /\ x.pc \in Provisioning \cup {"tenant", "wait", "ready", "refused", "record", "install"} =>
       x.op \in {"site", "addcron", "delcron"} /\ x.who \in Account
  /\ x.pc \in {"tenant", "wait"} \cup Provisioning => x.row.name \in Name
  /\ x.pc \in Provisioning => x.login \in Login
  /\ x.pc \in {"count", "userdel"} => x.row.sys \in Login

\* What it relies on: the locks it holds, an administrator besides the account it
\* deletes, that nobody was given the name it provisions, and that a Linux user is
\* there, or nobody's.
HandlingInv(h, x) ==
  /\ x.pc \in Deleting => accountMu = h
  /\ x.pc \in Listing => Admins \ {x.who} # {}
  /\ x.pc \in Provisioning => tenantMu = h
  /\ x.pc \in Recording => \A a \in auto : user[a].sys # x.login
  /\ x.pc = "insert" => x.row.sys \in logins \cup contested \cup {None}
  /\ x.pc = "persist" => x.login \in logins \cup contested
  /\ x.pc = "userdel" => \A a \in Account : user[a].sys = x.row.sys => x.row.sys \in contested

Ids == /\ IsFiniteSet(minted) /\ auto \subseteq minted
       /\ \A a \in Account : Exists(a) => a \in minted /\ user[a].name \in Name

AccountsInv ==
  /\ AccountsTypeOK /\ Ids
  /\ AdminRemains /\ LoginsStand /\ JitExclusive
  /\ \A h \in Handler : HandlingOK(hd[h]) /\ HandlingInv(h, hd[h])

-----------------------------------------------------------------------------
(* A request moves on *)

NothingNew == UNCHANGED <<user, minted, auto, contested>>

\* A request's step that changes no account: what the other requests rely on stands
\* if it takes no lock from them and no Linux user goes.
LEMMA RequestStep ==
  ASSUME AccountsInv, NEW h \in Handler, NEW x, HandlingOK(x), HandlingInv(h, x)',
         hd' = [hd EXCEPT ![h] = x], NothingNew,
         logins \subseteq logins', logins' \subseteq Login,
         sites' \subseteq Account, built' \subseteq Account, ops' \in Nat,
         accountMu' \in Handler \cup {None}, tenantMu' \in Handler \cup {None},
         \A g \in Handler \ {h} : (accountMu = g => accountMu' = g) /\ (tenantMu = g => tenantMu' = g)
  PROVE  AccountsInv'
  <1>1. hd'[h] = x /\ \A g \in Handler : g # h => hd'[g] = hd[g]
    BY DEF AccountsInv, AccountsTypeOK
  <1>2. AccountsTypeOK'
    BY <1>1 DEF AccountsInv, AccountsTypeOK, NothingNew, HandlingOK
  <1>3. Ids' /\ AdminRemains' /\ JitExclusive'
    BY DEF AccountsInv, Ids, NothingNew, Exists, AdminRemains, Admins, JitExclusive
  <1>4. LoginsStand'
    BY DEF AccountsInv, LoginsStand, NothingNew
  <1>5. ASSUME NEW g \in Handler, g # h
        PROVE  HandlingInv(g, hd[g])'
    <2>1. HandlingInv(g, hd[g]) /\ hd'[g] = hd[g]
      BY <1>1, <1>5 DEF AccountsInv
    <2> QED BY <1>5, <2>1 DEF HandlingInv, NothingNew, Admins, Exists
  <1>6. \A g \in Handler : HandlingOK(hd'[g]) /\ HandlingInv(g, hd[g])'
    BY <1>1, <1>5 DEF AccountsInv
  <1> QED BY <1>2, <1>3, <1>4, <1>6 DEF AccountsInv

LEMMA RequestOf ==
  ASSUME AccountsInv, NEW h \in Handler
  PROVE  /\ hd[h] \in Handling /\ HandlingOK(hd[h]) /\ HandlingInv(h, hd[h])
         /\ hd[h].row \in User /\ hd[h].login \in Login \cup {None}
         /\ None \notin Login \cup Handler \cup Account \cup Name \cup Request
  BY AccountAssumption DEF AccountsInv, HandlingOK, Handling

\* A request that ends, or stands where it relies on nothing.
Resting(x) == x.pc \notin Deleting \cup Provisioning \cup {"insert"}

LEMMA RestingRelies ==
  ASSUME NEW h, NEW x, Resting(x)
  PROVE  HandlingInv(h, x) /\ HandlingInv(h, x)'
  BY DEF Resting, HandlingInv, Deleting, Listing, Provisioning, Recording

LEMMA IdleRests == HandlingOK(NoHandling) /\ Resting(NoHandling)
  BY AccountAssumption DEF HandlingOK, NoHandling, Handling, Resting, Deleting, Provisioning,
                           NoUser, User, Pc, Request

\* A step to a place where the request relies on nothing, and that gives up at most
\* the locks the request has.
LEMMA RestStep ==
  ASSUME AccountsInv, NEW h \in Handler, NEW x, HandlingOK(x), Resting(x),
         hd' = [hd EXCEPT ![h] = x], NothingNew, UNCHANGED logins,
         sites' \subseteq Account, built' \subseteq Account, ops' \in Nat,
         accountMu' = accountMu \/ (accountMu = h /\ accountMu' = None),
         tenantMu' = tenantMu \/ (tenantMu = h /\ tenantMu' = None)
  PROVE  AccountsInv'
  <1>1. HandlingInv(h, x)'
    BY RestingRelies
  <1>2. logins \subseteq logins' /\ logins' \subseteq Login
    BY DEF AccountsInv, AccountsTypeOK
  <1>3. accountMu' \in Handler \cup {None} /\ tenantMu' \in Handler \cup {None}
    BY DEF AccountsInv, AccountsTypeOK
  <1>4. \A g \in Handler \ {h} : (accountMu = g => accountMu' = g) /\ (tenantMu = g => tenantMu' = g)
    OBVIOUS
  <1> QED BY <1>1, <1>2, <1>3, <1>4, RequestStep

\* x at another place.
Moved(x, pc) == [x EXCEPT !.pc = pc]

LEMMA MovedIs ==
  ASSUME NEW x \in Handling, NEW pc \in Pc
  PROVE  LET y == Moved(x, pc) IN
         /\ y \in Handling /\ y.pc = pc /\ y.op = x.op /\ y.who = x.who
         /\ y.row = x.row /\ y.login = x.login /\ y.had = x.had
  BY DEF Moved, Handling

LEMMA GotoIs ==
  ASSUME AccountsInv, NEW h \in Handler, NEW pc \in Pc, Goto(h, pc)
  PROVE  \E y \in Handling :
           /\ hd' = [hd EXCEPT ![h] = y] /\ y.pc = pc /\ y.op = hd[h].op /\ y.who = hd[h].who
           /\ y.row = hd[h].row /\ y.login = hd[h].login
  <1>1. hd' = [hd EXCEPT ![h] = Moved(hd[h], pc)]
    BY DEF Goto, Moved
  <1> QED BY <1>1, MovedIs, RequestOf

LEMMA LeavesReply ==
  ASSUME AccountsInv, NEW h \in Handler, Reply(h), NothingNew, UNCHANGED logins,
         sites' \subseteq Account, built' \subseteq Account, UNCHANGED ops,
         accountMu' = accountMu \/ (accountMu = h /\ accountMu' = None),
         tenantMu' = tenantMu \/ (tenantMu = h /\ tenantMu' = None)
  PROVE  AccountsInv'
  <1>1. hd' = [hd EXCEPT ![h] = NoHandling] /\ ops' \in Nat
    BY DEF Reply, AccountsInv, AccountsTypeOK
  <1> QED BY <1>1, IdleRests, RestStep

LEMMA Untouched ==
  ASSUME AccountsInv
  PROVE  /\ sites \subseteq Account /\ built \subseteq Account /\ logins \subseteq Login /\ ops \in Nat
         /\ user \in [Account -> User] /\ minted \subseteq Account
         /\ accountMu \in Handler \cup {None} /\ tenantMu \in Handler \cup {None}
  BY DEF AccountsInv, AccountsTypeOK

-----------------------------------------------------------------------------
(* Creation of an account *)

LEMMA CreateUserKeeps ==
  ASSUME AccountsInv, NEW h \in Handler, NEW n \in Name, NEW role \in {"admin", "user"},
         NEW l \in Login \cup {None}, CreateUser(h, n, role, l)
  PROVE  AccountsInv'
  <1> DEFINE x == [NoHandling EXCEPT !.op = "create", !.row = [name |-> n, role |-> role, sys |-> l],
                                     !.pc = IF l = None THEN "insert" ELSE "ensure"]
  <1>1. hd' = [hd EXCEPT ![h] = x] /\ ops' = ops + 1 /\ UNCHANGED <<tables, host, locks, history>>
    BY DEF CreateUser, Ask
  <1>2. /\ x \in Handling /\ x.op = "create" /\ x.row.name = n /\ x.row.sys = l
        /\ l = None => x.pc = "insert"
        /\ l # None => x.pc = "ensure"
    BY DEF NoHandling, Handling, NoUser, User, Pc, Request
  <1> HIDE DEF x
  <1>3. HandlingOK(x)
    <2>1. CASE l = None
      BY <1>2, <2>1 DEF HandlingOK, Deleting, Provisioning
    <2>2. CASE l # None
      BY <1>2, <2>2 DEF HandlingOK, Deleting, Provisioning
    <2> QED BY <2>1, <2>2
  <1>4. HandlingInv(h, x)'
    BY <1>2 DEF HandlingInv, Deleting, Listing, Provisioning, Recording
  <1>5. NothingNew /\ UNCHANGED <<logins, sites, built, accountMu, tenantMu>> /\ ops' \in Nat
    BY <1>1, Untouched DEF NothingNew, tables, host, locks, history
  <1> QED BY <1>1, <1>3, <1>4, <1>5, Untouched, RequestStep

LEMMA CreateEnsureKeeps ==
  ASSUME AccountsInv, NEW h \in Handler, CreateEnsure(h)
  PROVE  AccountsInv'
  <1> DEFINE l == hd[h].row.sys
  <1>2. hd[h].op = "create" /\ hd[h].pc = "ensure" /\ l \in Login /\ hd[h].row.name \in Name
    BY RequestOf DEF CreateEnsure, At, HandlingOK
  <1>3. /\ NothingNew /\ UNCHANGED <<sites, built, accountMu, ops>>
        /\ \/ logins' = logins \cup {l} /\ Goto(h, "insert") /\ UNCHANGED tenantMu
           \/ Reply(h) /\ UNCHANGED <<logins, tenantMu>>
    BY <1>2 DEF CreateEnsure, EnsureLogin, tables, NothingNew
  <1>4. CASE logins' = logins \cup {l} /\ Goto(h, "insert") /\ UNCHANGED tenantMu
    <2>2. PICK y \in Handling :
            /\ hd' = [hd EXCEPT ![h] = y] /\ y.pc = "insert"
            /\ y.op = "create" /\ y.row = hd[h].row
      BY <1>2, <1>4, GotoIs DEF Pc
    <2>3. HandlingOK(y)
      BY <1>2, <2>2 DEF HandlingOK, Deleting, Provisioning
    <2>4. HandlingInv(h, y)'
      BY <1>4, <2>2 DEF HandlingInv, Deleting, Listing, Provisioning, Recording
    <2>5. logins \subseteq logins' /\ logins' \subseteq Login
      BY <1>2, <1>4, Untouched
    <2> HIDE DEF l
    <2> QED BY <1>3, <1>4, <2>2, <2>3, <2>4, <2>5, Untouched, RequestStep
  <1>5. CASE Reply(h) /\ UNCHANGED <<logins, tenantMu>>
    BY <1>3, <1>5, Untouched, LeavesReply
  <1> QED BY <1>3, <1>4, <1>5

LEMMA CreateInsertKeeps ==
  ASSUME AccountsInv, NEW h \in Handler, CreateInsert(h)
  PROVE  AccountsInv'
  <1>1. /\ hd[h].op = "create" /\ hd[h].pc = "insert" /\ Reply(h)
        /\ UNCHANGED <<sites, built, logins, accountMu, tenantMu, ops, auto>>
    BY DEF CreateInsert, At, host, locks
  <1>2. CASE UNCHANGED <<user, minted, contested>>
    BY <1>1, <1>2, Untouched, LeavesReply DEF NothingNew
  <1>3. ASSUME NEW a \in Account \ minted,
               user' = [user EXCEPT ![a] = hd[h].row], minted' = minted \cup {a},
               contested' = contested \cup ({hd[h].row.sys} \cap Doomed),
               \A b \in Account : user[b].name # hd[h].row.name
        PROVE  AccountsInv'
    <2> DEFINE l == hd[h].row.sys
    <2>1. /\ hd[h].row \in User /\ hd[h].row.name \in Name /\ hd[h].row # NoUser
          /\ l \in Login \cup {None} /\ l \in logins \cup contested \cup {None}
      BY <1>1, RequestOf, AccountAssumption DEF HandlingOK, HandlingInv, User, NoUser
    <2>2. user'[a] = hd[h].row /\ \A b \in Account : b # a => user'[b] = user[b]
      BY <1>3, Untouched
    <2>3. user[a] = NoUser /\ a \notin auto
      BY <1>3 DEF AccountsInv, Ids, Exists
    <2>4. contested \subseteq contested' /\ contested' \subseteq Account \cup Login
      <3>1. CASE l \in Login
        BY <1>3, <3>1 DEF AccountsInv, AccountsTypeOK
      <3>2. CASE l = None
        <4>1. None \notin Doomed
          BY RequestOf DEF Doomed, At, HandlingOK
        <4> QED BY <1>3, <3>2, <4>1 DEF AccountsInv, AccountsTypeOK
      <3> QED BY <2>1, <3>1, <3>2
    <2>5. hd'[h] = NoHandling /\ \A g \in Handler : g # h => hd'[g] = hd[g]
      BY <1>1 DEF Reply, AccountsInv, AccountsTypeOK
    <2>6. AccountsTypeOK'
      <3>1. user' \in [Account -> User] /\ minted' \subseteq Account
        BY <1>3, <2>1, Untouched
      <3>2. hd' \in [Handler -> Handling]
        BY <1>1, IdleRests DEF Reply, AccountsInv, AccountsTypeOK, HandlingOK
      <3> QED BY <1>1, <2>4, <3>1, <3>2 DEF AccountsInv, AccountsTypeOK
    <2>7. Ids'
      <3>1. IsFiniteSet(minted')
        BY <1>3, FS_AddElement DEF AccountsInv, Ids
      <3> QED BY <1>1, <1>3, <2>1, <2>2, <3>1 DEF AccountsInv, Ids, Exists
    <2>8. Admins \subseteq Admins' /\ \A b : b # a => (b \in Admins' <=> b \in Admins)
      BY <2>2, <2>3 DEF Admins, Exists
    <2>9. AdminRemains'
      BY <2>8 DEF AccountsInv, AdminRemains
    <2>10. LoginsStand'
      BY <1>1, <2>1, <2>2, <2>4 DEF AccountsInv, LoginsStand
    <2>11. JitExclusive'
      BY <1>1, <2>2, <2>3 DEF AccountsInv, AccountsTypeOK, JitExclusive, Exists
    <2>12. ASSUME NEW g \in Handler, g # h
           PROVE  HandlingOK(hd'[g]) /\ HandlingInv(g, hd[g])'
      <3>1. HandlingOK(hd[g]) /\ HandlingInv(g, hd[g]) /\ hd'[g] = hd[g]
        BY <2>5, <2>12 DEF AccountsInv
      <3>2. hd[g].pc \in Listing => Admins' \ {hd[g].who} # {}
        BY <2>8, <3>1 DEF HandlingInv
      <3>3. hd[g].pc \in Recording => \A b \in auto' : user'[b].sys # hd[g].login
        BY <1>1, <2>2, <2>3, <3>1 DEF HandlingInv, AccountsInv, AccountsTypeOK
      <3>4. ASSUME hd[g].pc = "userdel", NEW b \in Account, user'[b].sys = hd[g].row.sys
            PROVE  hd[g].row.sys \in contested'
        <4>1. CASE b = a
          <5>1. hd[g].row.sys \in Doomed
            BY <3>1, <3>4 DEF Doomed, At, HandlingOK, Deleting
          <5> QED BY <1>3, <2>2, <3>4, <4>1, <5>1
        <4>2. CASE b # a
          BY <2>2, <2>4, <3>1, <3>4, <4>2 DEF HandlingInv
        <4> QED BY <4>1, <4>2
      <3> HIDE DEF l
      <3> QED BY <1>1, <2>4, <3>1, <3>2, <3>3, <3>4 DEF HandlingInv
    <2>13. HandlingOK(hd'[h]) /\ HandlingInv(h, hd[h])'
      BY <2>5, IdleRests, RestingRelies DEF Resting, HandlingInv, NoHandling,
                                           Deleting, Listing, Provisioning, Recording
    <2> QED BY <2>6, <2>7, <2>9, <2>10, <2>11, <2>12, <2>13 DEF AccountsInv
  <1>4. \/ UNCHANGED <<user, minted, contested>>
        \/ /\ \E a \in Account \ minted :
                user' = [user EXCEPT ![a] = hd[h].row] /\ minted' = minted \cup {a}
           /\ \A b \in Account : user[b].name # hd[h].row.name
           /\ contested' = contested \cup ({hd[h].row.sys} \cap Doomed)
    BY DEF CreateInsert
  <1> QED BY <1>2, <1>3, <1>4

-----------------------------------------------------------------------------
(* Deletion of an account *)

LEMMA DeleteUserKeeps ==
  ASSUME AccountsInv, NEW h \in Handler, NEW a \in Account, DeleteUser(h, a)
  PROVE  AccountsInv'
  <1> DEFINE x == [NoHandling EXCEPT !.op = "delete", !.pc = "lock", !.who = a]
  <1>1. hd' = [hd EXCEPT ![h] = x] /\ ops' = ops + 1 /\ UNCHANGED <<tables, host, locks, history>>
    BY DEF DeleteUser, Ask
  <1>2. x \in Handling /\ x.op = "delete" /\ x.pc = "lock" /\ x.who = a
    BY IdleRests DEF NoHandling, Handling, NoUser, User, Pc, Request
  <1> HIDE DEF x
  <1>3. HandlingOK(x) /\ Resting(x)
    BY <1>2 DEF HandlingOK, Resting, Deleting, Provisioning
  <1>4. NothingNew /\ UNCHANGED <<logins, sites, built, accountMu, tenantMu>> /\ ops' \in Nat
    BY <1>1, Untouched DEF NothingNew, tables, host, locks, history
  <1> QED BY <1>1, <1>3, <1>4, Untouched, RestStep

\* The lock is taken with the row in hand, and an administrator besides it.
LEMMA DeleteBeginKeeps ==
  ASSUME AccountsInv, NEW h \in Handler, DeleteBegin(h)
  PROVE  AccountsInv'
  <1> DEFINE a == hd[h].who
  <1>1. hd[h].op = "delete" /\ hd[h].pc = "lock" /\ accountMu = None /\ a \in Account
    BY RequestOf DEF DeleteBegin, At, HandlingOK
  <1>2. NothingNew /\ UNCHANGED <<logins, sites, built, tenantMu, ops>>
    BY DEF DeleteBegin, NothingNew, tables, host, history
  <1>3. CASE Reply(h) /\ UNCHANGED accountMu
    BY <1>2, <1>3, Untouched, LeavesReply
  <1>4. ASSUME Exists(a), user[a].role = "admin" => Cardinality(Admins) > 1, accountMu' = h,
               hd' = [hd EXCEPT ![h].pc = "list", ![h].row = user[a]]
        PROVE  AccountsInv'
    <2>1. Admins \ {a} # {}
      <3>1. CASE user[a].role = "admin"
        <4>1. Cardinality(Admins) > 1
          BY <1>4, <3>1
        <4>2. Cardinality({a}) = 1
          BY FS_Singleton
        <4>3. Admins # {a}
          BY <4>1, <4>2
        <4>4. Admins # {}
          BY DEF AccountsInv, AdminRemains
        <4> QED BY <4>3, <4>4
      <3>2. CASE user[a].role # "admin"
        BY <3>2 DEF AccountsInv, AdminRemains, Admins
      <3> QED BY <3>1, <3>2
    <2>2. PICK y : y = [hd[h] EXCEPT !.pc = "list", !.row = user[a]]
      OBVIOUS
    <2>3. hd' = [hd EXCEPT ![h] = y]
      BY <1>4, <2>2
    <2>4. y \in Handling /\ y.pc = "list" /\ y.op = "delete" /\ y.who = a
      BY <1>1, <2>2, RequestOf, Untouched DEF Handling, Pc
    <2>5. HandlingOK(y)
      BY <1>1, <2>4 DEF HandlingOK, Provisioning
    <2>6. Admins' = Admins
      BY <1>2 DEF Admins, Exists, NothingNew
    <2>7. (Admins \ {y.who})' # {}
      BY <2>1, <2>4, <2>6
    <2>8. HandlingInv(h, y)'
      BY <1>4, <2>4, <2>7 DEF HandlingInv, Provisioning, Recording
    <2> QED BY <1>1, <1>2, <1>4, <2>3, <2>5, <2>8, Untouched, RequestStep, RequestOf
  <1> QED BY <1>3, <1>4 DEF DeleteBegin

\* A deletion that goes on.
LEMMA DeletingGoesOn ==
  ASSUME AccountsInv, NEW h \in Handler, NEW x \in Handling, hd' = [hd EXCEPT ![h] = x],
         hd[h].pc \in Deleting, x.pc \in Deleting, x.op = hd[h].op, x.who = hd[h].who,
         x.pc \in Listing => hd[h].pc \in Listing,
         x.pc \in {"count", "userdel"} => x.row.sys \in Login,
         x.pc = "userdel" => \A a \in Account : user[a].sys # x.row.sys,
         NothingNew, UNCHANGED <<logins, sites, accountMu, tenantMu, ops>>, built' \subseteq Account
  PROVE  AccountsInv'
  <1>1. hd[h].op = "delete" /\ hd[h].who \in Account /\ accountMu = h
    BY RequestOf DEF HandlingOK, HandlingInv
  <1>2. HandlingOK(x)
    BY <1>1 DEF HandlingOK, Deleting, Provisioning
  <1>3. x.pc \in Listing => Admins' \ {x.who} # {}
    BY RequestOf DEF HandlingInv, NothingNew, Admins, Exists
  <1>4. HandlingInv(h, x)'
    BY <1>1, <1>3 DEF HandlingInv, NothingNew, Deleting, Provisioning, Recording
  <1> QED BY <1>2, <1>4, Untouched, RequestStep

LEMMA DeleteListKeeps ==
  ASSUME AccountsInv, NEW h \in Handler, DeleteList(h)
  PROVE  AccountsInv'
  <1>0. PICK b \in BOOLEAN : b = (hd[h].who \in sites)
    <2>1. CASE hd[h].who \in sites
      <3>1. (hd[h].who \in sites) = TRUE
        BY <2>1
      <3> WITNESS TRUE \in BOOLEAN
      <3> QED BY <3>1
    <2>2. CASE hd[h].who \notin sites
      <3>1. (hd[h].who \in sites) = FALSE
        BY <2>2
      <3> WITNESS FALSE \in BOOLEAN
      <3> QED BY <3>1
    <2> QED BY <2>1, <2>2
  <1>1. PICK y : y = [hd[h] EXCEPT !.pc = "teardown", !.had = b]
    OBVIOUS
  <1>2. hd' = [hd EXCEPT ![h] = y] /\ hd[h].pc = "list"
    BY <1>0, <1>1 DEF DeleteList, At
  <1>3. y \in Handling /\ y.pc = "teardown" /\ y.op = hd[h].op /\ y.who = hd[h].who
    BY <1>1, RequestOf DEF Handling, Pc
  <1>4. NothingNew /\ UNCHANGED <<logins, sites, built, accountMu, tenantMu, ops>>
    BY DEF DeleteList, NothingNew, tables, host, locks, history
  <1> QED BY <1>2, <1>3, <1>4, Untouched, DeletingGoesOn DEF Deleting, Listing

LEMMA UnlockReplies ==
  ASSUME AccountsInv, NEW h \in Handler, Unlock(h), hd[h].pc \in Deleting,
         NothingNew, UNCHANGED <<logins, sites, tenantMu, ops>>, built' \subseteq Account
  PROVE  AccountsInv'
  <1>1. accountMu = h
    BY RequestOf DEF HandlingInv
  <1> QED BY <1>1, Untouched, LeavesReply DEF Unlock

LEMMA DeleteTeardownKeeps ==
  ASSUME AccountsInv, NEW h \in Handler, DeleteTeardown(h)
  PROVE  AccountsInv'
  <1>1. /\ hd[h].pc = "teardown" /\ built' \subseteq Account
        /\ NothingNew /\ UNCHANGED <<logins, sites, tenantMu, ops>>
    BY Untouched DEF DeleteTeardown, At, NothingNew, tables, history
  <1>2. CASE Goto(h, "objects") /\ UNCHANGED accountMu
    <2>1. PICK y \in Handling : /\ hd' = [hd EXCEPT ![h] = y] /\ y.pc = "objects"
                                /\ y.op = hd[h].op /\ y.who = hd[h].who
      BY <1>2, GotoIs DEF Pc
    <2> QED BY <1>1, <1>2, <2>1, DeletingGoesOn DEF Deleting, Listing
  <1>3. CASE Unlock(h)
    BY <1>1, <1>3, UnlockReplies DEF Deleting
  <1> QED BY <1>2, <1>3 DEF DeleteTeardown

LEMMA DeleteObjectsKeeps ==
  ASSUME AccountsInv, NEW h \in Handler, DeleteObjects(h)
  PROVE  AccountsInv'
  <1>1. /\ hd[h].pc = "objects" /\ Goto(h, "drop")
        /\ NothingNew /\ UNCHANGED <<logins, sites, built, accountMu, tenantMu, ops>>
    BY DEF DeleteObjects, At, NothingNew, tables, host, locks, history
  <1>2. PICK y \in Handling : /\ hd' = [hd EXCEPT ![h] = y] /\ y.pc = "drop"
                              /\ y.op = hd[h].op /\ y.who = hd[h].who
    BY <1>1, GotoIs DEF Pc
  <1> QED BY <1>1, <1>2, Untouched, DeletingGoesOn DEF Deleting, Listing

\* Accounts that name a Linux user, counted among the rows there are.
LEMMA NobodyUses ==
  ASSUME AccountsInv, NEW l \in Login, CountBySystemUser(l) = 0
  PROVE  \A a \in Account : user[a].sys # l
  <1> DEFINE S == {a \in Account : user[a].sys = l}
  <1>1. S \subseteq minted
    BY AccountAssumption DEF AccountsInv, Ids, Exists, NoUser
  <1>2. IsFiniteSet(S)
    BY <1>1, FS_Subset DEF AccountsInv, Ids
  <1>3. S = {}
    BY <1>2, FS_EmptySet DEF CountBySystemUser
  <1> QED BY <1>3

LEMMA DeleteCountKeeps ==
  ASSUME AccountsInv, NEW h \in Handler, DeleteCount(h)
  PROVE  AccountsInv'
  <1> DEFINE l == hd[h].row.sys
  <1>1. /\ hd[h].pc = "count" /\ l \in Login
        /\ NothingNew /\ UNCHANGED <<logins, sites, built, tenantMu, ops>>
    BY RequestOf DEF DeleteCount, At, NothingNew, tables, host, history, HandlingOK
  <1>2. CASE CountBySystemUser(l) = 0 /\ Goto(h, "userdel") /\ UNCHANGED accountMu
    <2>1. \A a \in Account : user[a].sys # l
      BY <1>1, <1>2, NobodyUses
    <2>2. PICK y \in Handling : /\ hd' = [hd EXCEPT ![h] = y] /\ y.pc = "userdel" /\ y.row = hd[h].row
                                /\ y.op = hd[h].op /\ y.who = hd[h].who
      BY <1>2, GotoIs DEF Pc
    <2> QED BY <1>1, <1>2, <2>1, <2>2, Untouched, DeletingGoesOn DEF Deleting, Listing
  <1>3. CASE Unlock(h)
    BY <1>1, <1>3, Untouched, UnlockReplies DEF Deleting
  <1> QED BY <1>2, <1>3 DEF DeleteCount

\* The row goes, and with it what refers to it; an administrator is left.
LEMMA DeleteRowKeeps ==
  ASSUME AccountsInv, NEW h \in Handler, DeleteRow(h)
  PROVE  AccountsInv'
  <1> DEFINE a == hd[h].who
  <1>1. /\ hd[h].op = "delete" /\ hd[h].pc = "drop" /\ a \in Account /\ accountMu = h
        /\ Admins \ {a} # {}
        /\ UNCHANGED <<minted, built, logins, tenantMu, ops, auto>>
    BY RequestOf DEF DeleteRow, At, HandlingOK, HandlingInv, host, Deleting, Listing
  <1>2. CASE Unlock(h) /\ UNCHANGED <<user, sites, contested>>
    BY <1>1, <1>2, Untouched, UnlockReplies DEF Deleting, NothingNew
  <1>3. ASSUME user' = [user EXCEPT ![a] = NoUser], sites' = sites \ {a},
               contested' = contested \cup (IF hd[h].had THEN {} ELSE sites \cap {a}),
               NEW y \in Handling, hd' = [hd EXCEPT ![h] = y],
               y.pc = "idle" \/ (y.pc = "count" /\ y.op = "delete" /\ y.who = a /\ y.row.sys \in Login),
               accountMu' = IF y.pc = "idle" THEN None ELSE h
        PROVE  AccountsInv'
    <2>1. user'[a] = NoUser /\ \A b \in Account : b # a => user'[b] = user[b]
      BY <1>1, <1>3, Untouched
    <2>2. NoUser.sys = None /\ NoUser \in User /\ None \notin Login
      BY AccountAssumption DEF NoUser, User
    <2>3. contested \subseteq contested' /\ contested' \subseteq Account \cup Login
      BY <1>1, <1>3, Untouched DEF AccountsInv, AccountsTypeOK
    <2>4. hd'[h] = y /\ \A g \in Handler : g # h => hd'[g] = hd[g]
      BY <1>3 DEF AccountsInv, AccountsTypeOK
    <2>5. AccountsTypeOK'
      <3>1. user' \in [Account -> User] /\ sites' \subseteq Account
        BY <1>3, <2>2, Untouched
      <3>2. hd' \in [Handler -> Handling]
        BY <1>3 DEF AccountsInv, AccountsTypeOK
      <3>3. accountMu' \in Handler \cup {None}
        BY <1>3
      <3> QED BY <1>1, <2>3, <3>1, <3>2, <3>3 DEF AccountsInv, AccountsTypeOK
    <2>6. Ids'
      BY <1>1, <2>1 DEF AccountsInv, Ids, Exists
    <2>7. Admins' = Admins \ {a}
      BY <2>1 DEF Admins, Exists
    <2>8. AdminRemains'
      BY <1>1, <2>7 DEF AdminRemains
    <2>9. LoginsStand'
      BY <1>1, <2>1, <2>2, <2>3 DEF AccountsInv, LoginsStand
    <2>10. JitExclusive'
      BY <1>1, <2>1 DEF AccountsInv, AccountsTypeOK, JitExclusive, Exists
    <2>11. ASSUME NEW g \in Handler, g # h
           PROVE  HandlingOK(hd'[g]) /\ HandlingInv(g, hd[g])'
      <3>1. HandlingOK(hd[g]) /\ HandlingInv(g, hd[g]) /\ hd'[g] = hd[g]
        BY <2>4, <2>11 DEF AccountsInv
      <3>2. hd[g].pc \notin Deleting /\ hd[g].pc \notin Listing /\ hd[g].pc # "userdel"
        BY <1>1, <2>11, <3>1 DEF HandlingInv, Deleting, Listing
      <3>3. ASSUME hd[g].pc \in Recording, NEW b \in auto'
            PROVE  user'[b].sys # hd[g].login
        <4>1. hd[g].login \in Login /\ b \in Account /\ user[b].sys # hd[g].login
          BY <1>1, <3>1, <3>3 DEF HandlingInv, HandlingOK, Recording, Provisioning,
                                  AccountsInv, AccountsTypeOK
        <4> QED BY <2>1, <2>2, <4>1
      <3> HIDE DEF a
      <3> QED BY <1>1, <2>3, <3>1, <3>2, <3>3 DEF HandlingInv
    <2>12. HandlingOK(hd'[h])
      BY <1>1, <1>3, <2>4 DEF HandlingOK, Deleting, Provisioning
    <2>13. HandlingInv(h, hd[h])'
      BY <1>3, <2>4 DEF HandlingInv, Deleting, Listing, Provisioning, Recording
    <2> QED BY <2>5, <2>6, <2>8, <2>9, <2>10, <2>11, <2>12, <2>13 DEF AccountsInv
  <1>4. CASE /\ user' = [user EXCEPT ![a] = NoUser] /\ sites' = sites \ {a}
             /\ contested' = contested \cup (IF hd[h].had THEN {} ELSE sites \cap {a})
             /\ IF hd[h].row.sys = None THEN Unlock(h) ELSE Goto(h, "count") /\ UNCHANGED accountMu
    <2>1. CASE hd[h].row.sys = None
      <3>1. hd' = [hd EXCEPT ![h] = NoHandling] /\ accountMu' = None
        BY <1>4, <2>1 DEF Unlock, Reply
      <3>2. NoHandling \in Handling /\ NoHandling.pc = "idle"
        BY IdleRests DEF HandlingOK, NoHandling
      <3> HIDE DEF a
      <3> QED BY <1>3, <1>4, <3>1, <3>2
    <2>2. CASE hd[h].row.sys # None
      <3>1. PICK y \in Handling : /\ hd' = [hd EXCEPT ![h] = y] /\ y.pc = "count" /\ y.row = hd[h].row
                                  /\ y.op = hd[h].op /\ y.who = a
        BY <1>4, <2>2, GotoIs DEF Pc
      <3>2. y.row.sys \in Login /\ accountMu' = h
        BY <1>1, <1>4, <2>2, <3>1, RequestOf DEF User
      <3> QED BY <1>1, <1>3, <1>4, <3>1, <3>2
    <2> QED BY <2>1, <2>2
  <1> QED BY <1>2, <1>4 DEF DeleteRow

\* The Linux user goes; the requests that have just found it contest it.
LEMMA DeleteLoginKeeps ==
  ASSUME AccountsInv, NEW h \in Handler, DeleteLogin(h)
  PROVE  AccountsInv'
  <1> DEFINE l == hd[h].row.sys
  <1>1. /\ hd[h].pc = "userdel" /\ l \in Login /\ accountMu = h
        /\ \A a \in Account : user[a].sys = l => l \in contested
        /\ Unlock(h) /\ UNCHANGED <<user, minted, sites, built, tenantMu, ops, auto>>
    BY RequestOf DEF DeleteLogin, At, HandlingOK, HandlingInv, tables, Deleting
  <1>2. logins \ {l} \subseteq logins' /\ logins' \subseteq logins
    BY DEF DeleteLogin
  <1>3. contested' = IF Holding(l) = {} THEN contested ELSE contested \cup {l}
    BY DEF DeleteLogin
  <1>4. contested \subseteq contested' /\ contested' \subseteq Account \cup Login
    BY <1>1, <1>3 DEF AccountsInv, AccountsTypeOK
  <1>5. /\ accountMu' = None /\ hd'[h] = NoHandling
        /\ \A g \in Handler : g # h => hd'[g] = hd[g]
    BY <1>1 DEF Unlock, Reply, AccountsInv, AccountsTypeOK
  <1>6. AccountsTypeOK'
    <2>1. hd' \in [Handler -> Handling]
      BY <1>1, IdleRests DEF Unlock, Reply, AccountsInv, AccountsTypeOK, HandlingOK
    <2> QED BY <1>1, <1>2, <1>4, <1>5, <2>1 DEF AccountsInv, AccountsTypeOK
  <1>7. Ids' /\ AdminRemains' /\ JitExclusive'
    BY <1>1 DEF AccountsInv, Ids, Exists, AdminRemains, Admins, JitExclusive
  <1>8. LoginsStand'
    BY <1>1, <1>2, <1>4 DEF AccountsInv, LoginsStand
  <1>9. ASSUME NEW g \in Handler, g # h
        PROVE  HandlingOK(hd'[g]) /\ HandlingInv(g, hd[g])'
    <2>1. HandlingOK(hd[g]) /\ HandlingInv(g, hd[g]) /\ hd'[g] = hd[g]
      BY <1>5, <1>9 DEF AccountsInv
    <2>2. hd[g].pc \notin Deleting /\ hd[g].pc \notin Listing /\ hd[g].pc # "userdel"
      BY <1>1, <1>9, <2>1 DEF HandlingInv, Deleting, Listing
    <2>3. ASSUME hd[g].pc = "insert"
          PROVE  hd[g].row.sys \in logins' \cup contested' \cup {None}
      <3>1. CASE hd[g].row.sys = l
        <4>1. g \in Holding(l)
          BY <2>1, <2>3, <3>1 DEF Holding, At, HandlingOK
        <4>2. l \in contested'
          BY <1>3, <4>1
        <4> QED BY <3>1, <4>2
      <3>2. CASE hd[g].row.sys # l
        <4> HIDE DEF l
        <4> QED BY <1>2, <1>4, <2>1, <2>3, <3>2 DEF HandlingInv
      <3> QED BY <3>1, <3>2
    <2>4. ASSUME hd[g].pc = "persist"
          PROVE  hd[g].login \in logins' \cup contested'
      <3>1. CASE hd[g].login = l
        <4>1. g \in Holding(l)
          BY <2>4, <3>1 DEF Holding
        <4>2. l \in contested'
          BY <1>3, <4>1
        <4> QED BY <3>1, <4>2
      <3>2. CASE hd[g].login # l
        <4> HIDE DEF l
        <4> QED BY <1>2, <1>4, <2>1, <2>4, <3>2 DEF HandlingInv
      <3> QED BY <3>1, <3>2
    <2> HIDE DEF l
    <2> QED BY <1>1, <2>1, <2>2, <2>3, <2>4 DEF HandlingInv
  <1>10. HandlingOK(hd'[h]) /\ HandlingInv(h, hd[h])'
    BY <1>5, IdleRests DEF Resting, HandlingInv, NoHandling, Deleting, Listing, Provisioning, Recording
  <1> QED BY <1>6, <1>7, <1>8, <1>9, <1>10 DEF AccountsInv

-----------------------------------------------------------------------------
(* The Linux user of an account, provisioned when it is needed *)

\* A request on its way to a Linux user: it keeps what it is and who for.
LEMMA Onward ==
  ASSUME AccountsInv, NEW h \in Handler, NEW x \in Handling, hd' = [hd EXCEPT ![h] = x],
         hd[h].pc \in Provisioning \cup {"tenant", "wait"},
         x.pc \in {"wait", "ready", "refused"}, x.op = hd[h].op, x.who = hd[h].who,
         x.row = hd[h].row,
         NothingNew, UNCHANGED <<sites, built, accountMu, ops, logins>>,
         tenantMu' = tenantMu \/ (tenantMu = h /\ tenantMu' = None)
  PROVE  AccountsInv'
  <1>1. HandlingOK(x)
    BY RequestOf DEF HandlingOK, Provisioning, Deleting
  <1>2. Resting(x)
    BY DEF Resting, Provisioning, Deleting
  <1> QED BY <1>1, <1>2, Untouched, RestStep

LEMMA TenantLookKeeps ==
  ASSUME AccountsInv, NEW h \in Handler, TenantLook(h)
  PROVE  AccountsInv'
  <1>1. PICK pc \in {"wait", "ready"} : pc = IF hd[h].row.sys = None THEN "wait" ELSE "ready"
    OBVIOUS
  <1>2. PICK y : y = [hd[h] EXCEPT !.pc = pc, !.login = hd[h].row.sys]
    OBVIOUS
  <1>3. hd' = [hd EXCEPT ![h] = y] /\ hd[h].pc = "tenant"
    BY <1>1, <1>2 DEF TenantLook
  <1>4. y \in Handling /\ y.pc = pc /\ y.op = hd[h].op /\ y.who = hd[h].who /\ y.row = hd[h].row
    BY <1>1, <1>2, RequestOf DEF Handling, Pc, User
  <1>5. NothingNew /\ UNCHANGED <<logins, sites, built, accountMu, tenantMu, ops>>
    BY DEF TenantLook, NothingNew, tables, host, locks, history
  <1> QED BY <1>1, <1>3, <1>4, <1>5, Onward

\* A set of positions has a first one.
LEMMA FirstPosition ==
  ASSUME NEW T \in SUBSET Nat, T # {}
  PROVE  \E i \in T : \A j \in T : i <= j
  <1>1. PICK i \in T : \A j \in T : ~ (<<j, i>> \in OpToRel(<, Nat))
    BY NatLessThanWellFounded, WFMin, Zenon
  <1>2. \A j \in T : ~ (j < i)
    BY <1>1 DEF OpToRel
  <1> QED BY <1>2

LEMMA DerivedIsFree ==
  ASSUME NEW n \in Name, Derivable(n) # {}
  PROVE  Derived(n) \in Login /\ Free(Derived(n))
  <1>1. Candidates[n] \in Seq(Login)
    BY AccountAssumption
  <1>2. Derivable(n) \in SUBSET Nat
    BY <1>1 DEF Derivable
  <1> DEFINE i == CHOOSE i \in Derivable(n) : \A j \in Derivable(n) : i <= j
  <1>3. i \in Derivable(n)
    BY <1>2, FirstPosition, Zenon
  <1> HIDE DEF i
  <1>4. Candidates[n][i] \in Login /\ Free(Candidates[n][i])
    BY <1>1, <1>3 DEF Derivable
  <1>5. Derived(n) = Candidates[n][i]
    BY Zenon DEF Derived, i
  <1> QED BY <1>4, <1>5

\* Under the lock a name is chosen that nobody has.
LEMMA TenantDeriveKeeps ==
  ASSUME AccountsInv, NEW h \in Handler, TenantDerive(h)
  PROVE  AccountsInv'
  <1> DEFINE now == user[hd[h].who]
             n == hd[h].row.name
  <1>1. /\ hd[h].pc = "wait" /\ tenantMu = None /\ n \in Name
        /\ NothingNew /\ UNCHANGED <<logins, sites, built, accountMu, ops>>
    BY RequestOf DEF TenantDerive, NothingNew, tables, host, history, HandlingOK
  <1>2. ASSUME Derivable(n) # {}, tenantMu' = h,
               hd' = [hd EXCEPT ![h].pc = "provision", ![h].login = Derived(n)]
        PROVE  AccountsInv'
    <2>1. PICK l \in Login : l = Derived(n) /\ Free(l)
      BY <1>1, <1>2, DerivedIsFree
    <2>2. \A a \in Account : user[a].sys # l
      BY <2>1, NobodyUses DEF Free
    <2>3. PICK y : y = [hd[h] EXCEPT !.pc = "provision", !.login = l]
      OBVIOUS
    <2>4. hd' = [hd EXCEPT ![h] = y]
      BY <1>2, <2>1, <2>3
    <2>5. /\ y \in Handling /\ y.pc = "provision" /\ y.login = l
          /\ y.op = hd[h].op /\ y.who = hd[h].who /\ y.row = hd[h].row
      BY <2>3, RequestOf DEF Handling, Pc
    <2>6. HandlingOK(y)
      BY <1>1, <2>5, RequestOf DEF HandlingOK, Deleting, Provisioning
    <2>7. HandlingInv(h, y)'
      BY <1>1, <1>2, <2>2, <2>5 DEF HandlingInv, NothingNew, Deleting, Listing, Provisioning,
                                    Recording, AccountsInv, AccountsTypeOK
    <2> QED BY <1>1, <1>2, <2>4, <2>6, <2>7, Untouched, RequestOf, RequestStep
  <1>3. ASSUME UNCHANGED tenantMu, hd' = [hd EXCEPT ![h].pc = "ready", ![h].login = now.sys]
        PROVE  AccountsInv'
    <2>1. PICK y : y = [hd[h] EXCEPT !.pc = "ready", !.login = now.sys]
      OBVIOUS
    <2>2. hd[h].who \in Account
      BY <1>1, RequestOf DEF HandlingOK
    <2>3. /\ y \in Handling /\ y.pc = "ready" /\ y.op = hd[h].op /\ y.who = hd[h].who
          /\ y.row = hd[h].row
      BY <2>1, <2>2, RequestOf, Untouched DEF Handling, Pc, User
    <2>4. hd' = [hd EXCEPT ![h] = y]
      BY <1>3, <2>1
    <2> QED BY <1>1, <1>3, <2>3, <2>4, Onward
  <1>4. ASSUME Goto(h, "refused"), UNCHANGED tenantMu
        PROVE  AccountsInv'
    <2>1. PICK y \in Handling : /\ hd' = [hd EXCEPT ![h] = y] /\ y.pc = "refused"
                                /\ y.op = hd[h].op /\ y.who = hd[h].who /\ y.row = hd[h].row
      BY <1>4, GotoIs DEF Pc
    <2> QED BY <1>1, <1>4, <2>1, Onward
  <1> QED BY <1>2, <1>3, <1>4 DEF TenantDerive

LEMMA TenantEnsureKeeps ==
  ASSUME AccountsInv, NEW h \in Handler, TenantEnsure(h)
  PROVE  AccountsInv'
  <1> DEFINE l == hd[h].login
  <1>1. /\ hd[h].pc = "provision" /\ l \in Login /\ tenantMu = h
        /\ hd[h].op \in {"site", "addcron", "delcron"}
        /\ \A a \in auto : user[a].sys # l
    BY RequestOf DEF TenantEnsure, HandlingOK, HandlingInv, Provisioning, Recording
  <1>2. /\ NothingNew /\ UNCHANGED <<sites, built, accountMu, ops>>
        /\ \/ logins' = logins \cup {l} /\ Goto(h, "persist") /\ UNCHANGED tenantMu
           \/ Goto(h, "refused") /\ tenantMu' = None /\ UNCHANGED logins
    BY <1>1 DEF TenantEnsure, EnsureLogin, tables, NothingNew
  <1>3. CASE logins' = logins \cup {l} /\ Goto(h, "persist") /\ UNCHANGED tenantMu
    <2>1. PICK y \in Handling : /\ hd' = [hd EXCEPT ![h] = y] /\ y.pc = "persist" /\ y.login = l
                                /\ y.op = hd[h].op /\ y.who = hd[h].who /\ y.row = hd[h].row
      BY <1>3, GotoIs DEF Pc
    <2>2. HandlingOK(y)
      BY <1>1, <2>1, RequestOf DEF HandlingOK, Deleting, Provisioning
    <2>3. HandlingInv(h, y)'
      BY <1>1, <1>2, <1>3, <2>1 DEF HandlingInv, NothingNew, Deleting, Listing, Provisioning, Recording
    <2>4. logins \subseteq logins' /\ logins' \subseteq Login
      BY <1>1, <1>3, Untouched
    <2> HIDE DEF l
    <2> QED BY <1>2, <1>3, <2>1, <2>2, <2>3, <2>4, Untouched, RequestStep
  <1>4. CASE Goto(h, "refused") /\ tenantMu' = None /\ UNCHANGED logins
    <2>1. PICK y \in Handling : /\ hd' = [hd EXCEPT ![h] = y] /\ y.pc = "refused"
                                /\ y.op = hd[h].op /\ y.who = hd[h].who /\ y.row = hd[h].row
      BY <1>4, GotoIs DEF Pc
    <2>2. hd[h].pc \in Provisioning
      BY <1>1 DEF Provisioning
    <2> QED BY <1>1, <1>2, <1>4, <2>1, <2>2, Onward
  <1> QED BY <1>2, <1>3, <1>4

\* The Linux user is recorded: no other account has it by ensureTenant.
LEMMA TenantPersistKeeps ==
  ASSUME AccountsInv, NEW h \in Handler, TenantPersist(h)
  PROVE  AccountsInv'
  <1> DEFINE a == hd[h].who
             l == hd[h].login
  <1>1. /\ hd[h].pc = "persist" /\ l \in Login /\ tenantMu = h /\ a \in Account
        /\ hd[h].op \in {"site", "addcron", "delcron"} /\ hd[h].row.name \in Name
        /\ \A b \in auto : user[b].sys # l
        /\ l \in logins \cup contested
        /\ UNCHANGED <<minted, sites, built, logins, accountMu, ops>>
    BY RequestOf DEF TenantPersist, HandlingOK, HandlingInv, Provisioning, Recording, host
  <1>2. CASE Goto(h, "refused") /\ tenantMu' = None /\ UNCHANGED <<user, auto, contested>>
    <2>1. PICK y \in Handling : /\ hd' = [hd EXCEPT ![h] = y] /\ y.pc = "refused"
                                /\ y.op = hd[h].op /\ y.who = hd[h].who /\ y.row = hd[h].row
      BY <1>2, GotoIs DEF Pc
    <2>2. hd[h].pc \in Provisioning
      BY <1>1 DEF Provisioning
    <2> QED BY <1>1, <1>2, <2>1, <2>2, Onward DEF NothingNew
  <1>3. ASSUME user' = IF Exists(a) THEN [user EXCEPT ![a].sys = l] ELSE user,
               auto' = IF Exists(a) THEN auto \cup {a} ELSE auto,
               contested' = contested \cup ({l} \cap Doomed),
               Goto(h, "upgrade"), UNCHANGED tenantMu
        PROVE  AccountsInv'
    <2>1. PICK y \in Handling : /\ hd' = [hd EXCEPT ![h] = y] /\ y.pc = "upgrade" /\ y.login = l
                                /\ y.op = hd[h].op /\ y.who = a /\ y.row = hd[h].row
      BY <1>3, GotoIs DEF Pc
    <2>2. hd'[h] = y /\ \A g \in Handler : g # h => hd'[g] = hd[g]
      BY <2>1 DEF AccountsInv, AccountsTypeOK
    <2>3. /\ \A b \in Account : user'[b].name = user[b].name /\ user'[b].role = user[b].role
          /\ \A b \in Account : user'[b] = user[b] \/ (b = a /\ Exists(a) /\ user'[b].sys = l)
          /\ user' \in [Account -> User]
      BY <1>1, <1>3, Untouched DEF User
    <2>4. contested \subseteq contested' /\ contested' \subseteq Account \cup Login
      BY <1>1, <1>3 DEF AccountsInv, AccountsTypeOK
    <2>5. \A b \in Account : Exists(b)' <=> Exists(b)
      <3>1. NoUser.name = None /\ NoUser.sys = None /\ None \notin Name /\ None \notin Login
        BY AccountAssumption DEF NoUser
      <3>2. \A b \in Account : Exists(b) => user[b].name \in Name
        BY DEF AccountsInv, Ids
      <3>3. ASSUME NEW b \in Account, user'[b] # user[b]
            PROVE  Exists(b)' /\ Exists(b)
        BY <2>3, <3>1, <3>2, <3>3 DEF Exists
      <3> QED BY <3>3 DEF Exists
    <2>6. AccountsTypeOK'
      <3>1. auto' \subseteq Account
        BY <1>1, <1>3 DEF AccountsInv, AccountsTypeOK
      <3>2. hd' \in [Handler -> Handling]
        BY <2>1 DEF AccountsInv, AccountsTypeOK
      <3> QED BY <1>1, <1>3, <2>3, <2>4, <3>1, <3>2 DEF AccountsInv, AccountsTypeOK
    <2>7. Ids'
      <3>1. auto' \subseteq minted
        BY <1>1, <1>3 DEF AccountsInv, Ids
      <3> QED BY <1>1, <2>3, <2>5, <3>1 DEF AccountsInv, Ids
    <2>8. Admins' = Admins
      BY <2>3, <2>5 DEF Admins
    <2>9. AdminRemains'
      BY <2>8 DEF AccountsInv, AdminRemains
    <2>10. LoginsStand'
      <3>1. \A b \in Account : user[b].sys \in logins \cup contested \cup {None}
        BY DEF AccountsInv, LoginsStand
      <3> HIDE DEF l, a
      <3> QED BY <1>1, <2>3, <2>4, <3>1 DEF LoginsStand
    <2>11. JitExclusive'
      <3>1. \A b \in auto : b \in Account
        BY DEF AccountsInv, AccountsTypeOK
      <3>2. \A b \in auto' : b = a \/ b \in auto
        BY <1>3
      <3>3. ASSUME NEW b \in auto', NEW c \in auto', b # c, Exists(b)', Exists(c)'
            PROVE  user'[b].sys # user'[c].sys
        <4>1. b \in Account /\ c \in Account /\ Exists(b) /\ Exists(c)
          BY <1>1, <2>5, <3>1, <3>2, <3>3
        <4>2. CASE b = a
          <5>1. user'[b].sys = l /\ user'[c] = user[c] /\ c \in auto
            BY <1>1, <1>3, <2>3, <3>2, <3>3, <4>1, <4>2, Untouched
          <5> QED BY <1>1, <5>1
        <4>3. CASE c = a
          <5>1. user'[c].sys = l /\ user'[b] = user[b] /\ b \in auto
            BY <1>1, <1>3, <2>3, <3>2, <3>3, <4>1, <4>3, Untouched
          <5> QED BY <1>1, <5>1
        <4>4. CASE b # a /\ c # a
          <5>1. user'[c] = user[c] /\ user'[b] = user[b] /\ b \in auto /\ c \in auto
            BY <2>3, <3>2, <3>3, <4>1, <4>4
          <5> QED BY <3>3, <4>1, <5>1 DEF AccountsInv, JitExclusive
        <4> QED BY <4>2, <4>3, <4>4
      <3> QED BY <3>3 DEF JitExclusive
    <2>12. ASSUME NEW g \in Handler, g # h
           PROVE  HandlingOK(hd'[g]) /\ HandlingInv(g, hd[g])'
      <3>1. HandlingOK(hd[g]) /\ HandlingInv(g, hd[g]) /\ hd'[g] = hd[g]
        BY <2>2, <2>12 DEF AccountsInv
      <3>2. hd[g].pc \notin Provisioning /\ hd[g].pc \notin Recording /\ hd[g].pc # "persist"
        BY <1>1, <2>12, <3>1 DEF HandlingInv, Provisioning, Recording
      <3>3. ASSUME hd[g].pc = "userdel", NEW b \in Account, user'[b].sys = hd[g].row.sys
            PROVE  hd[g].row.sys \in contested'
        <4>1. CASE user'[b] = user[b]
          BY <2>4, <3>1, <3>3, <4>1 DEF HandlingInv
        <4>2. CASE user'[b].sys = l
          <5>1. hd[g].row.sys \in Doomed
            BY <3>1, <3>3 DEF Doomed, At, HandlingOK, Deleting
          <5> QED BY <1>3, <3>3, <4>2, <5>1
        <4> QED BY <2>3, <4>1, <4>2
      <3> HIDE DEF l, a
      <3> QED BY <1>1, <1>3, <2>4, <2>8, <3>1, <3>2, <3>3 DEF HandlingInv
    <2>13. HandlingOK(hd'[h])
      BY <1>1, <2>1, <2>2 DEF HandlingOK, Deleting, Provisioning
    <2>14. HandlingInv(h, hd[h])'
      BY <1>1, <1>3, <2>1, <2>2 DEF HandlingInv, Deleting, Listing, Provisioning, Recording
    <2> QED BY <2>6, <2>7, <2>9, <2>10, <2>11, <2>12, <2>13, <2>14 DEF AccountsInv
  <1> QED BY <1>2, <1>3 DEF TenantPersist, history

LEMMA TenantUpgradeKeeps ==
  ASSUME AccountsInv, NEW h \in Handler, TenantUpgrade(h)
  PROVE  AccountsInv'
  <1>1. /\ hd[h].pc = "upgrade" /\ tenantMu = h /\ tenantMu' = None /\ Goto(h, "ready")
        /\ NothingNew /\ UNCHANGED <<logins, sites, built, accountMu, ops>>
        /\ hd[h].pc \in Provisioning
    BY RequestOf DEF TenantUpgrade, NothingNew, tables, host, history, HandlingInv, Provisioning
  <1>2. PICK y \in Handling : /\ hd' = [hd EXCEPT ![h] = y] /\ y.pc = "ready"
                              /\ y.op = hd[h].op /\ y.who = hd[h].who /\ y.row = hd[h].row
    BY <1>1, GotoIs DEF Pc
  <1> QED BY <1>1, <1>2, Onward

-----------------------------------------------------------------------------
(* Creation of a site *)

LEMMA CreateSiteKeeps ==
  ASSUME AccountsInv, NEW h \in Handler, NEW a \in Account, CreateSite(h, a)
  PROVE  AccountsInv'
  <1>1. PICK x : x = [NoHandling EXCEPT !.op = "site", !.pc = "tenant", !.who = a, !.row = user[a]]
    OBVIOUS
  <1>2. /\ hd' = [hd EXCEPT ![h] = x] /\ ops' = ops + 1 /\ UNCHANGED <<tables, host, locks, history>>
        /\ Exists(a)
    BY <1>1 DEF CreateSite, Ask
  <1>3. /\ x \in Handling /\ x.op = "site" /\ x.pc = "tenant" /\ x.who = a
        /\ x.row.name \in Name
    BY <1>1, <1>2, Untouched DEF NoHandling, Handling, NoUser, User, Pc, Request, AccountsInv, Ids
  <1>4. HandlingOK(x) /\ Resting(x)
    BY <1>3 DEF HandlingOK, Resting, Deleting, Provisioning
  <1>5. NothingNew /\ UNCHANGED <<logins, sites, built, accountMu, tenantMu>> /\ ops' \in Nat
    BY <1>2, Untouched DEF NothingNew, tables, host, locks, history
  <1> QED BY <1>2, <1>4, <1>5, Untouched, RestStep

LEMMA SiteBuildKeeps ==
  ASSUME AccountsInv, NEW h \in Handler, SiteBuild(h)
  PROVE  AccountsInv'
  <1>1. /\ hd[h].op = "site" /\ hd[h].pc \in {"ready", "refused"} /\ hd[h].who \in Account
        /\ NothingNew /\ UNCHANGED <<logins, sites, accountMu, tenantMu, ops>>
    BY RequestOf DEF SiteBuild, At, NothingNew, tables, locks, history, HandlingOK
  <1>2. CASE built' = built \cup {hd[h].who} /\ Goto(h, "record")
    <2>1. PICK y \in Handling : /\ hd' = [hd EXCEPT ![h] = y] /\ y.pc = "record"
                                /\ y.op = hd[h].op /\ y.who = hd[h].who /\ y.row = hd[h].row
      BY <1>2, GotoIs DEF Pc
    <2>2. HandlingOK(y) /\ Resting(y)
      BY <1>1, <2>1 DEF HandlingOK, Resting, Deleting, Provisioning
    <2>3. built' \subseteq Account /\ sites' \subseteq Account /\ ops' \in Nat
      BY <1>1, <1>2, Untouched
    <2> QED BY <1>1, <2>1, <2>2, <2>3, RestStep
  <1>3. CASE Reply(h) /\ UNCHANGED built
    BY <1>1, <1>3, Untouched, LeavesReply
  <1> QED BY <1>2, <1>3 DEF SiteBuild

LEMMA SiteRecordStays ==
  ASSUME AccountsInv, NEW h \in Handler, SiteRecord(h)
  PROVE  AccountsInv'
  <1>1. /\ hd[h].op = "site" /\ hd[h].pc = "record" /\ hd[h].who \in Account /\ Reply(h)
        /\ UNCHANGED <<user, minted, logins, accountMu, tenantMu, ops, auto, contested>>
    BY RequestOf DEF SiteRecord, At, NothingNew, locks, history, HandlingOK
  <1>2. sites' \subseteq Account /\ built' \subseteq Account
    BY <1>1, Untouched DEF SiteRecord
  <1> QED BY <1>1, <1>2, LeavesReply DEF NothingNew

-----------------------------------------------------------------------------
(* Together *)

LEMMA AccountsBegins ==
  ASSUME AccountsInit
  PROVE  AccountsInv
  <1>1. user \in [Account -> User] /\ IsFiniteSet(minted) /\ AdminRemains
    BY AccountAssumption DEF AccountsInit, AdminRemains, Admins, Exists
  <1>2. \A a \in Account : Exists(a) => user[a].name \in Name
    BY <1>1, AccountAssumption DEF AccountsInit, Exists, User
  <1>3. AccountsTypeOK /\ Ids
    BY <1>1, <1>2, IdleRests, AccountAssumption
       DEF AccountsInit, AccountsTypeOK, Ids, HandlingOK, User, Exists
  <1>4. LoginsStand
    BY DEF AccountsInit, LoginsStand
  <1>5. JitExclusive
    BY DEF AccountsInit, JitExclusive
  <1>6. \A h \in Handler : HandlingOK(hd[h]) /\ HandlingInv(h, hd[h])
    BY IdleRests, RestingRelies DEF AccountsInit
  <1> QED BY <1>1, <1>3, <1>4, <1>5, <1>6 DEF AccountsInv

LEMMA AccountsKeeps ==
  ASSUME AccountsInv, NEW h \in Handler,
         AccountRequest(h) \/ AccountStep(h) \/ DeleteObjects(h) \/ DeleteLogin(h) \/ TenantUpgrade(h)
  PROVE  AccountsInv'
  <1>1. CASE AccountRequest(h)
    BY <1>1, CreateUserKeeps, DeleteUserKeeps, CreateSiteKeeps DEF AccountRequest
  <1>2. CASE AccountStep(h)
    BY <1>2, CreateEnsureKeeps, CreateInsertKeeps, DeleteBeginKeeps, DeleteListKeeps,
       DeleteTeardownKeeps, DeleteRowKeeps, DeleteCountKeeps, SiteBuildKeeps, SiteRecordStays,
       TenantLookKeeps, TenantDeriveKeeps, TenantEnsureKeeps, TenantPersistKeeps
       DEF AccountStep, Tenant
  <1>3. CASE DeleteObjects(h)
    BY <1>3, DeleteObjectsKeeps
  <1>4. CASE DeleteLogin(h)
    BY <1>4, DeleteLoginKeeps
  <1>5. CASE TenantUpgrade(h)
    BY <1>5, TenantUpgradeKeeps
  <1> QED BY <1>1, <1>2, <1>3, <1>4, <1>5

-----------------------------------------------------------------------------
(* Where a step leaves its request *)

\* h goes on with what it has; the other requests stay where they are.
Onto(h, pc) ==
  /\ hd'[h].pc = pc /\ hd'[h].op = hd[h].op /\ hd'[h].who = hd[h].who
  /\ hd'[h].row = hd[h].row /\ hd'[h].login = hd[h].login /\ hd'[h].had = hd[h].had
OthersWait(h) == \A g \in Handler : g # h => hd'[g] = hd[g]

LEMMA GotoOnto ==
  ASSUME AccountsInv, NEW h \in Handler, NEW pc \in Pc, Goto(h, pc)
  PROVE  Onto(h, pc) /\ OthersWait(h)
  <1>1. hd' = [hd EXCEPT ![h] = Moved(hd[h], pc)] /\ hd[h] \in Handling
    BY RequestOf DEF Goto, Moved
  <1>2. hd'[h] = Moved(hd[h], pc) /\ OthersWait(h)
    BY <1>1 DEF OthersWait, AccountsInv, AccountsTypeOK
  <1> QED BY <1>1, <1>2, MovedIs DEF Onto

LEMMA ReplyEnds ==
  ASSUME AccountsInv, NEW h \in Handler, Reply(h)
  PROVE  hd'[h] = NoHandling /\ OthersWait(h)
  BY DEF Reply, OthersWait, AccountsInv, AccountsTypeOK

\* A request that begins.
LEMMA AskBegins ==
  ASSUME AccountsInv, NEW h \in Handler, NEW new, Ask(h, new)
  PROVE  hd'[h] = new /\ OthersWait(h) /\ hd[h].pc = "idle"
  BY DEF Ask, Busy, OthersWait, AccountsInv, AccountsTypeOK

\* The other requests stay where they are, whatever step h takes.
LEMMA OneMoves ==
  ASSUME AccountsInv, NEW h \in Handler,
         AccountRequest(h) \/ AccountStep(h) \/ DeleteObjects(h) \/ DeleteLogin(h) \/ TenantUpgrade(h)
  PROVE  OthersWait(h)
  <1> DEFINE One == \E x : hd' = [hd EXCEPT ![h] = x]
  <1>1. One => OthersWait(h)
    BY DEF OthersWait, AccountsInv, AccountsTypeOK
  <1>2. \A pc : Goto(h, pc) => One
    BY DEF Goto
  <1>3. Reply(h) => One
    BY DEF Reply
  <1>4. \A new : Ask(h, new) => One
    BY DEF Ask
  <1>5. AccountRequest(h) => One
    <2> HIDE DEF One
    <2> QED BY <1>4 DEF AccountRequest, CreateUser, DeleteUser, CreateSite
  <1>6. CreateEnsure(h) \/ TenantEnsure(h) => One
    <2> HIDE DEF One
    <2> QED BY <1>2, <1>3 DEF CreateEnsure, TenantEnsure, EnsureLogin
  <1>7. CreateInsert(h) \/ DeleteObjects(h) \/ DeleteLogin(h) \/ SiteRecord(h)
          \/ DeleteCount(h) \/ DeleteTeardown(h) \/ DeleteRow(h) => One
    <2> HIDE DEF One
    <2> QED BY <1>2, <1>3 DEF CreateInsert, DeleteObjects, DeleteLogin, Unlock, SiteRecord,
                              DeleteCount, DeleteTeardown, DeleteRow
  <1>8. SiteBuild(h) \/ TenantPersist(h) \/ TenantUpgrade(h) => One
    <2> HIDE DEF One
    <2> QED BY <1>2, <1>3 DEF SiteBuild, TenantPersist, TenantUpgrade
  <1>9. DeleteBegin(h) => One
    <2>1. CASE Reply(h)
      BY <1>3, <2>1
    <2>2. CASE hd' = [hd EXCEPT ![h].pc = "list", ![h].row = user[hd[h].who]]
      BY <2>2
    <2> QED BY <2>1, <2>2, Zenon DEF DeleteBegin
  <1>10. DeleteList(h) \/ TenantLook(h) => One
    BY DEF DeleteList, TenantLook
  <1>11. TenantDerive(h) => One
    <2>1. CASE Goto(h, "refused")
      BY <1>2, <2>1
    <2>2. CASE hd' = [hd EXCEPT ![h].pc = "provision", ![h].login = Derived(hd[h].row.name)]
      BY <2>2
    <2>3. CASE hd' = [hd EXCEPT ![h].pc = "ready", ![h].login = user[hd[h].who].sys]
      BY <2>3
    <2> QED BY <2>1, <2>2, <2>3, Zenon DEF TenantDerive
  <1> HIDE DEF One
  <1> QED BY <1>1, <1>5, <1>6, <1>7, <1>8, <1>9, <1>10, <1>11 DEF AccountStep, Tenant

-----------------------------------------------------------------------------
(* What a request knows of the account it works for *)

Found == {"upgrade", "ready", "install"}

\* An account keeps the Linux user it has; the one that is being provisioned has none.
KnowsTenant(x) ==
  /\ x.who \in minted \cup {None}
  /\ x.pc \in Recording /\ Exists(x.who) => user[x.who].sys = None
  /\ x.pc \in Found => x.login \in Login /\ (Exists(x.who) => user[x.who].sys = x.login)
  /\ x.pc = "tenant" /\ Exists(x.who) /\ x.row.sys # None => user[x.who].sys = x.row.sys

TenantInv ==
  /\ \A a \in sites : Exists(a)
  /\ \A h \in Handler : KnowsTenant(hd[h])

LEMMA IdleKnows == KnowsTenant(NoHandling) /\ KnowsTenant(NoHandling)'
  BY DEF KnowsTenant, NoHandling, Recording, Found

\* A step that changes no account.
LEMMA TenantStep ==
  ASSUME TenantInv, NEW h \in Handler, OthersWait(h), UNCHANGED <<user, minted>>,
         \A a \in sites' : Exists(a), KnowsTenant(hd'[h])
  PROVE  TenantInv'
  <1>1. \A x : KnowsTenant(x)' <=> KnowsTenant(x)
    BY DEF KnowsTenant, Exists
  <1>2. \A g \in Handler : KnowsTenant(hd'[g])
    BY DEF OthersWait, TenantInv
  <1> QED BY <1>1, <1>2 DEF TenantInv, Exists

LEMMA KnowsNow ==
  ASSUME AccountsInv, TenantInv, NEW h \in Handler
  PROVE  KnowsTenant(hd[h]) /\ HandlingOK(hd[h]) /\ HandlingInv(h, hd[h])
  BY DEF TenantInv, AccountsInv

\* A request that ends, or goes where it relies on nothing about its account.
LEMMA TenantRests ==
  ASSUME AccountsInv, TenantInv, NEW h \in Handler, UNCHANGED <<user, minted>>,
         \A a \in sites' : Exists(a),
         Reply(h) \/ \E pc \in Pc \ (Recording \cup Found \cup {"tenant"}) : Goto(h, pc)
  PROVE  TenantInv'
  <1>1. CASE Reply(h)
    BY <1>1, ReplyEnds, IdleKnows, TenantStep
  <1>2. ASSUME NEW pc \in Pc \ (Recording \cup Found \cup {"tenant"}), Goto(h, pc)
        PROVE  TenantInv'
    <2>1. Onto(h, pc) /\ OthersWait(h)
      BY <1>2, GotoOnto
    <2>2. KnowsTenant(hd'[h])
      BY <2>1, KnowsNow DEF KnowsTenant, Onto, Recording, Found
    <2> QED BY <2>1, <2>2, TenantStep
  <1> QED BY <1>1, <1>2

LEMMA TenantRequest ==
  ASSUME AccountsInv, TenantInv, NEW h \in Handler, AccountRequest(h)
  PROVE  TenantInv'
  <1>1. UNCHANGED <<user, minted, sites>>
    BY DEF AccountRequest, CreateUser, DeleteUser, CreateSite, tables
  <1>2. ASSUME NEW x, Ask(h, x), KnowsTenant(x)
        PROVE  TenantInv'
    BY <1>1, <1>2, AskBegins, TenantStep DEF TenantInv
  <1>3. NoHandling.who = None /\ NoHandling.pc = "idle"
    BY DEF NoHandling
  <1>4. ASSUME NEW n \in Name, NEW role \in {"admin", "user"}, NEW l \in Login \cup {None},
               CreateUser(h, n, role, l)
        PROVE  TenantInv'
    <2>1. PICK x : /\ x = [NoHandling EXCEPT !.op = "create", !.row = [name |-> n, role |-> role, sys |-> l],
                                             !.pc = IF l = None THEN "insert" ELSE "ensure"]
      OBVIOUS
    <2>2. x.who = None /\ x.pc \in {"insert", "ensure"}
      BY <2>1 DEF NoHandling
    <2>3. Ask(h, x)
      BY <1>4, <2>1 DEF CreateUser
    <2>4. KnowsTenant(x)
      BY <2>2 DEF KnowsTenant, Recording, Found
    <2> QED BY <1>2, <2>3, <2>4
  <1>5. ASSUME NEW a \in Account, DeleteUser(h, a)
        PROVE  TenantInv'
    <2>1. PICK x : x = [NoHandling EXCEPT !.op = "delete", !.pc = "lock", !.who = a]
      OBVIOUS
    <2>2. x.who = a /\ x.pc = "lock"
      BY <2>1 DEF NoHandling
    <2>3. Ask(h, x) /\ a \in minted
      BY <1>5, <2>1 DEF DeleteUser, AccountsInv, Ids
    <2>4. KnowsTenant(x)
      BY <2>2, <2>3 DEF KnowsTenant, Recording, Found
    <2> QED BY <1>2, <2>3, <2>4
  <1>6. ASSUME NEW a \in Account, CreateSite(h, a)
        PROVE  TenantInv'
    <2>1. PICK x : x = [NoHandling EXCEPT !.op = "site", !.pc = "tenant", !.who = a, !.row = user[a]]
      OBVIOUS
    <2>2. x.who = a /\ x.pc = "tenant" /\ x.row = user[a]
      BY <2>1 DEF NoHandling
    <2>3. Ask(h, x) /\ a \in minted
      BY <1>6, <2>1 DEF CreateSite, AccountsInv, Ids
    <2>4. KnowsTenant(x)
      BY <2>2, <2>3 DEF KnowsTenant, Recording, Found
    <2> QED BY <1>2, <2>3, <2>4
  <1> QED BY <1>4, <1>5, <1>6 DEF AccountRequest

\* Accounts come with ids nobody has asked anything of.
LEMMA TenantInsert ==
  ASSUME AccountsInv, TenantInv, NEW h \in Handler, CreateInsert(h)
  PROVE  TenantInv'
  <1>1. hd'[h] = NoHandling /\ OthersWait(h) /\ UNCHANGED sites
    BY ReplyEnds DEF CreateInsert
  <1>2. CASE UNCHANGED <<user, minted, contested>>
    BY <1>1, <1>2, IdleKnows, TenantStep DEF TenantInv
  <1>3. ASSUME NEW a \in Account \ minted,
               user' = [user EXCEPT ![a] = hd[h].row], minted' = minted \cup {a}
        PROVE  TenantInv'
    <2>1. \A b : b # a /\ b \in Account => user'[b] = user[b]
      BY <1>3, Untouched
    <2>2. \A b \in minted : b \in Account /\ user'[b] = user[b]
      BY <1>3, <2>1, Untouched
    <2>3. sites \subseteq minted
      BY Untouched DEF TenantInv, AccountsInv, Ids
    <2>4. ASSUME NEW g \in Handler
          PROVE  KnowsTenant(hd[g])'
      <3>1. CASE g = h
        BY <1>1, <3>1, IdleKnows DEF KnowsTenant, NoHandling, Recording, Found
      <3>2. CASE g # h
        <4>1. hd'[g] = hd[g] /\ KnowsTenant(hd[g]) /\ HandlingOK(hd[g])
          BY <1>1, <3>2, KnowsNow DEF OthersWait
        <4>2. hd[g].pc \in Recording \cup Found \cup {"tenant"} => hd[g].who \in minted
          BY <4>1, AccountAssumption DEF HandlingOK, KnowsTenant, Recording, Found, Provisioning
        <4> QED BY <1>3, <2>2, <4>1, <4>2 DEF KnowsTenant, Exists
      <3> QED BY <3>1, <3>2
    <2> QED BY <1>1, <2>2, <2>3, <2>4 DEF TenantInv, Exists
  <1> QED BY <1>2, <1>3 DEF CreateInsert

LEMMA TenantDeleteRow ==
  ASSUME AccountsInv, TenantInv, NEW h \in Handler, DeleteRow(h)
  PROVE  TenantInv'
  <1> DEFINE a == hd[h].who
  <1>1. UNCHANGED minted /\ (Reply(h) \/ Goto(h, "count")) /\ a \in Account
    BY RequestOf DEF DeleteRow, Unlock, At, HandlingOK, Deleting
  <1>2. CASE UNCHANGED <<user, sites, contested>>
    BY <1>1, <1>2, TenantRests DEF Pc, Recording, Found, TenantInv
  <1>3. CASE user' = [user EXCEPT ![a] = NoUser] /\ sites' = sites \ {a}
    <2>1. \A b \in Account : /\ b # a => user'[b] = user[b]
                             /\ b = a => user'[b] = NoUser
      BY <1>1, <1>3, Untouched
    <2>2. OthersWait(h) /\ hd'[h].pc \in {"idle", "count"} /\ hd'[h].who \in {None, a}
      BY <1>1, ReplyEnds, GotoOnto DEF Onto, NoHandling, Pc
    <2>3. ASSUME NEW g \in Handler
          PROVE  KnowsTenant(hd[g])'
      <3>1. CASE g = h
        <4>1. KnowsTenant(hd[h])
          BY KnowsNow
        <4> QED BY <1>1, <2>2, <3>1, <4>1 DEF KnowsTenant, Recording, Found
      <3>2. CASE g # h
        <4>1. hd'[g] = hd[g] /\ KnowsTenant(hd[g]) /\ HandlingOK(hd[g])
          BY <2>2, <3>2, KnowsNow DEF OthersWait
        <4>2. hd[g].pc \in Recording \cup Found \cup {"tenant"} => hd[g].who \in Account
          BY <4>1 DEF HandlingOK, Recording, Found, Provisioning
        <4>3. \A b \in Account : user'[b] # NoUser => user'[b] = user[b]
          BY <2>1
        <4> QED BY <1>1, <4>1, <4>2, <4>3 DEF KnowsTenant, Exists
      <3> QED BY <3>1, <3>2
    <2>4. \A b \in sites' : user'[b] # NoUser
      BY <1>3, <2>1, Untouched DEF TenantInv, Exists
    <2> QED BY <2>3, <2>4 DEF TenantInv, Exists
  <1> QED BY <1>2, <1>3 DEF DeleteRow

LEMMA TenantFinds ==
  ASSUME AccountsInv, TenantInv, NEW h \in Handler, TenantLook(h) \/ TenantDerive(h)
  PROVE  TenantInv'
  <1> DEFINE x == hd[h]  a == hd[h].who
  <1>1. UNCHANGED <<user, minted, sites>> /\ x \in Handling /\ a \in Account /\ user \in [Account -> User]
    BY RequestOf, Untouched DEF TenantLook, TenantDerive, tables, HandlingOK
  <1>2. CASE TenantLook(h)
    <2>1. PICK pc \in {"wait", "ready"} : pc = IF x.row.sys = None THEN "wait" ELSE "ready"
      OBVIOUS
    <2>2. hd' = [hd EXCEPT ![h].pc = pc, ![h].login = x.row.sys] /\ x.pc = "tenant"
      BY <1>2, <2>1 DEF TenantLook
    <2>3. hd'[h].pc = pc /\ hd'[h].who = a /\ hd'[h].login = x.row.sys /\ OthersWait(h)
      BY <1>1, <2>2 DEF OthersWait, AccountsInv, AccountsTypeOK, Handling
    <2>4. pc = "ready" => x.row.sys \in Login
      BY <1>1, <2>1, RequestOf DEF User
    <2>5. KnowsTenant(x)
      BY KnowsNow
    <2>6. KnowsTenant(hd'[h])
      BY <2>1, <2>2, <2>3, <2>4, <2>5 DEF KnowsTenant, Recording, Found
    <2> QED BY <1>1, <2>3, <2>6, TenantStep DEF TenantInv
  <1>3. CASE Goto(h, "refused")
    BY <1>1, <1>3, TenantRests DEF Pc, Recording, Found, TenantInv
  <1>4. CASE /\ user[a].sys = None
             /\ hd' = [hd EXCEPT ![h].pc = "provision", ![h].login = Derived(x.row.name)]
    <2>1. hd'[h].pc = "provision" /\ hd'[h].who = a /\ OthersWait(h)
      BY <1>1, <1>4 DEF OthersWait, AccountsInv, AccountsTypeOK, Handling
    <2>2. KnowsTenant(hd'[h])
      BY <1>4, <2>1, KnowsNow DEF KnowsTenant, Recording, Found
    <2> QED BY <1>1, <2>1, <2>2, TenantStep DEF TenantInv
  <1>5. CASE /\ user[a].sys # None
             /\ hd' = [hd EXCEPT ![h].pc = "ready", ![h].login = user[a].sys]
    <2>1. hd'[h].pc = "ready" /\ hd'[h].who = a /\ hd'[h].login = user[a].sys /\ OthersWait(h)
      BY <1>1, <1>5 DEF OthersWait, AccountsInv, AccountsTypeOK, Handling
    <2>2. user[a].sys \in Login
      BY <1>1, <1>5 DEF User
    <2>3. KnowsTenant(hd'[h])
      BY <2>1, <2>2, KnowsNow DEF KnowsTenant, Recording, Found
    <2> QED BY <1>1, <2>1, <2>3, TenantStep DEF TenantInv
  <1> QED BY <1>2, <1>3, <1>4, <1>5, Zenon DEF TenantDerive

LEMMA TenantEnsured ==
  ASSUME AccountsInv, TenantInv, NEW h \in Handler, CreateEnsure(h) \/ TenantEnsure(h)
  PROVE  TenantInv'
  <1>1. UNCHANGED <<user, minted, sites>>
    BY DEF CreateEnsure, TenantEnsure, tables
  <1>2. CASE Reply(h) \/ Goto(h, "refused") \/ Goto(h, "insert")
    BY <1>1, <1>2, TenantRests DEF Pc, Recording, Found, TenantInv
  <1>3. CASE Goto(h, "persist") /\ hd[h].pc = "provision"
    <2>1. Onto(h, "persist") /\ OthersWait(h)
      BY <1>3, GotoOnto DEF Pc
    <2>2. KnowsTenant(hd'[h])
      BY <1>3, <2>1, KnowsNow DEF KnowsTenant, Onto, Recording, Found
    <2> QED BY <1>1, <2>1, <2>2, TenantStep DEF TenantInv
  <1> QED BY <1>2, <1>3 DEF CreateEnsure, TenantEnsure, EnsureLogin

\* Only the request that holds tenantMu gives an account its Linux user.
LEMMA TenantPersisted ==
  ASSUME AccountsInv, TenantInv, NEW h \in Handler, TenantPersist(h)
  PROVE  TenantInv'
  <1> DEFINE a == hd[h].who
             l == hd[h].login
  <1>1. /\ hd[h].pc = "persist" /\ a \in Account /\ l \in Login /\ tenantMu = h
        /\ UNCHANGED <<minted, sites>>
    BY RequestOf DEF TenantPersist, HandlingOK, HandlingInv, Provisioning
  <1>2. CASE Goto(h, "refused") /\ UNCHANGED user
    BY <1>1, <1>2, TenantRests DEF Pc, Recording, Found, TenantInv
  <1>3. CASE Goto(h, "upgrade") /\ user' = IF Exists(a) THEN [user EXCEPT ![a].sys = l] ELSE user
    <2>1. Onto(h, "upgrade") /\ OthersWait(h)
      BY <1>3, GotoOnto DEF Pc
    <2>2. /\ \A b \in Account : b # a => user'[b] = user[b]
          /\ Exists(a) => user'[a].sys = l /\ user'[a].name = user[a].name
          /\ ~Exists(a) => user' = user
      BY <1>1, <1>3, Untouched DEF User
    <2>3. \A b \in Account : Exists(b) <=> user'[b] # NoUser
      <3>1. Exists(a) => user'[a] # NoUser
        BY <1>1, <2>2, AccountAssumption DEF NoUser
      <3> QED BY <2>2, <3>1 DEF Exists
    <2>4. ASSUME NEW g \in Handler
          PROVE  KnowsTenant(hd[g])'
      <3>1. CASE g = h
        <4>1. KnowsTenant(hd[h])
          BY KnowsNow
        <4> QED BY <1>1, <2>1, <2>2, <2>3, <3>1, <4>1 DEF KnowsTenant, Onto, Recording, Found, Exists
      <3>2. CASE g # h
        <4>1. hd'[g] = hd[g] /\ KnowsTenant(hd[g]) /\ HandlingOK(hd[g]) /\ HandlingInv(g, hd[g])
          BY <2>1, <3>2, KnowsNow DEF OthersWait
        <4>2. hd[g].pc \notin Recording
          BY <1>1, <3>2, <4>1 DEF HandlingInv, Recording, Provisioning
        <4>3. hd[g].pc \in Found \cup {"tenant"} => hd[g].who \in Account
          BY <4>1 DEF HandlingOK, Found, Provisioning
        <4>4. Exists(a) => user[a].sys = None
          BY <1>1, KnowsNow DEF KnowsTenant, Recording
        <4>5. None \notin Login
          BY AccountAssumption
        <4> HIDE DEF a, l
        <4> QED BY <1>1, <2>2, <2>3, <4>1, <4>2, <4>3, <4>4, <4>5 DEF KnowsTenant, Exists
      <3> QED BY <3>1, <3>2
    <2>5. \A b \in sites' : user'[b] # NoUser
      BY <1>1, <2>3, Untouched DEF TenantInv
    <2> QED BY <2>4, <2>5 DEF TenantInv, Exists
  <1> QED BY <1>2, <1>3 DEF TenantPersist

LEMMA TenantReady ==
  ASSUME AccountsInv, TenantInv, NEW h \in Handler, TenantUpgrade(h)
  PROVE  TenantInv'
  <1>1. hd[h].pc = "upgrade" /\ Onto(h, "ready") /\ OthersWait(h) /\ UNCHANGED <<user, minted, sites>>
    BY GotoOnto DEF TenantUpgrade, tables, Pc
  <1>2. KnowsTenant(hd'[h])
    BY <1>1, KnowsNow DEF KnowsTenant, Onto, Recording, Found
  <1> QED BY <1>1, <1>2, TenantStep DEF TenantInv

LEMMA TenantBegins ==
  ASSUME AccountsInit
  PROVE  TenantInv
  BY IdleKnows DEF AccountsInit, TenantInv

LEMMA TenantKeeps ==
  ASSUME AccountsInv, TenantInv, NEW h \in Handler,
         AccountRequest(h) \/ AccountStep(h) \/ DeleteObjects(h) \/ DeleteLogin(h) \/ TenantUpgrade(h)
  PROVE  TenantInv'
  <1> DEFINE Rests == /\ UNCHANGED <<user, minted>> /\ \A a \in sites' : Exists(a)
                      /\ \/ Reply(h)
                         \/ \E pc \in Pc \ (Recording \cup Found \cup {"tenant"}) : Goto(h, pc)
  <1>1. Rests => TenantInv'
    BY TenantRests
  <1>2. CASE DeleteObjects(h) \/ DeleteLogin(h) \/ DeleteTeardown(h) \/ DeleteCount(h)
    <2>1. UNCHANGED <<user, minted, sites>>
      BY <1>2 DEF DeleteObjects, DeleteLogin, DeleteTeardown, DeleteCount, tables
    <2>2. Reply(h) \/ \E pc \in {"drop", "objects", "userdel"} : Goto(h, pc)
      BY <1>2 DEF DeleteObjects, DeleteLogin, DeleteTeardown, DeleteCount, Unlock
    <2>3. Rests
      BY <2>1, <2>2 DEF TenantInv, Pc, Recording, Found
    <2> HIDE DEF Rests
    <2> QED BY <1>1, <2>3
  <1>3. CASE SiteBuild(h) \/ SiteRecord(h)
    <2>1. UNCHANGED <<user, minted>> /\ \A a \in sites' : Exists(a)
      BY <1>3 DEF SiteBuild, SiteRecord, tables, TenantInv
    <2>2. Reply(h) \/ Goto(h, "record")
      BY <1>3 DEF SiteBuild, SiteRecord
    <2>3. Rests
      BY <2>1, <2>2 DEF Pc, Recording, Found
    <2> HIDE DEF Rests
    <2> QED BY <1>1, <2>3
  <1>4. CASE DeleteBegin(h) \/ DeleteList(h)
    <2>1. UNCHANGED <<user, minted, sites>> /\ OthersWait(h)
      BY <1>4, OneMoves DEF DeleteBegin, DeleteList, tables, AccountStep
    <2>2. Reply(h) \/ (hd'[h].pc \in {"list", "teardown"} /\ hd'[h].who = hd[h].who)
      BY <1>4, RequestOf DEF DeleteBegin, DeleteList, AccountsInv, AccountsTypeOK, Handling
    <2>3. KnowsTenant(hd'[h])
      BY <2>2, ReplyEnds, IdleKnows, KnowsNow DEF KnowsTenant, Recording, Found
    <2> QED BY <2>1, <2>3, TenantStep DEF TenantInv
  <1> HIDE DEF Rests
  <1>5. CASE CreateEnsure(h) \/ CreateInsert(h) \/ DeleteRow(h) \/ Tenant(h)
    BY <1>5, TenantEnsured, TenantInsert, TenantDeleteRow, TenantFinds, TenantPersisted DEF Tenant
  <1> QED BY <1>2, <1>3, <1>4, <1>5, TenantRequest, TenantReady DEF AccountStep

-----------------------------------------------------------------------------
(* Sites, between those who make them and those who take them down *)

\* A site is made once; one that a deletion listed is in its hands, and once it is torn
\* down it is not up.
Creating(x) == x.op = "site" => x.who \notin sites
TornDown(x) ==
  /\ x.pc \in {"teardown", "objects", "drop"} /\ x.had => x.who \in sites
  /\ x.pc \in {"objects", "drop"} /\ x.had => x.who \notin built

SitesInv ==
  /\ SitesOwned
  /\ \A h \in Handler : Creating(hd[h]) /\ TornDown(hd[h])
  /\ \A g, h \in Handler : hd[g].op = "site" /\ hd[h].op = "site" /\ hd[g].who = hd[h].who => g = h

\* A request that goes on as what it is, or is none about a site.
SameSite(h) == hd'[h].op = "site" => hd[h].op = "site" /\ hd'[h].who = hd[h].who

LEMMA SitesLeft ==
  ASSUME AccountsInv, SitesInv, NEW h \in Handler, OthersWait(h), UNCHANGED <<sites, built>>,
         contested \subseteq contested', ~At(h, "site", "record"), TornDown(hd'[h]),
         \/ SameSite(h)
         \/ hd'[h].who \notin sites /\ \A g \in Handler : hd[g].op = "site" => hd[g].who # hd'[h].who
  PROVE  SitesInv'
  <1>1. SitesOwned'
    <2>1. \A g \in Handler : At(g, "site", "record") => At(g, "site", "record")' /\ hd'[g] = hd[g]
      BY DEF OthersWait, At
    <2> QED BY <2>1 DEF SitesInv, SitesOwned
  <1>2. \A g \in Handler : Creating(hd'[g]) /\ TornDown(hd'[g])
    BY DEF OthersWait, SitesInv, Creating, SameSite
  <1>3. ASSUME NEW f \in Handler, NEW g \in Handler,
               hd'[f].op = "site", hd'[g].op = "site", hd'[f].who = hd'[g].who
        PROVE  f = g
    BY <1>3 DEF OthersWait, SitesInv, SameSite
  <1> QED BY <1>1, <1>2, <1>3 DEF SitesInv, Creating, TornDown

LEMMA SiteBuilt ==
  ASSUME AccountsInv, SitesInv, NEW h \in Handler, SiteBuild(h)
  PROVE  SitesInv'
  <1>1. /\ At(h, "site", "ready") \/ At(h, "site", "refused")
        /\ UNCHANGED <<sites, contested>> /\ OthersWait(h)
    BY OneMoves DEF SiteBuild, tables, history, AccountStep
  <1>2. CASE Reply(h) /\ UNCHANGED built
    <2>1. hd'[h] = NoHandling
      BY <1>2, ReplyEnds
    <2> QED BY <1>1, <1>2, <2>1, SitesLeft, AccountAssumption DEF At, TornDown, SameSite, NoHandling, Request
  <1>3. CASE built' = built \cup {hd[h].who} /\ Goto(h, "record")
    <2>1. Onto(h, "record")
      BY <1>3, GotoOnto DEF Pc
    <2>2. SitesOwned'
      <3>1. \A g \in Handler : g # h => hd'[g] = hd[g]
        BY <1>1 DEF OthersWait
      <3>2. At(h, "site", "record")' /\ hd'[h].who = hd[h].who
        BY <1>1, <2>1 DEF Onto, At
      <3>3. \A g \in Handler : At(g, "site", "record") => At(g, "site", "record")' /\ hd'[g].who = hd[g].who
        BY <1>1, <3>1 DEF At
      <3> QED BY <1>1, <1>3, <3>2, <3>3 DEF SitesInv, SitesOwned
    <2>3. \A g \in Handler : hd'[g].op = hd[g].op /\ hd'[g].who = hd[g].who
      BY <1>1, <2>1 DEF OthersWait, Onto
    <2>4. \A g \in Handler : Creating(hd[g])'
      BY <1>1, <2>3 DEF SitesInv, Creating
    <2>5. hd[h].who \notin sites
      BY <1>1 DEF SitesInv, Creating, At
    <2>6. \A g \in Handler : TornDown(hd[g])'
      BY <1>1, <1>3, <2>1, <2>5 DEF SitesInv, TornDown, Onto, OthersWait
    <2> QED BY <2>2, <2>3, <2>4, <2>6 DEF SitesInv
  <1> QED BY <1>2, <1>3 DEF SiteBuild

LEMMA SiteRecorded ==
  ASSUME AccountsInv, SitesInv, NEW h \in Handler, SiteRecord(h)
  PROVE  SitesInv'
  <1> DEFINE a == hd[h].who
  <1>1. /\ At(h, "site", "record") /\ UNCHANGED contested /\ hd'[h] = NoHandling /\ OthersWait(h)
        /\ \/ sites' = sites \cup {a} /\ UNCHANGED built
           \/ built' = built \ {a} /\ UNCHANGED sites
    BY ReplyEnds DEF SiteRecord, history
  <1>2. NoHandling.op # "site" /\ NoHandling.pc = "idle"
    BY AccountAssumption DEF NoHandling, Request
  <1>3. SitesOwned'
    <2>1. \A g \in Handler : g # h /\ At(g, "site", "record") => At(g, "site", "record")' /\ hd'[g].who = hd[g].who
      BY <1>1 DEF At, OthersWait
    <2> QED BY <1>1, <2>1 DEF SitesInv, SitesOwned
  <1>4. ASSUME NEW g \in Handler
        PROVE  Creating(hd[g])' /\ TornDown(hd[g])'
    <2>1. CASE g = h
      BY <1>1, <1>2, <2>1 DEF Creating, TornDown
    <2>2. CASE g # h
      <3>1. hd'[g] = hd[g] /\ Creating(hd[g]) /\ TornDown(hd[g])
        BY <1>1, <2>2 DEF OthersWait, SitesInv
      <3>2. hd[g].op = "site" => hd[g].who # a
        BY <1>1, <2>2 DEF SitesInv, At
      <3> HIDE DEF a
      <3> QED BY <1>1, <3>1, <3>2 DEF Creating, TornDown
    <2> QED BY <2>1, <2>2
  <1>5. \A f, g \in Handler : hd'[f].op = "site" /\ hd'[g].op = "site" /\ hd'[f].who = hd'[g].who => f = g
    BY <1>1, <1>2 DEF SitesInv, OthersWait
  <1> QED BY <1>3, <1>4, <1>5 DEF SitesInv

LEMMA SitesTornDown ==
  ASSUME AccountsInv, SitesInv, NEW h \in Handler, DeleteTeardown(h)
  PROVE  SitesInv'
  <1> DEFINE a == hd[h].who
  <1>1. /\ hd[h].op = "delete" /\ hd[h].pc = "teardown" /\ UNCHANGED <<sites, contested>> /\ OthersWait(h)
        /\ built' \subseteq built /\ (hd[h].had => a \notin built')
        /\ Onto(h, "objects") \/ hd'[h] = NoHandling
    <2>1. Goto(h, "objects") \/ Reply(h)
      BY DEF DeleteTeardown, Unlock
    <2>2. /\ hd[h].op = "delete" /\ hd[h].pc = "teardown" /\ UNCHANGED <<sites, contested>>
          /\ built' = IF hd[h].had THEN built \ {a} ELSE built
      BY DEF DeleteTeardown, At, tables, history
    <2>3. built' \subseteq built /\ (hd[h].had => a \notin built')
      <3>1. CASE hd[h].had
        BY <2>2, <3>1
      <3>2. CASE ~hd[h].had
        BY <2>2, <3>2
      <3> QED BY <3>1, <3>2
    <2>4. OthersWait(h) /\ (Onto(h, "objects") \/ hd'[h] = NoHandling)
      BY <2>1, GotoOnto, ReplyEnds DEF Pc
    <2> QED BY <2>2, <2>3, <2>4, Zenon
  <1>2. NoHandling.op # "site" /\ NoHandling.pc = "idle"
    BY AccountAssumption DEF NoHandling, Request
  <1>3. SitesOwned'
    <2>1. \A g \in Handler : At(g, "site", "record") => At(g, "site", "record")' /\ hd'[g].who = hd[g].who
      BY <1>1 DEF At, OthersWait
    <2> QED BY <1>1, <2>1 DEF SitesInv, SitesOwned
  <1>4. ASSUME NEW g \in Handler
        PROVE  Creating(hd[g])' /\ TornDown(hd[g])'
    <2>1. Creating(hd[g]) /\ TornDown(hd[g])
      BY DEF SitesInv
    <2>2. ASSUME g = h, Onto(h, "objects")
          PROVE  Creating(hd[g])' /\ TornDown(hd[g])'
      BY <1>1, <2>1, <2>2 DEF Creating, TornDown, Onto
    <2>3. ASSUME g = h, hd'[h] = NoHandling
          PROVE  Creating(hd[g])' /\ TornDown(hd[g])'
      BY <1>2, <2>3 DEF Creating, TornDown
    <2>4. ASSUME g # h
          PROVE  Creating(hd[g])' /\ TornDown(hd[g])'
      <3>1. hd'[g] = hd[g]
        BY <1>1, <2>4 DEF OthersWait
      <3> QED BY <1>1, <2>1, <3>1 DEF Creating, TornDown
    <2> QED BY <1>1, <2>2, <2>3, <2>4
  <1>5. \A f, g \in Handler : hd'[f].op = "site" /\ hd'[g].op = "site" /\ hd'[f].who = hd'[g].who => f = g
    BY <1>1, <1>2 DEF SitesInv, OthersWait, Onto
  <1> QED BY <1>3, <1>4, <1>5 DEF SitesInv

\* Only one deletion is at it, so no other has the site of this account in hand.
LEMMA SitesCascade ==
  ASSUME AccountsInv, SitesInv, NEW h \in Handler, DeleteRow(h)
  PROVE  SitesInv'
  <1> DEFINE a == hd[h].who
  <1>1. /\ hd[h].op = "delete" /\ hd[h].pc = "drop" /\ UNCHANGED built /\ OthersWait(h)
        /\ Onto(h, "count") \/ hd'[h] = NoHandling
    <2>1. Goto(h, "count") \/ Reply(h)
      BY DEF DeleteRow, Unlock
    <2> QED BY <2>1, GotoOnto, ReplyEnds DEF DeleteRow, At, host, Pc
  <1>2. NoHandling.op # "site" /\ NoHandling.pc = "idle"
    BY AccountAssumption DEF NoHandling, Request
  <1>3. \/ UNCHANGED <<sites, contested>>
        \/ sites' = sites \ {a} /\ contested' = contested \cup (IF hd[h].had THEN {} ELSE sites \cap {a})
    BY DEF DeleteRow
  <1>4. hd[h].had => a \notin built
    BY <1>1 DEF SitesInv, TornDown
  <1>5. SitesOwned'
    <2>1. \A g \in Handler : At(g, "site", "record") => At(g, "site", "record")' /\ hd'[g].who = hd[g].who
      BY <1>1 DEF At, OthersWait
    <2> HIDE DEF a
    <2> QED BY <1>1, <1>3, <1>4, <2>1 DEF SitesInv, SitesOwned
  <1>6. ASSUME NEW g \in Handler
        PROVE  Creating(hd[g])' /\ TornDown(hd[g])'
    <2>1. Creating(hd[g]) /\ TornDown(hd[g])
      BY DEF SitesInv
    <2>2. CASE g = h
      BY <1>1, <1>2, <2>2 DEF Creating, TornDown, Onto
    <2>3. CASE g # h
      <3>1. accountMu = h /\ (hd[g].pc \in Deleting => accountMu = g)
        BY <1>1, RequestOf DEF HandlingInv, Deleting
      <3>2. hd[g].pc \notin {"teardown", "objects", "drop"} /\ hd'[g] = hd[g] /\ sites' \subseteq sites
        BY <1>1, <1>3, <2>3, <3>1 DEF Deleting, OthersWait
      <3> QED BY <2>1, <3>2 DEF Creating, TornDown
    <2> QED BY <2>2, <2>3
  <1>7. \A f, g \in Handler : hd'[f].op = "site" /\ hd'[g].op = "site" /\ hd'[f].who = hd'[g].who => f = g
    BY <1>1, <1>2 DEF SitesInv, OthersWait, Onto
  <1> QED BY <1>5, <1>6, <1>7 DEF SitesInv

\* A request that goes on, nothing to do with tearing down, or ends.
LEMMA SitesGoOn ==
  ASSUME AccountsInv, SitesInv, NEW h \in Handler, UNCHANGED <<sites, built>>,
         contested \subseteq contested', ~At(h, "site", "record"),
         Reply(h) \/ \E pc \in Pc \ {"teardown", "objects", "drop"} : Goto(h, pc)
  PROVE  SitesInv'
  <1>1. OthersWait(h) /\ TornDown(hd'[h]) /\ SameSite(h)
    <2>1. CASE Reply(h)
      BY <2>1, ReplyEnds, AccountAssumption DEF NoHandling, TornDown, SameSite, Request
    <2>2. ASSUME NEW pc \in Pc \ {"teardown", "objects", "drop"}, Goto(h, pc)
          PROVE  OthersWait(h) /\ TornDown(hd'[h]) /\ SameSite(h)
      BY <2>2, GotoOnto DEF Onto, TornDown, SameSite
    <2> QED BY <2>1, <2>2
  <1> QED BY <1>1, SitesLeft

LEMMA SitesRequest ==
  ASSUME AccountsInv, SitesInv, NEW h \in Handler, AccountRequest(h)
  PROVE  SitesInv'
  <1>1. ASSUME NEW x, Ask(h, x), UNCHANGED <<sites, built, contested>>, x.pc \notin {"teardown", "objects", "drop"},
               x.op = "site" => x.who \notin sites /\ \A g \in Handler : hd[g].op = "site" => hd[g].who # x.who
        PROVE  SitesInv'
    <2>1. hd'[h] = x /\ OthersWait(h) /\ hd[h].pc = "idle"
      BY <1>1, AskBegins
    <2> QED BY <1>1, <2>1, SitesLeft DEF At, TornDown, SameSite
  <1>2. ASSUME NEW n \in Name, NEW role \in {"admin", "user"}, NEW l \in Login \cup {None},
               CreateUser(h, n, role, l)
        PROVE  SitesInv'
    <2>1. PICK x : /\ x = [NoHandling EXCEPT !.op = "create", !.row = [name |-> n, role |-> role, sys |-> l],
                                             !.pc = IF l = None THEN "insert" ELSE "ensure"]
      OBVIOUS
    <2>2. x.op = "create" /\ x.pc \in {"insert", "ensure"}
      BY <2>1 DEF NoHandling
    <2>3. Ask(h, x) /\ UNCHANGED <<sites, built, contested>>
      BY <1>2, <2>1 DEF CreateUser, tables, host, history
    <2> QED BY <1>1, <2>2, <2>3
  <1>3. ASSUME NEW a \in Account, DeleteUser(h, a)
        PROVE  SitesInv'
    <2>1. PICK x : x = [NoHandling EXCEPT !.op = "delete", !.pc = "lock", !.who = a]
      OBVIOUS
    <2>2. x.op = "delete" /\ x.pc = "lock"
      BY <2>1 DEF NoHandling
    <2>3. Ask(h, x) /\ UNCHANGED <<sites, built, contested>>
      BY <1>3, <2>1 DEF DeleteUser, tables, host, history
    <2> QED BY <1>1, <2>2, <2>3
  <1>4. ASSUME NEW a \in Account, CreateSite(h, a)
        PROVE  SitesInv'
    <2>1. PICK x : x = [NoHandling EXCEPT !.op = "site", !.pc = "tenant", !.who = a, !.row = user[a]]
      OBVIOUS
    <2>2. x.op = "site" /\ x.pc = "tenant" /\ x.who = a
      BY <2>1 DEF NoHandling
    <2>3. Ask(h, x) /\ UNCHANGED <<sites, built, contested>> /\ a \notin sites
          /\ \A g \in Handler : hd[g].op = "site" => hd[g].who # a
      BY <1>4, <2>1 DEF CreateSite, tables, host, history
    <2> QED BY <1>1, <2>2, <2>3
  <1> QED BY <1>2, <1>3, <1>4 DEF AccountRequest

LEMMA SitesBegin ==
  ASSUME AccountsInit
  PROVE  SitesInv
  BY AccountAssumption DEF Request, AccountsInit, SitesInv, SitesOwned, Creating, TornDown, NoHandling

LEMMA SitesKeep ==
  ASSUME AccountsInv, SitesInv, NEW h \in Handler,
         AccountRequest(h) \/ AccountStep(h) \/ DeleteObjects(h) \/ DeleteLogin(h) \/ TenantUpgrade(h)
  PROVE  SitesInv'
  <1> DEFINE GoesOn == /\ UNCHANGED <<sites, built>> /\ contested \subseteq contested' /\ ~At(h, "site", "record")
                       /\ \/ Reply(h)
                          \/ \E pc \in Pc \ {"teardown", "objects", "drop"} : Goto(h, pc)
  <1>1. GoesOn => SitesInv'
    BY SitesGoOn
  <1>2. CASE CreateEnsure(h) \/ CreateInsert(h) \/ TenantEnsure(h)
    <2>1. UNCHANGED <<sites, built>> /\ contested \subseteq contested' /\ ~At(h, "site", "record")
      BY <1>2 DEF CreateEnsure, CreateInsert, TenantEnsure, tables, host, history, At
    <2>2. Reply(h) \/ \E pc \in {"insert", "refused", "persist"} : Goto(h, pc)
      BY <1>2 DEF CreateEnsure, CreateInsert, TenantEnsure, EnsureLogin
    <2>3. GoesOn
      BY <2>1, <2>2 DEF Pc
    <2> HIDE DEF GoesOn
    <2> QED BY <1>1, <2>3
  <1>3. CASE TenantPersist(h) \/ TenantUpgrade(h) \/ DeleteCount(h) \/ DeleteLogin(h)
    <2>1. UNCHANGED <<sites, built>> /\ contested \subseteq contested' /\ ~At(h, "site", "record")
      BY <1>3 DEF TenantPersist, TenantUpgrade, DeleteCount, DeleteLogin, tables, host, history, At
    <2>2. Reply(h) \/ \E pc \in {"upgrade", "refused", "ready", "userdel"} : Goto(h, pc)
      BY <1>3 DEF TenantPersist, TenantUpgrade, DeleteCount, DeleteLogin, Unlock
    <2>3. GoesOn
      BY <2>1, <2>2 DEF Pc
    <2> HIDE DEF GoesOn
    <2> QED BY <1>1, <2>3
  <1>4. CASE DeleteBegin(h) \/ DeleteList(h)
    <2>1. /\ UNCHANGED <<sites, built, contested>> /\ OthersWait(h) /\ hd[h].op = "delete"
          /\ hd[h] \in Handling
      BY <1>4, OneMoves, RequestOf DEF DeleteBegin, DeleteList, tables, host, history, AccountStep, At
    <2>2. \/ Reply(h)
          \/ hd'[h].pc = "list" /\ hd'[h].op = hd[h].op
          \/ hd'[h].pc = "teardown" /\ hd'[h].op = hd[h].op /\ hd'[h].who = hd[h].who
             /\ hd'[h].had = (hd[h].who \in sites)
      BY <1>4, RequestOf DEF DeleteBegin, DeleteList, AccountsInv, AccountsTypeOK, Handling
    <2>3. hd'[h].op # "site" /\ TornDown(hd'[h])
      <3>1. CASE Reply(h)
        BY <3>1, ReplyEnds, AccountAssumption DEF TornDown, NoHandling, Request
      <3>2. CASE ~Reply(h)
        BY <2>1, <2>2, <3>2 DEF TornDown
      <3> QED BY <3>1, <3>2
    <2> QED BY <2>1, <2>3, SitesLeft DEF SameSite, At
  <1>5. CASE DeleteObjects(h)
    <2>1. /\ UNCHANGED <<sites, built, contested>> /\ OthersWait(h) /\ Onto(h, "drop")
          /\ hd[h].op = "delete" /\ hd[h].pc = "objects" /\ TornDown(hd[h])
      BY <1>5, GotoOnto DEF DeleteObjects, tables, host, history, At, Pc, SitesInv
    <2>2. TornDown(hd'[h]) /\ SameSite(h) /\ ~At(h, "site", "record")
      BY <2>1 DEF TornDown, SameSite, Onto, At
    <2> QED BY <2>1, <2>2, SitesLeft
  <1>6. CASE TenantLook(h) \/ TenantDerive(h)
    <2>1. UNCHANGED <<sites, built, contested>> /\ OthersWait(h) /\ hd[h].pc \in {"tenant", "wait"}
      BY <1>6, OneMoves DEF TenantLook, TenantDerive, tables, host, history, AccountStep, Tenant
    <2>2. /\ hd'[h].op = hd[h].op /\ hd'[h].who = hd[h].who
          /\ hd'[h].pc \in {"wait", "ready", "provision", "refused"}
      <3>1. CASE Goto(h, "refused")
        BY <3>1, GotoOnto DEF Onto, Pc
      <3>2. CASE ~Goto(h, "refused")
        <4>1. ASSUME NEW pc, NEW l, hd' = [hd EXCEPT ![h].pc = pc, ![h].login = l]
              PROVE  hd'[h].op = hd[h].op /\ hd'[h].who = hd[h].who /\ hd'[h].pc = pc
          BY <4>1, RequestOf DEF AccountsInv, AccountsTypeOK, Handling
        <4>2. \E pc \in {"wait", "ready", "provision"} : \E l : hd' = [hd EXCEPT ![h].pc = pc, ![h].login = l]
          BY <1>6, <3>2, Zenon DEF TenantLook, TenantDerive
        <4> QED BY <4>1, <4>2
      <3> QED BY <3>1, <3>2
    <2>3. TornDown(hd'[h]) /\ SameSite(h) /\ ~At(h, "site", "record")
      BY <2>1, <2>2 DEF TornDown, SameSite, At
    <2> QED BY <2>1, <2>3, SitesLeft
  <1> HIDE DEF GoesOn
  <1> QED BY <1>2, <1>3, <1>4, <1>5, <1>6, SitesRequest, SiteBuilt, SiteRecorded, SitesTornDown, SitesCascade
          DEF AccountStep, Tenant

-----------------------------------------------------------------------------
(* Cron jobs: the invariant *)

\* Linux users nothing is promised of: shared, inherited with a crontab, or going.
Excused == mixed \cup contested \cup Leaving

Has(l)  == {a \in Account : user[a].sys = l}
Base(a) == IF user[a].sys = None THEN {} ELSE crontab[user[a].sys]

\* What a request x knows of its job: a row that is its account's or gone, and in the
\* list it is about to install unless it went meanwhile.
KnowsJob(x, s) ==
  /\ x.op \in CronOp => x.pc # "idle" /\ s.job \in jobIds /\ s.list \subseteq jobIds
                        /\ job[s.job] \in {None, x.who}
  /\ x.op = "addcron" /\ s.undoing => job[s.job] = None \/ s.job \in kept
  /\ x.op = "delcron" => job[s.job] = None
  /\ x.op = "addcron" /\ ~s.undoing /\ x.pc = "install" /\ job[s.job] = x.who /\ Exists(x.who)
       => s.job \in s.list

\* Whoever has found a Linux user to write a crontab of works for an account that has it.
KnowsLogin(x) ==
  x.op \in CronOp =>
  /\ x.pc \in Recording \cup Found /\ x.login \notin Excused => Exists(x.who)
  /\ x.pc = "tenant" /\ x.row.sys \notin Excused \cup {None} => Exists(x.who)

\* A request nobody overlapped is its account's only one, and its list is current.
Lone(h) ==
  LET a == hd[h].who IN
  hd[h].op \in CronOp =>
    /\ sync[h].alone => Syncs(a) = {h} /\ (hd[h].pc = "install" /\ Exists(a) => sync[h].list = Jobs(a))
    /\ ~sync[h].alone => a \in stale

\* Rows and crontab of an account, also while its only request is at work.
RowsKnown(a) ==
  Exists(a) /\ a \notin stale /\ user[a].sys \notin Excused =>
    /\ Syncs(a) = {} => Jobs(a) = Base(a)
    /\ \A g \in Syncs(a) : hd[g].op = "addcron" =>
         /\ ~sync[g].undoing => job[sync[g].job] = a /\ sync[g].job \notin Base(a)
                                 /\ Jobs(a) = Base(a) \cup {sync[g].job}
         /\ sync[g].undoing => Jobs(a) = Base(a)

JobsKnown == \A j \in Job : job[j] # None => j \in jobIds /\ job[j] \in minted

\* A crontab holds no job that never was, and is empty where there is no Linux user or
\* no account to have it.
CrontabKnown(l) ==
  /\ crontab[l] \subseteq jobIds
  /\ l \notin logins => crontab[l] = {}
  /\ l \notin Excused /\ Has(l) = {} => crontab[l] = {}

OneEach == \A l \in Login \ mixed : \A a, b \in Has(l) : a = b

CronInv ==
  /\ CronTypeOK /\ RefusedJobGone /\ JobsKnown /\ OneEach
  /\ \A l \in Login : CrontabKnown(l)
  /\ \A h \in Handler : KnowsJob(hd[h], sync[h]) /\ KnowsLogin(hd[h]) /\ Lone(h)
  /\ \A a \in Account : RowsKnown(a)

\* Of the invariants of Accounts, before and after a step, and of mixed.
AroundStep == /\ AccountsInv /\ TenantInv /\ CronInv /\ AccountsInv' /\ TenantInv'
              /\ mixed' = mixed \cup Muddled

-----------------------------------------------------------------------------
(* Facts about a step, for all of them *)

LEMMA NoneApart ==
  /\ None \notin Account /\ None \notin Login /\ None \notin CronOp /\ None \notin Job
  /\ NoHandling.op = None /\ NoHandling.pc = "idle" /\ NoHandling.who = None
  /\ NoSync = [job |-> None, list |-> {}, undoing |-> FALSE, alone |-> TRUE]
  BY AccountAssumption, JobAssumption DEF CronOp, Request, NoHandling, NoSync

LEMMA CronInvImplies == CronInv => RefusedJobGone /\ CrontabIsRows
  <1> SUFFICES ASSUME CronInv PROVE CrontabIsRows
    BY DEF CronInv
  <1> SUFFICES ASSUME NEW a \in Account \ stale, Exists(a), Syncs(a) = {},
                      user[a].sys \in Login \ (mixed \cup contested \cup Leaving)
               PROVE  crontab[user[a].sys] = Jobs(a)
    BY DEF CrontabIsRows
  <1>1. RowsKnown(a)
    BY DEF CronInv
  <1> QED BY <1>1, AccountAssumption DEF RowsKnown, Excused, Base

\* Nobody is without a Linux user that is excused.
LEMMA NoneNotExcused ==
  ASSUME AccountsInv, CronInv
  PROVE  Excused \subseteq Account \cup Login /\ None \notin Excused /\ Leaving \subseteq Login
  <1>1. Leaving \subseteq Login
    BY DEF Leaving, AccountsInv, HandlingOK, At
  <1> QED BY <1>1, AccountAssumption DEF Excused, CronInv, CronTypeOK, AccountsInv, AccountsTypeOK

\* mixed takes in what two accounts share, so the rest is one account's.
LEMMA MixedGrows ==
  ASSUME AroundStep
  PROVE  OneEach' /\ mixed' \subseteq Login /\ mixed \subseteq mixed'
  <1>1. Shared' \subseteq mixed' /\ mixed' \subseteq Login /\ mixed \subseteq mixed'
    BY DEF AroundStep, Muddled, Shared, CronInv, CronTypeOK
  <1> QED BY <1>1 DEF OneEach, Has, Shared

\* Being deleted excuses a Linux user as long as it takes, and if the deletion stops
\* halfway for good.
LEMMA ExcusedGrows ==
  ASSUME AroundStep, NEW h \in Handler, OthersWait(h), contested \subseteq contested',
         \/ ~At(h, "delete", "count") /\ ~At(h, "delete", "userdel")
         \/ At(h, "delete", "count") /\ hd'[h].pc = "idle"
         \/ At(h, "delete", "userdel")' /\ hd'[h].row = hd[h].row
  PROVE  Excused \subseteq Excused'
  <1> SUFFICES ASSUME NEW l \in Excused PROVE l \in Excused'
    OBVIOUS
  <1>1. CASE l \in mixed \cup contested
    BY <1>1, MixedGrows DEF Excused
  <1>2. ASSUME NEW g \in Handler, At(g, "delete", "count") \/ At(g, "delete", "userdel"), hd[g].row.sys = l
        PROVE  l \in Excused'
    <2>1. hd[g].who \in Account /\ l \in Login
      BY <1>2 DEF AroundStep, AccountsInv, HandlingOK, Deleting, At
    <2>2. CASE (At(g, "delete", "count") \/ At(g, "delete", "userdel"))' /\ hd'[g].row = hd[g].row
      BY <1>2, <2>2 DEF Excused, Leaving
    <2>3. CASE At(g, "delete", "count") /\ hd'[g].pc = "idle"
      <3>1. l \in Muddled
        BY <1>2, <2>1, <2>3 DEF Muddled, At
      <3> QED BY <3>1 DEF Excused, AroundStep
    <2>4. g # h => hd'[g] = hd[g]
      BY DEF OthersWait
    <2> QED BY <1>2, <2>2, <2>3, <2>4 DEF At
  <1> QED BY <1>1, <1>2 DEF Excused, Leaving

-----------------------------------------------------------------------------
(* Cron jobs: the steps of Accounts *)

\* A step of Accounts leaves the requests about cron jobs what they are.
SameSyncs == \A g \in Handler : \/ hd[g].op \notin CronOp /\ hd'[g].op \notin CronOp
                                \/ hd'[g].op = hd[g].op /\ hd'[g].who = hd[g].who

\* Only ensureTenant moves them on, and it knows for whom.
Knowing(h) ==
  hd[h].op \in CronOp =>
    /\ hd'[h].pc \notin {"idle", "tenant", "install"}
    /\ hd'[h].pc \in Recording \cup Found =>
         \/ Exists(hd[h].who)
         \/ hd[h].pc = "tenant" /\ hd'[h].login = hd[h].row.sys /\ hd[h].row.sys # None
         \/ hd[h].pc \in Recording \cup Found /\ hd'[h].login = hd[h].login

LEMMA TenantMoves ==
  ASSUME AccountsInv, TenantInv, NEW h \in Handler, Tenant(h) \/ TenantUpgrade(h)
  PROVE  /\ hd'[h].op = hd[h].op /\ hd'[h].who = hd[h].who /\ Knowing(h)
         /\ hd[h].pc \in {"tenant", "wait"} \cup Provisioning
  <1> DEFINE x == hd[h]
  <1>1. \A pc \in Pc : Goto(h, pc) => Onto(h, pc)
    BY GotoOnto
  <1>2. CASE TenantEnsure(h) \/ TenantPersist(h) \/ TenantUpgrade(h)
    <2>1. x.pc \in Provisioning /\ x.op # "create"
      BY <1>2, RequestOf DEF TenantEnsure, TenantPersist, TenantUpgrade, Provisioning, HandlingOK
    <2>2. \E pc \in {"persist", "upgrade", "ready", "refused"} : Goto(h, pc)
      BY <1>2, <2>1 DEF TenantEnsure, TenantPersist, TenantUpgrade, EnsureLogin
    <2>3. \E pc \in {"persist", "upgrade", "ready", "refused"} : Onto(h, pc)
      BY <1>1, <2>2 DEF Pc
    <2> QED BY <2>1, <2>3 DEF Onto, Knowing, Provisioning, Recording, Found
  <1>3. ASSUME NEW pc, NEW l, hd' = [hd EXCEPT ![h].pc = pc, ![h].login = l]
        PROVE  hd'[h].op = x.op /\ hd'[h].who = x.who /\ hd'[h].pc = pc /\ hd'[h].login = l
    BY <1>3, RequestOf DEF AccountsInv, AccountsTypeOK, Handling
  <1>4. CASE TenantLook(h)
    <2>1. PICK pc \in {"wait", "ready"} : pc = IF x.row.sys = None THEN "wait" ELSE "ready"
      OBVIOUS
    <2>2. hd' = [hd EXCEPT ![h].pc = pc, ![h].login = x.row.sys] /\ x.pc = "tenant"
      BY <1>4, <2>1 DEF TenantLook
    <2>3. hd'[h].op = x.op /\ hd'[h].who = x.who /\ hd'[h].pc = pc /\ hd'[h].login = x.row.sys
      BY <1>3, <2>2
    <2> QED BY <2>1, <2>2, <2>3 DEF Knowing, Recording, Found
  <1>5. CASE TenantDerive(h)
    <2>1. x.pc = "wait"
      BY <1>5 DEF TenantDerive
    <2>2. CASE Goto(h, "refused")
      BY <1>1, <2>1, <2>2 DEF Onto, Knowing, Recording, Found, Pc
    <2>3. ASSUME NEW pc \in {"provision", "ready"}, NEW l, hd' = [hd EXCEPT ![h].pc = pc, ![h].login = l],
                 Exists(x.who)
          PROVE  hd'[h].op = x.op /\ hd'[h].who = x.who /\ Knowing(h)
      BY <1>3, <2>3 DEF Knowing
    <2>4. ~Exists(x.who) => user[x.who].sys = None
      BY DEF Exists, NoUser
    <2>5. CASE /\ user[x.who] # NoUser
               /\ hd' = [hd EXCEPT ![h].pc = "provision", ![h].login = Derived(x.row.name)]
      BY <2>1, <2>3, <2>5 DEF Exists
    <2>6. CASE /\ user[x.who].sys # None
               /\ hd' = [hd EXCEPT ![h].pc = "ready", ![h].login = user[x.who].sys]
      BY <2>1, <2>3, <2>4, <2>6
    <2> QED BY <1>5, <2>1, <2>2, <2>5, <2>6, Zenon DEF TenantDerive
  <1> QED BY <1>2, <1>4, <1>5 DEF Tenant

LEMMA AccountSyncs ==
  ASSUME AccountsInv, TenantInv, CronInv, NEW h \in Handler,
         AccountRequest(h) \/ AccountStep(h) \/ DeleteObjects(h) \/ DeleteLogin(h) \/ TenantUpgrade(h)
  PROVE  SameSyncs /\ Knowing(h)
  <1> DEFINE Apart == hd[h].op \notin CronOp /\ hd'[h].op \notin CronOp
  <1>1. OthersWait(h)
    BY OneMoves
  <1>2. Apart => SameSyncs /\ Knowing(h)
    BY <1>1 DEF SameSyncs, Knowing, OthersWait
  <1>3. CASE AccountRequest(h)
    <2>1. \E x : Ask(h, x) /\ x.op \in {"create", "delete", "site"}
      <3>1. ASSUME NEW n \in Name, NEW role \in {"admin", "user"}, NEW l \in Login \cup {None},
                   CreateUser(h, n, role, l)
            PROVE  \E x : Ask(h, x) /\ x.op = "create"
        <4>1. PICK x : x = [NoHandling EXCEPT !.op = "create", !.row = [name |-> n, role |-> role, sys |-> l],
                                               !.pc = IF l = None THEN "insert" ELSE "ensure"]
          OBVIOUS
        <4>2. x.op = "create"
          BY <4>1 DEF NoHandling
        <4> QED BY <3>1, <4>1, <4>2 DEF CreateUser
      <3>2. ASSUME NEW a \in Account, DeleteUser(h, a)
            PROVE  \E x : Ask(h, x) /\ x.op = "delete"
        <4>1. PICK x : x = [NoHandling EXCEPT !.op = "delete", !.pc = "lock", !.who = a]
          OBVIOUS
        <4>2. x.op = "delete"
          BY <4>1 DEF NoHandling
        <4> QED BY <3>2, <4>1, <4>2 DEF DeleteUser
      <3>3. ASSUME NEW a \in Account, CreateSite(h, a)
            PROVE  \E x : Ask(h, x) /\ x.op = "site"
        <4>1. PICK x : x = [NoHandling EXCEPT !.op = "site", !.pc = "tenant", !.who = a, !.row = user[a]]
          OBVIOUS
        <4>2. x.op = "site"
          BY <4>1 DEF NoHandling
        <4> QED BY <3>3, <4>1, <4>2 DEF CreateSite
      <3> QED BY <1>3, <3>1, <3>2, <3>3 DEF AccountRequest
    <2>2. PICK x : Ask(h, x) /\ x.op \in {"create", "delete", "site"}
      BY <2>1
    <2>3. hd'[h] = x /\ hd[h].pc = "idle"
      BY <2>2, AskBegins
    <2>4. hd[h].op \notin CronOp
      BY <2>3 DEF CronInv, KnowsJob
    <2>5. Apart
      BY <2>2, <2>3, <2>4 DEF CronOp
    <2> HIDE DEF Apart
    <2> QED BY <1>2, <2>5
  <1>4. CASE Tenant(h) \/ TenantUpgrade(h)
    BY <1>1, <1>4, TenantMoves DEF SameSyncs, OthersWait
  <1>5. ASSUME hd[h].op \in {"create", "delete", "site"}, Reply(h) \/ \E pc \in Pc : Goto(h, pc)
        PROVE  SameSyncs /\ Knowing(h)
    <2>1. hd'[h].op \in {None, hd[h].op}
      BY <1>5, ReplyEnds, GotoOnto, NoneApart DEF Onto
    <2>2. Apart
      BY <1>5, <2>1, NoneApart DEF CronOp
    <2> HIDE DEF Apart
    <2> QED BY <1>2, <2>2
  <1>6. CASE CreateEnsure(h) \/ CreateInsert(h)
    <2>1. hd[h].op = "create" /\ (Reply(h) \/ Goto(h, "insert"))
      BY <1>6 DEF CreateEnsure, CreateInsert, EnsureLogin, At
    <2> QED BY <1>5, <2>1 DEF Pc
  <1>7. CASE DeleteBegin(h) \/ DeleteList(h)
    <2>1. /\ hd[h].op = "delete"
          /\ \/ Reply(h)
             \/ hd'[h].op = hd[h].op
      BY <1>7, RequestOf DEF DeleteBegin, DeleteList, At, AccountsInv, AccountsTypeOK, Handling
    <2>2. Apart
      BY <2>1, ReplyEnds, NoneApart DEF CronOp
    <2> HIDE DEF Apart
    <2> QED BY <1>2, <2>2
  <1>8. CASE DeleteTeardown(h) \/ DeleteObjects(h) \/ DeleteRow(h) \/ DeleteCount(h) \/ DeleteLogin(h)
    <2>1. /\ hd[h].op = "delete"
          /\ Reply(h) \/ \E pc \in {"objects", "drop", "count", "userdel"} : Goto(h, pc)
      BY <1>8 DEF DeleteTeardown, DeleteObjects, DeleteRow, DeleteCount, DeleteLogin, Unlock, At
    <2> QED BY <1>5, <2>1 DEF Pc
  <1>9. CASE SiteBuild(h) \/ SiteRecord(h)
    <2>1. hd[h].op = "site" /\ (Reply(h) \/ Goto(h, "record"))
      BY <1>9 DEF SiteBuild, SiteRecord, At
    <2> QED BY <1>5, <2>1 DEF Pc
  <1> QED BY <1>3, <1>4, <1>6, <1>7, <1>8, <1>9 DEF AccountStep

\* What a step may do to the accounts: new ones are new to everybody, a Linux user that
\* comes to an account is excused or has no crontab, and one whose last account goes
\* is excused, and so are those that requests for the account have found.
FreshAccounts == \A a \in Account : Exists(a)' => Exists(a) \/ a \notin minted
CleanLogins ==
  \A a \in Account : Exists(a)' /\ user'[a].sys \notin Excused' =>
    user'[a].sys = user[a].sys \/ (user[a].sys = None /\ crontab[user'[a].sys] = {})
NobodyLeft == \A l \in Login \ Excused' : Has(l)' = {} => Has(l) = {}
GoneExcused(h) ==
  \A g \in Handler : hd[g].op \in CronOp /\ Exists(hd[g].who) =>
    \/ user'[hd[g].who] # NoUser
    \/ /\ g # h
       /\ hd[g].pc \in Recording \cup Found => hd[g].login \in Excused'
       /\ hd[g].pc = "tenant" => hd[g].row.sys \in Excused' \cup {None}

LEMMA CronAfterAccounts ==
  ASSUME AroundStep, NEW h \in Handler, OthersWait(h), SameSyncs, Knowing(h), CronApart,
         Excused \subseteq Excused', logins \subseteq logins', minted \subseteq minted',
         FreshAccounts, CleanLogins, NobodyLeft, GoneExcused(h)
  PROVE  CronInv'
  <1>1. /\ UNCHANGED <<job, jobIds, crontab, sync, kept, stale>>
        /\ AccountsInv /\ TenantInv /\ CronInv
    BY DEF CronApart, AroundStep
  <1>2. \A a : Syncs(a)' = Syncs(a)
    BY DEF SameSyncs, Syncs
  <1>3. \A g \in Handler : hd[g].who \in minted \cup {None}
    BY <1>1 DEF TenantInv, KnowsTenant
  <1>4. \A g \in Handler : hd'[g].op \in CronOp => hd[g].op = hd'[g].op /\ hd[g].who = hd'[g].who
    BY DEF SameSyncs
  <1>5. \A a \in Account : Exists(a)' => Jobs(a)' = Jobs(a)
    BY <1>1, NoneApart DEF FreshAccounts, CronInv, JobsKnown, Jobs, Exists
  <1>6. CronTypeOK'
    BY <1>1, MixedGrows DEF CronInv, CronTypeOK
  <1>7. RefusedJobGone'
    BY <1>1, <1>2, NoneApart, JobAssumption DEF CronInv, RefusedJobGone, JobsKnown, FreshAccounts, Exists
  <1>8. JobsKnown'
    BY <1>1 DEF CronInv, JobsKnown
  <1>9. ASSUME NEW l \in Login
        PROVE  CrontabKnown(l)'
    BY <1>1, <1>9 DEF CronInv, CrontabKnown, NobodyLeft
  <1>10. ASSUME NEW g \in Handler
         PROVE  KnowsJob(hd[g], sync[g])' /\ KnowsLogin(hd[g])' /\ Lone(g)'
    <2>1. CASE hd'[g].op \notin CronOp
      BY <2>1 DEF KnowsJob, KnowsLogin, Lone, CronOp
    <2>2. CASE hd'[g].op \in CronOp
      <3> DEFINE a == hd[g].who
      <3>1. /\ hd[g].op = hd'[g].op /\ hd'[g].who = a /\ (g # h => hd'[g] = hd[g])
            /\ KnowsJob(hd[g], sync[g]) /\ KnowsLogin(hd[g]) /\ Lone(g) /\ a \in Account
        <4>1. hd[g].pc # "idle"
          BY <1>1, <1>4, <2>2 DEF CronInv, KnowsJob
        <4>2. a \in Account
          BY <1>1, <1>4, <2>2, <4>1 DEF AccountsInv, HandlingOK, CronOp, Deleting, Provisioning, Handling, Pc
        <4> QED BY <1>1, <1>4, <2>2, <4>2 DEF CronInv, OthersWait
      <3>2. g = h => hd'[g].pc \notin {"idle", "tenant", "install"}
        BY <2>2, <3>1 DEF Knowing
      <3>3. Exists(a)' => Exists(a) /\ Jobs(a)' = Jobs(a)
        BY <1>3, <1>5, <3>1, AccountAssumption DEF FreshAccounts
      <3>4. KnowsJob(hd[g], sync[g])'
        BY <1>1, <2>2, <3>1, <3>2, <3>3 DEF KnowsJob
      <3>5. KnowsLogin(hd[g])'
        <4>1. Exists(a) /\ user'[a] = NoUser =>
                /\ g # h
                /\ hd[g].pc \in Recording \cup Found => hd[g].login \in Excused'
                /\ hd[g].pc = "tenant" => hd[g].row.sys \in Excused' \cup {None}
          BY <2>2, <3>1 DEF GoneExcused
        <4>2. CASE g # h
          BY <2>2, <3>1, <4>1, <4>2 DEF KnowsLogin, Exists
        <4>3. CASE g = h
          <5>1. hd'[g].pc \in Recording \cup Found /\ hd'[g].login \notin Excused' => Exists(a)
            BY <2>2, <3>1, <4>3 DEF Knowing, KnowsLogin
          <5> QED BY <3>1, <3>2, <4>1, <4>3, <5>1 DEF KnowsLogin, Exists
        <4> QED BY <4>2, <4>3
      <3>6. Lone(g)'
        BY <1>1, <1>2, <2>2, <3>1, <3>2, <3>3 DEF Lone
      <3> QED BY <3>4, <3>5, <3>6
    <2> QED BY <2>1, <2>2
  <1>11. ASSUME NEW a \in Account
         PROVE  RowsKnown(a)'
    <2> SUFFICES ASSUME Exists(a)', a \notin stale, user'[a].sys \notin Excused'
                 PROVE  RowsKnown(a)'
      BY <1>1 DEF RowsKnown
    <2>1. Jobs(a)' = Jobs(a) /\ Syncs(a)' = Syncs(a)
      BY <1>2, <1>5
    <2>2. Base(a)' = Base(a) /\ user[a].sys \notin Excused
      <3>1. user'[a].sys = user[a].sys \/ (user[a].sys = None /\ crontab[user'[a].sys] = {})
        BY DEF CleanLogins
      <3> QED BY <1>1, <3>1, NoneNotExcused DEF Base
    <2>3. CASE Exists(a)
      <3>1. /\ Syncs(a) = {} => Jobs(a) = Base(a)
            /\ \A g \in Syncs(a) : hd[g].op = "addcron" =>
                 /\ ~sync[g].undoing => job[sync[g].job] = a /\ sync[g].job \notin Base(a)
                                         /\ Jobs(a) = Base(a) \cup {sync[g].job}
                 /\ sync[g].undoing => Jobs(a) = Base(a)
        BY <1>1, <2>2, <2>3 DEF CronInv, RowsKnown
      <3>2. \A g \in Syncs(a) : hd'[g].op = hd[g].op
        BY <1>4, <2>1 DEF Syncs
      <3> QED BY <1>1, <2>1, <2>2, <3>1, <3>2 DEF RowsKnown
    <2>4. CASE ~Exists(a)
      <3>1. a \notin minted /\ user[a].sys = None
        BY <2>4 DEF FreshAccounts, Exists, NoUser
      <3>2. Syncs(a) = {} /\ Jobs(a) = {} /\ Base(a) = {}
        BY <1>3, <2>4, <3>1, NoneApart DEF Syncs, Jobs, Base
      <3> QED BY <2>1, <2>2, <3>2 DEF RowsKnown
    <2> QED BY <2>3, <2>4
  <1> QED BY <1>6, <1>7, <1>8, <1>9, <1>10, <1>11, MixedGrows DEF CronInv

\* A step that changes no account.
LEMMA CronLeftAlone ==
  ASSUME AroundStep, NEW h \in Handler, OthersWait(h), SameSyncs, Knowing(h), CronApart,
         Excused \subseteq Excused', logins \subseteq logins', UNCHANGED <<user, minted>>
  PROVE  CronInv'
  <1>1. FreshAccounts /\ CleanLogins /\ NobodyLeft /\ GoneExcused(h)
    BY DEF FreshAccounts, CleanLogins, NobodyLeft, GoneExcused, Exists, Has
  <1> QED BY <1>1, CronAfterAccounts

\* A Linux user nobody is excused for and no account has had no crontab; one that another
\* account has is mixed with the second.
LEMMA ComesClean ==
  ASSUME AroundStep, NEW a \in Account, user[a].sys = None, user'[a].sys \notin Excused' \cup {None},
         Excused \subseteq Excused', \A b \in Account : b # a => user'[b] = user[b]
  PROVE  crontab[user'[a].sys] = {}
  <1> DEFINE l == user'[a].sys
  <1>1. l \in Login
    BY DEF AroundStep, AccountsInv, AccountsTypeOK, User
  <1>2. l \notin mixed'
    BY DEF Excused
  <1>3. \A b \in Account : b # a => user[b].sys # l
    BY <1>1, <1>2, MixedGrows DEF OneEach, Has
  <1>4. Has(l) = {}
    BY <1>1, <1>3, AccountAssumption DEF Has
  <1>5. l \notin Excused
    OBVIOUS
  <1> QED BY <1>1, <1>4, <1>5 DEF AroundStep, CronInv, CrontabKnown

LEMMA CronAfterInsert ==
  ASSUME AroundStep, NEW h \in Handler, OthersWait(h), SameSyncs, Knowing(h), CronApart, CreateInsert(h)
  PROVE  CronInv'
  <1>1. /\ UNCHANGED logins /\ contested \subseteq contested' /\ hd[h].op = "create"
    BY DEF CreateInsert, host, At
  <1>2. Excused \subseteq Excused'
    BY <1>1, ExcusedGrows DEF At
  <1>3. CASE UNCHANGED <<user, minted>>
    BY <1>1, <1>2, <1>3, CronLeftAlone
  <1>4. ASSUME NEW a \in Account \ minted, user' = [user EXCEPT ![a] = hd[h].row], minted' = minted \cup {a}
        PROVE  CronInv'
    <2>1. \A b \in Account : b # a => user'[b] = user[b]
      BY <1>4, Untouched DEF AroundStep
    <2>2. user[a] = NoUser /\ user[a].sys = None
      BY <1>4 DEF AroundStep, AccountsInv, Ids, Exists, NoUser
    <2>3. user'[a].sys \notin Excused' \cup {None} => crontab[user'[a].sys] = {}
      BY <1>2, <2>1, <2>2, ComesClean
    <2>4. FreshAccounts /\ CleanLogins
      BY <1>4, <2>1, <2>2, <2>3 DEF FreshAccounts, CleanLogins, Exists
    <2>5. \A b \in Account : Exists(b) => user'[b] = user[b] /\ user'[b] # NoUser
      BY <2>1, <2>2 DEF Exists
    <2>6. NobodyLeft
      <3>1. \A l \in Login : Has(l) \subseteq Has(l)'
        BY <2>5, AccountAssumption DEF Has, Exists, NoUser
      <3> QED BY <3>1 DEF NobodyLeft
    <2>7. GoneExcused(h)
      <3>1. \A g \in Handler : hd[g].op \in CronOp => hd[g].who \in Account \cup {None}
        BY DEF AroundStep, AccountsInv, HandlingOK, Handling
      <3>2. \A g \in Handler : hd[g].op \in CronOp => hd[g].who \in Account
        BY <3>1 DEF AroundStep, AccountsInv, HandlingOK, CronInv, KnowsJob, CronOp, Deleting, Provisioning, Handling, Pc
      <3> QED BY <2>5, <3>2 DEF GoneExcused
    <2> QED BY <1>1, <1>2, <1>4, <2>4, <2>6, <2>7, CronAfterAccounts
  <1> QED BY <1>3, <1>4 DEF CreateInsert

\* The account had no Linux user, and the new one is its own or becomes mixed.
LEMMA CronAfterPersist ==
  ASSUME AroundStep, NEW h \in Handler, OthersWait(h), SameSyncs, Knowing(h), CronApart, TenantPersist(h)
  PROVE  CronInv'
  <1> DEFINE a == hd[h].who
             l == hd[h].login
  <1>1. /\ UNCHANGED <<logins, minted>> /\ contested \subseteq contested' /\ hd[h].pc = "persist"
        /\ a \in Account /\ l \in Login
    BY RequestOf DEF AroundStep, TenantPersist, host, HandlingOK, Provisioning, history
  <1>2. Excused \subseteq Excused'
    BY <1>1, ExcusedGrows DEF At
  <1>3. CASE UNCHANGED user
    BY <1>1, <1>2, <1>3, CronLeftAlone
  <1>4. ASSUME Exists(a), user' = [user EXCEPT ![a].sys = l]
        PROVE  CronInv'
    <2>1. \A b \in Account : b # a => user'[b] = user[b]
      BY <1>4, Untouched DEF AroundStep
    <2>2. user[a].sys = None
      BY <1>1, <1>4 DEF AroundStep, TenantInv, KnowsTenant, Recording
    <2>3. user'[a].sys = l /\ user'[a] # NoUser
      BY <1>1, <1>4, Untouched, NoneApart DEF AroundStep, User, NoUser
    <2>4. l \notin Excused' => crontab[l] = {}
      BY <1>1, <1>2, <2>1, <2>2, <2>3, ComesClean, NoneApart
    <2>5. FreshAccounts /\ CleanLogins
      BY <1>4, <2>1, <2>2, <2>3, <2>4 DEF FreshAccounts, CleanLogins, Exists
    <2>6. \A k \in Login : Has(k) \subseteq Has(k)'
      BY <2>1, <2>2, NoneApart DEF Has
    <2>7. NobodyLeft
      BY <2>6 DEF NobodyLeft
    <2>8. \A b \in Account : Exists(b) => user'[b] # NoUser
      BY <2>1, <2>3 DEF Exists
    <2>9. \A g \in Handler : hd[g].op \in CronOp => hd[g].who \in Account
      BY DEF AroundStep, AccountsInv, HandlingOK, CronInv, KnowsJob, CronOp, Deleting, Provisioning, Handling, Pc
    <2>10. GoneExcused(h)
      BY <2>8, <2>9 DEF GoneExcused
    <2> HIDE DEF a, l
    <2> QED BY <1>1, <1>2, <2>5, <2>7, <2>10, CronAfterAccounts
  <1> QED BY <1>3, <1>4 DEF TenantPersist

\* The Linux user the account leaves is excused: being counted, or muddled.
LEMMA CronAfterDelete ==
  ASSUME AroundStep, NEW h \in Handler, OthersWait(h), SameSyncs, Knowing(h), CronApart, DeleteRow(h)
  PROVE  CronInv'
  <1> DEFINE a == hd[h].who
             l == user[a].sys
  <1>1. /\ UNCHANGED <<logins, minted>> /\ contested \subseteq contested'
        /\ hd[h].op = "delete" /\ hd[h].pc = "drop" /\ a \in Account
    BY RequestOf DEF AroundStep, DeleteRow, host, At, HandlingOK, Deleting
  <1>2. Excused \subseteq Excused'
    BY <1>1, ExcusedGrows DEF At
  <1>3. CASE UNCHANGED user
    BY <1>1, <1>2, <1>3, CronLeftAlone
  <1>4. ASSUME Exists(a), user' = [user EXCEPT ![a] = NoUser],
               hd[h].row.sys = None \/ Goto(h, "count")
        PROVE  CronInv'
    <2>1. /\ \A b \in Account : b # a => user'[b] = user[b]
          /\ user'[a] = NoUser
      BY <1>1, <1>4, Untouched DEF AroundStep
    <2>2. l \in Excused' \cup {None}
      <3>1. CASE l = hd[h].row.sys
        <4>1. CASE l # None
          <5>1. At(h, "delete", "count")' /\ hd'[h].row = hd[h].row
            BY <1>1, <1>4, <3>1, <4>1, GotoOnto DEF AroundStep, Onto, At, Pc
          <5> QED BY <3>1, <5>1 DEF Excused, Leaving
        <4> QED BY <4>1
      <3>2. CASE l # hd[h].row.sys
        <4>1. l \in Login => l \in Muddled
          BY <1>1, <1>4, <2>1, <3>2 DEF Muddled
        <4>2. l \in Login \cup {None}
          BY <1>1 DEF AroundStep, AccountsInv, AccountsTypeOK, User
        <4> QED BY <4>1, <4>2 DEF AroundStep, Excused
      <3> QED BY <3>1, <3>2
    <2>3. FreshAccounts /\ CleanLogins
      BY <2>1 DEF FreshAccounts, CleanLogins, Exists
    <2>4. NobodyLeft
      <3>1. \A k \in Login : k # l => Has(k) \subseteq Has(k)'
        BY <2>1 DEF Has
      <3>2. \A k \in Login \ Excused' : k # l
        BY <2>2, NoneApart
      <3> QED BY <3>1, <3>2 DEF NobodyLeft
    <2>5. GoneExcused(h)
      <3> SUFFICES ASSUME NEW g \in Handler, hd[g].op \in CronOp, Exists(hd[g].who), user'[hd[g].who] = NoUser
                   PROVE  /\ g # h
                          /\ hd[g].pc \in Recording \cup Found => hd[g].login \in Excused'
                          /\ hd[g].pc = "tenant" => hd[g].row.sys \in Excused' \cup {None}
        BY DEF GoneExcused
      <3>1. hd[g].who \in Account
        BY DEF AroundStep, AccountsInv, HandlingOK, CronInv, KnowsJob, CronOp, Deleting, Provisioning, Handling, Pc
      <3>2. hd[g].who = a /\ g # h
        BY <1>1, <2>1, <3>1 DEF Exists, CronOp
      <3>3. hd[g].pc = "tenant" => hd[g].row.sys \in {None, l}
        BY <3>2 DEF AroundStep, TenantInv, KnowsTenant
      <3>4. ASSUME hd[g].login \in Login
            PROVE  hd[g].login \in Excused'
        <4>1. g \in Syncs(a)
          BY <3>2 DEF Syncs
        <4>2. hd[g].login \in Muddled
          BY <1>1, <1>4, <2>1, <3>4, <4>1 DEF Muddled
        <4> QED BY <4>2 DEF AroundStep, Excused
      <3>5. hd[g].pc \in Recording \cup Found => hd[g].login \in Login
        BY DEF AroundStep, AccountsInv, TenantInv, HandlingOK, KnowsTenant, Recording, Found, Provisioning
      <3> HIDE DEF a, l
      <3> QED BY <2>2, <3>2, <3>3, <3>4, <3>5
    <2> HIDE DEF a, l
    <2> QED BY <1>1, <1>2, <2>3, <2>4, <2>5, CronAfterAccounts
  <1>5. CASE ~Exists(a) /\ user' = [user EXCEPT ![a] = NoUser]
    <2>1. UNCHANGED user
      BY <1>1, <1>5, Untouched DEF AroundStep, Exists
    <2> QED BY <1>3, <2>1
  <1> QED BY <1>3, <1>4, <1>5 DEF DeleteRow

\* crontab -r, and userdel: whoever is left with the Linux user is excused.
LEMMA CronAfterUserdel ==
  ASSUME AroundStep, NEW h \in Handler, OthersWait(h), SameSyncs, CronDeleteLogin(h)
  PROVE  CronInv'
  <1> DEFINE l == hd[h].row.sys
  <1>1. /\ At(h, "delete", "userdel") /\ hd[h].who \in Account /\ l \in Login /\ hd'[h].pc = "idle"
        /\ UNCHANGED <<user, minted, job, jobIds, sync, kept, stale>> /\ contested \subseteq contested'
        /\ hd[h].op \notin CronOp /\ logins' \in {logins, logins \ {l}}
    BY RequestOf, ReplyEnds, NoneApart
       DEF AroundStep, CronDeleteLogin, DeleteLogin, Unlock, At, HandlingOK, Deleting, tables, CronOp
  <1>2. /\ crontab' \in {crontab, [crontab EXCEPT ![l] = {}]}
        /\ crontab' = crontab => l \in logins' \/ crontab[l] = {}
    BY <1>1 DEF CronDeleteLogin, AroundStep, CronInv, CronTypeOK
  <1>3. \A k \in Login : /\ k # l => crontab'[k] = crontab[k] /\ (k \in logins' <=> k \in logins)
                         /\ crontab'[l] = {} \/ l \in logins'
    BY <1>1, <1>2 DEF AroundStep, CronInv, CronTypeOK
  <1>4. \A k \in Excused : k # l => k \in Excused'
    <2>1. \A g \in Handler : g # h => hd'[g] = hd[g]
      BY DEF OthersWait
    <2>2. \A k \in Leaving : k # l => k \in Leaving'
      BY <2>1 DEF Leaving, At
    <2> QED BY <1>1, <2>2, MixedGrows DEF Excused
  \* Nothing is left of it: no crontab, no request that found it, no account.
  <1>5. ASSUME l \notin Excused'
        PROVE  /\ crontab'[l] = {}
               /\ \A g \in Handler : hd[g].op \in CronOp => l \notin {hd[g].login, hd[g].row.sys}
               /\ Has(l) = {}
    <2>1. l \notin Muddled /\ l \notin contested
      BY <1>1, <1>5 DEF Excused, AroundStep
    <2>2. /\ crontab'[l] = {}
          /\ \A g \in Handler : hd[g].op \in CronOp => l \notin {hd[g].login, hd[g].row.sys}
      BY <1>1, <2>1 DEF Muddled, At
    <2>3. \A a \in Account : user[a].sys # l
      BY <1>1, <2>1, RequestOf DEF AroundStep, HandlingInv, At
    <2> QED BY <2>2, <2>3 DEF Has
  <1>6. \A a : Syncs(a)' = Syncs(a)
    BY DEF SameSyncs, Syncs
  <1>7. \A a : Jobs(a)' = Jobs(a)
    BY <1>1 DEF Jobs, Exists
  <1>8. \A g \in Handler : hd'[g].op \in CronOp => hd'[g] = hd[g]
    BY <1>1 DEF OthersWait, SameSyncs
  <1> HIDE DEF l
  <1>9. CronTypeOK'
    BY <1>1, <1>2, MixedGrows DEF AroundStep, CronInv, CronTypeOK
  <1>10. RefusedJobGone'
    BY <1>1, <1>6 DEF AroundStep, CronInv, RefusedJobGone, Exists
  <1>11. JobsKnown'
    BY <1>1 DEF AroundStep, CronInv, JobsKnown
  <1>12. ASSUME NEW k \in Login
         PROVE  CrontabKnown(k)'
    <2>1. CrontabKnown(k) /\ (k # l => CrontabKnown(k)')
      BY <1>1, <1>3, <1>4 DEF AroundStep, CronInv, CrontabKnown, Has
    <2>2. k = l => CrontabKnown(k)'
      BY <1>1, <1>2, <1>3, <1>5, <2>1 DEF AroundStep, CronInv, CronTypeOK, CrontabKnown
    <2> QED BY <2>1, <2>2
  <1>13. ASSUME NEW g \in Handler
         PROVE  KnowsJob(hd[g], sync[g])' /\ KnowsLogin(hd[g])' /\ Lone(g)'
    <2>1. KnowsJob(hd[g], sync[g]) /\ KnowsLogin(hd[g]) /\ Lone(g)
      BY DEF AroundStep, CronInv
    <2>2. CASE hd'[g].op \notin CronOp
      BY <2>2 DEF KnowsJob, KnowsLogin, Lone, CronOp
    <2>3. CASE hd'[g].op \in CronOp
      <3>1. hd'[g] = hd[g]
        BY <1>8, <2>3
      <3>2. KnowsJob(hd[g], sync[g])' /\ Lone(g)'
        BY <1>1, <1>6, <1>7, <2>1, <3>1 DEF KnowsJob, Lone, Exists
      <3>3. KnowsLogin(hd[g])'
        BY <1>1, <1>4, <1>5, <2>1, <2>3, <3>1 DEF KnowsLogin, Exists
      <3> QED BY <3>2, <3>3
    <2> QED BY <2>2, <2>3
  <1>14. ASSUME NEW a \in Account
         PROVE  RowsKnown(a)'
    <2>1. RowsKnown(a)
      BY DEF AroundStep, CronInv
    <2> SUFFICES ASSUME Exists(a)', user'[a].sys \notin Excused'
                 PROVE  RowsKnown(a)'
      BY DEF RowsKnown
    <2>2. user[a].sys # l
      BY <1>1, <1>5 DEF Has
    <2>3. user[a].sys \notin Excused /\ Base(a)' = Base(a)
      <3>1. user[a].sys \in Login \cup {None}
        BY DEF AroundStep, AccountsInv, AccountsTypeOK, User
      <3>2. user[a].sys \notin Excused
        BY <1>1, <1>4, <2>2
      <3> QED BY <1>1, <1>3, <2>2, <3>1, <3>2 DEF Base
    <2>4. \A g \in Syncs(a) : hd'[g].op = hd[g].op
      BY <1>6, <1>8 DEF Syncs
    <2> QED BY <1>1, <1>6, <1>7, <2>1, <2>3, <2>4 DEF RowsKnown, Exists
  <1> QED BY <1>9, <1>10, <1>11, <1>12, <1>13, <1>14, MixedGrows DEF CronInv

\* Whatever Accounts does, with what the crontabs take part in.
LEMMA CronFollowsAccounts ==
  ASSUME AroundStep, NEW h \in Handler,
         \/ /\ AccountRequest(h) \/ AccountStep(h) \/ DeleteObjects(h) \/ TenantUpgrade(h)
            /\ CronApart
         \/ CronDeleteLogin(h)
  PROVE  CronInv'
  <1>1. OthersWait(h) /\ SameSyncs /\ Knowing(h)
    BY OneMoves, AccountSyncs DEF AroundStep, CronDeleteLogin
  <1>2. CASE CreateInsert(h) \/ TenantPersist(h) \/ DeleteRow(h) \/ CronDeleteLogin(h)
    <2>1. CASE CronDeleteLogin(h)
      BY <1>1, <2>1, CronAfterUserdel
    <2>2. CASE ~CronDeleteLogin(h)
      BY <1>1, <1>2, <2>2, CronAfterInsert, CronAfterPersist, CronAfterDelete
    <2> QED BY <2>1, <2>2
  <1>3. ASSUME UNCHANGED <<user, minted, contested>>, logins \subseteq logins', CronApart,
               \/ hd[h].op # "delete" \/ hd[h].pc \notin {"count", "userdel"}
               \/ DeleteCount(h)
        PROVE  CronInv'
    <2>1. Excused \subseteq Excused'
      <3>1. CASE DeleteCount(h)
        <4>1. Goto(h, "userdel") \/ Reply(h)
          BY <3>1 DEF DeleteCount, Unlock
        <4>2. CASE Goto(h, "userdel")
          BY <1>1, <1>3, <3>1, <4>2, GotoOnto, ExcusedGrows DEF AroundStep, DeleteCount, At, Onto, Pc
        <4>3. CASE Reply(h)
          BY <1>1, <1>3, <3>1, <4>3, ReplyEnds, NoneApart, ExcusedGrows DEF AroundStep, DeleteCount
        <4> QED BY <4>1, <4>2, <4>3
      <3>2. CASE ~DeleteCount(h)
        BY <1>1, <1>3, <3>2, ExcusedGrows DEF At
      <3> QED BY <3>1, <3>2
    <2> QED BY <1>1, <1>3, <2>1, CronLeftAlone
  <1>4. CASE AccountRequest(h) /\ CronApart
    <2>1. UNCHANGED <<user, minted, contested, logins>>
      BY <1>4 DEF AccountRequest, CreateUser, DeleteUser, CreateSite, tables, host, history
    <2>2. hd[h].pc = "idle"
      BY <1>4 DEF AccountRequest, CreateUser, DeleteUser, CreateSite, Ask, Busy
    <2> QED BY <1>3, <1>4, <2>1, <2>2
  <1>5. CASE (TenantLook(h) \/ TenantDerive(h) \/ TenantEnsure(h) \/ TenantUpgrade(h)) /\ CronApart
    <2>1. UNCHANGED <<user, minted, contested>> /\ logins \subseteq logins'
      BY <1>5 DEF TenantLook, TenantDerive, TenantEnsure, EnsureLogin, TenantUpgrade, tables, host, history
    <2>2. hd[h].pc \in {"tenant", "wait", "provision", "upgrade"}
      BY <1>5 DEF TenantLook, TenantDerive, TenantEnsure, TenantUpgrade
    <2> QED BY <1>3, <1>5, <2>1, <2>2
  <1>6. CASE (CreateEnsure(h) \/ SiteBuild(h) \/ SiteRecord(h)) /\ CronApart
    <2>1. UNCHANGED <<user, minted, contested>> /\ logins \subseteq logins'
      BY <1>6 DEF CreateEnsure, EnsureLogin, SiteBuild, SiteRecord, tables, host, history
    <2>2. hd[h].op # "delete"
      BY <1>6 DEF CreateEnsure, SiteBuild, SiteRecord, At
    <2> QED BY <1>3, <1>6, <2>1, <2>2
  <1>7. CASE (DeleteBegin(h) \/ DeleteList(h) \/ DeleteTeardown(h) \/ DeleteObjects(h)) /\ CronApart
    <2>1. UNCHANGED <<user, minted, contested, logins>>
      BY <1>7 DEF DeleteBegin, DeleteList, DeleteTeardown, DeleteObjects, tables, host, history
    <2>2. hd[h].pc \in {"lock", "list", "teardown", "objects"}
      BY <1>7 DEF DeleteBegin, DeleteList, DeleteTeardown, DeleteObjects, At
    <2> QED BY <1>3, <1>7, <2>1, <2>2
  <1>8. CASE DeleteCount(h) /\ CronApart
    BY <1>3, <1>8 DEF DeleteCount, tables, host, history
  <1> QED BY <1>2, <1>4, <1>5, <1>6, <1>7, <1>8, Zenon DEF AccountStep, Tenant

-----------------------------------------------------------------------------
(* Cron jobs: their own steps *)

\* A step of a request about cron jobs changes nothing of Accounts but the request.
LEMMA CronMoves ==
  ASSUME AccountsInv, NEW h \in Handler, CronStep(h)
  PROVE  /\ OthersWait(h)
         /\ UNCHANGED <<user, minted, sites, built, logins, accountMu, tenantMu, auto, contested>>
  <1> DEFINE One == Quiet /\ \E x : hd' = [hd EXCEPT ![h] = x]
  <1>1. One => /\ OthersWait(h)
               /\ UNCHANGED <<user, minted, sites, built, logins, accountMu, tenantMu, auto, contested>>
    BY DEF OthersWait, AccountsInv, AccountsTypeOK, Quiet, tables, host, locks, history
  <1>2. \A op, a, j : AskCron(h, op, a, j) => One
    BY DEF AskCron, Ask
  <1>3. CASE \E a \in Account : AddCron(h, a) \/ \E j \in Job : DelCron(h, a, j)
    <2> HIDE DEF One
    <2> QED BY <1>1, <1>2, <1>3 DEF AddCron, DelCron
  <1>4. CASE CronList(h) \/ GiveUp(h)
    BY <1>1, <1>4 DEF CronList, GiveUp, Goto, EndSync, Reply
  <1>5. CASE CronInstall(h)
    <2>1. Quiet /\ (Reply(h) \/ Goto(h, "refused"))
      BY <1>5 DEF CronInstall, EndSync
    <2> QED BY <1>1, <2>1 DEF Goto, Reply
  <1>6. CASE TakeBack(h)
    <2>1. Quiet /\ hd' = [hd EXCEPT ![h].pc = IF Exists(hd[h].who) THEN "tenant" ELSE "refused",
                                    ![h].row = user[hd[h].who]]
      BY <1>6 DEF TakeBack
    <2> QED BY <1>1, <2>1
  <1> QED BY <1>3, <1>4, <1>5, <1>6 DEF CronStep

\* What the other requests, accounts and Linux users keep.
LEMMA CronFrame ==
  ASSUME AroundStep, NEW h \in Handler, CronStep(h), hd[h].op \in CronOp \/ hd[h].pc = "idle"
  PROVE  /\ OthersWait(h) /\ OneEach' /\ mixed' \subseteq Login /\ Excused \subseteq Excused'
         /\ UNCHANGED <<user, minted, logins, contested>>
         /\ AccountsInv /\ TenantInv /\ CronInv
  <1>1. OthersWait(h) /\ UNCHANGED <<user, minted, logins, contested>>
    BY CronMoves DEF AroundStep
  <1>2. ~At(h, "delete", "count") /\ ~At(h, "delete", "userdel")
    BY DEF At, CronOp
  <1> QED BY <1>1, <1>2, ExcusedGrows, MixedGrows DEF AroundStep

\* A step of account a's request leaves the others' jobs, requests and crontabs alone.
OnlyFor(h, a) ==
  /\ hd[h].op \in CronOp => hd[h].who = a
  /\ hd'[h].op \in CronOp => hd'[h].who = a
  /\ \A j \in Job : job'[j] = job[j] \/ {job[j], job'[j]} \subseteq {None, a}
  /\ \A j \in jobIds : job'[j] \in {job[j], None}
  /\ jobIds \subseteq jobIds' /\ kept \subseteq kept' /\ stale \ {a} = stale' \ {a}
  /\ \A g \in Handler \ {h} : hd[g].op \in CronOp /\ hd[g].who # a => sync'[g] = sync[g]
  /\ \A l \in Login \ Excused' : crontab'[l] = crontab[l] \/ user[a].sys = l

Knows(g) == KnowsJob(hd[g], sync[g]) /\ KnowsLogin(hd[g]) /\ Lone(g)

LEMMA CronElsewhere ==
  ASSUME AroundStep, NEW h \in Handler, CronStep(h), hd[h].op \in CronOp \/ hd[h].pc = "idle",
         NEW a \in Account, OnlyFor(h, a),
         CronTypeOK', RefusedJobGone', JobsKnown', \A l \in Login : CrontabKnown(l)',
         \A g \in Handler : g = h \/ (hd[g].op \in CronOp /\ hd[g].who = a) => Knows(g)',
         RowsKnown(a)'
  PROVE  CronInv'
  <1>1. /\ OthersWait(h) /\ UNCHANGED user /\ Excused \subseteq Excused'
        /\ AccountsInv /\ CronInv /\ OneEach'
    BY CronFrame
  <1>2. \A b : b # a => Syncs(b)' = Syncs(b)
    BY <1>1 DEF Syncs, OthersWait, OnlyFor
  <1>3. \A b : b # a /\ b # None => Jobs(b)' = Jobs(b)
    BY <1>1 DEF Jobs, Exists, OnlyFor
  <1>4. ASSUME NEW g \in Handler
        PROVE  Knows(g)'
    <2>1. CASE g = h \/ (hd[g].op \in CronOp /\ hd[g].who = a)
      BY <2>1
    <2>2. CASE g # h /\ hd[g].op \notin CronOp
      BY <1>1, <2>2 DEF Knows, OthersWait, KnowsJob, KnowsLogin, Lone, CronOp
    <2>3. CASE g # h /\ hd[g].op \in CronOp /\ hd[g].who # a
      <3> DEFINE b == hd[g].who
      <3>1. /\ hd'[g] = hd[g] /\ sync'[g] = sync[g] /\ sync[g].job \in jobIds
            /\ KnowsJob(hd[g], sync[g]) /\ KnowsLogin(hd[g]) /\ Lone(g)
        BY <1>1, <2>3 DEF OthersWait, CronInv, KnowsJob, OnlyFor
      <3>2. b \in Account
        BY <1>1, <2>3 DEF AccountsInv, HandlingOK, CronInv, KnowsJob, CronOp, Deleting, Provisioning, Handling, Pc
      <3>3. KnowsJob(hd[g], sync[g])'
        BY <1>1, <3>1, <3>2, NoneApart DEF KnowsJob, Exists, OnlyFor
      <3>4. KnowsLogin(hd[g])'
        BY <1>1, <3>1 DEF KnowsLogin, Exists
      <3>5. Lone(g)'
        BY <1>1, <1>2, <1>3, <2>3, <3>1, <3>2, NoneApart DEF Lone, Exists, OnlyFor
      <3> QED BY <3>3, <3>4, <3>5 DEF Knows
    <2> QED BY <2>1, <2>2, <2>3
  <1>5. ASSUME NEW b \in Account, b # a
        PROVE  RowsKnown(b)'
    <2> SUFFICES ASSUME Exists(b)', b \notin stale', user'[b].sys \notin Excused'
                 PROVE  RowsKnown(b)'
      BY DEF RowsKnown
    <2>1. Exists(b) /\ b \notin stale /\ user[b].sys \notin Excused /\ user'[b] = user[b]
      BY <1>1, <1>5 DEF Exists, OnlyFor
    <2>2. RowsKnown(b) /\ Jobs(b)' = Jobs(b) /\ Syncs(b)' = Syncs(b)
      BY <1>1, <1>2, <1>3, <1>5, NoneApart DEF CronInv
    <2>3. Base(b)' = Base(b)
      <3>1. CASE user[b].sys = None
        BY <2>1, <3>1 DEF Base
      <3>2. CASE user[b].sys # None
        <4>1. user[b].sys \in Login \ Excused'
          BY <1>1, <2>1, <3>2 DEF AccountsInv, AccountsTypeOK, User
        <4>2. user[a].sys # user[b].sys
          BY <1>1, <1>5, <4>1 DEF OneEach, Has, Excused
        <4>3. crontab'[user[b].sys] = crontab[user[b].sys]
          BY <4>1, <4>2 DEF OnlyFor
        <4> QED BY <2>1, <3>2, <4>3 DEF Base
      <3> QED BY <3>1, <3>2
    <2>4. \A g \in Syncs(b) : /\ g # h /\ hd'[g] = hd[g] /\ sync'[g] = sync[g]
                              /\ sync[g].job \in jobIds
      BY <1>1, <1>5 DEF Syncs, OthersWait, OnlyFor, CronInv, KnowsJob
    <2>5. \A g \in Syncs(b) : job[sync[g].job] = b => job'[sync[g].job] = b
      <3>1. \A j \in jobIds : j \in Job
        BY <1>1 DEF CronInv, CronTypeOK
      <3> QED BY <1>5, <2>4, <3>1, NoneApart DEF OnlyFor
    <2> QED BY <2>1, <2>2, <2>3, <2>4, <2>5 DEF RowsKnown
  <1> QED BY <1>1, <1>4, <1>5 DEF CronInv, Knows

LEMMA CrontabsLeft ==
  ASSUME AroundStep, NEW h \in Handler, CronStep(h), hd[h].op \in CronOp \/ hd[h].pc = "idle",
         UNCHANGED crontab, jobIds \subseteq jobIds'
  PROVE  \A l \in Login : CrontabKnown(l)'
  BY CronFrame DEF CronInv, CrontabKnown, Has

\* Lone, of a request for account a.
LEMMA LoneFor ==
  ASSUME NEW h \in Handler, NEW a, hd'[h].who = a,
         sync'[h].alone => Syncs(a)' = {h},
         sync'[h].alone /\ hd'[h].pc = "install" /\ Exists(a)' => sync'[h].list = Jobs(a)',
         ~sync'[h].alone => a \in stale'
  PROVE  Lone(h)'
  <1>1. Syncs(a)' = {g \in Handler : hd'[g].op \in CronOp /\ hd'[g].who = hd'[h].who}
    BY DEF Syncs
  <1>2. Jobs(a)' = {j \in Job : job'[j] = hd'[h].who /\ user'[hd'[h].who] # NoUser}
    BY DEF Jobs, Exists
  <1> QED BY <1>1, <1>2 DEF Lone, Syncs, Jobs, Exists

\* What postCreateCron and postDeleteCron begin.
LEMMA CronAsks ==
  ASSUME AroundStep, NEW h \in Handler, NEW op \in CronOp, NEW a \in Account, NEW j \in Job, Exists(a),
         AskCron(h, op, a, j), j \in jobIds'
  PROVE  /\ hd[h].pc = "idle" /\ hd[h].op \notin CronOp
         /\ hd'[h].op = op /\ hd'[h].who = a /\ hd'[h].pc = "tenant" /\ hd'[h].row = user[a]
         /\ sync'[h].job = j /\ sync'[h].list = {} /\ ~sync'[h].undoing
         /\ sync'[h].alone <=> Syncs(a) = {}
         /\ \A g \in Handler \ {h} : g \notin Syncs(a) => sync'[g] = sync[g]
         /\ \A g \in Syncs(a) : /\ g # h /\ sync'[g].job = sync[g].job /\ sync'[g].list = sync[g].list
                                /\ sync'[g].undoing = sync[g].undoing /\ ~sync'[g].alone
         /\ stale' = (IF Syncs(a) = {} THEN stale ELSE stale \cup {a})
         /\ sync' \in [Handler -> Syncing] /\ UNCHANGED <<crontab, kept>>
  <1>1. PICK x : x = [NoHandling EXCEPT !.op = op, !.who = a, !.row = user[a], !.pc = "tenant"]
    OBVIOUS
  <1>2. x.op = op /\ x.who = a /\ x.row = user[a] /\ x.pc = "tenant"
    BY <1>1 DEF NoHandling
  <1>3. Ask(h, x)
    BY <1>1 DEF AskCron
  <1>4. hd'[h] = x /\ hd[h].pc = "idle"
    BY <1>3, AskBegins DEF AroundStep
  <1>5. hd[h].op \notin CronOp
    BY <1>4 DEF AroundStep, CronInv, KnowsJob
  <1>6. h \notin Syncs(a) /\ Syncs(a) \subseteq Handler
    BY <1>5 DEF Syncs
  <1>7. sync \in [Handler -> Syncing]
    BY DEF AroundStep, CronInv, CronTypeOK
  <1>8. sync' = [g \in Handler |->
                  IF g = h THEN [NoSync EXCEPT !.job = j, !.alone = Syncs(a) = {}]
                  ELSE IF g \in Syncs(a) THEN [sync[g] EXCEPT !.alone = FALSE] ELSE sync[g]]
    BY DEF AskCron
  <1>9. /\ sync'[h].job = j /\ sync'[h].list = {} /\ ~sync'[h].undoing
        /\ sync'[h].alone <=> Syncs(a) = {}
        /\ sync'[h] \in Syncing
    <2>1. PICK b \in BOOLEAN : b <=> Syncs(a) = {}
      <3>1. CASE Syncs(a) = {}
        BY <3>1
      <3>2. CASE Syncs(a) # {}
        BY <3>2
      <3> QED BY <3>1, <3>2
    <2>2. (Syncs(a) = {}) = b
      BY <2>1, Zenon
    <2>3. sync'[h] = [NoSync EXCEPT !.job = j, !.alone = Syncs(a) = {}]
      BY <1>8
    <2>4. sync'[h] = [NoSync EXCEPT !.job = j, !.alone = b]
      BY <2>2, <2>3, Zenon
    <2>5. sync'[h] = [job |-> j, list |-> {}, undoing |-> FALSE, alone |-> b]
      BY <2>4 DEF NoSync
    <2> QED BY <2>1, <2>5 DEF Syncing
  <1>10. \A g \in Handler \ {h} :
           /\ g \notin Syncs(a) => sync'[g] = sync[g]
           /\ g \in Syncs(a) => sync'[g] = [sync[g] EXCEPT !.alone = FALSE]
    BY <1>8
  <1>11. \A g \in Syncs(a) : /\ g # h /\ sync'[g].job = sync[g].job /\ sync'[g].list = sync[g].list
                             /\ sync'[g].undoing = sync[g].undoing /\ ~sync'[g].alone
                             /\ sync'[g] \in Syncing
    <2> SUFFICES ASSUME NEW g \in Syncs(a)
                 PROVE  /\ g # h /\ sync'[g].job = sync[g].job /\ sync'[g].list = sync[g].list
                        /\ sync'[g].undoing = sync[g].undoing /\ ~sync'[g].alone
                        /\ sync'[g] \in Syncing
      OBVIOUS
    <2>1. g \in Handler /\ g # h
      BY <1>6
    <2>2. sync'[g] = [sync[g] EXCEPT !.alone = FALSE] /\ sync[g] \in Syncing
      BY <1>7, <1>10, <2>1
    <2> QED BY <2>1, <2>2 DEF Syncing
  <1>12. sync' \in [Handler -> Syncing]
    <2>1. \A g \in Handler : sync'[g] \in Syncing
      BY <1>7, <1>9, <1>10, <1>11
    <2> QED BY <1>8, <2>1
  <1> QED BY <1>2, <1>4, <1>5, <1>9, <1>10, <1>11, <1>12 DEF AskCron

\* A request for an account is at work alone, or the account is stale.
LEMMA CronAdds ==
  ASSUME AroundStep, NEW h \in Handler, NEW a \in Account, AddCron(h, a)
  PROVE  CronInv'
  <1>1. PICK j \in Job \ jobIds : /\ job' = [job EXCEPT ![j] = a] /\ jobIds' = jobIds \cup {j}
                                  /\ AskCron(h, "addcron", a, j) /\ Exists(a)
    BY DEF AddCron
  <1>2. "addcron" \in CronOp /\ CronStep(h)
    BY DEF CronOp, CronStep
  <1>3. /\ hd[h].pc = "idle" /\ hd[h].op \notin CronOp
        /\ hd'[h].op = "addcron" /\ hd'[h].who = a /\ hd'[h].pc = "tenant" /\ hd'[h].row = user[a]
        /\ sync'[h].job = j /\ sync'[h].list = {} /\ ~sync'[h].undoing
        /\ sync'[h].alone <=> Syncs(a) = {}
        /\ \A g \in Handler \ {h} : g \notin Syncs(a) => sync'[g] = sync[g]
        /\ \A g \in Syncs(a) : /\ g # h /\ sync'[g].job = sync[g].job /\ sync'[g].list = sync[g].list
                               /\ sync'[g].undoing = sync[g].undoing /\ ~sync'[g].alone
        /\ stale' = (IF Syncs(a) = {} THEN stale ELSE stale \cup {a})
        /\ sync' \in [Handler -> Syncing] /\ UNCHANGED <<crontab, kept>>
    BY <1>1, <1>2, CronAsks
  <1>4. /\ OthersWait(h) /\ UNCHANGED <<user, minted>> /\ Excused \subseteq Excused'
        /\ AccountsInv /\ TenantInv /\ CronInv /\ mixed' \subseteq Login
    BY <1>2, <1>3, CronFrame
  <1>5. /\ job'[j] = a /\ job[j] = None /\ j \notin jobIds
        /\ \A i \in Job : i # j => job'[i] = job[i]
    BY <1>1, <1>4 DEF CronInv, CronTypeOK, JobsKnown
  <1>6. Syncs(a)' = Syncs(a) \cup {h} /\ \A b : b # a => Syncs(b)' = Syncs(b)
    BY <1>3, <1>4 DEF Syncs, OthersWait, CronOp
  <1>7. Jobs(a)' = Jobs(a) \cup {j}
    BY <1>1, <1>4, <1>5 DEF Jobs, Exists
  <1>8. OnlyFor(h, a)
    BY <1>1, <1>3, <1>5, <1>4 DEF OnlyFor, Syncs
  <1>9. CronTypeOK'
    <2>1. stale' \subseteq Account
      BY <1>3, <1>4 DEF CronInv, CronTypeOK
    <2> QED BY <1>1, <1>3, <1>4, <2>1 DEF CronInv, CronTypeOK
  <1>10. RefusedJobGone'
    <2> SUFFICES ASSUME NEW i \in Refused \ kept, NEW b \in Account, job'[i] = b, Exists(b)'
                 PROVE  \E g \in Syncs(b)' : sync'[g].job = i
      BY <1>3 DEF RefusedJobGone
    <2>1. CASE i = j
      BY <1>3, <1>5, <1>6, <2>1
    <2>2. CASE i # j
      <3>1. job[i] = b /\ Exists(b)
        BY <1>4, <1>5, <2>2, JobAssumption DEF Exists
      <3>2. PICK g \in Syncs(b) : sync[g].job = i
        BY <1>4, <3>1 DEF CronInv, RefusedJobGone
      <3>3. g \in Syncs(b)' /\ g # h
        <4>1. g # h
          BY <1>3 DEF Syncs
        <4> QED BY <1>6, <4>1
      <3>4. sync'[g].job = sync[g].job
        BY <1>3, <3>2, <3>3 DEF Syncs
      <3> QED BY <3>2, <3>3, <3>4
    <2> QED BY <2>1, <2>2
  <1>11. JobsKnown'
    BY <1>1, <1>4, <1>5 DEF CronInv, JobsKnown, AccountsInv, Ids
  <1>12. ASSUME NEW g \in Handler, g = h \/ (hd[g].op \in CronOp /\ hd[g].who = a)
         PROVE  Knows(g)'
    <2>1. CASE g = h
      <3>1. KnowsJob(hd[g], sync[g])'
        BY <1>1, <1>3, <1>5, <2>1 DEF KnowsJob
      <3>2. KnowsLogin(hd[g])'
        BY <1>1, <1>3, <1>4, <2>1 DEF KnowsLogin, Recording, Found, Exists
      <3>3. Lone(g)'
        <4>1. sync'[h].alone => Syncs(a)' = {h}
          BY <1>3, <1>6
        <4>2. ~sync'[h].alone => a \in stale'
          BY <1>3
        <4> QED BY <1>3, <2>1, <4>1, <4>2, LoneFor
      <3> QED BY <3>1, <3>2, <3>3 DEF Knows
    <2>2. CASE g # h
      <3>1. g \in Syncs(a) /\ hd'[g] = hd[g] /\ a \in stale'
        BY <1>3, <1>4, <1>12, <2>2 DEF Syncs, OthersWait
      <3>2. KnowsJob(hd[g], sync[g]) /\ KnowsLogin(hd[g])
        BY <1>4 DEF CronInv
      <3>3. sync[g].job \in Job /\ (sync[g].job \in jobIds => job'[sync[g].job] = job[sync[g].job])
        BY <1>4, <1>5, <1>12, <2>2, <3>2 DEF CronInv, CronTypeOK, KnowsJob
      <3>4. KnowsJob(hd[g], sync[g])'
        BY <1>1, <1>3, <1>4, <3>1, <3>2, <3>3 DEF KnowsJob, Exists, CronOp
      <3>5. KnowsLogin(hd[g])'
        BY <1>4, <3>1, <3>2 DEF KnowsLogin, Exists
      <3>6. Lone(g)'
        BY <1>3, <3>1 DEF Lone, Syncs
      <3> QED BY <3>4, <3>5, <3>6 DEF Knows
    <2> QED BY <2>1, <2>2
  <1>13. RowsKnown(a)'
    <2> SUFFICES ASSUME a \notin stale', user'[a].sys \notin Excused'
                 PROVE  RowsKnown(a)'
      BY DEF RowsKnown
    <2>1. Syncs(a) = {} /\ a \notin stale /\ Base(a)' = Base(a)
      BY <1>3, <1>4 DEF Base
    <2>2. Jobs(a) = Base(a)
      BY <1>1, <1>4, <2>1 DEF CronInv, RowsKnown
    <2>3. j \notin Base(a)
      BY <1>5, <2>2, NoneApart DEF Jobs
    <2> QED BY <1>3, <1>5, <1>6, <1>7, <2>1, <2>2, <2>3 DEF RowsKnown
  <1>14. \A l \in Login : CrontabKnown(l)'
    BY <1>1, <1>2, <1>3, CrontabsLeft
  <1> QED BY <1>2, <1>3, <1>8, <1>9, <1>10, <1>11, <1>12, <1>13, <1>14, CronElsewhere

LEMMA CronRemoves ==
  ASSUME AroundStep, NEW h \in Handler, NEW a \in Account, NEW j \in Job, DelCron(h, a, j)
  PROVE  CronInv'
  <1>1. /\ job' = [job EXCEPT ![j] = None] /\ jobIds' = jobIds /\ j \in Jobs(a)
        /\ AskCron(h, "delcron", a, j) /\ Exists(a) /\ j \in jobIds
    BY NoneApart DEF DelCron, Jobs, AroundStep, CronInv, JobsKnown
  <1>2. "delcron" \in CronOp /\ CronStep(h)
    BY DEF CronOp, CronStep
  <1>3. /\ hd[h].pc = "idle" /\ hd[h].op \notin CronOp
        /\ hd'[h].op = "delcron" /\ hd'[h].who = a /\ hd'[h].pc = "tenant" /\ hd'[h].row = user[a]
        /\ sync'[h].job = j /\ sync'[h].list = {} /\ ~sync'[h].undoing
        /\ sync'[h].alone <=> Syncs(a) = {}
        /\ \A g \in Handler \ {h} : g \notin Syncs(a) => sync'[g] = sync[g]
        /\ \A g \in Syncs(a) : /\ g # h /\ sync'[g].job = sync[g].job /\ sync'[g].list = sync[g].list
                               /\ sync'[g].undoing = sync[g].undoing /\ ~sync'[g].alone
        /\ stale' = (IF Syncs(a) = {} THEN stale ELSE stale \cup {a})
        /\ sync' \in [Handler -> Syncing] /\ UNCHANGED <<crontab, kept>>
    BY <1>1, <1>2, CronAsks
  <1>4. /\ OthersWait(h) /\ UNCHANGED <<user, minted>> /\ Excused \subseteq Excused'
        /\ AccountsInv /\ TenantInv /\ CronInv /\ mixed' \subseteq Login
    BY <1>2, <1>3, CronFrame
  <1>5. /\ job'[j] = None /\ job[j] = a
        /\ \A i \in Job : i # j => job'[i] = job[i]
    BY <1>1, <1>4 DEF CronInv, CronTypeOK, Jobs
  <1>6. Syncs(a)' = Syncs(a) \cup {h} /\ \A b : b # a => Syncs(b)' = Syncs(b)
    BY <1>3, <1>4 DEF Syncs, OthersWait, CronOp
  <1>8. OnlyFor(h, a)
    BY <1>1, <1>3, <1>5, <1>4 DEF OnlyFor, Syncs, CronInv, CronTypeOK
  <1>9. CronTypeOK'
    <2>1. stale' \subseteq Account
      BY <1>3, <1>4 DEF CronInv, CronTypeOK
    <2> QED BY <1>1, <1>3, <1>4, <2>1 DEF CronInv, CronTypeOK
  <1>10. RefusedJobGone'
    <2> SUFFICES ASSUME NEW i \in Refused \ kept, NEW b \in Account, job'[i] = b, Exists(b)'
                 PROVE  \E g \in Syncs(b)' : sync'[g].job = i
      BY <1>3 DEF RefusedJobGone
    <2>1. i # j
      BY <1>5, NoneApart
    <2>2. job[i] = b /\ Exists(b)
      BY <1>4, <1>5, <2>1, JobAssumption DEF Exists
    <2>3. PICK g \in Syncs(b) : sync[g].job = i
      BY <1>4, <2>2 DEF CronInv, RefusedJobGone
    <2>4. g \in Syncs(b)' /\ g # h
      <3>1. g # h
        BY <1>3 DEF Syncs
      <3> QED BY <1>6, <3>1
    <2>5. sync'[g].job = sync[g].job
      BY <1>3, <2>3, <2>4 DEF Syncs
    <2> QED BY <2>3, <2>4, <2>5
  <1>11. JobsKnown'
    BY <1>1, <1>4, <1>5 DEF CronInv, JobsKnown
  <1>12. ASSUME NEW g \in Handler, g = h \/ (hd[g].op \in CronOp /\ hd[g].who = a)
         PROVE  Knows(g)'
    <2>1. CASE g = h
      <3>1. KnowsJob(hd[g], sync[g])'
        BY <1>1, <1>3, <1>5, <2>1 DEF KnowsJob
      <3>2. KnowsLogin(hd[g])'
        BY <1>1, <1>3, <1>4, <2>1 DEF KnowsLogin, Recording, Found, Exists
      <3>3. Lone(g)'
        <4>1. sync'[h].alone => Syncs(a)' = {h}
          BY <1>3, <1>6
        <4>2. ~sync'[h].alone => a \in stale'
          BY <1>3
        <4> QED BY <1>3, <2>1, <4>1, <4>2, LoneFor
      <3> QED BY <3>1, <3>2, <3>3 DEF Knows
    <2>2. CASE g # h
      <3>1. g \in Syncs(a) /\ hd'[g] = hd[g] /\ a \in stale'
        BY <1>3, <1>4, <1>12, <2>2 DEF Syncs, OthersWait
      <3>2. KnowsJob(hd[g], sync[g]) /\ KnowsLogin(hd[g])
        BY <1>4 DEF CronInv
      <3>3. sync[g].job \in Job /\ job'[sync[g].job] \in {job[sync[g].job], None}
        BY <1>4, <1>5, <1>12, <2>2, <3>2 DEF CronInv, CronTypeOK, KnowsJob
      <3>4. KnowsJob(hd[g], sync[g])'
        BY <1>1, <1>3, <1>4, <3>1, <3>2, <3>3, NoneApart DEF KnowsJob, Exists, CronOp
      <3>5. KnowsLogin(hd[g])'
        BY <1>4, <3>1, <3>2 DEF KnowsLogin, Exists
      <3>6. Lone(g)'
        BY <1>3, <3>1 DEF Lone, Syncs
      <3> QED BY <3>4, <3>5, <3>6 DEF Knows
    <2> QED BY <2>1, <2>2
  <1>13. RowsKnown(a)'
    <2> SUFFICES ASSUME a \notin stale'
                 PROVE  RowsKnown(a)'
      BY DEF RowsKnown
    <2>1. Syncs(a)' = {h}
      BY <1>3, <1>6
    <2> QED BY <1>3, <2>1 DEF RowsKnown
  <1>14. \A l \in Login : CrontabKnown(l)'
    BY <1>1, <1>2, <1>3, CrontabsLeft
  <1> QED BY <1>2, <1>3, <1>8, <1>9, <1>10, <1>11, <1>12, <1>13, <1>14, CronElsewhere

\* What there is to know of a request about cron jobs that is at work.
LEMMA CronRequest ==
  ASSUME AroundStep, NEW h \in Handler, hd[h].op \in CronOp
  PROVE  /\ hd[h].who \in Account /\ h \in Syncs(hd[h].who) /\ sync[h] \in Syncing
         /\ sync[h].job \in Job /\ sync[h].job \in jobIds /\ sync[h].list \subseteq jobIds
         /\ KnowsJob(hd[h], sync[h]) /\ KnowsLogin(hd[h]) /\ Lone(h) /\ KnowsTenant(hd[h])
         /\ RowsKnown(hd[h].who) /\ sync \in [Handler -> Syncing]
         /\ hd[h] \in Handling /\ hd \in [Handler -> Handling]
  <1>1. hd[h].who \in Account
    BY DEF AroundStep, AccountsInv, HandlingOK, CronInv, KnowsJob, CronOp, Deleting, Provisioning, Handling, Pc
  <1>2. sync[h].job \in jobIds /\ jobIds \subseteq Job /\ sync[h].list \subseteq jobIds
    BY DEF AroundStep, CronInv, CronTypeOK, KnowsJob
  <1>3. KnowsJob(hd[h], sync[h]) /\ KnowsLogin(hd[h]) /\ Lone(h) /\ RowsKnown(hd[h].who)
    BY <1>1 DEF AroundStep, CronInv
  <1>4. sync \in [Handler -> Syncing] /\ KnowsTenant(hd[h]) /\ hd \in [Handler -> Handling]
    BY DEF AroundStep, CronInv, CronTypeOK, TenantInv, AccountsInv, AccountsTypeOK
  <1> QED BY <1>1, <1>2, <1>3, <1>4 DEF Syncs

\* Two requests for an account: neither is alone.
LEMMA TwoOverlap ==
  ASSUME AroundStep, NEW h \in Handler, NEW g \in Handler, g # h, hd[h].op \in CronOp, hd[g].op \in CronOp,
         hd[g].who = hd[h].who
  PROVE  ~sync[g].alone /\ ~sync[h].alone /\ hd[h].who \in stale
  <1>1. g \in Syncs(hd[h].who) /\ h \in Syncs(hd[h].who)
    BY DEF Syncs
  <1>2. Lone(g) /\ Lone(h)
    BY DEF AroundStep, CronInv
  <1> QED BY <1>1, <1>2 DEF Lone

\* A step of a request that goes on, keeps its job and leaves rows and crontabs alone.
LEMMA CronGoesOn ==
  ASSUME AroundStep, NEW h \in Handler, hd[h].op \in CronOp, CronStep(h),
         UNCHANGED <<job, jobIds, crontab, kept, stale>>,
         hd'[h].op = hd[h].op, hd'[h].who = hd[h].who,
         sync' \in [Handler -> Syncing], \A g \in Handler \ {h} : sync'[g] = sync[g],
         sync'[h].job = sync[h].job, sync'[h].undoing = sync[h].undoing, sync'[h].alone = sync[h].alone,
         KnowsJob(hd[h], sync[h])', KnowsLogin(hd[h])',
         hd'[h].pc = "install" /\ sync'[h].alone => sync'[h].list = Jobs(hd[h].who)
  PROVE  CronInv'
  <1>1. PICK a : a = hd[h].who
    OBVIOUS
  <1>2. /\ OthersWait(h) /\ UNCHANGED <<user, minted>> /\ CronInv /\ mixed' \subseteq Login
        /\ Excused \subseteq Excused'
    BY CronFrame
  <1>3. Lone(h) /\ RowsKnown(a) /\ a \in Account
    BY <1>1, CronRequest
  <1>4. Syncs(a)' = Syncs(a) /\ Jobs(a)' = Jobs(a) /\ Base(a)' = Base(a)
    BY <1>1, <1>2 DEF Syncs, Jobs, Exists, Base, OthersWait
  <1>5. OnlyFor(h, a)
    BY <1>1 DEF OnlyFor
  <1>6. CronTypeOK'
    BY <1>2 DEF CronInv, CronTypeOK
  <1>7. RefusedJobGone'
    <2> SUFFICES ASSUME NEW i \in Refused \ kept, NEW b \in Account, job'[i] = b, Exists(b)'
                 PROVE  \E g \in Syncs(b)' : sync'[g].job = i
      BY DEF RefusedJobGone
    <2>1. PICK g \in Syncs(b) : sync[g].job = i
      BY <1>2 DEF CronInv, RefusedJobGone, Exists
    <2>2. g \in Handler /\ hd[g].op \in CronOp /\ hd[g].who = b
      BY DEF Syncs
    <2>3. g \in Syncs(b)'
      BY <1>2, <2>2 DEF OthersWait, Syncs
    <2> QED BY <2>1, <2>2, <2>3
  <1>8. JobsKnown'
    BY <1>2 DEF CronInv, JobsKnown
  <1>9. ASSUME NEW g \in Handler, g = h \/ (hd[g].op \in CronOp /\ hd[g].who = a)
        PROVE  Knows(g)'
    <2>1. CASE g = h
      <3>1. Lone(h)'
        <4>1. sync'[h].alone => Syncs(a)' = {h}
          BY <1>1, <1>3, <1>4 DEF Lone
        <4>2. ~sync'[h].alone => a \in stale'
          BY <1>1, <1>3 DEF Lone
        <4> QED BY <1>1, <1>4, <4>1, <4>2, LoneFor
      <3> QED BY <2>1, <3>1 DEF Knows
    <2>2. CASE g # h
      <3>1. hd'[g] = hd[g] /\ sync'[g] = sync[g] /\ hd[g].who = a /\ ~sync[g].alone /\ a \in stale
        BY <1>1, <1>2, <1>9, <2>2, TwoOverlap DEF OthersWait
      <3>2. KnowsJob(hd[g], sync[g]) /\ KnowsLogin(hd[g])
        BY <1>2 DEF CronInv
      <3>3. KnowsJob(hd[g], sync[g])'
        BY <1>2, <3>1, <3>2 DEF KnowsJob, Exists
      <3>4. KnowsLogin(hd[g])'
        BY <1>2, <3>1, <3>2 DEF KnowsLogin, Exists
      <3>5. Lone(g)'
        BY <3>1 DEF Lone
      <3> QED BY <3>3, <3>4, <3>5 DEF Knows
    <2> QED BY <2>1, <2>2
  <1>10. RowsKnown(a)'
    <2>1. \A g \in Syncs(a) : /\ hd'[g].op = hd[g].op /\ sync'[g].job = sync[g].job
                              /\ sync'[g].undoing = sync[g].undoing
      BY <1>2 DEF Syncs, OthersWait
    <2>2. user'[a] = user[a] /\ (Exists(a)' <=> Exists(a))
      BY <1>2 DEF Exists
    <2> QED BY <1>2, <1>3, <1>4, <2>1, <2>2 DEF RowsKnown
  <1>11. \A l \in Login : CrontabKnown(l)'
    BY CrontabsLeft
  <1> HIDE DEF Knows
  <1> QED BY <1>3, <1>5, <1>6, <1>7, <1>8, <1>9, <1>10, <1>11, CronElsewhere

LEMMA CronListed ==
  ASSUME AroundStep, NEW h \in Handler, CronList(h)
  PROVE  CronInv'
  <1>1. PICK a : a = hd[h].who
    OBVIOUS
  <1>2. /\ hd[h].op \in CronOp /\ hd[h].pc = "ready" /\ CronStep(h) /\ Goto(h, "install")
        /\ sync' = [sync EXCEPT ![h].list = Jobs(a)] /\ UNCHANGED <<job, jobIds, crontab, kept, stale>>
    BY <1>1 DEF CronList, CronStep
  <1>3. Onto(h, "install")
    BY <1>2, GotoOnto DEF AroundStep, Pc
  <1>4. /\ a \in Account /\ sync \in [Handler -> Syncing] /\ sync[h] \in Syncing
        /\ KnowsJob(hd[h], sync[h]) /\ KnowsLogin(hd[h])
    BY <1>1, <1>2, CronRequest
  <1>5. Jobs(a) \subseteq jobIds /\ Jobs(a) \subseteq Job
    BY <1>4, NoneApart DEF Jobs, AroundStep, CronInv, JobsKnown
  <1>6. /\ sync' \in [Handler -> Syncing] /\ \A g \in Handler \ {h} : sync'[g] = sync[g]
        /\ sync'[h].job = sync[h].job /\ sync'[h].undoing = sync[h].undoing
        /\ sync'[h].alone = sync[h].alone /\ sync'[h].list = Jobs(a)
    BY <1>2, <1>4, <1>5 DEF Syncing
  <1>7. UNCHANGED user /\ Excused \subseteq Excused'
    BY <1>2, CronFrame
  <1>8. KnowsJob(hd[h], sync[h])'
    <2>1. sync[h].job \in Job
      BY <1>2, CronRequest
    <2> QED BY <1>1, <1>2, <1>3, <1>4, <1>5, <1>6, <1>7, <2>1 DEF KnowsJob, Onto, Jobs, Exists
  <1>9. KnowsLogin(hd[h])'
    BY <1>2, <1>3, <1>4, <1>7 DEF KnowsLogin, Onto, Exists, Recording, Found
  <1> QED BY <1>1, <1>2, <1>3, <1>6, <1>8, <1>9, CronGoesOn DEF Onto

\* A request that ends: the others for its account know that it was stale.
LEMMA CronEnds ==
  ASSUME AroundStep, NEW h \in Handler, NEW a, a = hd[h].who, hd[h].op \in CronOp, CronStep(h), EndSync(h),
         UNCHANGED <<job, jobIds, kept>>, stale' \subseteq Account,
         stale \ {a} = stale' \ {a}, ~sync[h].alone => stale \subseteq stale',
         sync[h].job \in Refused \ kept => job[sync[h].job] # a \/ ~Exists(a),
         crontab' \in [Login -> SUBSET Job], \A l \in Login : CrontabKnown(l)',
         \A l \in Login \ Excused' : crontab'[l] = crontab[l] \/ user[a].sys = l,
         Exists(a) /\ a \notin stale' /\ user[a].sys \notin Excused'
           => Syncs(a) = {h} /\ Jobs(a) = Base(a)'
  PROVE  CronInv'
  <1>1. /\ OthersWait(h) /\ UNCHANGED <<user, minted>> /\ CronInv /\ mixed' \subseteq Login
        /\ Excused \subseteq Excused'
    BY CronFrame
  <1>2. Lone(h) /\ RowsKnown(a) /\ a \in Account /\ sync \in [Handler -> Syncing] /\ sync[h].job \in Job
    BY CronRequest
  <1>3. /\ hd'[h] = NoHandling /\ hd'[h].op \notin CronOp
        /\ sync' \in [Handler -> Syncing] /\ \A g \in Handler \ {h} : sync'[g] = sync[g]
    <2>1. NoSync \in Syncing
      BY DEF NoSync, Syncing
    <2> QED BY <1>2, <2>1, ReplyEnds, NoneApart DEF EndSync, AroundStep
  <1>4. Syncs(a)' = Syncs(a) \ {h} /\ Jobs(a)' = Jobs(a)
    BY <1>1, <1>3 DEF Syncs, Jobs, Exists, OthersWait
  <1>5. OnlyFor(h, a)
    BY <1>3 DEF OnlyFor
  <1>6. CronTypeOK'
    BY <1>1, <1>3 DEF CronInv, CronTypeOK
  <1>7. RefusedJobGone'
    <2> SUFFICES ASSUME NEW i \in Refused \ kept, NEW b \in Account, job'[i] = b, Exists(b)'
                 PROVE  \E g \in Syncs(b)' : sync'[g].job = i
      BY DEF RefusedJobGone
    <2>1. PICK g \in Syncs(b) : sync[g].job = i
      BY <1>1 DEF CronInv, RefusedJobGone, Exists
    <2>2. g \in Handler /\ hd[g].op \in CronOp /\ hd[g].who = b
      BY DEF Syncs
    <2>3. g # h
      BY <1>1, <2>1, <2>2 DEF Exists
    <2>4. g \in Syncs(b)'
      BY <1>1, <2>2, <2>3 DEF OthersWait, Syncs
    <2> QED BY <1>3, <2>1, <2>2, <2>3, <2>4
  <1>8. JobsKnown'
    BY <1>1 DEF CronInv, JobsKnown
  <1>9. ASSUME NEW g \in Handler, g = h \/ (hd[g].op \in CronOp /\ hd[g].who = a)
         PROVE  Knows(g)'
    <2>1. CASE g = h
      BY <1>3, <2>1 DEF Knows, KnowsJob, KnowsLogin, Lone, CronOp
    <2>2. CASE g # h
      <3>1. /\ hd'[g] = hd[g] /\ sync'[g] = sync[g] /\ hd[g].who = a /\ ~sync[g].alone /\ a \in stale'
        BY <1>1, <1>3, <1>9, <2>2, TwoOverlap DEF OthersWait
      <3>2. KnowsJob(hd[g], sync[g]) /\ KnowsLogin(hd[g])
        BY <1>1 DEF CronInv
      <3>3. KnowsJob(hd[g], sync[g])'
        BY <1>1, <3>1, <3>2 DEF KnowsJob, Exists
      <3>4. KnowsLogin(hd[g])'
        BY <1>1, <3>1, <3>2 DEF KnowsLogin, Exists
      <3>5. Lone(g)'
        BY <3>1 DEF Lone
      <3> QED BY <3>3, <3>4, <3>5 DEF Knows
    <2> QED BY <2>1, <2>2
  <1>10. RowsKnown(a)'
    <2> SUFFICES ASSUME Exists(a)', a \notin stale', user'[a].sys \notin Excused'
                 PROVE  RowsKnown(a)'
      BY DEF RowsKnown
    <2>1. Syncs(a) = {h} /\ Jobs(a) = Base(a)'
      BY <1>1 DEF Exists
    <2>2. Syncs(a)' = {}
      BY <1>4, <2>1
    <2> QED BY <1>4, <2>1, <2>2 DEF RowsKnown
  <1> HIDE DEF Knows
  <1> QED BY <1>2, <1>5, <1>6, <1>7, <1>8, <1>9, <1>10, CronElsewhere

\* The list of a request nobody overlapped is the account's rows, and no job crond
\* refuses is in it.
LEMMA CronInstalls ==
  ASSUME AroundStep, NEW h \in Handler, CronInstall(h), EndSync(h),
         hd[h].login \in logins, sync[h].list \cap Refused = {},
         crontab' = [crontab EXCEPT ![hd[h].login] = sync[h].list],
         stale' = IF sync[h].alone THEN stale \ {hd[h].who} ELSE stale
  PROVE  CronInv'
  <1>1. PICK a : a = hd[h].who
    OBVIOUS
  <1>2. PICK l : l = hd[h].login
    OBVIOUS
  <1>3. /\ hd[h].op \in CronOp /\ hd[h].pc = "install" /\ CronStep(h)
        /\ UNCHANGED <<job, jobIds, kept, logins>>
    BY DEF CronInstall, CronStep, Quiet, host
  <1>4. /\ a \in Account /\ h \in Syncs(a) /\ sync[h].job \in Job /\ sync[h].list \subseteq jobIds
        /\ KnowsJob(hd[h], sync[h]) /\ KnowsLogin(hd[h]) /\ Lone(h) /\ KnowsTenant(hd[h])
    BY <1>1, <1>3, CronRequest
  <1>5. /\ UNCHANGED user /\ CronInv /\ Excused \subseteq Excused'
    BY <1>3, CronFrame
  <1>6. crontab \in [Login -> SUBSET Job] /\ stale \subseteq Account /\ jobIds \subseteq Job
    BY <1>5 DEF CronInv, CronTypeOK
  <1>7. l \in Login /\ (Exists(a) => user[a].sys = l) /\ (l \notin Excused' => Exists(a))
    BY <1>1, <1>2, <1>3, <1>4, <1>5 DEF KnowsTenant, KnowsLogin, Found
  <1>8. crontab'[l] = sync[h].list /\ \A k \in Login : k # l => crontab'[k] = crontab[k]
    BY <1>2, <1>6, <1>7
  <1>9. sync[h].job \in Refused => job[sync[h].job] # a \/ ~Exists(a) \/ sync[h].job \in kept
    BY <1>1, <1>3, <1>4, NoneApart DEF KnowsJob, CronOp
  <1>10. crontab' \in [Login -> SUBSET Job]
    BY <1>4, <1>6
  <1>11. ASSUME NEW k \in Login
         PROVE  CrontabKnown(k)'
    <2>1. CrontabKnown(k)
      BY <1>5 DEF CronInv
    <2>2. k = l => k \in logins /\ (k \notin Excused' => Has(k) # {})
      BY <1>2, <1>4, <1>7 DEF Has
    <2>3. Has(k)' = Has(k)
      BY <1>5 DEF Has
    <2> QED BY <1>3, <1>4, <1>5, <1>8, <2>1, <2>2, <2>3 DEF CrontabKnown
  <1>12. ASSUME Exists(a), a \notin stale', user[a].sys \notin Excused'
         PROVE  Syncs(a) = {h} /\ Jobs(a) = IF user[a].sys = None THEN {} ELSE crontab'[user[a].sys]
    <2>1. sync[h].alone
      BY <1>1, <1>3, <1>4, <1>12 DEF Lone
    <2>2. Syncs(a) = {h} /\ sync[h].list = Jobs(a)
      BY <1>1, <1>3, <1>4, <1>12, <2>1 DEF Lone
    <2> QED BY <1>7, <1>8, <1>12, <2>2, NoneApart
  <1>13. stale' \subseteq Account /\ stale \ {a} = stale' \ {a} /\ (~sync[h].alone => stale \subseteq stale')
    BY <1>1, <1>6
  <1>14. \A k \in Login \ Excused' : crontab'[k] = crontab[k] \/ user[a].sys = k
    BY <1>7, <1>8
  <1>15. Exists(a) /\ a \notin stale' /\ user[a].sys \notin Excused'
           => Syncs(a) = {h} /\ Jobs(a) = Base(a)'
    BY <1>5, <1>12 DEF Base
  <1> QED BY <1>1, <1>3, <1>9, <1>10, <1>11, <1>13, <1>14, <1>15, CronEnds

LEMMA CronInstalled ==
  ASSUME AroundStep, NEW h \in Handler, CronInstall(h)
  PROVE  CronInv'
  <1>1. hd[h].op \in CronOp /\ hd[h].pc = "install" /\ CronStep(h)
    BY DEF CronInstall, CronStep
  <1>2. CASE Goto(h, "refused") /\ UNCHANGED <<crontab, stale, sync>>
    <2>1. Onto(h, "refused") /\ UNCHANGED <<job, jobIds, kept>>
      BY <1>2, GotoOnto DEF AroundStep, Pc, CronInstall
    <2>2. /\ sync' \in [Handler -> Syncing] /\ KnowsJob(hd[h], sync[h]) /\ sync' = sync
      BY <1>1, <1>2, CronRequest
    <2>3. UNCHANGED user
      BY <1>1, CronFrame
    <2>4. KnowsJob(hd[h], sync[h])'
      BY <1>1, <2>1, <2>2, <2>3 DEF KnowsJob, Onto, Exists
    <2>5. KnowsLogin(hd[h])'
      BY <2>1 DEF KnowsLogin, Onto, Recording, Found
    <2> QED BY <1>1, <1>2, <2>1, <2>2, <2>4, <2>5, CronGoesOn DEF Onto
  <1> QED BY <1>2, CronInstalls DEF CronInstall

\* The job is taken back; the rows are the crontab's again.
LEMMA CronTakenBack ==
  ASSUME AroundStep, NEW h \in Handler, TakeBack(h)
  PROVE  CronInv'
  <1>1. PICK a : a = hd[h].who
    OBVIOUS
  <1>2. PICK j : j = sync[h].job
    OBVIOUS
  <1>3. /\ hd[h].op = "addcron" /\ hd[h].pc = "refused" /\ ~sync[h].undoing /\ hd[h].op \in CronOp
        /\ CronStep(h) /\ UNCHANGED <<jobIds, crontab>> /\ sync' = [sync EXCEPT ![h].undoing = TRUE]
        /\ \/ job' = [job EXCEPT ![j] = None] /\ UNCHANGED <<kept, stale>>
           \/ kept' = kept \cup {j} /\ stale' = stale \cup {a} /\ UNCHANGED job
    BY <1>1, <1>2 DEF TakeBack, CronStep, CronOp
  <1>4. /\ a \in Account /\ h \in Syncs(a) /\ j \in Job /\ j \in jobIds /\ Lone(h) /\ RowsKnown(a)
        /\ KnowsJob(hd[h], sync[h]) /\ sync \in [Handler -> Syncing] /\ hd \in [Handler -> Handling]
    BY <1>1, <1>2, <1>3, CronRequest
  <1>5. /\ OthersWait(h) /\ UNCHANGED <<user, minted>> /\ CronInv /\ mixed' \subseteq Login
        /\ Excused \subseteq Excused'
    BY <1>3, CronFrame
  <1>6. PICK pc \in {"tenant", "refused"} : pc = IF Exists(a) THEN "tenant" ELSE "refused"
    OBVIOUS
  <1>7. hd' = [hd EXCEPT ![h].pc = pc, ![h].row = user[a]]
    BY <1>1, <1>6 DEF TakeBack
  <1>8. hd'[h].op = "addcron" /\ hd'[h].who = a /\ hd'[h].pc = pc /\ hd'[h].row = user[a]
    BY <1>1, <1>3, <1>4, <1>7 DEF Handling
  <1>9. /\ sync' \in [Handler -> Syncing] /\ \A g \in Handler \ {h} : sync'[g] = sync[g]
        /\ sync'[h].job = j /\ sync'[h].undoing /\ sync'[h].alone = sync[h].alone
        /\ sync'[h].list = sync[h].list
    BY <1>2, <1>3, <1>4 DEF Syncing
  <1>10. job \in [Job -> Account \cup {None}] /\ stale \subseteq Account /\ kept \subseteq Job
    BY <1>5 DEF CronInv, CronTypeOK
  <1>11. /\ job'[j] = None \/ j \in kept'
         /\ \A i \in Job : i # j => job'[i] = job[i]
         /\ job'[j] \in {job[j], None}
    BY <1>3, <1>4, <1>10
  <1>12. Syncs(a)' = Syncs(a) /\ \A b : Syncs(b)' = Syncs(b)
    BY <1>1, <1>3, <1>5, <1>8 DEF Syncs, OthersWait
  <1>13. job[j] \in {None, a}
    BY <1>1, <1>2, <1>3, <1>4 DEF KnowsJob
  <1>14. OnlyFor(h, a)
    <2>1. \A i \in Job : job'[i] = job[i] \/ {job[i], job'[i]} \subseteq {None, a}
      BY <1>11, <1>13
    <2>2. \A i \in jobIds : job'[i] \in {job[i], None}
      BY <1>5, <1>11 DEF CronInv, CronTypeOK
    <2>3. kept \subseteq kept' /\ stale \ {a} = stale' \ {a}
      BY <1>3
    <2> QED BY <1>1, <1>3, <1>8, <1>9, <2>1, <2>2, <2>3 DEF OnlyFor
  <1>15. CronTypeOK'
    <2>1. job' \in [Job -> Account \cup {None}] /\ kept' \subseteq Job /\ stale' \subseteq Account
      BY <1>3, <1>4, <1>10
    <2> QED BY <1>3, <1>5, <1>9, <2>1 DEF CronInv, CronTypeOK
  <1>16. RefusedJobGone'
    <2> SUFFICES ASSUME NEW i \in Refused \ kept', NEW b \in Account, job'[i] = b, Exists(b)'
                 PROVE  \E g \in Syncs(b)' : sync'[g].job = i
      BY DEF RefusedJobGone
    <2>1. i # j /\ i \notin kept /\ i \in Job
      BY <1>3, <1>11, NoneApart, JobAssumption
    <2>2. PICK g \in Syncs(b) : sync[g].job = i
      BY <1>5, <1>11, <2>1, JobAssumption DEF CronInv, RefusedJobGone, Exists
    <2>3. sync'[g].job = i
      BY <1>2, <1>9, <2>1, <2>2 DEF Syncs
    <2> QED BY <1>12, <2>3
  <1>17. JobsKnown'
    BY <1>3, <1>5, <1>11 DEF CronInv, JobsKnown
  <1>18. ASSUME NEW g \in Handler, g = h \/ (hd[g].op \in CronOp /\ hd[g].who = a)
         PROVE  Knows(g)'
    <2>1. CASE g = h
      <3>1. KnowsJob(hd[h], sync[h])'
        BY <1>1, <1>2, <1>3, <1>4, <1>6, <1>8, <1>9, <1>11, <1>13 DEF KnowsJob
      <3>2. KnowsLogin(hd[h])'
        BY <1>5, <1>6, <1>8 DEF KnowsLogin, Recording, Found, Exists
      <3>3. Lone(h)'
        <4>1. sync'[h].alone => Syncs(a)' = {h}
          BY <1>1, <1>3, <1>4, <1>9, <1>12 DEF Lone
        <4>2. ~sync'[h].alone => a \in stale'
          BY <1>1, <1>3, <1>4, <1>9 DEF Lone
        <4> QED BY <1>6, <1>8, <4>1, <4>2, LoneFor
      <3> QED BY <2>1, <3>1, <3>2, <3>3 DEF Knows
    <2>2. CASE g # h
      <3>1. hd'[g] = hd[g] /\ sync'[g] = sync[g] /\ hd[g].who = a /\ ~sync[g].alone /\ a \in stale'
        BY <1>1, <1>3, <1>5, <1>9, <1>18, <2>2, TwoOverlap DEF OthersWait
      <3>2. KnowsJob(hd[g], sync[g]) /\ KnowsLogin(hd[g])
        BY <1>5 DEF CronInv
      <3>3. sync[g].job \in Job /\ job'[sync[g].job] \in {job[sync[g].job], None} /\ kept \subseteq kept'
        BY <1>3, <1>5, <1>11, <1>18, <2>2, <3>2 DEF CronInv, CronTypeOK, KnowsJob
      <3>4. KnowsJob(hd[g], sync[g])'
        <4>1. PICK i : i = sync[g].job
          OBVIOUS
        <4>2. /\ job[i] = None \/ i \in kept => job'[i] = None \/ i \in kept'
              /\ job[i] = None => job'[i] = None
              /\ job'[i] = a => job[i] = a
              /\ job[i] \in {None, a} => job'[i] \in {None, a}
          BY <1>4, <3>3, <4>1, NoneApart
        <4>3. UNCHANGED <<jobIds, user>>
          BY <1>3, <1>5
        <4> QED BY <3>1, <3>2, <4>1, <4>2, <4>3 DEF KnowsJob, Exists
      <3>5. KnowsLogin(hd[g])'
        BY <1>5, <3>1, <3>2 DEF KnowsLogin, Exists
      <3>6. Lone(g)'
        BY <3>1 DEF Lone
      <3> QED BY <3>4, <3>5, <3>6 DEF Knows
    <2> QED BY <2>1, <2>2
  <1>19. RowsKnown(a)'
    <2> SUFFICES ASSUME Exists(a)', a \notin stale', user'[a].sys \notin Excused'
                 PROVE  RowsKnown(a)'
      BY DEF RowsKnown
    <2>1. Exists(a) /\ a \notin stale /\ user[a].sys \notin Excused /\ job' = [job EXCEPT ![j] = None]
      BY <1>3, <1>5 DEF Exists
    <2>2. Syncs(a) = {h}
      BY <1>1, <1>3, <1>4, <2>1 DEF Lone
    <2>3. j \notin Base(a) /\ Jobs(a) = Base(a) \cup {j}
      BY <1>2, <1>3, <1>4, <2>1 DEF RowsKnown
    <2>4. Base(a)' = Base(a)
      BY <1>3, <1>5 DEF Base
    <2>5. Jobs(a)' = Jobs(a) \ {j}
      BY <1>4, <1>5, <1>10, <2>1, NoneApart DEF Jobs, Exists
    <2>6. Jobs(a)' = Base(a)' /\ Syncs(a)' = {h}
      BY <1>12, <2>2, <2>3, <2>4, <2>5
    <2> QED BY <1>9, <2>6 DEF RowsKnown
  <1>20. \A l \in Login : CrontabKnown(l)'
    BY <1>3, CrontabsLeft
  <1> HIDE DEF Knows
  <1> QED BY <1>3, <1>4, <1>14, <1>15, <1>16, <1>17, <1>18, <1>19, <1>20, CronElsewhere

LEMMA CronGivenUp ==
  ASSUME AroundStep, NEW h \in Handler, GiveUp(h)
  PROVE  CronInv'
  <1>1. PICK a : a = hd[h].who
    OBVIOUS
  <1>2. /\ hd[h].op \in CronOp /\ (hd[h].op = "addcron" => sync[h].undoing)
        /\ CronStep(h) /\ EndSync(h) /\ UNCHANGED <<job, jobIds, crontab, kept>>
        /\ stale' = IF hd[h].op = "delcron" THEN stale \cup {a} ELSE stale
    BY <1>1 DEF GiveUp, CronStep
  <1>3. /\ a \in Account /\ h \in Syncs(a) /\ Lone(h) /\ RowsKnown(a) /\ KnowsJob(hd[h], sync[h])
    BY <1>1, <1>2, CronRequest
  <1>4. CronInv /\ UNCHANGED user /\ Excused \subseteq Excused'
    BY <1>2, CronFrame
  <1>5. sync[h].job \in Refused \ kept => job[sync[h].job] # a \/ ~Exists(a)
    BY <1>2, <1>3, NoneApart DEF KnowsJob, CronOp
  <1>6. crontab' \in [Login -> SUBSET Job] /\ stale' \subseteq Account /\ stale \ {a} = stale' \ {a}
        /\ stale \subseteq stale'
    BY <1>2, <1>3, <1>4 DEF CronInv, CronTypeOK
  <1>7. ASSUME Exists(a), a \notin stale', user[a].sys \notin Excused'
        PROVE  Syncs(a) = {h} /\ Jobs(a) = Base(a)'
    <2>1. a \notin stale /\ hd[h].op = "addcron" /\ user[a].sys \notin Excused
      BY <1>2, <1>4, <1>7 DEF CronOp
    <2>2. Syncs(a) = {h}
      BY <1>1, <1>2, <1>3, <2>1 DEF Lone
    <2>3. Jobs(a) = Base(a)
      BY <1>2, <1>3, <1>7, <2>1 DEF RowsKnown
    <2>4. Base(a)' = Base(a)
      BY <1>2, <1>4 DEF Base
    <2> QED BY <2>2, <2>3, <2>4
  <1>8. \A l \in Login : CrontabKnown(l)'
    BY <1>2, CrontabsLeft
  <1> QED BY <1>1, <1>2, <1>5, <1>6, <1>7, <1>8, CronEnds

LEMMA CronKeepsCron ==
  ASSUME AroundStep, NEW h \in Handler, CronStep(h)
  PROVE  CronInv'
  BY CronAdds, CronRemoves, CronListed, CronInstalled, CronTakenBack, CronGivenUp DEF CronStep

-----------------------------------------------------------------------------
(* Cron jobs: beginning, steps of the others, the end of the process *)

LEMMA CronBegins ==
  ASSUME AccountsInit, CronInit
  PROVE  CronInv
  <1>1. /\ job = [j \in Job |-> None] /\ jobIds = {} /\ crontab = [l \in Login |-> {}] /\ kept = {}
        /\ sync = [h \in Handler |-> NoSync] /\ stale = {} /\ mixed = Shared
        /\ \A h \in Handler : hd[h] = NoHandling
    BY DEF CronInit, AccountsInit
  <1>2. \A h \in Handler : hd[h].op \notin CronOp
    BY <1>1, NoneApart
  <1>3. \A a : Jobs(a) = {} \/ a = None
    BY <1>1 DEF Jobs
  <1>4. CronTypeOK
    <2>1. NoSync \in Syncing
      BY DEF NoSync, Syncing
    <2> QED BY <1>1, <2>1 DEF CronTypeOK, Shared
  <1>5. RefusedJobGone /\ JobsKnown
    BY <1>1, NoneApart, JobAssumption DEF RefusedJobGone, JobsKnown
  <1>6. OneEach
    BY <1>1 DEF OneEach, Has, Shared
  <1>7. \A l \in Login : CrontabKnown(l)
    BY <1>1 DEF CrontabKnown
  <1>8. \A h \in Handler : KnowsJob(hd[h], sync[h]) /\ KnowsLogin(hd[h]) /\ Lone(h)
    BY <1>2 DEF KnowsJob, KnowsLogin, Lone, CronOp
  <1>9. \A a \in Account : RowsKnown(a)
    <2> TAKE a \in Account
    <2>1. user[a].sys \in Login \cup {None}
      BY AccountsBegins DEF AccountsInv, AccountsTypeOK, User
    <2>2. Jobs(a) = {} /\ Base(a) = {}
      BY <1>1, <1>3, <2>1, NoneApart DEF Base
    <2>3. Syncs(a) = {}
      BY <1>2 DEF Syncs
    <2> QED BY <2>2, <2>3 DEF RowsKnown
  <1> QED BY <1>4, <1>5, <1>6, <1>7, <1>8, <1>9 DEF CronInv

\* The other components leave all of this alone.
LEMMA CronStays ==
  ASSUME AroundStep, CronApart, UNCHANGED <<user, minted, logins, contested, hd>>
  PROVE  CronInv'
  <1>1. /\ UNCHANGED <<job, jobIds, crontab, sync, kept, stale>> /\ CronInv
        /\ OneEach' /\ mixed \subseteq mixed' /\ mixed' \subseteq Login
    BY MixedGrows DEF CronApart, AroundStep
  <1>2. Excused \subseteq Excused'
    BY <1>1 DEF Excused, Leaving, At
  <1>3. CronTypeOK' /\ RefusedJobGone' /\ JobsKnown'
    BY <1>1 DEF CronInv, CronTypeOK, RefusedJobGone, JobsKnown, Syncs, Exists
  <1>4. \A l \in Login : CrontabKnown(l)'
    BY <1>1, <1>2 DEF CronInv, CrontabKnown, Has
  <1>5. \A h \in Handler : KnowsJob(hd[h], sync[h])' /\ KnowsLogin(hd[h])' /\ Lone(h)'
    BY <1>1, <1>2 DEF CronInv, KnowsJob, KnowsLogin, Lone, Exists, Syncs, Jobs
  <1>6. \A a \in Account : RowsKnown(a)'
    BY <1>1, <1>2 DEF CronInv, RowsKnown, Exists, Syncs, Jobs, Base
  <1> QED BY <1>1, <1>3, <1>4, <1>5, <1>6 DEF CronInv

\* What was under way is kept, stale or muddled from now on, and the rest stands as it is.
LEMMA CronCutShort ==
  ASSUME AroundStep, Interrupted, CronCrash
  PROVE  CronInv'
  <1>1. /\ UNCHANGED <<job, jobIds, crontab, user, minted, logins>> /\ CronInv
        /\ OneEach' /\ mixed \subseteq mixed' /\ mixed' \subseteq Login
        /\ contested \subseteq contested' /\ kept \subseteq kept' /\ stale \subseteq stale'
    BY MixedGrows DEF CronCrash, Interrupted, AroundStep, tables, host
  <1>2. \A h \in Handler : hd'[h] = NoHandling /\ hd'[h].op \notin CronOp
    BY NoneApart DEF Interrupted
  <1>3. \A h \in Handler : /\ hd[h].op = "addcron" => sync[h].job \in kept'
                           /\ hd[h].op \in CronOp => hd[h].who \in stale'
    BY DEF CronCrash
  <1>4. \A a : Syncs(a)' = {}
    BY <1>2 DEF Syncs
  \* A Linux user is let off only if no account has it, nor a crontab.
  <1>5. ASSUME NEW l \in Login, l \in Excused, l \notin Excused'
        PROVE  crontab[l] = {} /\ Has(l) = {}
    <2>1. l \notin Muddled /\ l \notin contested'
      BY <1>5 DEF Excused, AroundStep
    <2>2. PICK g \in Handler : /\ At(g, "delete", "count") \/ At(g, "delete", "userdel")
                               /\ hd[g].row.sys = l
      BY <1>1, <1>5, <2>1 DEF Excused, Leaving
    <2>3. hd[g].who \in Account /\ hd'[g].pc = "idle"
      BY <1>2, <2>2, NoneApart DEF AroundStep, AccountsInv, HandlingOK, Deleting, At
    <2>4. At(g, "delete", "userdel") /\ crontab'[l] = {}
      BY <2>1, <2>2, <2>3 DEF Muddled, At
    <2>5. \A a \in Account : user[a].sys # l
      BY <1>1, <2>1, <2>2, <2>4, RequestOf DEF AroundStep, HandlingInv, At
    <2> QED BY <1>1, <2>4, <2>5 DEF Has
  <1>6. CronTypeOK'
    <2>1. NoSync \in Syncing
      BY DEF NoSync, Syncing
    <2>2. kept' \subseteq Job /\ stale' \subseteq Account
      <3>1. \A h \in Handler : hd[h].op \in CronOp => sync[h].job \in Job /\ hd[h].who \in Account
        BY CronRequest
      <3>2. \A h \in Handler : hd[h].op = "addcron" => hd[h].op \in CronOp
        BY DEF CronOp
      <3>3. kept \subseteq Job /\ stale \subseteq Account
        BY <1>1 DEF CronInv, CronTypeOK
      <3> QED BY <3>1, <3>2, <3>3 DEF CronCrash
    <2> QED BY <1>1, <2>1, <2>2 DEF CronInv, CronTypeOK, CronCrash
  <1>7. RefusedJobGone'
    <2> SUFFICES ASSUME NEW i \in Refused \ kept', NEW b \in Account, job[i] = b, Exists(b)
                 PROVE  FALSE
      BY <1>1 DEF RefusedJobGone, Exists
    <2>1. PICK g \in Syncs(b) : sync[g].job = i
      BY <1>1 DEF CronInv, RefusedJobGone
    <2>2. g \in Handler /\ hd[g].op \in CronOp /\ hd[g].op # "addcron"
      BY <1>3, <2>1 DEF Syncs
    <2>3. job[i] = None
      BY <1>1, <2>1, <2>2 DEF CronInv, KnowsJob, CronOp
    <2> QED BY <2>3, NoneApart
  <1>8. JobsKnown'
    BY <1>1 DEF CronInv, JobsKnown
  <1>9. \A l \in Login : CrontabKnown(l)'
    BY <1>1, <1>5 DEF CronInv, CrontabKnown, Has
  <1>10. \A h \in Handler : KnowsJob(hd[h], sync[h])' /\ KnowsLogin(hd[h])' /\ Lone(h)'
    BY <1>2 DEF KnowsJob, KnowsLogin, Lone, CronOp
  <1>11. ASSUME NEW a \in Account
         PROVE  RowsKnown(a)'
    <2> SUFFICES ASSUME Exists(a), a \notin stale', user[a].sys \notin Excused'
                 PROVE  RowsKnown(a)'
      BY <1>1 DEF RowsKnown, Exists
    <2>1. Syncs(a) = {} /\ a \notin stale
      BY <1>1, <1>3 DEF Syncs
    <2>2. user[a].sys \notin Excused
      <3>1. user[a].sys \in Login => user[a].sys \notin Excused
        BY <1>5 DEF Has
      <3>2. user[a].sys \in Login \cup {None}
        BY DEF AroundStep, AccountsInv, AccountsTypeOK, User
      <3>3. None \notin Excused
        BY NoneNotExcused DEF AroundStep
      <3> QED BY <3>1, <3>2, <3>3
    <2>3. Jobs(a) = Base(a)
      BY <1>1, <2>1, <2>2 DEF CronInv, RowsKnown
    <2>4. Jobs(a)' = Jobs(a) /\ Base(a)' = Base(a)
      BY <1>1 DEF Jobs, Base, Exists
    <2> QED BY <1>4, <2>3, <2>4 DEF RowsKnown
  <1> QED BY <1>1, <1>6, <1>7, <1>8, <1>9, <1>10, <1>11 DEF CronInv

-----------------------------------------------------------------------------
(* Accounts and sites, beside the steps of cron jobs and of all the others *)

\* The request of a step about cron jobs, before and after.
LEMMA CronShape ==
  ASSUME AccountsInv, TenantInv, NEW h \in Handler, CronStep(h)
  PROVE  /\ hd[h].op \in CronOp \/ hd[h].pc = "idle"
         /\ hd'[h].op \in CronOp \cup {None} /\ hd'[h].pc \in {"idle", "tenant", "install", "refused"}
         /\ KnowsTenant(hd'[h])
  <1>1. ASSUME NEW op \in CronOp, NEW a \in Account, NEW j, Exists(a), AskCron(h, op, a, j)
        PROVE  hd[h].pc = "idle" /\ hd'[h].op = op /\ hd'[h].pc = "tenant" /\ KnowsTenant(hd'[h])
    <2>1. PICK x : x = [NoHandling EXCEPT !.op = op, !.who = a, !.row = user[a], !.pc = "tenant"]
      OBVIOUS
    <2>2. x.op = op /\ x.who = a /\ x.row = user[a] /\ x.pc = "tenant"
      BY <2>1 DEF NoHandling
    <2>3. hd'[h] = x /\ hd[h].pc = "idle"
      BY <1>1, <2>1, AskBegins DEF AskCron
    <2>4. a \in minted
      BY <1>1 DEF AccountsInv, Ids
    <2> QED BY <2>2, <2>3, <2>4 DEF KnowsTenant, Recording, Found
  <1>2. CASE \E a \in Account : AddCron(h, a) \/ \E j \in Job : DelCron(h, a, j)
    <2>1. \A a \in Account : AddCron(h, a) => Exists(a) /\ \E j \in Job : AskCron(h, "addcron", a, j)
      BY DEF AddCron
    <2>2. \A a \in Account, j \in Job : DelCron(h, a, j) => Exists(a) /\ AskCron(h, "delcron", a, j)
      BY DEF DelCron, Jobs
    <2> QED BY <1>1, <1>2, <2>1, <2>2 DEF CronOp
  <1>3. CASE CronList(h)
    <2>1. Onto(h, "install") /\ hd[h].pc = "ready" /\ hd[h].op \in CronOp
      BY <1>3, GotoOnto DEF CronList, Pc
    <2> QED BY <2>1, KnowsNow DEF Onto, KnowsTenant, Recording, Found
  <1>4. ASSUME Reply(h), hd[h].op \in CronOp
        PROVE  hd'[h].op = None /\ hd'[h].pc = "idle" /\ KnowsTenant(hd'[h])
    BY <1>4, ReplyEnds, IdleKnows, NoneApart
  <1>5. CASE CronInstall(h)
    <2>1. hd[h].op \in CronOp /\ (Reply(h) \/ Goto(h, "refused"))
      BY <1>5 DEF CronInstall, EndSync
    <2>2. Goto(h, "refused") => Onto(h, "refused")
      BY GotoOnto DEF Pc
    <2> QED BY <1>4, <2>1, <2>2, KnowsNow DEF Onto, KnowsTenant, Recording, Found
  <1>6. CASE TakeBack(h)
    <2>1. PICK a : a = hd[h].who
      OBVIOUS
    <2>2. PICK pc \in {"tenant", "refused"} : pc = IF Exists(a) THEN "tenant" ELSE "refused"
      OBVIOUS
    <2>3. hd[h].op = "addcron" /\ hd' = [hd EXCEPT ![h].pc = pc, ![h].row = user[a]]
      BY <1>6, <2>1, <2>2 DEF TakeBack
    <2>4. hd'[h].op = "addcron" /\ hd'[h].who = a /\ hd'[h].pc = pc /\ hd'[h].row = user[a]
      BY <2>1, <2>3, RequestOf DEF AccountsInv, AccountsTypeOK, Handling
    <2> QED BY <2>1, <2>2, <2>3, <2>4, KnowsNow DEF KnowsTenant, Recording, Found, CronOp
  <1>7. CASE GiveUp(h)
    BY <1>4, <1>7 DEF GiveUp, EndSync
  <1> QED BY <1>2, <1>3, <1>5, <1>6, <1>7 DEF CronStep

LEMMA TenantBesideCron ==
  ASSUME AccountsInv, TenantInv, NEW h \in Handler, CronStep(h)
  PROVE  TenantInv'
  BY CronMoves, CronShape, TenantStep DEF TenantInv

LEMMA SitesBesideCron ==
  ASSUME AccountsInv, TenantInv, SitesInv, NEW h \in Handler, CronStep(h)
  PROVE  SitesInv'
  BY CronMoves, CronShape, SitesLeft, AccountAssumption DEF SameSite, TornDown, At, CronOp, Request

LEMMA TenantStays ==
  ASSUME TenantInv, UNCHANGED <<user, minted, sites, hd>>
  PROVE  TenantInv'
  BY DEF TenantInv, KnowsTenant, Exists

LEMMA SitesStay ==
  ASSUME SitesInv, UNCHANGED <<sites, built, contested, hd>>
  PROVE  SitesInv'
  BY DEF SitesInv, SitesOwned, Creating, TornDown, At

LEMMA TenantCutShort ==
  ASSUME TenantInv, Interrupted
  PROVE  TenantInv'
  <1>1. UNCHANGED <<user, minted, sites>> /\ \A h \in Handler : hd'[h] = NoHandling
    BY DEF Interrupted, tables
  <1> QED BY <1>1, IdleKnows DEF TenantInv, Exists

\* A site that was up and not recorded is contested.
LEMMA SitesCutShort ==
  ASSUME SitesInv, Interrupted
  PROVE  SitesInv'
  <1>1. UNCHANGED <<sites, built>> /\ \A h \in Handler : hd'[h] = NoHandling
    BY DEF Interrupted, tables, host
  <1>2. contested' = contested \cup {hd[h].who : h \in {g \in Handler : At(g, "site", "record")}}
    BY DEF Interrupted
  <1>3. SitesOwned'
    BY <1>1, <1>2 DEF SitesInv, SitesOwned
  <1>4. NoHandling.op # "site" /\ NoHandling.pc = "idle"
    BY AccountAssumption DEF NoHandling, Request
  <1> QED BY <1>1, <1>3, <1>4 DEF SitesInv, Creating, TornDown

-----------------------------------------------------------------------------
(* Files: the invariant *)

Upgrading(a) == \E g \in Handler : hd[g].pc = "upgrade" /\ hd[g].who = a

\* An entry is its account's or the web server's, somebody is about to hand it over, or
\* nobody will any more.
OwnedOrDue(a, p) ==
  \/ tree[a][p].owner \in {user[a].sys, "web"} \/ <<a, p>> \in left \/ Upgrading(a)
  \/ /\ tree[a][p].owner = "root"
     /\ user[a].sys = None \/ \E g \in Handler : fh[g].site = a /\ p \in fh[g].made

TreeInv(a) ==
  /\ a \notin sites /\ (Exists(a) \/ a \notin minted) => \A p \in Entry : ~There(a, p)
  /\ a \in sites => \A p \in Entry : There(a, p) => OwnedOrDue(a, p)

FileInv(x) ==
  /\ x.op # None => x.site \in minted /\ (Exists(x.site) => x.site \in sites)
  /\ x.op = None \/ x.pc = "idle" => x = NoFileHandling
  /\ x.pc = "work" => x.bytes <= MaxBytes /\ x.at >= 1 /\ (x.op \notin {"copy", "unzip"} => x.made = {})
  /\ x.op = "copy" => x.made = Below(x.to)

FilesInv ==
  /\ FilesTypeOK
  /\ \A a \in Account : TreeInv(a)
  /\ \A h \in Handler : FileInv(fh[h])

LEMMA FilesInvImplies ==
  ASSUME AccountsInv, FilesInv
  PROVE  FilesHandedOver
  <1> SUFFICES ASSUME NEW a \in sites, user[a].sys \in logins, NEW p \in Entry, There(a, p),
                      tree[a][p].owner \notin {user[a].sys, "web"}
               PROVE  \/ <<a, p>> \in left
                      \/ \E g \in Handler : fh[g].site = a /\ p \in fh[g].made
                      \/ Upgrading(a)
    BY DEF FilesHandedOver, Upgrading
  <1>1. a \in Account /\ logins \subseteq Login /\ None \notin Login
    BY Untouched, AccountAssumption
  <1>2. OwnedOrDue(a, p)
    BY <1>1 DEF FilesInv, TreeInv
  <1> QED BY <1>1, <1>2 DEF OwnedOrDue

LEMMA FileRequestOf ==
  ASSUME AccountsInv, FilesInv, NEW h \in Handler
  PROVE  /\ fh[h] \in FileHandling /\ FileInv(fh[h]) /\ fh[h].bytes <= MaxBytes + 1
         /\ fh[h].pc # "idle" => fh[h].op # None /\ fh[h].site \in Account
         /\ fh[h].made \subseteq Entry /\ (fh[h].made # {} => fh[h].site \in Account)
  <1>1. fh[h] \in FileHandling /\ FileInv(fh[h]) /\ fh[h].bytes <= MaxBytes + 1
    BY DEF FilesInv, FilesTypeOK
  <1>2. fh[h].op # None => fh[h].site \in Account
    BY <1>1, Untouched DEF FileInv
  <1>3. fh[h].op = None => fh[h].pc = "idle" /\ fh[h].made = {}
    BY <1>1 DEF FileInv, NoFileHandling
  <1> QED BY <1>1, <1>2, <1>3 DEF FileHandling

LEMMA IdleFile == NoFileHandling \in FileHandling /\ FileInv(NoFileHandling) /\ FileInv(NoFileHandling)'
  BY EntryAssumption DEF FileHandling, NoFileHandling, FileInv, FileOp

\* Steps of others, as far as files notice them.
AccountsGoOn ==
  /\ minted \subseteq minted'
  /\ \A a \in Account :
       /\ Exists(a)' => Exists(a) \/ a \notin minted
       /\ a \in sites' => Exists(a)
       /\ a \in sites => a \in sites' \/ ~Exists(a)'
       /\ a \in sites \cap sites' => user'[a].sys = user[a].sys \/ Upgrading(a)'
       /\ Upgrading(a) => Upgrading(a)'

LEMMA FilesStandBy ==
  ASSUME AccountsInv, TenantInv, FilesInv, AccountsGoOn, UNCHANGED fvars
  PROVE  FilesInv'
  <1>1. UNCHANGED <<tree, fh, left>> /\ FilesTypeOK'
    BY DEF fvars, FilesInv, FilesTypeOK
  <1>2. ASSUME NEW a \in Account
        PROVE  TreeInv(a)'
    <2>1. TreeInv(a) /\ (a \in sites => a \in minted /\ Exists(a))
      BY DEF FilesInv, TenantInv, AccountsInv, Ids
    <2>2. ASSUME a \notin sites', Exists(a)' \/ a \notin minted', NEW p \in Entry
          PROVE  ~There(a, p)'
      <3>1. a \notin sites /\ (Exists(a) \/ a \notin minted)
        BY <2>1, <2>2 DEF AccountsGoOn
      <3> QED BY <1>1, <2>1, <3>1 DEF TreeInv, There
    <2>3. ASSUME a \in sites', NEW p \in Entry, There(a, p)'
          PROVE  OwnedOrDue(a, p)'
      <3>1. There(a, p) /\ Exists(a)
        BY <1>1, <2>3 DEF There, AccountsGoOn
      <3>2. a \in sites
        BY <2>1, <3>1 DEF TreeInv
      <3>3. OwnedOrDue(a, p)
        BY <2>1, <3>1, <3>2 DEF TreeInv
      <3>4. Upgrading(a)' \/ (user'[a].sys = user[a].sys /\ ~Upgrading(a))
        BY <2>3, <3>2 DEF AccountsGoOn
      <3> QED BY <1>1, <3>3, <3>4 DEF OwnedOrDue
    <2> QED BY <2>2, <2>3 DEF TreeInv
  <1>3. ASSUME NEW h \in Handler
        PROVE  FileInv(fh[h])'
    <2>1. PICK x : x = fh[h]
      OBVIOUS
    <2>2. FileInv(x) /\ x = fh'[h]
      BY <1>1, <2>1 DEF FilesInv
    <2>3. ASSUME x.op # None
          PROVE  x.site \in minted' /\ (Exists(x.site)' => x.site \in sites')
      <3>1. PICK a : a = x.site
        OBVIOUS
      <3>2. a \in minted /\ a \in Account /\ (Exists(a) => a \in sites)
        BY <2>2, <2>3, <3>1, Untouched DEF FileInv
      <3>3. Exists(a)' => a \in sites'
        BY <3>2 DEF AccountsGoOn
      <3> QED BY <3>1, <3>2, <3>3 DEF AccountsGoOn, Exists
    <2>4. FileInv(x)'
      BY <2>2, <2>3 DEF FileInv
    <2> QED BY <2>2, <2>4
  <1> QED BY <1>1, <1>2, <1>3 DEF FilesInv

\* A request that is not upgrading leaves alone those that are.
LEMMA UpgradesGoOn ==
  ASSUME NEW h \in Handler, OthersWait(h), hd[h].pc # "upgrade"
  PROVE  \A a : Upgrading(a) => Upgrading(a)'
  BY DEF OthersWait, Upgrading

\* Steps that touch no row of an account or a site.
LEMMA RowsStand ==
  ASSUME AccountsInv, TenantInv, NEW h \in Handler, OthersWait(h), hd[h].pc # "upgrade",
         UNCHANGED <<user, minted, sites>>
  PROVE  AccountsGoOn
  <1>1. \A a : Upgrading(a) => Upgrading(a)'
    BY UpgradesGoOn
  <1> QED BY <1>1 DEF AccountsGoOn, TenantInv, Exists

LEMMA InsertGoesOn ==
  ASSUME AccountsInv, TenantInv, NEW h \in Handler, CreateInsert(h)
  PROVE  AccountsGoOn
  <1>1. OthersWait(h) /\ hd[h].pc # "upgrade" /\ UNCHANGED sites
    BY OneMoves DEF CreateInsert, At, AccountStep
  <1>2. CASE UNCHANGED <<user, minted>>
    BY <1>1, <1>2, RowsStand
  <1>3. CASE \E a \in Account \ minted : user' = [user EXCEPT ![a] = hd[h].row] /\ minted' = minted \cup {a}
    <2>1. PICK b \in Account \ minted : user' = [user EXCEPT ![b] = hd[h].row] /\ minted' = minted \cup {b}
      BY <1>3
    <2>2. \A a \in Account : a # b => user'[a] = user[a]
      BY <2>1, Untouched
    <2>3. \A a \in sites : Exists(a) /\ a # b
      BY <2>1 DEF TenantInv, AccountsInv, Ids
    <2>4. \A a : Upgrading(a) => Upgrading(a)'
      BY <1>1, UpgradesGoOn
    <2> QED BY <1>1, <2>1, <2>2, <2>3, <2>4 DEF AccountsGoOn, Exists
  <1> QED BY <1>2, <1>3 DEF CreateInsert

LEMMA DeleteRowGoesOn ==
  ASSUME AccountsInv, TenantInv, NEW h \in Handler, DeleteRow(h)
  PROVE  AccountsGoOn
  <1>1. OthersWait(h) /\ hd[h].pc # "upgrade" /\ UNCHANGED minted
    BY OneMoves DEF DeleteRow, At, AccountStep
  <1>2. CASE UNCHANGED <<user, sites>>
    BY <1>1, <1>2, RowsStand
  <1>3. CASE user' = [user EXCEPT ![hd[h].who] = NoUser] /\ sites' = sites \ {hd[h].who}
    <2>1. PICK b : b = hd[h].who
      OBVIOUS
    <2>2. \A a \in Account : IF a = b THEN user'[a] = NoUser ELSE user'[a] = user[a]
      BY <1>3, <2>1, Untouched
    <2>3. \A a : Upgrading(a) => Upgrading(a)'
      BY <1>1, UpgradesGoOn
    <2> QED BY <1>1, <1>3, <2>1, <2>2, <2>3 DEF AccountsGoOn, Exists, TenantInv
  <1> QED BY <1>2, <1>3 DEF DeleteRow

LEMMA PersistGoesOn ==
  ASSUME AccountsInv, TenantInv, NEW h \in Handler, TenantPersist(h)
  PROVE  AccountsGoOn
  <1>1. OthersWait(h) /\ hd[h].pc # "upgrade" /\ UNCHANGED <<minted, sites>>
    BY OneMoves DEF TenantPersist, AccountStep, Tenant
  <1>2. CASE UNCHANGED user
    BY <1>1, <1>2, RowsStand
  <1>3. CASE /\ user' = IF Exists(hd[h].who) THEN [user EXCEPT ![hd[h].who].sys = hd[h].login] ELSE user
             /\ Goto(h, "upgrade")
    <2>1. PICK b : b = hd[h].who
      OBVIOUS
    <2>2. Onto(h, "upgrade")
      BY <1>3, GotoOnto DEF Pc
    <2>3. Upgrading(b)'
      BY <2>1, <2>2 DEF Onto, Upgrading
    <2>4. \A a \in Account : a # b => user'[a] = user[a]
      BY <1>3, <2>1, Untouched
    <2>5. ~Exists(b) => UNCHANGED user
      BY <1>3, <2>1
    <2>6. \A a : Upgrading(a) => Upgrading(a)'
      BY <1>1, UpgradesGoOn
    <2> QED BY <1>1, <2>3, <2>4, <2>5, <2>6 DEF AccountsGoOn, Exists, TenantInv
  <1> QED BY <1>2, <1>3 DEF TenantPersist

LEMMA RecordGoesOn ==
  ASSUME AccountsInv, TenantInv, NEW h \in Handler, SiteRecord(h)
  PROVE  AccountsGoOn
  <1>1. OthersWait(h) /\ hd[h].pc # "upgrade" /\ UNCHANGED <<user, minted>>
    BY OneMoves DEF SiteRecord, At, AccountStep
  <1>2. \A a \in sites' : Exists(a)
    BY DEF SiteRecord, TenantInv
  <1>3. sites \subseteq sites'
    BY DEF SiteRecord
  <1>4. \A a : Upgrading(a) => Upgrading(a)'
    BY <1>1, UpgradesGoOn
  <1> QED BY <1>1, <1>2, <1>3, <1>4 DEF AccountsGoOn, Exists

LEMMA FilesFollowAccounts ==
  ASSUME AccountsInv, TenantInv, FilesInv, NEW h \in Handler, UNCHANGED fvars,
         \/ AccountRequest(h) \/ AccountStep(h) \/ DeleteObjects(h) \/ DeleteLogin(h)
         \/ CronStep(h)
  PROVE  FilesInv'
  <1>1. ASSUME OthersWait(h), hd[h].pc # "upgrade", UNCHANGED <<user, minted, sites>>
        PROVE  FilesInv'
    BY <1>1, RowsStand, FilesStandBy
  <1>2. CASE CreateInsert(h) \/ DeleteRow(h) \/ TenantPersist(h) \/ SiteRecord(h)
    BY <1>2, InsertGoesOn, DeleteRowGoesOn, PersistGoesOn, RecordGoesOn, FilesStandBy
  <1>3. CASE AccountRequest(h)
    <2>1. hd[h].pc # "upgrade" /\ UNCHANGED <<user, minted, sites>>
      BY <1>3 DEF AccountRequest, CreateUser, DeleteUser, CreateSite, Ask, Busy, tables
    <2> QED BY <1>1, <1>3, <2>1, OneMoves
  <1>4. CASE CreateEnsure(h) \/ DeleteBegin(h) \/ DeleteList(h) \/ DeleteTeardown(h) \/ DeleteCount(h)
             \/ DeleteObjects(h) \/ DeleteLogin(h)
    <2>1. hd[h].pc # "upgrade" /\ UNCHANGED <<user, minted, sites>>
      BY <1>4 DEF CreateEnsure, DeleteBegin, DeleteList, DeleteTeardown, DeleteCount, DeleteObjects,
                  DeleteLogin, At, tables
    <2> QED BY <1>1, <1>4, <2>1, OneMoves DEF AccountStep
  <1>5. CASE SiteBuild(h) \/ TenantLook(h) \/ TenantDerive(h) \/ TenantEnsure(h)
    <2>1. hd[h].pc # "upgrade" /\ UNCHANGED <<user, minted, sites>>
      BY <1>5 DEF SiteBuild, TenantLook, TenantDerive, TenantEnsure, At, tables
    <2> QED BY <1>1, <1>5, <2>1, OneMoves DEF AccountStep, Tenant
  <1>6. CASE CronStep(h)
    <2>1. \A op, a, j : AskCron(h, op, a, j) => hd[h].pc = "idle"
      BY DEF AskCron, Ask, Busy
    <2>2. hd[h].pc \in {"idle", "ready", "install", "refused"}
      BY <1>6, <2>1, Zenon DEF CronStep, AddCron, DelCron, CronList, CronInstall, TakeBack, GiveUp
    <2> QED BY <1>1, <1>6, <2>2, CronMoves
  <1> QED BY <1>2, <1>3, <1>4, <1>5, <1>6 DEF AccountStep, Tenant

-----------------------------------------------------------------------------
(* Files: the steps of one request *)

\* A step at p: the entry gets an owner it may have, goes, or stays as it was.
Rightful(a, p, y) ==
  \/ tree'[a][p].owner \in {user[a].sys, "web"}
  \/ <<a, p>> \in left' \/ Upgrading(a)
  \/ tree'[a][p].owner = "root" /\ (user[a].sys = None \/ (y.site = a /\ p \in y.made))
AsItWas(h, a, p, y) ==
  /\ tree'[a][p] = tree[a][p] /\ (<<a, p>> \in left => <<a, p>> \in left')
  /\ p \in fh[h].made => y.site = a /\ p \in y.made

LEMMA FileWorks ==
  ASSUME AccountsInv, FilesInv, NEW h \in Handler, NEW a \in Account, NEW y \in FileHandling,
         UNCHANGED <<user, minted, sites, hd>>, fh' = [fh EXCEPT ![h] = y],
         FileInv(y), y.bytes <= MaxBytes + 1, fh[h].made # {} => fh[h].site = a,
         a \in minted, Exists(a) => a \in sites,
         tree' \in [Account -> [Entry -> Node]], left' \subseteq Account \X Entry,
         \A b \in Account \ {a} : /\ tree'[b] = tree[b]
                                  /\ \A p \in Entry : <<b, p>> \in left => <<b, p>> \in left',
         \A p \in Entry : a \in sites /\ There(a, p)' => Rightful(a, p, y) \/ AsItWas(h, a, p, y)
  PROVE  FilesInv'
  <1>1. fh'[h] = y /\ \A g \in Handler : g # h => fh'[g] = fh[g]
    BY DEF FilesInv, FilesTypeOK
  <1>2. FilesTypeOK'
    BY <1>1 DEF FilesInv, FilesTypeOK
  <1>3. \A g \in Handler : FileInv(fh'[g])
    BY <1>1 DEF FilesInv
  <1>4. \A g \in Handler : FileInv(fh[g])'
    BY <1>3 DEF FileInv, Exists
  <1>5. \A b : Upgrading(b)' <=> Upgrading(b)
    BY DEF Upgrading
  <1>6. ASSUME NEW p \in Entry, There(a, p)', a \in sites
        PROVE  OwnedOrDue(a, p)'
    <2>1. CASE Rightful(a, p, y)
      BY <1>1, <1>5, <2>1 DEF Rightful, OwnedOrDue
    <2>2. CASE AsItWas(h, a, p, y)
      <3>1. There(a, p)
        BY <1>6, <2>2 DEF AsItWas, There
      <3>2. OwnedOrDue(a, p)
        BY <1>6, <3>1 DEF FilesInv, TreeInv
      <3>3. (\E g \in Handler : fh[g].site = a /\ p \in fh[g].made)
              => \E g \in Handler : fh'[g].site = a /\ p \in fh'[g].made
        BY <1>1, <2>2 DEF AsItWas
      <3> QED BY <1>5, <2>2, <3>2, <3>3 DEF AsItWas, OwnedOrDue
    <2> QED BY <1>6, <2>1, <2>2
  <1>7. TreeInv(a)'
    <2>1. Exists(a)' <=> Exists(a)
      BY DEF Exists
    <2> QED BY <1>6, <2>1 DEF TreeInv
  <1>8. ASSUME NEW b \in Account, b # a
        PROVE  TreeInv(b)'
    <2>1. TreeInv(b) /\ tree'[b] = tree[b] /\ \A p \in Entry : <<b, p>> \in left => <<b, p>> \in left'
      BY <1>8 DEF FilesInv
    <2>2. \A p : There(b, p)' <=> There(b, p)
      BY <2>1 DEF There
    <2>3. \A p \in Entry : (\E g \in Handler : fh[g].site = b /\ p \in fh[g].made)
                             => \E g \in Handler : fh'[g].site = b /\ p \in fh'[g].made
      <3>1. \A p \in Entry, g \in Handler : fh[g].site = b /\ p \in fh[g].made => g # h
        BY <1>8
      <3> QED BY <1>1, <3>1
    <2>4. \A p \in Entry : OwnedOrDue(b, p) => OwnedOrDue(b, p)'
      BY <1>5, <2>1, <2>3 DEF OwnedOrDue
    <2> QED BY <2>1, <2>2, <2>4 DEF TreeInv, Exists
  <1> QED BY <1>2, <1>4, <1>7, <1>8 DEF FilesInv

\* The same of a request at work, or handing over.
LEMMA FileGoesOn ==
  ASSUME AccountsInv, FilesInv, NEW h \in Handler, NEW a, a = fh[h].site, fh[h].pc # "idle",
         NEW y \in FileHandling,
         UNCHANGED <<user, minted, sites, hd>>, fh' = [fh EXCEPT ![h] = y],
         FileInv(y), y.bytes <= MaxBytes + 1,
         tree' \in [Account -> [Entry -> Node]], left' \subseteq Account \X Entry,
         \A b \in Account \ {a} : /\ tree'[b] = tree[b]
                                  /\ \A p \in Entry : <<b, p>> \in left => <<b, p>> \in left',
         \A p \in Entry : a \in sites /\ There(a, p)' => Rightful(a, p, y) \/ AsItWas(h, a, p, y)
  PROVE  FilesInv'
  <1>1. a \in Account /\ a \in minted /\ (Exists(a) => a \in sites)
    BY FileRequestOf DEF FileInv
  <1> QED BY <1>1, FileWorks

\* One tree changes, at one entry or at several.
LEMMA TreeOf ==
  ASSUME FilesInv, NEW a \in Account, NEW t \in [Entry -> Node], tree' = [tree EXCEPT ![a] = t]
  PROVE  /\ tree' \in [Account -> [Entry -> Node]] /\ tree'[a] = t
         /\ \A b \in Account \ {a} : tree'[b] = tree[b]
  BY DEF FilesInv, FilesTypeOK

LEMMA EntryOf ==
  ASSUME FilesInv, NEW a \in Account, NEW p \in Entry, NEW node \in Node, Put(a, p, node)
  PROVE  /\ tree' \in [Account -> [Entry -> Node]] /\ tree'[a][p] = node
         /\ \A b \in Account \ {a} : tree'[b] = tree[b]
         /\ \A q \in Entry \ {p} : tree'[a][q] = tree[a][q]
  BY DEF FilesInv, FilesTypeOK, Put

LEMMA TreeLeft ==
  ASSUME FilesInv, UNCHANGED tree
  PROVE  /\ tree' \in [Account -> [Entry -> Node]]
         /\ \A a \in Account : tree'[a] = tree[a]
  BY DEF FilesInv, FilesTypeOK

LEMMA LeftIs == FilesInv => left \subseteq Account \X Entry
  BY DEF FilesInv, FilesTypeOK

LEMMA FreshIs == \A kind \in {"file", "dir"} : Fresh(kind) \in Node /\ Fresh(kind).owner = "root"
  BY DEF Fresh, Node
LEMMA NoNodeIs == NoNode \in Node /\ NoNode.kind = "none"
  BY DEF NoNode, Node

LEMMA ForsakeIs ==
  ASSUME FilesInv, NEW h \in Handler, NEW a \in Account, a = fh[h].site, NEW P \in SUBSET Entry, Forsake(h, P)
  PROVE  /\ left' \subseteq Account \X Entry /\ left \subseteq left'
         /\ \A p \in P : <<a, p>> \in left'
  BY DEF FilesInv, FilesTypeOK, Forsake


LEMMA AskFileKeeps ==
  ASSUME AccountsInv, TenantInv, FilesInv, NEW h \in Handler, AskFile(h),
         UNCHANGED <<user, minted, sites, hd>>
  PROVE  FilesInv'
  <1>1. ASSUME NEW a \in sites, NEW new, NEW op \in FileOp,
               OpenFS(h, a, [new EXCEPT !.op = op]),
               new \in FileHandling, new.bytes = 0, new.at = 1,
               op \notin {"copy", "unzip"} => new.made = {}, op = "copy" => new.made = Below(new.to)
        PROVE  FilesInv'
    <2>1. PICK byServer \in BOOLEAN :
            fh' = [fh EXCEPT ![h] = [[new EXCEPT !.op = op] EXCEPT !.site = a, !.server = byServer, !.pc = "work"]]
      BY <1>1 DEF OpenFS
    <2>2. PICK y : y = [[new EXCEPT !.op = op] EXCEPT !.site = a, !.server = byServer, !.pc = "work"]
      OBVIOUS
    <2>3. a \in Account /\ a \in minted
      BY Untouched DEF TenantInv, AccountsInv, Ids
    <2>4. /\ y \in FileHandling /\ y.op = op /\ y.site = a /\ y.pc = "work" /\ y.made = new.made
          /\ y.bytes = 0 /\ y.at = 1 /\ y.to = new.to
      BY <1>1, <2>2, <2>3 DEF FileHandling
    <2>5. op # None /\ 0 <= MaxBytes /\ 0 <= MaxBytes + 1
      BY EntryAssumption
    <2>6. FileInv(y)
      BY <1>1, <2>3, <2>4, <2>5 DEF FileInv
    <2>7. fh[h] = NoFileHandling /\ fh[h].made = {}
      BY <1>1 DEF OpenFS, NoFileHandling
    <2>8. UNCHANGED <<tree, left>>
      BY <1>1 DEF OpenFS
    <2>9. \A p \in Entry : AsItWas(h, a, p, y)
      BY <2>7, <2>8 DEF AsItWas
    <2>10. fh' = [fh EXCEPT ![h] = y]
      BY <2>1, <2>2
    <2> QED BY <2>3, <2>4, <2>5, <2>6, <2>7, <2>8, <2>9, <2>10, FileWorks, TreeLeft, LeftIs
  <1>2. PICK a \in sites, p \in Entry, q \in Entry \cup {<<>>} :
    LET new == [NoFileHandling EXCEPT !.from = p, !.to = q] IN
    \/ q = <<>> /\ \E op \in {"put", "remove", "own"} : OpenFS(h, a, [new EXCEPT !.op = op])
    \/ q \in Entry \ {p} /\ OpenFS(h, a, [new EXCEPT !.op = "rename"])
    \/ /\ q \in Entry \ Below(p)
       /\ OpenFS(h, a, [new EXCEPT !.op = "copy", !.todo = {<<>>}, !.made = Below(q)])
    \/ q \in Entry \ {p} /\ Parent(q) = Parent(p) /\ OpenFS(h, a, [new EXCEPT !.op = "zip"])
    \/ /\ q = Parent(p) /\ tree[a][p].kind = "file"
       /\ \E arc \in Archives : OpenFS(h, a, [new EXCEPT !.op = "unzip", !.archive = arc])
    BY DEF AskFile
  <1>3. PICK new : new = [NoFileHandling EXCEPT !.from = p, !.to = q]
    OBVIOUS
  <1>4. /\ new \in FileHandling /\ new.bytes = 0 /\ new.at = 1 /\ new.made = {} /\ new.to = q
    BY <1>3, IdleFile DEF NoFileHandling, FileHandling
  <1>5. CASE \E op \in {"put", "remove", "own", "rename", "zip"} : OpenFS(h, a, [new EXCEPT !.op = op])
    BY <1>1, <1>4, <1>5 DEF FileOp
  <1>6. CASE OpenFS(h, a, [new EXCEPT !.op = "copy", !.todo = {<<>>}, !.made = Below(q)])
    <2>1. PICK x : x = [new EXCEPT !.todo = {<<>>}, !.made = Below(q)]
      OBVIOUS
    <2>2. /\ x \in FileHandling /\ x.bytes = 0 /\ x.at = 1 /\ x.to = q /\ x.made = Below(q)
      <3>1. {<<>>} \subseteq Relative /\ Below(q) \subseteq Entry
        BY DEF Relative, Below
      <3> QED BY <1>4, <2>1, <3>1 DEF FileHandling
    <2>3. [new EXCEPT !.op = "copy", !.todo = {<<>>}, !.made = Below(q)] = [x EXCEPT !.op = "copy"]
      BY <1>4, <2>1 DEF FileHandling
    <2> QED BY <1>1, <1>6, <2>2, <2>3 DEF FileOp
  <1>7. CASE \E arc \in Archives : OpenFS(h, a, [new EXCEPT !.op = "unzip", !.archive = arc])
    <2>1. PICK arc \in Archives : OpenFS(h, a, [new EXCEPT !.op = "unzip", !.archive = arc])
      BY <1>7
    <2>2. PICK x : x = [new EXCEPT !.archive = arc]
      OBVIOUS
    <2>3. x \in FileHandling /\ x.bytes = 0 /\ x.at = 1 /\ x.made = {}
      BY <1>4, <2>2 DEF FileHandling
    <2>4. [new EXCEPT !.op = "unzip", !.archive = arc] = [x EXCEPT !.op = "unzip"]
      BY <1>4, <2>2 DEF FileHandling
    <2> QED BY <1>1, <2>1, <2>3, <2>4 DEF FileOp
  <1> QED BY <1>2, <1>3, <1>5, <1>6, <1>7

\* A request that is over, whatever it did to one entry, to several or to none.
LEMMA FileEnds ==
  ASSUME AccountsInv, FilesInv, NEW h \in Handler, NEW a, a = fh[h].site, fh[h].pc # "idle",
         UNCHANGED <<user, minted, sites, hd>>, FileReply(h),
         tree' \in [Account -> [Entry -> Node]], left' \subseteq Account \X Entry,
         \A b \in Account \ {a} : /\ tree'[b] = tree[b]
                                  /\ \A p \in Entry : <<b, p>> \in left => <<b, p>> \in left',
         \A p \in Entry : a \in sites /\ There(a, p)' => Rightful(a, p, NoFileHandling) \/ AsItWas(h, a, p, NoFileHandling)
  PROVE  FilesInv'
  <1>1. fh' = [fh EXCEPT ![h] = NoFileHandling] /\ NoFileHandling.bytes <= MaxBytes + 1
    BY EntryAssumption DEF FileReply, NoFileHandling
  <1> QED BY <1>1, IdleFile, FileGoesOn

\* A request whose work is done.
LEMMA FileHands ==
  ASSUME AccountsInv, FilesInv, NEW h \in Handler, NEW a, a = fh[h].site, fh[h].pc = "work",
         fh[h].made = {}, fh[h].op # "copy", NEW y \in FileHandling,
         y.op = fh[h].op, y.pc = "hand", y.site = a, y.bytes = fh[h].bytes,
         UNCHANGED <<user, minted, sites, hd>>, fh' = [fh EXCEPT ![h] = y],
         tree' \in [Account -> [Entry -> Node]], left' = left,
         \A b \in Account \ {a} : tree'[b] = tree[b],
         \A p \in Entry : Rightful(a, p, y) \/ AsItWas(h, a, p, y)
  PROVE  FilesInv'
  <1>1. FileInv(y) /\ y.bytes <= MaxBytes + 1
    BY FileRequestOf DEF FileInv
  <1> QED BY <1>1, LeftIs, FileGoesOn

LEMMA MadeOne ==
  ASSUME AccountsInv, FilesInv, NEW h \in Handler, NEW p \in Entry,
         fh' = [fh EXCEPT ![h].pc = "hand", ![h].made = {p}]
  PROVE  \E y \in FileHandling :
           /\ fh' = [fh EXCEPT ![h] = y] /\ y.op = fh[h].op /\ y.pc = "hand" /\ y.site = fh[h].site
           /\ y.bytes = fh[h].bytes /\ y.made = {p}
  <1>1. PICK y : y = [fh[h] EXCEPT !.pc = "hand", !.made = {p}]
    OBVIOUS
  <1>2. /\ y \in FileHandling /\ y.op = fh[h].op /\ y.pc = "hand" /\ y.site = fh[h].site
        /\ y.bytes = fh[h].bytes /\ y.made = {p}
    BY <1>1, FileRequestOf DEF FileHandling
  <1>3. fh' = [fh EXCEPT ![h] = y]
    BY <1>1
  <1> QED BY <1>2, <1>3

\* A request that leaves everything as it is.
LEMMA FileGivesUp ==
  ASSUME AccountsInv, FilesInv, NEW h \in Handler, fh[h].pc = "work", fh[h].made = {},
         UNCHANGED <<user, minted, sites, hd>>, FileReply(h), UNCHANGED <<tree, left>>
  PROVE  FilesInv'
  <1>1. PICK a : a = fh[h].site
    OBVIOUS
  <1>2. \A p \in Entry : AsItWas(h, a, p, NoFileHandling)
    BY DEF AsItWas
  <1> QED BY <1>1, <1>2, FileEnds, TreeLeft, LeftIs

LEMMA PutEntryKeeps ==
  ASSUME AccountsInv, FilesInv, NEW h \in Handler, PutEntry(h), UNCHANGED <<user, minted, sites, hd>>
  PROVE  FilesInv'
  <1>1. PICK a, p : a = fh[h].site /\ p = fh[h].from
    OBVIOUS
  <1>2. fh[h].pc = "work" /\ fh[h].op = "put" /\ fh[h].made = {} /\ a \in Account
    BY <1>1, FileRequestOf DEF PutEntry, FileAt, FileInv
  <1>3. CASE /\ Room(a, p) /\ \E kind \in {"file", "dir"} : Put(a, p, Fresh(kind))
             /\ fh' = [fh EXCEPT ![h].pc = "hand", ![h].made = {p}] /\ UNCHANGED left
    <2>1. PICK kind \in {"file", "dir"} : Put(a, p, Fresh(kind))
      BY <1>3
    <2>2. p \in Entry
      BY <1>3 DEF Room
    <2>3. /\ tree' \in [Account -> [Entry -> Node]] /\ tree'[a][p].owner = "root"
          /\ \A b \in Account \ {a} : tree'[b] = tree[b]
          /\ \A q \in Entry \ {p} : tree'[a][q] = tree[a][q]
      BY <1>2, <2>1, <2>2, EntryOf, FreshIs
    <2>4. PICK y \in FileHandling : 
            /\ fh' = [fh EXCEPT ![h] = y] /\ y.op = fh[h].op /\ y.pc = "hand" /\ y.site = fh[h].site
            /\ y.bytes = fh[h].bytes /\ y.made = {p}
      BY <1>3, <2>2, MadeOne
    <2>5. \A q \in Entry : Rightful(a, q, y) \/ AsItWas(h, a, q, y)
      BY <1>1, <1>2, <1>3, <2>3, <2>4 DEF Rightful, AsItWas
    <2>6. left' = left /\ fh[h].op # "copy"
      BY <1>2, <1>3
    <2> QED BY <1>1, <1>2, <2>3, <2>4, <2>5, <2>6, FileHands
  <1>4. CASE There(a, p) /\ fh' = [fh EXCEPT ![h].pc = "hand", ![h].made = {p}] /\ UNCHANGED <<tree, left>>
    <2>1. p \in Entry
      BY <1>4 DEF There
    <2>2. PICK y \in FileHandling : 
            /\ fh' = [fh EXCEPT ![h] = y] /\ y.op = fh[h].op /\ y.pc = "hand" /\ y.site = fh[h].site
            /\ y.bytes = fh[h].bytes /\ y.made = {p}
      BY <1>4, <2>1, MadeOne
    <2>3. \A q \in Entry : AsItWas(h, a, q, y)
      BY <1>2, <1>4 DEF AsItWas
    <2> QED BY <1>1, <1>2, <1>4, <2>2, <2>3, FileHands, TreeLeft
  <1>5. CASE Room(a, p) /\ Put(a, p, Fresh("file")) /\ Forsake(h, {p}) /\ FileReply(h)
    <2>1. p \in Entry
      BY <1>5 DEF Room
    <2>2. /\ tree' \in [Account -> [Entry -> Node]]
          /\ \A b \in Account \ {a} : tree'[b] = tree[b]
          /\ \A q \in Entry \ {p} : tree'[a][q] = tree[a][q]
      BY <1>2, <1>5, <2>1, EntryOf, FreshIs
    <2>3. left' \subseteq Account \X Entry /\ left \subseteq left' /\ <<a, p>> \in left'
      BY <1>1, <1>2, <1>5, <2>1, ForsakeIs
    <2>4. \A q \in Entry : Rightful(a, q, NoFileHandling) \/ AsItWas(h, a, q, NoFileHandling)
      BY <1>2, <2>2, <2>3 DEF Rightful, AsItWas
    <2> QED BY <1>1, <1>2, <1>5, <2>2, <2>3, <2>4, FileEnds
  <1>6. CASE FileReply(h) /\ UNCHANGED <<tree, left>>
    BY <1>2, <1>6, FileGivesUp
  <1> QED BY <1>1, <1>3, <1>4, <1>5, <1>6 DEF PutEntry

LEMMA ZipEntriesKeeps ==
  ASSUME AccountsInv, FilesInv, NEW h \in Handler, ZipEntries(h), UNCHANGED <<user, minted, sites, hd>>
  PROVE  FilesInv'
  <1>1. PICK a, z : a = fh[h].site /\ z = fh[h].to
    OBVIOUS
  <1>2. fh[h].pc = "work" /\ fh[h].op = "zip" /\ fh[h].made = {} /\ a \in Account
    BY <1>1, FileRequestOf DEF ZipEntries, FileAt, FileInv
  <1>3. ASSUME Room(a, z), Put(a, z, Fresh("file"))
        PROVE  /\ z \in Entry /\ tree' \in [Account -> [Entry -> Node]] /\ tree'[a][z].owner = "root"
               /\ \A b \in Account \ {a} : tree'[b] = tree[b]
               /\ \A q \in Entry \ {z} : tree'[a][q] = tree[a][q]
    <2>1. z \in Entry
      BY <1>3 DEF Room
    <2> QED BY <1>2, <1>3, <2>1, EntryOf, FreshIs
  <1>4. CASE Room(a, z) /\ Put(a, z, Fresh("file"))
             /\ fh' = [fh EXCEPT ![h].pc = "hand", ![h].made = {z}] /\ UNCHANGED left
    <2>1. PICK y \in FileHandling : 
            /\ fh' = [fh EXCEPT ![h] = y] /\ y.op = fh[h].op /\ y.pc = "hand" /\ y.site = fh[h].site
            /\ y.bytes = fh[h].bytes /\ y.made = {z}
      BY <1>3, <1>4, MadeOne
    <2>2. \A q \in Entry : Rightful(a, q, y) \/ AsItWas(h, a, q, y)
      BY <1>1, <1>2, <1>3, <1>4, <2>1 DEF Rightful, AsItWas
    <2>3. left' = left /\ fh[h].op # "copy" /\ tree' \in [Account -> [Entry -> Node]]
          /\ \A b \in Account \ {a} : tree'[b] = tree[b]
      BY <1>2, <1>3, <1>4
    <2> QED BY <1>1, <1>2, <2>1, <2>2, <2>3, FileHands
  <1>5. CASE Room(a, z) /\ Put(a, z, Fresh("file")) /\ Forsake(h, {z}) /\ FileReply(h)
    <2>1. left' \subseteq Account \X Entry /\ left \subseteq left' /\ <<a, z>> \in left'
      BY <1>1, <1>2, <1>3, <1>5, ForsakeIs
    <2>2. \A q \in Entry : Rightful(a, q, NoFileHandling) \/ AsItWas(h, a, q, NoFileHandling)
      BY <1>2, <1>3, <1>5, <2>1 DEF Rightful, AsItWas
    <2> QED BY <1>1, <1>2, <1>3, <1>5, <2>1, <2>2, FileEnds
  <1>6. CASE FileReply(h) /\ UNCHANGED <<tree, left>>
    BY <1>2, <1>6, FileGivesUp
  <1> QED BY <1>1, <1>4, <1>5, <1>6 DEF ZipEntries

LEMMA DeleteEntryKeeps ==
  ASSUME AccountsInv, FilesInv, NEW h \in Handler, DeleteEntry(h), UNCHANGED <<user, minted, sites, hd>>
  PROVE  FilesInv'
  <1>1. PICK a, gone : a = fh[h].site /\ gone = Below(fh[h].from)
    OBVIOUS
  <1>2. fh[h].pc = "work" /\ fh[h].op = "remove" /\ fh[h].made = {} /\ a \in Account /\ FileReply(h)
    BY <1>1, FileRequestOf DEF DeleteEntry, FileAt, FileInv
  <1>3. CASE /\ tree' = [tree EXCEPT ![a] = [x \in Entry |-> IF x \in gone THEN NoNode ELSE @[x]]]
             /\ left' = left \ ({a} \X gone)
    <2>1. PICK t : t = [x \in Entry |-> IF x \in gone THEN NoNode ELSE tree[a][x]]
      OBVIOUS
    <2>2. t \in [Entry -> Node] /\ tree' = [tree EXCEPT ![a] = t]
      BY <1>2, <1>3, <2>1, NoNodeIs DEF FilesInv, FilesTypeOK
    <2>3. /\ tree' \in [Account -> [Entry -> Node]] /\ tree'[a] = t
          /\ \A b \in Account \ {a} : tree'[b] = tree[b]
      BY <1>2, <2>2, TreeOf
    <2>4. ASSUME NEW p \in Entry, There(a, p)'
          PROVE  AsItWas(h, a, p, NoFileHandling)
      <3>1. p \notin gone
        BY <2>1, <2>3, <2>4, NoNodeIs DEF There
      <3> QED BY <1>2, <1>3, <2>1, <2>3, <3>1 DEF AsItWas
    <2>5. left' \subseteq Account \X Entry /\ \A b \in Account \ {a} : \A p \in Entry : <<b, p>> \in left => <<b, p>> \in left'
      BY <1>3, LeftIs
    <2> QED BY <1>1, <1>2, <2>3, <2>4, <2>5, FileEnds
  <1>4. CASE UNCHANGED <<tree, left>>
    BY <1>2, <1>4, FileGivesUp
  <1> QED BY <1>1, <1>3, <1>4 DEF DeleteEntry

LEMMA ChownEntryKeeps ==
  ASSUME AccountsInv, FilesInv, NEW h \in Handler, ChownEntry(h), UNCHANGED <<user, minted, sites, hd>>
  PROVE  FilesInv'
  <1>1. PICK a, p : a = fh[h].site /\ p = fh[h].from
    OBVIOUS
  <1>2. fh[h].pc = "work" /\ fh[h].op = "own" /\ fh[h].made = {} /\ a \in Account /\ FileReply(h)
    BY <1>1, FileRequestOf DEF ChownEntry, FileAt, FileInv
  <1>3. CASE There(a, p) /\ \E o \in Owners(h) \cap (logins \cup {"root", "web"}) :
             /\ tree' = [tree EXCEPT ![a][p].owner = o]
             /\ left' = IF fh[h].server THEN left \cup {<<a, p>>} ELSE left \ {<<a, p>>}
    <2>1. PICK o \in Owners(h) \cap (logins \cup {"root", "web"}) :
             /\ tree' = [tree EXCEPT ![a][p].owner = o]
             /\ left' = IF fh[h].server THEN left \cup {<<a, p>>} ELSE left \ {<<a, p>>}
      BY <1>3
    <2>2. p \in Entry /\ tree[a][p] \in Node
      BY <1>2, <1>3 DEF There, FilesInv, FilesTypeOK
    <2>3. PICK node : node = [tree[a][p] EXCEPT !.owner = o]
      OBVIOUS
    <2>4. node \in Node /\ node.owner = o
      BY <2>1, <2>2, <2>3, Untouched DEF Node
    <2>5. Put(a, p, node)
      BY <2>1, <2>3 DEF Put
    <2>6. /\ tree' \in [Account -> [Entry -> Node]] /\ tree'[a][p] = node
          /\ \A b \in Account \ {a} : tree'[b] = tree[b]
          /\ \A q \in Entry \ {p} : tree'[a][q] = tree[a][q]
      BY <1>2, <2>2, <2>4, <2>5, EntryOf
    <2>7. left' \subseteq Account \X Entry
      BY <1>2, <2>1, <2>2, LeftIs
    <2>8. Rightful(a, p, NoFileHandling)
      BY <1>1, <2>1, <2>4, <2>6 DEF Rightful, Owners
    <2>9. \A q \in Entry \ {p} : AsItWas(h, a, q, NoFileHandling)
      BY <1>2, <2>1, <2>6 DEF AsItWas
    <2>10. \A b \in Account \ {a} : \A q \in Entry : <<b, q>> \in left => <<b, q>> \in left'
      BY <2>1
    <2> QED BY <1>1, <1>2, <2>6, <2>7, <2>8, <2>9, <2>10, FileEnds
  <1>4. CASE UNCHANGED <<tree, left>>
    BY <1>2, <1>4, FileGivesUp
  <1> QED BY <1>1, <1>3, <1>4 DEF ChownEntry

LEMMA HandOverKeeps ==
  ASSUME AccountsInv, FilesInv, NEW h \in Handler, HandOver(h), UNCHANGED <<user, minted, sites, hd>>
  PROVE  FilesInv'
  <1>1. PICK a, l, P : a = fh[h].site /\ l = user[a].sys /\ P = {p \in fh[h].made : There(a, p)}
    OBVIOUS
  <1>2. fh[h].pc = "hand" /\ a \in Account /\ FileReply(h) /\ P \subseteq Entry
    BY <1>1, FileRequestOf DEF HandOver
  <1>3. CASE /\ l \in logins /\ left' = left \ ({a} \X P)
             /\ tree' = [tree EXCEPT ![a] = [p \in Entry |-> IF p \in P THEN [@[p] EXCEPT !.owner = l]
                                                             ELSE @[p]]]
    <2>1. PICK t : t = [p \in Entry |-> IF p \in P THEN [tree[a][p] EXCEPT !.owner = l] ELSE tree[a][p]]
      OBVIOUS
    <2>2. \A p \in Entry : tree[a][p] \in Node
      BY <1>2 DEF FilesInv, FilesTypeOK
    <2>3. l \in Login
      BY <1>3, Untouched
    <2>4. \A p \in Entry : [tree[a][p] EXCEPT !.owner = l] \in Node /\ [tree[a][p] EXCEPT !.owner = l].owner = l
      BY <2>2, <2>3 DEF Node
    <2>5. t \in [Entry -> Node] /\ \A p \in P : t[p].owner = l
      BY <1>2, <2>1, <2>2, <2>4
    <2>6. tree' = [tree EXCEPT ![a] = t]
      BY <1>2, <1>3, <2>1 DEF FilesInv, FilesTypeOK
    <2>7. /\ tree' \in [Account -> [Entry -> Node]] /\ tree'[a] = t
          /\ \A b \in Account \ {a} : tree'[b] = tree[b]
      BY <1>2, <2>5, <2>6, TreeOf
    <2>8. left' \subseteq Account \X Entry /\ \A b \in Account \ {a} : \A p \in Entry : <<b, p>> \in left => <<b, p>> \in left'
      BY <1>3, LeftIs
    <2>9. ASSUME NEW p \in Entry, There(a, p)'
          PROVE  Rightful(a, p, NoFileHandling) \/ AsItWas(h, a, p, NoFileHandling)
      <3>1. CASE p \in P
        BY <1>1, <2>5, <2>7, <3>1 DEF Rightful
      <3>2. CASE p \notin P
        <4>1. tree'[a][p] = tree[a][p]
          BY <2>1, <2>7, <3>2
        <4>2. p \notin fh[h].made
          BY <1>1, <2>9, <3>2, <4>1 DEF There
        <4> QED BY <1>3, <3>2, <4>1, <4>2 DEF AsItWas
      <3> QED BY <3>1, <3>2
    <2> QED BY <1>1, <1>2, <2>7, <2>8, <2>9, FileEnds
  <1>4. CASE Exists(a) /\ l = None /\ UNCHANGED <<tree, left>>
    <2>1. ASSUME NEW p \in Entry, There(a, p)'
          PROVE  Rightful(a, p, NoFileHandling) \/ AsItWas(h, a, p, NoFileHandling)
      <3>1. a \in sites /\ There(a, p)
        BY <1>1, <1>2, <1>4, <2>1, FileRequestOf DEF FileInv, There
      <3>2. OwnedOrDue(a, p)
        BY <1>2, <3>1 DEF FilesInv, TreeInv
      <3> QED BY <1>1, <1>4, <3>2 DEF Rightful, OwnedOrDue
    <2> QED BY <1>1, <1>2, <1>4, <2>1, FileEnds, TreeLeft, LeftIs
  <1>5. CASE Forsake(h, P) /\ UNCHANGED tree
    <2>1. left' \subseteq Account \X Entry /\ left \subseteq left' /\ \A p \in P : <<a, p>> \in left'
      BY <1>1, <1>2, <1>5, ForsakeIs
    <2>2. ASSUME NEW p \in Entry, There(a, p)'
          PROVE  Rightful(a, p, NoFileHandling) \/ AsItWas(h, a, p, NoFileHandling)
      <3>1. There(a, p)
        BY <1>5, <2>2 DEF There
      <3>2. CASE p \in P
        BY <2>1, <3>2 DEF Rightful
      <3>3. CASE p \notin fh[h].made
        BY <1>5, <2>1, <3>3 DEF AsItWas
      <3> QED BY <1>1, <3>1, <3>2, <3>3
    <2> QED BY <1>1, <1>2, <1>5, <2>1, <2>2, FileEnds, TreeLeft
  <1> QED BY <1>1, <1>3, <1>4, <1>5 DEF HandOver

\* rename(2): what goes with the old name comes with the new one.
LEMMA RenameEntryKeeps ==
  ASSUME AccountsInv, FilesInv, NEW h \in Handler, RenameEntry(h), UNCHANGED <<user, minted, sites, hd>>
  PROVE  FilesInv'
  <1>1. PICK a, p, q : a = fh[h].site /\ p = fh[h].from /\ q = fh[h].to
    OBVIOUS
  <1> DEFINE to(x) == q \o SubSeq(x, Len(p) + 1, Len(x))
             moved == {x \in Below(p) : There(a, x)}
             making == {x \in moved : \E g \in Handler : fh[g].site = a /\ x \in fh[g].made}
             Renamed(b, o, n) ==
               LET into(x) == n \o SubSeq(x, Len(o) + 1, Len(x))
                   those == {x \in Below(o) : There(b, x)}
                   due == {x \in those : \E g \in Handler : fh[g].site = b /\ x \in fh[g].made}
               IN
               /\ \A x \in those : into(x) \in Entry
               /\ tree' = [tree EXCEPT ![b] =
                    [x \in Entry |-> IF \E y \in those : into(y) = x THEN @[CHOOSE y \in those : into(y) = x]
                                     ELSE IF x \in those THEN NoNode ELSE @[x]]]
               /\ left' = (left \ ({b} \X (those \cup {into(x) : x \in those})))
                          \cup {<<b, into(x)>> : x \in due \cup {y \in those : <<b, y>> \in left}}
  <1>2. fh[h].pc = "work" /\ fh[h].op = "rename" /\ fh[h].made = {} /\ a \in Account /\ FileReply(h)
    BY <1>1, FileRequestOf DEF RenameEntry, FileAt, FileInv
  <1>3. CASE UNCHANGED <<tree, left>>
    BY <1>2, <1>3, FileGivesUp
  <1>4. CASE Renamed(a, p, q)
    <2>0. /\ \A x \in moved : to(x) \in Entry
          /\ tree' = [tree EXCEPT ![a] =
               [x \in Entry |-> IF \E y \in moved : to(y) = x THEN @[CHOOSE y \in moved : to(y) = x]
                                ELSE IF x \in moved THEN NoNode ELSE @[x]]]
          /\ left' = (left \ ({a} \X (moved \cup {to(x) : x \in moved})))
                     \cup {<<a, to(x)>> : x \in making \cup {y \in moved : <<a, y>> \in left}}
      BY <1>4
    <2>1. PICK t : t = [x \in Entry |-> IF \E y \in moved : to(y) = x THEN tree[a][CHOOSE y \in moved : to(y) = x]
                                        ELSE IF x \in moved THEN NoNode ELSE tree[a][x]]
      OBVIOUS
    <2>2. moved \subseteq Entry /\ making \subseteq moved
      BY DEF Below
    <2>3. tree' = [tree EXCEPT ![a] = t]
      BY <1>2, <2>0, <2>1 DEF FilesInv, FilesTypeOK
    <2> HIDE DEF moved, making, to
    <2>4. \A x \in Entry : IF \E y \in moved : to(y) = x THEN \E y \in moved : to(y) = x /\ t[x] = tree[a][y]
                           ELSE t[x] = IF x \in moved THEN NoNode ELSE tree[a][x]
      BY <2>1
    <2>5. t \in [Entry -> Node]
      <3>1. \A x \in Entry : tree[a][x] \in Node
        BY <1>2 DEF FilesInv, FilesTypeOK
      <3>2. \A x \in Entry : t[x] \in Node
        BY <2>2, <2>4, <3>1, NoNodeIs
      <3> QED BY <2>1, <3>2
    <2>6. /\ tree' \in [Account -> [Entry -> Node]] /\ tree'[a] = t
          /\ \A b \in Account \ {a} : tree'[b] = tree[b]
      BY <1>2, <2>3, <2>5, TreeOf
    <2>7. left' \subseteq Account \X Entry /\ \A b \in Account \ {a} : \A x \in Entry : <<b, x>> \in left => <<b, x>> \in left'
      <3>1. \A x \in making \cup {y \in moved : <<a, y>> \in left} : to(x) \in Entry
        BY <2>2, <2>0
      <3>2. \A e \in left' : e \in left \/ \E x \in making \cup {y \in moved : <<a, y>> \in left} : e = <<a, to(x)>>
        BY <2>0
      <3>3. \A b \in Account \ {a} : \A x \in Entry : <<b, x>> \in left => <<b, x>> \in left'
        BY <2>0
      <3>4. \A e \in left' : e \in left \/ \E x \in Entry : e = <<a, x>>
        BY <3>1, <3>2
      <3>5. left' \subseteq Account \X Entry
        BY <1>2, <3>4, LeftIs
      <3> QED BY <3>3, <3>5
    <2>8. ASSUME NEW x \in Entry, a \in sites, There(a, x)'
          PROVE  Rightful(a, x, NoFileHandling) \/ AsItWas(h, a, x, NoFileHandling)
      <3>1. CASE \E y \in moved : to(y) = x
        <4>1. PICK y \in moved : to(y) = x /\ t[x] = tree[a][y]
          BY <2>4, <3>1
        <4>2. y \in Entry /\ There(a, y)
          BY <2>2 DEF moved
        <4>3. OwnedOrDue(a, y)
          BY <1>2, <2>8, <4>2 DEF FilesInv, TreeInv
        <4>4. <<a, y>> \in left => <<a, x>> \in left'
          BY <2>0, <4>1
        <4>5. (\E g \in Handler : fh[g].site = a /\ y \in fh[g].made) => <<a, x>> \in left'
          <5>1. (\E g \in Handler : fh[g].site = a /\ y \in fh[g].made) => y \in making
            BY DEF making
          <5> QED BY <2>0, <4>1, <5>1
        <4> QED BY <2>6, <4>1, <4>3, <4>4, <4>5 DEF OwnedOrDue, Rightful
      <3>2. CASE ~ \E y \in moved : to(y) = x
        <4>1. x \notin moved /\ tree'[a][x] = tree[a][x]
          BY <2>4, <2>6, <2>8, <3>2, NoNodeIs DEF There
        <4>2. <<a, x>> \in left => <<a, x>> \in left'
          BY <2>0, <3>2, <4>1
        <4> QED BY <1>2, <4>1, <4>2 DEF AsItWas
      <3> QED BY <3>1, <3>2
    <2> QED BY <1>1, <1>2, <2>6, <2>7, <2>8, FileEnds
  <1>5. Renamed(fh[h].site, fh[h].from, fh[h].to) \/ UNCHANGED <<tree, left>>
    BY DEF RenameEntry
  <1> HIDE DEF Renamed
  <1> QED BY <1>1, <1>3, <1>4, <1>5

\* Paths are short sequences of names, and so is what they end in.
LEMMA PathsAre ==
  /\ \A p \in Entry \cup {<<>>} : p \in Seq(STRING)
  /\ \A p \in Entry : Len(p) \in 1..3
  /\ \A q \in Relative : q \in Seq(STRING)
  <1>1. Entry \subseteq Seq(STRING) /\ \A p \in Entry : Len(p) \in 1..3
    BY EntryAssumption, Zenon
  <1>2. <<>> \in Seq(STRING)
    BY EmptySeq
  <1>3. \A p \in Entry \cup {<<>>} : p \in Seq(STRING)
    BY <1>1, <1>2
  <1>4. ASSUME NEW x \in Entry, NEW i \in 1..3
        PROVE  SubSeq(x, i, Len(x)) \in Seq(STRING)
    <2>1. x \in Seq(STRING) /\ Len(x) \in 1..3
      BY <1>1
    <2>2. \A k \in i..Len(x) : x[k] \in STRING
      BY <2>1, ElementOfSeq
    <2> QED BY <2>1, <2>2, SubSeqProperties
  <1>5. \A q \in Relative : q = <<>> \/ \E x \in Entry, i \in 1..3 : q = SubSeq(x, i, Len(x))
    BY DEF Relative
  <1>6. \A q \in Relative : q \in Seq(STRING)
    BY <1>2, <1>4, <1>5
  <1> QED BY <1>1, <1>3, <1>6

\* What lies below the copy is made by copying.
LEMMA CopyIsBelow ==
  ASSUME NEW p \in Entry \cup {<<>>}, NEW q \in Relative, p \o q \in Entry
  PROVE  p \o q \in Below(p)
  <1>1. p \in Seq(STRING) /\ q \in Seq(STRING)
    BY PathsAre
  <1>3. Len(p \o q) = Len(p) + Len(q) /\ Len(p) \in Nat /\ Len(q) \in Nat
    BY <1>1, ConcatProperties, LenProperties
  <1>4. SubSeq(p \o q, 1, Len(p)) = p
    <2>1. CASE p = <<>>
      <3>1. Len(p) = 0
        BY <2>1
      <3>2. SubSeq(p \o q, 1, 0) = <<>>
        BY SubSeqEmpty
      <3> QED BY <2>1, <3>1, <3>2
    <2>2. CASE p # <<>>
      <3>1. Len(p) \in 1..Len(p)
        BY <1>1, <2>2, EmptySeq
      <3>2. SubSeq(p \o q, 1, Len(p)) = SubSeq(p, 1, Len(p))
        BY <1>1, <3>1, SubSeqOfConcat1
      <3>3. /\ SubSeq(p, 1, Len(p)) \in Seq(STRING) /\ Len(SubSeq(p, 1, Len(p))) = Len(p)
            /\ \A i \in 1..Len(p) : SubSeq(p, 1, Len(p))[i] = p[i]
        <4>1. \A k \in 1..Len(p) : p[k] \in STRING
          BY <1>1, ElementOfSeq
        <4> QED BY <1>3, <3>1, <4>1, SubSeqProperties
      <3>4. SubSeq(p, 1, Len(p)) = p
        BY <1>1, <3>3, SeqEqual
      <3> QED BY <3>2, <3>4
    <2> QED BY <2>1, <2>2
  <1>5. Len(p \o q) >= Len(p)
    BY <1>3
  <1> QED BY <1>4, <1>5 DEF Below

LEMMA TailIsRelative ==
  ASSUME NEW p \in Entry, NEW i \in 1..3
  PROVE  SubSeq(p, i, Len(p)) \in Relative
  BY DEF Relative

\* The name of a child of a copied folder.
LEMMA ChildIsRelative ==
  ASSUME NEW p \in Entry \cup {<<>>}, NEW q \in Relative, NEW c \in Entry, Parent(c) = p \o q
  PROVE  q \o <<c[Len(c)]>> \in Relative
  <1>1. p \in Seq(STRING) /\ q \in Seq(STRING) /\ c \in Seq(STRING) /\ Len(c) \in 1..3
    BY PathsAre
  <1>3. PICK n, m, k : n = Len(c) /\ m = Len(p) /\ k = Len(q)
    OBVIOUS
  <1>4. n \in 1..3 /\ m \in Nat /\ k \in Nat /\ c[n] \in STRING /\ \A i \in 1..n : c[i] \in STRING
    <2>1. n \in 1..3 /\ m \in Nat /\ k \in Nat
      BY <1>1, <1>3, LenProperties
    <2>2. \A i \in 1..n : c[i] \in STRING
      BY <1>1, <1>3, ElementOfSeq
    <2> QED BY <2>1, <2>2
  <1>5. /\ Len(Parent(c)) = n - 1 /\ \A i \in 1..(n - 1) : Parent(c)[i] = c[i]
    <2>1. \A i \in 1..(n - 1) : c[i] \in STRING
      BY <1>4
    <2>2. /\ Len(SubSeq(c, 1, n - 1)) = IF 1 <= n - 1 THEN (n - 1) - 1 + 1 ELSE 0
          /\ \A i \in 1..((n - 1) - 1 + 1) : SubSeq(c, 1, n - 1)[i] = c[1 + i - 1]
      BY <1>4, <2>1, SubSeqProperties
    <2>3. Parent(c) = SubSeq(c, 1, n - 1)
      BY <1>3 DEF Parent
    <2> QED BY <1>4, <2>2, <2>3
  <1>6. n - 1 = m + k /\ \A i \in 1..(n - 1) : c[i] = IF i <= m THEN p[i] ELSE q[i - m]
    BY <1>1, <1>3, <1>5, ConcatProperties
  <1>7. PICK s : s = SubSeq(c, m + 1, n)
    OBVIOUS
  <1>8. s \in Seq(STRING) /\ Len(s) = n - m /\ \A i \in 1..(n - m) : s[i] = c[m + i]
    <2>1. \A i \in (m + 1)..n : c[i] \in STRING
      BY <1>4
    <2>2. /\ s \in Seq(STRING) /\ Len(s) = IF m + 1 <= n THEN n - (m + 1) + 1 ELSE 0
          /\ \A i \in 1..(n - (m + 1) + 1) : s[i] = c[(m + 1) + i - 1]
      BY <1>4, <1>7, <2>1, SubSeqProperties
    <2> QED BY <1>4, <1>6, <2>2
  <1>9. PICK t : t = q \o <<c[n]>>
    OBVIOUS
  <1>10. t \in Seq(STRING) /\ Len(t) = k + 1 /\ \A i \in 1..(k + 1) : t[i] = IF i <= k THEN q[i] ELSE c[n]
    <2>1. <<c[n]>> \in Seq(STRING) /\ Len(<<c[n]>>) = 1 /\ <<c[n]>>[1] = c[n]
      BY <1>4
    <2>2. /\ t \in Seq(STRING) /\ Len(t) = k + 1
          /\ \A i \in 1..(k + 1) : t[i] = IF i <= k THEN q[i] ELSE <<c[n]>>[i - k]
      BY <1>1, <1>3, <1>9, <2>1, ConcatProperties
    <2> QED BY <1>4, <2>1, <2>2
  <1>11. \A i \in 1..(k + 1) : t[i] = s[i]
    <2> SUFFICES ASSUME NEW i \in 1..(k + 1) PROVE t[i] = s[i]
      OBVIOUS
    <2>1. s[i] = c[m + i] /\ m + i \in 1..n
      BY <1>4, <1>6, <1>8
    <2>2. CASE i = k + 1
      <3>1. m + i = n /\ t[i] = c[n]
        BY <1>4, <1>6, <1>10, <2>2
      <3> QED BY <2>1, <3>1
    <2>3. CASE i # k + 1
      <3>1. i <= k /\ m + i \in 1..(n - 1) /\ ~(m + i <= m) /\ m + i - m = i
        BY <1>4, <1>6, <2>3
      <3>2. c[m + i] = q[m + i - m]
        <4>1. PICK j \in 1..(n - 1) : j = m + i
          BY <3>1
        <4>2. c[j] = IF j <= m THEN p[j] ELSE q[j - m]
          BY <1>6, <4>1
        <4>3. ~(j <= m)
          BY <3>1, <4>1
        <4> QED BY <1>4, <4>1, <4>2, <4>3
      <3>3. t[i] = q[i] /\ q[m + i - m] = q[i]
        BY <1>10, <3>1
      <3> QED BY <2>1, <3>2, <3>3
    <2> QED BY <2>2, <2>3
  <1>12. t = s
    <2>1. Len(t) = Len(s) /\ \A i \in 1..Len(t) : t[i] = s[i]
      BY <1>4, <1>6, <1>8, <1>10, <1>11
    <2> QED BY <1>8, <1>10, <2>1, SeqEqual
  <1>13. m + 1 \in 1..3
    BY <1>4, <1>6
  <1>14. SubSeq(c, m + 1, Len(c)) \in Relative
    <2> QED BY <1>13, TailIsRelative
  <1> QED BY <1>3, <1>7, <1>9, <1>12, <1>14

LEMMA CopyEntryKeeps ==
  ASSUME AccountsInv, FilesInv, NEW h \in Handler, CopyEntry(h), UNCHANGED <<user, minted, sites, hd>>
  PROVE  FilesInv'
  <1>1. PICK a, from, to, todo, made : a = fh[h].site /\ from = fh[h].from /\ to = fh[h].to
                                       /\ todo = fh[h].todo /\ made = fh[h].made
    OBVIOUS
  <1>2. /\ fh[h].pc = "work" /\ fh[h].op = "copy" /\ a \in Account /\ made = Below(to) /\ made \subseteq Entry
        /\ from \in Entry \cup {<<>>} /\ to \in Entry \cup {<<>>} /\ todo \subseteq Relative
    BY <1>1, FileRequestOf DEF CopyEntry, FileAt, FileInv, FileHandling
  <1>3. PICK q \in todo :
       LET src == from \o q  dst == to \o q
           rest == todo \ {q}
           below == {q \o <<c[Len(c)]>> : c \in Children(a, src)}
           go(more) == fh' = [fh EXCEPT ![h].todo = more, ![h].pc = IF more = {} THEN "hand" ELSE @]
       IN
       \/ /\ IsDir(a, src) /\ There(a, dst)
          /\ go(rest \cup below) /\ UNCHANGED <<tree, left>>
       \/ /\ IsDir(a, src) /\ Room(a, dst)
          /\ Put(a, dst, Fresh("dir")) /\ go(rest \cup below) /\ UNCHANGED left
       \/ /\ There(a, src) /\ ~IsDir(a, src) /\ Room(a, dst)
          /\ Put(a, dst, Fresh("file")) /\ go(rest) /\ UNCHANGED left
       \/ go(rest) /\ UNCHANGED <<tree, left>>
       \/ /\ FileReply(h) /\ UNCHANGED tree
          /\ Forsake(h, {p \in made : There(a, p) /\ tree[a][p].owner = "root"})
    BY <1>1 DEF CopyEntry
  <1>4. PICK dst, rest, below : /\ dst = to \o q /\ rest = todo \ {q}
                                /\ below = {q \o <<c[Len(c)]>> : c \in Children(a, from \o q)}
    OBVIOUS
  <1>5. rest \subseteq Relative /\ below \subseteq Relative
    <2>1. \A c \in Children(a, from \o q) : q \o <<c[Len(c)]>> \in Relative
      BY <1>2, ChildIsRelative DEF Children
    <2> QED BY <1>2, <1>4, <2>1
  \* The request goes on, with an entry of its own or none.
  <1>6. ASSUME NEW more \in SUBSET Relative,
               fh' = [fh EXCEPT ![h].todo = more, ![h].pc = IF more = {} THEN "hand" ELSE @],
               tree' \in [Account -> [Entry -> Node]], left' = left,
               \A b \in Account \ {a} : tree'[b] = tree[b],
               \A p \in Entry : tree'[a][p] = tree[a][p] \/ (p \in made /\ tree'[a][p].owner = "root")
        PROVE  FilesInv'
    <2>1. PICK pc \in {"work", "hand"} : pc = IF more = {} THEN "hand" ELSE fh[h].pc
      BY <1>2
    <2>2. PICK y : y = [fh[h] EXCEPT !.todo = more, !.pc = pc]
      OBVIOUS
    <2>3. /\ y \in FileHandling /\ y.op = "copy" /\ y.pc = pc /\ y.site = a /\ y.to = to
          /\ y.made = made /\ y.bytes = fh[h].bytes /\ y.at = fh[h].at
      BY <1>1, <1>2, <2>2, FileRequestOf DEF FileHandling
    <2>4. fh' = [fh EXCEPT ![h] = y]
      BY <1>6, <2>1, <2>2
    <2>5. FileInv(y) /\ y.bytes <= MaxBytes + 1
      BY <1>1, <1>2, <2>1, <2>3, FileRequestOf, EntryAssumption DEF FileInv
    <2>6. \A p \in Entry : Rightful(a, p, y) \/ AsItWas(h, a, p, y)
      BY <1>1, <1>6, <2>3 DEF Rightful, AsItWas
    <2>7. left' \subseteq Account \X Entry
      BY <1>6, LeftIs
    <2> QED BY <1>1, <1>2, <1>6, <2>3, <2>4, <2>5, <2>6, <2>7, FileGoesOn
  <1>7. ASSUME Room(a, dst), NEW kind \in {"file", "dir"}, Put(a, dst, Fresh(kind))
        PROVE  /\ tree' \in [Account -> [Entry -> Node]]
               /\ \A b \in Account \ {a} : tree'[b] = tree[b]
               /\ \A p \in Entry : tree'[a][p] = tree[a][p] \/ (p \in made /\ tree'[a][p].owner = "root")
    <2>1. dst \in Entry /\ dst \in made
      BY <1>2, <1>3, <1>4, <1>7, CopyIsBelow DEF Room
    <2> QED BY <1>2, <1>7, <2>1, EntryOf, FreshIs
  <1>8. CASE /\ UNCHANGED <<tree, left>>
             /\ fh' = [fh EXCEPT ![h].todo = rest \cup below, ![h].pc = IF rest \cup below = {} THEN "hand" ELSE @]
    BY <1>5, <1>6, <1>8, TreeLeft
  <1>9. CASE /\ Room(a, dst) /\ Put(a, dst, Fresh("dir")) /\ UNCHANGED left
             /\ fh' = [fh EXCEPT ![h].todo = rest \cup below, ![h].pc = IF rest \cup below = {} THEN "hand" ELSE @]
    BY <1>5, <1>6, <1>7, <1>9
  <1>10. CASE /\ Room(a, dst) /\ Put(a, dst, Fresh("file")) /\ UNCHANGED left
              /\ fh' = [fh EXCEPT ![h].todo = rest, ![h].pc = IF rest = {} THEN "hand" ELSE @]
    BY <1>5, <1>6, <1>7, <1>10
  <1>11. CASE /\ FileReply(h) /\ UNCHANGED tree
              /\ Forsake(h, {p \in made : There(a, p) /\ tree[a][p].owner = "root"})
    <2>1. PICK P : P = {p \in made : There(a, p) /\ tree[a][p].owner = "root"}
      OBVIOUS
    <2>2. left' \subseteq Account \X Entry /\ left \subseteq left' /\ \A p \in P : <<a, p>> \in left'
      BY <1>1, <1>2, <1>11, <2>1, ForsakeIs
    <2>3. ASSUME NEW p \in Entry, a \in sites, There(a, p)'
          PROVE  Rightful(a, p, NoFileHandling) \/ AsItWas(h, a, p, NoFileHandling)
      <3>1. There(a, p) /\ OwnedOrDue(a, p)
        BY <1>2, <1>11, <2>3 DEF There, FilesInv, TreeInv
      <3>2. CASE p \in P
        BY <2>2, <3>2 DEF Rightful
      <3>3. CASE p \notin made
        BY <1>1, <1>11, <2>2, <3>3 DEF AsItWas
      <3>4. CASE p \in made \ P
        <4>1. tree[a][p].owner # "root"
          BY <2>1, <3>1, <3>4
        <4> QED BY <1>11, <2>2, <3>1, <4>1 DEF OwnedOrDue, Rightful
      <3> QED BY <3>2, <3>3, <3>4
    <2> QED BY <1>1, <1>2, <1>11, <2>2, <2>3, FileEnds, TreeLeft
  <1>12. CASE /\ UNCHANGED <<tree, left>>
              /\ fh' = [fh EXCEPT ![h].todo = rest, ![h].pc = IF rest = {} THEN "hand" ELSE @]
    BY <1>5, <1>6, <1>12, TreeLeft
  <1> QED BY <1>3, <1>4, <1>8, <1>9, <1>10, <1>11, <1>12

\* Folders on the way are nobody's to hand over; the entry itself is.
LEMMA UnzipEntryKeeps ==
  ASSUME AccountsInv, FilesInv, NEW h \in Handler, UnzipEntry(h), UNCHANGED <<user, minted, sites, hd>>
  PROVE  FilesInv'
  <1>1. PICK a, arc, i, e, target, made : /\ a = fh[h].site /\ arc = fh[h].archive /\ i = fh[h].at
                                          /\ e = arc[i] /\ target = fh[h].to \o e.at /\ made = fh[h].made
    OBVIOUS
  <1> DEFINE way == {p \in Entry : Len(p) > Len(fh[h].to) /\ target \in Below(p)
                                   /\ (e.dir \/ p # target) /\ ~There(a, p)}
             bytes == fh[h].bytes + (IF e.dir THEN 0 ELSE Quota(h, e.size))
             grown == [p \in Entry |->
                         IF p \in way THEN Fresh("dir")
                         ELSE IF p = target /\ ~There(a, p) THEN Fresh("file") ELSE tree[a][p]]
  <1>2. /\ fh[h].pc = "work" /\ fh[h].op = "unzip" /\ a \in Account /\ made \subseteq Entry
        /\ fh[h].bytes \in Nat /\ fh[h].bytes <= MaxBytes /\ i \in Nat /\ i >= 1
        /\ arc \in Archives \cup {<<>>} /\ MaxBytes \in Nat
    BY <1>1, FileRequestOf, EntryAssumption DEF UnzipEntry, FileAt, FileInv, FileHandling
  <1>3. i <= Len(arc) => e.size \in Nat /\ e.dir \in BOOLEAN
    <2>1. Archives \subseteq Seq([at : Relative \ {<<>>}, dir : BOOLEAN, size : Nat])
      BY EntryAssumption, Zenon
    <2>2. PICK E : E = [at : Relative \ {<<>>}, dir : BOOLEAN, size : Nat]
      OBVIOUS
    <2>3. arc \in Seq(E)
      BY <1>2, <2>1, <2>2, EmptySeq
    <2>4. i <= Len(arc) => e \in E
      BY <1>1, <1>2, <2>3, ElementOfSeq, LenProperties
    <2> QED BY <2>2, <2>4
  \* The request goes on, or is done.
  <1>4. ASSUME NEW pc \in {"work", "hand"}, NEW m \in SUBSET Entry, made \subseteq m,
               NEW n \in Nat, n <= MaxBytes + 1, pc = "work" => n <= MaxBytes, NEW k \in Nat, k >= 1,
               fh' = [fh EXCEPT ![h].made = m, ![h].bytes = n, ![h].at = k, ![h].pc = pc],
               tree' \in [Account -> [Entry -> Node]], left' \subseteq Account \X Entry, left \subseteq left',
               \A b \in Account \ {a} : tree'[b] = tree[b],
               \A p \in Entry : \/ tree'[a][p] = tree[a][p]
                                \/ <<a, p>> \in left'
                                \/ p \in m /\ tree'[a][p].owner = "root"
        PROVE  FilesInv'
    <2>1. PICK y : y = [fh[h] EXCEPT !.made = m, !.bytes = n, !.at = k, !.pc = pc]
      OBVIOUS
    <2>2. /\ y \in FileHandling /\ y.op = "unzip" /\ y.pc = pc /\ y.site = a /\ y.made = m
          /\ y.bytes = n /\ y.at = k
      BY <1>1, <1>2, <1>4, <2>1, FileRequestOf DEF FileHandling
    <2>3. fh' = [fh EXCEPT ![h] = y]
      BY <1>4, <2>1
    <2>4. FileInv(y)
      BY <1>1, <1>2, <1>4, <2>2, FileRequestOf, EntryAssumption DEF FileInv
    <2>5. \A p \in Entry : Rightful(a, p, y) \/ AsItWas(h, a, p, y)
      BY <1>1, <1>4, <2>2 DEF Rightful, AsItWas
    <2> QED BY <1>1, <1>2, <1>4, <2>2, <2>3, <2>4, <2>5, FileGoesOn
  <1>5. ASSUME tree' = [tree EXCEPT ![a] = grown]
        PROVE  /\ tree' \in [Account -> [Entry -> Node]]
               /\ \A b \in Account \ {a} : tree'[b] = tree[b]
               /\ \A p \in Entry : \/ tree'[a][p] = tree[a][p]
                                   \/ p \in way \cup {target} /\ tree'[a][p].owner = "root"
    <2>1. PICK t : t = grown
      OBVIOUS
    <2>2. \A p \in Entry : t[p] = tree[a][p] \/ (p \in way \cup {target} /\ t[p] \in {Fresh("dir"), Fresh("file")})
      <3> HIDE DEF way
      <3> QED BY <2>1
    <2>3. \A p \in Entry : tree[a][p] \in Node
      BY <1>2 DEF FilesInv, FilesTypeOK
    <2>4. t \in [Entry -> Node]
      <3>1. \A p \in Entry : t[p] \in Node
        BY <2>2, <2>3, FreshIs
      <3> HIDE DEF way
      <3> QED BY <2>1, <3>1
    <2>5. tree' = [tree EXCEPT ![a] = t]
      BY <1>5, <2>1
    <2> HIDE DEF grown, way
    <2> QED BY <1>2, <2>2, <2>4, <2>5, TreeOf, FreshIs
  <1>6. CASE fh' = [fh EXCEPT ![h].pc = "hand"] /\ UNCHANGED <<tree, left>>
    <2>1. fh' = [fh EXCEPT ![h].made = made, ![h].bytes = fh[h].bytes, ![h].at = i, ![h].pc = "hand"]
      <3>1. PICK y, z : /\ y = [fh[h] EXCEPT !.pc = "hand"]
                        /\ z = [fh[h] EXCEPT !.made = made, !.bytes = fh[h].bytes, !.at = i, !.pc = "hand"]
        OBVIOUS
      <3>2. y = z
        BY <1>1, <3>1, FileRequestOf DEF FileHandling
      <3> QED BY <1>6, <3>1, <3>2
    <2>2. fh[h].bytes <= MaxBytes + 1 /\ left' \subseteq Account \X Entry
      BY <1>2, <1>6, LeftIs
    <2>3. \A p \in Entry : tree'[a][p] = tree[a][p]
      BY <1>6
    <2>4. left \subseteq left' /\ tree' \in [Account -> [Entry -> Node]] /\ \A b \in Account \ {a} : tree'[b] = tree[b]
      BY <1>6, TreeLeft
    <2> QED BY <1>2, <1>4, <2>1, <2>2, <2>3, <2>4
  <1>7. CASE /\ i <= Len(arc) /\ target \in Entry
             /\ tree' = [tree EXCEPT ![a] = grown] /\ Forsake(h, way \ {target})
             /\ fh' = [fh EXCEPT ![h].made = @ \cup {target}, ![h].bytes = bytes, ![h].at = i + 1,
                                 ![h].pc = IF bytes > MaxBytes THEN "hand" ELSE @]
    <2>1. PICK n : n = bytes
      OBVIOUS
    <2>2. n \in Nat /\ n <= MaxBytes + 1
      BY <1>2, <1>3, <1>7, <2>1 DEF Quota
    <2>3. PICK pc \in {"work", "hand"} : pc = IF n > MaxBytes THEN "hand" ELSE fh[h].pc
      BY <1>2
    <2>4. PICK m : m = made \cup {target}
      OBVIOUS
    <2>5. PICK k : k = i + 1
      OBVIOUS
    <2>6. fh' = [fh EXCEPT ![h].made = m, ![h].bytes = n, ![h].at = k, ![h].pc = pc]
      BY <1>1, <1>7, <2>1, <2>3, <2>4, <2>5
    <2>7. way \ {target} \subseteq Entry
      OBVIOUS
    <2> HIDE DEF way, grown, bytes
    <2>8. left' \subseteq Account \X Entry /\ left \subseteq left' /\ \A p \in way \ {target} : <<a, p>> \in left'
      BY <1>1, <1>2, <1>7, <2>7, ForsakeIs
    <2>9. m \in SUBSET Entry /\ made \subseteq m /\ target \in m
      BY <1>2, <1>7, <2>4
    <2>10. \A p \in Entry : \/ tree'[a][p] = tree[a][p]
                            \/ <<a, p>> \in left'
                            \/ p \in m /\ tree'[a][p].owner = "root"
      BY <1>5, <1>7, <2>8, <2>9
    <2>11. k \in Nat /\ k >= 1 /\ (pc = "work" => n <= MaxBytes)
      BY <1>2, <2>2, <2>3, <2>5
    <2>12. tree' \in [Account -> [Entry -> Node]] /\ \A b \in Account \ {a} : tree'[b] = tree[b]
      BY <1>5, <1>7
    <2> QED BY <1>4, <2>2, <2>6, <2>8, <2>9, <2>10, <2>11, <2>12
  <1>8. CASE /\ target \in Entry
             /\ tree' = [tree EXCEPT ![a] = grown] /\ Forsake(h, (way \cup {target}) \ made)
             /\ fh' = [fh EXCEPT ![h].pc = "hand"]
    <2>1. fh' = [fh EXCEPT ![h].made = made, ![h].bytes = fh[h].bytes, ![h].at = i, ![h].pc = "hand"]
      <3>1. PICK y, z : /\ y = [fh[h] EXCEPT !.pc = "hand"]
                        /\ z = [fh[h] EXCEPT !.made = made, !.bytes = fh[h].bytes, !.at = i, !.pc = "hand"]
        OBVIOUS
      <3>2. y = z
        BY <1>1, <3>1, FileRequestOf DEF FileHandling
      <3> QED BY <1>8, <3>1, <3>2
    <2>2. (way \cup {target}) \ made \subseteq Entry
      BY <1>8
    <2> HIDE DEF way, grown
    <2>3. /\ left' \subseteq Account \X Entry /\ left \subseteq left'
          /\ \A p \in (way \cup {target}) \ made : <<a, p>> \in left'
      BY <1>1, <1>2, <1>8, <2>2, ForsakeIs
    <2>4. fh[h].bytes <= MaxBytes + 1
      BY <1>2
    <2>5. \A p \in Entry : \/ tree'[a][p] = tree[a][p]
                           \/ <<a, p>> \in left'
                           \/ p \in made /\ tree'[a][p].owner = "root"
      BY <1>5, <1>8, <2>3
    <2> QED BY <1>2, <1>4, <1>5, <1>8, <2>1, <2>3, <2>4, <2>5
  <1> QED BY <1>1, <1>6, <1>7, <1>8 DEF UnzipEntry

LEMMA FilesKeep ==
  ASSUME AccountsInv, TenantInv, FilesInv, NEW h \in Handler, FileStep(h)
  PROVE  FilesInv'
  <1>1. UNCHANGED <<user, minted, sites, hd>>
    BY DEF FileStep, tables
  <1> QED BY <1>1, AskFileKeeps, HandOverKeeps, PutEntryKeeps, CopyEntryKeeps, ZipEntriesKeeps, UnzipEntryKeeps,
             RenameEntryKeeps, DeleteEntryKeeps, ChownEntryKeeps DEF FileStep

-----------------------------------------------------------------------------
(* Files: the beginning, the upgrade, and the end of the process *)

LEMMA FilesBegin ==
  ASSUME AccountsInit, FilesInit
  PROVE  FilesInv
  <1> DEFINE of(a, kind) == [kind |-> kind, owner |-> IF user[a].sys = None THEN "root" ELSE user[a].sys]
  <1>1. PICK file \in SUBSET {p \in Entry : Len(p) = 1 /\ Below(p) = {p}} :
          tree = [a \in Account |-> [p \in Entry |->
            IF a \notin sites THEN NoNode
            ELSE IF p \in file THEN of(a, "file")
            ELSE IF Below(p) # {p} THEN of(a, "dir") ELSE NoNode]]
    BY DEF FilesInit
  <1>2. fh = [h \in Handler |-> NoFileHandling] /\ left = {} /\ sites \subseteq minted /\ minted \subseteq Account
        /\ user \in [Account -> User] /\ (\A a \in Account : Exists(a) => a \in minted)
    BY AccountAssumption DEF FilesInit, AccountsInit
  <1>3. \A a \in Account : /\ of(a, "file") \in Node /\ of(a, "dir") \in Node
                           /\ of(a, "file").owner \in {"root", user[a].sys}
                           /\ of(a, "dir").owner \in {"root", user[a].sys}
                           /\ user[a].sys # None => of(a, "file").owner = user[a].sys /\ of(a, "dir").owner = user[a].sys
    BY <1>2 DEF Node, User
  <1>4. \A a \in Account, p \in Entry :
          /\ tree[a][p] \in {NoNode, of(a, "file"), of(a, "dir")}
          /\ a \notin sites => tree[a][p] = NoNode
    <2> HIDE DEF of
    <2> QED BY <1>1
  <1>5. tree \in [Account -> [Entry -> Node]]
    <2> HIDE DEF of
    <2>1. \A a \in Account, p \in Entry : tree[a][p] \in Node
      BY <1>3, <1>4, NoNodeIs
    <2>2. \A a \in Account : tree[a] \in [Entry -> Node]
      BY <1>1, <2>1
    <2> QED BY <1>1, <2>2
  <1> HIDE DEF of
  <1>6. ASSUME NEW a \in Account
        PROVE  TreeInv(a)
    <2>1. ASSUME NEW p \in Entry, There(a, p), a \in sites
          PROVE  OwnedOrDue(a, p)
      <3>1. tree[a][p] \in {of(a, "file"), of(a, "dir")}
        BY <1>4, <2>1, NoNodeIs DEF There
      <3> QED BY <1>3, <3>1 DEF OwnedOrDue
    <2>2. ASSUME NEW p \in Entry, a \notin sites
          PROVE  ~There(a, p)
      BY <1>4, <2>2, NoNodeIs DEF There
    <2> QED BY <2>1, <2>2 DEF TreeInv
  <1>7. NoFileHandling.bytes <= MaxBytes + 1
    BY EntryAssumption DEF NoFileHandling
  <1> QED BY <1>2, <1>5, <1>6, <1>7, IdleFile DEF FilesInv, FilesTypeOK

\* The tree of an account's site goes to the Linux user it has been given.
LEMMA FilesUpgraded ==
  ASSUME AccountsInv, TenantInv, FilesInv, NEW h \in Handler, FilesUpgrade(h)
  PROVE  FilesInv'
  <1>1. PICK a, P : a = hd[h].who /\ P = {p \in Entry : There(a, p)}
    OBVIOUS
  <1>2. /\ hd[h].pc = "upgrade" /\ a \in Account /\ OthersWait(h)
        /\ UNCHANGED <<user, minted, sites, fh>>
    BY <1>1, RequestOf, OneMoves DEF FilesUpgrade, TenantUpgrade, HandlingOK, Provisioning, tables
  <1>3. hd[h].login \in Login /\ (a \in sites => user[a].sys = hd[h].login)
    BY <1>1, <1>2 DEF TenantInv, KnowsTenant, Found
  <1>4. \A b : b # a /\ Upgrading(b) => Upgrading(b)'
    BY <1>1, <1>2 DEF Upgrading, OthersWait
  <1>5. \A g \in Handler : FileInv(fh[g])'
    BY <1>2 DEF FilesInv, FileInv, Exists
  \* What the upgrade must leave.
  <1>6. ASSUME tree' \in [Account -> [Entry -> Node]], left' \subseteq Account \X Entry,
               \A b \in Account \ {a} : /\ tree'[b] = tree[b]
                                        /\ \A p \in Entry : <<b, p>> \in left => <<b, p>> \in left',
               \A p \in Entry : There(a, p)' => There(a, p),
               a \in sites => \A p \in P : tree'[a][p].owner = user[a].sys \/ <<a, p>> \in left'
        PROVE  FilesInv'
    <2>1. FilesTypeOK'
      BY <1>2, <1>6 DEF FilesInv, FilesTypeOK
    <2>2. TreeInv(a)'
      BY <1>1, <1>2, <1>6 DEF FilesInv, TreeInv, OwnedOrDue, Exists
    <2>3. ASSUME NEW b \in Account, b # a
          PROVE  TreeInv(b)'
      <3>1. TreeInv(b) /\ tree'[b] = tree[b] /\ \A p \in Entry : <<b, p>> \in left => <<b, p>> \in left'
        BY <1>6, <2>3 DEF FilesInv
      <3>2. \A p : There(b, p)' <=> There(b, p)
        BY <3>1 DEF There
      <3>3. \A p \in Entry : OwnedOrDue(b, p) => OwnedOrDue(b, p)'
        BY <1>2, <1>4, <2>3, <3>1 DEF OwnedOrDue
      <3> QED BY <1>2, <3>1, <3>2, <3>3 DEF TreeInv, Exists
    <2> QED BY <1>5, <2>1, <2>2, <2>3 DEF FilesInv
  <1>7. CASE /\ left' = left \ ({a} \X P)
             /\ tree' = [tree EXCEPT ![a] = [p \in Entry |-> IF p \in P THEN [@[p] EXCEPT !.owner = hd[h].login]
                                                             ELSE @[p]]]
             /\ a \in sites
    <2>1. PICK l : l = hd[h].login
      OBVIOUS
    <2>2. PICK t : t = [p \in Entry |-> IF p \in P THEN [tree[a][p] EXCEPT !.owner = l] ELSE tree[a][p]]
      OBVIOUS
    <2>3. \A p \in Entry : tree[a][p] \in Node
      BY <1>2 DEF FilesInv, FilesTypeOK
    <2>4. \A p \in Entry : [tree[a][p] EXCEPT !.owner = l] \in Node /\ [tree[a][p] EXCEPT !.owner = l].owner = l
      BY <1>3, <2>1, <2>3 DEF Node
    <2>5. t \in [Entry -> Node] /\ (\A p \in P : t[p].owner = l) /\ \A p \in Entry \ P : t[p] = tree[a][p]
      BY <1>1, <2>2, <2>3, <2>4
    <2>6. tree' = [tree EXCEPT ![a] = t]
      BY <1>2, <1>7, <2>1, <2>2 DEF FilesInv, FilesTypeOK
    <2>7. /\ tree' \in [Account -> [Entry -> Node]] /\ tree'[a] = t
          /\ \A b \in Account \ {a} : tree'[b] = tree[b]
      BY <1>2, <2>5, <2>6, TreeOf
    <2>8. left' \subseteq Account \X Entry /\ \A b \in Account \ {a} : \A p \in Entry : <<b, p>> \in left => <<b, p>> \in left'
      BY <1>7, LeftIs
    <2>9. \A p \in Entry : There(a, p)' => There(a, p)
      BY <1>1, <2>5, <2>7 DEF There
    <2>10. \A p \in P : tree'[a][p].owner = user[a].sys
      BY <1>3, <1>7, <2>1, <2>5, <2>7
    <2> QED BY <1>6, <2>7, <2>8, <2>9, <2>10
  <1>8. CASE left' = left \cup ({a} \X P) /\ UNCHANGED tree
    <2>1. left' \subseteq Account \X Entry /\ \A p \in P : <<a, p>> \in left'
      BY <1>1, <1>2, <1>8, LeftIs
    <2>2. \A b \in Account \ {a} : \A p \in Entry : <<b, p>> \in left => <<b, p>> \in left'
      BY <1>8
    <2>3. \A p \in Entry : There(a, p)' => There(a, p)
      BY <1>8 DEF There
    <2> QED BY <1>6, <1>8, <2>1, <2>2, <2>3, TreeLeft
  <1>9. CASE a \notin sites /\ UNCHANGED <<tree, left>>
    <2>1. \A p \in Entry : There(a, p)' => There(a, p)
      BY <1>9 DEF There
    <2> QED BY <1>6, <1>9, <2>1, TreeLeft, LeftIs
  <1> QED BY <1>1, <1>7, <1>8, <1>9 DEF FilesUpgrade

\* What was about to be handed over never will be.
LEMMA FilesCutShort ==
  ASSUME AccountsInv, TenantInv, FilesInv, Interrupted, FilesCrash
  PROVE  FilesInv'
  <1>1. /\ fh' = [h \in Handler |-> NoFileHandling] /\ UNCHANGED <<tree, user, minted, sites>>
        /\ left \subseteq left'
    BY DEF Interrupted, tables, FilesCrash
  <1>2. left' \subseteq Account \X Entry
    BY DEF FilesCrash, FilesInv, FilesTypeOK
  <1>3. ASSUME NEW a \in Account, NEW p \in Entry, There(a, p),
               \E h \in Handler : \/ fh[h].site = a /\ p \in fh[h].made
                                  \/ hd[h].pc = "upgrade" /\ hd[h].who = a
        PROVE  <<a, p>> \in left'
    BY <1>3 DEF FilesCrash
  <1>4. NoFileHandling.bytes <= MaxBytes + 1
    BY EntryAssumption DEF NoFileHandling
  <1>5. FilesTypeOK'
    BY <1>1, <1>2, <1>4, IdleFile DEF FilesInv, FilesTypeOK
  <1>6. ASSUME NEW a \in Account
        PROVE  TreeInv(a)'
    <2>1. TreeInv(a) /\ \A p : There(a, p)' <=> There(a, p)
      BY <1>1 DEF FilesInv, There
    <2>2. ASSUME NEW p \in Entry, There(a, p), OwnedOrDue(a, p)
          PROVE  OwnedOrDue(a, p)'
      <3>1. Upgrading(a) => <<a, p>> \in left'
        BY <1>3, <2>2 DEF Upgrading
      <3>2. (\E g \in Handler : fh[g].site = a /\ p \in fh[g].made) => <<a, p>> \in left'
        BY <1>3, <2>2
      <3> QED BY <1>1, <2>2, <3>1, <3>2 DEF OwnedOrDue
    <2> QED BY <1>1, <2>1, <2>2 DEF TreeInv, Exists
  <1> QED BY <1>1, <1>5, <1>6, IdleFile DEF FilesInv
-----------------------------------------------------------------------------
(* MariaDB objects: the invariant *)

Sure(o)         == o \notin doubted
Pairing         == {"grant", "revoke"}
OnPair(g, d, u) == dh[g].op \in Pairing /\ d \in dh[g].objects /\ u \in dh[g].objects
Active(d, u)    == <<d, u>> \in priv /\ <<d, u>> \notin shadowed

\* A deletion of its owner has dropped the object and not yet the row.
Ending(o) == Live(o) /\ \E h \in Handler : At(h, "delete", "drop") /\ hd[h].who = rows[o].owner

\* A request x is about one object, or a pair whose ids no other object has or will have.
Shape(x) ==
  /\ x.op = None => x = NoDbHandling
  /\ x.op \in {"make", "drop"} => /\ \E o \in Object : x.objects = {o}
                                  /\ x.pc \in {"command", IF x.op = "make" THEN "undo" ELSE "row"}
                                  /\ \E i \in 1..rowIds : x.ids = <<i>>
  /\ x.op \in Pairing =>
       /\ \E d \in Database, u \in DbUser : x.objects = {d, u}
       /\ x.pc \in {"command", "row"} \cup (IF x.op = "grant" THEN {"undo"} ELSE {})
       /\ \E i, k \in 1..rowIds : x.ids = <<i, k>>
       /\ \A o \in Object : /\ rows[o].id = x.ids[1] => o \in Database \cap x.objects
                            /\ rows[o].id = x.ids[2] => o \in DbUser \cap x.objects

IdOf(x, o) == x.ids[IF o \in DbUser /\ x.op \in Pairing THEN 2 ELSE 1]
Solo(h, o) == \A g \in Handler : o \in dh[g].objects => g = h

\* What a request relies on, of an object nothing is in doubt about.
Work(h, o) ==
  /\ Live(o) /\ rows[o].id = IdOf(dh[h], o)
  /\ dh[h].op \notin Pairing => Solo(h, o)
  /\ dh[h].op = "make" \/ DbAt(h, "drop", "row") => o \notin server
  /\ DbAt(h, "drop", "command") /\ ~Ending(o) => o \in server

RowInv(o) ==
  /\ rows[o].owner # None => rows[o].id \in 1..rowIds /\ rows[o].owner \in minted
  /\ rows[o].owner = None => rows[o].id = 0
  /\ \A x \in Object : rows[o].id = rows[x].id /\ rows[o].id # 0 => o = x

\* Unless somebody makes, drops or loses it, a row stands for an object.
ObjectInv(o) ==
  Sure(o) /\ (\A g \in Handler : o \in dh[g].objects => dh[g].op \in Pairing) /\ ~Ending(o)
    => (Live(o) <=> o \in server)

\* Where page and server differ about a privilege, a request is between the two.
PairInv(d, u) ==
  Sure(d) /\ Sure(u) =>
    /\ \A g, h \in Handler : OnPair(g, d, u) /\ OnPair(h, d, u) => g = h
    /\ Active(d, u) => Live(d) /\ Live(u)
    /\ Active(d, u) \/ (\E g \in Handler : OnPair(g, d, u)) => rows[d].owner = rows[u].owner
    /\ \A g \in Handler : d \in dh[g].objects /\ (dh[g].op = "make" \/ DbAt(g, "drop", "row"))
                            => ~Active(d, u)
    /\ \A g \in Handler : OnPair(g, d, u) =>
         /\ dh[g].op = "grant" /\ dh[g].pc # "command" => <<d, u>> \in priv
         /\ DbAt(g, "revoke", "row") => <<d, u>> \notin priv
    /\ Live(d) /\ Live(u) /\ Linked(d, u) /\ <<d, u>> \notin priv =>
         \/ Ending(u) \/ (\E g \in Handler : u \in dh[g].objects /\ DbAt(g, "drop", "row"))
         \/ \E g \in Handler : OnPair(g, d, u) /\ DbAt(g, "revoke", "row")
    /\ Live(d) /\ Live(u) /\ ~Linked(d, u) /\ Active(d, u) =>
         \E g \in Handler : OnPair(g, d, u) /\ dh[g].op = "grant" /\ dh[g].pc # "command"

DbInv ==
  /\ DbTypeOK
  /\ \A i, k : <<i, k>> \in links => i \in 1..rowIds /\ k \in 1..rowIds
  /\ \A d \in Database, u \in DbUser : <<d, u>> \in priv => u \in server
  /\ \A o \in Object : RowInv(o) /\ ObjectInv(o)
  /\ \A h \in Handler : Shape(dh[h]) /\ \A o \in dh[h].objects : Sure(o) => Work(h, o)
  /\ \A d \in Database, u \in DbUser : PairInv(d, u)

LEMMA DbInvImplies ==
  ASSUME DbInv
  PROVE  ObjectsBacked /\ GrantsBacked
  <1>1. \A o \in Object : Settled(o) => Sure(o) /\ ~Ending(o) /\ \A g \in Handler : o \notin dh[g].objects
    BY DEF Settled, Sure, Ending, On, Owned
  <1>2. ObjectsBacked
    BY <1>1 DEF ObjectsBacked, DbInv, ObjectInv
  <1>3. ASSUME NEW d \in Database, NEW u \in DbUser, Live(d), Live(u), Settled(d), Settled(u)
        PROVE  Linked(d, u) <=> <<d, u>> \in priv \ (IF Linked(d, u) THEN {} ELSE shadowed)
    <2>1. PairInv(d, u) /\ d \in Object /\ u \in Object
      BY DEF DbInv, Object
    <2> QED BY <1>1, <1>3, <2>1 DEF PairInv, OnPair, Active
  <1> QED BY <1>2, <1>3 DEF GrantsBacked

LEMMA DbRequestOf ==
  ASSUME DbInv, NEW h \in Handler
  PROVE  /\ dh[h] \in DbHandling /\ Shape(dh[h]) /\ dh[h].objects \subseteq Object
         /\ \A o \in dh[h].objects : Sure(o) => Work(h, o)
         /\ None \notin DbOp /\ Database \cap DbUser = {}
  BY ObjectAssumption DEF DbInv, DbTypeOK, DbHandling

\* A request of an object.
LEMMA ObjectOf ==
  ASSUME DbInv, NEW h \in Handler, dh[h].op \in {"make", "drop"}
  PROVE  \E o \in Object, i \in 1..rowIds :
           /\ dh[h].objects = {o} /\ dh[h].ids[1] = i /\ IdOf(dh[h], o) = i
           /\ Sure(o) => Live(o) /\ rows[o].id = i /\ Solo(h, o)
  <1>1. Shape(dh[h]) /\ dh[h].op \notin Pairing /\ \A o \in dh[h].objects : Sure(o) => Work(h, o)
    BY DbRequestOf DEF Pairing
  <1>2. PICK o \in Object, i \in 1..rowIds : dh[h].objects = {o} /\ dh[h].ids = <<i>>
    BY <1>1 DEF Shape
  <1>3. dh[h].ids[1] = i
    BY <1>2
  <1> QED BY <1>1, <1>2, <1>3 DEF IdOf, Work

\* A request of a pair: no other pair has its ids.
LEMMA PairOf ==
  ASSUME DbInv, NEW h \in Handler, dh[h].op \in Pairing
  PROVE  \E d \in Database, u \in DbUser, i \in 1..rowIds, k \in 1..rowIds :
           /\ dh[h].objects = {d, u} /\ Pair(h) = <<d, u>>
           /\ dh[h].ids[1] = i /\ dh[h].ids[2] = k
           /\ IdOf(dh[h], d) = i /\ IdOf(dh[h], u) = k
           /\ \A o \in Object : (rows[o].id = i => o = d) /\ (rows[o].id = k => o = u)
           /\ Sure(d) => Live(d) /\ rows[d].id = i
           /\ Sure(u) => Live(u) /\ rows[u].id = k
           /\ \A x \in Database, y \in DbUser : OnPair(h, x, y) <=> x = d /\ y = u
  <1>1. Shape(dh[h]) /\ \A o \in dh[h].objects : Sure(o) => Work(h, o)
    BY DbRequestOf
  <1>2. PICK d \in Database, u \in DbUser : dh[h].objects = {d, u}
    BY <1>1 DEF Shape
  <1>3. PICK i \in 1..rowIds, k \in 1..rowIds : dh[h].ids = <<i, k>>
    BY <1>1 DEF Shape
  <1>4. dh[h].ids[1] = i /\ dh[h].ids[2] = k
    BY <1>3
  <1>5. d \notin DbUser /\ u \notin Database /\ d \in Object /\ u \in Object
    BY ObjectAssumption DEF Object
  <1>6. Pair(h) = <<d, u>>
    <2>1. <<d, u>> \in Database \X DbUser /\ dh[h].objects = {<<d, u>>[1], <<d, u>>[2]}
      BY <1>2
    <2>2. Pair(h) \in Database \X DbUser /\ dh[h].objects = {Pair(h)[1], Pair(h)[2]}
      BY <2>1 DEF Pair
    <2>3. PICK x \in Database, y \in DbUser : Pair(h) = <<x, y>> /\ dh[h].objects = {x, y}
      BY <2>2
    <2>4. x \notin DbUser /\ y \notin Database
      BY ObjectAssumption
    <2> QED BY <1>2, <1>5, <2>3, <2>4
  <1>7. IdOf(dh[h], d) = i /\ IdOf(dh[h], u) = k
    BY <1>4, <1>5 DEF IdOf
  <1>8. \A o \in Object : (rows[o].id = i => o = d) /\ (rows[o].id = k => o = u)
    BY <1>1, <1>2, <1>4, <1>5 DEF Shape
  <1>9. \A x \in Database, y \in DbUser : OnPair(h, x, y) <=> x = d /\ y = u
    BY <1>2, <1>5 DEF OnPair
  <1>10. /\ Sure(d) => Live(d) /\ rows[d].id = i
         /\ Sure(u) => Live(u) /\ rows[u].id = k
    BY <1>1, <1>2, <1>7 DEF Work
  <1> QED BY <1>2, <1>4, <1>6, <1>7, <1>8, <1>9, <1>10

-----------------------------------------------------------------------------
(* MariaDB objects: what a step leaves alone *)

\* What of the state about q a step of a request that is not about it leaves alone.
Same(q) ==
  /\ rows'[q] = rows[q] /\ (q \in server' <=> q \in server) /\ (q \in doubted' <=> q \in doubted)
SamePair(d, u) ==
  /\ <<d, u>> \in priv' <=> <<d, u>> \in priv
  /\ <<d, u>> \in shadowed' <=> <<d, u>> \in shadowed

\* Request h steps, about the objects of S.
DbMoves(h, S) ==
  /\ dh' \in [Handler -> DbHandling] /\ \A g \in Handler : g # h => dh'[g] = dh[g]
  /\ dh[h].objects \subseteq S /\ dh'[h].objects \subseteq S
  /\ UNCHANGED <<user, hd, minted>>
  /\ \A q \in Object \ S : Same(q)

LEMMA SameObject ==
  ASSUME DbInv, NEW h \in Handler, NEW S, DbMoves(h, S), NEW q \in Object \ S
  PROVE  /\ Live(q)' <=> Live(q)
         /\ Ending(q)' <=> Ending(q)
         /\ \A g \in Handler : q \in dh'[g].objects => g # h /\ dh'[g] = dh[g]
         /\ \A g \in Handler : q \in dh[g].objects => g # h /\ dh'[g] = dh[g]
         /\ ObjectInv(q)'
         /\ \A g \in Handler : q \in dh'[g].objects /\ Sure(q)' => Work(g, q)'
  <1>1. Same(q) /\ UNCHANGED <<user, hd>>
    BY DEF DbMoves
  <1>2. (Live(q)' <=> Live(q)) /\ (Ending(q)' <=> Ending(q))
    BY <1>1 DEF Same, Live, Ending, Exists, At
  <1>3. /\ \A g \in Handler : q \in dh'[g].objects => g # h /\ dh'[g] = dh[g]
        /\ \A g \in Handler : q \in dh[g].objects => g # h /\ dh'[g] = dh[g]
    BY DEF DbMoves
  <1>4. ObjectInv(q)'
    BY <1>1, <1>2, <1>3 DEF DbInv, ObjectInv, Same, Sure
  <1>5. ASSUME NEW g \in Handler, q \in dh'[g].objects, Sure(q)'
        PROVE  Work(g, q)'
    <2>1. Work(g, q) /\ dh'[g] = dh[g]
      BY <1>1, <1>3, <1>5 DEF DbInv, Same, Sure
    <2>2. Solo(g, q) => Solo(g, q)'
      BY <1>3 DEF Solo
    <2>3. IdOf(dh[g], q)' = IdOf(dh[g], q)
      BY <2>1 DEF IdOf
    <2> QED BY <1>1, <1>2, <2>1, <2>2, <2>3 DEF Work, DbAt, Same
  <1> QED BY <1>2, <1>3, <1>4, <1>5

LEMMA SamePairs ==
  ASSUME DbInv, NEW h \in Handler, NEW S, DbMoves(h, S), NEW d \in Database \ S, NEW u \in DbUser \ S,
         SamePair(d, u), Linked(d, u)' <=> Linked(d, u)
  PROVE  PairInv(d, u)'
  <1>1. d \in Object \ S /\ u \in Object \ S /\ PairInv(d, u)
    BY DEF Object, DbInv
  <1>2. /\ (Live(d)' <=> Live(d)) /\ (Live(u)' <=> Live(u)) /\ (Ending(u)' <=> Ending(u))
        /\ Same(d) /\ Same(u)
        /\ \A g \in Handler : d \in dh'[g].objects => dh'[g] = dh[g]
        /\ \A g \in Handler : u \in dh'[g].objects => dh'[g] = dh[g]
        /\ \A g \in Handler : d \in dh[g].objects => dh'[g] = dh[g]
        /\ \A g \in Handler : u \in dh[g].objects => dh'[g] = dh[g]
    BY <1>1, SameObject DEF DbMoves
  <1>3. /\ \A g \in Handler : OnPair(g, d, u)' <=> OnPair(g, d, u)
        /\ \A g \in Handler : OnPair(g, d, u) => dh'[g] = dh[g]
        /\ Active(d, u)' <=> Active(d, u)
    BY <1>2 DEF OnPair, Active, SamePair
  <1> QED BY <1>1, <1>2, <1>3 DEF PairInv, Sure, Same, SamePair, DbAt

\* The row of an object stays, goes, or comes with a new id.
RowMoves(o) ==
  \/ rows'[o] = rows[o] /\ rowIds' = rowIds
  \/ rows'[o] = NoDbRow /\ rowIds' = rowIds
  \/ /\ rowIds' = rowIds + 1 /\ rows'[o].id = rowIds + 1
     /\ rows'[o].owner \in minted \ {None}

LEMMA RowsKeep ==
  ASSUME DbInv, NEW h \in Handler, NEW o \in Object, DbMoves(h, {o}), DbTypeOK', UNCHANGED links,
         RowMoves(o), Shape(dh[h])'
  PROVE  /\ \A i, k : <<i, k>> \in links' => i \in 1..rowIds' /\ k \in 1..rowIds'
         /\ \A q \in Object : RowInv(q)'
         /\ \A g \in Handler : Shape(dh[g])'
         /\ \A d \in Database, u \in DbUser : d # o /\ u # o => (Linked(d, u)' <=> Linked(d, u))
  <1>1. /\ rowIds \in Nat /\ rowIds' \in Nat /\ rowIds' >= rowIds /\ UNCHANGED minted
        /\ \A q \in Object : rows[q] \in DbRow /\ rows'[q] \in DbRow /\ RowInv(q)
        /\ \A q \in Object : q # o => rows'[q] = rows[q]
    BY DEF DbInv, DbTypeOK, RowMoves, DbMoves, Same
  <1>2. NoDbRow.id = 0 /\ NoDbRow.owner = None
    BY DEF NoDbRow
  <1>3. \A i, k : <<i, k>> \in links' => i \in 1..rowIds' /\ k \in 1..rowIds'
    BY <1>1 DEF DbInv
  <1>4. \A q \in Object : rows[q].id <= rowIds /\ rows[q].id \in Nat
    BY <1>1 DEF RowInv, DbRow
  <1>5. \A i \in 1..rowIds : \A q \in Object : rows'[q].id = i => rows[q].id = i
    BY <1>1, <1>2 DEF RowMoves
  <1>6. ASSUME NEW q \in Object
        PROVE  RowInv(q)'
    <2>1. CASE rows'[q] = rows[q]
      BY <1>1, <1>2, <1>4, <1>5, <2>1 DEF RowInv, RowMoves
    <2>2. CASE rows'[o] = NoDbRow /\ q = o
      BY <1>2, <2>2 DEF RowInv
    <2>3. CASE rowIds' = rowIds + 1 /\ rows'[o].id = rowIds + 1 /\ rows'[o].owner \in minted \ {None} /\ q = o
      <3>1. \A y \in Object : y # o => rows'[y].id # rows'[o].id
        BY <1>1, <1>4, <2>3
      <3> QED BY <1>1, <2>3, <3>1 DEF RowInv
    <2> QED BY <1>1, <2>1, <2>2, <2>3 DEF RowMoves
  <1>7. ASSUME NEW g \in Handler
        PROVE  Shape(dh[g])'
    <2>1. CASE g # h
      <3>1. PICK x : x = dh[g]
        OBVIOUS
      <3>2. dh'[g] = x /\ x \in DbHandling
        BY <2>1, <3>1, DbRequestOf DEF DbMoves
      <3>3. Shape(x)
        BY <3>1 DEF DbInv
      <3>4. 1..rowIds \subseteq 1..rowIds'
        BY <1>1
      <3>5. x.op \in Pairing => x.ids[1] \in 1..rowIds /\ x.ids[2] \in 1..rowIds
        BY <3>3 DEF Shape
      <3>6. Shape(x)'
        BY <1>5, <3>3, <3>4, <3>5 DEF Shape
      <3> QED BY <3>2, <3>6 DEF Shape
    <2> QED BY <2>1
  <1>8. ASSUME NEW d \in Database, NEW u \in DbUser, d # o, u # o
        PROVE  Linked(d, u)' <=> Linked(d, u)
    BY <1>1, <1>8 DEF Linked, Object
  <1> QED BY <1>3, <1>6, <1>7, <1>8

\* A step about one object, for a request that is not about a pair.
LonePair(d, u) ==
  /\ Active(d, u) => Live(d) /\ Live(u) /\ rows[d].owner = rows[u].owner
  /\ \A g \in Handler : d \in dh[g].objects /\ (dh[g].op = "make" \/ DbAt(g, "drop", "row"))
                          => ~Active(d, u)
  /\ Live(d) /\ Live(u) /\ Linked(d, u) /\ <<d, u>> \notin priv =>
       Ending(u) \/ \E g \in Handler : u \in dh[g].objects /\ DbAt(g, "drop", "row")
  /\ Live(d) /\ Live(u) /\ ~Linked(d, u) => ~Active(d, u)

LEMMA SoloKeeps ==
  ASSUME DbInv, NEW h \in Handler, NEW o \in Object, DbMoves(h, {o}), DbTypeOK', UNCHANGED links,
         RowMoves(o), Shape(dh[h])', dh'[h].op \notin Pairing,
         \A g \in Handler : g # h /\ o \in dh[g].objects => ~Sure(o)',
         \A d \in Database, u \in DbUser : d # o /\ u # o => SamePair(d, u),
         \A d \in Database, u \in DbUser : <<d, u>> \in priv' => u \in server',
         ObjectInv(o)', o \in dh'[h].objects /\ Sure(o)' => Work(h, o)',
         \A d \in Database, u \in DbUser : o \in {d, u} /\ Sure(d)' /\ Sure(u)' => LonePair(d, u)'
  PROVE  DbInv'
  <1>1. \A q \in Object : ObjectInv(q)'
    BY SameObject
  <1>2. \A g \in Handler : g # h => dh'[g] = dh[g]
    BY DEF DbMoves
  <1>3. \A g \in Handler : \A q \in dh'[g].objects : q \in Object
    BY DEF DbTypeOK, DbHandling
  <1>4. \A g \in Handler : \A q \in dh'[g].objects : Sure(q)' => Work(g, q)'
    BY <1>2, <1>3, SameObject
  <1>5. ASSUME NEW d \in Database, NEW u \in DbUser
        PROVE  PairInv(d, u)'
    <2>1. CASE d # o /\ u # o
      BY <2>1, RowsKeep, SamePairs
    <2>2. CASE o \in {d, u}
      <3>1. ASSUME Sure(d)', Sure(u)'
            PROVE  \A g \in Handler : ~OnPair(g, d, u)'
        BY <1>2, <2>2, <3>1 DEF OnPair
      <3> QED BY <2>2, <3>1 DEF PairInv, LonePair
    <2> QED BY <2>1, <2>2
  <1> QED BY <1>1, <1>4, <1>5, RowsKeep DEF DbInv

\* A step about a pair.
LEMMA PairKeeps ==
  ASSUME DbInv, NEW h \in Handler, NEW d \in Database, NEW u \in DbUser, DbMoves(h, {d, u}), DbTypeOK',
         UNCHANGED <<rows, rowIds>>, Shape(dh[h])', doubted \subseteq doubted',
         dh[h].op \in Pairing \cup {None}, dh'[h].op \in Pairing \cup {None},
         \A g \in Handler : \A o \in {d, u} :
           g # h /\ o \in dh[g].objects /\ Sure(o)' => dh[g].op \in Pairing,
         \/ server' = server
         \/ server' = server \cup {u} /\ (Sure(u)' => Live(u)),
         \A x \in Database, y \in DbUser : x # d \/ y # u =>
           SamePair(x, y) /\ (Linked(x, y)' <=> Linked(x, y)),
         <<d, u>> \in priv' => u \in server',
         \A i, k : <<i, k>> \in links' => i \in 1..rowIds /\ k \in 1..rowIds,
         \A o \in dh'[h].objects : Sure(o)' => Live(o) /\ rows[o].id = IdOf(dh[h], o)',
         PairInv(d, u)'
  PROVE  DbInv'
  <1>1. d \in Object /\ u \in Object /\ d # u /\ d \notin DbUser /\ u \notin Database /\ None \notin DbOp
    BY ObjectAssumption DEF Object
  <1>2. /\ \A g \in Handler : g # h => dh'[g] = dh[g]
        /\ dh[h].op = None => dh[h].objects = {}
        /\ dh'[h].op = None => dh'[h].objects = {}
        /\ dh[h].objects \subseteq {d, u} /\ dh'[h].objects \subseteq {d, u}
        /\ UNCHANGED <<user, hd, minted>>
    BY DbRequestOf DEF DbMoves, Shape, NoDbHandling
  <1>3. /\ \A o \in Object : (Live(o)' <=> Live(o)) /\ (Ending(o)' <=> Ending(o))
        /\ \A o \in Object : (Sure(o)' => Sure(o))
    BY <1>2 DEF Live, Ending, Exists, At, Sure
  <1>4. \A q \in Object : RowInv(q)'
    BY <1>2 DEF DbInv, RowInv
  <1>5. \A g \in Handler : Shape(dh[g])'
    BY <1>2 DEF DbInv, Shape
  <1>6. ASSUME NEW q \in {d, u}
        PROVE  ObjectInv(q)'
    <2>1. ASSUME Sure(q)', \A g \in Handler : q \in dh'[g].objects => dh'[g].op \in Pairing, ~Ending(q)'
          PROVE  Live(q)' <=> q \in server'
      <3>1. \A g \in Handler : q \in dh[g].objects => dh[g].op \in Pairing
        BY <1>2, <2>1
      <3>2. Live(q) <=> q \in server
        BY <1>1, <1>3, <2>1, <3>1 DEF DbInv, ObjectInv
      <3> QED BY <1>1, <1>3, <2>1, <3>2
    <2> QED BY <2>1 DEF ObjectInv
  <1>7. \A q \in Object : ObjectInv(q)'
    BY <1>6, SameObject
  <1>8. ASSUME NEW g \in Handler, NEW o \in dh'[g].objects, Sure(o)'
        PROVE  Work(g, o)'
    <2>1. o \in Object
      BY DEF DbTypeOK, DbHandling
    <2>2. CASE o \notin {d, u}
      BY <1>8, <2>1, <2>2, SameObject
    <2>3. CASE o \in {d, u} /\ g = h
      BY <1>1, <1>2, <1>3, <1>8, <2>1, <2>3 DEF Work, DbAt, Pairing, DbOp
    <2>4. CASE o \in {d, u} /\ g # h
      <3>1. Work(g, o) /\ dh'[g] = dh[g] /\ dh[g].op \in Pairing
        BY <1>2, <1>3, <1>8, <2>1, <2>4 DEF DbInv
      <3> QED BY <1>3, <2>1, <3>1 DEF Work, DbAt, Pairing, IdOf
    <2> QED BY <2>2, <2>3, <2>4
  <1>9. ASSUME NEW x \in Database, NEW y \in DbUser
        PROVE  PairInv(x, y)'
    <2>1. CASE x # d \/ y # u
      <3>1. /\ SamePair(x, y) /\ (Linked(x, y)' <=> Linked(x, y)) /\ PairInv(x, y)
            /\ x \in Object /\ y \in Object
        BY <2>1 DEF DbInv, Object
      <3>2. ~OnPair(h, x, y) /\ ~OnPair(h, x, y)'
        BY <1>1, <1>2, <2>1 DEF OnPair
      <3>3. \A g \in Handler : /\ OnPair(g, x, y)' <=> OnPair(g, x, y)
                               /\ OnPair(g, x, y) => dh'[g] = dh[g]
        BY <1>2, <3>2 DEF OnPair
      <3>4. /\ \A g \in Handler : dh'[g].op = "make" \/ DbAt(g, "drop", "row")' => dh'[g] = dh[g]
            /\ \A g \in Handler : dh[g].op = "make" \/ DbAt(g, "drop", "row") => dh'[g] = dh[g]
        BY <1>1, <1>2 DEF DbAt, Pairing, DbOp
      <3>5. Active(x, y)' <=> Active(x, y)
        BY <3>1 DEF Active, SamePair
      <3> QED BY <1>3, <3>1, <3>3, <3>4, <3>5 DEF PairInv, DbAt, SamePair
    <2> QED BY <2>1
  <1>10. \A x \in Database, y \in DbUser : <<x, y>> \in priv' => y \in server'
    BY DEF DbInv, SamePair
  <1> QED BY <1>4, <1>5, <1>7, <1>8, <1>9, <1>10 DEF DbInv

-----------------------------------------------------------------------------
(* MariaDB objects: the steps *)

\* A request is asked for: whatever it disturbs is in doubt.
Asked(h, op, S, ids) ==
  /\ dh[h] = NoDbHandling /\ dh[h].op = None /\ dh[h].objects = {}
  /\ dh'[h].op = op /\ dh'[h].pc = "command" /\ dh'[h].objects = S /\ dh'[h].ids = ids
  /\ dh' \in [Handler -> DbHandling] /\ \A g \in Handler : g # h => dh'[g] = dh[g]
  /\ doubted \subseteq doubted' /\ doubted' \subseteq doubted \cup S
  /\ \A g \in Handler : Disturbs(op, S, g) => S \subseteq doubted'

LEMMA DbAsked ==
  ASSUME DbInv, NEW h \in Handler, NEW op \in DbOp, NEW S \in SUBSET Object, NEW ids \in Seq(Nat),
         AskDb(h, op, S, ids)
  PROVE  Asked(h, op, S, ids)
  <1>1. PICK x : x = [op |-> op, pc |-> "command", objects |-> S, ids |-> ids]
    OBVIOUS
  <1>2. x \in DbHandling /\ x.op = op /\ x.pc = "command" /\ x.objects = S /\ x.ids = ids
    BY <1>1 DEF DbHandling
  <1>3. dh' = [dh EXCEPT ![h] = x] /\ dh \in [Handler -> DbHandling]
    BY <1>1 DEF AskDb, DbInv, DbTypeOK
  <1>4. /\ dh[h] = NoDbHandling
        /\ doubted' = IF \E g \in Handler : Disturbs(op, S, g) THEN doubted \cup S ELSE doubted
    BY DEF AskDb
  <1> QED BY <1>2, <1>3, <1>4 DEF NoDbHandling, Asked

LEMMA MakeKeeps ==
  ASSUME AccountsInv, DbInv, NEW h \in Handler, NEW o \in Object, NEW a \in Account, Make(h, o, a),
         UNCHANGED <<user, hd, minted>>
  PROVE  DbInv'
  <1>1. /\ rowIds \in Nat /\ a \in minted /\ a # None /\ rows \in [Object -> DbRow] /\ doubted \subseteq Object
    BY AccountAssumption DEF DbInv, DbTypeOK, Make, AccountsInv, Ids, Exists
  <1>2. PICK i : i = rowIds + 1
    OBVIOUS
  <1> DEFINE made(r) == r.id = i /\ r.owner = a /\ rows' = [rows EXCEPT ![o] = r] /\ rowIds' = i
  <1>a. PICK row \in DbRow : i \in Nat /\ made(row)
    <2>1. PICK r : r = [id |-> rowIds + 1, owner |-> a]
      OBVIOUS
    <2>2. r \in DbRow /\ r.id = i /\ r.owner = a /\ i \in Nat
      BY <1>1, <1>2, <2>1 DEF DbRow
    <2>3. rows' = [rows EXCEPT ![o] = r] /\ rowIds' = i
      BY <1>2, <2>1 DEF Make
    <2>4. made(r)
      BY <2>2, <2>3
    <2> HIDE DEF made
    <2> QED BY <2>2, <2>4
  <1>3. <<i>> \in Seq(Nat) /\ <<i>>[1] = i /\ "make" \in DbOp
    BY <1>a DEF DbOp
  <1>4. AskDb(h, "make", {o}, <<i>>)
    BY <1>2, <1>a DEF Make
  <1>5. /\ dh[h].objects = {} /\ dh[h].op = None
        /\ dh'[h].op = "make" /\ dh'[h].pc = "command" /\ dh'[h].objects = {o} /\ dh'[h].ids = <<i>>
        /\ dh' \in [Handler -> DbHandling] /\ \A g \in Handler : g # h => dh'[g] = dh[g]
        /\ doubted \subseteq doubted' /\ doubted' \subseteq doubted \cup {o}
        /\ \A g \in Handler : Disturbs("make", {o}, g) => o \in doubted'
    <2>1. Asked(h, "make", {o}, <<i>>)
      BY <1>3, <1>4, DbAsked
    <2> QED BY <2>1 DEF Asked
  <1>6. \A g \in Handler : o \in dh[g].objects => ~Sure(o)'
    BY <1>5 DEF Disturbs, Sure
  <1>7. /\ rows'[o] = row /\ \A q \in Object : q # o => rows'[q] = rows[q]
        /\ UNCHANGED <<links, server, priv, shadowed>> /\ Exists(a) /\ ~Live(o)
    BY <1>1, <1>2, <1>a DEF Make, InRows
  <1>8. DbMoves(h, {o}) /\ RowMoves(o)
    BY <1>1, <1>2, <1>a, <1>5, <1>7 DEF DbMoves, RowMoves, Same
  <1>9. DbTypeOK'
    BY <1>1, <1>2, <1>a, <1>5, <1>7 DEF DbInv, DbTypeOK
  <1>10. Shape(dh[h])'
    <2>1. i \in 1..rowIds'
      BY <1>1, <1>2, <1>a
    <2> QED BY <1>5, <2>1, ObjectAssumption DEF Shape, Pairing, DbOp
  <1>11. Live(o)'
    BY <1>1, <1>2, <1>a, <1>7 DEF Live, Exists
  <1>12. ASSUME Sure(o)'
         PROVE  o \notin server /\ Work(h, o)'
    <2>1. Sure(o) /\ ~Ending(o) /\ \A g \in Handler : o \notin dh[g].objects
      BY <1>5, <1>6, <1>7, <1>12 DEF Sure, Ending
    <2>2. o \notin server
      BY <1>7, <2>1 DEF DbInv, ObjectInv
    <2>3. IdOf(dh[h], o)' = i
      BY <1>3, <1>5 DEF IdOf, Pairing
    <2>4. Solo(h, o)'
      BY <1>5, <1>6, <1>12 DEF Solo
    <2> QED BY <1>2, <1>a, <1>5, <1>7, <1>11, <2>2, <2>3, <2>4 DEF Work, DbAt
  <1>13. ObjectInv(o)'
    BY <1>5 DEF ObjectInv, Pairing
  <1>14. ASSUME NEW d \in Database, NEW u \in DbUser, o \in {d, u}, Sure(d)', Sure(u)'
         PROVE  LonePair(d, u)'
    <2>1. Sure(d) /\ Sure(u)
      BY <1>5, <1>14 DEF Sure
    <2>2. ~Active(d, u)
      BY <1>7, <1>14, <2>1 DEF DbInv, PairInv
    <2>3. ~Active(d, u)'
      BY <1>7, <2>2 DEF Active
    <2>4. ~Linked(d, u)'
      <3>1. i \notin 1..rowIds
        BY <1>1, <1>2, <1>a
      <3> QED BY <1>2, <1>a, <1>7, <1>14, <3>1 DEF Linked, DbInv
    <2> QED BY <2>3, <2>4 DEF LonePair
  <1>15. \A d \in Database, u \in DbUser : SamePair(d, u) /\ (<<d, u>> \in priv' => u \in server')
    BY <1>7 DEF SamePair, DbInv
  <1>16. "make" \notin Pairing
    BY DEF Pairing
  <1> QED BY <1>5, <1>6, <1>7, <1>8, <1>9, <1>10, <1>12, <1>13, <1>14, <1>15, <1>16, SoloKeeps

LEMMA DeleteKeeps ==
  ASSUME AccountsInv, DbInv, NEW h \in Handler, NEW o \in Object, Delete(h, o),
         UNCHANGED <<user, hd, minted>>
  PROVE  DbInv'
  <1>1. PICK i \in Nat : rows[o].id = i /\ i \in 1..rowIds /\ Live(o) /\ RowInv(o)
    BY DEF DbInv, DbTypeOK, DbRow, Delete, Live, RowInv
  <1>2. <<i>> \in Seq(Nat) /\ <<i>>[1] = i /\ "drop" \in DbOp /\ "drop" \notin Pairing
    BY DEF DbOp, Pairing
  <1>4. AskDb(h, "drop", {o}, <<i>>)
    BY <1>1 DEF Delete
  <1>5. /\ dh[h].objects = {} /\ dh[h].op = None
        /\ dh'[h].op = "drop" /\ dh'[h].pc = "command" /\ dh'[h].objects = {o} /\ dh'[h].ids = <<i>>
        /\ dh' \in [Handler -> DbHandling] /\ \A g \in Handler : g # h => dh'[g] = dh[g]
        /\ doubted \subseteq doubted' /\ doubted' \subseteq doubted \cup {o}
        /\ \A g \in Handler : Disturbs("drop", {o}, g) => o \in doubted'
    <2>1. Asked(h, "drop", {o}, <<i>>)
      BY <1>2, <1>4, DbAsked
    <2> QED BY <2>1 DEF Asked
  <1>6. \A g \in Handler : o \in dh[g].objects => ~Sure(o)'
    BY <1>5 DEF Disturbs, Sure
  <1>7. UNCHANGED <<rows, rowIds, links, server, priv, shadowed>>
    BY DEF Delete, OnServer, InRows
  <1>8. DbMoves(h, {o}) /\ RowMoves(o)
    BY <1>5, <1>7 DEF DbMoves, RowMoves, Same
  <1>9. DbTypeOK'
    BY <1>5, <1>7 DEF DbInv, DbTypeOK
  <1>10. Shape(dh[h])'
    BY <1>1, <1>5, <1>7, ObjectAssumption DEF Shape, Pairing, DbOp
  <1>11. Live(o)' /\ (Ending(o)' <=> Ending(o))
    BY <1>1, <1>7 DEF Live, Exists, Ending, At
  <1>12. ASSUME Sure(o)'
         PROVE  Work(h, o)'
    <2>1. Sure(o) /\ \A g \in Handler : o \notin dh[g].objects
      BY <1>5, <1>6, <1>12 DEF Sure
    <2>2. ~Ending(o) => o \in server
      BY <1>1, <2>1 DEF DbInv, ObjectInv
    <2>3. IdOf(dh[h], o)' = i
      BY <1>2, <1>5 DEF IdOf
    <2>4. Solo(h, o)'
      BY <1>5, <1>6, <1>12 DEF Solo
    <2> QED BY <1>1, <1>5, <1>7, <1>11, <2>2, <2>3, <2>4 DEF Work, DbAt
  <1>13. ObjectInv(o)'
    BY <1>5 DEF ObjectInv, Pairing
  <1>14. ASSUME NEW d \in Database, NEW u \in DbUser, o \in {d, u}, Sure(d)', Sure(u)'
         PROVE  LonePair(d, u)'
    <2>1. Sure(d) /\ Sure(u) /\ PairInv(d, u) /\ d \in Object /\ u \in Object
      BY <1>5, <1>14 DEF Sure, DbInv, Object
    <2>2. /\ Active(d, u)' <=> Active(d, u)
          /\ Linked(d, u)' <=> Linked(d, u)
          /\ \A q \in Object : (Live(q)' <=> Live(q)) /\ (Ending(q)' <=> Ending(q))
      BY <1>7 DEF Active, Linked, Live, Exists, Ending, At
    <2>3. \A g \in Handler : ~OnPair(g, d, u)
      BY <1>6, <1>14 DEF OnPair
    <2>4. ~DbAt(h, "drop", "row")' /\ dh'[h].op # "make"
      BY <1>5 DEF DbAt
    <2>5. ~DbAt(h, "drop", "row") /\ dh[h].op # "make"
      BY <1>5, ObjectAssumption DEF DbAt, DbOp
    <2> QED BY <1>5, <1>7, <2>1, <2>2, <2>3, <2>4, <2>5 DEF LonePair, PairInv, DbAt
  <1>15. \A d \in Database, u \in DbUser : SamePair(d, u) /\ (<<d, u>> \in priv' => u \in server')
    BY <1>7 DEF SamePair, DbInv
  <1> QED BY <1>2, <1>5, <1>6, <1>7, <1>8, <1>9, <1>10, <1>12, <1>13, <1>14, <1>15, SoloKeeps

Ended(h)    == /\ dh'[h] = NoDbHandling /\ dh'[h].op = None /\ dh'[h].objects = {}
               /\ dh' \in [Handler -> DbHandling] /\ \A g \in Handler : g # h => dh'[g] = dh[g]
Went(h, pc) == /\ dh'[h].op = dh[h].op /\ dh'[h].objects = dh[h].objects /\ dh'[h].ids = dh[h].ids
               /\ dh'[h].pc = pc
               /\ dh' \in [Handler -> DbHandling] /\ \A g \in Handler : g # h => dh'[g] = dh[g]

LEMMA DbEnds ==
  ASSUME DbInv, NEW h \in Handler, DbReply(h)
  PROVE  Ended(h)
  <1>1. NoDbHandling \in DbHandling /\ NoDbHandling.op = None /\ NoDbHandling.objects = {}
    BY DEF NoDbHandling, DbHandling
  <1> QED BY <1>1 DEF DbReply, Ended, DbInv, DbTypeOK

LEMMA DbGoes ==
  ASSUME DbInv, NEW h \in Handler, NEW pc \in {"command", "row", "undo"}, DbGoto(h, pc)
  PROVE  Went(h, pc)
  <1>1. PICK x : x = [dh[h] EXCEPT !.pc = pc]
    OBVIOUS
  <1>2. /\ x \in DbHandling /\ x.pc = pc /\ x.op = dh[h].op /\ x.objects = dh[h].objects
        /\ x.ids = dh[h].ids
    BY <1>1, DbRequestOf DEF DbHandling
  <1>3. dh' = [dh EXCEPT ![h] = x]
    BY <1>1 DEF DbGoto
  <1> QED BY <1>2, <1>3 DEF Went, DbInv, DbTypeOK

\* Page and server differ about o's privileges as before, when only the server changed.
LEMMA SoloPairs ==
  ASSUME DbInv, NEW h \in Handler, NEW o \in Object, DbMoves(h, {o}),
         UNCHANGED <<rows, links, priv, shadowed>>, doubted \subseteq doubted',
         \A g \in Handler : g # h /\ o \in dh[g].objects => ~Sure(o)',
         ~DbAt(h, "drop", "row"), ~DbAt(h, "drop", "row")', dh'[h].op = "make" => dh[h].op = "make",
         dh[h].op \notin Pairing,
         NEW d \in Database, NEW u \in DbUser, o \in {d, u}, Sure(d)', Sure(u)'
  PROVE  LonePair(d, u)'
  <1>1. Sure(d) /\ Sure(u) /\ PairInv(d, u) /\ d \in Object /\ u \in Object
    BY DEF Sure, DbInv, Object
  <1>2. /\ Active(d, u)' <=> Active(d, u)
        /\ Linked(d, u)' <=> Linked(d, u)
        /\ \A q \in Object : (Live(q)' <=> Live(q)) /\ (Ending(q)' <=> Ending(q))
    BY DEF Active, Linked, Live, Exists, Ending, At, DbMoves
  <1>3. /\ \A g \in Handler : ~OnPair(g, d, u)
        /\ \A g \in Handler : g # h => dh'[g] = dh[g]
    BY DEF OnPair, DbMoves
  <1>4. dh'[h].op = "make" => dh[h].op = "make" /\ dh[h].objects = {o} /\ dh'[h].objects \subseteq {o}
    BY ObjectOf DEF DbMoves
  <1> QED BY <1>1, <1>2, <1>3, <1>4 DEF LonePair, PairInv, DbAt

LEMMA MakeCommandKeeps ==
  ASSUME AccountsInv, DbInv, NEW h \in Handler, MakeCommand(h), UNCHANGED <<user, hd, minted>>
  PROVE  DbInv'
  <1>1. dh[h].op = "make" /\ dh[h].op \notin Pairing /\ dh[h].pc = "command"
    BY DEF MakeCommand, DbAt, Pairing
  <1>2. PICK o \in Object, i \in 1..rowIds :
          /\ dh[h].objects = {o} /\ dh[h].ids[1] = i /\ IdOf(dh[h], o) = i
          /\ Sure(o) => Live(o) /\ rows[o].id = i /\ Solo(h, o)
    BY <1>1, ObjectOf
  <1>3. /\ UNCHANGED <<rows, rowIds, links, priv, shadowed>> /\ doubted' \in SUBSET Object
        /\ doubted \subseteq doubted' /\ doubted' \subseteq doubted \cup {o}
        /\ server' \in {server, server \cup {o}}
        /\ \/ server' = server \cup {o} /\ Ended(h)
           \/ Went(h, "undo") /\ (server' = server \/ ~Sure(o)')
    <2>1. DbReply(h) => Ended(h)
      BY DbEnds
    <2>2. DbGoto(h, "undo") => Went(h, "undo")
      BY DbGoes
    <2> QED BY <1>2, <2>1, <2>2 DEF MakeCommand, Command, OnServer, Sure, DbInv, DbTypeOK
  <1>4. DbMoves(h, {o}) /\ RowMoves(o)
    BY <1>2, <1>3 DEF DbMoves, RowMoves, Same, Ended, Went
  <1>5. DbTypeOK'
    BY <1>3 DEF DbInv, DbTypeOK, Ended, Went
  <1>6. Shape(dh[h])'
    <2>1. CASE Ended(h)
      BY <2>1, ObjectAssumption DEF Ended, Shape, DbOp, Pairing
    <2>2. CASE Went(h, "undo")
      <3>1. Shape(dh[h])
        BY DbRequestOf
      <3> QED BY <1>1, <1>3, <2>2, <3>1, ObjectAssumption DEF Went, Shape, DbOp, Pairing
    <2> QED BY <1>3, <2>1, <2>2
  <1>7. \A g \in Handler : g # h /\ o \in dh[g].objects => ~Sure(o)'
    BY <1>2, <1>3 DEF Sure, Solo
  <1>8. (Live(o)' <=> Live(o)) /\ (Sure(o)' => Sure(o))
    BY <1>3 DEF Live, Exists, Sure
  <1>9. ASSUME Sure(o)', o \in dh'[h].objects
        PROVE  Work(h, o)'
    <2>1. Went(h, "undo") /\ server' = server
      BY <1>3, <1>9 DEF Ended
    <2>2. Work(h, o)
      BY <1>2, <1>8, <1>9, DbRequestOf
    <2>3. IdOf(dh[h], o)' = i
      BY <1>2, <2>1 DEF IdOf, Went
    <2>4. Solo(h, o)'
      BY <1>2, <1>8, <1>9, <2>1 DEF Solo, Went
    <2> QED BY <1>1, <1>2, <1>3, <1>8, <1>9, <2>1, <2>2, <2>3, <2>4 DEF Work, Went, DbAt
  <1>10. ObjectInv(o)'
    <2>1. CASE Ended(h)
      BY <1>2, <1>3, <1>8, <2>1 DEF ObjectInv, Ended, Went, Sure
    <2>2. CASE Went(h, "undo")
      BY <1>1, <1>2, <2>2 DEF ObjectInv, Went
    <2> QED BY <1>3, <2>1, <2>2
  <1>11. dh'[h].op \notin Pairing /\ ~DbAt(h, "drop", "row") /\ ~DbAt(h, "drop", "row")'
    BY <1>1, <1>3, ObjectAssumption DEF Ended, Went, Pairing, DbOp, DbAt
  <1>12. \A d \in Database, u \in DbUser : o \in {d, u} /\ Sure(d)' /\ Sure(u)' => LonePair(d, u)'
    BY <1>1, <1>3, <1>4, <1>7, <1>11, SoloPairs
  <1>13. \A d \in Database, u \in DbUser : SamePair(d, u) /\ (<<d, u>> \in priv' => u \in server')
    BY <1>3 DEF SamePair, DbInv
  <1> QED BY <1>3, <1>4, <1>5, <1>6, <1>7, <1>9, <1>10, <1>11, <1>12, <1>13, SoloKeeps

\* The last step of a request that takes its row away.
LEMMA ForgetKeeps ==
  ASSUME AccountsInv, DbInv, NEW h \in Handler, NEW o \in Object, dh[h].objects = {o}, Ended(h),
         UNCHANGED <<user, hd, minted, rowIds, links, server, priv, shadowed>>,
         rows' \in [Object -> DbRow], \A q \in Object : q # o => rows'[q] = rows[q],
         rows'[o] \in {rows[o], NoDbRow},
         doubted' \subseteq Object, \A q \in Object : q # o => (q \in doubted' <=> q \in doubted),
         Sure(o)' => rows'[o] = NoDbRow /\ o \notin server /\ Solo(h, o),
         \A d \in Database, u \in DbUser : o \in {d, u} /\ Sure(d)' /\ Sure(u)' => ~Active(d, u)
  PROVE  DbInv'
  <1>1. DbMoves(h, {o}) /\ RowMoves(o)
    BY DEF DbMoves, RowMoves, Same, Ended
  <1>2. DbTypeOK'
    BY DEF DbInv, DbTypeOK, Ended
  <1>3. Shape(dh[h])' /\ dh'[h].op \notin Pairing
    BY ObjectAssumption DEF Ended, Shape, DbOp, Pairing
  <1>4. \A g \in Handler : g # h /\ o \in dh[g].objects => ~Sure(o)'
    BY DEF Solo
  <1>5. rows'[o] = NoDbRow => ~Live(o)'
    BY DEF Live, NoDbRow
  <1>6. ObjectInv(o)'
    BY <1>5 DEF ObjectInv
  <1>7. ASSUME NEW d \in Database, NEW u \in DbUser, o \in {d, u}, Sure(d)', Sure(u)'
        PROVE  LonePair(d, u)'
    <2>1. ~Active(d, u)' /\ ~(Live(d)' /\ Live(u)')
      BY <1>5, <1>7 DEF Active
    <2> QED BY <2>1 DEF LonePair
  <1>8. \A d \in Database, u \in DbUser : SamePair(d, u) /\ (<<d, u>> \in priv' => u \in server')
    BY DEF SamePair, DbInv
  <1>9. o \notin dh'[h].objects
    BY DEF Ended
  <1> QED BY <1>1, <1>2, <1>3, <1>4, <1>6, <1>7, <1>8, <1>9, SoloKeeps

LEMMA Forgets ==
  ASSUME DbInv, NEW h \in Handler, NEW o \in Object, dh[h].objects = {o}, Forget(h)
  PROVE  /\ rows' \in [Object -> DbRow] /\ \A q \in Object : q # o => rows'[q] = rows[q]
         /\ rows'[o] = IF rows[o].id = dh[h].ids[1] THEN NoDbRow ELSE rows[o]
  <1>1. NoDbRow \in DbRow
    BY DEF NoDbRow, DbRow
  <1> QED BY <1>1 DEF Forget, DbInv, DbTypeOK

\* Nothing is active about an object that is going, or that did not come.
LEMMA NotActive ==
  ASSUME DbInv, NEW h \in Handler, NEW o \in Object, dh[h].objects = {o}, Sure(o),
         dh[h].op = "make" \/ DbAt(h, "drop", "row"),
         NEW d \in Database, NEW u \in DbUser, o \in {d, u}, Sure(d), Sure(u)
  PROVE  ~Active(d, u)
  <1>1. CASE d = o
    BY <1>1 DEF DbInv, PairInv
  <1>2. CASE u = o
    BY <1>2, DbRequestOf DEF Work, Active, DbInv
  <1> QED BY <1>1, <1>2

LEMMA MakeUndoKeeps ==
  ASSUME AccountsInv, DbInv, NEW h \in Handler, MakeUndo(h), UNCHANGED <<user, hd, minted>>
  PROVE  DbInv'
  <1>1. dh[h].op = "make" /\ Ended(h) /\ UNCHANGED <<rowIds, links, server, priv, shadowed>>
    BY DbEnds DEF MakeUndo, DbAt, InRows
  <1>2. PICK o \in Object, i \in 1..rowIds :
          /\ dh[h].objects = {o} /\ dh[h].ids[1] = i /\ IdOf(dh[h], o) = i
          /\ Sure(o) => Live(o) /\ rows[o].id = i /\ Solo(h, o)
    BY <1>1, ObjectOf
  <1>3. Sure(o) => o \notin server
    BY <1>1, <1>2, DbRequestOf DEF Work
  <1>4. \/ Forget(h) /\ UNCHANGED doubted
        \/ UNCHANGED rows /\ doubted' = doubted \cup {o}
    BY <1>2 DEF MakeUndo
  <1>5. /\ rows' \in [Object -> DbRow] /\ \A q \in Object : q # o => rows'[q] = rows[q]
        /\ rows'[o] \in {rows[o], NoDbRow} /\ (Sure(o)' => rows'[o] = NoDbRow)
    BY <1>2, <1>4, Forgets DEF DbInv, DbTypeOK, Sure
  <1>6. /\ \A q \in Object : q # o => (q \in doubted' <=> q \in doubted)
        /\ doubted' \subseteq Object /\ doubted \subseteq doubted'
    BY <1>4 DEF DbInv, DbTypeOK
  <1>7. \A d \in Database, u \in DbUser : o \in {d, u} /\ Sure(d)' /\ Sure(u)' => ~Active(d, u)
    BY <1>1, <1>2, <1>6, NotActive DEF Sure
  <1>8. Sure(o)' => Sure(o)
    BY <1>6 DEF Sure
  <1> QED BY <1>1, <1>2, <1>3, <1>5, <1>6, <1>7, <1>8, ForgetKeeps

LEMMA DropRowKeeps ==
  ASSUME AccountsInv, DbInv, NEW h \in Handler, DropRow(h), UNCHANGED <<user, hd, minted>>
  PROVE  DbInv'
  <1>1. /\ dh[h].op = "drop" /\ DbAt(h, "drop", "row") /\ Ended(h)
        /\ UNCHANGED <<rowIds, links, server, priv, shadowed>>
    BY DbEnds DEF DropRow, DbAt, InRows
  <1>2. PICK o \in Object, i \in 1..rowIds :
          /\ dh[h].objects = {o} /\ dh[h].ids[1] = i /\ IdOf(dh[h], o) = i
          /\ Sure(o) => Live(o) /\ rows[o].id = i /\ Solo(h, o)
    BY <1>1, ObjectOf
  <1>3. Sure(o) => o \notin server
    BY <1>1, <1>2, DbRequestOf DEF Work
  <1> DEFINE settled(q) == /\ On(q) = {h} /\ q \notin server /\ rows'[q] = NoDbRow
                           /\ \A p \in priv \ shadowed : q \notin {p[1], p[2]}
  <1>4. \/ Forget(h) /\ doubted' = doubted \ {q \in dh[h].objects : settled(q)}
        \/ UNCHANGED rows /\ doubted' = doubted \cup {o}
    BY <1>2 DEF DropRow
  <1>5. /\ rows' \in [Object -> DbRow] /\ \A q \in Object : q # o => rows'[q] = rows[q]
        /\ rows'[o] \in {rows[o], NoDbRow}
    BY <1>2, <1>4, Forgets DEF DbInv, DbTypeOK
  <1>6. /\ \A q \in Object : q # o => (q \in doubted' <=> q \in doubted)
        /\ doubted' \subseteq Object
    BY <1>2, <1>4 DEF DbInv, DbTypeOK
  <1>7. Sure(o)' => (Sure(o) /\ rows'[o] = NoDbRow) \/ settled(o)
    <2>1. CASE Forget(h) /\ doubted' = doubted \ {q \in dh[h].objects : settled(q)}
      <3>1. Sure(o) => rows'[o] = NoDbRow
        BY <1>2, <2>1, Forgets
      <3> QED BY <1>2, <2>1, <3>1 DEF Sure
    <2>2. CASE UNCHANGED rows /\ doubted' = doubted \cup {o}
      BY <2>2 DEF Sure
    <2> QED BY <1>4, <2>1, <2>2
  <1>8. settled(o) => Solo(h, o) /\ o \notin server /\ rows'[o] = NoDbRow
    BY DEF On, Solo
  <1>9. Sure(o)' => rows'[o] = NoDbRow /\ o \notin server /\ Solo(h, o)
    <2> HIDE DEF settled
    <2> QED BY <1>2, <1>3, <1>7, <1>8
  <1>10. ASSUME NEW d \in Database, NEW u \in DbUser, o \in {d, u}, Sure(d)', Sure(u)'
         PROVE  ~Active(d, u)
    <2>1. CASE settled(o)
      BY <1>10, <2>1 DEF Active
    <2>2. CASE Sure(o)
      <3>1. Sure(d) /\ Sure(u)
        BY <1>6, <1>10, <2>2 DEF Sure, Object
      <3> QED BY <1>1, <1>2, <1>10, <2>2, <3>1, NotActive
    <2> HIDE DEF settled
    <2> QED BY <1>7, <1>10, <2>1, <2>2
  <1> QED BY <1>1, <1>2, <1>5, <1>6, <1>9, <1>10, ForgetKeeps

\* What the server drops, and the privileges with it; those on a database stay behind.
LEMMA Drops ==
  ASSUME DbInv, NEW gone \in SUBSET Object, Drop(gone)
  PROVE  /\ server' = server \ gone /\ priv' \subseteq priv /\ shadowed' \subseteq priv'
         /\ \A d \in Database, u \in DbUser :
              /\ <<d, u>> \in priv' <=> <<d, u>> \in priv /\ u \notin gone
              /\ Active(d, u)' <=> Active(d, u) /\ d \notin gone /\ u \notin gone
              /\ d \notin gone /\ u \notin gone => SamePair(d, u)
              /\ <<d, u>> \in priv' => u \in server'
  <1>1. /\ priv' = {p \in priv : p[2] \notin gone} /\ server' = server \ gone
        /\ shadowed' = {p \in shadowed \cup {q \in priv : q[1] \in gone} : p[2] \notin gone}
        /\ shadowed \subseteq priv
    BY DEF Drop, DbInv, DbTypeOK
  <1>2. \A d \in Database, u \in DbUser :
          /\ <<d, u>> \in priv' <=> <<d, u>> \in priv /\ u \notin gone
          /\ <<d, u>> \in shadowed' <=> /\ <<d, u>> \in shadowed \/ (<<d, u>> \in priv /\ d \in gone)
                                        /\ u \notin gone
    BY <1>1
  <1> QED BY <1>1, <1>2 DEF Active, SamePair, DbInv

LEMMA DropCommandKeeps ==
  ASSUME AccountsInv, DbInv, NEW h \in Handler, DropCommand(h), UNCHANGED <<user, hd, minted>>
  PROVE  DbInv'
  <1>1. dh[h].op = "drop" /\ dh[h].op \notin Pairing /\ DbAt(h, "drop", "command")
    BY DEF DropCommand, DbAt, Pairing
  <1>2. PICK o \in Object, i \in 1..rowIds :
          /\ dh[h].objects = {o} /\ dh[h].ids[1] = i /\ IdOf(dh[h], o) = i
          /\ Sure(o) => Live(o) /\ rows[o].id = i /\ Solo(h, o)
    BY <1>1, ObjectOf
  <1>3. /\ UNCHANGED <<rows, rowIds, links>> /\ doubted' \in SUBSET Object
        /\ doubted \subseteq doubted' /\ doubted' \subseteq doubted \cup {o}
        /\ \/ Drop({o}) /\ Went(h, "row")
           \/ UNCHANGED <<server, priv, shadowed>> /\ Ended(h)
           \/ Drop({o}) /\ Ended(h) /\ ~Sure(o)'
    <2>1. DbReply(h) => Ended(h)
      BY DbEnds
    <2>2. DbGoto(h, "row") => Went(h, "row")
      BY DbGoes
    <2> QED BY <1>2, <2>1, <2>2 DEF DropCommand, Command, OnServer, Sure, DbInv, DbTypeOK
  <1>4. Drop({o}) =>
          /\ server' = server \ {o} /\ priv' \subseteq priv /\ shadowed' \subseteq priv'
          /\ \A d \in Database, u \in DbUser :
              /\ <<d, u>> \in priv' <=> <<d, u>> \in priv /\ u \notin {o}
              /\ Active(d, u)' <=> Active(d, u) /\ d \notin {o} /\ u \notin {o}
              /\ d \notin {o} /\ u \notin {o} => SamePair(d, u)
              /\ <<d, u>> \in priv' => u \in server'
    BY Drops
  <1>5. /\ server' \subseteq server /\ priv' \subseteq priv /\ shadowed' \subseteq priv'
        /\ \A q \in Object : q # o => (q \in server' <=> q \in server)
        /\ \A d \in Database, u \in DbUser :
             /\ d # o /\ u # o => SamePair(d, u)
             /\ <<d, u>> \in priv' => u \in server'
    BY <1>3, <1>4 DEF DbInv, DbTypeOK, SamePair
  <1>6. DbMoves(h, {o}) /\ RowMoves(o)
    BY <1>2, <1>3, <1>5 DEF DbMoves, RowMoves, Same, Ended, Went
  <1>7. DbTypeOK'
    BY <1>3, <1>5 DEF DbInv, DbTypeOK, Ended, Went
  <1>8. Shape(dh[h])'
    <2>1. CASE Ended(h)
      BY <2>1, ObjectAssumption DEF Ended, Shape, DbOp, Pairing
    <2>2. CASE Went(h, "row")
      <3>1. Shape(dh[h])
        BY DbRequestOf
      <3> QED BY <1>1, <1>3, <2>2, <3>1, ObjectAssumption DEF Went, Shape, DbOp, Pairing
    <2> QED BY <1>3, <2>1, <2>2
  <1>9. \A g \in Handler : g # h /\ o \in dh[g].objects => ~Sure(o)'
    BY <1>2, <1>3 DEF Sure, Solo
  <1>10. /\ \A q \in Object : (Live(q)' <=> Live(q)) /\ (Ending(q)' <=> Ending(q)) /\ (Sure(q)' => Sure(q))
    BY <1>3 DEF Live, Exists, Sure, Ending, At
  <1>11. ASSUME Sure(o)', o \in dh'[h].objects
         PROVE  Work(h, o)'
    <2>1. Went(h, "row") /\ server' = server \ {o}
      BY <1>3, <1>4, <1>11 DEF Ended
    <2>2. Live(o) /\ rows[o].id = i /\ Solo(h, o)
      BY <1>2, <1>10, <1>11
    <2>3. IdOf(dh[h], o)' = i
      BY <1>2, <2>1 DEF IdOf, Went
    <2>4. Solo(h, o)'
      BY <2>2, <2>1 DEF Solo, Went
    <2> QED BY <1>3, <1>10, <2>1, <2>2, <2>3, <2>4 DEF Work, Went, DbAt
  <1>12. ObjectInv(o)'
    <2>1. CASE UNCHANGED server /\ Ended(h)
      <3>1. Sure(o) => Work(h, o)
        BY <1>2, DbRequestOf
      <3> QED BY <1>1, <1>2, <1>10, <2>1, <3>1 DEF ObjectInv, Work
    <2>2. CASE Went(h, "row")
      BY <1>1, <1>2, <2>2 DEF ObjectInv, Went
    <2>3. CASE ~Sure(o)'
      BY <2>3 DEF ObjectInv
    <2> QED BY <1>3, <2>1, <2>2, <2>3
  <1>13. dh'[h].op \notin Pairing
    BY <1>1, <1>3, ObjectAssumption DEF Ended, Went, Pairing, DbOp
  <1>14. ASSUME NEW d \in Database, NEW u \in DbUser, o \in {d, u}, Sure(d)', Sure(u)'
         PROVE  LonePair(d, u)'
    <2>1. CASE UNCHANGED <<server, priv, shadowed>> /\ Ended(h)
      <3>1. ~DbAt(h, "drop", "row") /\ ~DbAt(h, "drop", "row")' /\ dh'[h].op # "make"
        BY <1>1, <2>1, ObjectAssumption DEF DbAt, Ended, DbOp
      <3> QED BY <1>1, <1>3, <1>6, <1>9, <1>14, <2>1, <3>1, SoloPairs
    <2>2. CASE Drop({o}) /\ Went(h, "row")
      <3>1. /\ ~Active(d, u)' /\ (<<d, u>> \in priv' <=> <<d, u>> \in priv /\ u # o)
            /\ Linked(d, u)' <=> Linked(d, u)
        BY <1>3, <1>4, <1>14, <2>2 DEF Linked
      <3>2. /\ DbAt(h, "drop", "row")' /\ dh'[h].objects = {o}
            /\ \A g \in Handler : DbAt(g, "drop", "row") => dh'[g] = dh[g]
        BY <1>1, <1>2, <2>2 DEF DbAt, Went
      <3>3. Sure(d) /\ Sure(u) /\ PairInv(d, u) /\ d \in Object /\ u \in Object
        BY <1>10, <1>14 DEF DbInv, Object
      <3>4. \A g \in Handler : OnPair(g, d, u) => FALSE
        BY <1>1, <1>9, <1>14 DEF OnPair
      <3> QED BY <1>10, <3>1, <3>2, <3>3, <3>4 DEF LonePair, PairInv, DbAt
    <2> QED BY <1>3, <1>14, <2>1, <2>2 DEF Sure
  <1> QED BY <1>3, <1>5, <1>6, <1>7, <1>8, <1>9, <1>11, <1>12, <1>13, <1>14, SoloKeeps

\* Who shares an object nothing is in doubt about with a request about a pair is about a
\* pair as well.
LEMMA PairShared ==
  ASSUME DbInv, NEW h \in Handler, dh[h].op \in Pairing, NEW g \in Handler, g # h,
         NEW q \in dh[h].objects, q \in dh[g].objects, Sure(q)
  PROVE  dh[g].op \in Pairing
  <1>1. Work(g, q)
    BY DbRequestOf
  <1> QED BY <1>1 DEF Work, Solo

LEMMA PairStep ==
  ASSUME AccountsInv, DbInv, NEW h \in Handler, dh[h].op \in Pairing,
         NEW d \in Database, NEW u \in DbUser, dh[h].objects = {d, u},
         NEW i, NEW k, dh[h].ids[1] = i, dh[h].ids[2] = k,
         Ended(h) \/ Went(h, "row") \/ (Went(h, "undo") /\ dh[h].op = "grant"),
         UNCHANGED <<user, hd, minted, rows, rowIds>>,
         doubted \subseteq doubted', doubted' \subseteq doubted \cup {d, u},
         server' \in {server, server \cup {u}},
         priv' \subseteq priv \cup {<<d, u>>}, shadowed' \subseteq priv',
         \A x \in Database, y \in DbUser : x # d \/ y # u => SamePair(x, y),
         links' \subseteq links \cup {<<i, k>>}, links \subseteq links' \cup {<<i, k>>},
         <<d, u>> \in priv' => u \in server',
         Sure(d)' /\ Sure(u)' =>
           /\ ~Ended(h) /\ dh[h].op = "grant" => <<d, u>> \in priv'
           /\ ~Ended(h) /\ dh[h].op = "revoke" => <<d, u>> \notin priv'
           /\ Linked(d, u)' /\ <<d, u>> \notin priv' => Ending(u) \/ (~Ended(h) /\ dh[h].op = "revoke")
           /\ ~Linked(d, u)' /\ Active(d, u)' => ~Ended(h) /\ dh[h].op = "grant"
  PROVE  DbInv'
  <1>1. /\ d \in Object /\ u \in Object /\ d # u /\ d \notin DbUser /\ u \notin Database /\ None \notin DbOp
        /\ Pairing \subseteq DbOp
    BY ObjectAssumption DEF Object, Pairing, DbOp
  <1>2. /\ i \in 1..rowIds /\ k \in 1..rowIds
        /\ \A o \in Object : (rows[o].id = i => o = d) /\ (rows[o].id = k => o = u)
        /\ IdOf(dh[h], d) = i /\ IdOf(dh[h], u) = k
        /\ Sure(d) => Live(d) /\ rows[d].id = i
        /\ Sure(u) => Live(u) /\ rows[u].id = k
        /\ OnPair(h, d, u)
    <2>1. PICK dd \in Database, uu \in DbUser, ii \in 1..rowIds, kk \in 1..rowIds :
            /\ dh[h].objects = {dd, uu} /\ dh[h].ids[1] = ii /\ dh[h].ids[2] = kk
            /\ IdOf(dh[h], dd) = ii /\ IdOf(dh[h], uu) = kk
            /\ \A o \in Object : (rows[o].id = ii => o = dd) /\ (rows[o].id = kk => o = uu)
            /\ Sure(dd) => Live(dd) /\ rows[dd].id = ii
            /\ Sure(uu) => Live(uu) /\ rows[uu].id = kk
            /\ \A x \in Database, y \in DbUser : OnPair(h, x, y) <=> x = dd /\ y = uu
      BY PairOf
    <2>2. dd \notin DbUser /\ uu \notin Database
      BY ObjectAssumption
    <2>3. dd = d /\ uu = u
      BY <1>1, <2>1, <2>2
    <2> QED BY <2>1, <2>3
  <1>3. DbMoves(h, {d, u})
    BY <1>1 DEF DbMoves, Same, Ended, Went
  <1>4. DbTypeOK'
    <2>1. links' \subseteq Nat \X Nat
      <3>1. <<i, k>> \in Nat \X Nat
        BY <1>2 DEF DbInv, DbTypeOK
      <3> QED BY <3>1 DEF DbInv, DbTypeOK
    <2>2. server' \subseteq Object /\ doubted' \subseteq Object /\ priv' \subseteq Database \X DbUser
      BY <1>1 DEF DbInv, DbTypeOK
    <2> QED BY <2>1, <2>2 DEF DbInv, DbTypeOK, Ended, Went
  <1>5. Shape(dh[h])' /\ dh[h].op \in Pairing \cup {None} /\ dh'[h].op \in Pairing \cup {None}
    <2>1. CASE Ended(h)
      BY <1>1, <2>1 DEF Ended, Shape, DbOp, Pairing
    <2>2. CASE Went(h, "row") \/ (Went(h, "undo") /\ dh[h].op = "grant")
      <3>1. Shape(dh[h])
        BY DbRequestOf
      <3> QED BY <1>1, <2>2, <3>1 DEF Went, Shape, DbOp, Pairing
    <2> QED BY <2>1, <2>2
  <1>6. /\ \A q \in Object : (Live(q)' <=> Live(q)) /\ (Ending(q)' <=> Ending(q)) /\ (Sure(q)' => Sure(q))
    BY DEF Live, Exists, Sure, Ending, At
  <1>7. \A g \in Handler : \A o \in {d, u} : g # h /\ o \in dh[g].objects /\ Sure(o)' => dh[g].op \in Pairing
    BY <1>1, <1>6, PairShared
  <1>8. server' = server \/ (server' = server \cup {u} /\ (Sure(u)' => Live(u)))
    BY <1>1, <1>2, <1>6
  <1>9. \A x \in Database, y \in DbUser : x # d \/ y # u => (Linked(x, y)' <=> Linked(x, y))
    <2> SUFFICES ASSUME NEW x \in Database, NEW y \in DbUser, x # d \/ y # u
                 PROVE  Linked(x, y)' <=> Linked(x, y)
      OBVIOUS
    <2>1. <<rows[x].id, rows[y].id>> # <<i, k>>
      BY <1>2 DEF Object
    <2> QED BY <2>1 DEF Linked
  <1>10. \A a, b : <<a, b>> \in links' => a \in 1..rowIds /\ b \in 1..rowIds
    BY <1>2 DEF DbInv
  <1>11. \A o \in dh'[h].objects : Sure(o)' => Live(o) /\ rows[o].id = IdOf(dh[h], o)'
    <2>1. CASE Ended(h)
      BY <2>1 DEF Ended
    <2>2. CASE dh'[h].op = dh[h].op /\ dh'[h].ids = dh[h].ids /\ dh'[h].objects = dh[h].objects
      <3>1. \A o : IdOf(dh[h], o)' = IdOf(dh[h], o)
        BY <2>2 DEF IdOf
      <3> QED BY <1>1, <1>2, <1>6, <2>2, <3>1
    <2> QED BY <2>1, <2>2 DEF Went
  <1>12. ASSUME Sure(d)', Sure(u)'
         PROVE  PairInv(d, u)'
    <2>1. Sure(d) /\ Sure(u) /\ PairInv(d, u) /\ Live(d) /\ Live(u)
      BY <1>1, <1>2, <1>6, <1>12 DEF DbInv
    <2>2. /\ \A g \in Handler : OnPair(g, d, u) => g = h
          /\ rows[d].owner = rows[u].owner
      BY <1>2, <2>1 DEF PairInv
    <2>3. \A g \in Handler : OnPair(g, d, u)' => g = h /\ ~Ended(h)
      BY <2>2 DEF Ended, Went, OnPair
    <2>4. \A g \in Handler : g # h => ~(d \in dh'[g].objects /\ (dh'[g].op = "make" \/ DbAt(g, "drop", "row")'))
      BY <1>7, <1>12 DEF DbAt, Ended, Went, Pairing
    <2>5. dh'[h].op # "make" /\ dh'[h].op # "drop"
      BY <1>1, <1>5 DEF DbAt, Pairing, DbOp
    <2>6. ~Ended(h) => /\ dh'[h].op = dh[h].op /\ OnPair(h, d, u)' /\ dh'[h].pc # "command"
                       /\ dh[h].op = "revoke" => DbAt(h, "revoke", "row")'
      BY <1>2 DEF Went, OnPair, DbAt
    <2>7. dh[h].op \in {"grant", "revoke"}
      BY DEF Pairing
    <2>8. /\ \A g \in Handler : OnPair(g, d, u)' =>
               /\ dh'[g].op = "grant" /\ dh'[g].pc # "command" => <<d, u>> \in priv'
               /\ DbAt(g, "revoke", "row")' => <<d, u>> \notin priv'
      BY <1>12, <2>3, <2>6, <2>7 DEF DbAt
    <2>9. /\ Linked(d, u)' /\ <<d, u>> \notin priv' =>
               Ending(u)' \/ \E g \in Handler : OnPair(g, d, u)' /\ DbAt(g, "revoke", "row")'
          /\ ~Linked(d, u)' /\ Active(d, u)' =>
               \E g \in Handler : OnPair(g, d, u)' /\ dh'[g].op = "grant" /\ dh'[g].pc # "command"
      BY <1>1, <1>6, <1>12, <2>6
    <2> QED BY <1>1, <1>6, <2>1, <2>2, <2>3, <2>4, <2>5, <2>8, <2>9 DEF PairInv, DbAt
  <1>13. PairInv(d, u)'
    BY <1>12 DEF PairInv
  <1> QED BY <1>3, <1>4, <1>5, <1>7, <1>8, <1>9, <1>10, <1>11, <1>13, PairKeeps

\* What a request about a pair knows, before it steps.
LEMMA PairBefore ==
  ASSUME DbInv, NEW h \in Handler, dh[h].op \in Pairing
  PROVE  \E d \in Database, u \in DbUser, i \in 1..rowIds, k \in 1..rowIds :
           /\ dh[h].objects = {d, u} /\ Pair(h) = <<d, u>> /\ dh[h].ids[1] = i /\ dh[h].ids[2] = k
           /\ d \in Object /\ u \in Object
           /\ Sure(d) /\ Sure(u) =>
                /\ rows[d].id = i /\ rows[u].id = k /\ (Linked(d, u) <=> <<i, k>> \in links)
                /\ dh[h].op = "grant" /\ dh[h].pc # "command" => <<d, u>> \in priv
                /\ DbAt(h, "revoke", "row") => <<d, u>> \notin priv
                /\ Linked(d, u) /\ <<d, u>> \notin priv => Ending(u) \/ DbAt(h, "revoke", "row")
                /\ ~Linked(d, u) /\ Active(d, u) => dh[h].op = "grant" /\ dh[h].pc # "command"
  <1>1. PICK d \in Database, u \in DbUser, i \in 1..rowIds, k \in 1..rowIds :
          /\ dh[h].objects = {d, u} /\ Pair(h) = <<d, u>> /\ dh[h].ids[1] = i /\ dh[h].ids[2] = k
          /\ Sure(d) => Live(d) /\ rows[d].id = i
          /\ Sure(u) => Live(u) /\ rows[u].id = k
          /\ \A x \in Database, y \in DbUser : OnPair(h, x, y) <=> x = d /\ y = u
    BY PairOf
  <1>2. d \in Object /\ u \in Object /\ PairInv(d, u) /\ OnPair(h, d, u)
    BY <1>1 DEF DbInv, Object
  <1>3. ASSUME Sure(d), Sure(u)
        PROVE  /\ rows[d].id = i /\ rows[u].id = k /\ (Linked(d, u) <=> <<i, k>> \in links)
               /\ dh[h].op = "grant" /\ dh[h].pc # "command" => <<d, u>> \in priv
               /\ DbAt(h, "revoke", "row") => <<d, u>> \notin priv
               /\ Linked(d, u) /\ <<d, u>> \notin priv => Ending(u) \/ DbAt(h, "revoke", "row")
               /\ ~Linked(d, u) /\ Active(d, u) => dh[h].op = "grant" /\ dh[h].pc # "command"
    <2>1. \A g \in Handler : u \in dh[g].objects => ~DbAt(g, "drop", "row")
      <3>1. ASSUME NEW g \in Handler, u \in dh[g].objects, DbAt(g, "drop", "row")
            PROVE  FALSE
        <4>1. g # h /\ u \in dh[h].objects /\ dh[g].op \notin Pairing
          BY <1>1, <3>1 DEF DbAt, Pairing
        <4> QED BY <1>3, <3>1, <4>1, PairShared
      <3> QED BY <3>1
    <2>2. \A g \in Handler : OnPair(g, d, u) => g = h
      BY <1>2, <1>3 DEF PairInv
    <2>3. rows[d].id = i /\ rows[u].id = k /\ (Linked(d, u) <=> <<i, k>> \in links)
      BY <1>1, <1>3 DEF Linked
    <2>4. Live(d) /\ Live(u)
      BY <1>1, <1>3
    <2> QED BY <1>2, <1>3, <2>1, <2>2, <2>3, <2>4 DEF PairInv
  <1> QED BY <1>1, <1>2, <1>3

LEMMA AskPairKeeps ==
  ASSUME AccountsInv, DbInv, NEW h \in Handler, NEW d \in Database, NEW u \in DbUser,
         NEW op \in {"grant", "revoke"}, AskPair(h, op, d, u), UNCHANGED <<user, hd, minted>>
  PROVE  DbInv'
  <1>1. /\ d \in Object /\ u \in Object /\ d \notin DbUser /\ u \notin Database /\ op \in DbOp /\ op \in Pairing
        /\ Live(d) /\ Live(u) /\ rows[d].owner = rows[u].owner /\ RowInv(d) /\ RowInv(u)
    BY ObjectAssumption DEF Object, DbOp, Pairing, AskPair, DbInv
  <1>2. PICK i \in Nat, k \in Nat : rows[d].id = i /\ rows[u].id = k
    BY <1>1 DEF DbInv, DbTypeOK, DbRow
  <1>3. /\ i \in 1..rowIds /\ k \in 1..rowIds /\ i # 0 /\ k # 0
        /\ \A o \in Object : (rows[o].id = i => o = d) /\ (rows[o].id = k => o = u)
    BY <1>1, <1>2 DEF RowInv, Live, DbInv, DbTypeOK
  <1>4. <<i, k>> \in Seq(Nat) /\ <<i, k>>[1] = i /\ <<i, k>>[2] = k /\ {d, u} \in SUBSET Object
    BY <1>1
  <1>5. AskDb(h, op, {d, u}, <<i, k>>) /\ UNCHANGED <<rows, rowIds, links, server, priv, shadowed>>
    BY <1>2 DEF AskPair, OnServer, InRows
  <1>6. /\ dh[h].objects = {} /\ dh[h].op = None
        /\ dh'[h].op = op /\ dh'[h].pc = "command" /\ dh'[h].objects = {d, u} /\ dh'[h].ids = <<i, k>>
        /\ dh' \in [Handler -> DbHandling] /\ \A g \in Handler : g # h => dh'[g] = dh[g]
        /\ doubted \subseteq doubted' /\ doubted' \subseteq doubted \cup {d, u}
        /\ \A g \in Handler : Disturbs(op, {d, u}, g) => {d, u} \subseteq doubted'
    <2>1. Asked(h, op, {d, u}, <<i, k>>)
      BY <1>1, <1>4, <1>5, DbAsked
    <2> QED BY <2>1 DEF Asked
  <1>7. DbMoves(h, {d, u})
    BY <1>5, <1>6 DEF DbMoves, Same
  <1>8. DbTypeOK'
    BY <1>1, <1>5, <1>6 DEF DbInv, DbTypeOK
  <1>9. Shape(dh[h])'
    BY <1>1, <1>3, <1>4, <1>5, <1>6, ObjectAssumption DEF Shape, Pairing, DbOp
  <1>10. \A g \in Handler : \A o \in {d, u} : g # h /\ o \in dh[g].objects /\ Sure(o)' => dh[g].op \in Pairing
    BY <1>1, <1>6 DEF Disturbs, Sure, Pairing
  <1>11. \A x \in Database, y \in DbUser : SamePair(x, y) /\ (Linked(x, y)' <=> Linked(x, y))
    BY <1>5 DEF SamePair, Linked
  <1>12. \A o \in dh'[h].objects : Sure(o)' => Live(o) /\ rows[o].id = IdOf(dh[h], o)'
    BY <1>1, <1>2, <1>4, <1>6 DEF IdOf
  <1>13. ASSUME Sure(d)', Sure(u)'
         PROVE  PairInv(d, u)'
    <2>1. Sure(d) /\ Sure(u) /\ PairInv(d, u)
      BY <1>6, <1>13 DEF Sure, DbInv
    <2>2. /\ \A q \in Object : (Live(q)' <=> Live(q)) /\ (Ending(q)' <=> Ending(q))
          /\ (Active(d, u)' <=> Active(d, u)) /\ (Linked(d, u)' <=> Linked(d, u))
      BY <1>5 DEF Live, Exists, Ending, At, Active, Linked
    <2>3. ASSUME NEW g \in Handler, OnPair(g, d, u)
          PROVE  FALSE
      <3>1. PICK x \in Database, y \in DbUser : dh[g].objects = {x, y}
        BY <2>3, PairOf DEF OnPair
      <3>2. dh[g].objects = {d, u}
        BY <2>3, <3>1, <1>1, ObjectAssumption DEF OnPair
      <3> QED BY <1>1, <1>6, <1>13, <2>3, <3>2 DEF Disturbs, Sure, OnPair, Pairing
    <2>4. \A g \in Handler : OnPair(g, d, u)' => g = h
      BY <1>6, <2>3 DEF OnPair
    <2>5. dh'[h].pc = "command" /\ dh'[h].op # "make" /\ dh[h].objects = {}
      BY <1>1, <1>6
    <2> QED BY <1>1, <1>5, <1>6, <2>1, <2>2, <2>3, <2>4, <2>5 DEF PairInv, DbAt
  <1>14. PairInv(d, u)'
    BY <1>13 DEF PairInv
  <1>15. /\ <<d, u>> \in priv' => u \in server'
         /\ \A x, y : <<x, y>> \in links' => x \in 1..rowIds /\ y \in 1..rowIds
    BY <1>5 DEF DbInv
  <1> QED BY <1>1, <1>5, <1>6, <1>7, <1>8, <1>9, <1>10, <1>11, <1>12, <1>14, <1>15, PairKeeps

LEMMA GrantCommandKeeps ==
  ASSUME AccountsInv, DbInv, NEW h \in Handler, GrantCommand(h), UNCHANGED <<user, hd, minted>>
  PROVE  DbInv'
  <1>1. dh[h].op = "grant" /\ dh[h].pc = "command" /\ dh[h].op \in Pairing
    BY DEF GrantCommand, DbAt, Pairing
  <1>2. PICK d \in Database, u \in DbUser, i \in 1..rowIds, k \in 1..rowIds :
           /\ dh[h].objects = {d, u} /\ Pair(h) = <<d, u>> /\ dh[h].ids[1] = i /\ dh[h].ids[2] = k
           /\ d \in Object /\ u \in Object
           /\ Sure(d) /\ Sure(u) =>
                /\ rows[d].id = i /\ rows[u].id = k /\ (Linked(d, u) <=> <<i, k>> \in links)
                /\ dh[h].op = "grant" /\ dh[h].pc # "command" => <<d, u>> \in priv
                /\ DbAt(h, "revoke", "row") => <<d, u>> \notin priv
                /\ Linked(d, u) /\ <<d, u>> \notin priv => Ending(u) \/ DbAt(h, "revoke", "row")
                /\ ~Linked(d, u) /\ Active(d, u) => dh[h].op = "grant" /\ dh[h].pc # "command"
    BY <1>1, PairBefore
  <1>3. /\ DbReply(h) => Ended(h)
        /\ \A pc \in {"row", "undo"} : DbGoto(h, pc) => Went(h, pc)
    BY DbEnds, DbGoes
  <1>4. UNCHANGED <<rows, rowIds>>
    BY DEF GrantCommand, OnServer, InRows
  <1>5. /\ UNCHANGED <<links, shadowed>>
        /\ \/ /\ server' = server \cup {u} /\ priv' = priv \cup {<<d, u>>} /\ Went(h, "row")
              /\ doubted' = doubted
           \/ UNCHANGED <<server, priv>> /\ Ended(h) /\ doubted' = doubted
           \/ /\ server' = server \cup {u} /\ priv' = priv \cup {<<d, u>>} /\ Ended(h)
              /\ doubted' = doubted \cup {d, u}
    BY <1>2, <1>3 DEF GrantCommand, Command, OnServer
  <1>6. doubted \subseteq doubted' /\ doubted' \subseteq doubted \cup {d, u}
    BY <1>5
  <1>7. ~Sure(d)' \/ ~Sure(u)' \/ (Sure(d) /\ Sure(u) /\ doubted' = doubted)
    BY <1>5, <1>6 DEF Sure
  <1>8. Linked(d, u)' <=> <<rows[d].id, rows[u].id>> \in links'
    BY <1>4 DEF Linked
  <1>9. \A x \in Database, y \in DbUser : x # d \/ y # u => SamePair(x, y)
    BY <1>5 DEF SamePair
  <1>10. /\ priv' \subseteq priv \cup {<<d, u>>} /\ shadowed' \subseteq priv'
         /\ server' \in {server, server \cup {u}} /\ (<<d, u>> \in priv' => u \in server')
         /\ links' \subseteq links \cup {<<i, k>>} /\ links \subseteq links' \cup {<<i, k>>}
    BY <1>5 DEF DbInv, DbTypeOK
  <1>11. Ended(h) \/ Went(h, "row") \/ (Went(h, "undo") /\ dh[h].op = "grant")
    BY <1>1, <1>5
  <1>12. Ended(h) => ~Went(h, "row") /\ ~Went(h, "undo")
    BY <1>1, ObjectAssumption DEF Ended, Went, DbOp
  <1>13. ASSUME Sure(d)', Sure(u)'
         PROVE  /\ ~Ended(h) /\ dh[h].op = "grant" => <<d, u>> \in priv'
                /\ ~Ended(h) /\ dh[h].op = "revoke" => <<d, u>> \notin priv'
                /\ Linked(d, u)' /\ <<d, u>> \notin priv' => Ending(u) \/ (~Ended(h) /\ dh[h].op = "revoke")
                /\ ~Linked(d, u)' /\ Active(d, u)' => ~Ended(h) /\ dh[h].op = "grant"
    <2>1. Sure(d) /\ Sure(u) /\ doubted' = doubted
      BY <1>7, <1>13
    <2> QED BY <1>1, <1>2, <1>5, <1>8, <1>12, <1>13, <2>1 DEF Active, DbAt, Sure
  <1> QED BY <1>1, <1>2, <1>4, <1>6, <1>9, <1>10, <1>11, <1>13, PairStep

LEMMA GrantKeeps ==
  ASSUME AccountsInv, DbInv, NEW h \in Handler, Grant(h), UNCHANGED <<user, hd, minted>>
  PROVE  DbInv'
  <1>1. dh[h].op = "grant" /\ dh[h].pc = "row" /\ dh[h].op \in Pairing
    BY DEF Grant, DbAt, Pairing
  <1>2. PICK d \in Database, u \in DbUser, i \in 1..rowIds, k \in 1..rowIds :
           /\ dh[h].objects = {d, u} /\ Pair(h) = <<d, u>> /\ dh[h].ids[1] = i /\ dh[h].ids[2] = k
           /\ d \in Object /\ u \in Object
           /\ Sure(d) /\ Sure(u) =>
                /\ rows[d].id = i /\ rows[u].id = k /\ (Linked(d, u) <=> <<i, k>> \in links)
                /\ dh[h].op = "grant" /\ dh[h].pc # "command" => <<d, u>> \in priv
                /\ DbAt(h, "revoke", "row") => <<d, u>> \notin priv
                /\ Linked(d, u) /\ <<d, u>> \notin priv => Ending(u) \/ DbAt(h, "revoke", "row")
                /\ ~Linked(d, u) /\ Active(d, u) => dh[h].op = "grant" /\ dh[h].pc # "command"
    BY <1>1, PairBefore
  <1>3. /\ DbReply(h) => Ended(h)
        /\ \A pc \in {"row", "undo"} : DbGoto(h, pc) => Went(h, pc)
    BY DbEnds, DbGoes
  <1>4. UNCHANGED <<rows, rowIds>>
    BY DEF Grant, OnServer, InRows
  <1>5. /\ UNCHANGED <<server, priv, shadowed>> /\ doubted' = doubted
        /\ \/ links' = links \cup {<<i, k>>} /\ Ended(h)
           \/ links' = links /\ Went(h, "undo")
    BY <1>2, <1>3 DEF Grant, InRows
  <1>6. doubted \subseteq doubted' /\ doubted' \subseteq doubted \cup {d, u}
    BY <1>5
  <1>7. ~Sure(d)' \/ ~Sure(u)' \/ (Sure(d) /\ Sure(u) /\ doubted' = doubted)
    BY <1>5, <1>6 DEF Sure
  <1>8. Linked(d, u)' <=> <<rows[d].id, rows[u].id>> \in links'
    BY <1>4 DEF Linked
  <1>9. \A x \in Database, y \in DbUser : x # d \/ y # u => SamePair(x, y)
    BY <1>5 DEF SamePair
  <1>10. /\ priv' \subseteq priv \cup {<<d, u>>} /\ shadowed' \subseteq priv'
         /\ server' \in {server, server \cup {u}} /\ (<<d, u>> \in priv' => u \in server')
         /\ links' \subseteq links \cup {<<i, k>>} /\ links \subseteq links' \cup {<<i, k>>}
    BY <1>5 DEF DbInv, DbTypeOK
  <1>11. Ended(h) \/ Went(h, "row") \/ (Went(h, "undo") /\ dh[h].op = "grant")
    BY <1>1, <1>5
  <1>12. Ended(h) => ~Went(h, "row") /\ ~Went(h, "undo")
    BY <1>1, ObjectAssumption DEF Ended, Went, DbOp
  <1>13. ASSUME Sure(d)', Sure(u)'
         PROVE  /\ ~Ended(h) /\ dh[h].op = "grant" => <<d, u>> \in priv'
                /\ ~Ended(h) /\ dh[h].op = "revoke" => <<d, u>> \notin priv'
                /\ Linked(d, u)' /\ <<d, u>> \notin priv' => Ending(u) \/ (~Ended(h) /\ dh[h].op = "revoke")
                /\ ~Linked(d, u)' /\ Active(d, u)' => ~Ended(h) /\ dh[h].op = "grant"
    <2>1. Sure(d) /\ Sure(u) /\ doubted' = doubted
      BY <1>7, <1>13
    <2> QED BY <1>1, <1>2, <1>5, <1>8, <1>12, <1>13, <2>1 DEF Active, DbAt, Sure
  <1> QED BY <1>1, <1>2, <1>4, <1>6, <1>9, <1>10, <1>11, <1>13, PairStep

LEMMA GrantUndoKeeps ==
  ASSUME AccountsInv, DbInv, NEW h \in Handler, GrantUndo(h), UNCHANGED <<user, hd, minted>>
  PROVE  DbInv'
  <1>1. dh[h].op = "grant" /\ dh[h].pc = "undo" /\ dh[h].op \in Pairing
    BY DEF GrantUndo, DbAt, Pairing
  <1>2. PICK d \in Database, u \in DbUser, i \in 1..rowIds, k \in 1..rowIds :
           /\ dh[h].objects = {d, u} /\ Pair(h) = <<d, u>> /\ dh[h].ids[1] = i /\ dh[h].ids[2] = k
           /\ d \in Object /\ u \in Object
           /\ Sure(d) /\ Sure(u) =>
                /\ rows[d].id = i /\ rows[u].id = k /\ (Linked(d, u) <=> <<i, k>> \in links)
                /\ dh[h].op = "grant" /\ dh[h].pc # "command" => <<d, u>> \in priv
                /\ DbAt(h, "revoke", "row") => <<d, u>> \notin priv
                /\ Linked(d, u) /\ <<d, u>> \notin priv => Ending(u) \/ DbAt(h, "revoke", "row")
                /\ ~Linked(d, u) /\ Active(d, u) => dh[h].op = "grant" /\ dh[h].pc # "command"
    BY <1>1, PairBefore
  <1>3. /\ DbReply(h) => Ended(h)
        /\ \A pc \in {"row", "undo"} : DbGoto(h, pc) => Went(h, pc)
    BY DbEnds, DbGoes
  <1>4. UNCHANGED <<rows, rowIds>>
    BY DEF GrantUndo, OnServer, InRows
  <1>5. /\ UNCHANGED <<server, links>> /\ Ended(h)
        /\ \/ /\ priv' = priv \ {<<d, u>>} /\ shadowed' = shadowed \ {<<d, u>>}
              /\ doubted' = IF <<i, k>> \in links THEN doubted \cup {d, u} ELSE doubted
           \/ UNCHANGED <<priv, shadowed>> /\ doubted' = doubted \cup {d, u}
    BY <1>2, <1>3 DEF GrantUndo, OnServer
  <1>6. doubted \subseteq doubted' /\ doubted' \subseteq doubted \cup {d, u}
    BY <1>5
  <1>7. ~Sure(d)' \/ ~Sure(u)' \/ (Sure(d) /\ Sure(u) /\ doubted' = doubted)
    BY <1>5, <1>6 DEF Sure
  <1>8. Linked(d, u)' <=> <<rows[d].id, rows[u].id>> \in links'
    BY <1>4 DEF Linked
  <1>9. \A x \in Database, y \in DbUser : x # d \/ y # u => SamePair(x, y)
    BY <1>5 DEF SamePair
  <1>10. /\ priv' \subseteq priv \cup {<<d, u>>} /\ shadowed' \subseteq priv'
         /\ server' \in {server, server \cup {u}} /\ (<<d, u>> \in priv' => u \in server')
         /\ links' \subseteq links \cup {<<i, k>>} /\ links \subseteq links' \cup {<<i, k>>}
    BY <1>5 DEF DbInv, DbTypeOK
  <1>11. Ended(h) \/ Went(h, "row") \/ (Went(h, "undo") /\ dh[h].op = "grant")
    BY <1>1, <1>5
  <1>12. Ended(h) => ~Went(h, "row") /\ ~Went(h, "undo")
    BY <1>1, ObjectAssumption DEF Ended, Went, DbOp
  <1>13. ASSUME Sure(d)', Sure(u)'
         PROVE  /\ ~Ended(h) /\ dh[h].op = "grant" => <<d, u>> \in priv'
                /\ ~Ended(h) /\ dh[h].op = "revoke" => <<d, u>> \notin priv'
                /\ Linked(d, u)' /\ <<d, u>> \notin priv' => Ending(u) \/ (~Ended(h) /\ dh[h].op = "revoke")
                /\ ~Linked(d, u)' /\ Active(d, u)' => ~Ended(h) /\ dh[h].op = "grant"
    <2>1. Sure(d) /\ Sure(u) /\ doubted' = doubted
      BY <1>7, <1>13
    <2> QED BY <1>1, <1>2, <1>5, <1>8, <1>12, <1>13, <2>1 DEF Active, DbAt, Sure
  <1> QED BY <1>1, <1>2, <1>4, <1>6, <1>9, <1>10, <1>11, <1>13, PairStep

LEMMA RevokeCommandKeeps ==
  ASSUME AccountsInv, DbInv, NEW h \in Handler, RevokeCommand(h), UNCHANGED <<user, hd, minted>>
  PROVE  DbInv'
  <1>1. dh[h].op = "revoke" /\ dh[h].pc = "command" /\ dh[h].op \in Pairing
    BY DEF RevokeCommand, DbAt, Pairing
  <1>2. PICK d \in Database, u \in DbUser, i \in 1..rowIds, k \in 1..rowIds :
           /\ dh[h].objects = {d, u} /\ Pair(h) = <<d, u>> /\ dh[h].ids[1] = i /\ dh[h].ids[2] = k
           /\ d \in Object /\ u \in Object
           /\ Sure(d) /\ Sure(u) =>
                /\ rows[d].id = i /\ rows[u].id = k /\ (Linked(d, u) <=> <<i, k>> \in links)
                /\ dh[h].op = "grant" /\ dh[h].pc # "command" => <<d, u>> \in priv
                /\ DbAt(h, "revoke", "row") => <<d, u>> \notin priv
                /\ Linked(d, u) /\ <<d, u>> \notin priv => Ending(u) \/ DbAt(h, "revoke", "row")
                /\ ~Linked(d, u) /\ Active(d, u) => dh[h].op = "grant" /\ dh[h].pc # "command"
    BY <1>1, PairBefore
  <1>3. /\ DbReply(h) => Ended(h)
        /\ \A pc \in {"row", "undo"} : DbGoto(h, pc) => Went(h, pc)
    BY DbEnds, DbGoes
  <1>4. UNCHANGED <<rows, rowIds>>
    BY DEF RevokeCommand, OnServer, InRows
  <1>5. /\ UNCHANGED <<server, links>>
        /\ \/ /\ priv' = priv \ {<<d, u>>} /\ shadowed' = shadowed \ {<<d, u>>} /\ Went(h, "row")
              /\ doubted' = doubted
           \/ UNCHANGED <<priv, shadowed>> /\ Ended(h) /\ doubted' = doubted
           \/ /\ priv' = priv \ {<<d, u>>} /\ shadowed' = shadowed \ {<<d, u>>} /\ Ended(h)
              /\ doubted' = doubted \cup {d, u}
    BY <1>2, <1>3 DEF RevokeCommand, Command, OnServer
  <1>6. doubted \subseteq doubted' /\ doubted' \subseteq doubted \cup {d, u}
    BY <1>5
  <1>7. ~Sure(d)' \/ ~Sure(u)' \/ (Sure(d) /\ Sure(u) /\ doubted' = doubted)
    BY <1>5, <1>6 DEF Sure
  <1>8. Linked(d, u)' <=> <<rows[d].id, rows[u].id>> \in links'
    BY <1>4 DEF Linked
  <1>9. \A x \in Database, y \in DbUser : x # d \/ y # u => SamePair(x, y)
    BY <1>5 DEF SamePair
  <1>10. /\ priv' \subseteq priv \cup {<<d, u>>} /\ shadowed' \subseteq priv'
         /\ server' \in {server, server \cup {u}} /\ (<<d, u>> \in priv' => u \in server')
         /\ links' \subseteq links \cup {<<i, k>>} /\ links \subseteq links' \cup {<<i, k>>}
    BY <1>5 DEF DbInv, DbTypeOK
  <1>11. Ended(h) \/ Went(h, "row") \/ (Went(h, "undo") /\ dh[h].op = "grant")
    BY <1>1, <1>5
  <1>12. Ended(h) => ~Went(h, "row") /\ ~Went(h, "undo")
    BY <1>1, ObjectAssumption DEF Ended, Went, DbOp
  <1>13. ASSUME Sure(d)', Sure(u)'
         PROVE  /\ ~Ended(h) /\ dh[h].op = "grant" => <<d, u>> \in priv'
                /\ ~Ended(h) /\ dh[h].op = "revoke" => <<d, u>> \notin priv'
                /\ Linked(d, u)' /\ <<d, u>> \notin priv' => Ending(u) \/ (~Ended(h) /\ dh[h].op = "revoke")
                /\ ~Linked(d, u)' /\ Active(d, u)' => ~Ended(h) /\ dh[h].op = "grant"
    <2>1. Sure(d) /\ Sure(u) /\ doubted' = doubted
      BY <1>7, <1>13
    <2> QED BY <1>1, <1>2, <1>5, <1>8, <1>12, <1>13, <2>1 DEF Active, DbAt, Sure
  <1> QED BY <1>1, <1>2, <1>4, <1>6, <1>9, <1>10, <1>11, <1>13, PairStep

LEMMA RevokeKeeps ==
  ASSUME AccountsInv, DbInv, NEW h \in Handler, Revoke(h), UNCHANGED <<user, hd, minted>>
  PROVE  DbInv'
  <1>1. dh[h].op = "revoke" /\ dh[h].pc = "row" /\ dh[h].op \in Pairing
    BY DEF Revoke, DbAt, Pairing
  <1>2. PICK d \in Database, u \in DbUser, i \in 1..rowIds, k \in 1..rowIds :
           /\ dh[h].objects = {d, u} /\ Pair(h) = <<d, u>> /\ dh[h].ids[1] = i /\ dh[h].ids[2] = k
           /\ d \in Object /\ u \in Object
           /\ Sure(d) /\ Sure(u) =>
                /\ rows[d].id = i /\ rows[u].id = k /\ (Linked(d, u) <=> <<i, k>> \in links)
                /\ dh[h].op = "grant" /\ dh[h].pc # "command" => <<d, u>> \in priv
                /\ DbAt(h, "revoke", "row") => <<d, u>> \notin priv
                /\ Linked(d, u) /\ <<d, u>> \notin priv => Ending(u) \/ DbAt(h, "revoke", "row")
                /\ ~Linked(d, u) /\ Active(d, u) => dh[h].op = "grant" /\ dh[h].pc # "command"
    BY <1>1, PairBefore
  <1>3. /\ DbReply(h) => Ended(h)
        /\ \A pc \in {"row", "undo"} : DbGoto(h, pc) => Went(h, pc)
    BY DbEnds, DbGoes
  <1>4. UNCHANGED <<rows, rowIds>>
    BY DEF Revoke, OnServer, InRows
  <1>5. /\ UNCHANGED <<server, priv, shadowed>> /\ Ended(h)
        /\ \/ links' = links \ {<<i, k>>} /\ doubted' = doubted
           \/ links' = links /\ doubted' = doubted \cup {d, u}
    BY <1>2, <1>3 DEF Revoke, InRows
  <1>6. doubted \subseteq doubted' /\ doubted' \subseteq doubted \cup {d, u}
    BY <1>5
  <1>7. ~Sure(d)' \/ ~Sure(u)' \/ (Sure(d) /\ Sure(u) /\ doubted' = doubted)
    BY <1>5, <1>6 DEF Sure
  <1>8. Linked(d, u)' <=> <<rows[d].id, rows[u].id>> \in links'
    BY <1>4 DEF Linked
  <1>9. \A x \in Database, y \in DbUser : x # d \/ y # u => SamePair(x, y)
    BY <1>5 DEF SamePair
  <1>10. /\ priv' \subseteq priv \cup {<<d, u>>} /\ shadowed' \subseteq priv'
         /\ server' \in {server, server \cup {u}} /\ (<<d, u>> \in priv' => u \in server')
         /\ links' \subseteq links \cup {<<i, k>>} /\ links \subseteq links' \cup {<<i, k>>}
    BY <1>5 DEF DbInv, DbTypeOK
  <1>11. Ended(h) \/ Went(h, "row") \/ (Went(h, "undo") /\ dh[h].op = "grant")
    BY <1>1, <1>5
  <1>12. Ended(h) => ~Went(h, "row") /\ ~Went(h, "undo")
    BY <1>1, ObjectAssumption DEF Ended, Went, DbOp
  <1>13. ASSUME Sure(d)', Sure(u)'
         PROVE  /\ ~Ended(h) /\ dh[h].op = "grant" => <<d, u>> \in priv'
                /\ ~Ended(h) /\ dh[h].op = "revoke" => <<d, u>> \notin priv'
                /\ Linked(d, u)' /\ <<d, u>> \notin priv' => Ending(u) \/ (~Ended(h) /\ dh[h].op = "revoke")
                /\ ~Linked(d, u)' /\ Active(d, u)' => ~Ended(h) /\ dh[h].op = "grant"
    <2>1. Sure(d) /\ Sure(u) /\ doubted' = doubted
      BY <1>7, <1>13
    <2> QED BY <1>1, <1>2, <1>5, <1>8, <1>12, <1>13, <2>1 DEF Active, DbAt, Sure
  <1> QED BY <1>1, <1>2, <1>4, <1>6, <1>9, <1>10, <1>11, <1>13, PairStep

LEMMA DbKeeps ==
  ASSUME AccountsInv, DbInv, NEW h \in Handler, DbStep(h)
  PROVE  DbInv'
  <1>1. UNCHANGED <<user, hd, minted>>
    BY DEF DbStep, tables
  <1>2. ASSUME NEW o \in Object, Delete(h, o) \/ \E a \in Account : Make(h, o, a)
        PROVE  DbInv'
    BY <1>1, <1>2, DeleteKeeps, MakeKeeps
  <1>3. ASSUME NEW d \in Database, NEW u \in DbUser, NEW op \in {"grant", "revoke"}, AskPair(h, op, d, u)
        PROVE  DbInv'
    BY <1>1, <1>3, AskPairKeeps
  <1> QED BY <1>1, <1>2, <1>3, MakeCommandKeeps, MakeUndoKeeps, DropCommandKeeps, DropRowKeeps,
             GrantCommandKeeps, GrantKeeps, GrantUndoKeeps, RevokeCommandKeeps, RevokeKeeps DEF DbStep

-----------------------------------------------------------------------------
(* MariaDB objects, and the steps of accounts *)

\* A deletion has dropped what it could: what is left is in doubt.
LEMMA DropOwnedKeeps ==
  ASSUME AccountsInv, DbInv, NEW h \in Handler, DropOwned(h)
  PROVE  DbInv'
  <1>1. PICK a : a = hd[h].who
    OBVIOUS
  <1> DEFINE own == {o \in Object : Live(o) /\ rows[o].owner = a}
  <1>2. PICK gone \in SUBSET own :
          /\ Drop(gone)
          /\ doubted' = doubted \cup (own \ gone) \cup {o \in own : On(o) # {}}
    BY <1>1 DEF DropOwned, Owned
  <1>3. /\ UNCHANGED <<user, minted, rows, rowIds, links, dh>> /\ OthersWait(h)
        /\ At(h, "delete", "drop")' /\ hd'[h].who = a
    <2>1. At(h, "delete", "objects") /\ Goto(h, "drop") /\ UNCHANGED tables
      BY DEF DropOwned, DeleteObjects
    <2>2. hd' = [hd EXCEPT ![h].pc = "drop"] /\ hd \in [Handler -> Handling]
      BY <2>1 DEF Goto, AccountsInv, AccountsTypeOK
    <2> QED BY <1>1, <2>1, <2>2 DEF DropOwned, OnServer, tables, OthersWait, At, Handling
  <1>4. /\ gone \subseteq Object /\ own \subseteq Object
        /\ \A o \in gone : Live(o) /\ rows[o].owner = a
    OBVIOUS
  <1>5. /\ server' = server \ gone /\ priv' \subseteq priv /\ shadowed' \subseteq priv'
        /\ \A d \in Database, u \in DbUser :
             /\ <<d, u>> \in priv' <=> <<d, u>> \in priv /\ u \notin gone
             /\ Active(d, u)' <=> Active(d, u) /\ d \notin gone /\ u \notin gone
             /\ <<d, u>> \in priv' => u \in server'
    BY <1>2, <1>4, Drops
  <1>6. \A o \in Object : /\ Sure(o)' => Sure(o)
                          /\ Sure(o)' /\ Live(o) /\ rows[o].owner = a => o \in gone
                          /\ Sure(o)' /\ o \in gone => \A g \in Handler : o \notin dh[g].objects
    BY <1>2 DEF Sure, On
  <1> HIDE DEF own
  <1>7. /\ \A o \in Object : Live(o)' <=> Live(o)
        /\ \A o \in Object : Ending(o) => Ending(o)'
        /\ \A o \in gone : Ending(o)'
    <2>1. \A o \in Object : Live(o)' <=> Live(o)
      BY <1>3 DEF Live, Exists
    <2>2. ASSUME NEW o \in Object, Live(o), NEW g \in Handler, At(g, "delete", "drop"),
                 hd[g].who = rows[o].owner
          PROVE  At(g, "delete", "drop")' /\ hd'[g].who = rows'[o].owner
      <3>1. g # h
        BY <2>2 DEF DropOwned, DeleteObjects, At
      <3> QED BY <1>3, <2>2, <3>1 DEF OthersWait, At
    <2> QED BY <1>3, <1>4, <2>1, <2>2 DEF Ending
  <1>8. DbTypeOK'
    <2>1. doubted' \subseteq Object /\ server' \subseteq Object /\ priv' \subseteq Database \X DbUser
      BY <1>2, <1>4, <1>5 DEF DbInv, DbTypeOK
    <2> QED BY <1>3, <1>5, <2>1 DEF DbInv, DbTypeOK
  <1>9. /\ \A i, k : <<i, k>> \in links' => i \in 1..rowIds' /\ k \in 1..rowIds'
        /\ \A o \in Object : RowInv(o)'
        /\ \A g \in Handler : Shape(dh[g])'
    BY <1>3 DEF DbInv, RowInv, Shape
  <1>10. ASSUME NEW o \in Object
         PROVE  ObjectInv(o)'
    <2>1. CASE o \in gone
      BY <1>7, <2>1 DEF ObjectInv
    <2>2. CASE o \notin gone
      BY <1>3, <1>5, <1>6, <1>7, <2>2 DEF ObjectInv, DbInv
    <2> QED BY <2>1, <2>2
  <1>11. ASSUME NEW g \in Handler, NEW o \in dh'[g].objects, Sure(o)'
         PROVE  Work(g, o)'
    <2>1. Work(g, o) /\ o \in Object /\ o \notin gone
      BY <1>3, <1>6, <1>11, DbRequestOf DEF Sure
    <2>2. IdOf(dh[g], o)' = IdOf(dh[g], o) /\ (Solo(g, o)' <=> Solo(g, o))
      BY <1>3 DEF IdOf, Solo
    <2> QED BY <1>3, <1>5, <1>7, <2>1, <2>2 DEF Work, DbAt
  <1>12. ASSUME NEW d \in Database, NEW u \in DbUser, Sure(d)', Sure(u)'
         PROVE  PairInv(d, u)'
    <2>1. /\ d \in Object /\ u \in Object
          /\ Sure(d) /\ Sure(u) /\ PairInv(d, u) /\ (Linked(d, u)' <=> Linked(d, u))
          /\ \A g \in Handler : OnPair(g, d, u)' <=> OnPair(g, d, u)
      BY <1>3, <1>6, <1>12 DEF Object, DbInv, Linked, OnPair
    <2>2. \A g \in Handler : OnPair(g, d, u) => d \notin gone /\ u \notin gone
      BY <1>6, <1>12, <2>1 DEF OnPair
    <2>3. (Active(d, u)' => Active(d, u)) /\ (<<d, u>> \in priv' <=> <<d, u>> \in priv /\ u \notin gone)
      BY <1>5
    <2> QED BY <1>3, <1>7, <2>1, <2>2, <2>3 DEF PairInv, DbAt
  <1>13. \A d \in Database, u \in DbUser : PairInv(d, u)'
    BY <1>12 DEF PairInv
  <1> QED BY <1>5, <1>8, <1>9, <1>10, <1>11, <1>13 DEF DbInv

\* Accounts of G go, and what was theirs is gone or in doubt; deletions that were about to
\* take their rows end so, or leave them in doubt.
LEMMA DbStandsBy ==
  ASSUME AccountsInv, DbInv, NEW G, minted \subseteq minted', minted' \subseteq Account,
         UNCHANGED <<rows, rowIds, links, server, priv, shadowed, dh>>,
         doubted \subseteq doubted', doubted' \subseteq Object,
         \A a \in minted : Exists(a)' <=> Exists(a) /\ a \notin G,
         \A o \in Object : Sure(o)' /\ Live(o) /\ rows[o].owner \in G =>
           o \notin server /\ \A g \in Handler : o \notin dh[g].objects,
         \A o \in Object : Sure(o)' /\ Ending(o) /\ rows[o].owner \notin G => Ending(o)'
  PROVE  DbInv'
  <1>1. \A o \in Object : /\ Live(o)' <=> Live(o) /\ rows[o].owner \notin G
                          /\ Sure(o)' => Sure(o)
    <2>1. \A o \in Object : rows[o].owner # None => rows[o].owner \in minted
      BY DEF DbInv, RowInv
    <2> QED BY <2>1 DEF Live, Sure
  <1>2. /\ DbTypeOK'
        /\ \A i, k : <<i, k>> \in links' => i \in 1..rowIds' /\ k \in 1..rowIds'
        /\ \A d \in Database, u \in DbUser : <<d, u>> \in priv' => u \in server'
        /\ \A o \in Object : RowInv(o)'
        /\ \A g \in Handler : Shape(dh[g])'
    <2>1. \A o \in Object : RowInv(o)'
      BY DEF DbInv, RowInv
    <2>2. \A g \in Handler : Shape(dh[g])'
      BY DEF DbInv, Shape
    <2>3. DbTypeOK'
      BY DEF DbInv, DbTypeOK
    <2> QED BY <2>1, <2>2, <2>3 DEF DbInv
  <1>3. ASSUME NEW o \in Object
        PROVE  ObjectInv(o)'
    <2>1. SUFFICES ASSUME Sure(o)', \A g \in Handler : o \in dh[g].objects => dh[g].op \in Pairing,
                          ~Ending(o)'
                   PROVE  Live(o)' <=> o \in server
      BY DEF ObjectInv
    <2>2. Sure(o) /\ ObjectInv(o) /\ (Live(o)' <=> Live(o) /\ rows[o].owner \notin G)
      BY <1>1, <2>1 DEF DbInv
    <2>3. CASE Live(o) /\ rows[o].owner \in G
      BY <2>1, <2>2, <2>3
    <2>4. CASE ~Live(o)
      BY <2>1, <2>2, <2>4 DEF ObjectInv, Ending
    <2>5. CASE Live(o) /\ rows[o].owner \notin G
      <3>1. ~Ending(o)
        BY <2>1, <2>5
      <3> QED BY <2>1, <2>2, <2>5, <3>1 DEF ObjectInv
    <2> QED BY <2>3, <2>4, <2>5
  <1>4. ASSUME NEW g \in Handler, NEW o \in dh'[g].objects, Sure(o)'
        PROVE  Work(g, o)'
    <2>1. Work(g, o) /\ o \in Object /\ Live(o) /\ rows[o].owner \notin G /\ (Ending(o) => Ending(o)')
      BY <1>1, <1>4, DbRequestOf DEF Work
    <2>2. IdOf(dh[g], o)' = IdOf(dh[g], o) /\ (Solo(g, o)' <=> Solo(g, o))
      BY DEF IdOf, Solo
    <2> QED BY <1>1, <2>1, <2>2 DEF Work, DbAt
  <1>5. ASSUME NEW d \in Database, NEW u \in DbUser, Sure(d)', Sure(u)'
        PROVE  PairInv(d, u)'
    <2>1. /\ d \in Object /\ u \in Object
          /\ Sure(d) /\ Sure(u) /\ PairInv(d, u) /\ (Linked(d, u)' <=> Linked(d, u))
          /\ \A g \in Handler : OnPair(g, d, u)' <=> OnPair(g, d, u)
          /\ Active(d, u)' <=> Active(d, u)
      BY <1>1, <1>5 DEF Object, DbInv, Linked, OnPair, Active
    <2>2. Active(d, u) => u \in server /\ Live(u) /\ Live(d) /\ rows[d].owner = rows[u].owner
      BY <2>1 DEF Active, DbInv, PairInv
    <2>3. Active(d, u)' => Live(d)' /\ Live(u)'
      BY <1>1, <1>5, <2>1, <2>2
    <2>4. Live(u)' => (Ending(u) => Ending(u)') /\ Live(u)
      BY <1>1, <1>5, <2>1
    <2>5. Live(d)' => Live(d)
      BY <1>1, <2>1
    <2> QED BY <2>1, <2>3, <2>4, <2>5 DEF PairInv, DbAt
  <1>6. \A d \in Database, u \in DbUser : PairInv(d, u)'
    BY <1>5 DEF PairInv
  <1> QED BY <1>2, <1>3, <1>4, <1>6 DEF DbInv

\* No step of an account makes another exist or not, but for the deletion of its row.
LEMMA AccountsStay ==
  ASSUME AccountsInv, NEW h \in Handler, ~At(h, "delete", "drop"),
         AccountRequest(h) \/ AccountStep(h) \/ DeleteLogin(h) \/ TenantUpgrade(h)
  PROVE  minted \subseteq minted' /\ \A a \in minted : Exists(a)' <=> Exists(a)
  <1>1. UNCHANGED <<user, minted>> => minted \subseteq minted' /\ \A a \in minted : Exists(a)' <=> Exists(a)
    BY DEF Exists
  <1>2. CASE CreateInsert(h)
    <2>1. CASE UNCHANGED <<user, minted>>
      BY <1>1, <2>1
    <2>2. CASE \E a \in Account \ minted : user' = [user EXCEPT ![a] = hd[h].row] /\ minted' = minted \cup {a}
      <3>1. PICK b \in Account \ minted : user' = [user EXCEPT ![b] = hd[h].row] /\ minted' = minted \cup {b}
        BY <2>2
      <3>2. \A a \in minted : user'[a] = user[a]
        BY <3>1, Untouched
      <3> QED BY <3>1, <3>2 DEF Exists
    <2> QED BY <1>2, <2>1, <2>2 DEF CreateInsert
  <1>3. CASE TenantPersist(h)
    <2>1. CASE UNCHANGED user
      BY <1>1, <1>3, <2>1 DEF TenantPersist
    <2>2. CASE user' = IF Exists(hd[h].who) THEN [user EXCEPT ![hd[h].who].sys = hd[h].login] ELSE user
      <3>1. PICK b : b = hd[h].who
        OBVIOUS
      <3>2. CASE Exists(b) /\ user' = [user EXCEPT ![b].sys = hd[h].login]
        <4>1. \A a \in minted : a # b => user'[a] = user[a]
          BY <3>2, Untouched
        <4>2. b \in Account
          BY <1>3, <3>1, RequestOf DEF TenantPersist, HandlingOK, Provisioning
        <4>3. user[b] \in User /\ user[b].name \in Name /\ None \notin Name
          BY <3>2, <4>2, Untouched, AccountAssumption DEF AccountsInv, Ids
        <4>4. user'[b].name = user[b].name
          BY <3>2, <4>2, <4>3, Untouched DEF User
        <4>5. Exists(b)' /\ Exists(b)
          BY <3>2, <4>3, <4>4 DEF Exists, NoUser
        <4>6. UNCHANGED minted
          BY <1>3 DEF TenantPersist
        <4> QED BY <4>1, <4>5, <4>6 DEF Exists
      <3> QED BY <1>1, <1>3, <2>2, <3>1, <3>2 DEF TenantPersist
    <2> QED BY <1>3, <2>1, <2>2 DEF TenantPersist
  <1>4. CASE AccountRequest(h)
    BY <1>1, <1>4 DEF AccountRequest, CreateUser, DeleteUser, CreateSite, tables
  <1>5. CASE CreateEnsure(h) \/ DeleteBegin(h) \/ DeleteList(h) \/ DeleteTeardown(h) \/ DeleteCount(h)
             \/ DeleteLogin(h)
    BY <1>1, <1>5 DEF CreateEnsure, DeleteBegin, DeleteList, DeleteTeardown, DeleteCount, DeleteLogin, tables
  <1>6. CASE \/ SiteBuild(h) \/ TenantLook(h) \/ TenantDerive(h) \/ TenantEnsure(h)
             \/ TenantUpgrade(h) \/ SiteRecord(h)
    BY <1>1, <1>6 DEF SiteBuild, TenantLook, TenantDerive, TenantEnsure, TenantUpgrade,
                      SiteRecord, tables
  <1>7. ~DeleteRow(h)
    BY DEF DeleteRow
  <1> QED BY <1>2, <1>3, <1>4, <1>5, <1>6, <1>7 DEF AccountStep, Tenant

LEMMA AtDrop ==
  ASSUME NEW h \in Handler, At(h, "delete", "drop"),
         AccountRequest(h) \/ AccountStep(h) \/ DeleteLogin(h) \/ TenantUpgrade(h)
  PROVE  DeleteRow(h)
  <1>1. ~AccountRequest(h)
    BY DEF At, AccountRequest, CreateUser, DeleteUser, CreateSite, Ask, Busy
  <1>2. /\ ~CreateEnsure(h) /\ ~CreateInsert(h) /\ ~DeleteBegin(h) /\ ~DeleteList(h) /\ ~DeleteTeardown(h)
        /\ ~DeleteCount(h) /\ ~DeleteLogin(h)
    BY DEF At, CreateEnsure, CreateInsert, DeleteBegin, DeleteList, DeleteTeardown, DeleteCount, DeleteLogin
  <1>3. /\ ~SiteBuild(h) /\ ~SiteRecord(h) /\ ~TenantLook(h) /\ ~TenantDerive(h)
        /\ ~TenantEnsure(h) /\ ~TenantPersist(h) /\ ~TenantUpgrade(h)
    BY DEF At, SiteBuild, SiteRecord, TenantLook, TenantDerive, TenantEnsure, TenantPersist,
           TenantUpgrade
  <1> QED BY <1>1, <1>2, <1>3 DEF AccountStep, Tenant

LEMMA DbFollowsAccounts ==
  ASSUME AccountsInv, AccountsInv', DbInv, NEW h \in Handler, DbAfterAccounts,
         AccountRequest(h) \/ AccountStep(h) \/ DeleteLogin(h) \/ TenantUpgrade(h)
  PROVE  DbInv'
  <1> DEFINE ending == {g \in Handler : At(g, "delete", "drop") /\ hd'[g] # hd[g]}
             own    == UNION {Owned(hd[g].who) : g \in ending}
  <1>1. /\ doubted' = doubted \cup {o \in own : On(o) # {} \/ o \in server \/ user' = user}
        /\ UNCHANGED <<rows, rowIds, links, server, priv, shadowed, dh>>
    BY DEF DbAfterAccounts, OnServer, InRows
  <1>2. own \subseteq Object
    BY DEF Owned
  <1>3. OthersWait(h) /\ minted' \subseteq Account
    BY OneMoves, Untouched DEF AccountsInv, AccountsTypeOK
  <1>4. doubted \subseteq doubted' /\ doubted' \subseteq Object
    <2> HIDE DEF own
    <2> QED BY <1>1, <1>2 DEF DbInv, DbTypeOK
  <1>5. ASSUME NEW o \in Object, Ending(o), hd[h].who # rows[o].owner \/ ~At(h, "delete", "drop"),
               Live(o)'
        PROVE  Ending(o)'
    <2>1. PICK g \in Handler : At(g, "delete", "drop") /\ hd[g].who = rows[o].owner
      BY <1>5 DEF Ending
    <2>2. hd'[g] = hd[g]
      BY <1>3, <1>5, <2>1 DEF OthersWait
    <2> QED BY <1>1, <1>5, <2>1, <2>2 DEF Ending, At
  <1>6. CASE ~At(h, "delete", "drop")
    <2>1. minted \subseteq minted' /\ \A a \in minted : Exists(a)' <=> Exists(a)
      BY <1>6, AccountsStay
    <2>2. \A o \in Object : Ending(o) => Live(o)'
      BY <1>1, <2>1 DEF Ending, Live, DbInv, RowInv
    <2>3. \A o \in Object : Ending(o) => Ending(o)'
      BY <1>5, <1>6, <2>2
    <2>4. PICK G : G = {}
      OBVIOUS
    <2> HIDE DEF own
    <2> QED BY <1>1, <1>3, <1>4, <2>1, <2>3, <2>4, DbStandsBy
  <1>7. CASE At(h, "delete", "drop")
    <2>1. PICK a : a = hd[h].who
      OBVIOUS
    <2>2. DeleteRow(h) /\ a \in Account /\ UNCHANGED minted
      BY <1>7, <2>1, AtDrop, RequestOf DEF DeleteRow, HandlingOK, Deleting, At
    <2>3. hd'[h] # hd[h]
      <3>1. Goto(h, "count") \/ Reply(h)
        BY <2>2 DEF DeleteRow, Unlock
      <3> QED BY <1>7, <3>1, GotoOnto, ReplyEnds DEF At, Onto, Pc, NoHandling
    <2>4. \A o \in Object : Live(o) /\ rows[o].owner = a => o \in own
      BY <1>7, <2>1, <2>3 DEF Owned
    <2> HIDE DEF own
    <2>5. CASE user' = [user EXCEPT ![a] = NoUser]
      <3>1. \A b \in minted : Exists(b)' <=> Exists(b) /\ b \notin {a}
        BY <2>2, <2>5, Untouched DEF Exists
      <3>2. \A o \in Object : Sure(o)' /\ Live(o) /\ rows[o].owner \in {a} =>
              o \notin server /\ \A g \in Handler : o \notin dh[g].objects
        BY <1>1, <2>4 DEF Sure, On
      <3>3. \A o \in Object : Ending(o) /\ rows[o].owner \notin {a} => Live(o)'
        BY <1>1, <3>1 DEF Ending, Live, DbInv, RowInv
      <3>4. \A o \in Object : Sure(o)' /\ Ending(o) /\ rows[o].owner \notin {a} => Ending(o)'
        BY <1>5, <2>1, <3>3
      <3>5. PICK G : G = {a}
        OBVIOUS
      <3> QED BY <1>1, <1>3, <1>4, <2>2, <3>1, <3>2, <3>4, <3>5, DbStandsBy
    <2>6. CASE UNCHANGED user
      <3>1. \A b \in minted : Exists(b)' <=> Exists(b)
        BY <2>6 DEF Exists
      <3>2. \A o \in Object : Sure(o)' => ~(Live(o) /\ rows[o].owner = a)
        BY <1>1, <2>4, <2>6 DEF Sure
      <3>3. \A o \in Object : Ending(o) => Live(o)'
        BY <1>1, <2>6 DEF Ending, Live, Exists
      <3>4. \A o \in Object : Sure(o)' /\ Ending(o) => Ending(o)'
        BY <1>5, <2>1, <3>2, <3>3 DEF Ending
      <3>5. PICK G : G = {}
        OBVIOUS
      <3> QED BY <1>1, <1>3, <1>4, <2>2, <3>1, <3>4, <3>5, DbStandsBy
    <2> QED BY <2>1, <2>2, <2>5, <2>6 DEF DeleteRow
  <1> QED BY <1>6, <1>7

\* A step that leaves the objects and the accounts alone, and no deletion that takes rows.
LEMMA DbStays ==
  ASSUME AccountsInv, DbInv, UNCHANGED <<user, minted, dvars>>,
         \A g \in Handler : At(g, "delete", "drop") => hd'[g] = hd[g]
  PROVE  DbInv'
  <1>1. UNCHANGED <<rows, rowIds, links, server, priv, shadowed, dh, doubted>>
    BY DEF dvars
  <1>2. doubted \subseteq doubted' /\ doubted' \subseteq Object /\ minted' \subseteq Account
    BY <1>1, Untouched DEF DbInv, DbTypeOK
  <1>3. \A a \in minted : Exists(a)' <=> Exists(a)
    BY DEF Exists
  <1>4. ASSUME NEW o \in Object, Ending(o)
        PROVE  Ending(o)'
    <2>1. Live(o)'
      BY <1>1, <1>4 DEF Ending, Live, Exists
    <2>2. PICK g \in Handler : At(g, "delete", "drop") /\ hd[g].who = rows[o].owner
      BY <1>4 DEF Ending
    <2>3. At(g, "delete", "drop")' /\ hd'[g].who = rows'[o].owner
      BY <1>1, <2>2 DEF At
    <2> QED BY <2>1, <2>3 DEF Ending
  <1>5. PICK G : G = {}
    OBVIOUS
  <1> QED BY <1>1, <1>2, <1>3, <1>4, <1>5, DbStandsBy

LEMMA DbBesideCron ==
  ASSUME AccountsInv, DbInv, NEW h \in Handler, CronStep(h), UNCHANGED dvars
  PROVE  DbInv'
  <1>1. \A op, a, j : AskCron(h, op, a, j) => hd[h].pc = "idle"
    BY DEF AskCron, Ask, Busy
  <1>2. hd[h].pc \in {"idle", "ready", "install", "refused"}
    BY <1>1, Zenon DEF CronStep, AddCron, DelCron, CronList, CronInstall, TakeBack, GiveUp
  <1>3. ~At(h, "delete", "drop")
    BY <1>2 DEF At
  <1>4. OthersWait(h) /\ UNCHANGED <<user, minted>>
    BY CronMoves
  <1>5. \A g \in Handler : At(g, "delete", "drop") => hd'[g] = hd[g]
    BY <1>3, <1>4 DEF OthersWait
  <1> QED BY <1>4, <1>5, DbStays

LEMMA DbBegins ==
  ASSUME DbInit
  PROVE  DbInv
  <1>1. /\ \A o \in Object : rows[o] = NoDbRow
        /\ \A h \in Handler : dh[h] = NoDbHandling
        /\ NoDbRow.id = 0 /\ NoDbRow.owner = None
        /\ NoDbHandling.op = None /\ NoDbHandling.objects = {}
    BY DEF DbInit, NoDbRow, NoDbHandling
  <1>2. DbTypeOK
    <2>1. NoDbRow \in DbRow /\ NoDbHandling \in DbHandling
      BY DEF NoDbRow, DbRow, NoDbHandling, DbHandling
    <2> QED BY <2>1 DEF DbInit, DbTypeOK
  <1>3. \A o \in Object : RowInv(o) /\ ObjectInv(o)
    BY <1>1 DEF DbInit, RowInv, ObjectInv, Live
  <1>4. \A h \in Handler : Shape(dh[h])
    BY <1>1, ObjectAssumption DEF Shape, Pairing, DbOp
  <1>5. ASSUME NEW d \in Database, NEW u \in DbUser
        PROVE  PairInv(d, u)
    <2>1. ~Live(d) /\ ~Active(d, u) /\ d \in Object /\ u \in Object
      BY <1>1 DEF DbInit, Active, Live, Object
    <2>2. \A g \in Handler : ~OnPair(g, d, u) /\ d \notin dh[g].objects
      BY <1>1 DEF OnPair
    <2> QED BY <2>1, <2>2 DEF PairInv
  <1> QED BY <1>1, <1>2, <1>3, <1>4, <1>5 DEF DbInit, DbInv

\* What was being done when the process ended is in doubt.
LEMMA DbCutShort ==
  ASSUME AccountsInv, DbInv, Interrupted, DbCrash
  PROVE  DbInv'
  <1> DEFINE cut  == {h \in Handler : At(h, "delete", "drop")}
             held == {dh[h].objects : h \in Handler}
             rest == {Owned(hd[h].who) : h \in cut}
             lost == (UNION held) \cup (UNION rest)
  <1>1. /\ UNCHANGED <<user, minted, rows, rowIds, links, server, priv, shadowed>>
        /\ dh' = [h \in Handler |-> NoDbHandling] /\ hd' = [h \in Handler |-> NoHandling]
        /\ doubted' = doubted \cup lost
    BY DEF DbCrash, Interrupted, tables, OnServer, InRows
  <1>2. lost \subseteq Object
    <2>1. \A h \in Handler : dh[h].objects \subseteq Object /\ Owned(hd[h].who) \subseteq Object
      BY DbRequestOf DEF Owned
    <2>2. (\A x \in held : x \subseteq Object) /\ (\A x \in rest : x \subseteq Object)
      BY <2>1
    <2> HIDE DEF held, rest
    <2> QED BY <2>2
  <1>3. \A o \in Object : o \notin lost =>
          /\ \A g \in Handler : o \notin dh[g].objects
          /\ ~Ending(o)
    <2>1. (\A h \in cut : Owned(hd[h].who) \in rest) /\ \A h \in Handler : dh[h].objects \in held
      OBVIOUS
    <2>2. \A o \in Object : Ending(o) => \E h \in cut : o \in Owned(hd[h].who)
      BY DEF Ending, Owned
    <2> HIDE DEF held, rest, cut
    <2> QED BY <2>1, <2>2
  <1> HIDE DEF lost
  <1>4. /\ NoDbHandling.op = None /\ NoDbHandling.pc = "idle" /\ NoDbHandling.objects = {}
        /\ NoDbHandling \in DbHandling /\ NoHandling.op = None /\ None \notin Request
    BY AccountAssumption DEF NoDbHandling, DbHandling, NoHandling
  <1>5. DbTypeOK'
    BY <1>1, <1>2, <1>4 DEF DbInv, DbTypeOK
  <1>6. \A o \in Object : (Live(o)' <=> Live(o)) /\ (Sure(o)' => Sure(o) /\ o \notin lost)
    BY <1>1 DEF Live, Exists, Sure
  <1>7. \A o \in Object : RowInv(o)' /\ ObjectInv(o)'
    <2>1. \A o \in Object : RowInv(o)'
      BY <1>1 DEF DbInv, RowInv
    <2>2. ASSUME NEW o \in Object, Sure(o)'
          PROVE  Live(o)' <=> o \in server'
      <3>1. Sure(o) /\ ObjectInv(o) /\ ~Ending(o) /\ \A g \in Handler : o \notin dh[g].objects
        BY <1>3, <1>6, <2>2 DEF DbInv
      <3> QED BY <1>1, <1>6, <3>1 DEF ObjectInv
    <2> QED BY <2>1, <2>2 DEF ObjectInv
  <1>8. \A h \in Handler : Shape(dh[h])'
    BY <1>1, <1>4, ObjectAssumption DEF Shape, Pairing, DbOp
  <1>9. ASSUME NEW d \in Database, NEW u \in DbUser
        PROVE  PairInv(d, u)'
    <2>1. SUFFICES ASSUME Sure(d)', Sure(u)' PROVE PairInv(d, u)'
      BY DEF PairInv
    <2>2. /\ d \in Object /\ u \in Object
          /\ Sure(d) /\ Sure(u) /\ ~Ending(u) /\ PairInv(d, u)
          /\ \A g \in Handler : d \notin dh[g].objects /\ u \notin dh[g].objects
      BY <1>3, <1>6, <2>1 DEF Object, DbInv
    <2>3. /\ Active(d, u)' <=> Active(d, u)
          /\ Linked(d, u)' <=> Linked(d, u)
          /\ \A g \in Handler : ~OnPair(g, d, u) /\ ~OnPair(g, d, u)'
          /\ \A g \in Handler : d \notin dh'[g].objects /\ u \notin dh'[g].objects
      BY <1>1, <1>4, <2>2 DEF Active, Linked, OnPair
    <2> QED BY <1>1, <1>6, <2>2, <2>3 DEF PairInv
  <1>10. \A h \in Handler : dh'[h].objects = {}
    BY <1>1, <1>4
  <1> QED BY <1>1, <1>5, <1>7, <1>8, <1>9, <1>10 DEF DbInv
=============================================================================
