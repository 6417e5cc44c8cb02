---------------------------- MODULE Panel_proofs ----------------------------
(***************************************************************************)
(* Theorems about Panel, for every instance: what accounts and their Linux *)
(* users keep whatever the components around them do, and what hangs on    *)
(* them (the lemmas are in Hosting_proofs), transcripts, the first-run     *)
(* set-up, and lockouts.                                                   *)
(***************************************************************************)
EXTENDS Panel, Hosting_proofs, Transcript_proofs, Limiter_proofs

-----------------------------------------------------------------------------
(* Accounts *)

\* A step of cron jobs moves its request and leaves all else of Accounts alone.
LEMMA CronKeeps ==
  ASSUME AccountsInv, NEW h \in Handler, CronStep(h)
  PROVE  AccountsInv'
  <1> DEFINE Moves(x) == /\ HandlingOK(x) /\ Resting(x) /\ hd' = [hd EXCEPT ![h] = x]
                         /\ Quiet /\ ops' \in Nat
  <1>1. ASSUME NEW x, Moves(x)
        PROVE  AccountsInv'
    <2>1. NothingNew /\ UNCHANGED <<logins, sites, built, accountMu, tenantMu>>
      BY <1>1 DEF Quiet, NothingNew, tables, host, locks, history
    <2> QED BY <1>1, <2>1, Untouched, RestStep
  <1>2. ASSUME NEW a \in Account, NEW j, NEW op \in CronOp, Exists(a), AskCron(h, op, a, j)
        PROVE  AccountsInv'
    <2>1. PICK x : x = [NoHandling EXCEPT !.op = op, !.who = a, !.row = user[a], !.pc = "tenant"]
      OBVIOUS
    <2>2. hd' = [hd EXCEPT ![h] = x] /\ ops' = ops + 1 /\ Quiet
      BY <1>2, <2>1 DEF AskCron, Ask
    <2>3. user[a] \in User /\ user[a].name \in Name /\ op \in {"addcron", "delcron"}
      BY <1>2, Untouched DEF AccountsInv, Ids, CronOp
    <2>4. /\ x \in Handling /\ x.op = op /\ x.pc = "tenant" /\ x.who = a /\ x.row = user[a]
      <3>1. NoHandling \in Handling
        BY IdleRests DEF HandlingOK
      <3> QED BY <2>1, <2>3, <3>1 DEF Handling, Pc, Request
    <2>5. x.op \in {"addcron", "delcron"} /\ x.row.name \in Name
      BY <2>3, <2>4
    <2>6. HandlingOK(x) /\ Resting(x)
      BY <2>4, <2>5 DEF HandlingOK, Resting, Deleting, Provisioning
    <2>7. ops' \in Nat
      BY <2>2, Untouched
    <2>8. Moves(x)
      BY <2>2, <2>6, <2>7
    <2> HIDE DEF Moves
    <2> QED BY <1>1, <2>8
  <1>3. ASSUME NEW pc \in {"install", "refused"}, Goto(h, pc), Quiet, UNCHANGED ops,
               hd[h].op \in CronOp, hd[h].pc \in {"ready", "install"}
        PROVE  AccountsInv'
    <2>1. PICK x \in Handling : /\ hd' = [hd EXCEPT ![h] = x] /\ x.pc = pc /\ x.op = hd[h].op
                                /\ x.who = hd[h].who /\ x.row = hd[h].row
      BY <1>3, GotoIs DEF Pc
    <2>2. HandlingOK(x) /\ Resting(x)
      BY <1>3, <2>1, RequestOf DEF HandlingOK, Resting, Deleting, Provisioning
    <2> QED BY <1>1, <1>3, <2>1, <2>2, Untouched
  <1>4. ASSUME EndSync(h), Quiet, UNCHANGED ops
        PROVE  AccountsInv'
    BY <1>1, <1>4, IdleRests, Untouched DEF EndSync, Reply
  <1>5. ASSUME TakeBack(h)
        PROVE  AccountsInv'
    <2> DEFINE a == hd[h].who
    <2>1. /\ hd[h].op = "addcron" /\ hd[h].pc = "refused" /\ a \in Account /\ Quiet /\ UNCHANGED ops
          /\ hd' = [hd EXCEPT ![h].pc = IF Exists(a) THEN "tenant" ELSE "refused", ![h].row = user[a]]
      BY <1>5, RequestOf DEF TakeBack, HandlingOK
    <2>2. PICK pc \in {"tenant", "refused"} : pc = IF Exists(a) THEN "tenant" ELSE "refused"
      OBVIOUS
    <2>3. PICK x : x = [hd[h] EXCEPT !.pc = pc, !.row = user[a]]
      OBVIOUS
    <2>4. hd' = [hd EXCEPT ![h] = x]
      BY <2>1, <2>2, <2>3
    <2>5. /\ x \in Handling /\ x.pc = pc /\ x.op = "addcron" /\ x.who = a /\ x.row = user[a]
      BY <2>1, <2>2, <2>3, RequestOf, Untouched DEF Handling, Pc
    <2>6. pc = "tenant" => x.row.name \in Name
      BY <2>1, <2>2, <2>5 DEF AccountsInv, Ids
    <2>7. HandlingOK(x) /\ Resting(x)
      BY <2>1, <2>2, <2>5, <2>6 DEF HandlingOK, Resting, Deleting, Provisioning
    <2> HIDE DEF a
    <2> QED BY <1>1, <2>1, <2>4, <2>7, Untouched
  <1> HIDE DEF Moves
  <1>6. CASE \E a \in Account : AddCron(h, a) \/ \E j \in Job : DelCron(h, a, j)
    <2>1. \A a \in Account : AddCron(h, a) => Exists(a) /\ \E j \in Job : AskCron(h, "addcron", a, j)
      BY DEF AddCron
    <2>2. \A a \in Account, j \in Job : DelCron(h, a, j) => Exists(a) /\ AskCron(h, "delcron", a, j)
      BY DEF DelCron, Jobs
    <2> QED BY <1>2, <1>6, <2>1, <2>2 DEF CronOp
  <1>7. CASE CronList(h)
    BY <1>3, <1>7 DEF CronList
  <1>8. CASE CronInstall(h)
    BY <1>3, <1>4, <1>8 DEF CronInstall
  <1>9. CASE GiveUp(h)
    BY <1>4, <1>9 DEF GiveUp
  <1> QED BY <1>5, <1>6, <1>7, <1>8, <1>9 DEF CronStep

\* A step of any other component at most counts a request.
LEMMA OthersKeep ==
  ASSUME AccountsInv, UNCHANGED <<tables, host, locks, history, hd>>, ops' \in Nat
  PROVE  AccountsInv'
  <1>1. UNCHANGED <<user, minted, sites, built, logins, accountMu, tenantMu, auto, contested, hd>>
    BY DEF tables, host, locks, history
  <1>2. AccountsTypeOK'
    BY <1>1 DEF AccountsInv, AccountsTypeOK
  <1>3. Ids' /\ AdminRemains' /\ LoginsStand' /\ JitExclusive'
    BY <1>1 DEF AccountsInv, Ids, AdminRemains, Admins, LoginsStand, JitExclusive, Exists
  <1>4. \A h \in Handler : HandlingOK(hd[h])' /\ HandlingInv(h, hd[h])'
    BY <1>1 DEF AccountsInv, HandlingOK, HandlingInv, Admins, Exists
  <1> QED BY <1>2, <1>3, <1>4 DEF AccountsInv

LEMMA CountsRequests ==
  ASSUME ops \in Nat, NEW h \in Handler, DbStep(h) \/ FileStep(h) \/ LoginStep(h)
  PROVE  ops' \in Nat
  <1> DEFINE Counts == ops' = ops \/ ops' = ops + 1
  <1>1. \A o \in Object : Delete(h, o) \/ (\E a \in Account : Make(h, o, a)) => Counts
    BY DEF Delete, Make, AskDb
  <1>2. \A d \in Database, u \in DbUser, op \in {"grant", "revoke"} : AskPair(h, op, d, u) => Counts
    BY DEF AskPair, AskDb
  <1>3. /\ MakeCommand(h) => Counts
        /\ MakeUndo(h) => Counts
        /\ DropCommand(h) => Counts
        /\ DropRow(h) => Counts
    BY DEF MakeCommand, MakeUndo, DropCommand, DropRow
  <1>4. /\ GrantCommand(h) => Counts
        /\ Grant(h) => Counts
        /\ GrantUndo(h) => Counts
        /\ RevokeCommand(h) => Counts
        /\ Revoke(h) => Counts
    BY DEF GrantCommand, Grant, GrantUndo, RevokeCommand, Revoke
  <1>5. DbStep(h) => Counts
    <2> HIDE DEF Counts
    <2> QED BY <1>1, <1>2, <1>3, <1>4 DEF DbStep
  <1>6. AskFile(h) => Counts
    <2>1. \A a, new : OpenFS(h, a, new) => Counts
      BY DEF OpenFS
    <2> HIDE DEF Counts
    <2> QED BY <2>1, Zenon DEF AskFile
  <1>7. /\ HandOver(h) => Counts
        /\ PutEntry(h) => Counts
        /\ CopyEntry(h) => Counts
        /\ ZipEntries(h) => Counts
    BY Zenon DEF HandOver, PutEntry, CopyEntry, ZipEntries
  <1>8. /\ UnzipEntry(h) => Counts
        /\ RenameEntry(h) => Counts
        /\ DeleteEntry(h) => Counts
        /\ ChownEntry(h) => Counts
    BY Zenon DEF UnzipEntry, RenameEntry, DeleteEntry, ChownEntry
  <1>9. FileStep(h) => Counts
    <2> HIDE DEF Counts
    <2> QED BY <1>6, <1>7, <1>8 DEF FileStep
  <1>10. \A i \in Ip, a \in Account \cup {None} : AskIn(h, i, a) => Counts
    BY DEF AskIn, AskLogin
  <1>11. \A a \in Account : AskSetup(h, a) => Counts
    BY DEF AskSetup, AskLogin
  <1>12. /\ Acquire(h) => Counts
         /\ Verify(h) => Counts
         /\ CreateSession(h) => Counts
         /\ Bad(h) => Counts
         /\ Good(h) => Counts
    BY DEF Acquire, Verify, CreateSession, Bad, Good
  <1>13. /\ UpdateUserCredentials(h) => Counts
         /\ ClearSetupPending(h) => Counts
         /\ SaveSetup(h) => Counts
         /\ RemoveFile(h) => Counts
    BY DEF UpdateUserCredentials, ClearSetupPending, SaveSetup, RemoveFile
  <1>14. LoginStep(h) => Counts
    <2> HIDE DEF Counts
    <2> QED BY <1>10, <1>11, <1>12, <1>13 DEF LoginStep
  <1> QED BY <1>5, <1>9, <1>14

\* The requests end with the process, the rows and Linux users stay.
LEMMA CrashKeeps ==
  ASSUME AccountsInv, Crash
  PROVE  AccountsInv'
  <1>1. /\ UNCHANGED <<user, minted, sites, built, logins, auto>> /\ ops' = ops + 1
        /\ hd' = [h \in Handler |-> NoHandling] /\ accountMu' = None /\ tenantMu' = None
        /\ contested' = contested \cup {hd[h].who : h \in {g \in Handler : At(g, "site", "record")}}
    BY DEF Crash, Interrupted, tables, host
  <1>2. AccountsTypeOK'
    <2>1. \A g \in Handler : At(g, "site", "record") => hd[g].who \in Account
      BY DEF AccountsInv, HandlingOK, At
    <2>2. contested \subseteq Account \cup Login
      BY DEF AccountsInv, AccountsTypeOK
    <2>3. contested' \subseteq Account \cup Login
      BY <1>1, <2>1, <2>2
    <2> QED BY <1>1, <2>3, IdleRests DEF AccountsInv, AccountsTypeOK, HandlingOK
  <1>3. Ids' /\ AdminRemains' /\ LoginsStand' /\ JitExclusive'
    BY <1>1 DEF AccountsInv, Ids, AdminRemains, Admins, LoginsStand, JitExclusive, Exists
  <1>4. \A h \in Handler : HandlingOK(hd'[h]) /\ HandlingInv(h, hd[h])'
    <2> TAKE h \in Handler
    <2>1. hd'[h] = NoHandling
      BY <1>1
    <2> QED BY <2>1, IdleRests
            DEF HandlingInv, NoHandling, Deleting, Listing, Provisioning, Recording
  <1> QED BY <1>2, <1>3, <1>4 DEF AccountsInv

LEMMA PanelKeepsAccounts ==
  ASSUME AccountsInv, [PanelNext]_pvars
  PROVE  AccountsInv'
  <1>0. ops \in Nat
    BY Untouched
  <1>1. ASSUME NEW h \in Handler, AccountMove(h)
        PROVE  AccountsInv'
    BY <1>1, AccountsKeeps DEF AccountMove, DropOwned, CronDeleteLogin, FilesUpgrade
  <1>2. ASSUME NEW h \in Handler, CronMove(h)
        PROVE  AccountsInv'
    BY <1>2, CronKeeps DEF CronMove
  <1>3. ASSUME NEW h \in Handler, ObjectMove(h) \/ FileMove(h) \/ LoginMove(h)
        PROVE  AccountsInv'
    <2>1. DbStep(h) \/ FileStep(h) \/ LoginStep(h)
      BY <1>3 DEF ObjectMove, FileMove, LoginMove
    <2>2. UNCHANGED <<tables, host, locks, history, hd>>
      BY <2>1 DEF DbStep, FileStep, LoginStep
    <2> QED BY <1>0, <2>1, <2>2, CountsRequests, OthersKeep
  <1>4. CASE ProcessMove
    <2>1. CASE Crash
      BY <2>1, CrashKeeps
    <2>2. CASE ProcessStep
      <3>1. UNCHANGED <<tables, host, locks, history, hd>> /\ UNCHANGED ops
        BY <2>2 DEF ProcessStep, WriteCredentials, MarkSetupPending, SavePending, Start, Tick, EndSession
      <3> QED BY <1>0, <3>1, OthersKeep
    <2> QED BY <1>4, <2>1, <2>2 DEF ProcessMove
  <1>5. CASE ChatMove \/ UNCHANGED pvars
    <2>1. UNCHANGED <<tables, host, locks, history, hd, ops>>
      BY <1>5 DEF ChatMove, pvars, avars
    <2> QED BY <1>0, <2>1, OthersKeep
  <1> QED BY <1>1, <1>2, <1>3, <1>4, <1>5 DEF PanelNext

LEMMA PanelAccounts == PanelSpec => []AccountsInv
  <1>1. PanelInit => AccountsInv
    BY AccountsBegins DEF PanelInit
  <1> QED BY <1>1, PanelKeepsAccounts, PTL DEF PanelSpec

\* DeleteAccount (tenant.go, accounts): accountMu and the count under it leave an
\* administrator however many deletions run, and whatever fails.
THEOREM AdminStays == PanelSpec => []AdminRemains
  <1>1. AccountsInv => AdminRemains
    BY DEF AccountsInv
  <1> QED BY <1>1, PanelAccounts, PTL

\* sysuser.Remove after CountBySystemUser: the Linux user of an account stands, but
\* for one contested between the count and the userdel.
THEOREM LoginsStay == PanelSpec => []LoginsStand
  <1>1. AccountsInv => LoginsStand
    BY DEF AccountsInv
  <1> QED BY <1>1, PanelAccounts, PTL

\* ensureTenant: of the Linux users it chose, no two accounts have the same, whatever
\* accounts are created, shared and deleted beside it.
THEOREM JitStaysExclusive == PanelSpec => []JitExclusive
  <1>1. AccountsInv => JitExclusive
    BY DEF AccountsInv
  <1> QED BY <1>1, PanelAccounts, PTL

-----------------------------------------------------------------------------
(* What hangs on an account *)

HostingInv == AccountsInv /\ TenantInv /\ SitesInv /\ CronInv /\ FilesInv /\ DbInv

LEMMA HostingBegins ==
  ASSUME PanelInit
  PROVE  HostingInv
  BY AccountsBegins, TenantBegins, SitesBegin, CronBegins, FilesBegin, DbBegins
     DEF PanelInit, HostingInv

LEMMA PanelKeepsHosting ==
  ASSUME HostingInv, [PanelNext]_pvars
  PROVE  HostingInv'
  <1>1. AccountsInv /\ AccountsInv' /\ TenantInv /\ SitesInv /\ CronInv /\ FilesInv /\ DbInv
    BY PanelKeepsAccounts DEF HostingInv
  <1>2. CASE UNCHANGED pvars
    <2>1. UNCHANGED <<user, minted, sites, built, logins, contested, hd, cvars>>
      BY <1>2 DEF pvars, avars, tables, host, history
    <2>2. TenantInv' /\ SitesInv'
      BY <1>1, <2>1, TenantStays, SitesStay
    <2>3. CronInv'
      BY <1>1, <2>1
         DEF cvars, CronInv, CronTypeOK, RefusedJobGone, JobsKnown, OneEach, CrontabKnown, KnowsJob,
             KnowsLogin, Lone, RowsKnown, Syncs, Jobs, Exists, Has, Base, Excused, Leaving, At
    <2>4. FilesInv'
      BY <1>1, <1>2, <2>1, FilesStandBy DEF pvars, AccountsGoOn, Upgrading, TenantInv, Exists
    <2>5. DbInv'
      BY <1>1, <1>2, <2>1, DbStays DEF pvars
    <2> QED BY <1>1, <2>2, <2>3, <2>4, <2>5 DEF HostingInv
  <1>3. CASE PanelNext
    <2>1. mixed' = mixed \cup Muddled
      BY <1>3 DEF PanelNext
    <2>2. TenantInv' => AroundStep
      BY <1>1, <2>1 DEF AroundStep
    <2>3. ASSUME NEW h \in Handler, AccountMove(h)
          PROVE  TenantInv' /\ SitesInv' /\ CronInv' /\ FilesInv' /\ DbInv'
      <3>1. \/ /\ AccountRequest(h) \/ AccountStep(h) \/ DeleteObjects(h) \/ TenantUpgrade(h)
               /\ CronApart
            \/ CronDeleteLogin(h)
        BY <2>3 DEF AccountMove, DropOwned, FilesUpgrade
      <3>2. AccountRequest(h) \/ AccountStep(h) \/ DeleteObjects(h) \/ DeleteLogin(h) \/ TenantUpgrade(h)
        BY <3>1 DEF CronDeleteLogin
      <3>3. TenantInv' /\ SitesInv'
        BY <1>1, <3>2, TenantKeeps, SitesKeep
      <3>4. \/ /\ AccountRequest(h) \/ AccountStep(h) \/ DeleteObjects(h) \/ DeleteLogin(h)
               /\ UNCHANGED fvars
            \/ FilesUpgrade(h)
        BY <2>3 DEF AccountMove, DropOwned, CronDeleteLogin
      <3>5. FilesInv'
        BY <1>1, <3>4, FilesFollowAccounts, FilesUpgraded
      <3>6. \/ /\ AccountRequest(h) \/ AccountStep(h) \/ DeleteLogin(h) \/ TenantUpgrade(h)
               /\ DbAfterAccounts
            \/ DropOwned(h)
        BY <2>3 DEF AccountMove, CronDeleteLogin, FilesUpgrade
      <3>7. DbInv'
        BY <1>1, <3>6, DbFollowsAccounts, DropOwnedKeeps
      <3> QED BY <2>2, <3>1, <3>3, <3>5, <3>7, CronFollowsAccounts
    <2>4. ASSUME NEW h \in Handler, CronMove(h)
          PROVE  TenantInv' /\ SitesInv' /\ CronInv' /\ FilesInv' /\ DbInv'
      <3>1. TenantInv' /\ SitesInv'
        BY <1>1, <2>4, TenantBesideCron, SitesBesideCron DEF CronMove
      <3>2. FilesInv'
        BY <1>1, <2>4, FilesFollowAccounts DEF CronMove
      <3>3. DbInv'
        BY <1>1, <2>4, DbBesideCron DEF CronMove
      <3> QED BY <2>2, <2>4, <3>1, <3>2, <3>3, CronKeepsCron DEF CronMove
    <2>5. ASSUME CronApart, UNCHANGED <<tables, host, history, hd>>,
                 UNCHANGED fvars \/ \E h \in Handler : FileStep(h),
                 UNCHANGED dvars \/ \E h \in Handler : DbStep(h)
          PROVE  TenantInv' /\ SitesInv' /\ CronInv' /\ FilesInv' /\ DbInv'
      <3>1. UNCHANGED <<user, minted, sites, built, logins, contested, hd>>
        BY <2>5 DEF tables, host, history
      <3>2. TenantInv' /\ SitesInv'
        BY <1>1, <3>1, TenantStays, SitesStay
      <3>3. FilesInv'
        BY <1>1, <2>5, <3>1, FilesStandBy, FilesKeep DEF AccountsGoOn, Upgrading, TenantInv, Exists
      <3>4. DbInv'
        BY <1>1, <2>5, <3>1, DbStays, DbKeeps
      <3> QED BY <2>2, <2>5, <3>1, <3>2, <3>3, <3>4, CronStays
    <2>6. ASSUME NEW h \in Handler, ObjectMove(h) \/ FileMove(h) \/ LoginMove(h)
          PROVE  TenantInv' /\ SitesInv' /\ CronInv' /\ FilesInv' /\ DbInv'
      <3>1. CronApart /\ (DbStep(h) \/ FileStep(h) \/ LoginStep(h))
        BY <2>6 DEF ObjectMove, FileMove, LoginMove
      <3>2. UNCHANGED <<tables, host, history, hd>>
        BY <3>1 DEF DbStep, FileStep, LoginStep
      <3>3. (UNCHANGED fvars \/ FileStep(h)) /\ (UNCHANGED dvars \/ DbStep(h))
        BY <2>6 DEF ObjectMove, FileMove, LoginMove
      <3> QED BY <2>5, <3>1, <3>2, <3>3
    <2>7. ASSUME ProcessMove
          PROVE  TenantInv' /\ SitesInv' /\ CronInv' /\ FilesInv' /\ DbInv'
      <3>1. CASE Crash /\ CronCrash /\ DbCrash /\ FilesCrash
        <4>1. Interrupted
          BY <3>1 DEF Crash
        <4>2. TenantInv' /\ SitesInv'
          BY <1>1, <4>1, TenantCutShort, SitesCutShort
        <4>3. FilesInv'
          BY <1>1, <3>1, <4>1, FilesCutShort
        <4>4. DbInv'
          BY <1>1, <3>1, <4>1, DbCutShort
        <4> QED BY <2>2, <3>1, <4>1, <4>2, <4>3, <4>4, CronCutShort
      <3>2. CASE ProcessStep /\ CronApart /\ UNCHANGED <<dvars, fvars>>
        <4>1. UNCHANGED <<tables, host, history, hd>>
          BY <3>2 DEF ProcessStep, WriteCredentials, MarkSetupPending, SavePending, Start, Tick, EndSession
        <4> QED BY <2>5, <3>2, <4>1
      <3> QED BY <2>7, <3>1, <3>2 DEF ProcessMove
    <2>8. ASSUME ChatMove
          PROVE  TenantInv' /\ SitesInv' /\ CronInv' /\ FilesInv' /\ DbInv'
      <3>1. CronApart /\ UNCHANGED <<tables, host, history, hd, dvars, fvars>>
        BY <2>8 DEF ChatMove, avars
      <3> QED BY <2>5, <3>1
    <2> QED BY <1>1, <1>3, <2>3, <2>4, <2>6, <2>7, <2>8 DEF PanelNext, HostingInv
  <1> QED BY <1>2, <1>3

LEMMA PanelHosts == PanelSpec => []HostingInv
  BY HostingBegins, PanelKeepsHosting, PTL DEF PanelSpec

\* CreateSite and DeleteAccount: no deletion leaves a site running, whenever one is being
\* made, listed, torn down or recorded; but for one that came after the sites were
\* listed, and one whose creation the end of the process cut short.
THEOREM SitesStayOwned == PanelSpec => []SitesOwned
  <1>1. HostingInv => SitesOwned
    BY DEF HostingInv, SitesInv
  <1> QED BY <1>1, PanelHosts, PTL

\* postCreateCron: a job crond refuses is taken out of the table again, however many
\* requests overlap and whatever else fails, but for one whose removal failed or that
\* the end of the process cut short.
THEOREM RefusedJobsGo == PanelSpec => []RefusedJobGone
  <1>1. HostingInv => RefusedJobGone
    BY DEF HostingInv, CronInv
  <1> QED BY <1>1, PanelHosts, PTL

\* syncCron: between requests an account's crontab is its rows, if its last sync had the
\* account to itself and succeeded, and no other account ever had its Linux user; the
\* overlaps and the inherited Linux users are excused (CrontabIsRows).
THEOREM CrontabStaysRows == PanelSpec => []CrontabIsRows
  <1>1. HostingInv => CrontabIsRows
    BY CronInvImplies DEF HostingInv
  <1> QED BY <1>1, PanelHosts, PTL

\* postFile*: whatever a request of the file manager made or moved below a document root
\* ends up with the account's Linux user, or the web server's, also when the account gets
\* its Linux user meanwhile; but for what a failure or the end of the process forsook.
THEOREM FilesStayHandedOver == PanelSpec => []FilesHandedOver
  <1>1. HostingInv => FilesHandedOver
    BY FilesInvImplies DEF HostingInv
  <1> QED BY <1>1, PanelHosts, PTL

\* postCreateDatabase and the like: a row stands for an object on the server and every
\* object has its row, whatever is refused, fails or overlaps, and whoever is deleted with
\* what they have; but for what an overlap, a failure halfway or the end of the process
\* leaves in doubt.
THEOREM ObjectsStayBacked == PanelSpec => []ObjectsBacked
  <1>1. HostingInv => ObjectsBacked
    BY DbInvImplies DEF HostingInv
  <1> QED BY <1>1, PanelHosts, PTL

\* grantOrRevoke: between requests the page shows a grant exactly where the server has the
\* privilege; but for privileges that outlived a dropped database.
THEOREM GrantsStayBacked == PanelSpec => []GrantsBacked
  <1>1. HostingInv => GrantsBacked
    BY DbInvImplies DEF HostingInv
  <1> QED BY <1>1, PanelHosts, PTL

-----------------------------------------------------------------------------
(* Transcripts *)

\* To the assistant the rest of the panel is not there: each step of the panel is a
\* step of Transcript or leaves it alone, and its end a restart.
THEOREM PanelImplementsTranscript == PanelSpec => TranscriptSpec
  <1>1. PanelInit => TranscriptInit
    BY DEF PanelInit
  <1>2. [PanelNext]_pvars => [TranscriptNext]_tvars
    <2> SUFFICES ASSUME [PanelNext]_pvars PROVE [TranscriptNext]_tvars
      OBVIOUS
    <2>1. CASE ChatMove
      BY <2>1 DEF ChatMove, TranscriptNext
    <2>2. CASE \E h \in Handler : AccountMove(h) \/ CronMove(h) \/ ObjectMove(h) \/ FileMove(h) \/ LoginMove(h)
      BY <2>2 DEF AccountMove, CronMove, ObjectMove, FileMove, LoginMove
    <2>3. CASE ProcessMove
      BY <2>3 DEF ProcessMove, TranscriptNext
    <2>4. CASE UNCHANGED pvars
      BY <2>4 DEF pvars
    <2> QED BY <2>1, <2>2, <2>3, <2>4 DEF PanelNext
  <1> QED BY <1>1, <1>2, PTL DEF PanelSpec, TranscriptSpec

\* Whatever else the panel does meanwhile, the API is only sent transcripts it accepts,
\* and what is kept of them is bounded.
THEOREM PanelKeepsTranscripts == PanelSpec => []TranscriptValid /\ []TranscriptBounded
  BY PanelImplementsTranscript, TranscriptIsValid, TranscriptIsBounded, PTL

-----------------------------------------------------------------------------
(* The first-run set-up *)

OnlyFirst == \A a \in Account : Exists(a) => a = First
Starting  == process \in {"file", "mark", "keep"}

\* Until the first account has another password the wizard keeps everybody else out;
\* the file follows what the process has, but for what unsaved tells.
SetupInv ==
  /\ login \in [Handler -> LoginRequest]
  /\ process # "serving" => \A h \in Handler : login[h].pc = "idle"
  /\ process \in {"file", "mark", "keep", "serving", "down"}
  /\ Starting => boot
  /\ process = "keep" => pending
  /\ boot /\ (pending \/ saved \/ Starting) => OnlyFirst
  /\ boot /\ saved /\ process = "serving" => pending
  /\ \A h \in Handler :
       /\ login[h].pc = "hash" /\ boot => login[h].who = First
       /\ login[h].pc \in {"clear", "save", "remove"} => ~boot
       /\ login[h].pc \in {"save", "remove"} => ~pending
  /\ process = "serving" /\ pending /\ ~boot /\ ~unsaved => \E h \in Handler : login[h].pc = "clear"
  /\ process = "serving" /\ boot /\ ~pending => unsaved
  /\ process = "serving" /\ ~unsaved /\ ~SettingUp => (saved <=> boot)
  /\ process = "down" /\ ~unsaved => (saved <=> boot)

LEMMA SetupInvGuards == SetupInv => SetupGuards
  BY DEF SetupInv, SetupGuards, SettingUp

LEMMA SetupBegins ==
  ASSUME PanelInit
  PROVE  SetupInv
  <1>1. LoginInit
    BY DEF PanelInit
  <1>2. login = [h \in Handler |-> NoLogin] /\ NoLogin \in LoginRequest /\ NoLogin.pc = "idle"
    BY <1>1 DEF LoginInit, NoLogin, LoginRequest
  <1>3. CASE process = "file" /\ boot = TRUE /\ \A a \in Account : Exists(a) => a = First
    BY <1>1, <1>2, <1>3 DEF LoginInit, SetupInv, Starting, SettingUp, OnlyFirst
  <1>4. CASE process = "serving" /\ boot = FALSE
    BY <1>1, <1>2, <1>4 DEF LoginInit, SetupInv, Starting, SettingUp
  <1> QED BY <1>1, <1>3, <1>4 DEF LoginInit

\* Steps of the other components: accounts only come and go once the wizard is done.
LEMMA SetupLeftAlone ==
  ASSUME SetupInv, UNCHANGED <<login, process, boot, pending, saved, unsaved>>,
         UNCHANGED user \/ Served
  PROVE  SetupInv'
  <1>1. CASE UNCHANGED user
    BY <1>1 DEF SetupInv, Starting, SettingUp, OnlyFirst, Exists
  <1>2. CASE Served
    BY <1>2 DEF SetupInv, Starting, SettingUp, Served
  <1> QED BY <1>1, <1>2

\* A step of one login or set-up request.
LEMMA SetupRequest ==
  ASSUME SetupInv, NEW h \in Handler, LoginStep(h)
  PROVE  SetupInv'
  <1>1. process = "serving" /\ UNCHANGED <<user, process>>
    BY DEF LoginStep, tables, LoginAt, AskIn, AskSetup, AskLogin, Acquire, Verify, CreateSession, Bad, Good,
           UpdateUserCredentials, ClearSetupPending, SaveSetup, RemoveFile
  <1> DEFINE Flags == UNCHANGED <<boot, pending, saved, unsaved>>
             Next(x) == login' = [login EXCEPT ![h] = x] /\ x \in LoginRequest
  <1>2. ASSUME NEW x, Next(x), Flags, login[h].pc \notin {"clear", "save"},
               x.pc \notin {"clear", "save", "remove"},
               x.pc = "hash" /\ boot => x.who = First
        PROVE  SetupInv'
    BY <1>1, <1>2 DEF SetupInv, Starting, SettingUp, OnlyFirst, Exists
  <1>3. ASSUME NEW pc \in {"verify", "session", "good", "bad"}, LoginGoto(h, pc), Flags,
               login[h].pc \notin {"clear", "save"}
        PROVE  SetupInv'
    <2>1. PICK x : x = [login[h] EXCEPT !.pc = pc]
      OBVIOUS
    <2>2. login' = [login EXCEPT ![h] = x] /\ login[h] \in LoginRequest
      BY <1>3, <2>1 DEF LoginGoto, SetupInv
    <2>3. x \in LoginRequest /\ x.pc = pc
      BY <2>1, <2>2 DEF LoginRequest
    <2> QED BY <1>2, <1>3, <2>2, <2>3
  <1>4. ASSUME LoginEnd(h), Flags, login[h].pc \notin {"clear", "save"}
        PROVE  SetupInv'
    <2>1. NoLogin \in LoginRequest /\ NoLogin.pc = "idle"
      BY DEF NoLogin, LoginRequest
    <2> QED BY <1>2, <1>4, <2>1 DEF LoginEnd
  <1>5. ASSUME NEW i \in Ip, NEW a \in Account \cup {None}, AskIn(h, i, a)
        PROVE  SetupInv'
    <2>1. PICK x : x = [NoLogin EXCEPT !.pc = "wait", !.ip = i, !.who = a]
      OBVIOUS
    <2>2. x \in LoginRequest /\ x.pc = "wait"
      BY <2>1 DEF LoginRequest, NoLogin
    <2>3. login' = [login EXCEPT ![h] = x] /\ login[h].pc = "idle" /\ Flags
      BY <1>5, <2>1 DEF AskIn, AskLogin, LoginAt, SetupFlags
    <2> QED BY <1>2, <2>2, <2>3
  <1>6. ASSUME NEW a \in Account, AskSetup(h, a)
        PROVE  SetupInv'
    <2>1. PICK x : x = [NoLogin EXCEPT !.pc = "hash", !.who = a]
      OBVIOUS
    <2>2. x \in LoginRequest /\ x.pc = "hash" /\ x.who = a
      BY <2>1 DEF LoginRequest, NoLogin
    <2>3. /\ login' = [login EXCEPT ![h] = x] /\ login[h].pc = "idle" /\ Flags
          /\ pending /\ Exists(a)
      BY <1>6, <2>1 DEF AskSetup, AskLogin, LoginAt, SetupFlags
    <2>4. boot => a = First
      BY <2>3 DEF SetupInv, OnlyFirst
    <2> QED BY <1>2, <2>2, <2>3, <2>4
  \* The password is replaced: by the account that had the bootstrap password.
  <1>7. ASSUME LoginAt(h, "hash"), LoginGoto(h, "clear"), boot' = (boot /\ login[h].who # First),
               UNCHANGED <<pending, saved, unsaved>>
        PROVE  SetupInv'
    <2>1. ~boot'
      BY <1>7 DEF SetupInv, LoginAt
    <2>2. /\ login' \in [Handler -> LoginRequest] /\ login'[h].pc = "clear"
          /\ \A g \in Handler : g # h => login'[g] = login[g]
      BY <1>7 DEF LoginGoto, SetupInv, LoginRequest
    <2> QED BY <1>1, <1>7, <2>1, <2>2 DEF SetupInv, Starting, SettingUp
  <1>8. ASSUME LoginAt(h, "clear"), LoginGoto(h, "save"), pending' = FALSE,
               UNCHANGED <<boot, saved, unsaved>>
        PROVE  SetupInv'
    <2>1. ~boot
      BY <1>8 DEF SetupInv, LoginAt
    <2>2. /\ login' \in [Handler -> LoginRequest] /\ login'[h].pc = "save"
          /\ \A g \in Handler : g # h => login'[g] = login[g]
      BY <1>8 DEF LoginGoto, SetupInv, LoginRequest
    <2> QED BY <1>1, <1>8, <2>1, <2>2 DEF SetupInv, Starting, SettingUp
  <1>9. ASSUME LoginAt(h, "save"), LoginGoto(h, "remove"), Save, UNCHANGED <<boot, pending>>
        PROVE  SetupInv'
    <2>1. ~boot /\ ~pending
      BY <1>9 DEF SetupInv, LoginAt
    <2>2. /\ login' \in [Handler -> LoginRequest] /\ login'[h].pc = "remove"
          /\ \A g \in Handler : g # h => login'[g] = login[g]
      BY <1>9 DEF LoginGoto, SetupInv, LoginRequest
    <2> QED BY <1>1, <1>9, <2>1, <2>2 DEF Save, SetupInv, Starting, SettingUp
  <1> HIDE DEF Next, Flags
  <1>10. CASE Acquire(h)
    BY <1>3, <1>10 DEF Acquire, LoginAt, SetupFlags, Flags
  <1>11. CASE Verify(h)
    <2>1. CASE LoginGoto(h, "bad")
      BY <1>3, <1>11, <2>1 DEF Verify, LoginAt, SetupFlags, Flags
    <2>2. ASSUME login' = [login EXCEPT ![h].pc = "session", ![h].admin = user[login[h].who].role = "admin"]
          PROVE  SetupInv'
      <3>1. PICK x : x = [login[h] EXCEPT !.pc = "session", !.admin = user[login[h].who].role = "admin"]
        OBVIOUS
      <3>2. login' = [login EXCEPT ![h] = x] /\ login[h] \in LoginRequest
        BY <2>2, <3>1 DEF SetupInv
      <3>3. x \in LoginRequest /\ x.pc = "session"
        BY <3>1, <3>2 DEF LoginRequest
      <3> QED BY <1>2, <1>11, <3>2, <3>3 DEF Verify, LoginAt, SetupFlags, Flags, Next
    <2> QED BY <1>11, <2>1, <2>2 DEF Verify
  <1>12. CASE CreateSession(h)
    BY <1>3, <1>12 DEF CreateSession, LoginAt, SetupFlags, Flags
  <1>13. CASE Bad(h) \/ Good(h) \/ RemoveFile(h)
    BY <1>4, <1>13 DEF Bad, Good, RemoveFile, LoginAt, SetupFlags, Flags
  <1>14. CASE UpdateUserCredentials(h)
    <2>1. CASE LoginEnd(h) /\ UNCHANGED boot
      BY <1>4, <1>14, <2>1 DEF UpdateUserCredentials, LoginAt, Flags
    <2>2. CASE LoginGoto(h, "clear") /\ boot' = (boot /\ login[h].who # First)
      BY <1>7, <1>14, <2>2 DEF UpdateUserCredentials
    <2> QED BY <1>14, <2>1, <2>2 DEF UpdateUserCredentials
  <1>15. CASE ClearSetupPending(h)
    BY <1>8, <1>15 DEF ClearSetupPending
  <1>16. CASE SaveSetup(h)
    BY <1>9, <1>16 DEF SaveSetup
  <1> QED BY <1>5, <1>6, <1>10, <1>11, <1>12, <1>13, <1>14, <1>15, <1>16 DEF LoginStep

\* The process starts and ends.
LEMMA SetupProcess ==
  ASSUME SetupInv, ProcessStep \/ Crash
  PROVE  SetupInv'
  <1>1. UNCHANGED user
    BY DEF ProcessStep, tables, Crash, Interrupted
  <1>2. CASE WriteCredentials
    BY <1>1, <1>2 DEF WriteCredentials, SetupFlags, SetupInv, Starting, SettingUp, OnlyFirst, Exists
  <1>3. CASE MarkSetupPending
    BY <1>1, <1>3 DEF MarkSetupPending, SetupInv, Starting, SettingUp, OnlyFirst, Exists
  <1>7. CASE SavePending
    BY <1>1, <1>7 DEF SavePending, Save, SetupInv, Starting, SettingUp, OnlyFirst, Exists
  <1>4. CASE Start
    BY <1>1, <1>4 DEF Start, SetupInv, Starting, SettingUp, OnlyFirst, Exists
  <1>5. CASE Tick \/ \E a \in Account : EndSession(a)
    <2>1. UNCHANGED <<login, process, boot, pending, saved, unsaved>>
      BY <1>5 DEF Tick, EndSession, SetupFlags
    <2> QED BY <1>1, <2>1, SetupLeftAlone
  <1>6. CASE Crash
    <2>1. login' = [h \in Handler |-> NoLogin] /\ NoLogin \in LoginRequest /\ NoLogin.pc = "idle"
      BY <1>6 DEF Crash, NoLogin, LoginRequest
    <2>2. /\ process' = "down" /\ ~pending' /\ boot' = boot /\ saved' = saved
          /\ ~unsaved' => (saved <=> boot)
      BY <1>6 DEF Crash, SetupInv, Starting, SettingUp
    <2> QED BY <1>1, <2>1, <2>2 DEF SetupInv, Starting, SettingUp, OnlyFirst, Exists
  <1> QED BY <1>2, <1>3, <1>4, <1>5, <1>6, <1>7 DEF ProcessStep

LEMMA PanelKeepsSetup ==
  ASSUME SetupInv, [PanelNext]_pvars
  PROVE  SetupInv'
  <1>1. ASSUME NEW h \in Handler, AccountMove(h)
        PROVE  SetupInv'
    <2>1. Served /\ UNCHANGED <<login, process, boot, pending, saved, unsaved>>
      BY <1>1 DEF AccountMove, SessionsFollow, SetupFlags
    <2> QED BY <2>1, SetupLeftAlone
  <1>2. ASSUME NEW h \in Handler, CronMove(h) \/ ObjectMove(h) \/ FileMove(h)
        PROVE  SetupInv'
    <2>1. Served /\ UNCHANGED <<login, process, boot, pending, saved, unsaved>>
      BY <1>2 DEF CronMove, ObjectMove, FileMove, lvars
    <2> QED BY <2>1, SetupLeftAlone
  <1>3. ASSUME NEW h \in Handler, LoginMove(h)
        PROVE  SetupInv'
    BY <1>3, SetupRequest DEF LoginMove
  <1>4. CASE ProcessMove
    BY <1>4, SetupProcess DEF ProcessMove
  <1>5. CASE ChatMove \/ UNCHANGED pvars
    <2>1. UNCHANGED <<user, login, process, boot, pending, saved, unsaved>>
      BY <1>5 DEF ChatMove, pvars, avars, lvars, tables
    <2> QED BY <2>1, SetupLeftAlone
  <1> QED BY <1>1, <1>2, <1>3, <1>4, <1>5 DEF PanelNext

\* ensureAdmin, setupGate and postSetup: with overlapping requests, and in a process that
\* has been started again on what the last one saved, the wizard stands in the way exactly
\* while the bootstrap password is good; but after a failed save or a stop just before one.
THEOREM SetupStaysGuarded == PanelSpec => []SetupGuards
  <1>1. PanelInit => SetupInv
    BY SetupBegins
  <1>2. SetupInv /\ [PanelNext]_pvars => SetupInv'
    BY PanelKeepsSetup
  <1> QED BY <1>1, <1>2, SetupInvGuards, PTL DEF PanelSpec

-----------------------------------------------------------------------------
(* Lockouts *)

\* The limiter is well typed and sound, and a login that may still fail has an address.
LoginsLimited ==
  /\ LimiterOK /\ LockoutInv
  /\ login \in [Handler -> LoginRequest]
  /\ \A h \in Handler : login[h].pc \in {"wait", "verify", "session", "good", "bad"} => login[h].ip \in Ip

LEMMA LimitedBegins ==
  ASSUME PanelInit
  PROVE  LoginsLimited
  <1>1. attempts = [i \in Ip |-> Never] /\ now = 0 /\ login = [h \in Handler |-> NoLogin]
    BY DEF PanelInit, LoginInit
  <1>2. NoLogin \in LoginRequest /\ NoLogin.pc = "idle"
    BY DEF NoLogin, LoginRequest
  <1> QED BY <1>1, <1>2 DEF LoginsLimited, LimiterOK, LockoutInv

\* What a step does to the limiter and to the logins.
Limited == LoginsLimited' /\ LockoutKept

LEMMA StandingKept ==
  ASSUME Stands
  PROVE  LockoutKept
  BY DEF Stands, LockoutKept

\* The limiter is left alone; the clock may go on.
LEMMA LimiterLeftAlone ==
  ASSUME LoginsLimited, UNCHANGED <<attempts, login>>, now' \in {now, now + 1}
  PROVE  Limited
  <1>1. now' \in Nat /\ now' >= now
    BY DEF LoginsLimited, LimiterOK
  <1>2. LockoutInv' /\ Stands
    BY <1>1, ClockStands DEF LoginsLimited
  <1>3. LimiterOK'
    BY <1>1 DEF LoginsLimited, LimiterOK
  <1> QED BY <1>2, <1>3, StandingKept DEF LoginsLimited, Limited

LEMMA LimitedRequest ==
  ASSUME LoginsLimited, NEW h \in Handler, LoginStep(h)
  PROVE  Limited
  <1> DEFINE Addressed(x) == /\ x \in LoginRequest
                             /\ x.pc \in {"wait", "verify", "session", "good", "bad"} => x.ip \in Ip
             Next(x) == login' = [login EXCEPT ![h] = x] /\ Addressed(x)
  <1>1. now' = now /\ NoLogin \in LoginRequest /\ NoLogin.pc = "idle"
    BY DEF LoginStep, AskIn, AskSetup, Acquire, Verify, CreateSession, Bad, Good, NoLogin, LoginRequest,
           UpdateUserCredentials, ClearSetupPending, SaveSetup, RemoveFile
  <1>2. ASSUME NEW x, Next(x), LimiterOK', LockoutInv'
        PROVE  LoginsLimited'
    BY <1>2 DEF LoginsLimited
  <1>3. ASSUME NEW x, Next(x), UNCHANGED attempts
        PROVE  Limited
    <2>1. LockoutInv' /\ Stands
      BY <1>1, <1>3, ClockStands DEF LoginsLimited, LimiterOK
    <2>2. LimiterOK'
      BY <1>1, <1>3 DEF LoginsLimited, LimiterOK
    <2> QED BY <1>2, <1>3, <2>1, <2>2, StandingKept DEF Limited
  <1>4. ASSUME NEW pc \in {"verify", "session", "good", "bad"}, LoginGoto(h, pc), UNCHANGED attempts,
               login[h].pc \in {"wait", "verify", "session"}
        PROVE  Limited
    <2>1. PICK x : x = [login[h] EXCEPT !.pc = pc]
      OBVIOUS
    <2>2. login' = [login EXCEPT ![h] = x] /\ login[h] \in LoginRequest /\ login[h].ip \in Ip
      BY <1>4, <2>1 DEF LoginGoto, LoginsLimited
    <2>3. Addressed(x)
      BY <2>1, <2>2 DEF LoginRequest
    <2> QED BY <1>3, <1>4, <2>2, <2>3
  <1>5. ASSUME NEW pc \in {"clear", "save", "remove"}, LoginGoto(h, pc), UNCHANGED attempts
        PROVE  Limited
    <2>1. PICK x : x = [login[h] EXCEPT !.pc = pc]
      OBVIOUS
    <2>2. login' = [login EXCEPT ![h] = x] /\ login[h] \in LoginRequest
      BY <1>5, <2>1 DEF LoginGoto, LoginsLimited
    <2>3. Addressed(x)
      BY <2>1, <2>2 DEF LoginRequest
    <2> QED BY <1>3, <1>5, <2>2, <2>3
  <1>6. ASSUME LoginEnd(h), UNCHANGED attempts
        PROVE  Limited
    <2>1. Next(NoLogin)
      BY <1>1, <1>6 DEF LoginEnd
    <2> HIDE DEF Next
    <2> QED BY <1>3, <1>6, <2>1
  <1> HIDE DEF Next
  <1>7. CASE \E i \in Ip, a \in Account \cup {None} : AskIn(h, i, a)
    <2>1. PICK i \in Ip, a \in Account \cup {None} : AskIn(h, i, a)
      BY <1>7
    <2>2. PICK x : x = [NoLogin EXCEPT !.pc = "wait", !.ip = i, !.who = a]
      OBVIOUS
    <2>3. Next(x)
      BY <2>1, <2>2 DEF AskIn, AskLogin, LoginRequest, NoLogin, Next
    <2>4. Allow(i)
      BY <2>1 DEF AskIn
    <2>5. LockoutInv' /\ Stands
      BY <1>1, <2>4, AllowStands DEF LoginsLimited
    <2>6. LimiterOK'
      BY <1>1, <2>4, AllowTypes DEF LoginsLimited, LimiterOK
    <2> QED BY <1>2, <2>3, <2>5, <2>6, StandingKept DEF Limited
  <1>8. CASE Bad(h)
    <2>1. Next(NoLogin) /\ Fail(login[h].ip) /\ login[h].ip \in Ip
      BY <1>1, <1>8 DEF Bad, LoginAt, LoginEnd, LoginsLimited, Next
    <2>2. LockoutInv' /\ Stands
      BY <1>1, <2>1, FailStands DEF LoginsLimited
    <2>3. LimiterOK'
      BY <1>1, <2>1, FailTypes DEF LoginsLimited, LimiterOK
    <2> QED BY <1>2, <2>1, <2>2, <2>3, StandingKept DEF Limited
  <1>9. CASE Good(h)
    <2>1. Next(NoLogin) /\ attempts' = [attempts EXCEPT ![login[h].ip] = Never]
          /\ login[h].pc = "good" /\ login'[h].pc = "idle"
      BY <1>1, <1>9 DEF Good, LoginAt, LoginEnd, LoginsLimited, Next
    <2>2. LimiterOK' /\ LockoutInv'
      BY <1>1, <2>1 DEF LoginsLimited, LimiterOK, LockoutInv, EntryOK
    <2>3. ASSUME NEW i \in Ip, Blocked(i), ~LoggedIn(i)
          PROVE  attempts'[i] # Never /\ attempts'[i].until >= attempts[i].until
      <3>1. i # login[h].ip
        BY <2>1, <2>3 DEF LoggedIn
      <3> QED BY <2>1, <2>3, <3>1 DEF Blocked, LoginsLimited, LimiterOK, IpState
    <2> QED BY <1>2, <2>1, <2>2, <2>3 DEF Limited, LockoutKept
  <1>10. CASE Acquire(h)
    BY <1>4, <1>10 DEF Acquire, LoginAt
  <1>11. CASE Verify(h)
    <2>1. CASE LoginGoto(h, "bad")
      BY <1>4, <1>11, <2>1 DEF Verify, LoginAt
    <2>2. ASSUME login' = [login EXCEPT ![h].pc = "session", ![h].admin = user[login[h].who].role = "admin"]
          PROVE  Limited
      <3>1. PICK x : x = [login[h] EXCEPT !.pc = "session", !.admin = user[login[h].who].role = "admin"]
        OBVIOUS
      <3>2. /\ login' = [login EXCEPT ![h] = x] /\ login[h] \in LoginRequest /\ login[h].ip \in Ip
            /\ UNCHANGED attempts
        BY <1>11, <2>2, <3>1 DEF Verify, LoginAt, LoginsLimited
      <3>3. Addressed(x)
        BY <3>1, <3>2 DEF LoginRequest
      <3> QED BY <1>3, <3>2, <3>3 DEF Next
    <2> QED BY <1>11, <2>1, <2>2 DEF Verify
  <1>12. CASE CreateSession(h)
    BY <1>4, <1>12 DEF CreateSession, LoginAt
  <1>13. CASE \E a \in Account : AskSetup(h, a)
    <2>1. PICK a \in Account : AskSetup(h, a)
      BY <1>13
    <2>2. PICK x : x = [NoLogin EXCEPT !.pc = "hash", !.who = a]
      OBVIOUS
    <2>3. Next(x) /\ UNCHANGED attempts
      BY <2>1, <2>2 DEF AskSetup, AskLogin, LoginRequest, NoLogin, Next
    <2> QED BY <1>3, <2>3
  <1>14. CASE UpdateUserCredentials(h)
    BY <1>5, <1>6, <1>14 DEF UpdateUserCredentials
  <1>15. CASE ClearSetupPending(h) \/ SaveSetup(h)
    BY <1>5, <1>15 DEF ClearSetupPending, SaveSetup
  <1>16. CASE RemoveFile(h)
    BY <1>6, <1>16 DEF RemoveFile
  <1> QED BY <1>7, <1>8, <1>9, <1>10, <1>11, <1>12, <1>13, <1>14, <1>15, <1>16 DEF LoginStep

LEMMA PanelKeepsLockouts ==
  ASSUME LoginsLimited, [PanelNext]_pvars
  PROVE  Limited
  <1>1. ASSUME NEW h \in Handler, AccountMove(h) \/ CronMove(h) \/ ObjectMove(h) \/ FileMove(h)
        PROVE  Limited
    <2>1. UNCHANGED <<attempts, login, now>>
      BY <1>1 DEF AccountMove, SessionsFollow, CronMove, ObjectMove, FileMove, lvars
    <2> QED BY <2>1, LimiterLeftAlone
  <1>2. ASSUME NEW h \in Handler, LoginMove(h)
        PROVE  Limited
    BY <1>2, LimitedRequest DEF LoginMove
  <1>3. CASE ProcessMove
    <2>1. CASE ProcessStep
      <3>1. UNCHANGED <<attempts, login>> /\ now' \in {now, now + 1}
        BY <2>1 DEF ProcessStep, WriteCredentials, MarkSetupPending, SavePending, Start, Tick, EndSession
      <3> QED BY <3>1, LimiterLeftAlone
    <2>2. CASE Crash
      <3>1. /\ attempts' = [i \in Ip |-> Never] /\ now' = now /\ process' = "down"
            /\ login' = [h \in Handler |-> NoLogin]
        BY <2>2 DEF Crash
      <3>2. NoLogin \in LoginRequest /\ NoLogin.pc = "idle"
        BY DEF NoLogin, LoginRequest
      <3>3. LoginsLimited'
        BY <3>1, <3>2 DEF LoginsLimited, LimiterOK, LockoutInv
      <3> QED BY <3>1, <3>3 DEF Limited, LockoutKept
    <2> QED BY <1>3, <2>1, <2>2 DEF ProcessMove
  <1>4. CASE ChatMove \/ UNCHANGED pvars
    <2>1. UNCHANGED <<attempts, login, now>>
      BY <1>4 DEF ChatMove, pvars, lvars
    <2> QED BY <2>1, LimiterLeftAlone
  <1> QED BY <1>1, <1>2, <1>3, <1>4 DEF PanelNext

\* loginLimiter and postLogin: whatever fails, expires, waits for the semaphore or logs in
\* from elsewhere, a lockout ends early only by a login from its address or with the process.
THEOREM LockoutsStay == PanelSpec => LockoutStands
  <1>1. PanelInit => LoginsLimited
    BY LimitedBegins
  <1>2. LoginsLimited /\ [PanelNext]_pvars => LoginsLimited' /\ LockoutKept
    BY PanelKeepsLockouts DEF Limited
  <1> QED BY <1>1, <1>2, PTL DEF PanelSpec, LockoutStands

-----------------------------------------------------------------------------
(* Types *)

\* What sessions and the flags of the set-up can be; a session is about to be made for
\* an account that was found.
GateOK ==
  /\ sessions \subseteq Account
  /\ \A h \in Handler : login[h].pc = "session" => login[h].who # None
  /\ boot \in BOOLEAN /\ pending \in BOOLEAN /\ saved \in BOOLEAN
  /\ credFile \in BOOLEAN /\ unsaved \in BOOLEAN

LEMMA GateBegins ==
  ASSUME LoginInit
  PROVE  GateOK
  BY DEF LoginInit, NoLogin, GateOK

LEMMA LoginKeepsGate ==
  ASSUME GateOK, login \in [Handler -> LoginRequest], NEW h \in Handler, LoginStep(h)
  PROVE  GateOK'
  <1> DEFINE Known == \A g \in Handler : login'[g].pc = "session" => login'[g].who # None
             Other(pc) == pc # "session" \/ login[h].who # None
  <1>1. login[h] \in LoginRequest /\ login[h].who \in Account \cup {None} /\ NoLogin.pc = "idle"
    BY DEF LoginRequest, NoLogin
  <1>2. \A pc : LoginGoto(h, pc) /\ Other(pc) => Known
    BY <1>1 DEF LoginGoto, LoginRequest, GateOK
  <1>3. LoginEnd(h) => Known
    BY <1>1 DEF LoginEnd, GateOK
  <1>4. \A new : AskLogin(h, new) /\ new.pc # "session" => Known
    BY DEF AskLogin, GateOK
  <1>5. CASE \E i \in Ip, a \in Account \cup {None} : AskIn(h, i, a)
    <2>1. Known
      BY <1>4, <1>5 DEF AskIn, NoLogin
    <2> QED BY <1>5, <2>1 DEF AskIn, SetupFlags, GateOK
  <1>6. CASE \E a \in Account : AskSetup(h, a)
    <2>1. Known
      BY <1>4, <1>6 DEF AskSetup, NoLogin
    <2> QED BY <1>6, <2>1 DEF AskSetup, SetupFlags, GateOK
  <1>7. CASE Acquire(h)
    BY <1>2, <1>7 DEF Acquire, SetupFlags, GateOK
  <1>8. CASE Verify(h)
    <2>1. CASE LoginGoto(h, "bad")
      BY <1>2, <1>8, <2>1 DEF Verify, SetupFlags, GateOK
    <2>2. CASE login[h].who # None /\ login' = [login EXCEPT ![h].pc = "session",
                                                         ![h].admin = user[login[h].who].role = "admin"]
      BY <1>1, <1>8, <2>2 DEF Verify, LoginRequest, SetupFlags, GateOK
    <2> QED BY <1>8, <2>1, <2>2 DEF Verify
  <1>9. CASE CreateSession(h)
    <2>1. login[h].who \in Account
      BY <1>1, <1>9 DEF CreateSession, LoginAt, GateOK
    <2> QED BY <1>2, <1>9, <2>1 DEF CreateSession, SetupFlags, GateOK
  <1>10. CASE Bad(h)
    BY <1>3, <1>10 DEF Bad, SetupFlags, GateOK
  <1>11. CASE Good(h)
    BY <1>3, <1>11 DEF Good, SetupFlags, GateOK
  <1>12. CASE UpdateUserCredentials(h)
    BY <1>2, <1>3, <1>12 DEF UpdateUserCredentials, GateOK
  <1>13. CASE ClearSetupPending(h)
    BY <1>2, <1>13 DEF ClearSetupPending, GateOK
  <1>14. CASE SaveSetup(h)
    BY <1>2, <1>14 DEF SaveSetup, Save, GateOK
  <1>15. CASE RemoveFile(h)
    BY <1>3, <1>15 DEF RemoveFile, SetupFlags, GateOK
  <1> QED BY <1>5, <1>6, <1>7, <1>8, <1>9, <1>10, <1>11, <1>12, <1>13, <1>14, <1>15 DEF LoginStep

LEMMA ProcessKeepsGate ==
  ASSUME GateOK, ProcessStep \/ Crash
  PROVE  GateOK'
  <1>1. CASE WriteCredentials
    BY <1>1 DEF WriteCredentials, SetupFlags, GateOK
  <1>2. CASE MarkSetupPending
    BY <1>2 DEF MarkSetupPending, GateOK
  <1>7. CASE SavePending
    BY <1>7 DEF SavePending, Save, GateOK
  <1>3. CASE Start
    BY <1>3 DEF Start, GateOK
  <1>4. CASE Tick
    BY <1>4 DEF Tick, SetupFlags, GateOK
  <1>5. CASE \E a \in Account : EndSession(a)
    BY <1>5 DEF EndSession, SetupFlags, GateOK
  <1>6. CASE Crash
    <2>1. (unsaved \/ SettingUp) \in BOOLEAN
      BY DEF SettingUp
    <2> QED BY <1>6, <2>1 DEF Crash, NoLogin, GateOK
  <1> QED BY <1>1, <1>2, <1>3, <1>4, <1>5, <1>6, <1>7 DEF ProcessStep

\* What the panel keeps of its own, of which the others' invariants say nothing.
PanelInv == HostingInv /\ SetupInv /\ LoginsLimited /\ GateOK /\ menu \in Menus

LEMMA PanelKeeps ==
  ASSUME PanelInv, [PanelNext]_pvars
  PROVE  PanelInv'
  <1>1. HostingInv' /\ SetupInv' /\ LoginsLimited'
    BY PanelKeepsHosting, PanelKeepsSetup, PanelKeepsLockouts DEF PanelInv, Limited
  <1>2. menu' \in Menus
    BY DEF PanelInv, PanelNext, pvars
  <1>3. GateOK'
    <2>1. ASSUME NEW h \in Handler, AccountMove(h)
          PROVE  GateOK'
      BY <2>1 DEF AccountMove, SessionsFollow, SetupFlags, GateOK, PanelInv
    <2>2. ASSUME NEW h \in Handler, LoginMove(h)
          PROVE  GateOK'
      <3>1. login \in [Handler -> LoginRequest] /\ LoginStep(h)
        BY <2>2 DEF LoginMove, PanelInv, SetupInv
      <3> QED BY <3>1, LoginKeepsGate DEF PanelInv
    <2>3. CASE ProcessMove
      BY <2>3, ProcessKeepsGate DEF ProcessMove, PanelInv
    <2>4. ASSUME UNCHANGED lvars
          PROVE  GateOK'
      BY <2>4 DEF lvars, GateOK, PanelInv
    <2>5. ASSUME NEW h \in Handler, CronMove(h) \/ ObjectMove(h) \/ FileMove(h)
          PROVE  GateOK'
      BY <2>4, <2>5 DEF CronMove, ObjectMove, FileMove
    <2>6. CASE ChatMove \/ UNCHANGED pvars
      BY <2>4, <2>6 DEF ChatMove, pvars
    <2> QED BY <2>1, <2>2, <2>3, <2>5, <2>6 DEF PanelNext
  <1> QED BY <1>1, <1>2, <1>3 DEF PanelInv

\* The variables of all the components keep their types, in every instance: requests,
\* rows, transcripts and what the histories remember.
THEOREM PanelTypes == PanelSpec => []PanelTypeOK
  <1>1. PanelInit => PanelInv
    BY HostingBegins, SetupBegins, LimitedBegins, GateBegins DEF PanelInit, PanelInv
  <1>2. PanelInv /\ TranscriptTypeOK => PanelTypeOK
    <2> SUFFICES ASSUME PanelInv, TranscriptTypeOK PROVE PanelTypeOK
      OBVIOUS
    <2>1. AccountsTypeOK /\ CronTypeOK /\ DbTypeOK /\ FilesTypeOK
      BY DEF PanelInv, HostingInv, AccountsInv, CronInv, DbInv, FilesInv
    <2>2. LoginTypeOK
      BY DEF PanelInv, SetupInv, LoginsLimited, GateOK, LoginTypeOK
    <2> QED BY <2>1, <2>2 DEF PanelTypeOK, PanelInv
  <1> QED BY <1>1, <1>2, PanelKeeps, PanelImplementsTranscript, TranscriptTypes, PTL DEF PanelSpec
=============================================================================
