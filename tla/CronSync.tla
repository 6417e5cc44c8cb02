------------------------------ MODULE CronSync ------------------------------
(***************************************************************************)
(* Cron jobs: rows of cron_jobs against the block the panel manages in the *)
(* crontabs of the accounts' Linux users.  A request changes its row, then *)
(* syncs: it makes sure of the Linux user (Accounts), lists the account's  *)
(* rows and installs the list, holding no lock.  crond refuses a table     *)
(* with a job it does not accept, and then the new job is taken back and   *)
(* the account synced once more.                                           *)
(***************************************************************************)
EXTENDS Accounts

CONSTANTS
  Job,          \* ids of cron_jobs, each given out once
  Refused       \* jobs whose schedule passes the panel's check and not crond's

ASSUME JobAssumption == Refused \subseteq Job /\ None \notin Job

VARIABLES
  job,        \* job[j]: the account of a row, or None
  jobIds,     \* ids given out
  crontab,    \* crontab[l]: the jobs in the managed block of l's crontab
  sync,       \* sync[h]: what a request that syncs has in hand
  kept,       \* history: jobs whose removal failed or never came
  stale,      \* history: accounts two requests synced at a time, or one did not
  mixed       \* history: Linux users two accounts had, or that kept the crontab of
              \* an account deleted

cvars == <<job, jobIds, crontab, sync, kept, stale, mixed>>

-----------------------------------------------------------------------------
(* Types *)

Syncing == [job : Job \cup {None}, list : SUBSET Job, undoing : BOOLEAN, alone : BOOLEAN]
NoSync  == [job |-> None, list |-> {}, undoing |-> FALSE, alone |-> TRUE]

CronTypeOK ==
  /\ job \in [Job -> Account \cup {None}] /\ jobIds \subseteq Job
  /\ crontab \in [Login -> SUBSET Job] /\ sync \in [Handler -> Syncing]
  /\ kept \subseteq Job /\ stale \subseteq Account /\ mixed \subseteq Login

\* Rows go with their account.
Jobs(a) == {j \in Job : job[j] = a /\ Exists(a)}

\* Linux users of more than one account.
Shared == {l \in Login : \E a, b \in Account : a # b /\ user[a].sys = l /\ user[b].sys = l}

CronOp   == {"addcron", "delcron"}
Syncs(a) == {g \in Handler : hd[g].op \in CronOp /\ hd[g].who = a}
Quiet    == UNCHANGED <<tables, host, locks, history>>

-----------------------------------------------------------------------------
(* postCreateCron, postDeleteCron *)

\* The row is written, and syncCron reads the account.
AskCron(h, op, a, j) ==
  /\ Ask(h, [NoHandling EXCEPT !.op = op, !.who = a, !.row = user[a], !.pc = "tenant"])
  /\ sync' = [g \in Handler |->
                IF g = h THEN [NoSync EXCEPT !.job = j, !.alone = Syncs(a) = {}]
                ELSE IF g \in Syncs(a) THEN [sync[g] EXCEPT !.alone = FALSE] ELSE sync[g]]
  /\ stale' = IF Syncs(a) = {} THEN stale ELSE stale \cup {a}
  /\ Quiet /\ UNCHANGED <<crontab, kept>>

AddCron(h, a) ==
  /\ Exists(a)
  /\ \E j \in Job \ jobIds :
       /\ job' = [job EXCEPT ![j] = a] /\ jobIds' = jobIds \cup {j}
       /\ AskCron(h, "addcron", a, j)

DelCron(h, a, j) ==
  /\ j \in Jobs(a)
  /\ job' = [job EXCEPT ![j] = None] /\ UNCHANGED jobIds
  /\ AskCron(h, "delcron", a, j)

-----------------------------------------------------------------------------
(* syncCron *)

CronList(h) ==
  /\ hd[h].op \in CronOp /\ hd[h].pc = "ready"
  /\ sync' = [sync EXCEPT ![h].list = Jobs(hd[h].who)]
  /\ Goto(h, "install")
  /\ Quiet /\ UNCHANGED <<ops, job, jobIds, crontab, kept, stale>>

EndSync(h) == Reply(h) /\ sync' = [sync EXCEPT ![h] = NoSync]

\* Bug: with no job left the crontab is not written.
CronInstallEmptyNot(h) ==
  /\ hd[h].op \in CronOp /\ hd[h].pc = "install" /\ EndSync(h)
  /\ crontab' = IF sync[h].list = {} THEN crontab ELSE [crontab EXCEPT ![hd[h].login] = sync[h].list]
  /\ stale' = IF sync[h].alone THEN stale \ {hd[h].who} ELSE stale
  /\ Quiet /\ UNCHANGED <<ops, job, jobIds, kept>>

\* The whole table is replaced, or refused and left.
CronInstall(h) ==
  LET l == hd[h].login  s == sync[h] IN
  /\ hd[h].op \in CronOp /\ hd[h].pc = "install"
  /\ \/ /\ l \in logins /\ s.list \cap Refused = {}
        /\ crontab' = [crontab EXCEPT ![l] = s.list]
        /\ stale' = IF s.alone THEN stale \ {hd[h].who} ELSE stale
        /\ EndSync(h)
     \/ /\ Failures \/ l \notin logins \/ s.list \cap Refused # {}
        /\ Goto(h, "refused") /\ UNCHANGED <<crontab, stale, sync>>
  /\ Quiet /\ UNCHANGED <<ops, job, jobIds, kept>>

\* Bug: the crontab is restored and the row forgotten.
TakeBackNot(h) ==
  LET a == hd[h].who IN
  /\ hd[h].op = "addcron" /\ hd[h].pc = "refused" /\ ~sync[h].undoing
  /\ hd' = [hd EXCEPT ![h].pc = IF Exists(a) THEN "tenant" ELSE "refused", ![h].row = user[a]]
  /\ sync' = [sync EXCEPT ![h].undoing = TRUE]
  /\ Quiet /\ UNCHANGED <<ops, job, jobIds, crontab, kept, stale>>

\* A job whose sync failed, for whatever reason, is taken back, and the account
\* synced without it.
TakeBack(h) ==
  LET a == hd[h].who  j == sync[h].job IN
  /\ hd[h].op = "addcron" /\ hd[h].pc = "refused" /\ ~sync[h].undoing
  /\ \/ job' = [job EXCEPT ![j] = None] /\ UNCHANGED <<kept, stale>>
     \/ Failures /\ kept' = kept \cup {j} /\ stale' = stale \cup {a} /\ UNCHANGED job
  /\ hd' = [hd EXCEPT ![h].pc = IF Exists(a) THEN "tenant" ELSE "refused", ![h].row = user[a]]
  /\ sync' = [sync EXCEPT ![h].undoing = TRUE]
  /\ Quiet /\ UNCHANGED <<ops, jobIds, crontab>>

\* A removal whose sync failed leaves the crontab behind.
GiveUp(h) ==
  /\ hd[h].op \in CronOp /\ hd[h].pc = "refused" /\ (hd[h].op = "addcron" => sync[h].undoing)
  /\ stale' = IF hd[h].op = "delcron" THEN stale \cup {hd[h].who} ELSE stale
  /\ EndSync(h)
  /\ Quiet /\ UNCHANGED <<ops, job, jobIds, crontab, kept>>

-----------------------------------------------------------------------------
(* Beginning, and the steps *)

CronInit ==
  /\ job = [j \in Job |-> None] /\ jobIds = {} /\ crontab = [l \in Login |-> {}]
  /\ sync = [h \in Handler |-> NoSync] /\ kept = {} /\ stale = {} /\ mixed = Shared

CronStep(h) ==
  \/ \E a \in Account : AddCron(h, a) \/ \E j \in Job : DelCron(h, a, j)
  \/ CronList(h) \/ CronInstall(h) \/ TakeBack(h) \/ GiveUp(h)

\* The process ends: nobody takes back a job that was just added, nor installs what
\* was about to be.
CronCrash ==
  /\ sync' = [h \in Handler |-> NoSync]
  /\ kept' = kept \cup {sync[h].job : h \in {g \in Handler : hd[g].op = "addcron"}}
  /\ stale' = stale \cup {hd[h].who : h \in {g \in Handler : hd[g].op \in CronOp}}
  /\ UNCHANGED <<job, jobIds, crontab>>

\* sysuser.Remove: crontab -r comes first, its error is ignored as well.
CronDeleteLogin(h) ==
  LET l == hd[h].row.sys IN
  /\ DeleteLogin(h)
  /\ \/ crontab' = [crontab EXCEPT ![l] = {}]
     \/ Failures /\ l \in logins' /\ UNCHANGED crontab
  /\ UNCHANGED <<job, jobIds, sync, kept, stale>>

CronApart == UNCHANGED <<job, jobIds, crontab, sync, kept, stale>>

\* Linux users whose crontab cannot be put down to one account any more.
Muddled ==
  {l \in Login :
     \/ l \in Shared'
     \/ \E h \in Handler, a \in Account :
          /\ hd[h].op = "delete" /\ hd[h].who = a
          /\ \/ /\ Exists(a) /\ user'[a] = NoUser
                /\ l \in ({user[a].sys} \ {hd[h].row.sys}) \cup {hd[g].login : g \in Syncs(a)}
             \/ At(h, "delete", "count") /\ hd'[h].pc = "idle" /\ hd[h].row.sys = l
             \/ /\ At(h, "delete", "userdel") /\ hd'[h].pc = "idle" /\ hd[h].row.sys = l
                /\ \/ crontab'[l] # {}
                   \/ \E g \in Handler : hd[g].op \in CronOp /\ l \in {hd[g].login, hd[g].row.sys}}

-----------------------------------------------------------------------------
(* Properties *)

Leaving == {hd[h].row.sys : h \in {g \in Handler : At(g, "delete", "count") \/ At(g, "delete", "userdel")}}

\* When no request for an account is in flight, the crontab of its Linux user is
\* exactly its rows: after additions and removals one at a time, rejections taken
\* back, a Linux user made on the way, and other accounts' requests and deletions
\* beside them.  It says nothing of an account two of whose syncs overlapped, or one
\* of whose syncs failed or never came, until a later sync that had the account to
\* itself (stale): the list read first may be installed last.  Nor of a Linux user
\* that ever had two accounts or outlived one (mixed), which an account may inherit,
\* or that is being taken from one.
CrontabIsRows ==
  \A a \in Account \ stale :
    Exists(a) /\ Syncs(a) = {} /\ user[a].sys \in Login \ (mixed \cup contested \cup Leaving)
      => crontab[user[a].sys] = Jobs(a)

\* A job crond refuses never stays in the table, however requests overlap: it would
\* be in every later list and fail every later sync.
RefusedJobGone ==
  \A j \in Refused \ kept, a \in Account : job[j] = a /\ Exists(a) =>
    \E g \in Syncs(a) : sync[g].job = j

\* The rows of an account run from the crontab of its Linux user.
RowsRun ==
  \A a \in Account \ stale :
    Exists(a) /\ Syncs(a) = {} /\ user[a].sys \in Login \ contested
      => Jobs(a) \subseteq crontab[user[a].sys]
=============================================================================
