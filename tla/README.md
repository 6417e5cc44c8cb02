# Open ProPanel in TLA+

Open ProPanel is a hosting panel: one Go process that serves a web UI, keeps its
records in SQLite, and manages a Linux host (Apache or nginx, PHP-FPM pools,
git checkouts, systemd units, crontabs, MariaDB objects, certificates) by
writing files and running commands. Requests are goroutines of `net/http`; deployments run in
goroutines of their own and outlive the request that asked for them. There are
no transactions that span two statements, so nearly every operation is a
sequence of separately visible writes to the database, the disk and the running
services. This directory models the parts where the order of those writes
matters, checks them with TLC and proves the most important facts with TLAPS.

Paths below are relative to `src/`.

## 1. Inventory

| component | state | operations | what is hard | what must hold |
|---|---|---|---|---|
| **Background repository jobs** `internal/domains/repo.go`, `web/handlers_repo.go` | `jobs` map (running flag, one follow-up), goroutines, rows `sites`, `repos` | LinkRepo, UnlinkRepo, ChangeRepoBranch, StartActivate/Deploy/Build, MapSite; activateOnce, deployOnce, buildOnce; recover; start-up sweep | requests, jobs, unlink + relink, panics and restarts interleave | one run per project; latest request wins; a busy card is always resolved; the recorded commit is the one checked out |
| **Deploy manager** `internal/deploy` | checkout directories, deploy keys | Clone (remove, then clone), Deploy (fetch, reset), HeadInfo, GenerateKey, build | every command may fail; a single-branch clone cannot fetch another branch | a failed run leaves a consistent record |
| **GitHub webhook** `web/handlers_hooks.go` | delivery cache (queue + set), in memory | signature check, remember, branch filter, StartDeploy | redeliveries overlapping on two connections; eviction; restarts | a delivery id starts at most one deploy per window |
| **Failure limiter** `web/limiter.go` | attempts per address, login semaphore | allow, fail, success, acquire | lockout against idle reset and clean-up; shift cap; late answers of requests let through | a lockout stands until it is over |
| **Store** `internal/store` | all rows; one connection, so one statement is atomic | CRUD, UNIQUE columns, ON DELETE CASCADE, start-up sweep, migrations | read-modify-write across statements | (through its users) |
| **Site lifecycle and web servers** `domains/domains.go`, `apache`, `nginx`, `php` | vhost files, pools, active server, `sites` | CreateSite, AddSubdomain, DeleteSite, SetServe, ChangePHP, SwitchWebServer, RegenerateAll, upgradeOwnerSites, AdoptSite | rollback after a late failure; stale rows rendered; a switch concurrent with a creation | files on disk are those of the rows; a failed operation leaves what it found |
| **Import** `domains.ImportExisting`, `vhostscan` | imported rows, dismissals | scan, group, prune, forget | a config that moves between two scans | managed rows are never pruned; a forgotten import stays forgotten |
| **Certificates** `internal/ssl`, Enable/DisableSSL | certbot's files, `ssl_enabled`, cert paths | Issue, EnableSSL, DisableSSL | minutes between read and write; a stop between two writes | vhost and row agree |
| **Accounts** `domains/tenant.go`, DeleteAccount, users handlers | users, Linux users | ensureTenant, create, delete | two locks, and a creation that takes neither; check-then-act | last admin stays; no shared or lost Linux user |
| **Login and set-up** `internal/auth`, `handlers_setup.go`, `ensureAdmin` | sessions, set-up flag | login, logout, set-up | order of password, flag, file; crashes; late answers | the wizard guards the bootstrap password; lockouts bind logins |
| **Cron** `internal/cron`, `handlers_cron.go` | cron rows, crontabs | create, delete, sync, rollback | unlocked list-then-install; rejections | the crontab is that of the rows |
| **App server** `domains/app.go`, `internal/appserver` | app rows, units, sockets | SetProxyApp, removal, reconcile | failure half-way through four writes | proxy mode implies an app |
| **AI assistant** `internal/ai` | transcripts, conversation table | Chat, run, trimHistory, eviction | failed turns, trimming inside a tool exchange | every transcript is a valid request |
| **MariaDB objects** `handlers_db.go`, `store/dbstore.go` | rows, server objects, privileges | create, drop, grant, revoke | failure between two writes; account deletions | rows name what exists, pages what is granted |
| **File manager** `handlers_files.go`, `internal/filemanager` | trees of the sites, owners of their entries | save, upload, mkdir, rename, copy, zip, unzip, delete, chown | made as root and handed over afterwards, while the account gets a Linux user | what is made belongs to the account |
| **Configuration file** `internal/config` | settings in memory and on disk | setters, Save | a failed save, a stop before it | (through switch and set-up) |
| Panel certificate, phpMyAdmin, toolchain, doctor, command runner, pages, project detection | none another part depends on | | | not modelled, see 6 |

How they interact: handlers call `domains.Service`, which calls the store and
the managers of the host directly. The webhook and the AI assistant call the
same StartDeploy as the button on the page. Jobs share the `sites` and `repos`
rows with the handlers, and the web server's `Apply` with every other operation
that changes a vhost. Cron jobs, database objects, files, sites and sessions all
hang on an account: several of them make its Linux user when they first need
one, and its deletion takes them all. Only the jobs map, web-server switches
with adoptions and regenerations (`switchMu`), account deletion (`accountMu`),
Linux-user provisioning (`tenantMu`, which takes `switchMu` to hand sites over) and tool
installation are serialised, each by a mutex of its own.

## 2. Modules

| module | what it is | code |
|---|---|---|
| `SingleFlight` | abstract specification: an executor with one run and one coalescing follow-up per key | the promise of `repoJob`, `domains.go:60-70` |
| `RepoJobs` | handlers, jobs, rows and checkouts, one action per database call or git command | `domains/repo.go`, `deploy/deploy.go`, `web/handlers_repo.go` |
| `Limiter` | the limiter's `allow` and `fail` as actions over its map and the clock | `web/limiter.go` |
| `WebhookGate` | extends `Limiter`: delivery cache and handler, concurrent requests, owner, clock, restarts | `web/handlers_hooks.go` |
| `SiteLifecycle` | rows of sites against vhosts, pools, units, services and the configuration file | `domains/domains.go`, `domains/app.go`, `apache`, `nginx`, `php`, `vhostscan` |
| `Accounts` | users, Linux users and the sites of an account | `domains/tenant.go`, DeleteAccount, the users handlers |
| `CronSync`, `DBObjects`, `Files` | each extends `Accounts` by what hangs on an account: cron jobs, MariaDB objects, the trees of its sites | `handlers_cron.go`, `handlers_db.go`, `handlers_files.go` and the packages below them |
| `LoginGate` | extends `Accounts` and `Limiter`: logins, sessions, set-up, the process | `handlers.go`, `handlers_setup.go`, `auth`, `cmd/openpropanel/main.go` |
| `Transcript` | a specification of its own: conversations, turns, trimming | `ai/agent.go` |
| `Panel` | the composition of the last six | `web/server.go`, and what cascades |
| `RepoJobs_proofs`, `Limiter_proofs`, `WebhookGate_proofs`, `SiteLifecycle_proofs`, `SiteArtefacts_proofs`, `Transcript_proofs`, `Hosting_proofs`, `Panel_proofs` | theorems and their lemmas; `SiteLifecycle_proofs` has the layers 1 and 2 of section 4, `SiteArtefacts_proofs` what they give for files, pools, units and roots; `Hosting_proofs` is about accounts and what hangs on them | |
| `MCRepoJobs`, `MCWebhookGate`, `MCSiteLifecycle`, `MCPanel` | instances and symmetry for TLC | |

Every definition marked `Bug:` is what one of them would be after a plausible
slip; no specification uses it. It is there to show that a property notices.

### RepoJobs

*State.* `site` and `row` are the columns of `sites` and `repos` that matter;
`checkout[d]` is the commit in a checkout directory, or None. `running` and
`next` are the fields of `repoJob`. `wk[w]` is a job goroutine and `hd[h]` a
request handler: a program counter and the local variables that outlive a step
(the branch and commit read at the beginning, the row looked up before marking).
`site.by` tells a mapping the job guessed from one a user chose. `asked`
and `owed` are history: the last request, with the branch tip at that moment,
and the requests no run has taken up.

*Identity.* Site and repository ids are AUTOINCREMENT and never reused, so they
are the elements of `Site` and `Repo`, minted once. The checkout directory
follows from the main **domain**; `DirOf` maps sites to directories, so two
site ids may share one: a domain deleted and created again.

*Steps.* The database has one connection, so each call is atomic, and so is each
critical section under `jobMu`. What lies between two of these is a step
boundary. `Lookup`, `MarkBusy`, `Enqueue` are the three parts of
StartActivate / StartDeploy / StartBuild. A run goes through `RunBegin` (look the
row up), `RunMark`, `RunPrepare`, then `RunWipe` + `RunClone` or `RunFetch` or
neither, `RunReread` + `RunPersist` (the automatic mapping), `RunStamp`,
`RunBuild`, `RunOk`, and `RunEnd`; every step with a command or a lookup
may fail into `RunFail` / `RunFailWrite` (`recordRepoFailure` reads and then
writes). `RunPanic` may hit any step in between. `Crash` forgets memory and
keeps disk and database; `Startup` is the sweep.

*Abstracted.* Which commands fail and why, the log, the detected mapping's
content, the vhost an activation writes (SiteLifecycle has it). `RunBuild` stands for all build commands and the reload.

### WebhookGate

A request is a record: source address, the repository id in its URL, its kind
(bad, push, another event), and of a push the delivery id and branch. The handler
runs as `Receive` (limiter), `Reject` or `Verify` (row and signature), `Remember`
(delivery cache) and `Decide` (branch filter and StartDeploy), and other
requests, `Manage` (unlink, link, branch change), `Tick` and `Restart` happen in
between. `order` and `seen` are the cache's queue and set; `log` and
`deploys` are history since the last restart. A signature is valid when the
request was made for the row that is there: what HMAC guarantees of the body, assumed.
A delivery is what the code takes for one: a value of the `X-GitHub-Delivery` header. That header is not
signed, so NoReplay and NoReplayedDeploy say nothing of a signed body that comes again under another
id or under none (None is a delivery id a push may have); see 5.

`Limiter` keeps for an address the failure count, the last failure and the end of
the lockout. `Allow` forgets an idle address **before** it looks at the lockout,
and `Fail` drops stale ones when the map is full, as the code does.

### SiteLifecycle

*State.* `row`, `app` and `dismissed` are the tables; `file[p][d]` is the virtual
host of domain d at path p: the panel's path in the directory of either web server,
or any other name in the directory of the server the host came with. `backup` holds
what an adoption renamed, `pool` the FPM pool files (a set: one for each PHP version
that has one), `docs` what is in a document root, `unit` the app's systemd unit.
`active`, `saved` and `service` are the web server in memory, in the configuration
file, and running.

*Steps.* A request looks at its row when it begins (`Ask`, with `copy` or `snap` what
it read), and each later statement, each file with the reload that follows, each
service command is an action: `CreatePool`, `CreateVHost`, `CreateRow`;
`DeleteTeardown`, `DeleteRows`; and so on. ImportExisting is seven: the directory is read, the
dismissals are read (`ScanDismissals`), the candidates looked up (`ScanLookUp`), main sites and then subdomains inserted,
imported rows grouped under their parents, unseen ones pruned; a deletion, with its dismissal, may fall between any two. What a failure does is a disjunct of the step: `RollBack`,
`Revert`, `Restore`, or an early return with what was written left there. `Start`
reads the configuration, imports and reconciles before the first request.

*What is excused.* `doubt` is history: pairs of a domain and an aspect of it that an
operation left half-way where the code has no way back (`Spoils`), that a
crash met, or that two operations changed at a time without a lock to keep them apart. `Clash` lists the latter: any two of
create, delete, SetServe, ChangePHP, TLS and SetProxyApp on a site (but two deletions or
two SetProxyApps), a switch beside one of these, a regeneration or an owner's upgrade
beside one that changes what it writes, a creation, a deletion or a scan beside an adoption, a creation or a deletion
beside a scan. For
everything else, and for every pair not in the table, the properties hold without exception;
a quiet regeneration takes the doubt about vhosts and pools away, a start that about the vhosts it rendered.
So what `doubt` covers is not shown to be right after two such operations at a time, and for most of these pairs the code
does leave something wrong (5).

Four properties do not depend on `doubt` about overlaps. ServiceIsActive has no such excuse. ProxyHasApp and DocsKept excuse the pairs in
`Crossing` alone (`crossed`): a SetServe with a SetProxyApp, and two creations, of one domain. ForgottenStays excuses a domain
that was forgotten after a scan at work had read the dismissals (`late`).

### Accounts, CronSync, DBObjects, Files, LoginGate, Transcript, Panel

`Accounts` is the part the others share. A request (`hd[h]`) has an operation, a program
counter and what it read. `TenantLook`, `TenantDerive`, `TenantEnsure`, `TenantPersist` and
`TenantUpgrade` are ensureTenant, on behalf of whatever request needs it: a site
created, or a cron job added or removed. To CreateSite it is best effort: `SiteBuild` goes on
without a Linux user when it failed (`domains.go:153-157`). `DeleteBegin` to `DeleteLogin` are
DeleteAccount under `accountMu`.

`CronSync`: `AddCron` and `DelCron` change the row, then the request provisions,
`CronList`s and `CronInstall`s; `TakeBack` and a second pass follow a refusal. `DBObjects`: row before server for a creation, server
before row for the others, each command with three outcomes (done, not done, done and the
answer lost). `Files`: a request works as root entry by entry (a copy skips what
is gone by the time it gets there), then
`HandOver` looks the account's Linux user up; `FilesUpgrade` hands a tree over when the account gets its
Linux user. `LoginGate`: limiter, semaphore, comparison, session, verdict as steps; the set-up
in the order of postSetup; the first start from ensureAdmin's INSERT on, with credentials file, flag and save as steps
(`WriteCredentials`, `MarkSetupPending`, `SavePending`), a later one as the file has it.
When a site's document root is made, its tree goes to the account's Linux user if it has one (`FilesInit`).
`Transcript`: `Post` finds or makes the conversation under one mutex, `Begin` waits for the conversation's
own, `Call` and `Dispatch` are the rounds.

`Panel` composes them. A step of a component leaves the others' variables alone, but for
three things: a deletion drops the account's objects (`DropOwned`), removes its Linux user with its
crontab (`CronDeleteLogin`), and lets sessions and rows cascade (`SessionsFollow`, `DbAfterAccounts`,
`Jobs`); a provisioning hands trees over (`FilesUpgrade`). When the process ends (`Crash`), wherever its
requests are, each component says what that leaves behind (`Interrupted`, `CronCrash`, `DbCrash`, `FilesCrash`,
`Restart`): the requests are gone, rows, Linux users, crontabs, MariaDB objects and files stay as they are. `FreeOf` says that a handler serves one request at a time, and `Served` that
nothing but the wizard is served while the set-up is pending. A *menu* is drawn when a
behaviour begins: which users there are, which operations are asked for, how many.
It keeps the instance small without removing interleavings among what is on it.

*History variables.* `auto`: accounts provisioned by ensureTenant. `contested`: Linux
users or accounts taken away under a request that had just found them.
`stale`: accounts two requests synced at a time, or whose sync failed. `kept`: refused jobs
whose removal failed. `mixed`: Linux users two accounts had, or with the crontab
of an account since deleted. `doubted`: objects a command's failure left half-way, or that
two requests or a deletion worked on at a time. `shadowed`: privileges that outlived their
database. `left`: entries whose hand-over failed or never comes. `unsaved`: a save of the set-up flag
failed, or the process stopped between the credentials and that save, which is told from where it was
(`SettingUp`), not from what it left. Each marks gaps of the code listed in
5, and each property says which one it excuses. What the end of the process cuts short, and no start takes up
again, counts with them: a site about to be recorded (`contested`), accounts being synced (`stale`), a refused job
about to be taken back (`kept`), objects a request or a deletion had in hand (`doubted`), entries not yet handed over (`left`).

## 3. Runs

| run | instance | shows |
|---|---|---|
| `repo_core` | 1 site, 1 repository, 2 branches, 2 requests at a time, 3 in all, 1 push per branch, 1 restart, panics | TypeOK, JobsInv, CommitIsCheckedOut, LatestRequestKept, BusyIsBacked, LatestRequestWins, and that the jobs implement `SingleFlight` |
| `repo_relink` | a site with a subdomain, 2 repository ids, 4 requests, panics | OneRunPerProject, CommitIsCheckedOut, LatestRequestKept through unlink, relink and deletion while jobs run |
| `repo_live` | 1 site, 1 repository, 3 requests, 1 restart, panics, fairness | BusySettles, LatestRequestTaken |
| `webhook_gate` | 2 addresses, 3 deliveries, cache of 2, 2 connections, 4 requests, clock to 5, 1 restart | TypeOK, CacheExact, NoReplay, NoReplayedDeploy (of delivery ids), LockoutStands |
| `site_lifecycle` | a managed site, a subdomain of it, an imported site with an imported subdomain; 2 PHP versions, 2 roots; 2 requests at a time, 3 in all, 1 restart, failures | with what overlaps excused as in 2: TypeOK, ManagedInSync, PoolInSync, NoOrphans, ServiceIsActive, ProxyHasApp, ImportUntouched, DocsKept, ForgottenStays |
| `panel` | 3 accounts, 2 names, 3 Linux users, 2 jobs of which crond refuses one, a database and a database user, 3 paths, 2 archives, 2 addresses, 2 conversations; 2 requests at a time, eleven menus | PanelTypeOK, AdminRemains, LoginsStand, JitExclusive, SitesOwned, CrontabIsRows, RefusedJobGone, ObjectsBacked, GrantsBacked, FilesHandedOver, SetupGuards, LockoutStands, TranscriptValid, TranscriptBounded |
| `repo_lost` | violated: NoRequestLost | see 5.1 |
| `repo_wiped` | violated: LiveCommitHasCheckout | see 5.2 |
| `repo_stuck` | violated: BusyIsBacked | see 5.3 |
| `repo_recreate` | violated: OneRunPerCheckout | see 5.4 |
| `site_confined` | violated: PoolConfined | see 5.5 |
| `cron_shared` | violated: RowsRun | see 5.6 |

*Bounds.* Three requests are the least with which one is running, one queued and
one replaces it; two handlers the least for a lookup to be overtaken; two
branches the least for a checkout to be on the wrong one; one push lets the tip
move during a run. A fourth request allows link, activate, unlink and link again
with a job running. Two workers suffice because a second goroutine for the one
project is what must not appear. In the webhook run three ids and a cache of two make an
id leave the cache and return; a threshold of 1, a longest lockout of 2 s and an
idle reset of 2 s keep the code's relation (60 s and 15 min: a lockout never
outlives the memory of its failures) at its tightest; a map bound of 1 makes the clean-up happen
with two addresses. The bounds (`MaxOps`, `MaxPush`, `MaxCrash`, `MaxReq`,
`MaxTime`, `MaxRestart`, `MaxNow`, `MaxChats`) are guards of the actions that consume them.
Deadlock is not checked: when the bounds are used up, or when nobody asks
anything of the panel, it rightly rests.

For `site_lifecycle` a menu is any pair of operations (and saving another setting beside a switch,
the operator removing a vhost beside a scan or an adoption, an owner editing the landing
page beside a creation). Three requests let two overlap after one that sets the scene, or one
follow two that overlapped; one restart is enough to lose what only memory held. The imported site's file has a name of
its own, as most have; with the panel's own name it would be the panel's path, which the
adoption renames all the same. One database, one database user and two jobs
are the least that can collide or be refused beside an accepted one; the two names produce the same Linux user and
the same object names; "eve" is a Linux user the panel did not make. The limiter is at its tightest, as above.
A cap of 6 messages with 2 rounds of tool use is the least for which a whole turn fits
(`TranscriptAssumption`; the code has 80 and 16), and three turns (`MaxChats`) pass it; a table of one
evicts at every second conversation. The menus and their number of
requests (2 to 5) are in `MCPanel`: deletions of administrators by one another; sites
while their account gets a Linux user or is deleted; cron jobs of an account deleted and made again;
cron jobs of two accounts; database objects and a deletion; logins and a deletion; the first run;
the assistant; the file manager, while an account gets its Linux user and of one that has it. In all but the deletions of administrators, the cron jobs
of one account and the logins there is a menu on which the process may end between any two steps.

*Fairness* (`repo_live`). Handlers and job goroutines are weakly fair: the Go
scheduler runs them, `repoJobTimeout` ends every command of a job, and no job waits
for another. `Startup` is weakly fair: the unit is restarted on failure
(`packaging`, `Restart=on-failure`). Nothing else is: users,
pushes, panics and crashes never have to happen.
The other runs check safety only. Every lock of `Accounts`
and `SiteLifecycle` is released by each outcome of the step that ends it, and the two that nest
(`tenantMu`, then `switchMu`) nest in one order only.

## 4. Proofs

All theorems hold for arbitrary finite or infinite sets and any bounds, under the
named assumptions of the modules. For the first two components: `SiteAssumption` (a subdomain's main site is a
main site; every site has a directory), `NoneAssumption` and `GateAssumption`
(the placeholder is no element of the sets), `BoundAssumption`,
`LimiterAssumption`, and `LockoutAssumption` (no lockout up to 2^MaxShift is longer than
the idle reset, and lockouts grow: true of 64 s and 15 minutes).

**RepoJobs.** `TypeCorrect` proves TypeOK, with what a goroutine's program counter
says of its local variables: without it a job's `req` could be None and no later
step would be typed. `JobsMapExact` proves JobsInv, which is inductive given the
types: the flag is up exactly for the projects with a goroutine, a goroutine is the only
one of its project, and only a running project has a follow-up. OneRunPerProject
(`AtMostOneRun`) is one conjunct of it and not inductive by itself: it needs the flag
to tell the truth when RunRepoJob starts a goroutine. `LatestKept` follows the latest
request through Enqueue, RunEnd and RunBegin. `JobsImplementSingleFlight` maps the
flag, the goroutine's request and `next` to the abstract executor and shows
each action to be a step of it or a stutter.

`AtMostOneRunPerCheckout` and `CommitStaysCheckedOut` are about directories: two site ids share one when a
domain is deleted and created again, and then the project key of the jobs map does not keep their jobs apart. Their premise is
`RecreatedIdle`: while a site of a domain is live, no *other* site id of it is `Engaged`, which is to have a job, a queued run or a request
about to queue one. Deleting and creating again as such is allowed, with any jobs before and after; the
`repo_recreate` run shows that the code does not guarantee the premise. The argument: a project that becomes engaged is
live (`EngagedBegins`, since a row of a repository exists only with its project, `SitesInv`), of the sites of one domain one at most is live
(`OneLive`), so two engaged at a time would have broken the premise before (`ApartInv`).

`BusyStaysBacked` (BusyIsBacked) and `LatestWins` (LatestRequestWins) are about panels in which a project is not linked anew
while work for its former repository is under way (`LinksApart`): a follow-up, a job, or a request about to
be queued; LatestWins needs `RecreatedIdle` too. Unlink and relink as such are allowed, and so are requests that looked a repository up and have not marked it yet. The premise is needed. Without it a
request for the former repository takes the place of the new one's follow-up (5.3, the `repo_stuck` run), and a panic is
recorded on the repository its goroutine was *started* for, not the one it works on (`repo.go:184`). The `repo_core` run
has one site and one repository id, for which both premises always hold.

Both rest on `StepKinds`, which says once what a step of a job (`JobStep`), of a request (`RequestStep`), a queueing (`QueueStep`) and the end of a run
(`EndStep`) can do to the rows, and on `NamesInv`: a repository is named only by the requests and jobs of the project it is linked to,
though rows go and come between their steps. `BusyIsBacked` is then inductive under the premise. `LatestRequestWins` speaks of a
panel at rest, so `ShowsInv` follows the promise from the request on: the tip it found is still there to fetch
(`TipInv`), a run without a follow-up is what was asked for last (`LastInv`) and carries a commit that is at least that (`RunShows`), a
project at rest shows it (`RestInv`). It says so of a row that is *settled*: a changed branch is not what is checked out
until the activation that follows it has been queued.

**WebhookGate.** `CacheIsExact` and `ReplaysRefused` belong together: the queue is the
last stretch of the admission log, so an id that is not in the set is not in that
stretch, and admitting it keeps equal ids more than MaxSeen apart: a theorem about ids, as NoReplay is. `LockoutsLast` needs
`LockoutInv`: a lockout ends no later than the last failure plus the lockout
that many failures earn, and below the threshold there is none. So an entry old
enough to be forgotten cannot block any more, and a further failure never
brings the end forward. `Limiter_proofs` shows it for `allow`, `fail` and the clock
alone, and both users of the limiter cite it. `DeploysAdmitted` (NoReplayedDeploy)
counts: an admission of a delivery id pays for one deploy of it, so its deploys and the
requests about to decide on it are together no more than its admissions (`DeploysPaid`).

**Transcript.** `TranscriptIsValid` needs no strengthening but what a turn's program counter says of the last
message and of the snapshot it would go back to; its weight is in the lemmas on
`Trim`: a cut falls on a message of the user, so a suffix of a well-formed transcript is
well formed, and as long as a whole turn fits under the cap (2 * MaxIterations + 2 <= MaxMessages, an assumption:
16 and 80 in the code) there is such a message to cut at. `TranscriptIsBounded` rests on
the same lemma: the search never comes back empty-handed. `PanelImplementsTranscript`
carries both into the composition: every step of the panel is a step of Transcript or leaves it alone.

**Hosted sites.** Requests hold no lock and write from rows they read earlier, so no property of `SiteLifecycle` is near
to inductive. The proofs go up in three layers.

1. `StructInv`: where a request of each kind can be, what it holds there, who has `switchMu` (`SiteTypes` is part of it).
2. `HeldIsCurrent`: what a request read of a site is *still so* of every site that is clear, that is, has an aspect
   `doubt` does not list. `OverlapOK` says that two requests that clash on a site have made it
   unclear, so next to a request on a clear site there is only what `Clash` leaves out, and `CurrentInv`, kind by kind, what
   it relies on: a creation, that there is no row; an edit, that its copy differs from the row only in what it is about to
   write (`Draft`); a switch, that its list is the table; an adoption, that the row is still imported. Together with the
   shape these are `Base`.
3. One invariant for each property, proved on top of `Base` and independently of the others. Each states the property of a
   clear site that nobody is at work on, and for every place where a request may have gone half of its way what holds
   there instead:
   - `VHostInv` (`ManagedStaysInSync`): after the virtual host of a creation or adoption is written it shows the *copy*; a
     switch that can still be reverted has the old server's files in step; a quiet regeneration has rewritten all.
   - `PoolInv` (`PoolsStayInSync`): the same of pools, whose owner is the server at the time of writing, until a switch
     has passed `SwitchRepool`.
   - `StrayInv` (`NothingIsLeft`): what a deletion has torn down is bare until its rows go; a site being made has no unit and nothing in the other
     directory; what an adoption would put back is not the panel's. From these a rollback is seen to
     leave what it found.
   - `ImportInv` (`ImportsStayUntouched`): while an adoption can fail, the operator's file is in the backup at the path it
     came from, or was not renamed; a scan about to record a domain has seen it, whatever it
   still has to look up and insert.
   - `AppInv`, `DocsInv` and `ServiceInv` (`ProxySitesHaveApps`, `RootsStay`, `ServiceFollows`) are smaller. The row's id tells
     a request whose site was deleted and created again that nothing it does reaches the new row. The first two stand for
     sites that are *not* clear as well: they rest on `CrossInv` instead of layer 2, which says that of requests whose pair is in
     `Crossing` only one can be at work on a domain that is not in `crossed`.

`ForgottenStaysForgotten` is an action property and needs the first layer and `ForgottenInv` only: what a scan has chosen
from the dismissals it read is not dismissed since, but for what is `late`. The lemmas `RowChanges`, `FileChanges`,
`PoolChanges`, `DocsChanges` and `ModeChanges` say once, for any step and any domain, what the step can do to it;
`FileOwner` and `PoolOwner` who may do so, `Besides`, `BesidesFile` and `BesidesPool` who cannot be there at the time.

The attempt to prove them changed the model three times, at places where its instance was too small to object: a
managed subdomain of an imported site loses its row with its parent (`Stranded`); a scan beside a creation or a deletion may prune or
record from what the directory held before; and a creation may meet an operator's document root (see 5). They hold for any
domains and subdomains, document roots, versions and number of requests.

**Accounts in the panel.** `AdminStays`, `LoginsStay` and `JitStaysExclusive` follow from one inductive
invariant, `AccountsInv`. Beside the three properties it says what each program counter implies: who holds
`accountMu` and `tenantMu`; while a deletion is between its check and its row, an
administrator other than the account in question exists; while a name is being
provisioned, no auto-provisioned account has it; a Linux user just found is there or contested; one
about to be removed belongs to nobody or is contested. Without the second, AdminRemains is not inductive: it is a check
made several steps earlier, and the lock, that protect the last one. `Hosting_proofs`
has one lemma per action; `Panel_proofs` shows that each step of the composition is one of
these on the accounts' variables or leaves them alone. They hold for any number
of accounts, requests and names.

**What hangs on an account.** `SitesStayOwned`, `RefusedJobsGo`, `CrontabStaysRows`, `FilesStayHandedOver`,
`ObjectsStayBacked` and `GrantsStayBacked` come from one invariant, `HostingInv`, whose parts are proved side by
side: every step of the composition is a step of one part and one the others stand by. None of the six properties
is inductive, for the same reason: each speaks of a time when nobody is at work, and what is at work has
to leave things so that it holds in the end.

- `SitesInv` says of a deletion which sites it has yet to list or tear down, and of a creation that it records
  a site of an account that was there when it looked; what is built beyond that is contested.
- `CronInv` says what each request knows of its job and of the Linux user it is going to write for, and for each
  crontab whose jobs it holds: those of its account or, while a request is between row and crontab, all but that
  request's. A refused job that is still a row is in the hands of the request that will take it back. A sync
  that runs alone (`Lone`) ends with exactly the rows it listed; one that does not makes its account stale.
- `FilesInv` says of each entry below a document root that its owner is right, that a request has it in hand, that it
  is forsaken, or that a provisioning is about to hand the whole tree over (`OwnedOrDue`). The steps of one request differ in what they
  touch, so `FileWorks` takes an entry either as it was or rightfully owned, and each operation shows one of the two.
- `DbInv` says what a request relies on (`Work`): a row with the id it read, and nobody else at work on the object
  unless both grant or revoke; of an object, that row and server agree unless somebody makes, drops or loses it
  (`ObjectInv`); of a pair, that page and server agree unless a request is between the two (`PairInv`). That a
  grant is about the pair whose ids it read, although names can be reused, is because ids are not (`Shape`).

`DropOwnedKeeps`, `DbFollowsAccounts`, `CronFollowsAccounts` and `FilesFollowAccounts` carry each part through the life of
the account, and `CronCutShort`, `DbCutShort` and `FilesCutShort` through the end of the process at any point.

**Types of the panel.** `PanelTypes` proves PanelTypeOK from the invariants of the parts and `GateOK`: a session is only made
for an account that was found.

**Set-up.** `SetupStaysGuarded` follows from `SetupInv`, which says of each place in ensureAdmin and
postSetup, whose orders differ, which of memory, file and credentials already agree: only the first
account can be asked for while the wizard stands; a request past the update implies that
the bootstrap password is gone; outside the two stretches from the credentials to the save (`SettingUp`) the file is right
unless a save failed or the process stopped within one of them. That is why a later start, which only reads the file, is right.

**Lockouts of the login.** `LockoutsStay` is the same property in the panel, where an address can
also be freed by a valid login. It rests on `Limiter_proofs` and on one fact of its own: a
login that waits for the semaphore or for its verdict has an address.

**Only model-checked.** BusySettles and LatestRequestTaken: liveness, which is beyond the
prover. BusyIsBacked and LatestRequestWins without the premise are not true (5.3).

## 5. Where code and documentation disagree

1. **A request can be lost** (`repo_lost`). The follow-up slot holds whatever was asked
   last: a build asked after a deploy or an activation replaces it, though a build
   fetches nothing. `repo.go:150-153` promises that none is lost.
2. **A failed activation can leave no checkout** (`repo_wiped`). `Clone` removes the directory
   first, while the row keeps its live commit; `repo.go:233-235` says that the site
   keeps serving its existing checkout.
3. **A card can stay busy** (`repo_stuck`). A request that looked up a repository before it
   was unlinked replaces the queued run of the repository linked since, whose status then has no
   job behind it until the next restart (`store.go:742-746`).
4. **Two jobs in one checkout** (`repo_recreate`). Delete a domain while its job runs and
   create it again: the new id has a job of its own in the same directory
   (`domains.go:60-63`).

5. **PHP stays confined to a root the site has left** (`site_confined`). SetServe and a repository's
   mapping change the document root and the vhost, not the pool whose `open_basedir` names the old
   root (`php.go:197-198`); PHP then refuses the files it is asked to run, until something rewrites the pool.
6. **Accounts of one Linux user erase each other's cron jobs** (`cron_shared`). A sync installs
   one account's jobs as the whole managed block (`handlers_cron.go:151-164`).

Smaller gaps, met while modelling. Each is the meaning of a history variable or of an excuse in a property:

- *Webhook.* `handlers_hooks.go:63-64` says that "a captured signed delivery cannot be replayed to force deploy loops". The signature
  covers the body (32-47, 128) and the cache goes by the `X-GitHub-Delivery` header (137), which is not signed, and lets a request
  without one through: the same signed body under a new id, or none, deploys again. What the code keeps, and what is checked, is that an *id* is admitted once per window.
- *Sites.* A creation that fails late takes the landing page of its document root with it, also when the owner wrote the page before
  the site existed (`docs`). A CreateSite whose FPM reload fails leaves the pool it wrote. A failed `Save` after a switch leaves the pools with the old server's user, and the next
  start goes back to the old server. ImportExisting does not take `switchMu`; a scan after a switch
  prunes imported sites, whose files are in the other server's directory. Adopting a domain twice overwrites the first backup.
  A subdomain that was adopted stays the child of an imported site; when that site is forgotten or pruned, ON DELETE CASCADE takes the
  managed row too (`domains.go:828` says that only imported rows go), and its vhost, pool and unit stay with nothing to remove them.
  A creation on the domain of an import that was forgotten may fail late: its rollback removes the file at the panel's path and, with nothing but an
  `index.html` in it, the document root, which it takes for one it has just made (`domains.go:1232`).
- *Sites, two operations at a time* (`Clash`). No lock keeps operations on one site apart, but for switches, adoptions, regenerations and upgrades among themselves.
  Two creations of a domain both find it free, and the rollback of the one that loses the INSERT removes the
  other's virtual host, pool and, when empty but for the landing page, document root. A render beside a deletion leaves a virtual host without a
  row. Two edits of one site each render from the row they read. What is created or edited beside a switch may be written
  for the old server. A SetServe that leaves proxy mode persists that and then removes the app; with a SetProxyApp in between, that sets it
  up again, the site ends in proxy mode without an app, and neither a switch nor a regeneration can render it.
- *Forgotten imports.* A scan reads the dismissals once (`domains.go:751`), looks the candidates up (759) and inserts (779-806). A site forgotten
  after the first and looked up after its row is gone is imported again (`late`): its dismissal stands, and its row is back.
- *Accounts.* A creation that names a Linux user may find it just before a deletion removes it. A site
  created between a deletion's list and its row stays up without one, though `domains.go:365-366` says that nothing is left running.
  An account created with that Linux user before the count inherits its crontab. A crash between ensureAdmin's INSERT
  and the credentials file leaves an administrator nobody knows the password of.
- *Set-up* (`unsaved`). A stop between ensureAdmin's INSERT and its save (`main.go:185-199`), or a failed save, leaves the bootstrap password in force and
  no wizard at the next start, which finds the account and marks nothing. A stop or a failed save between UpdateUserCredentials and the save of postSetup
  (`handlers_setup.go:79-84`) brings the wizard back after a set-up that was done.
- *Cron* (`stale`). syncCron lists and installs without a lock: of two syncs of one account at a time the one that listed first may install last,
  and the crontab stays short of a row, or keeps one that was deleted, until the next change. A deletion whose sync fails, or is cut short by a stop, leaves the job running until then too.
- *MariaDB.* When the answer of a command is lost, the panel takes it for a failure: a CREATE that was done loses its row and leaves the object, a DROP
  keeps a row that stands for nothing, a GRANT leaves a privilege no page shows; two requests on one object, or a stop between row and server, leave the two apart as well (`doubted`). DROP DATABASE keeps the privileges on it: a database made again under the name is accessible to the old user,
  and the page shows no grant. A session's `sql_mode` without NO_AUTO_CREATE_USER lets GRANT make a user
  that was just dropped. A revoke that was recorded only half cannot be repeated. Two deletions of one object, the second with a stale id, can
  drop one made in between.
- *Files.* Unzip never hands over folders an archive implies but does not list. A failed copy or zip
  leaves root's files behind, while a failed unzip hands over what it made. What is renamed while a request is at work on it stays root's.
- *Assistant.* `lastUsed` is set when a turn ends, under another mutex than the one it is read
  under; a conversation can be evicted in the middle of its turn, whose answer nobody will
  see again, and two turns of one id can then run at a time (`agent.go:93-94` says they are serialised).

## 6. Not modelled

- *Text and parsing*: the content of vhosts, pools, units and crontabs, the Apache and nginx parser,
  prompts, pages, JSON. The models have what these say, not how.
- *I/O with no state another part depends on*: certbot's arguments, DNS, downloads, phpMyAdmin,
  installers, the doctor, the command runner. A command ends well or badly.
- *Project detection*: a function of one checkout's files, with table tests.
- *The panel's own certificate* (`web/tls.go`): one cached pair behind one mutex. It is checked for
  replacement at every handshake, so a pair met half-written is settled by the next one.
- *The assistant's tools* (`ai/tools.go`): each checks its arguments and calls the operation its page calls.
- *Reads whose errors the code ignores*: a scan takes dismissals or rows it cannot read for none (`dismissed, _ :=`, `domains.go:751`). Such reads
  of the local database succeed here; every other step may fail.
- `os.WriteFile` truncates and writes; a stop in between, which leaves half a file, is not a state of the models.
- Resetting a panel password or a database user's: one write that nothing modelled reads.
- `WebhookGate` is not composed with `RepoJobs`, nor either with `SiteLifecycle`: the product is beyond TLC at bounds that
  show anything. What a verified push starts is StartDeploy, an action of `RepoJobs`; what a mapping
  writes is `Serve` in `SiteLifecycle`.
