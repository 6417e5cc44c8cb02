------------------------------ MODULE RepoJobs ------------------------------
(***************************************************************************)
(* Deploying a site from a git repository: the HTTP handlers of            *)
(* internal/web/handlers_repo.go, the background jobs of                   *)
(* internal/domains/repo.go, and the database rows and checkout directories*)
(* they share.                                                             *)
(*                                                                         *)
(* Handlers and jobs are goroutines: each database call or git command is  *)
(* one step, because anything can run between two of them.  The database   *)
(* has a single connection, so one call is atomic.  A goroutine's local    *)
(* variables are the fields of its record.  The configuration files these  *)
(* operations write, and the reload that ends them, appear here only as    *)
(* something that may fail.                                                *)
(***************************************************************************)
EXTENDS Naturals, FiniteSets

CONSTANTS
  Site,      \* site ids ever minted (AUTOINCREMENT: never reused)
  MainOf,    \* MainOf[s]: the project a site belongs to; its own for a main site
  DirOf,     \* DirOf[s]: the checkout directory, one per main DOMAIN
  Dir,
  Repo,      \* repository ids ever minted (AUTOINCREMENT)
  Branch,
  Worker,    \* goroutines available to run jobs
  Handler,   \* concurrent HTTP requests
  None,      \* the absent request, repository, site or commit
  MaxOps,    \* bound: requests made
  MaxPush,   \* bound: commits pushed per branch
  MaxCrash,  \* bound: restarts of the panel
  Panics     \* whether a job may panic

Project == {s \in Site : MainOf[s] = s}

Kind    == {"activate", "deploy", "build"}
Request == [kind : Kind, repo : Repo]
Commit  == [branch : Branch, v : Nat]

ASSUME SiteAssumption ==
  /\ MainOf \in [Site -> Site]
  /\ \A s \in Site : MainOf[MainOf[s]] = MainOf[s]
  /\ DirOf \in [Site -> Dir]
ASSUME NoneAssumption ==
  None \notin Request \cup Commit \cup Repo \cup Site
ASSUME BoundAssumption ==
  MaxOps \in Nat /\ MaxPush \in Nat /\ MaxCrash \in Nat /\ Panics \in BOOLEAN

VARIABLES
  \* --- database ---
  site,      \* sites rows
  row,       \* repos rows
  minted,    \* repository ids handed out so far
  \* --- disk ---
  checkout,  \* checkout[d]: the commit in the working tree, or None
  \* --- memory of the panel process ---
  up,        \* the process is serving requests
  running,   \* jobs[p].running
  next,      \* jobs[p].next
  wk,        \* job goroutines
  hd,        \* handler goroutines
  \* --- the outside world, bounds and history ---
  tip,       \* tip[b]: the newest commit of a remote branch
  ops, crashes,
  asked,     \* history: the latest request given to runRepoJob for a project
  owed       \* history: requests no run has taken up since they were made

db    == <<site, row, minted>>
jobs  == <<running, next>>
world == <<tip, ops, crashes>>
ghost == <<asked, owed>>
vars  == <<db, checkout, up, jobs, wk, hd, world, ghost>>

-----------------------------------------------------------------------------
(* Types *)

Busy   == {"cloning", "deploying", "building"}
Status == Busy \cup {"linked", "ok", "error"}
SiteRow == [st : {"unborn", "live", "gone"}, repo : Repo \cup {None},
            by : {"none", "auto", "manual"}]
RepoRow == [present : BOOLEAN, project : Project \cup {None}, branch : Branch \cup {None},
            commit : Commit \cup {None}, status : Status]

WorkerPc == {"off", "begin", "mark", "prepare", "wipe", "clone", "fetch", "reread",
             "persist", "stamp", "build", "ok", "fail", "failwrite", "end"}
Work == [pc : WorkerPc, project : Project \cup {None}, req : Request \cup {None},
         first : Repo \cup {None}, blame : Repo \cup {None},
         branch : Branch \cup {None}, commit : Commit \cup {None},
         seen : Repo \cup {None}]

HandlerPc == {"idle", "lookup", "mark", "enqueue", "key", "persist", "clear", "drop", "delete"}
Handling == [pc : HandlerPc, kind : Kind \cup {None}, site : Site \cup {None},
             repo : Repo \cup {None}, commit : Commit \cup {None}]

NoSite == [st |-> "unborn", repo |-> None, by |-> "none"]
NoRow  == [present |-> FALSE, project |-> None, branch |-> None, commit |-> None,
           status |-> "linked"]
NoWork == [pc |-> "off", project |-> None, req |-> None, first |-> None, blame |-> None,
           branch |-> None, commit |-> None, seen |-> None]
NoHandling == [pc |-> "idle", kind |-> None, site |-> None, repo |-> None,
               commit |-> None]

\* A repository row always names its project and a branch.
WellFormedRow(x) == x.present => x.project \in Project /\ x.branch \in Branch

\* A job knows its project and its requests; a branch, once it has read the row.
WellFormedWork(x) ==
  x.pc # "off" =>
    /\ x.project \in Project /\ x.req \in Request
    /\ x.first \in Repo /\ x.blame \in Repo
    /\ x.pc \notin {"begin", "end"} => x.branch \in Branch

\* A handler knows what it has looked up.
WellFormedHandling(x) ==
  /\ x.pc \in {"lookup", "mark", "enqueue"} => x.kind \in Kind
  /\ x.pc = "lookup" /\ x.kind # "activate" => x.site \in Project
  /\ x.pc \in {"mark", "enqueue"} => x.site \in Project
  /\ x.pc \in {"persist", "delete"} => x.site \in Site
  /\ x.pc \in {"mark", "enqueue", "key", "clear", "drop", "persist"} => x.repo \in Repo

RowOK == row \in [Repo -> RepoRow] /\ \A r \in Repo : WellFormedRow(row[r])
WorkOK == wk \in [Worker -> Work] /\ \A w \in Worker : WellFormedWork(wk[w])
HandlingOK == hd \in [Handler -> Handling] /\ \A h \in Handler : WellFormedHandling(hd[h])
JobsOK == running \in [Project -> BOOLEAN] /\ next \in [Project -> Request \cup {None}]
HistoryOK == /\ asked \in [Project -> [req : Request \cup {None}, v : Nat]]
             /\ owed \in [Project -> SUBSET Request]

TypeOK ==
  /\ site \in [Site -> SiteRow] /\ RowOK /\ minted \subseteq Repo
  /\ checkout \in [Dir -> Commit \cup {None}]
  /\ up \in BOOLEAN /\ JobsOK /\ WorkOK /\ HandlingOK
  /\ tip \in [Branch -> Nat] /\ ops \in Nat /\ crashes \in Nat
  /\ HistoryOK

-----------------------------------------------------------------------------
(* Store operations *)

\* RepoByProject: UNIQUE(project_site_id) leaves at most one.
RepoOf(p) == {r \in Repo : row[r].present /\ row[r].project = p}

\* UpdateRepoDeploy: an UPDATE, so a row deleted meanwhile stays deleted.
UpdateRepoDeploy(r, c, st) ==
  row' = IF row[r].present
         THEN [row EXCEPT ![r].commit = c, ![r].status = st]
         ELSE row

\* SetSiteMapping: likewise an UPDATE.
SetSiteMapping(s, r, by) ==
  site' = IF site[s].st = "live"
          THEN [site EXCEPT ![s].repo = r, ![s].by = by]
          ELSE site

ClearRepoMapping(r) ==
  site' = [s \in Site |->
             IF site[s].st = "live" /\ site[s].repo = r
             THEN [site[s] EXCEPT !.repo = None, !.by = "none"]
             ELSE site[s]]

DeleteRepo(r) == row' = [row EXCEPT ![r] = NoRow]

BusyStatus(k) == CASE k = "activate" -> "cloning"
                   [] k = "deploy"   -> "deploying"
                   [] k = "build"    -> "building"

-----------------------------------------------------------------------------
(* Requests: what the HTTP handlers do *)

\* A user, or GitHub through the webhook, sends a request.
Accept(h) == /\ up
             /\ hd[h].pc = "idle"
             /\ ops < MaxOps
             /\ ops' = ops + 1
             /\ UNCHANGED <<tip, crashes>>

Handle(h, label)      == up /\ hd[h].pc = label
HandlerGoto(h, label) == hd' = [hd EXCEPT ![h].pc = label]
Reply(h)              == hd' = [hd EXCEPT ![h] = NoHandling]

\* postActivateRepo: authorizeRepo finds the row, StartActivate looks it up again.
ClickActivate(h, r) ==
  /\ Accept(h)
  /\ row[r].present
  /\ hd' = [hd EXCEPT ![h] = [@ EXCEPT !.pc = "lookup", !.kind = "activate", !.repo = r]]
  /\ UNCHANGED <<db, checkout, up, jobs, wk, ghost>>

\* postDeployProject, or a push event accepted by postGitHubHook.
ClickDeploy(h, p) ==
  /\ Accept(h)
  /\ site[p].st = "live"
  /\ hd' = [hd EXCEPT ![h] = [@ EXCEPT !.pc = "lookup", !.kind = "deploy", !.site = p]]
  /\ UNCHANGED <<db, checkout, up, jobs, wk, ghost>>

\* postRepoBranch / ChangeRepoBranch: store the branch, then StartActivate.
ChangeBranch(h, r, b) ==
  /\ Accept(h)
  /\ row[r].present
  /\ row' = [row EXCEPT ![r].branch = b]
  /\ hd' = [hd EXCEPT ![h] = [@ EXCEPT !.pc = "lookup", !.kind = "activate", !.repo = r]]
  /\ UNCHANGED <<site, minted, checkout, up, jobs, wk, ghost>>

\* The first line of StartActivate (RepoByID), StartDeploy and StartBuild
\* (RepoByProject): with no row there is nothing to do, and otherwise the row's
\* LastCommit is remembered for the next call.
Lookup(h) ==
  /\ Handle(h, "lookup")
  /\ LET found == IF hd[h].kind = "activate"
                  THEN {r \in Repo : r = hd[h].repo /\ row[r].present}
                  ELSE RepoOf(hd[h].site)
     IN \/ /\ found = {}
           /\ Reply(h)
        \/ \E r \in found :
             hd' = [hd EXCEPT ![h] = [@ EXCEPT !.pc = "mark", !.repo = r,
                                               !.site = row[r].project,
                                               !.commit = row[r].commit]]
  /\ UNCHANGED <<db, checkout, up, jobs, wk, world, ghost>>

\* "Mark busy now so the redirect straight after shows live progress."
MarkBusy(h) ==
  /\ Handle(h, "mark")
  /\ UpdateRepoDeploy(hd[h].repo, hd[h].commit, BusyStatus(hd[h].kind))
  /\ HandlerGoto(h, "enqueue")
  /\ UNCHANGED <<site, minted, checkout, up, jobs, wk, world, ghost>>

\* Bug: the running flag is not tested.
RunRepoJobUnguarded(p, q) ==
  /\ running' = [running EXCEPT ![p] = TRUE]
  /\ \E w \in Worker :
       /\ wk[w].pc = "off"
       /\ wk' = [wk EXCEPT ![w] = [NoWork EXCEPT !.pc = "begin", !.project = p,
                                     !.req = q, !.first = q.repo, !.blame = q.repo]]
  /\ UNCHANGED next

\* Bug: a follow-up already queued is kept, the newer request dropped.
RunRepoJobKeepFirst(p, q) ==
  \/ /\ running[p]
     /\ next' = [next EXCEPT ![p] = IF @ = None THEN q ELSE @]
     /\ UNCHANGED <<running, wk>>
  \/ ~running[p] /\ RunRepoJobUnguarded(p, q)

\* runRepoJob, under jobMu: become the follow-up of the running job, or start one.
RunRepoJob(p, q) ==
  \/ /\ running[p]
     /\ next' = [next EXCEPT ![p] = q]
     /\ UNCHANGED <<running, wk>>
  \/ /\ ~running[p]
     /\ running' = [running EXCEPT ![p] = TRUE]
     /\ \E w \in Worker :
          /\ wk[w].pc = "off"
          /\ wk' = [wk EXCEPT ![w] = [NoWork EXCEPT !.pc = "begin", !.project = p,
                                        !.req = q, !.first = q.repo, !.blame = q.repo]]
     /\ UNCHANGED next

Enqueue(h) ==
  /\ Handle(h, "enqueue")
  /\ LET p == hd[h].site
         r == hd[h].repo
         q == [kind |-> hd[h].kind, repo |-> r]
     IN /\ RunRepoJob(p, q)
        /\ asked' = [asked EXCEPT ![p] =
                       [req |-> q, v |-> IF row[r].present THEN tip[row[r].branch] ELSE 0]]
        /\ owed' = [owed EXCEPT ![p] = @ \cup {q}]
  /\ Reply(h)
  /\ UNCHANGED <<db, checkout, up, world>>

\* LinkRepo: the row starts as "linked".  A public repository goes straight on
\* to StartActivate; a private one first gets its deploy key.
LinkRepo(h, p, r, b) ==
  /\ Accept(h)
  /\ site[p].st = "live"
  /\ RepoOf(p) = {}
  /\ r \notin minted
  /\ minted' = minted \cup {r}
  /\ row' = [row EXCEPT ![r] = [present |-> TRUE, project |-> p, branch |-> b,
                                commit |-> None, status |-> "linked"]]
  /\ \E then \in {"lookup", "key"} :
       hd' = [hd EXCEPT ![h] = [@ EXCEPT !.pc = then, !.kind = "activate", !.repo = r]]
  /\ UNCHANGED <<site, checkout, up, jobs, wk, ghost>>

\* GenerateKey; when it fails the row just created is deleted again.
GenerateKey(h) ==
  /\ Handle(h, "key")
  /\ Reply(h)
  /\ UNCHANGED row \/ DeleteRepo(hd[h].repo)
  /\ UNCHANGED <<site, minted, checkout, up, jobs, wk, world, ghost>>

\* UnlinkRepo: detach the mapped sites, then delete the row.
UnlinkRepo(h, p) ==
  /\ Accept(h)
  /\ \E r \in RepoOf(p) :
       hd' = [hd EXCEPT ![h] = [@ EXCEPT !.pc = "clear", !.repo = r]]
  /\ UNCHANGED <<db, checkout, up, jobs, wk, ghost>>

UnlinkClear(h) ==
  /\ Handle(h, "clear")
  /\ ClearRepoMapping(hd[h].repo)
  /\ HandlerGoto(h, "drop")
  /\ UNCHANGED <<row, minted, checkout, up, jobs, wk, world, ghost>>

UnlinkDrop(h) ==
  /\ Handle(h, "drop")
  /\ DeleteRepo(hd[h].repo)
  /\ Reply(h)
  /\ UNCHANGED <<site, minted, checkout, up, jobs, wk, world, ghost>>

\* MapSite: the site and its project's repository are looked up first.
MapSite(h, s) ==
  /\ Accept(h)
  /\ site[s].st = "live"
  /\ \E r \in RepoOf(MainOf[s]) :
       hd' = [hd EXCEPT ![h] = [@ EXCEPT !.pc = "persist", !.site = s, !.repo = r]]
  /\ UNCHANGED <<db, checkout, up, jobs, wk, ghost>>

\* applyMapping.  With a build command StartBuild follows, which looks the
\* project's repository up again; without one, or when the vhost cannot be
\* rendered, the request is over.
MapPersist(h) ==
  /\ Handle(h, "persist")
  /\ SetSiteMapping(hd[h].site, hd[h].repo, "manual")
  /\ \/ Reply(h)
     \/ hd' = [hd EXCEPT ![h] = [@ EXCEPT !.pc = "lookup", !.kind = "build",
                                          !.site = MainOf[hd[h].site]]]
  /\ UNCHANGED <<row, minted, checkout, up, jobs, wk, world, ghost>>

\* Domains.DeleteSite: once the configuration is torn down, the row goes, and
\* with it the subdomains' rows and the repository's (ON DELETE CASCADE).  A
\* failed reload leaves the rows.
DeleteSite(h, s) ==
  /\ Accept(h)
  /\ site[s].st = "live"
  /\ hd' = [hd EXCEPT ![h] = [@ EXCEPT !.pc = "delete", !.site = s]]
  /\ UNCHANGED <<db, checkout, up, jobs, wk, ghost>>

Family(s) == {t \in Site : t = s \/ MainOf[t] = s}

DeleteRows(h) ==
  /\ Handle(h, "delete")
  /\ LET s == hd[h].site
     IN \/ UNCHANGED <<site, row>>
        \/ /\ site' = [t \in Site |-> IF t \in Family(s) /\ site[t].st = "live"
                                      THEN [NoSite EXCEPT !.st = "gone"] ELSE site[t]]
           /\ row' = [r \in Repo |-> IF r \in RepoOf(s) THEN NoRow ELSE row[r]]
  /\ Reply(h)
  /\ UNCHANGED <<minted, checkout, up, jobs, wk, world, ghost>>

\* CreateSite / AddSubdomain, seen from here: a new id; the domain, hence the
\* checkout directory, may be one a deleted site had.
CreateSite(s) ==
  /\ up
  /\ site[s].st = "unborn"
  /\ MainOf[s] = s => \A t \in Site : DirOf[t] = DirOf[s] => site[t].st # "live"
  /\ MainOf[s] # s => site[MainOf[s]].st = "live"
  /\ site' = [site EXCEPT ![s].st = "live"]
  /\ UNCHANGED <<row, minted, checkout, up, jobs, wk, hd, world, ghost>>

-----------------------------------------------------------------------------
(* Jobs: one run of activateOnce, deployOnce or buildOnce *)

Run(w, label)  == up /\ wk[w].pc = label
Goto(w, label) == wk' = [wk EXCEPT ![w].pc = label]

\* recordRepoFailure(repoID, c, ...): None stands for the empty commit.
FailWith(w, c) == wk' = [wk EXCEPT ![w] = [@ EXCEPT !.pc = "fail", !.commit = c]]

\* activateOnce passes "", the others the commit they read at the beginning.
FailEarly(w) == FailWith(w, IF wk[w].req.kind = "activate" THEN None ELSE wk[w].commit)

\* What a run of kind k makes up for: an activation clones afresh and builds,
\* a deploy fetches and builds.
Covered(k) == CASE k = "activate" -> Kind
                [] k = "deploy"   -> {"deploy", "build"}
                [] k = "build"    -> {"build"}

\* RepoByID, "unlinked while queued" when the row is gone.
RunBegin(w) ==
  /\ Run(w, "begin")
  /\ LET q == wk[w].req
         r == q.repo
         done == IF row[r].present THEN Covered(q.kind) ELSE Kind
     IN /\ IF row[r].present
           THEN wk' = [wk EXCEPT ![w] = [@ EXCEPT !.pc = "mark", !.branch = row[r].branch,
                                                  !.commit = row[r].commit]]
           ELSE Goto(w, "end")
        /\ owed' = [owed EXCEPT ![wk[w].project] = @ \ [kind : done, repo : {r}]]
  /\ UNCHANGED <<db, checkout, up, jobs, hd, world, asked>>

\* "Re-mark busy from inside the run."
RunMark(w) ==
  /\ Run(w, "mark")
  /\ UpdateRepoDeploy(wk[w].req.repo, wk[w].commit, BusyStatus(wk[w].req.kind))
  /\ Goto(w, "prepare")
  /\ UNCHANGED <<site, minted, checkout, up, jobs, hd, world, ghost>>

\* The site, its owner, the tenant user and (activation) git ls-remote.
RunPrepare(w) ==
  /\ Run(w, "prepare")
  /\ LET p == wk[w].project
         after == CASE wk[w].req.kind = "activate" -> "wipe"
                    [] wk[w].req.kind = "deploy"   -> "fetch"
                    [] wk[w].req.kind = "build"    -> "build"
     IN \/ FailEarly(w)
        \/ /\ site[p].st = "live"
           /\ wk' = [wk EXCEPT ![w] = [@ EXCEPT !.pc = after, !.seen = site[p].repo]]
  /\ UNCHANGED <<db, checkout, up, jobs, hd, world, ghost>>

\* Clone removes whatever checkout there is ...
RunWipe(w) ==
  /\ Run(w, "wipe")
  /\ \/ FailEarly(w) /\ UNCHANGED checkout           \* not empty, not a git checkout
     \/ /\ checkout' = [checkout EXCEPT ![DirOf[wk[w].project]] = None]
        /\ Goto(w, "clone")
  /\ UNCHANGED <<db, up, jobs, hd, world, ghost>>

Tip(b) == [branch |-> b, v |-> tip[b]]

\* Bug: the commit is recorded without asking git which one it is.
RunCloneBlind(w) ==
  /\ Run(w, "clone")
  /\ checkout' = [checkout EXCEPT ![DirOf[wk[w].project]] = Tip(wk[w].branch)]
  /\ Goto(w, "reread")
  /\ UNCHANGED <<db, up, jobs, hd, world, ghost>>

\* ... and then runs git clone --single-branch --depth 1.
RunClone(w) ==
  /\ Run(w, "clone")
  /\ \/ FailEarly(w) /\ UNCHANGED checkout
     \/ LET c == Tip(wk[w].branch)
        IN /\ checkout' = [checkout EXCEPT ![DirOf[wk[w].project]] = c]
           /\ \/ wk' = [wk EXCEPT ![w] = [@ EXCEPT !.pc = "reread", !.commit = c]]
              \/ FailEarly(w)                        \* rev-parse failed
  /\ UNCHANGED <<db, up, jobs, hd, world, ghost>>

\* Bug: git pull, which stays on the branch the checkout happens to be on.
RunFetchPull(w) ==
  /\ Run(w, "fetch")
  /\ LET d == DirOf[wk[w].project]
         c == Tip(checkout[d].branch)
     IN /\ checkout[d] # None
        /\ checkout' = [checkout EXCEPT ![d] = c]
        /\ wk' = [wk EXCEPT ![w] = [@ EXCEPT !.pc = "stamp", !.commit = c]]
  /\ UNCHANGED <<db, up, jobs, hd, world, ghost>>

\* Deploy: git fetch and reset --hard origin/<branch>.  A single-branch clone
\* has a remote-tracking ref for its own branch only.
RunFetch(w) ==
  /\ Run(w, "fetch")
  /\ LET d == DirOf[wk[w].project]
         c == Tip(wk[w].branch)
     IN \/ FailEarly(w) /\ UNCHANGED checkout
        \/ /\ checkout[d] # None
           /\ checkout[d].branch = wk[w].branch
           /\ checkout' = [checkout EXCEPT ![d] = c]
           /\ \/ wk' = [wk EXCEPT ![w] = [@ EXCEPT !.pc = "stamp", !.commit = c]]
              \/ FailEarly(w)                        \* rev-parse failed
  /\ UNCHANGED <<db, up, jobs, hd, world, ghost>>

\* The site row is read again after the clone (the older copy serves if it is
\* gone), and DetectFolder guesses how to serve the checkout, or cannot tell.
RunReread(w) ==
  /\ Run(w, "reread")
  /\ LET p == wk[w].project
         seen == IF site[p].st = "live" THEN site[p].repo ELSE wk[w].seen
     IN \/ Goto(w, "stamp")
        \/ /\ seen # wk[w].req.repo
           /\ Goto(w, "persist")
  /\ UNCHANGED <<db, checkout, up, jobs, hd, world, ghost>>

\* applyMapping for the main site; an error in it is not fatal.
RunPersist(w) ==
  /\ Run(w, "persist")
  /\ SetSiteMapping(wk[w].project, wk[w].req.repo, "auto")
  /\ Goto(w, "stamp")
  /\ UNCHANGED <<row, minted, checkout, up, jobs, hd, world, ghost>>

RunStamp(w) ==
  /\ Run(w, "stamp")
  /\ UpdateRepoDeploy(wk[w].req.repo, wk[w].commit, "building")
  /\ Goto(w, "build")
  /\ UNCHANGED <<site, minted, checkout, up, jobs, hd, world, ghost>>

\* Bug: a failed build returns without recording the failure.
RunBuildSilent(w) ==
  /\ Run(w, "build")
  /\ Goto(w, "ok") \/ Goto(w, "end")
  /\ UNCHANGED <<db, checkout, up, jobs, hd, world, ghost>>

\* buildProject runs the build command of every part, then the web server is
\* reloaded: each may fail.
RunBuild(w) ==
  /\ Run(w, "build")
  /\ Goto(w, "ok") \/ Goto(w, "fail")
  /\ UNCHANGED <<db, checkout, up, jobs, hd, world, ghost>>

RunOk(w) ==
  /\ Run(w, "ok")
  /\ UpdateRepoDeploy(wk[w].req.repo, wk[w].commit, "ok")
  /\ Goto(w, "end")
  /\ UNCHANGED <<site, minted, checkout, up, jobs, hd, world, ghost>>

\* recordRepoFailure: an empty commit is replaced by the stored one ...
RunFail(w) ==
  /\ Run(w, "fail")
  /\ LET stored == IF row[wk[w].blame].present THEN row[wk[w].blame].commit ELSE None
         kept   == IF wk[w].commit = None THEN stored ELSE wk[w].commit
     IN wk' = [wk EXCEPT ![w] = [@ EXCEPT !.pc = "failwrite", !.commit = kept]]
  /\ UNCHANGED <<db, checkout, up, jobs, hd, world, ghost>>

\* ... and the row ends in "error".
RunFailWrite(w) ==
  /\ Run(w, "failwrite")
  /\ UpdateRepoDeploy(wk[w].blame, wk[w].commit, "error")
  /\ Goto(w, "end")
  /\ UNCHANGED <<site, minted, checkout, up, jobs, hd, world, ghost>>

\* A panic is recovered by runRepoJob, which records a failure with no commit
\* on the repository its FIRST request named.
RunPanic(w) ==
  /\ up /\ Panics
  /\ wk[w].pc \notin {"off", "begin", "end", "fail", "failwrite"}
  /\ wk' = [wk EXCEPT ![w] = [@ EXCEPT !.pc = "fail", !.commit = None,
                                       !.blame = wk[w].first]]
  /\ UNCHANGED <<db, checkout, up, jobs, hd, world, ghost>>

\* Bug: the goroutine ends without looking for a follow-up.
RunEndForgets(w) ==
  /\ Run(w, "end")
  /\ LET p == wk[w].project
     IN /\ wk' = [wk EXCEPT ![w] = NoWork]
        /\ running' = [running EXCEPT ![p] = FALSE]
        /\ next' = [next EXCEPT ![p] = None]
  /\ UNCHANGED <<db, checkout, up, hd, world, ghost>>

\* Bug: the follow-up is started but stays queued.
RunEndReplays(w) ==
  /\ Run(w, "end")
  /\ LET p == wk[w].project
     IN IF next[p] # None
        THEN /\ wk' = [wk EXCEPT ![w] = [NoWork EXCEPT !.pc = "begin", !.project = p,
                                           !.req = next[p], !.first = wk[w].first,
                                           !.blame = next[p].repo]]
             /\ UNCHANGED jobs
        ELSE /\ wk' = [wk EXCEPT ![w] = NoWork]
             /\ running' = [running EXCEPT ![p] = FALSE]
             /\ UNCHANGED next
  /\ UNCHANGED <<db, checkout, up, hd, world, ghost>>

\* The end of the loop body, under jobMu: the follow-up, or the goroutine ends.
RunEnd(w) ==
  /\ Run(w, "end")
  /\ LET p == wk[w].project
     IN \/ /\ next[p] # None
           /\ wk' = [wk EXCEPT ![w] = [NoWork EXCEPT !.pc = "begin", !.project = p,
                                         !.req = next[p], !.first = wk[w].first,
                                         !.blame = next[p].repo]]
           /\ next' = [next EXCEPT ![p] = None]
           /\ UNCHANGED running
        \/ /\ next[p] = None
           /\ wk' = [wk EXCEPT ![w] = NoWork]
           /\ running' = [running EXCEPT ![p] = FALSE]
           /\ UNCHANGED next
  /\ UNCHANGED <<db, checkout, up, hd, world, ghost>>

-----------------------------------------------------------------------------
(* The outside world *)

Push(b) ==
  /\ tip[b] < MaxPush
  /\ tip' = [tip EXCEPT ![b] = @ + 1]
  /\ UNCHANGED <<db, checkout, up, jobs, wk, hd, ops, crashes, ghost>>

\* The panel process dies: goroutines and the jobs map go, the database, the
\* disk and the running web server stay.
Crash ==
  /\ up /\ crashes < MaxCrash
  /\ crashes' = crashes + 1
  /\ up' = FALSE
  /\ running' = [p \in Project |-> FALSE]
  /\ next' = [p \in Project |-> None]
  /\ wk' = [w \in Worker |-> NoWork]
  /\ hd' = [h \in Handler |-> NoHandling]
  /\ asked' = [p \in Project |-> [req |-> None, v |-> 0]]
  /\ owed' = [p \in Project |-> {}]
  /\ UNCHANGED <<db, checkout, tip, ops>>

\* Bug: a status the rest of the panel does not know.
SweepStaleUnknown ==
  row' = [r \in Repo |-> IF row[r].present /\ row[r].status \in Busy
                         THEN [row[r] EXCEPT !.status = "stale"] ELSE row[r]]

\* Bug: "building", the newest busy status, is missing from the WHERE clause.
SweepStaleForgetful ==
  row' = [r \in Repo |-> IF row[r].present /\ row[r].status \in Busy \ {"building"}
                         THEN [row[r] EXCEPT !.status = "error"] ELSE row[r]]

\* ResetStaleRepoDeploys.
SweepStale ==
  row' = [r \in Repo |-> IF row[r].present /\ row[r].status \in Busy
                         THEN [row[r] EXCEPT !.status = "error"] ELSE row[r]]

\* Start-up, before the first request is served.
Startup ==
  /\ ~up
  /\ up' = TRUE
  /\ SweepStale
  /\ UNCHANGED <<site, minted, checkout, jobs, wk, hd, world, ghost>>

-----------------------------------------------------------------------------
Init ==
  /\ site = [s \in Site |-> NoSite]
  /\ row = [r \in Repo |-> NoRow]
  /\ minted = {}
  /\ checkout = [d \in Dir |-> None]
  /\ up = TRUE
  /\ running = [p \in Project |-> FALSE]
  /\ next = [p \in Project |-> None]
  /\ wk = [w \in Worker |-> NoWork]
  /\ hd = [h \in Handler |-> NoHandling]
  /\ tip = [b \in Branch |-> 0]
  /\ ops = 0 /\ crashes = 0
  /\ asked = [p \in Project |-> [req |-> None, v |-> 0]]
  /\ owed = [p \in Project |-> {}]

\* A new request.
Arrive(h) ==
  \/ \E r \in Repo : ClickActivate(h, r) \/ \E b \in Branch : ChangeBranch(h, r, b)
  \/ \E p \in Project : ClickDeploy(h, p) \/ UnlinkRepo(h, p)
  \/ \E p \in Project, r \in Repo, b \in Branch : LinkRepo(h, p, r, b)
  \/ \E s \in Site : DeleteSite(h, s) \/ MapSite(h, s)

\* A request already accepted goes on.
Proceed(h) ==
  \/ Lookup(h) \/ MarkBusy(h) \/ Enqueue(h) \/ GenerateKey(h)
  \/ UnlinkClear(h) \/ UnlinkDrop(h)
  \/ MapPersist(h) \/ DeleteRows(h)

\* A job goes on.
Continue(w) ==
  \/ RunBegin(w) \/ RunMark(w) \/ RunPrepare(w) \/ RunWipe(w) \/ RunClone(w)
  \/ RunFetch(w) \/ RunReread(w) \/ RunPersist(w) \/ RunStamp(w) \/ RunBuild(w) \/ RunOk(w)
  \/ RunFail(w) \/ RunFailWrite(w) \/ RunEnd(w)

Next ==
  \/ \E h \in Handler : Arrive(h) \/ Proceed(h)
  \/ \E w \in Worker : Continue(w) \/ RunPanic(w)
  \/ \E s \in Site : CreateSite(s)
  \/ \E b \in Branch : Push(b)
  \/ Crash \/ Startup

Spec == Init /\ [][Next]_vars

\* Goroutines are scheduled, every command a job runs is bounded by
\* repoJobTimeout, and systemd restarts the panel.  Requests, pushes, panics
\* and crashes are never forced to happen.
Fairness ==
  /\ \A h \in Handler : WF_vars(Proceed(h))
  /\ \A w \in Worker : WF_vars(Continue(w))
  /\ WF_vars(Startup)

FairSpec == Spec /\ Fairness

-----------------------------------------------------------------------------
(* Properties *)

Active(w) == wk[w].pc # "off"

\* runRepoJob: a project never has two job goroutines, whatever handlers,
\* unlinks, relinks and restarts do meanwhile.
OneRunPerProject ==
  \A v, w \in Worker :
    Active(v) /\ Active(w) /\ wk[v].project = wk[w].project => v = w

\* The jobs map tells the truth about the goroutines: a running flag is up exactly
\* for the projects that have one, just one, and only they have a follow-up.
JobsInv ==
  /\ OneRunPerProject
  /\ \A w \in Worker : Active(w) => running[wk[w].project]
  /\ \A p \in Project : running[p] => \E w \in Worker : Active(w) /\ wk[w].project = p
  /\ \A p \in Project : next[p] # None => running[p]

\* "Two concurrent git jobs there would corrupt it" (repoJob): no two jobs use
\* one checkout directory.
OneRunPerCheckout ==
  \A v, w \in Worker :
    /\ Active(v) /\ Active(w)
    /\ DirOf[wk[v].project] = DirOf[wk[w].project]
    => v = w

\* A job of the project runs or is queued, or a request is about to queue one.
Engaged(p) ==
  running[p] \/ \E h \in Handler : hd[h].pc \in {"mark", "enqueue"} /\ hd[h].site = p

\* A domain is created anew only once what was asked for the site it had before is
\* over, so that no site has its checkout where one deleted still has a job.
RecreatedIdle ==
  \A p, q \in Project :
    p # q /\ DirOf[p] = DirOf[q] /\ site[p].st = "live" => ~Engaged(q)

\* The repositories a project's follow-up, its job (with the one its goroutine
\* was started for) and the requests about to be queued for it are about.
Concerned(p) ==
  {r \in Repo :
     \/ next[p] # None /\ next[p].repo = r
     \/ \E w \in Worker : Active(w) /\ wk[w].project = p /\ r \in {wk[w].req.repo, wk[w].first}
     \/ \E h \in Handler : hd[h].pc = "enqueue" /\ hd[h].site = p /\ hd[h].repo = r}

\* No project is linked anew while work for its former repository is under way.
LinksApart == \A r \in Repo : row[r].present => Concerned(row[r].project) \subseteq {r}

\* From the moment its git step has ended until it records the outcome, the
\* checkout a deploy or an activation builds and reloads is at the commit it
\* is going to record.
CommitIsCheckedOut ==
  \A w \in Worker :
    /\ wk[w].pc \in {"reread", "persist", "stamp", "build", "ok"}
    /\ wk[w].req.kind # "build"
    => checkout[DirOf[wk[w].project]] = wk[w].commit

\* The request made last is never dropped: as long as no run has taken it up, it
\* is the queued follow-up or what a goroutine is about to begin.
LatestRequestKept ==
  \A p \in Project :
    asked[p].req \in owed[p] =>
      \/ next[p] = asked[p].req
      \/ \E w \in Worker : wk[w].pc = "begin" /\ wk[w].project = p /\ wk[w].req = asked[p].req

\* Somebody is going to resolve the busy status of r.
Resolving(r) ==
  \/ ~up
  \/ \E w \in Worker :
       IF wk[w].pc \in {"fail", "failwrite"}
       THEN wk[w].blame = r
       ELSE Active(w) /\ wk[w].pc # "end" /\ wk[w].req.repo = r
  \/ \E p \in Project : next[p] # None /\ next[p].repo = r
  \/ \E h \in Handler : hd[h].pc = "enqueue" /\ hd[h].repo = r

\* "Busy statuses are only ever resolved by an in-memory background job"
\* (ResetStaleRepoDeploys): a busy row always has one coming.
BusyIsBacked ==
  \A r \in Repo : row[r].present /\ row[r].status \in Busy => Resolving(r)

\* A project is quiet when no job and no handler is concerned with it.
Quiet == up /\ (\A w \in Worker : ~Active(w)) /\ (\A h \in Handler : hd[h].pc = "idle")

\* When all is quiet and a repository shows "ok" after a deploy or activation
\* was the last thing asked for, the checkout is on the branch the row names,
\* at the tip it had when that was asked for or later.
LatestRequestWins ==
  Quiet => \A p \in Project : \A r \in RepoOf(p) :
    /\ row[r].status = "ok"
    /\ asked[p].req \in [kind : {"deploy", "activate"}, repo : {r}]
    => LET c == checkout[DirOf[p]]
       IN c # None /\ c.branch = row[r].branch /\ c.v >= asked[p].v

\* "The site keeps serving its existing checkout through a failed activation, and
\* the record of what is live must not be wiped" (recordRepoFailure): when all is
\* quiet, a repository whose row records a live commit has a checkout.
LiveCommitHasCheckout ==
  Quiet => \A p \in Project : \A r \in RepoOf(p) :
    row[r].commit # None => checkout[DirOf[p]] # None

\* "A push (or click) landing mid-deploy is never lost ... a branch change
\* requiring a full re-activate supersedes a queued re-deploy rather than
\* being discarded" (runRepoJob): with no job left, nothing asked of a
\* repository that is still linked is still waiting to be taken up.
NoRequestLost ==
  \A p \in Project :
    ~running[p] => \A q \in owed[p] : ~row[q.repo].present

\* repoJob is a single-flight executor with one coalescing follow-up.
RunOf(p) ==
  IF running[p]
  THEN (CHOOSE w \in Worker : Active(w) /\ wk[w].project = p)
  ELSE None
Current == [p \in Project |-> IF running[p] THEN wk[RunOf(p)].req ELSE None]
Flight  == INSTANCE SingleFlight WITH current <- Current, waiting <- next
ImplementsSingleFlight == Flight!FlightSpec

\* A busy status is eventually replaced by an outcome, or the row goes.
BusySettles ==
  \A r \in Repo : (row[r].present /\ row[r].status \in Busy)
                    ~> ~(row[r].present /\ row[r].status \in Busy)

\* "The follow-up executes the LATEST requested fn once the current run ends":
\* the latest request of a project is eventually taken up, unless a newer one
\* replaces it or a restart forgets it.
LatestRequestTaken ==
  \A p \in Project, q \in Request :
    (asked[p].req = q /\ q \in owed[p]) ~> ~(asked[p].req = q /\ q \in owed[p])
=============================================================================
