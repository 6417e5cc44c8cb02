-------------------------- MODULE RepoJobs_proofs --------------------------
(***************************************************************************)
(* What holds of RepoJobs for every number of sites, repositories,         *)
(* branches, goroutines and requests: its types, that a project has at     *)
(* most one job and the jobs map says so, that the latest request is kept, *)
(* that runRepoJob implements the single-flight specification, that a busy *)
(* status has somebody to resolve it, and that the latest request wins.    *)
(***************************************************************************)
EXTENDS RepoJobs, TLAPS

-----------------------------------------------------------------------------
(* Types: the store operations *)

LEMMA InitTypeOK == Init => TypeOK
  BY NoneAssumption
     DEF Init, TypeOK, RowOK, WorkOK, HandlingOK, JobsOK, HistoryOK, WellFormedRow,
         WellFormedWork, WellFormedHandling, SiteRow, RepoRow, Work, Handling,
         NoSite, NoRow, NoWork, NoHandling, Status, Busy, WorkerPc, HandlerPc, Kind, Request

LEMMA UpdateRepoDeployOK ==
  ASSUME RowOK, NEW r \in Repo, NEW c \in Commit \cup {None}, NEW st \in Status,
         UpdateRepoDeploy(r, c, st)
  PROVE  RowOK'
  BY DEF RowOK, UpdateRepoDeploy, RepoRow, WellFormedRow

LEMMA DeleteRepoOK ==
  ASSUME RowOK, NEW r \in Repo, DeleteRepo(r)
  PROVE  RowOK'
  BY DEF RowOK, DeleteRepo, RepoRow, WellFormedRow, NoRow, Status

LEMMA SetSiteMappingOK ==
  ASSUME site \in [Site -> SiteRow], NEW s \in Site, NEW r \in Repo,
         NEW by \in {"auto", "manual"}, SetSiteMapping(s, r, by)
  PROVE  site' \in [Site -> SiteRow]
  BY DEF SetSiteMapping, SiteRow

LEMMA ClearRepoMappingOK ==
  ASSUME site \in [Site -> SiteRow], NEW r \in Repo, ClearRepoMapping(r)
  PROVE  site' \in [Site -> SiteRow]
  <1>1. \A s \in Site : [site[s] EXCEPT !.repo = None, !.by = "none"] \in SiteRow
    BY DEF SiteRow
  <1> QED BY <1>1 DEF ClearRepoMapping

LEMMA BusyStatusOK == \A k \in Kind : BusyStatus(k) \in Status
  BY DEF BusyStatus, Kind, Status, Busy

-----------------------------------------------------------------------------
(* Types: the goroutines' records *)

LEMMA SetWork ==
  ASSUME WorkOK, NEW w \in Worker, NEW x \in Work, WellFormedWork(x),
         wk' = [wk EXCEPT ![w] = x]
  PROVE  WorkOK'
  BY DEF WorkOK

LEMMA AtWork ==
  ASSUME TypeOK, NEW w \in Worker
  PROVE  /\ wk[w] \in Work /\ WellFormedWork(wk[w])
         /\ wk[w].commit \in Commit \cup {None}
         /\ Active(w) => /\ wk[w].project \in Project /\ wk[w].req \in Request
                         /\ wk[w].req.repo \in Repo /\ wk[w].req.kind \in Kind
                         /\ wk[w].first \in Repo /\ wk[w].blame \in Repo
                         /\ wk[w].pc \notin {"begin", "end"} => wk[w].branch \in Branch
  BY DEF TypeOK, WorkOK, Work, WellFormedWork, Active, Request

LEMMA SetHandling ==
  ASSUME HandlingOK, NEW h \in Handler, NEW x \in Handling, WellFormedHandling(x),
         hd' = [hd EXCEPT ![h] = x]
  PROVE  HandlingOK'
  BY DEF HandlingOK

LEMMA AtHandling ==
  ASSUME TypeOK, NEW h \in Handler
  PROVE  hd[h] \in Handling /\ WellFormedHandling(hd[h])
  BY DEF TypeOK, HandlingOK

LEMMA ReplyOK ==
  ASSUME TypeOK, NEW h \in Handler, Reply(h)
  PROVE  HandlingOK'
  <1>1. NoHandling \in Handling /\ WellFormedHandling(NoHandling)
    BY DEF NoHandling, Handling, HandlerPc, WellFormedHandling
  <1> QED BY <1>1, SetHandling DEF Reply, TypeOK

\* A job that has read its row goes on with another commit.
LEMMA SetCommit ==
  ASSUME TypeOK, NEW w \in Worker, wk[w].pc \notin {"off", "begin", "end"},
         NEW l \in WorkerPc, NEW c \in Commit \cup {None},
         wk' = [wk EXCEPT ![w] = [@ EXCEPT !.pc = l, !.commit = c]]
  PROVE  WorkOK'
  <1> DEFINE x == [wk[w] EXCEPT !.pc = l, !.commit = c]
  <1>1. wk[w] \in Work /\ WellFormedWork(wk[w])
    BY AtWork
  <1>2. x \in Work
    BY <1>1 DEF Work
  <1>3. WellFormedWork(x)
    BY <1>1, <1>2 DEF Work, WellFormedWork
  <1>4. wk' = [wk EXCEPT ![w] = x]
    OBVIOUS
  <1> HIDE DEF x
  <1> QED BY <1>2, <1>3, <1>4, SetWork DEF TypeOK

\* A job that has read its row goes on as it is.
LEMMA GotoOK ==
  ASSUME TypeOK, NEW w \in Worker, wk[w].pc \notin {"off", "begin", "end"},
         NEW l \in WorkerPc, Goto(w, l)
  PROVE  WorkOK'
  <1>1. wk[w] \in Work /\ WellFormedWork(wk[w])
    BY AtWork
  <1> DEFINE x == [wk[w] EXCEPT !.pc = l]
  <1>2. x \in Work
    BY <1>1 DEF Work
  <1>3. WellFormedWork(x)
    BY <1>1, <1>2 DEF Work, WellFormedWork
  <1>4. wk' = [wk EXCEPT ![w] = x]
    BY DEF Goto
  <1> HIDE DEF x
  <1> QED BY <1>2, <1>3, <1>4, SetWork DEF TypeOK

LEMMA FailEarlyOK ==
  ASSUME TypeOK, NEW w \in Worker, wk[w].pc \notin {"off", "begin", "end"}, FailEarly(w)
  PROVE  WorkOK'
  BY AtWork, SetCommit DEF FailEarly, FailWith, WorkerPc

LEMMA TipOK ==
  ASSUME TypeOK, NEW b \in Branch
  PROVE  Tip(b) \in Commit
  BY DEF Tip, Commit, TypeOK


-----------------------------------------------------------------------------
(* Types: requests *)

LEMMA ArriveTypeOK ==
  ASSUME TypeOK, NEW h \in Handler, Arrive(h)
  PROVE  TypeOK'
  <1>1. hd[h] \in Handling /\ WellFormedHandling(hd[h])
    BY AtHandling
  <1>a. ASSUME NEW x \in Handling, WellFormedHandling(x), hd' = [hd EXCEPT ![h] = x]
        PROVE  HandlingOK'
    BY <1>a, SetHandling DEF TypeOK
  <1>b. ASSUME NEW r \in Repo
        PROVE  LET x == [hd[h] EXCEPT !.pc = "lookup", !.kind = "activate", !.repo = r]
               IN  x \in Handling /\ WellFormedHandling(x)
    <2> DEFINE x == [hd[h] EXCEPT !.pc = "lookup", !.kind = "activate", !.repo = r]
    <2>1. x \in Handling
      BY <1>1 DEF Handling, HandlerPc, Kind
    <2>2. WellFormedHandling(x)
      BY <1>1, <2>1 DEF Handling, WellFormedHandling, Kind
    <2> QED BY <2>1, <2>2
  <1>2. ASSUME NEW r \in Repo, ClickActivate(h, r) PROVE TypeOK'
    <2>1. HandlingOK'
      BY <1>2, <1>a, <1>b DEF ClickActivate
    <2> QED BY <1>2, <2>1
            DEF ClickActivate, Accept, db, jobs, ghost, TypeOK, RowOK, WorkOK, JobsOK, HistoryOK
  <1>3. ASSUME NEW r \in Repo, NEW b \in Branch, ChangeBranch(h, r, b) PROVE TypeOK'
    <2>1. HandlingOK'
      BY <1>3, <1>a, <1>b DEF ChangeBranch
    <2>2. RowOK'
      BY <1>3 DEF ChangeBranch, TypeOK, RowOK, RepoRow, WellFormedRow
    <2> QED BY <1>3, <2>1, <2>2
            DEF ChangeBranch, Accept, jobs, ghost, TypeOK, WorkOK, JobsOK, HistoryOK
  <1>4. ASSUME NEW p \in Project, ClickDeploy(h, p) PROVE TypeOK'
    <2> DEFINE x == [hd[h] EXCEPT !.pc = "lookup", !.kind = "deploy", !.site = p]
    <2>1. x \in Handling
      BY <1>1 DEF Handling, HandlerPc, Kind, Project
    <2>2. WellFormedHandling(x)
      BY <1>1, <2>1 DEF Handling, WellFormedHandling, Kind
    <2>3. hd' = [hd EXCEPT ![h] = x]
      BY <1>4 DEF ClickDeploy
    <2> HIDE DEF x
    <2>4. HandlingOK'
      BY <1>a, <2>1, <2>2, <2>3
    <2> QED BY <1>4, <2>4
            DEF ClickDeploy, Accept, db, jobs, ghost, TypeOK, RowOK, WorkOK, JobsOK, HistoryOK
  <1>5. ASSUME NEW p \in Project, NEW r \in Repo, NEW b \in Branch, LinkRepo(h, p, r, b)
        PROVE  TypeOK'
    <2> DEFINE x(l) == [hd[h] EXCEPT !.pc = l, !.kind = "activate", !.repo = r]
    <2>1. \A l \in {"lookup", "key"} : x(l) \in Handling
      BY <1>1 DEF Handling, HandlerPc, Kind
    <2>2. \A l \in {"lookup", "key"} : WellFormedHandling(x(l))
      BY <1>1, <2>1 DEF Handling, WellFormedHandling, Kind
    <2>3. \E l \in {"lookup", "key"} : hd' = [hd EXCEPT ![h] = x(l)]
      BY <1>5 DEF LinkRepo
    <2> HIDE DEF x
    <2>4. HandlingOK'
      BY <1>a, <2>1, <2>2, <2>3
    <2>5. RowOK'
      BY <1>5 DEF LinkRepo, TypeOK, RowOK, RepoRow, WellFormedRow, Status
    <2> QED BY <1>5, <2>4, <2>5
            DEF LinkRepo, Accept, jobs, ghost, TypeOK, WorkOK, JobsOK, HistoryOK
  <1>6. ASSUME NEW p \in Project, UnlinkRepo(h, p) PROVE TypeOK'
    <2> DEFINE x(r) == [hd[h] EXCEPT !.pc = "clear", !.repo = r]
    <2>1. \A r \in Repo : x(r) \in Handling
      BY <1>1 DEF Handling, HandlerPc
    <2>2. \A r \in Repo : WellFormedHandling(x(r))
      BY <1>1, <2>1 DEF Handling, WellFormedHandling
    <2>3. \E r \in Repo : hd' = [hd EXCEPT ![h] = x(r)]
      BY <1>6 DEF UnlinkRepo, RepoOf
    <2> HIDE DEF x
    <2>4. HandlingOK'
      BY <1>a, <2>1, <2>2, <2>3
    <2> QED BY <1>6, <2>4
            DEF UnlinkRepo, Accept, db, jobs, ghost, TypeOK, RowOK, WorkOK, JobsOK, HistoryOK
  <1>7. ASSUME NEW s \in Site, MapSite(h, s) PROVE TypeOK'
    <2> DEFINE x(r) == [hd[h] EXCEPT !.pc = "persist", !.site = s, !.repo = r]
    <2>1. \A r \in Repo : x(r) \in Handling
      BY <1>1 DEF Handling, HandlerPc
    <2>2. \A r \in Repo : WellFormedHandling(x(r))
      BY <1>1, <2>1 DEF Handling, WellFormedHandling
    <2>3. \E r \in Repo : hd' = [hd EXCEPT ![h] = x(r)]
      BY <1>7 DEF MapSite, RepoOf
    <2> HIDE DEF x
    <2>4. HandlingOK'
      BY <1>a, <2>1, <2>2, <2>3
    <2> QED BY <1>7, <2>4
            DEF MapSite, Accept, db, jobs, ghost, TypeOK, RowOK, WorkOK, JobsOK, HistoryOK
  <1>8. ASSUME NEW s \in Site, DeleteSite(h, s) PROVE TypeOK'
    <2> DEFINE x == [hd[h] EXCEPT !.pc = "delete", !.site = s]
    <2>1. x \in Handling
      BY <1>1 DEF Handling, HandlerPc
    <2>2. WellFormedHandling(x)
      BY <1>1, <2>1 DEF Handling, WellFormedHandling
    <2>3. hd' = [hd EXCEPT ![h] = x]
      BY <1>8 DEF DeleteSite
    <2> HIDE DEF x
    <2>4. HandlingOK'
      BY <1>a, <2>1, <2>2, <2>3
    <2> QED BY <1>8, <2>4
            DEF DeleteSite, Accept, db, jobs, ghost, TypeOK, RowOK, WorkOK, JobsOK, HistoryOK
  <1> QED BY <1>2, <1>3, <1>4, <1>5, <1>6, <1>7, <1>8 DEF Arrive

LEMMA LookupTypeOK ==
  ASSUME TypeOK, NEW h \in Handler, Lookup(h)
  PROVE  TypeOK'
  <1>1. hd[h] \in Handling /\ hd[h].kind \in Kind
    BY AtHandling DEF Lookup, Handle, WellFormedHandling
  <1>2. ASSUME NEW r \in Repo, row[r].present,
               hd' = [hd EXCEPT ![h] = [@ EXCEPT !.pc = "mark", !.repo = r,
                                                 !.site = row[r].project,
                                                 !.commit = row[r].commit]]
        PROVE  HandlingOK'
    <2> DEFINE x == [hd[h] EXCEPT !.pc = "mark", !.repo = r, !.site = row[r].project,
                                  !.commit = row[r].commit]
    <2>1. row[r].project \in Project /\ row[r].commit \in Commit \cup {None}
      BY <1>2 DEF TypeOK, RowOK, RepoRow, WellFormedRow
    <2>2. x \in Handling
      BY <1>1, <2>1 DEF Handling, HandlerPc, Project
    <2>3. WellFormedHandling(x)
      BY <1>1, <2>1, <2>2 DEF Handling, WellFormedHandling
    <2>4. hd' = [hd EXCEPT ![h] = x]
      BY <1>2
    <2> HIDE DEF x
    <2> QED BY <2>2, <2>3, <2>4, SetHandling DEF TypeOK
  <1>3. HandlingOK'
    BY <1>2, ReplyOK DEF Lookup, RepoOf
  <1> QED BY <1>3 DEF Lookup, db, jobs, world, ghost, TypeOK, RowOK, WorkOK, JobsOK, HistoryOK

LEMMA MarkBusyTypeOK ==
  ASSUME TypeOK, NEW h \in Handler, MarkBusy(h)
  PROVE  TypeOK'
  <1>1. hd[h] \in Handling /\ WellFormedHandling(hd[h]) /\ hd[h].pc = "mark"
    BY AtHandling DEF MarkBusy, Handle
  <1>2. /\ hd[h].repo \in Repo /\ hd[h].kind \in Kind
        /\ hd[h].commit \in Commit \cup {None}
    BY <1>1 DEF WellFormedHandling, Handling
  <1>3. RowOK'
    BY <1>2, UpdateRepoDeployOK, BusyStatusOK DEF MarkBusy, TypeOK
  <1>4. HandlingOK'
    BY <1>1 DEF MarkBusy, HandlerGoto, TypeOK, HandlingOK, Handling, HandlerPc, WellFormedHandling
  <1> QED BY <1>3, <1>4 DEF MarkBusy, jobs, world, ghost, TypeOK, WorkOK, JobsOK, HistoryOK

\* A new job starts with a well-formed record.
LEMMA NewWork ==
  ASSUME NEW p \in Project, NEW q \in Request, NEW f \in Repo
  PROVE  LET x == [NoWork EXCEPT !.pc = "begin", !.project = p, !.req = q, !.first = f,
                                 !.blame = q.repo]
         IN  x \in Work /\ WellFormedWork(x)
  BY DEF NoWork, Work, WorkerPc, WellFormedWork, Request

LEMMA EnqueueTypeOK ==
  ASSUME TypeOK, NEW h \in Handler, Enqueue(h)
  PROVE  TypeOK'
  <1> DEFINE p == hd[h].site
             r == hd[h].repo
             q == [kind |-> hd[h].kind, repo |-> r]
  <1>1. p \in Project /\ r \in Repo /\ q \in Request /\ q.repo = r
    BY AtHandling DEF Enqueue, Handle, WellFormedHandling, Request
  <1>2. RunRepoJob(p, q)
    BY DEF Enqueue
  <1>3. JobsOK'
    BY <1>1, <1>2 DEF RunRepoJob, TypeOK, JobsOK
  <1>4. HistoryOK'
    <2>1. (IF row[r].present THEN tip[row[r].branch] ELSE 0) \in Nat
      BY <1>1 DEF TypeOK, RowOK, WellFormedRow
    <2> QED BY <1>1, <2>1 DEF Enqueue, TypeOK, HistoryOK
  <1>5. HandlingOK'
    BY ReplyOK DEF Enqueue
  <1>6. WorkOK'
    <2> DEFINE x == [NoWork EXCEPT !.pc = "begin", !.project = p, !.req = q, !.first = q.repo,
                                   !.blame = q.repo]
    <2>1. x \in Work /\ WellFormedWork(x)
      BY <1>1, NewWork
    <2>2. wk' = wk \/ \E w \in Worker : wk' = [wk EXCEPT ![w] = x]
      BY <1>2 DEF RunRepoJob
    <2> HIDE DEF x
    <2> QED BY <2>1, <2>2, SetWork DEF TypeOK, WorkOK
  <1> QED BY <1>3, <1>4, <1>5, <1>6 DEF Enqueue, db, world, TypeOK, RowOK

LEMMA ProceedTypeOK ==
  ASSUME TypeOK, NEW h \in Handler, Proceed(h)
  PROVE  TypeOK'
  <1>1. hd[h] \in Handling /\ WellFormedHandling(hd[h])
    BY AtHandling
  <1>2. CASE Lookup(h)
    BY <1>2, LookupTypeOK
  <1>3. CASE MarkBusy(h)
    BY <1>3, MarkBusyTypeOK
  <1>4. CASE Enqueue(h)
    BY <1>4, EnqueueTypeOK
  <1>5. CASE GenerateKey(h)
    <2>1. hd[h].repo \in Repo
      BY <1>1, <1>5 DEF GenerateKey, Handle, WellFormedHandling
    <2>2. RowOK'
      BY <1>5, <2>1, DeleteRepoOK DEF GenerateKey, TypeOK, RowOK
    <2>3. HandlingOK'
      BY <1>5, ReplyOK DEF GenerateKey
    <2> QED BY <1>5, <2>2, <2>3
            DEF GenerateKey, jobs, world, ghost, TypeOK, WorkOK, JobsOK, HistoryOK
  <1>6. CASE UnlinkClear(h)
    <2>1. hd[h].repo \in Repo
      BY <1>1, <1>6 DEF UnlinkClear, Handle, WellFormedHandling
    <2>2. site' \in [Site -> SiteRow]
      BY <1>6, <2>1, ClearRepoMappingOK DEF UnlinkClear, TypeOK
    <2>3. HandlingOK'
      BY <1>1, <1>6, <2>1
         DEF UnlinkClear, HandlerGoto, TypeOK, HandlingOK, Handling, HandlerPc, WellFormedHandling
    <2> QED BY <1>6, <2>2, <2>3
            DEF UnlinkClear, jobs, world, ghost, TypeOK, RowOK, WorkOK, JobsOK, HistoryOK
  <1>7. CASE UnlinkDrop(h)
    <2>1. hd[h].repo \in Repo
      BY <1>1, <1>7 DEF UnlinkDrop, Handle, WellFormedHandling
    <2>2. RowOK'
      BY <1>7, <2>1, DeleteRepoOK DEF UnlinkDrop, TypeOK
    <2>3. HandlingOK'
      BY <1>7, ReplyOK DEF UnlinkDrop
    <2> QED BY <1>7, <2>2, <2>3
            DEF UnlinkDrop, jobs, world, ghost, TypeOK, WorkOK, JobsOK, HistoryOK
  <1>8. CASE MapPersist(h)
    <2> DEFINE x == [hd[h] EXCEPT !.pc = "lookup", !.kind = "build", !.site = MainOf[hd[h].site]]
    <2>1. hd[h].repo \in Repo /\ hd[h].site \in Site
      BY <1>1, <1>8 DEF MapPersist, Handle, WellFormedHandling
    <2>2. MainOf[hd[h].site] \in Project
      BY <2>1, SiteAssumption DEF Project
    <2>3. x \in Handling
      BY <1>1, <2>2 DEF Handling, HandlerPc, Kind, Project
    <2>4. WellFormedHandling(x)
      BY <1>1, <2>2, <2>3 DEF Handling, WellFormedHandling, Kind
    <2>5. Reply(h) \/ hd' = [hd EXCEPT ![h] = x]
      BY <1>8 DEF MapPersist
    <2> HIDE DEF x
    <2>6. HandlingOK'
      BY <2>3, <2>4, <2>5, ReplyOK, SetHandling DEF TypeOK
    <2>7. site' \in [Site -> SiteRow]
      BY <1>8, <2>1, SetSiteMappingOK DEF MapPersist, TypeOK
    <2> QED BY <1>8, <2>6, <2>7
            DEF MapPersist, jobs, world, ghost, TypeOK, RowOK, WorkOK, JobsOK, HistoryOK
  <1>9. CASE DeleteRows(h)
    <2>1. HandlingOK'
      BY <1>9, ReplyOK DEF DeleteRows
    <2>2. site' \in [Site -> SiteRow]
      BY <1>9 DEF DeleteRows, TypeOK, SiteRow, NoSite
    <2>3. RowOK'
      <3>1. NoRow \in RepoRow /\ WellFormedRow(NoRow)
        BY DEF NoRow, RepoRow, WellFormedRow, Status
      <3>2. \/ row' = row
            \/ row' = [r \in Repo |-> IF r \in RepoOf(hd[h].site) THEN NoRow ELSE row[r]]
        BY <1>9 DEF DeleteRows
      <3> QED BY <3>1, <3>2 DEF TypeOK, RowOK
    <2> QED BY <1>9, <2>1, <2>2, <2>3
            DEF DeleteRows, jobs, world, ghost, TypeOK, WorkOK, JobsOK, HistoryOK
  <1> QED BY <1>2, <1>3, <1>4, <1>5, <1>6, <1>7, <1>8, <1>9 DEF Proceed

-----------------------------------------------------------------------------
(* Types: jobs *)

LEMMA RunBeginTypeOK ==
  ASSUME TypeOK, NEW w \in Worker, RunBegin(w)
  PROVE  TypeOK'
  <1> DEFINE r == wk[w].req.repo
             x == [wk[w] EXCEPT !.pc = "mark", !.branch = row[r].branch, !.commit = row[r].commit]
  <1>1. wk[w].pc = "begin" /\ wk[w] \in Work /\ WellFormedWork(wk[w]) /\ r \in Repo
    BY AtWork DEF RunBegin, Run, Active
  <1>2. WorkOK'
    <2>1. CASE row[r].present
      <3>1. row[r].branch \in Branch /\ row[r].commit \in Commit \cup {None}
        BY <1>1, <2>1 DEF TypeOK, RowOK, RepoRow, WellFormedRow
      <3>2. x \in Work
        BY <1>1, <3>1 DEF Work, WorkerPc
      <3>3. WellFormedWork(x)
        BY <1>1, <3>1, <3>2 DEF Work, WellFormedWork
      <3>4. wk' = [wk EXCEPT ![w] = x]
        BY <2>1 DEF RunBegin
      <3> HIDE DEF x
      <3> QED BY <3>2, <3>3, <3>4, SetWork DEF TypeOK
    <2>2. CASE ~row[r].present
      BY <1>1, <2>2 DEF RunBegin, Goto, TypeOK, WorkOK, Work, WorkerPc, WellFormedWork
    <2> QED BY <2>1, <2>2
  <1>3. HistoryOK'
    BY DEF RunBegin, TypeOK, HistoryOK
  <1> QED BY <1>2, <1>3 DEF RunBegin, db, jobs, world, TypeOK, RowOK, HandlingOK, JobsOK

LEMMA RunPrepareTypeOK ==
  ASSUME TypeOK, NEW w \in Worker, RunPrepare(w)
  PROVE  TypeOK'
  <1>1. /\ wk[w].pc = "prepare" /\ wk[w] \in Work /\ WellFormedWork(wk[w])
        /\ wk[w].project \in Project /\ wk[w].req.kind \in Kind
    BY AtWork DEF RunPrepare, Run, Active
  <1>2. CASE FailEarly(w)
    BY <1>1, <1>2, FailEarlyOK
       DEF RunPrepare, db, jobs, world, ghost, TypeOK, RowOK, HandlingOK, JobsOK, HistoryOK
  <1>3. ASSUME NEW l \in {"wipe", "fetch", "build"},
               wk' = [wk EXCEPT ![w] = [@ EXCEPT !.pc = l, !.seen = site[wk[w].project].repo]]
        PROVE  WorkOK'
    <2> DEFINE x == [wk[w] EXCEPT !.pc = l, !.seen = site[wk[w].project].repo]
    <2>1. site[wk[w].project].repo \in Repo \cup {None}
      BY <1>1 DEF TypeOK, SiteRow, Project
    <2>2. x \in Work
      BY <1>1, <2>1 DEF Work, WorkerPc
    <2>3. WellFormedWork(x)
      BY <1>1, <2>2 DEF Work, WellFormedWork
    <2>4. wk' = [wk EXCEPT ![w] = x]
      BY <1>3
    <2> HIDE DEF x
    <2> QED BY <2>2, <2>3, <2>4, SetWork DEF TypeOK
  <1>4. CASE ~FailEarly(w)
    <2>1. WorkOK'
      BY <1>1, <1>3, <1>4 DEF RunPrepare, Kind
    <2> QED BY <2>1
        DEF RunPrepare, db, jobs, world, ghost, TypeOK, RowOK, HandlingOK, JobsOK, HistoryOK
  <1> QED BY <1>2, <1>4

\* The git commands that change the checkout.
LEMMA GitTypeOK ==
  ASSUME TypeOK, NEW w \in Worker, RunWipe(w) \/ RunClone(w) \/ RunFetch(w)
  PROVE  TypeOK'
  <1>1. wk[w].pc \in {"wipe", "clone", "fetch"}
    BY DEF RunWipe, RunClone, RunFetch, Run
  <1>2. wk[w].project \in Project /\ wk[w].branch \in Branch
    BY <1>1, AtWork DEF Active
  <1>3. DirOf[wk[w].project] \in Dir /\ Tip(wk[w].branch) \in Commit
    BY <1>2, SiteAssumption, TipOK DEF Project
  <1>4. checkout' \in [Dir -> Commit \cup {None}]
    <2>1. \/ checkout' = checkout
          \/ checkout' = [checkout EXCEPT ![DirOf[wk[w].project]] = None]
          \/ checkout' = [checkout EXCEPT ![DirOf[wk[w].project]] = Tip(wk[w].branch)]
      BY DEF RunWipe, RunClone, RunFetch
    <2> QED BY <1>3, <2>1 DEF TypeOK
  <1>5. WorkOK'
    <2>1. CASE RunWipe(w)
      BY <1>1, <2>1, FailEarlyOK, GotoOK DEF RunWipe, WorkerPc
    <2>2. CASE RunClone(w)
      BY <1>1, <1>3, <2>2, FailEarlyOK, SetCommit DEF RunClone, WorkerPc
    <2>3. CASE RunFetch(w)
      BY <1>1, <1>3, <2>3, FailEarlyOK, SetCommit DEF RunFetch, WorkerPc
    <2> QED BY <2>1, <2>2, <2>3
  <1> QED BY <1>4, <1>5 DEF RunWipe, RunClone, RunFetch, db, jobs, world, ghost,
             TypeOK, RowOK, HandlingOK, JobsOK, HistoryOK

\* The steps that write the repository's row.
LEMMA RowWriteTypeOK ==
  ASSUME TypeOK, NEW w \in Worker, RunMark(w) \/ RunStamp(w) \/ RunOk(w) \/ RunFailWrite(w)
  PROVE  TypeOK'
  <1>1. wk[w].pc \in {"mark", "stamp", "ok", "failwrite"}
    BY DEF RunMark, RunStamp, RunOk, RunFailWrite, Run
  <1>2. /\ wk[w].req.repo \in Repo /\ wk[w].req.kind \in Kind /\ wk[w].blame \in Repo
        /\ wk[w].commit \in Commit \cup {None}
    BY <1>1, AtWork DEF Active
  <1>3. \E r \in Repo, st \in Status : UpdateRepoDeploy(r, wk[w].commit, st)
    <2>1. {"building", "ok", "error"} \subseteq Status
      BY DEF Status, Busy
    <2> QED BY <1>2, <2>1, BusyStatusOK DEF RunMark, RunStamp, RunOk, RunFailWrite
  <1>4. RowOK'
    BY <1>2, <1>3, UpdateRepoDeployOK DEF TypeOK
  <1>5. WorkOK'
    BY <1>1, GotoOK DEF RunMark, RunStamp, RunOk, RunFailWrite, WorkerPc
  <1> QED BY <1>4, <1>5 DEF RunMark, RunStamp, RunOk, RunFailWrite, jobs, world, ghost,
             TypeOK, HandlingOK, JobsOK, HistoryOK

\* The steps that change nothing but the job's own record.
LEMMA LocalTypeOK ==
  ASSUME TypeOK, NEW w \in Worker, RunReread(w) \/ RunBuild(w) \/ RunFail(w)
  PROVE  TypeOK'
  <1>1. wk[w].pc \in {"reread", "build", "fail"}
    BY DEF RunReread, RunBuild, RunFail, Run
  <1>2. WorkOK'
    <2>1. CASE RunReread(w) \/ RunBuild(w)
      BY <1>1, <2>1, GotoOK DEF RunReread, RunBuild, WorkerPc
    <2>2. CASE RunFail(w)
      <3>1. wk[w].blame \in Repo
        BY <1>1, AtWork DEF Active
      <3>2. row[wk[w].blame].commit \in Commit \cup {None}
        BY <3>1 DEF TypeOK, RowOK, RepoRow
      <3> QED BY <1>1, <2>2, <3>2, AtWork, SetCommit DEF RunFail, WorkerPc
    <2> QED BY <2>1, <2>2
  <1> QED BY <1>2 DEF RunReread, RunBuild, RunFail, db, jobs, world, ghost,
             TypeOK, RowOK, HandlingOK, JobsOK, HistoryOK

LEMMA RunPersistTypeOK ==
  ASSUME TypeOK, NEW w \in Worker, RunPersist(w)
  PROVE  TypeOK'
  <1>1. wk[w].pc = "persist" /\ wk[w].project \in Site /\ wk[w].req.repo \in Repo
    BY AtWork DEF RunPersist, Run, Active, Project
  <1>2. site' \in [Site -> SiteRow]
    BY <1>1, SetSiteMappingOK DEF RunPersist, TypeOK
  <1>3. WorkOK'
    BY <1>1, GotoOK DEF RunPersist, WorkerPc
  <1> QED BY <1>2, <1>3
          DEF RunPersist, jobs, world, ghost, TypeOK, RowOK, HandlingOK, JobsOK, HistoryOK

LEMMA RunEndTypeOK ==
  ASSUME TypeOK, NEW w \in Worker, RunEnd(w)
  PROVE  TypeOK'
  <1> DEFINE p == wk[w].project
             x == [NoWork EXCEPT !.pc = "begin", !.project = p, !.req = next[p],
                                 !.first = wk[w].first, !.blame = next[p].repo]
  <1>1. p \in Project /\ wk[w].first \in Repo
    BY AtWork DEF RunEnd, Run, Active
  <1>2. WorkOK'
    <2>1. CASE next[p] # None
      <3>1. next[p] \in Request
        BY <1>1, <2>1 DEF TypeOK, JobsOK
      <3>2. x \in Work /\ WellFormedWork(x)
        BY <1>1, <3>1, NewWork
      <3>3. wk' = [wk EXCEPT ![w] = x]
        BY <2>1 DEF RunEnd
      <3> HIDE DEF x
      <3> QED BY <3>2, <3>3, SetWork DEF TypeOK
    <2>2. CASE next[p] = None
      <3>1. NoWork \in Work /\ WellFormedWork(NoWork)
        BY DEF Work, WorkerPc, NoWork, WellFormedWork
      <3> QED BY <2>2, <3>1, SetWork DEF RunEnd, TypeOK
    <2> QED BY <2>1, <2>2
  <1>3. JobsOK'
    BY <1>1 DEF TypeOK, RunEnd, JobsOK
  <1> QED BY <1>2, <1>3 DEF RunEnd, db, world, ghost, TypeOK, RowOK, HandlingOK, HistoryOK

LEMMA RunPanicTypeOK ==
  ASSUME TypeOK, NEW w \in Worker, RunPanic(w)
  PROVE  TypeOK'
  <1> DEFINE x == [wk[w] EXCEPT !.pc = "fail", !.commit = None, !.blame = wk[w].first]
  <1>1. wk[w] \in Work /\ WellFormedWork(wk[w]) /\ wk[w].pc \notin {"off", "begin", "end"}
    BY AtWork DEF RunPanic
  <1>2. x \in Work
    BY <1>1 DEF Work, WorkerPc, WellFormedWork
  <1>3. WellFormedWork(x)
    BY <1>1, <1>2 DEF Work, WellFormedWork
  <1>4. wk' = [wk EXCEPT ![w] = x]
    BY DEF RunPanic
  <1> HIDE DEF x
  <1>5. WorkOK'
    BY <1>2, <1>3, <1>4, SetWork DEF TypeOK
  <1> QED BY <1>5 DEF RunPanic, db, jobs, world, ghost, TypeOK, RowOK, HandlingOK, JobsOK, HistoryOK

-----------------------------------------------------------------------------
(* Types: the outside world, and the theorem *)

LEMMA WorldTypeOK ==
  ASSUME TypeOK, (\E s \in Site : CreateSite(s)) \/ (\E b \in Branch : Push(b)) \/ Crash \/ Startup
  PROVE  TypeOK'
  <1>1. CASE \E s \in Site : CreateSite(s)
    <2>1. site' \in [Site -> SiteRow]
      BY <1>1 DEF CreateSite, TypeOK, SiteRow
    <2> QED BY <1>1, <2>1 DEF CreateSite, jobs, world, ghost,
                TypeOK, RowOK, WorkOK, HandlingOK, JobsOK, HistoryOK
  <1>2. CASE \E b \in Branch : Push(b)
    BY <1>2 DEF Push, db, jobs, ghost, TypeOK, RowOK, WorkOK, HandlingOK, JobsOK, HistoryOK
  <1>3. CASE Crash
    <2>1. NoWork \in Work /\ WellFormedWork(NoWork)
      BY DEF Work, WorkerPc, NoWork, WellFormedWork
    <2>2. NoHandling \in Handling /\ WellFormedHandling(NoHandling)
      BY DEF NoHandling, Handling, HandlerPc, WellFormedHandling
    <2>3. WorkOK' /\ HandlingOK' /\ JobsOK' /\ HistoryOK'
      BY <1>3, <2>1, <2>2 DEF Crash, WorkOK, HandlingOK, JobsOK, HistoryOK
    <2>4. /\ UNCHANGED <<site, row, minted, checkout, tip>>
          /\ up' = FALSE /\ crashes' = crashes + 1
      BY <1>3 DEF Crash, db
    <2>5. RowOK'
      BY <2>4 DEF TypeOK, RowOK
    <2>6. /\ site' \in [Site -> SiteRow] /\ minted' \subseteq Repo
          /\ checkout' \in [Dir -> Commit \cup {None}]
          /\ tip' \in [Branch -> Nat]
      BY <2>4 DEF TypeOK
    <2>7. ops' \in Nat /\ crashes' \in Nat
      BY <1>3 DEF Crash, TypeOK
    <2>8. up' \in BOOLEAN
      BY <2>4
    <2> QED BY <2>3, <2>5, <2>6, <2>7, <2>8 DEF TypeOK
  <1>4. CASE Startup
    <2>1. RowOK'
      <3>1. \A r \in Repo : [row[r] EXCEPT !.status = "error"] \in RepoRow
        BY DEF TypeOK, RowOK, RepoRow, Status
      <3>2. \A r \in Repo : WellFormedRow([row[r] EXCEPT !.status = "error"])
        BY DEF TypeOK, RowOK, RepoRow, WellFormedRow
      <3> QED BY <1>4, <3>1, <3>2 DEF Startup, SweepStale, TypeOK, RowOK
    <2> QED BY <1>4, <2>1
        DEF Startup, jobs, world, ghost, TypeOK, WorkOK, HandlingOK, JobsOK, HistoryOK
  <1> QED BY <1>1, <1>2, <1>3, <1>4

LEMMA NextTypeOK == TypeOK /\ [Next]_vars => TypeOK'
  <1> SUFFICES ASSUME TypeOK, [Next]_vars PROVE TypeOK'
    OBVIOUS
  <1>1. ASSUME NEW h \in Handler, Arrive(h) \/ Proceed(h) PROVE TypeOK'
    BY <1>1, ArriveTypeOK, ProceedTypeOK
  <1>2. ASSUME NEW w \in Worker, Continue(w) \/ RunPanic(w) PROVE TypeOK'
    BY <1>2, RunBeginTypeOK, RunPrepareTypeOK, GitTypeOK, RowWriteTypeOK, LocalTypeOK,
       RunPersistTypeOK, RunEndTypeOK, RunPanicTypeOK DEF Continue
  <1>3. CASE UNCHANGED vars
    BY <1>3 DEF vars, db, jobs, world, ghost,
                TypeOK, RowOK, WorkOK, HandlingOK, JobsOK, HistoryOK
  <1> QED BY <1>1, <1>2, <1>3, WorldTypeOK DEF Next

\* Every variable keeps its type, every row names its project and a branch, and
\* every goroutine has what its next step needs.
THEOREM TypeCorrect == Spec => []TypeOK
  BY InitTypeOK, NextTypeOK, PTL DEF Spec

-----------------------------------------------------------------------------
(* The jobs map *)

\* A step no goroutine starts or ends at, and that leaves the jobs map alone.
SameJobs ==
  /\ UNCHANGED jobs
  /\ \A w \in Worker : /\ Active(w)' = Active(w)
                       /\ Active(w) => /\ wk'[w].project = wk[w].project
                                       /\ wk'[w].req = wk[w].req

LEMMA StepSameJobs ==
  ASSUME TypeOK, NEW w \in Worker, Active(w),
         NEW x, x.pc # "off", x.project = wk[w].project, x.req = wk[w].req,
         wk' = [wk EXCEPT ![w] = x], UNCHANGED jobs
  PROVE  SameJobs
  BY DEF SameJobs, Active, TypeOK, WorkOK

LEMMA FailEarlySameJobs ==
  ASSUME TypeOK, NEW w \in Worker, Active(w), FailEarly(w), UNCHANGED jobs
  PROVE  SameJobs
  <1> DEFINE x == [wk[w] EXCEPT !.pc = "fail",
                    !.commit = IF wk[w].req.kind = "activate" THEN None ELSE wk[w].commit]
  <1>1. x.pc # "off" /\ x.project = wk[w].project /\ x.req = wk[w].req
    BY AtWork DEF Work
  <1>2. wk' = [wk EXCEPT ![w] = x]
    BY DEF FailEarly, FailWith
  <1> HIDE DEF x
  <1> QED BY <1>1, <1>2, StepSameJobs

LEMMA GotoSameJobs ==
  ASSUME TypeOK, NEW w \in Worker, Active(w), NEW l, l # "off", Goto(w, l), UNCHANGED jobs
  PROVE  SameJobs
  <1> DEFINE x == [wk[w] EXCEPT !.pc = l]
  <1>1. x.pc # "off" /\ x.project = wk[w].project /\ x.req = wk[w].req
    BY AtWork DEF Work
  <1>2. wk' = [wk EXCEPT ![w] = x]
    BY DEF Goto
  <1> HIDE DEF x
  <1> QED BY <1>1, <1>2, StepSameJobs

LEMMA SetCommitSameJobs ==
  ASSUME TypeOK, NEW w \in Worker, Active(w), NEW l, l # "off", NEW c,
         wk' = [wk EXCEPT ![w] = [@ EXCEPT !.pc = l, !.commit = c]], UNCHANGED jobs
  PROVE  SameJobs
  <1> DEFINE x == [wk[w] EXCEPT !.pc = l, !.commit = c]
  <1>1. x.pc # "off" /\ x.project = wk[w].project /\ x.req = wk[w].req
    BY AtWork DEF Work
  <1>2. wk' = [wk EXCEPT ![w] = x]
    OBVIOUS
  <1> HIDE DEF x
  <1> QED BY <1>1, <1>2, StepSameJobs

LEMMA RunSameJobs ==
  ASSUME TypeOK, NEW w \in Worker, Continue(w) \/ RunPanic(w), ~RunEnd(w)
  PROVE  SameJobs
  <1>1. CASE RunBegin(w)
    <2> DEFINE x == [wk[w] EXCEPT !.pc = "mark", !.branch = row[wk[w].req.repo].branch,
                                  !.commit = row[wk[w].req.repo].commit]
    <2>1. Active(w) /\ UNCHANGED jobs
      BY <1>1 DEF RunBegin, Run, Active, jobs
    <2>2. x.pc # "off" /\ x.project = wk[w].project /\ x.req = wk[w].req
      BY AtWork DEF Work
    <2>3. wk' = [wk EXCEPT ![w] = x] \/ Goto(w, "end")
      BY <1>1 DEF RunBegin
    <2> HIDE DEF x
    <2> QED BY <2>1, <2>2, <2>3, StepSameJobs, GotoSameJobs
  <1>2. CASE RunPrepare(w)
    <2> DEFINE x(l) == [wk[w] EXCEPT !.pc = l, !.seen = site[wk[w].project].repo]
    <2>1. Active(w) /\ UNCHANGED jobs /\ wk[w].req.kind \in Kind
      BY <1>2, AtWork DEF RunPrepare, Run, Active, jobs
    <2>2. \A l \in {"wipe", "fetch", "build"} :
            x(l).pc # "off" /\ x(l).project = wk[w].project /\ x(l).req = wk[w].req
      BY AtWork DEF Work
    <2>3. FailEarly(w) \/ \E l \in {"wipe", "fetch", "build"} : wk' = [wk EXCEPT ![w] = x(l)]
      BY <1>2, <2>1 DEF RunPrepare, Kind
    <2> HIDE DEF x
    <2> QED BY <2>1, <2>2, <2>3, StepSameJobs, FailEarlySameJobs
  <1>3. CASE RunWipe(w) \/ RunClone(w) \/ RunFetch(w)
    <2>1. Active(w) /\ UNCHANGED jobs
      BY <1>3 DEF RunWipe, RunClone, RunFetch, Run, Active, jobs
    <2>2. \/ FailEarly(w) \/ Goto(w, "clone")
          \/ \E c : \/ wk' = [wk EXCEPT ![w] = [@ EXCEPT !.pc = "reread", !.commit = c]]
                    \/ wk' = [wk EXCEPT ![w] = [@ EXCEPT !.pc = "stamp", !.commit = c]]
      BY <1>3 DEF RunWipe, RunClone, RunFetch
    <2> QED BY <2>1, <2>2, FailEarlySameJobs, GotoSameJobs, SetCommitSameJobs
  <1>4. CASE \/ RunMark(w) \/ RunReread(w) \/ RunPersist(w) \/ RunStamp(w) \/ RunBuild(w)
             \/ RunOk(w) \/ RunFailWrite(w)
    <2>1. Active(w) /\ UNCHANGED jobs
      BY <1>4 DEF RunMark, RunReread, RunPersist, RunStamp, RunBuild, RunOk, RunFailWrite,
                  Run, Active, jobs
    <2>2. \E l : l # "off" /\ Goto(w, l)
      BY <1>4 DEF RunMark, RunReread, RunPersist, RunStamp, RunBuild, RunOk, RunFailWrite
    <2> QED BY <2>1, <2>2, GotoSameJobs
  <1>5. CASE RunFail(w)
    <2>1. Active(w) /\ UNCHANGED jobs
      BY <1>5 DEF RunFail, Run, Active, jobs
    <2>2. \E c : wk' = [wk EXCEPT ![w] = [@ EXCEPT !.pc = "failwrite", !.commit = c]]
      BY <1>5 DEF RunFail
    <2> QED BY <2>1, <2>2, SetCommitSameJobs
  <1>6. CASE RunPanic(w)
    <2> DEFINE x == [wk[w] EXCEPT !.pc = "fail", !.commit = None, !.blame = wk[w].first]
    <2>1. Active(w) /\ UNCHANGED jobs
      BY <1>6 DEF RunPanic, Active, jobs
    <2>2. x.pc # "off" /\ x.project = wk[w].project /\ x.req = wk[w].req
      BY AtWork DEF Work
    <2>3. wk' = [wk EXCEPT ![w] = x]
      BY <1>6 DEF RunPanic
    <2> HIDE DEF x
    <2> QED BY <2>1, <2>2, <2>3, StepSameJobs
  <1> QED BY <1>1, <1>2, <1>3, <1>4, <1>5, <1>6 DEF Continue

\* Only these steps concern the jobs map.
LEMMA NextCases ==
  ASSUME TypeOK, [Next]_vars
  PROVE  \/ SameJobs
         \/ \E h \in Handler : Enqueue(h)
         \/ \E w \in Worker : RunEnd(w)
         \/ Crash
  <1>1. ASSUME UNCHANGED <<wk, jobs>> PROVE SameJobs
    BY <1>1 DEF SameJobs, Active
  <1>2. ASSUME NEW h \in Handler, Arrive(h) PROVE UNCHANGED <<wk, jobs>>
    BY <1>2 DEF Arrive, ClickActivate, ChangeBranch, ClickDeploy, UnlinkRepo, LinkRepo,
                DeleteSite, MapSite, jobs
  <1>3. ASSUME NEW h \in Handler, Proceed(h), ~Enqueue(h) PROVE UNCHANGED <<wk, jobs>>
    BY <1>3 DEF Proceed, Lookup, MarkBusy, GenerateKey, UnlinkClear, UnlinkDrop, MapPersist,
                DeleteRows, jobs
  <1>4. ASSUME (\E s \in Site : CreateSite(s)) \/ (\E b \in Branch : Push(b)) \/ Startup \/ UNCHANGED vars
        PROVE  UNCHANGED <<wk, jobs>>
    BY <1>4 DEF CreateSite, Push, Startup, jobs, vars
  <1> QED BY <1>1, <1>2, <1>3, <1>4, RunSameJobs DEF Next

LEMMA SameJobsInv == ASSUME TypeOK, JobsInv, SameJobs PROVE JobsInv'
  <1>1. OneRunPerProject'
    BY DEF SameJobs, JobsInv, OneRunPerProject
  <1>2. \A w \in Worker : Active(w)' => running'[wk'[w].project]
    BY DEF SameJobs, JobsInv, jobs
  <1>3. \A p \in Project : running'[p] => \E w \in Worker : Active(w)' /\ wk'[w].project = p
    BY DEF SameJobs, JobsInv, jobs
  <1>4. \A p \in Project : next'[p] # None => running'[p]
    BY DEF SameJobs, JobsInv, jobs
  <1> QED BY <1>1, <1>2, <1>3, <1>4 DEF JobsInv

LEMMA EnqueueJobsInv == ASSUME TypeOK, JobsInv, NEW h \in Handler, Enqueue(h) PROVE JobsInv'
  <1> DEFINE p == hd[h].site
             q == [kind |-> hd[h].kind, repo |-> hd[h].repo]
  <1>1. p \in Project /\ q \in Request /\ q # None
    BY AtHandling, NoneAssumption DEF Enqueue, Handle, WellFormedHandling, Request
  <1>2. CASE running[p]
    <2>1. UNCHANGED <<running, wk>> /\ next' = [next EXCEPT ![p] = q]
      BY <1>2 DEF Enqueue, RunRepoJob
    <2> QED BY <1>1, <1>2, <2>1 DEF JobsInv, OneRunPerProject, Active, TypeOK, JobsOK
  <1>3. CASE ~running[p]
    <2> DEFINE x == [NoWork EXCEPT !.pc = "begin", !.project = p, !.req = q, !.first = q.repo,
                                   !.blame = q.repo]
    <2>1. /\ running' = [running EXCEPT ![p] = TRUE] /\ UNCHANGED next
          /\ \E w \in Worker : wk[w].pc = "off" /\ wk' = [wk EXCEPT ![w] = x]
      BY <1>3 DEF Enqueue, RunRepoJob
    <2>2. PICK w \in Worker : wk[w].pc = "off" /\ wk' = [wk EXCEPT ![w] = x]
      BY <2>1
    <2>3. x.pc = "begin" /\ x.project = p
      BY DEF NoWork
    <2> HIDE DEF x
    <2>4. \A v \in Worker : Active(v) => wk[v].project # p
      BY <1>3 DEF JobsInv
    <2>5. \A v \in Worker : wk'[v] = IF v = w THEN x ELSE wk[v]
      BY <2>2 DEF TypeOK, WorkOK
    <2>6. OneRunPerProject'
      BY <2>3, <2>4, <2>5 DEF JobsInv, OneRunPerProject, Active
    <2>7. \A v \in Worker : Active(v)' => running'[wk'[v].project]
      BY <1>1, <2>1, <2>3, <2>5, AtWork DEF JobsInv, Active, TypeOK, JobsOK
    <2>8. \A r \in Project : running'[r] => \E v \in Worker : Active(v)' /\ wk'[v].project = r
      BY <1>1, <2>1, <2>2, <2>3, <2>5 DEF JobsInv, Active, TypeOK, JobsOK
    <2>9. \A r \in Project : next'[r] # None => running'[r]
      BY <1>1, <2>1 DEF JobsInv, TypeOK, JobsOK
    <2> QED BY <2>6, <2>7, <2>8, <2>9 DEF JobsInv
  <1> QED BY <1>2, <1>3

LEMMA RunEndJobsInv == ASSUME TypeOK, JobsInv, NEW w \in Worker, RunEnd(w) PROVE JobsInv'
  <1> DEFINE p == wk[w].project
  <1>1. p \in Project /\ Active(w) /\ running[p]
    BY AtWork DEF RunEnd, Run, Active, JobsInv
  <1>2. CASE next[p] # None
    <2> DEFINE x == [NoWork EXCEPT !.pc = "begin", !.project = p, !.req = next[p],
                                   !.first = wk[w].first, !.blame = next[p].repo]
    <2>1. /\ wk' = [wk EXCEPT ![w] = x] /\ UNCHANGED running
          /\ next' = [next EXCEPT ![p] = None]
      BY <1>2 DEF RunEnd
    <2>2. x.pc = "begin" /\ x.project = p
      BY DEF NoWork
    <2> HIDE DEF x
    <2>3. \A v \in Worker : wk'[v] = IF v = w THEN x ELSE wk[v]
      BY <2>1 DEF TypeOK, WorkOK
    <2>4. OneRunPerProject'
      BY <1>1, <2>2, <2>3 DEF JobsInv, OneRunPerProject, Active
    <2>5. \A v \in Worker : Active(v)' => running'[wk'[v].project]
      BY <1>1, <2>1, <2>2, <2>3 DEF JobsInv, Active
    <2>6. \A r \in Project : running'[r] => \E v \in Worker : Active(v)' /\ wk'[v].project = r
      BY <1>1, <2>1, <2>2, <2>3 DEF JobsInv, Active
    <2>7. \A r \in Project : next'[r] # None => running'[r]
      BY <1>1, <2>1 DEF JobsInv, TypeOK, JobsOK
    <2> QED BY <2>4, <2>5, <2>6, <2>7 DEF JobsInv
  <1>3. CASE next[p] = None
    <2>1. /\ wk' = [wk EXCEPT ![w] = NoWork] /\ UNCHANGED next
          /\ running' = [running EXCEPT ![p] = FALSE]
      BY <1>3 DEF RunEnd
    <2>2. \A v \in Worker : wk'[v] = IF v = w THEN NoWork ELSE wk[v]
      BY <2>1 DEF TypeOK, WorkOK
    <2>3. \A v \in Worker : Active(v)' => v # w /\ Active(v) /\ wk'[v] = wk[v]
      BY <2>2 DEF Active, NoWork
    <2>4. \A v \in Worker : Active(v) /\ v # w => Active(v)' /\ wk[v].project # p
      BY <1>1, <2>2 DEF Active, JobsInv, OneRunPerProject
    <2>5. OneRunPerProject'
      BY <2>3 DEF JobsInv, OneRunPerProject
    <2>6. \A v \in Worker : Active(v)' => running'[wk'[v].project]
      BY <1>1, <2>1, <2>3, <2>4, AtWork DEF JobsInv, TypeOK, JobsOK
    <2>7. \A r \in Project : running'[r] => \E v \in Worker : Active(v)' /\ wk'[v].project = r
      BY <1>1, <2>1, <2>2, <2>4 DEF JobsInv, TypeOK, JobsOK
    <2>8. \A r \in Project : next'[r] # None => running'[r]
      BY <1>1, <1>3, <2>1 DEF JobsInv, TypeOK, JobsOK
    <2> QED BY <2>5, <2>6, <2>7, <2>8 DEF JobsInv
  <1> QED BY <1>2, <1>3

LEMMA CrashJobsInv == ASSUME TypeOK, Crash PROVE JobsInv'
  <1>1. \A w \in Worker : ~Active(w)'
    BY DEF Crash, Active, NoWork
  <1>2. \A p \in Project : ~running'[p] /\ next'[p] = None
    BY DEF Crash
  <1> QED BY <1>1, <1>2 DEF JobsInv, OneRunPerProject

\* A running flag is up exactly for the projects that have a goroutine, each has
\* one, and only those have a follow-up: runRepoJob and its loop keep the jobs
\* map in step with the goroutines, through every interleaving and restart.
THEOREM JobsMapExact == Spec => []JobsInv
  <1>1. Init => JobsInv
    BY DEF Init, JobsInv, OneRunPerProject, Active, NoWork
  <1>2. TypeOK /\ JobsInv /\ [Next]_vars => JobsInv'
    BY NextCases, SameJobsInv, EnqueueJobsInv, RunEndJobsInv, CrashJobsInv
  <1> QED BY <1>1, <1>2, TypeCorrect, PTL DEF Spec

\* A project never has two job goroutines.
THEOREM AtMostOneRun == Spec => []OneRunPerProject
  <1>1. JobsInv => OneRunPerProject
    BY DEF JobsInv
  <1> QED BY <1>1, JobsMapExact, PTL

-----------------------------------------------------------------------------
(* The latest request *)

\* A step that leaves the requests and the jobs about to begin alone.
KeepsRequests ==
  /\ UNCHANGED <<next, asked, owed>>
  /\ \A w \in Worker : wk[w].pc = "begin" => wk'[w] = wk[w]

LEMMA RequestCases ==
  ASSUME TypeOK, [Next]_vars
  PROVE  \/ KeepsRequests
         \/ \E h \in Handler : Enqueue(h)
         \/ \E w \in Worker : RunBegin(w) \/ RunEnd(w)
         \/ Crash
  <1>1. ASSUME UNCHANGED <<wk, next, asked, owed>> PROVE KeepsRequests
    BY <1>1 DEF KeepsRequests
  <1>2. ASSUME NEW h \in Handler, Arrive(h) PROVE UNCHANGED <<wk, next, asked, owed>>
    BY <1>2 DEF Arrive, ClickActivate, ChangeBranch, ClickDeploy, UnlinkRepo, LinkRepo,
                DeleteSite, MapSite, jobs, ghost
  <1>3. ASSUME NEW h \in Handler, Proceed(h), ~Enqueue(h)
        PROVE  UNCHANGED <<wk, next, asked, owed>>
    BY <1>3 DEF Proceed, Lookup, MarkBusy, GenerateKey, UnlinkClear, UnlinkDrop, MapPersist,
                DeleteRows, jobs, ghost
  <1>4. ASSUME (\E s \in Site : CreateSite(s)) \/ (\E b \in Branch : Push(b)) \/ Startup \/ UNCHANGED vars
        PROVE  UNCHANGED <<wk, next, asked, owed>>
    BY <1>4 DEF CreateSite, Push, Startup, jobs, ghost, vars
  <1>5. ASSUME NEW w \in Worker, Continue(w) \/ RunPanic(w), ~RunBegin(w), ~RunEnd(w)
        PROVE  KeepsRequests
    <2>1. wk[w].pc # "begin"
      BY <1>5 DEF Continue, RunPanic, RunMark, RunPrepare, RunWipe, RunClone, RunFetch,
                  RunReread, RunPersist, RunStamp, RunBuild, RunOk, RunFail, RunFailWrite, Run
    <2>2. UNCHANGED <<next, asked, owed>>
      BY <1>5 DEF Continue, RunPanic, RunMark, RunPrepare, RunWipe, RunClone, RunFetch,
                  RunReread, RunPersist, RunStamp, RunBuild, RunOk, RunFail, RunFailWrite,
                  jobs, ghost
    <2>3. \E x : wk' = [wk EXCEPT ![w] = x]
      <3>1. ASSUME NEW l, Goto(w, l) PROVE \E x : wk' = [wk EXCEPT ![w] = x]
        BY <3>1 DEF Goto
      <3>2. ASSUME FailEarly(w) PROVE \E x : wk' = [wk EXCEPT ![w] = x]
        BY <3>2 DEF FailEarly, FailWith
      <3>3. CASE RunPanic(w) \/ RunFail(w)
        BY <3>3 DEF RunPanic, RunFail
      <3>4. CASE RunPrepare(w) \/ RunWipe(w) \/ RunClone(w) \/ RunFetch(w)
        BY <3>1, <3>2, <3>4 DEF RunPrepare, RunWipe, RunClone, RunFetch
      <3>5. CASE \/ RunMark(w) \/ RunReread(w) \/ RunPersist(w) \/ RunStamp(w) \/ RunBuild(w)
                 \/ RunOk(w) \/ RunFailWrite(w)
        BY <3>1, <3>5 DEF RunMark, RunReread, RunPersist, RunStamp, RunBuild, RunOk, RunFailWrite
      <3> QED BY <1>5, <3>3, <3>4, <3>5 DEF Continue
    <2>4. \A v \in Worker \ {w} : wk'[v] = wk[v]
      BY <2>3 DEF TypeOK, WorkOK
    <2> QED BY <2>1, <2>2, <2>4 DEF KeepsRequests
  <1> QED BY <1>1, <1>2, <1>3, <1>4, <1>5 DEF Next

LEMMA RunBeginKeepsLatest ==
  ASSUME TypeOK, LatestRequestKept, NEW w \in Worker, RunBegin(w)
  PROVE  LatestRequestKept'
  <1> DEFINE q == wk[w].req
             done == IF row[q.repo].present THEN Covered(q.kind) ELSE Kind
  <1>1. wk[w].pc = "begin" /\ q \in Request /\ wk[w].project \in Project
    BY AtWork DEF RunBegin, Run, Active
  <1>2. owed' = [owed EXCEPT ![wk[w].project] = @ \ [kind : done, repo : {q.repo}]]
        /\ UNCHANGED <<next, asked>>
    BY DEF RunBegin, jobs
  <1>3. q \in [kind : done, repo : {q.repo}]
    BY <1>1 DEF Request, Covered, Kind
  <1>4. \A v \in Worker \ {w} : wk'[v] = wk[v]
    BY DEF RunBegin, Goto, TypeOK, WorkOK
  <1> SUFFICES ASSUME NEW p \in Project, asked[p].req \in owed'[p]
               PROVE  \/ next[p] = asked[p].req
                      \/ \E v \in Worker : /\ wk'[v].pc = "begin" /\ wk'[v].project = p
                                           /\ wk'[v].req = asked[p].req
    BY <1>2 DEF LatestRequestKept
  <1>5. asked[p].req \in owed[p] /\ ~(p = wk[w].project /\ asked[p].req = q)
    BY <1>1, <1>2, <1>3 DEF TypeOK, HistoryOK
  <1> QED BY <1>4, <1>5 DEF LatestRequestKept

LEMMA RunEndKeepsLatest ==
  ASSUME TypeOK, LatestRequestKept, NEW w \in Worker, RunEnd(w)
  PROVE  LatestRequestKept'
  <1> DEFINE r == wk[w].project
  <1>1. wk[w].pc = "end" /\ r \in Project
    BY AtWork DEF RunEnd, Run, Active
  <1>2. \A v \in Worker \ {w} : wk'[v] = wk[v]
    BY DEF RunEnd, TypeOK, WorkOK
  <1>3. next' = [next EXCEPT ![r] = None] /\ UNCHANGED <<asked, owed>>
    BY <1>1 DEF RunEnd, ghost, TypeOK, JobsOK
  <1>4. next[r] # None =>
          wk'[w].pc = "begin" /\ wk'[w].project = r /\ wk'[w].req = next[r]
    <2> DEFINE x == [NoWork EXCEPT !.pc = "begin", !.project = r, !.req = next[r],
                                   !.first = wk[w].first, !.blame = next[r].repo]
    <2> SUFFICES ASSUME next[r] # None
                 PROVE  wk'[w].pc = "begin" /\ wk'[w].project = r /\ wk'[w].req = next[r]
      OBVIOUS
    <2>1. wk' = [wk EXCEPT ![w] = x]
      BY DEF RunEnd
    <2>2. x.pc = "begin" /\ x.project = r /\ x.req = next[r]
      BY DEF NoWork
    <2> HIDE DEF x
    <2> QED BY <2>1, <2>2 DEF TypeOK, WorkOK
  <1> SUFFICES ASSUME NEW p \in Project, asked[p].req \in owed[p]
               PROVE  \/ next'[p] = asked[p].req
                      \/ \E v \in Worker : /\ wk'[v].pc = "begin" /\ wk'[v].project = p
                                           /\ wk'[v].req = asked[p].req
    BY <1>3 DEF LatestRequestKept
  <1>5. asked[p].req # None
    BY NoneAssumption DEF TypeOK, HistoryOK
  <1>6. CASE next[p] = asked[p].req
    BY <1>1, <1>3, <1>4, <1>5, <1>6 DEF TypeOK, JobsOK
  <1>7. CASE \E v \in Worker : wk[v].pc = "begin" /\ wk[v].project = p /\ wk[v].req = asked[p].req
    BY <1>1, <1>2, <1>7
  <1> QED BY <1>6, <1>7 DEF LatestRequestKept

LEMMA EnqueueKeepsLatest ==
  ASSUME TypeOK, LatestRequestKept, NEW h \in Handler, Enqueue(h)
  PROVE  LatestRequestKept'
  <1> DEFINE r == hd[h].site
             q == [kind |-> hd[h].kind, repo |-> hd[h].repo]
             x == [NoWork EXCEPT !.pc = "begin", !.project = r, !.req = q, !.first = q.repo,
                                 !.blame = q.repo]
  <1>1. r \in Project
    BY AtHandling DEF Enqueue, Handle, WellFormedHandling
  <1>2. asked'[r].req = q /\ \A p \in Project \ {r} : asked'[p] = asked[p] /\ owed'[p] = owed[p]
    BY <1>1 DEF Enqueue, TypeOK, HistoryOK
  <1>3. x.pc = "begin" /\ x.project = r /\ x.req = q
    BY DEF NoWork
  <1>4. \/ next' = [next EXCEPT ![r] = q] /\ wk' = wk
        \/ /\ UNCHANGED next
           /\ \E w \in Worker : wk[w].pc = "off" /\ wk' = [wk EXCEPT ![w] = x]
    BY DEF Enqueue, RunRepoJob
  <1> HIDE DEF x, q
  <1>5. CASE next' = [next EXCEPT ![r] = q] /\ wk' = wk
    BY <1>1, <1>2, <1>5 DEF LatestRequestKept, TypeOK, JobsOK
  <1>6. CASE UNCHANGED next /\ \E w \in Worker : wk[w].pc = "off" /\ wk' = [wk EXCEPT ![w] = x]
    <2>1. PICK w \in Worker : wk[w].pc = "off" /\ wk' = [wk EXCEPT ![w] = x]
      BY <1>6
    <2>2. wk'[w] = x /\ \A v \in Worker \ {w} : wk'[v] = wk[v]
      BY <2>1 DEF TypeOK, WorkOK
    <2> QED BY <1>1, <1>2, <1>3, <1>6, <2>1, <2>2 DEF LatestRequestKept
  <1> QED BY <1>4, <1>5, <1>6

\* The request made last is never dropped: until a run takes it up it is the
\* queued follow-up or what a goroutine is about to begin.
THEOREM LatestKept == Spec => []LatestRequestKept
  <1>1. Init => LatestRequestKept
    BY DEF Init, LatestRequestKept
  <1>2. TypeOK /\ LatestRequestKept /\ KeepsRequests => LatestRequestKept'
    BY DEF KeepsRequests, LatestRequestKept
  <1>3. TypeOK /\ LatestRequestKept /\ Crash => LatestRequestKept'
    BY DEF Crash, LatestRequestKept
  <1>4. TypeOK /\ LatestRequestKept /\ [Next]_vars => LatestRequestKept'
    BY <1>2, <1>3, RequestCases, RunBeginKeepsLatest, RunEndKeepsLatest, EnqueueKeepsLatest
  <1> QED BY <1>1, <1>4, TypeCorrect, PTL DEF Spec

-----------------------------------------------------------------------------
(* runRepoJob implements SingleFlight *)

\* The abstract "current" request, by what the goroutines are doing.
CurrentIsRun ==
  /\ \A p \in Project : ~running[p] => Current[p] = None
  /\ \A w \in Worker : Active(w) => running[wk[w].project] /\ Current[wk[w].project] = wk[w].req

LEMMA CurrentIs == TypeOK /\ JobsInv => CurrentIsRun
  <1> SUFFICES ASSUME TypeOK, JobsInv PROVE CurrentIsRun
    OBVIOUS
  <1>1. \A p \in Project : ~running[p] => Current[p] = None
    BY DEF Current
  <1>2. ASSUME NEW w \in Worker, Active(w)
        PROVE  running[wk[w].project] /\ Current[wk[w].project] = wk[w].req
    <2>1. wk[w].project \in Project /\ running[wk[w].project]
      BY <1>2, AtWork DEF JobsInv
    <2>2. RunOf(wk[w].project) = w
      BY <1>2, <2>1 DEF RunOf, JobsInv, OneRunPerProject
    <2> QED BY <2>1, <2>2 DEF Current
  <1> QED BY <1>1, <1>2 DEF CurrentIsRun

LEMMA CurrentIsNext == (TypeOK /\ JobsInv)' => CurrentIsRun'
  BY CurrentIs, PTL

LEMMA SameFlight ==
  ASSUME TypeOK, JobsInv, TypeOK', JobsInv', SameJobs
  PROVE  UNCHANGED <<Current, next>>
  <1>1. Current' = [p \in Project |-> Current'[p]] /\ Current = [p \in Project |-> Current[p]]
    BY DEF Current
  <1>2. ASSUME NEW p \in Project PROVE Current'[p] = Current[p]
    <2>1. CASE ~running[p]
      BY <2>1, CurrentIs DEF CurrentIsRun, SameJobs, jobs, Current
    <2>2. CASE running[p]
      <3>1. PICK w \in Worker : Active(w) /\ wk[w].project = p
        BY <2>2 DEF JobsInv
      <3>2. Active(w)' /\ wk'[w].project = p /\ wk'[w].req = wk[w].req
        BY <3>1 DEF SameJobs
      <3>3. Current[p] = wk[w].req
        BY <3>1, CurrentIs DEF CurrentIsRun
      <3>4. Current'[p] = wk'[w].req
        BY <3>2, CurrentIsNext DEF CurrentIsRun
      <3> QED BY <3>2, <3>3, <3>4
    <2> QED BY <2>1, <2>2
  <1> QED BY <1>1, <1>2 DEF SameJobs, jobs

LEMMA EnqueueFlight ==
  ASSUME TypeOK, JobsInv, TypeOK', JobsInv', NEW h \in Handler, Enqueue(h)
  PROVE  Flight!FlightNext
  <1> DEFINE p == hd[h].site
             q == [kind |-> hd[h].kind, repo |-> hd[h].repo]
  <1>1. p \in Project /\ q \in Request
    BY AtHandling DEF Enqueue, Handle, WellFormedHandling, Request
  <1>c. /\ \A r \in Project : ~running'[r] => Current'[r] = None
        /\ \A v \in Worker : Active(v)' => Current'[wk'[v].project] = wk'[v].req
    BY CurrentIsNext DEF CurrentIsRun
  <1>d. Current' = [r \in Project |-> Current'[r]] /\ Current = [r \in Project |-> Current[r]]
    BY DEF Current
  <1>2. CASE running[p]
    <2>1. UNCHANGED <<running, wk>> /\ next' = [next EXCEPT ![p] = q]
      BY <1>2 DEF Enqueue, RunRepoJob
    <2>2. UNCHANGED Current
      BY <2>1 DEF Current, RunOf, Active
    <2>3. Current[p] # None
      <3>1. PICK w \in Worker : Active(w) /\ wk[w].project = p
        BY <1>1, <1>2 DEF JobsInv
      <3> QED BY <3>1, CurrentIs, AtWork, NoneAssumption DEF CurrentIsRun
    <2>4. Flight!Wait(p, q)
      BY <2>1, <2>2, <2>3 DEF Flight!Wait
    <2> QED BY <1>1, <2>4 DEF Flight!FlightNext
  <1>3. CASE ~running[p]
    <2> DEFINE x == [NoWork EXCEPT !.pc = "begin", !.project = p, !.req = q, !.first = q.repo,
                                   !.blame = q.repo]
    <2>1. PICK w \in Worker : wk[w].pc = "off" /\ wk' = [wk EXCEPT ![w] = x]
      BY <1>3 DEF Enqueue, RunRepoJob
    <2>2. running' = [running EXCEPT ![p] = TRUE] /\ UNCHANGED next
      BY <1>3 DEF Enqueue, RunRepoJob
    <2>3. x.pc = "begin" /\ x.project = p /\ x.req = q
      BY DEF NoWork
    <2> HIDE DEF x
    <2>4. wk'[w] = x /\ \A v \in Worker \ {w} : wk'[v] = wk[v]
      BY <2>1 DEF TypeOK, WorkOK
    <2>5. Current'[p] = q
      BY <1>c, <2>3, <2>4 DEF Active
    <2>6. ASSUME NEW r \in Project \ {p} PROVE Current'[r] = Current[r]
      <3>1. running'[r] = running[r]
        BY <1>1, <2>2 DEF TypeOK, JobsOK
      <3>2. CASE running[r]
        <4>1. PICK v \in Worker : Active(v) /\ wk[v].project = r
          BY <3>2 DEF JobsInv
        <4>2. Active(v)' /\ wk'[v] = wk[v]
          BY <2>1, <2>4, <4>1 DEF Active
        <4> QED BY <1>c, <4>1, <4>2, CurrentIs DEF CurrentIsRun
      <3>3. CASE ~running[r]
        BY <1>c, <3>1, <3>3, CurrentIs DEF CurrentIsRun
      <3> QED BY <3>2, <3>3
    <2>7. Current' = [Current EXCEPT ![p] = q]
      BY <1>1, <1>d, <2>5, <2>6
    <2>8. Current[p] = None
      BY <1>1, <1>3, CurrentIs DEF CurrentIsRun
    <2>9. Flight!StartNow(p, q)
      BY <2>2, <2>7, <2>8 DEF Flight!StartNow
    <2> QED BY <1>1, <2>9 DEF Flight!FlightNext
  <1> QED BY <1>2, <1>3

LEMMA RunEndFlight ==
  ASSUME TypeOK, JobsInv, TypeOK', JobsInv', NEW w \in Worker, RunEnd(w)
  PROVE  Flight!FlightNext
  <1> DEFINE p == wk[w].project
  <1>1. p \in Project /\ Active(w) /\ wk[w].req \in Request
    BY AtWork DEF RunEnd, Run, Active
  <1>c. /\ \A r \in Project : ~running'[r] => Current'[r] = None
        /\ \A v \in Worker : Active(v)' => Current'[wk'[v].project] = wk'[v].req
    BY CurrentIsNext DEF CurrentIsRun
  <1>d. Current' = [r \in Project |-> Current'[r]] /\ Current = [r \in Project |-> Current[r]]
    BY DEF Current
  <1>2. next' = [next EXCEPT ![p] = None] /\ \A r \in Project \ {p} : running'[r] = running[r]
    BY <1>1 DEF RunEnd, TypeOK, JobsOK
  <1>3. \A v \in Worker \ {w} : wk'[v] = wk[v]
    BY DEF RunEnd, TypeOK, WorkOK
  <1>4. Current'[p] = next[p]
    <2>1. CASE next[p] # None
      <3>1. wk'[w].pc = "begin" /\ wk'[w].project = p /\ wk'[w].req = next[p]
        BY <2>1 DEF RunEnd, TypeOK, WorkOK, NoWork
      <3> QED BY <1>c, <3>1 DEF Active
    <2>2. CASE next[p] = None
      <3>1. ~running'[p]
        BY <1>1, <2>2 DEF RunEnd, TypeOK, JobsOK
      <3> QED BY <1>1, <1>c, <2>2, <3>1
    <2> QED BY <2>1, <2>2
  <1>5. ASSUME NEW r \in Project \ {p} PROVE Current'[r] = Current[r]
    <2>1. CASE running[r]
      <3>1. PICK v \in Worker : Active(v) /\ wk[v].project = r
        BY <2>1 DEF JobsInv
      <3>2. Active(v)' /\ wk'[v] = wk[v]
        BY <1>3, <3>1 DEF Active
      <3> QED BY <1>c, <3>1, <3>2, CurrentIs DEF CurrentIsRun
    <2>2. CASE ~running[r]
      BY <1>2, <1>c, <2>2, CurrentIs DEF CurrentIsRun
    <2> QED BY <2>1, <2>2
  <1>6. Current' = [Current EXCEPT ![p] = next[p]]
    BY <1>1, <1>d, <1>4, <1>5
  <1>7. Current[p] # None
    BY <1>1, CurrentIs, NoneAssumption DEF CurrentIsRun
  <1>8. Flight!Finish(p)
    BY <1>2, <1>6, <1>7 DEF Flight!Finish
  <1> QED BY <1>1, <1>8 DEF Flight!FlightNext

\* The jobs map and the goroutines implement the abstract single-flight executor:
\* one request at a time per project, one follow-up, the newest.
THEOREM JobsImplementSingleFlight == Spec => ImplementsSingleFlight
  <1>1. Init => Flight!FlightInit
    BY DEF Init, Flight!FlightInit, Current
  <1>2. ASSUME TypeOK, JobsInv, TypeOK', JobsInv', [Next]_vars
        PROVE  [Flight!FlightNext]_(Flight!flightVars)
    <2>1. CASE SameJobs
      BY <1>2, <2>1, SameFlight DEF Flight!flightVars
    <2>2. CASE \E h \in Handler : Enqueue(h)
      BY <1>2, <2>2, EnqueueFlight
    <2>3. CASE \E w \in Worker : RunEnd(w)
      BY <1>2, <2>3, RunEndFlight
    <2>4. CASE Crash
      <3>1. Flight!Forget
        BY <2>4 DEF Crash, Flight!Forget, Current
      <3> QED BY <3>1 DEF Flight!FlightNext
    <2> QED BY <1>2, <2>1, <2>2, <2>3, <2>4, NextCases
  <1> QED BY <1>1, <1>2, TypeCorrect, JobsMapExact, PTL
          DEF Spec, ImplementsSingleFlight, Flight!FlightSpec

-----------------------------------------------------------------------------
(* The checkouts, as long as one job at a time works in each *)

Recording == {"reread", "persist", "stamp", "build", "ok"}

\* What CommitIsCheckedOut says of one job.
AtItsCommit(w) ==
  wk[w].pc \in Recording /\ wk[w].req.kind # "build" => checkout[DirOf[wk[w].project]] = wk[w].commit

\* A job that leaves the checkouts alone and is not further on than it was.
LEMMA StepAtItsCommit ==
  ASSUME TypeOK, CommitIsCheckedOut, NEW w \in Worker, NEW x,
         wk' = [wk EXCEPT ![w] = x], UNCHANGED checkout,
         x.pc \in Recording /\ x.req.kind # "build" =>
           /\ wk[w].pc \in Recording
           /\ x.req = wk[w].req /\ x.project = wk[w].project /\ x.commit = wk[w].commit
  PROVE  CommitIsCheckedOut'
  <1>1. wk'[w] = x /\ \A v \in Worker \ {w} : wk'[v] = wk[v]
    BY DEF TypeOK, WorkOK
  <1>2. \A v \in Worker : AtItsCommit(v)'
    BY <1>1 DEF AtItsCommit, CommitIsCheckedOut, Recording
  <1> QED BY <1>2 DEF AtItsCommit, CommitIsCheckedOut, Recording

LEMMA FailEarlyAtItsCommit ==
  ASSUME TypeOK, CommitIsCheckedOut, NEW w \in Worker, FailEarly(w), UNCHANGED checkout
  PROVE  CommitIsCheckedOut'
  <1> DEFINE x == [wk[w] EXCEPT !.pc = "fail",
                    !.commit = IF wk[w].req.kind = "activate" THEN None ELSE wk[w].commit]
  <1>1. wk' = [wk EXCEPT ![w] = x]
    BY DEF FailEarly, FailWith
  <1>2. x.pc \notin Recording
    BY AtWork DEF Work, Recording
  <1> HIDE DEF x
  <1> QED BY <1>1, <1>2, StepAtItsCommit

LEMMA GotoAtItsCommit ==
  ASSUME TypeOK, CommitIsCheckedOut, NEW w \in Worker, NEW l, Goto(w, l), UNCHANGED checkout,
         wk[w].pc \in Recording \/ l \notin Recording
  PROVE  CommitIsCheckedOut'
  <1> DEFINE x == [wk[w] EXCEPT !.pc = l]
  <1>1. wk' = [wk EXCEPT ![w] = x]
    BY DEF Goto
  <1>2. /\ x.pc = l /\ x.req = wk[w].req /\ x.project = wk[w].project
        /\ x.commit = wk[w].commit
    BY AtWork DEF Work
  <1> HIDE DEF x
  <1> QED BY <1>1, <1>2, StepAtItsCommit

\* A git command changes the checkout of the one job that works there.
LEMMA GitAtItsCommit ==
  ASSUME OneRunPerCheckout, TypeOK, CommitIsCheckedOut, NEW w \in Worker, Active(w),
         NEW x, NEW c, wk' = [wk EXCEPT ![w] = x],
         checkout' = [checkout EXCEPT ![DirOf[wk[w].project]] = c],
         x.pc \in Recording => x.commit = c /\ x.project = wk[w].project
  PROVE  CommitIsCheckedOut'
  <1>1. wk'[w] = x /\ \A v \in Worker \ {w} : wk'[v] = wk[v]
    BY DEF TypeOK, WorkOK
  <1>2. wk[w].project \in Project /\ DirOf[wk[w].project] \in Dir
    BY AtWork, SiteAssumption DEF Project
  <1>3. AtItsCommit(w)'
    BY <1>1, <1>2 DEF AtItsCommit, TypeOK
  <1>4. ASSUME NEW v \in Worker \ {w} PROVE AtItsCommit(v)'
    <2>1. CASE wk[v].pc \in Recording
      <3>1. Active(v) /\ wk[v].project \in Project
        BY <2>1, AtWork DEF Active, Recording
      <3>2. DirOf[wk[v].project] # DirOf[wk[w].project]
        BY <3>1 DEF OneRunPerCheckout
      <3>3. checkout'[DirOf[wk[v].project]] = checkout[DirOf[wk[v].project]]
        BY <1>2, <3>1, <3>2, SiteAssumption DEF TypeOK, Project
      <3> QED BY <1>1, <3>3 DEF AtItsCommit, CommitIsCheckedOut, Recording
    <2>2. CASE wk[v].pc \notin Recording
      BY <1>1, <2>2 DEF AtItsCommit
    <2> QED BY <2>1, <2>2
  <1> QED BY <1>3, <1>4 DEF AtItsCommit, CommitIsCheckedOut, Recording

LEMMA RunAtItsCommit ==
  ASSUME OneRunPerCheckout, TypeOK, CommitIsCheckedOut, NEW w \in Worker,
         Continue(w) \/ RunPanic(w)
  PROVE  CommitIsCheckedOut'
  <1>1. CASE RunBegin(w)
    <2> DEFINE x == [wk[w] EXCEPT !.pc = "mark", !.branch = row[wk[w].req.repo].branch,
                                  !.commit = row[wk[w].req.repo].commit]
    <2>1. UNCHANGED checkout /\ (wk' = [wk EXCEPT ![w] = x] \/ Goto(w, "end"))
      BY <1>1 DEF RunBegin
    <2>2. x.pc \notin Recording /\ "end" \notin Recording
      BY AtWork DEF Work, Recording
    <2> HIDE DEF x
    <2> QED BY <2>1, <2>2, StepAtItsCommit, GotoAtItsCommit
  <1>2. CASE RunPrepare(w)
    <2> DEFINE x(l) == [wk[w] EXCEPT !.pc = l, !.seen = site[wk[w].project].repo]
    <2>1. wk[w].req.kind \in Kind /\ UNCHANGED checkout
      BY <1>2, AtWork DEF RunPrepare, Run, Active
    <2>2. \A l : x(l).pc = l /\ x(l).req = wk[w].req
      BY AtWork DEF Work
    <2>3. \/ FailEarly(w)
          \/ wk[w].req.kind = "build" /\ wk' = [wk EXCEPT ![w] = x("build")]
          \/ wk' = [wk EXCEPT ![w] = x("wipe")]
          \/ wk' = [wk EXCEPT ![w] = x("fetch")]
      BY <1>2, <2>1 DEF RunPrepare, Kind
    <2>4. "wipe" \notin Recording /\ "fetch" \notin Recording
      BY DEF Recording
    <2> HIDE DEF x
    <2> QED BY <2>1, <2>2, <2>3, <2>4, StepAtItsCommit, FailEarlyAtItsCommit
  <1>3. CASE (RunWipe(w) \/ RunClone(w) \/ RunFetch(w)) /\ UNCHANGED checkout /\ FailEarly(w)
    BY <1>3, FailEarlyAtItsCommit
  <1>4. CASE (RunWipe(w) \/ RunClone(w) \/ RunFetch(w)) /\ ~(UNCHANGED checkout /\ FailEarly(w))
    <2> DEFINE z(l, c) == [wk[w] EXCEPT !.pc = l, !.commit = c]
               d == DirOf[wk[w].project]
               e == IF wk[w].req.kind = "activate" THEN None ELSE wk[w].commit
    <2>1. Active(w)
      BY <1>4 DEF RunWipe, RunClone, RunFetch, Run, Active
    <2>2. \A l, c : /\ z(l, c).pc = l /\ z(l, c).commit = c
                    /\ z(l, c).project = wk[w].project
      BY AtWork DEF Work
    <2>3. \/ checkout' = [checkout EXCEPT ![d] = None] /\ Goto(w, "clone")
          \/ \E c : /\ checkout' = [checkout EXCEPT ![d] = c]
                    /\ \/ wk' = [wk EXCEPT ![w] = z("reread", c)]
                       \/ wk' = [wk EXCEPT ![w] = z("stamp", c)]
                       \/ wk' = [wk EXCEPT ![w] = z("fail", e)]
      BY <1>4 DEF RunWipe, RunClone, RunFetch, FailEarly, FailWith
    <2>4. "fail" \notin Recording /\ "clone" \notin Recording
      BY DEF Recording
    <2> DEFINE y == [wk[w] EXCEPT !.pc = "clone"]
    <2>5. y.pc = "clone" /\ (Goto(w, "clone") => wk' = [wk EXCEPT ![w] = y])
      BY AtWork DEF Work, Goto
    <2> HIDE DEF z, e, y, d
    <2>6. CASE checkout' = [checkout EXCEPT ![d] = None] /\ Goto(w, "clone")
      BY <2>1, <2>4, <2>5, <2>6, GitAtItsCommit DEF d
    <2>7. ASSUME NEW c, checkout' = [checkout EXCEPT ![d] = c],
                 NEW l \in {"reread", "stamp"}, wk' = [wk EXCEPT ![w] = z(l, c)]
          PROVE  CommitIsCheckedOut'
      BY <2>1, <2>2, <2>7, GitAtItsCommit DEF d
    <2>8. ASSUME NEW c, checkout' = [checkout EXCEPT ![d] = c], wk' = [wk EXCEPT ![w] = z("fail", e)]
          PROVE  CommitIsCheckedOut'
      <3> DEFINE x == z("fail", e)
      <3>1. x.pc \notin Recording
        BY <2>2, <2>4
      <3>2. wk' = [wk EXCEPT ![w] = x] /\ checkout' = [checkout EXCEPT ![DirOf[wk[w].project]] = c]
        BY <2>8 DEF d
      <3> HIDE DEF x
      <3> QED BY <1>4, <2>1, <3>1, <3>2, GitAtItsCommit
    <2> QED BY <2>3, <2>6, <2>7, <2>8
  <1>5. CASE \/ RunMark(w) \/ RunReread(w) \/ RunPersist(w) \/ RunStamp(w) \/ RunBuild(w)
             \/ RunOk(w) \/ RunFailWrite(w)
    <2>1. /\ UNCHANGED checkout
          /\ \E l : Goto(w, l) /\ (wk[w].pc \in Recording \/ l \notin Recording)
      BY <1>5 DEF RunMark, RunReread, RunPersist, RunStamp, RunBuild, RunOk, RunFailWrite,
                  Run, Recording
    <2> QED BY <2>1, GotoAtItsCommit
  <1>6. CASE RunFail(w)
    <2> DEFINE z(c) == [wk[w] EXCEPT !.pc = "failwrite", !.commit = c]
    <2>1. UNCHANGED checkout /\ \E c : wk' = [wk EXCEPT ![w] = z(c)]
      BY <1>6 DEF RunFail
    <2>2. \A c : z(c).pc \notin Recording
      BY AtWork DEF Work, Recording
    <2> HIDE DEF z
    <2> QED BY <2>1, <2>2, StepAtItsCommit
  <1>7. CASE RunPanic(w)
    <2> DEFINE x == [wk[w] EXCEPT !.pc = "fail", !.commit = None, !.blame = wk[w].first]
    <2>1. UNCHANGED checkout /\ wk' = [wk EXCEPT ![w] = x]
      BY <1>7 DEF RunPanic
    <2>2. x.pc \notin Recording
      BY AtWork DEF Work, Recording
    <2> HIDE DEF x
    <2> QED BY <2>1, <2>2, StepAtItsCommit
  <1>8. CASE RunEnd(w)
    <2> DEFINE q == next[wk[w].project]
               x == [NoWork EXCEPT !.pc = "begin", !.project = wk[w].project, !.req = q,
                                   !.first = wk[w].first, !.blame = q.repo]
    <2>1. UNCHANGED checkout /\ (wk' = [wk EXCEPT ![w] = x] \/ wk' = [wk EXCEPT ![w] = NoWork])
      BY <1>8 DEF RunEnd
    <2>2. x.pc \notin Recording /\ NoWork.pc \notin Recording
      BY DEF NoWork, Recording
    <2> HIDE DEF x
    <2> QED BY <2>1, <2>2, StepAtItsCommit
  <1> QED BY <1>1, <1>2, <1>3, <1>4, <1>5, <1>6, <1>7, <1>8 DEF Continue

LEMMA StepCommits ==
  ASSUME OneRunPerCheckout, TypeOK, CommitIsCheckedOut, [Next]_vars
  PROVE  CommitIsCheckedOut'
  <1>1. ASSUME UNCHANGED <<wk, checkout>> PROVE CommitIsCheckedOut'
    BY <1>1 DEF CommitIsCheckedOut
  <1>2. ASSUME NEW h \in Handler, Arrive(h) PROVE UNCHANGED <<wk, checkout>>
    BY <1>2 DEF Arrive, ClickActivate, ChangeBranch, ClickDeploy, UnlinkRepo, LinkRepo,
                DeleteSite, MapSite
  <1>3. ASSUME NEW h \in Handler, Proceed(h), ~Enqueue(h) PROVE UNCHANGED <<wk, checkout>>
    BY <1>3 DEF Proceed, Lookup, MarkBusy, GenerateKey, UnlinkClear, UnlinkDrop, MapPersist,
                DeleteRows
  <1>4. ASSUME NEW h \in Handler, Enqueue(h) PROVE CommitIsCheckedOut'
    <2> DEFINE q == [kind |-> hd[h].kind, repo |-> hd[h].repo]
               x == [NoWork EXCEPT !.pc = "begin", !.project = hd[h].site, !.req = q,
                                   !.first = q.repo, !.blame = q.repo]
    <2>1. UNCHANGED checkout /\ (wk' = wk \/ \E w \in Worker : wk' = [wk EXCEPT ![w] = x])
      BY <1>4 DEF Enqueue, RunRepoJob
    <2>2. x.pc \notin Recording
      BY DEF NoWork, Recording
    <2> HIDE DEF x
    <2> QED BY <1>1, <2>1, <2>2, StepAtItsCommit
  <1>5. ASSUME (\E s \in Site : CreateSite(s)) \/ (\E b \in Branch : Push(b)) \/ Startup
               \/ UNCHANGED vars
        PROVE  UNCHANGED <<wk, checkout>>
    BY <1>5 DEF CreateSite, Push, Startup, vars
  <1>6. CASE Crash
    BY <1>6 DEF Crash, NoWork, CommitIsCheckedOut
  <1> QED BY <1>1, <1>2, <1>3, <1>4, <1>5, <1>6, RunAtItsCommit DEF Next

-----------------------------------------------------------------------------
(* What a step of a job or of a request does to the rows *)

\* The steps of a job: g is its record before, x after.
JobBegins(g, x) ==
  /\ g.pc = "begin" /\ UNCHANGED <<row, checkout>>
  /\ IF row[g.req.repo].present
     THEN x.pc = "mark" /\ x.branch = row[g.req.repo].branch
     ELSE x.pc = "end"
JobShows(g, x) ==
  /\ <<g.pc, x.pc>> \in {<<"mark", "prepare">>, <<"stamp", "build">>}
  /\ \E st \in Busy : UpdateRepoDeploy(g.req.repo, g.commit, st)
  /\ UNCHANGED checkout /\ x.branch = g.branch /\ x.commit = g.commit
JobGoesOn(g, x) ==
  /\ UNCHANGED <<row, checkout>> /\ x.branch = g.branch /\ x.commit = g.commit
  /\ \/ g.pc \in {"reread", "persist", "build"} /\ x.pc \in {"persist", "stamp", "ok"}
     \/ g.pc = "prepare" /\ (x.pc = "build" => g.req.kind = "build")
        /\ x.pc \in {"wipe", "fetch", "build"}
JobFetches(g, x) ==
  /\ UNCHANGED row /\ x.branch = g.branch
  /\ \/ /\ g.pc = "wipe" /\ x.pc = "clone"
        /\ checkout' = [checkout EXCEPT ![DirOf[g.project]] = None]
     \/ /\ g.pc \in {"clone", "fetch"} /\ x.pc \in {"reread", "stamp"}
        /\ x.commit = Tip(g.branch)
        /\ checkout' = [checkout EXCEPT ![DirOf[g.project]] = Tip(g.branch)]
JobSucceeds(g, x) ==
  /\ g.pc = "ok" /\ x.pc = "end"
  /\ UpdateRepoDeploy(g.req.repo, g.commit, "ok") /\ UNCHANGED checkout
JobFails(g, x) ==
  /\ g.pc \notin {"off", "begin", "end", "fail", "failwrite"} /\ x.pc = "fail"
  /\ UNCHANGED row
  /\ UNCHANGED checkout \/ \E c : checkout' = [checkout EXCEPT ![DirOf[g.project]] = c]
JobReports(g, x) ==
  \/ g.pc = "fail" /\ x.pc = "failwrite" /\ UNCHANGED <<row, checkout>>
  \/ /\ g.pc = "failwrite" /\ x.pc = "end" /\ UNCHANGED checkout
     /\ UpdateRepoDeploy(g.blame, g.commit, "error")

\* What they all have in common: only a job that fails is given another repository
\* to blame, the one its goroutine was started for.
JobStep(w) ==
  LET g == wk[w]
      x == wk'[w]
  IN /\ \A v \in Worker \ {w} : wk'[v] = wk[v]
     /\ UNCHANGED <<minted, up, jobs, hd, tip, asked>>
     /\ g.pc # "off" /\ x.pc # "off"
     /\ x.project = g.project /\ x.req = g.req /\ x.first = g.first
     /\ x.blame # g.blame => JobFails(g, x) /\ x.blame = g.first
     /\ \/ JobBegins(g, x) \/ JobShows(g, x) \/ JobGoesOn(g, x) \/ JobFetches(g, x)
        \/ JobSucceeds(g, x) \/ JobFails(g, x) \/ JobReports(g, x)

LEMMA JobWrites ==
  ASSUME TypeOK, NEW w \in Worker, NEW x, wk' = [wk EXCEPT ![w] = x]
  PROVE  wk'[w] = x /\ \A v \in Worker \ {w} : wk'[v] = wk[v]
  BY DEF TypeOK, WorkOK

\* A record of a job with some of its fields changed.
LEMMA JobGoto ==
  ASSUME TypeOK, NEW w \in Worker, NEW l, Goto(w, l)
  PROVE  /\ \A v \in Worker \ {w} : wk'[v] = wk[v]
         /\ wk'[w].pc = l
         /\ wk'[w].project = wk[w].project /\ wk'[w].req = wk[w].req
         /\ wk'[w].first = wk[w].first /\ wk'[w].blame = wk[w].blame
         /\ wk'[w].branch = wk[w].branch /\ wk'[w].commit = wk[w].commit
  <1> DEFINE x == [wk[w] EXCEPT !.pc = l]
  <1>1. /\ x.pc = l /\ x.project = wk[w].project /\ x.req = wk[w].req
        /\ x.first = wk[w].first /\ x.blame = wk[w].blame
        /\ x.branch = wk[w].branch /\ x.commit = wk[w].commit
    BY AtWork DEF Work
  <1>2. wk' = [wk EXCEPT ![w] = x]
    BY DEF Goto
  <1> HIDE DEF x
  <1> QED BY <1>1, <1>2, JobWrites

LEMMA JobCommits ==
  ASSUME TypeOK, NEW w \in Worker, NEW l, NEW c,
         wk' = [wk EXCEPT ![w] = [@ EXCEPT !.pc = l, !.commit = c]]
  PROVE  /\ \A v \in Worker \ {w} : wk'[v] = wk[v]
         /\ wk'[w].pc = l /\ wk'[w].commit = c
         /\ wk'[w].project = wk[w].project /\ wk'[w].req = wk[w].req
         /\ wk'[w].first = wk[w].first /\ wk'[w].blame = wk[w].blame
         /\ wk'[w].branch = wk[w].branch
  <1> DEFINE x == [wk[w] EXCEPT !.pc = l, !.commit = c]
  <1>1. /\ x.pc = l /\ x.commit = c /\ x.project = wk[w].project /\ x.req = wk[w].req
        /\ x.first = wk[w].first /\ x.blame = wk[w].blame /\ x.branch = wk[w].branch
    BY AtWork DEF Work
  <1>2. wk' = [wk EXCEPT ![w] = x]
    OBVIOUS
  <1> HIDE DEF x
  <1> QED BY <1>1, <1>2, JobWrites

LEMMA JobGivesUp ==
  ASSUME TypeOK, NEW w \in Worker, FailEarly(w)
  PROVE  /\ \A v \in Worker \ {w} : wk'[v] = wk[v]
         /\ wk'[w].pc = "fail"
         /\ wk'[w].project = wk[w].project /\ wk'[w].req = wk[w].req
         /\ wk'[w].first = wk[w].first /\ wk'[w].blame = wk[w].blame
  BY JobCommits DEF FailEarly, FailWith

LEMMA JobSteps ==
  ASSUME TypeOK, NEW w \in Worker, Continue(w) \/ RunPanic(w), ~RunEnd(w)
  PROVE  JobStep(w)
  <1> DEFINE g == wk[w]
             same == /\ UNCHANGED <<minted, up, jobs, hd, tip, asked>>
                     /\ g.pc # "off"
  <1>1. same
    BY DEF Continue, RunPanic, RunBegin, RunMark, RunPrepare, RunWipe, RunClone, RunFetch,
           RunReread, RunPersist, RunStamp, RunBuild, RunOk, RunFail, RunFailWrite, Run,
           db, jobs, world, ghost
  <1>2. CASE RunBegin(w)
    <2>1. CASE row[g.req.repo].present
      <3> DEFINE x == [g EXCEPT !.pc = "mark", !.branch = row[g.req.repo].branch,
                                !.commit = row[g.req.repo].commit]
      <3>1. /\ x.pc = "mark" /\ x.branch = row[g.req.repo].branch /\ x.project = g.project
            /\ x.req = g.req /\ x.first = g.first /\ x.blame = g.blame
        BY AtWork DEF Work
      <3>2. wk' = [wk EXCEPT ![w] = x]
        BY <1>2, <2>1 DEF RunBegin
      <3> HIDE DEF x
      <3>3. wk'[w] = x /\ \A v \in Worker \ {w} : wk'[v] = wk[v]
        BY <3>2, JobWrites
      <3>4. JobBegins(g, x)
        BY <1>2, <2>1, <3>1 DEF RunBegin, Run, JobBegins, db
      <3> QED BY <1>1, <3>1, <3>3, <3>4 DEF JobStep
    <2>2. CASE ~row[g.req.repo].present
      <3>1. Goto(w, "end")
        BY <1>2, <2>2 DEF RunBegin
      <3>2. JobBegins(g, wk'[w])
        BY <1>2, <2>2, <3>1, JobGoto DEF RunBegin, Run, JobBegins, db
      <3> QED BY <1>1, <3>1, <3>2, JobGoto DEF JobStep
    <2> QED BY <2>1, <2>2
  <1>3. CASE RunPrepare(w) /\ ~FailEarly(w)
    <2> DEFINE x(l) == [g EXCEPT !.pc = l, !.seen = site[g.project].repo]
    <2>1. g.req.kind \in Kind /\ UNCHANGED <<row, checkout>>
      BY <1>1, <1>3, AtWork DEF RunPrepare, Active, db
    <2>2. \A l : /\ x(l).pc = l /\ x(l).project = g.project /\ x(l).req = g.req
                 /\ x(l).first = g.first /\ x(l).blame = g.blame /\ x(l).branch = g.branch
                 /\ x(l).commit = g.commit
      BY AtWork DEF Work
    <2>3. \E l \in {"wipe", "fetch", "build"} :
            (l = "build" => g.req.kind = "build") /\ wk' = [wk EXCEPT ![w] = x(l)]
      BY <1>3, <2>1 DEF RunPrepare, Kind
    <2>4. PICK l \in {"wipe", "fetch", "build"} :
            (l = "build" => g.req.kind = "build") /\ wk' = [wk EXCEPT ![w] = x(l)]
      BY <2>3
    <2> DEFINE y == x(l)
    <2>5. /\ y.pc = l /\ y.project = g.project /\ y.req = g.req /\ y.first = g.first
          /\ y.blame = g.blame /\ y.branch = g.branch /\ y.commit = g.commit
          /\ wk' = [wk EXCEPT ![w] = y]
      BY <2>2, <2>4
    <2> HIDE DEF x, y
    <2>6. wk'[w] = y /\ \A v \in Worker \ {w} : wk'[v] = wk[v]
      BY <2>5, JobWrites
    <2>7. JobGoesOn(g, y)
      BY <1>3, <2>1, <2>4, <2>5 DEF RunPrepare, Run, JobGoesOn
    <2> QED BY <1>1, <2>5, <2>6, <2>7 DEF JobStep
  <1>4. CASE (RunPrepare(w) \/ RunWipe(w) \/ RunClone(w) \/ RunFetch(w)) /\ FailEarly(w)
    <2>1. JobFails(g, wk'[w])
      BY <1>4, JobGivesUp DEF RunPrepare, RunWipe, RunClone, RunFetch, Run, JobFails, db
    <2> QED BY <1>1, <1>4, <2>1, JobGivesUp DEF JobStep
  <1>5. CASE RunWipe(w) /\ ~FailEarly(w)
    <2>1. Goto(w, "clone") /\ JobFetches(g, wk'[w])
      BY <1>5, JobGoto DEF RunWipe, Run, JobFetches, db
    <2> QED BY <1>1, <2>1, JobGoto DEF JobStep
  <1>6. CASE (RunClone(w) \/ RunFetch(w)) /\ ~FailEarly(w)
    <2> DEFINE c == Tip(g.branch)
    <2>1. /\ g.pc \in {"clone", "fetch"} /\ UNCHANGED row
          /\ checkout' = [checkout EXCEPT ![DirOf[g.project]] = c]
      BY <1>6 DEF RunClone, RunFetch, Run, db
    <2>2. PICK l \in {"reread", "stamp"} :
            wk' = [wk EXCEPT ![w] = [@ EXCEPT !.pc = l, !.commit = c]]
      BY <1>6 DEF RunClone, RunFetch
    <2> HIDE DEF c
    <2>3. /\ \A v \in Worker \ {w} : wk'[v] = wk[v]
          /\ wk'[w].pc = l /\ wk'[w].commit = c
          /\ wk'[w].project = g.project /\ wk'[w].req = g.req
          /\ wk'[w].first = g.first /\ wk'[w].blame = g.blame
          /\ wk'[w].branch = g.branch
      BY <2>2, JobCommits
    <2>4. JobFetches(g, wk'[w])
      BY <2>1, <2>3 DEF JobFetches, c
    <2> QED BY <1>1, <2>3, <2>4 DEF JobStep
  <1>7. CASE RunReread(w) \/ RunPersist(w)
    <2>1. \E l \in {"persist", "stamp"} : Goto(w, l)
      BY <1>7 DEF RunReread, RunPersist
    <2>2. JobGoesOn(g, wk'[w])
      BY <1>7, <2>1, JobGoto DEF RunReread, RunPersist, Run, JobGoesOn, db
    <2> QED BY <1>1, <2>1, <2>2, JobGoto DEF JobStep
  <1>8. CASE RunMark(w) \/ RunStamp(w)
    <2>1. BusyStatus(g.req.kind) \in Busy /\ "building" \in Busy
      BY <1>1, AtWork DEF BusyStatus, Active, Kind, Busy
    <2>2. \E l : Goto(w, l) /\ l # "off"
      BY <1>8 DEF RunMark, RunStamp
    <2>3. JobShows(g, wk'[w])
      BY <1>8, <2>1, JobGoto DEF RunMark, RunStamp, Run, JobShows
    <2> QED BY <1>1, <2>2, <2>3, JobGoto DEF JobStep
  <1>9. CASE RunBuild(w)
    <2>1. CASE Goto(w, "ok")
      <3>1. JobGoesOn(g, wk'[w])
        BY <1>9, <2>1, JobGoto DEF RunBuild, Run, JobGoesOn, db
      <3> QED BY <1>1, <2>1, <3>1, JobGoto DEF JobStep
    <2>2. CASE Goto(w, "fail")
      <3>1. JobFails(g, wk'[w])
        BY <1>9, <2>2, JobGoto DEF RunBuild, Run, JobFails, db
      <3> QED BY <1>1, <2>2, <3>1, JobGoto DEF JobStep
    <2> QED BY <1>9, <2>1, <2>2 DEF RunBuild
  <1>10. CASE RunOk(w)
    <2>1. Goto(w, "end") /\ JobSucceeds(g, wk'[w])
      BY <1>10, JobGoto DEF RunOk, Run, JobSucceeds
    <2> QED BY <1>1, <2>1, JobGoto DEF JobStep
  <1>11. CASE RunFail(w)
    <2>1. PICK c : wk' = [wk EXCEPT ![w] = [@ EXCEPT !.pc = "failwrite", !.commit = c]]
      BY <1>11 DEF RunFail
    <2>2. /\ \A v \in Worker \ {w} : wk'[v] = wk[v]
          /\ wk'[w].pc = "failwrite"
          /\ wk'[w].project = g.project /\ wk'[w].req = g.req
          /\ wk'[w].first = g.first /\ wk'[w].blame = g.blame
      BY <2>1, JobCommits
    <2>3. JobReports(g, wk'[w])
      BY <1>11, <2>2 DEF RunFail, Run, JobReports, db
    <2> QED BY <1>1, <2>2, <2>3 DEF JobStep
  <1>12. CASE RunFailWrite(w)
    <2>1. Goto(w, "end") /\ JobReports(g, wk'[w])
      BY <1>12, JobGoto DEF RunFailWrite, Run, JobReports
    <2> QED BY <1>1, <2>1, JobGoto DEF JobStep
  <1>13. CASE RunPanic(w)
    <2> DEFINE x == [g EXCEPT !.pc = "fail", !.commit = None, !.blame = g.first]
    <2>1. /\ x.pc = "fail" /\ x.project = g.project /\ x.req = g.req
          /\ x.first = g.first /\ x.blame = g.first
      BY AtWork DEF Work
    <2>2. wk' = [wk EXCEPT ![w] = x]
      BY <1>13 DEF RunPanic
    <2> HIDE DEF x
    <2>3. wk'[w] = x /\ \A v \in Worker \ {w} : wk'[v] = wk[v]
      BY <2>2, JobWrites
    <2>4. JobFails(g, x)
      BY <1>13, <2>1 DEF RunPanic, JobFails, db
    <2> QED BY <1>1, <2>1, <2>3, <2>4 DEF JobStep
  <1> QED BY <1>2, <1>3, <1>4, <1>5, <1>6, <1>7, <1>8, <1>9, <1>10, <1>11, <1>12, <1>13
          DEF Continue

\* The steps of a request up to the one that queues a run: g is its record before,
\* x after.
Asks(g, x) ==
  /\ g.pc = "idle" /\ x.pc = "lookup" /\ x.kind = "activate"
  /\ x.repo \in Repo /\ row[x.repo].present
  /\ UNCHANGED minted
  /\ UNCHANGED row \/ \E b : row' = [row EXCEPT ![x.repo].branch = b]
Links(g, x) ==
  /\ g.pc = "idle" /\ x.pc \in {"lookup", "key"} /\ x.kind = "activate"
  /\ x.repo \in Repo \ minted /\ minted' = minted \cup {x.repo}
  /\ \E p \in Project, b \in Branch :
       row' = [row EXCEPT ![x.repo] = [present |-> TRUE, project |-> p, branch |-> b,
                                       commit |-> None, status |-> "linked"]]
Finds(g, x) ==
  /\ g.pc = "lookup" /\ x.pc = "mark" /\ x.kind = g.kind
  /\ x.repo \in Repo /\ row[x.repo].present /\ x.site = row[x.repo].project
  /\ g.kind = "activate" => x.repo = g.repo
  /\ UNCHANGED <<row, minted>>
Marks(g, x) ==
  /\ g.pc = "mark" /\ x.pc = "enqueue"
  /\ x.kind = g.kind /\ x.repo = g.repo /\ x.site = g.site
  /\ \E c : \E st \in Busy : UpdateRepoDeploy(g.repo, c, st)
  /\ UNCHANGED minted
Leaves(g, x) ==
  /\ g.pc \notin {"mark", "enqueue"} /\ x.pc \notin {"mark", "enqueue"}
  /\ g.pc = "lookup" /\ g.kind = "activate" /\ g.repo \in Repo => ~row[g.repo].present
  /\ x.repo \notin {g.repo, None} => x.repo \in Repo /\ row[x.repo].present
  /\ \A r \in Repo : row'[r] \in {row[r], NoRow}
  /\ UNCHANGED minted

RequestStep(h) ==
  LET g == hd[h]
      x == hd'[h]
  IN /\ \A i \in Handler \ {h} : hd'[i] = hd[i]
     /\ UNCHANGED <<checkout, up, jobs, wk, tip, asked>>
     /\ Asks(g, x) \/ Links(g, x) \/ Finds(g, x) \/ Marks(g, x) \/ Leaves(g, x)

LEMMA RequestWrites ==
  ASSUME TypeOK, NEW h \in Handler, NEW x, hd' = [hd EXCEPT ![h] = x]
  PROVE  hd'[h] = x /\ \A i \in Handler \ {h} : hd'[i] = hd[i]
  BY DEF TypeOK, HandlingOK

LEMMA RequestReplies ==
  ASSUME TypeOK, NEW h \in Handler, Reply(h)
  PROVE  /\ hd'[h].pc = "idle" /\ hd'[h].repo = None
         /\ \A i \in Handler \ {h} : hd'[i] = hd[i]
  <1>1. NoHandling.pc = "idle" /\ NoHandling.repo = None
    BY DEF NoHandling
  <1> QED BY <1>1, RequestWrites DEF Reply

LEMMA RequestGoto ==
  ASSUME TypeOK, NEW h \in Handler, NEW l, HandlerGoto(h, l)
  PROVE  /\ \A i \in Handler \ {h} : hd'[i] = hd[i]
         /\ hd'[h].pc = l /\ hd'[h].kind = hd[h].kind
         /\ hd'[h].repo = hd[h].repo /\ hd'[h].site = hd[h].site
  <1> DEFINE x == [hd[h] EXCEPT !.pc = l]
  <1>1. /\ x.pc = l /\ x.kind = hd[h].kind /\ x.repo = hd[h].repo /\ x.site = hd[h].site
    BY AtHandling DEF Handling
  <1>2. hd' = [hd EXCEPT ![h] = x]
    BY DEF HandlerGoto
  <1> HIDE DEF x
  <1> QED BY <1>1, <1>2, RequestWrites

LEMMA RequestSteps ==
  ASSUME TypeOK, NEW h \in Handler, Arrive(h) \/ Proceed(h), ~Enqueue(h)
  PROVE  RequestStep(h)
  <1> DEFINE g == hd[h]
  <1>1. UNCHANGED <<checkout, up, jobs, wk, tip, asked>>
    BY DEF Arrive, ClickActivate, ChangeBranch, ClickDeploy, UnlinkRepo, LinkRepo, DeleteSite,
           MapSite, Accept, Proceed, Lookup, MarkBusy, GenerateKey, UnlinkClear, UnlinkDrop,
           MapPersist, DeleteRows, jobs, world, ghost
  <1>2. g \in Handling /\ WellFormedHandling(g)
    BY AtHandling
  <1>3. ASSUME NEW r \in Repo, ClickActivate(h, r) \/ \E b \in Branch : ChangeBranch(h, r, b)
        PROVE  RequestStep(h)
    <2> DEFINE x == [g EXCEPT !.pc = "lookup", !.kind = "activate", !.repo = r]
    <2>1. x.pc = "lookup" /\ x.kind = "activate" /\ x.repo = r
      BY <1>2 DEF Handling
    <2>2. hd' = [hd EXCEPT ![h] = x]
      BY <1>3 DEF ClickActivate, ChangeBranch
    <2> HIDE DEF x
    <2>3. Asks(g, x)
      BY <1>3, <2>1 DEF ClickActivate, ChangeBranch, Accept, Asks, db
    <2> QED BY <1>1, <2>2, <2>3, RequestWrites DEF RequestStep
  <1>4. ASSUME NEW p \in Project, ClickDeploy(h, p)
        PROVE  RequestStep(h)
    <2> DEFINE x == [g EXCEPT !.pc = "lookup", !.kind = "deploy", !.site = p]
    <2>1. x.pc = "lookup" /\ x.kind = "deploy" /\ x.repo = g.repo
      BY <1>2 DEF Handling
    <2>2. hd' = [hd EXCEPT ![h] = x]
      BY <1>4 DEF ClickDeploy
    <2> HIDE DEF x
    <2>3. Leaves(g, x)
      BY <1>4, <2>1 DEF ClickDeploy, Accept, Leaves, db
    <2> QED BY <1>1, <2>2, <2>3, RequestWrites DEF RequestStep
  <1>5. ASSUME NEW p \in Project, UnlinkRepo(h, p)
        PROVE  RequestStep(h)
    <2> DEFINE x(r) == [g EXCEPT !.pc = "clear", !.repo = r]
    <2>1. \A r : x(r).pc = "clear" /\ x(r).repo = r
      BY <1>2 DEF Handling
    <2>2. PICK r \in RepoOf(p) : hd' = [hd EXCEPT ![h] = x(r)]
      BY <1>5 DEF UnlinkRepo
    <2> DEFINE y == x(r)
    <2>3. y.pc = "clear" /\ y.repo = r /\ hd' = [hd EXCEPT ![h] = y]
      BY <2>1, <2>2
    <2> HIDE DEF x, y
    <2>4. Leaves(g, y)
      BY <1>5, <2>2, <2>3 DEF UnlinkRepo, RepoOf, Accept, Leaves, db
    <2> QED BY <1>1, <2>3, <2>4, RequestWrites DEF RequestStep
  <1>6. ASSUME NEW p \in Project, NEW r \in Repo, NEW b \in Branch, LinkRepo(h, p, r, b)
        PROVE  RequestStep(h)
    <2> DEFINE x(l) == [g EXCEPT !.pc = l, !.kind = "activate", !.repo = r]
    <2>1. \A l : x(l).pc = l /\ x(l).kind = "activate" /\ x(l).repo = r
      BY <1>2 DEF Handling
    <2>2. PICK l \in {"lookup", "key"} : hd' = [hd EXCEPT ![h] = x(l)]
      BY <1>6 DEF LinkRepo
    <2> DEFINE y == x(l)
    <2>3. y.pc = l /\ y.kind = "activate" /\ y.repo = r /\ hd' = [hd EXCEPT ![h] = y]
      BY <2>1, <2>2
    <2> HIDE DEF x, y
    <2>4. Links(g, y)
      BY <1>6, <2>3 DEF LinkRepo, Accept, Links
    <2> QED BY <1>1, <2>3, <2>4, RequestWrites DEF RequestStep
  <1>7. ASSUME NEW s \in Site, DeleteSite(h, s)
        PROVE  RequestStep(h)
    <2> DEFINE x == [g EXCEPT !.pc = "delete", !.site = s]
    <2>1. x.pc = "delete" /\ x.repo = g.repo
      BY <1>2 DEF Handling
    <2>2. hd' = [hd EXCEPT ![h] = x]
      BY <1>7 DEF DeleteSite
    <2> HIDE DEF x
    <2>3. Leaves(g, x)
      BY <1>7, <2>1 DEF DeleteSite, Accept, Leaves, db
    <2> QED BY <1>1, <2>2, <2>3, RequestWrites DEF RequestStep
  <1>8. ASSUME NEW s \in Site, MapSite(h, s)
        PROVE  RequestStep(h)
    <2> DEFINE x(r) == [g EXCEPT !.pc = "persist", !.site = s, !.repo = r]
    <2>1. \A r : x(r).pc = "persist" /\ x(r).repo = r
      BY <1>2 DEF Handling
    <2>2. PICK r \in RepoOf(MainOf[s]) : hd' = [hd EXCEPT ![h] = x(r)]
      BY <1>8 DEF MapSite
    <2> DEFINE y == x(r)
    <2>3. y.pc = "persist" /\ y.repo = r /\ hd' = [hd EXCEPT ![h] = y]
      BY <2>1, <2>2
    <2> HIDE DEF x, y
    <2>4. Leaves(g, y)
      BY <1>8, <2>2, <2>3 DEF MapSite, RepoOf, Accept, Leaves, db
    <2> QED BY <1>1, <2>3, <2>4, RequestWrites DEF RequestStep
  <1>9. CASE Lookup(h)
    <2> DEFINE found == IF g.kind = "activate" THEN {r \in Repo : r = g.repo /\ row[r].present}
                        ELSE RepoOf(g.site)
               x(r) == [g EXCEPT !.pc = "mark", !.repo = r, !.site = row[r].project,
                                 !.commit = row[r].commit]
    <2>1. CASE found = {} /\ Reply(h)
      <3>1. Leaves(g, hd'[h])
        BY <1>2, <1>9, <2>1, RequestReplies
           DEF Lookup, Handle, Leaves, db, WellFormedHandling
      <3> QED BY <1>1, <2>1, <3>1, RequestReplies DEF RequestStep
    <2>2. ASSUME NEW r \in found, hd' = [hd EXCEPT ![h] = x(r)] PROVE RequestStep(h)
      <3> DEFINE y == x(r)
      <3>1. y.pc = "mark" /\ y.repo = r /\ y.site = row[r].project /\ y.kind = g.kind
        BY <1>2 DEF Handling
      <3>2. hd' = [hd EXCEPT ![h] = y]
        BY <2>2
      <3>3. r \in Repo /\ row[r].present /\ (g.kind = "activate" => r = g.repo)
        BY <2>2 DEF RepoOf
      <3> HIDE DEF y, x
      <3>4. Finds(g, y)
        BY <1>9, <3>1, <3>3 DEF Lookup, Handle, Finds, db
      <3> QED BY <1>1, <3>2, <3>4, RequestWrites DEF RequestStep
    <2>3. (found = {} /\ Reply(h)) \/ \E r \in found : hd' = [hd EXCEPT ![h] = x(r)]
      BY <1>9 DEF Lookup
    <2> HIDE DEF found, x
    <2> QED BY <2>1, <2>2, <2>3
  <1>10. CASE MarkBusy(h)
    <2>1. HandlerGoto(h, "enqueue") /\ g.kind \in Kind
      BY <1>2, <1>10 DEF MarkBusy, Handle, WellFormedHandling
    <2>2. BusyStatus(g.kind) \in Busy
      BY <2>1 DEF BusyStatus, Kind, Busy
    <2>3. Marks(g, hd'[h])
      BY <1>10, <2>1, <2>2, RequestGoto DEF MarkBusy, Handle, Marks
    <2> QED BY <1>1, <2>1, <2>3, RequestGoto DEF RequestStep
  <1>11. CASE GenerateKey(h) \/ UnlinkDrop(h) \/ DeleteRows(h)
    <2>1. Reply(h) /\ UNCHANGED minted /\ g.pc \in {"key", "drop", "delete"}
      BY <1>11 DEF GenerateKey, UnlinkDrop, DeleteRows, Handle
    <2>2. \A r \in Repo : row'[r] \in {row[r], NoRow}
      BY <1>11 DEF GenerateKey, UnlinkDrop, DeleteRows, DeleteRepo, TypeOK, RowOK
    <2>3. Leaves(g, hd'[h])
      BY <2>1, <2>2, RequestReplies DEF Leaves
    <2> QED BY <1>1, <2>1, <2>3, RequestReplies DEF RequestStep
  <1>12. CASE UnlinkClear(h)
    <2>1. HandlerGoto(h, "drop") /\ Leaves(g, hd'[h])
      BY <1>12, RequestGoto DEF UnlinkClear, Handle, Leaves
    <2> QED BY <1>1, <2>1, RequestGoto DEF RequestStep
  <1>13. CASE MapPersist(h)
    <2>1. g.pc = "persist" /\ UNCHANGED <<row, minted>>
      BY <1>13 DEF MapPersist, Handle
    <2>2. CASE Reply(h)
      <3>1. Leaves(g, hd'[h])
        BY <2>1, <2>2, RequestReplies DEF Leaves
      <3> QED BY <1>1, <2>2, <3>1, RequestReplies DEF RequestStep
    <2>3. CASE ~Reply(h)
      <3> DEFINE x == [g EXCEPT !.pc = "lookup", !.kind = "build", !.site = MainOf[g.site]]
      <3>1. x.pc = "lookup" /\ x.repo = g.repo
        BY <1>2 DEF Handling
      <3>2. hd' = [hd EXCEPT ![h] = x]
        BY <1>13, <2>3 DEF MapPersist
      <3> HIDE DEF x
      <3>3. Leaves(g, x)
        BY <2>1, <3>1 DEF Leaves
      <3> QED BY <1>1, <3>2, <3>3, RequestWrites DEF RequestStep
    <2> QED BY <2>2, <2>3
  <1> QED BY <1>3, <1>4, <1>5, <1>6, <1>7, <1>8, <1>9, <1>10, <1>11, <1>12, <1>13
          DEF Arrive, Proceed

\* The steps no job and no request takes.
OutsideStep ==
  /\ UNCHANGED <<row, minted, checkout, up, jobs, wk, hd, asked>>
  /\ \A b \in Branch : tip'[b] >= tip[b]

LEMMA StepKinds ==
  ASSUME TypeOK, [Next]_vars
  PROVE  \/ \E w \in Worker : JobStep(w) \/ RunEnd(w)
         \/ \E h \in Handler : RequestStep(h) \/ Enqueue(h)
         \/ Crash \/ Startup \/ OutsideStep
  <1>1. ASSUME (\E s \in Site : CreateSite(s)) \/ UNCHANGED vars
        PROVE  OutsideStep
    BY <1>1 DEF CreateSite, OutsideStep, jobs, world, ghost, db, vars, TypeOK
  <1>2. ASSUME NEW b \in Branch, Push(b) PROVE OutsideStep
    BY <1>2 DEF Push, OutsideStep, jobs, ghost, db, TypeOK
  <1> QED BY <1>1, <1>2, JobSteps, RequestSteps DEF Next

\* An UPDATE of a repository's row leaves what it is about alone.
LEMMA UpdatesRow ==
  ASSUME TypeOK, NEW r \in Repo, NEW c, NEW st, UpdateRepoDeploy(r, c, st)
  PROVE  /\ \A q \in Repo : /\ row'[q].present = row[q].present
                            /\ row'[q].project = row[q].project
                            /\ row'[q].branch = row[q].branch
                            /\ row'[q].status = IF q = r /\ row[r].present THEN st ELSE row[q].status
  <1> DEFINE x == [row[r] EXCEPT !.commit = c, !.status = st]
  <1>1. /\ x.present = row[r].present /\ x.project = row[r].project
        /\ x.branch = row[r].branch /\ x.status = st
    BY DEF TypeOK, RowOK, RepoRow
  <1>2. CASE row[r].present
    <2>1. row' = [row EXCEPT ![r] = x]
      BY <1>2 DEF UpdateRepoDeploy
    <2> HIDE DEF x
    <2> QED BY <1>1, <1>2, <2>1 DEF TypeOK, RowOK
  <1>3. CASE ~row[r].present
    BY <1>3 DEF UpdateRepoDeploy
  <1> QED BY <1>2, <1>3

\* What a job does to the row of its repository, or of the one it blames.
LEMMA JobRows ==
  ASSUME TypeOK, NEW w \in Worker, JobStep(w), NEW q \in Repo
  PROVE  /\ row'[q].present = row[q].present
         /\ row'[q].project = row[q].project
         /\ row'[q].branch = row[q].branch
         /\ row'[q].status # row[q].status =>
              \/ JobShows(wk[w], wk'[w]) /\ q = wk[w].req.repo
              \/ JobSucceeds(wk[w], wk'[w]) /\ q = wk[w].req.repo
              \/ row'[q].status = "error"
         /\ JobSucceeds(wk[w], wk'[w]) /\ q = wk[w].req.repo /\ row[q].present =>
              row'[q].status = "ok"
         /\ wk[w].pc = "failwrite" /\ q = wk[w].blame /\ row[q].present =>
              row'[q].status = "error"
  <1> DEFINE g == wk[w]
             x == wk'[w]
  <1>1. g.req.repo \in Repo /\ g.blame \in Repo
    BY AtWork DEF JobStep, Active
  <1>2. CASE UNCHANGED row
    BY <1>1, <1>2, UpdatesRow DEF JobStep, JobBegins, JobShows, JobGoesOn, JobFetches, JobSucceeds, JobFails,
                      JobReports
  <1>3. CASE JobShows(g, x)
    BY <1>1, <1>3, UpdatesRow DEF JobShows, JobSucceeds
  <1>4. CASE JobSucceeds(g, x)
    BY <1>1, <1>4, UpdatesRow DEF JobSucceeds
  <1>5. CASE g.pc = "failwrite"
    <2>1. UpdateRepoDeploy(g.blame, g.commit, "error")
      BY <1>5 DEF JobStep, JobBegins, JobShows, JobGoesOn, JobFetches, JobSucceeds, JobFails,
                  JobReports
    <2> QED BY <1>1, <1>5, <2>1, UpdatesRow DEF JobSucceeds
  <1> QED BY <1>2, <1>3, <1>4, <1>5
          DEF JobStep, JobBegins, JobGoesOn, JobFetches, JobFails, JobReports

-----------------------------------------------------------------------------
(* Who names which repository *)

Belongs(r, p) == r \in minted /\ (row[r].present => row[r].project = p)

\* A repository is named only after it was made, and by the requests and the jobs
\* of the project it is linked to, if it still is; a job blames the one it works on
\* or the one its goroutine was started for.
WorkNames(x) ==
  x.pc # "off" =>
    /\ Belongs(x.req.repo, x.project) /\ x.first \in minted
    /\ x.blame \in {x.req.repo, x.first}
    /\ x.pc \notin {"fail", "failwrite", "end"} => x.blame = x.req.repo
RequestNames(x) ==
  /\ x.repo # None => x.repo \in minted
  /\ x.pc \in {"mark", "enqueue"} => Belongs(x.repo, x.site)
NamesInv ==
  /\ \A r \in Repo : row[r].present => r \in minted
  /\ \A p \in Project : /\ asked[p].req # None => Belongs(asked[p].req.repo, p)
                        /\ next[p] # None => Belongs(next[p].repo, p)
  /\ \A w \in Worker : WorkNames(wk[w])
  /\ \A h \in Handler : RequestNames(hd[h])

\* Rows that were made stay with their project until they go for good.
RowsStay ==
  /\ minted \subseteq minted'
  /\ \A r \in minted : row'[r].present => row[r].present /\ row'[r].project = row[r].project
  /\ \A r \in Repo : row'[r].present => r \in minted'

LEMMA StepRows ==
  ASSUME TypeOK, NamesInv, [Next]_vars
  PROVE  RowsStay
  <1>1. ASSUME UNCHANGED <<row, minted>> PROVE RowsStay
    BY <1>1 DEF RowsStay, NamesInv
  <1>2. ASSUME NEW w \in Worker, JobStep(w) PROVE RowsStay
    BY <1>2, JobRows DEF RowsStay, NamesInv, TypeOK, JobStep
  <1>3. ASSUME NEW h \in Handler, RequestStep(h) PROVE RowsStay
    <2> DEFINE g == hd[h]
               x == hd'[h]
    <2>1. CASE Asks(g, x)
      <3>1. ASSUME NEW b, row' = [row EXCEPT ![x.repo].branch = b]
            PROVE  \A r \in Repo : row'[r].present = row[r].present /\ row'[r].project = row[r].project
        <4> DEFINE y == [row[x.repo] EXCEPT !.branch = b]
        <4>1. y.present = row[x.repo].present /\ y.project = row[x.repo].project
          BY <2>1 DEF Asks, TypeOK, RowOK, RepoRow
        <4>2. row' = [row EXCEPT ![x.repo] = y]
          BY <3>1
        <4> HIDE DEF y
        <4> QED BY <4>1, <4>2 DEF TypeOK, RowOK
      <3> QED BY <2>1, <3>1 DEF RowsStay, NamesInv, TypeOK, Asks
    <2>2. CASE Links(g, x)
      BY <2>2 DEF Links, RowsStay, NamesInv, TypeOK, RowOK
    <2>3. CASE Finds(g, x)
      BY <1>1, <2>3 DEF Finds
    <2>4. CASE Marks(g, x)
      <3>1. g.repo \in Repo
        BY <2>4, AtHandling DEF Marks, WellFormedHandling
      <3> QED BY <2>4, <3>1, UpdatesRow DEF Marks, RowsStay, NamesInv, TypeOK
    <2>5. CASE Leaves(g, x)
      BY <2>5 DEF Leaves, RowsStay, NamesInv, TypeOK, NoRow
    <2> QED BY <1>3, <2>1, <2>2, <2>3, <2>4, <2>5 DEF RequestStep
  <1>4. CASE Startup
    <2>1. \A r \in Repo : row'[r].present = row[r].present /\ row'[r].project = row[r].project
      BY <1>4 DEF Startup, SweepStale, TypeOK, RowOK, RepoRow
    <2> QED BY <1>4, <2>1 DEF Startup, RowsStay, NamesInv, TypeOK
  <1>5. ASSUME (\E w \in Worker : RunEnd(w)) \/ (\E h \in Handler : Enqueue(h)) \/ Crash \/ OutsideStep
        PROVE  RowsStay
    BY <1>1, <1>5 DEF RunEnd, Enqueue, Crash, OutsideStep, db
  <1> QED BY <1>2, <1>3, <1>4, <1>5, StepKinds

\* Belongs, of a repository and a project as they were named before the step.
StillBelongs(r, p) == r \in minted' /\ (row'[r].present => row'[r].project = p)

LEMMA BelongsStays ==
  ASSUME RowsStay, NEW r, NEW p, Belongs(r, p)
  PROVE  StillBelongs(r, p)
  BY DEF RowsStay, Belongs, StillBelongs

LEMMA WorkNamesStay ==
  ASSUME RowsStay, NEW w \in Worker, WorkNames(wk[w]), wk'[w] = wk[w]
  PROVE  WorkNames(wk[w])'
  BY BelongsStays DEF WorkNames, RowsStay, StillBelongs, Belongs

LEMMA RequestNamesStay ==
  ASSUME RowsStay, NEW h \in Handler, RequestNames(hd[h]), hd'[h] = hd[h]
  PROVE  RequestNames(hd[h])'
  BY BelongsStays DEF RequestNames, RowsStay, StillBelongs, Belongs

\* What NamesInv says of the jobs map and the history.
MapNames ==
  \A p \in Project : /\ asked[p].req # None => Belongs(asked[p].req.repo, p)
                     /\ next[p] # None => Belongs(next[p].repo, p)

LEMMA MapNamesStay ==
  ASSUME RowsStay, NamesInv, UNCHANGED <<next, asked>>
  PROVE  MapNames'
  <1>1. \A p \in Project : next[p] # None => StillBelongs(next[p].repo, p)
    BY BelongsStays DEF NamesInv
  <1>2. \A p \in Project : asked[p].req # None => StillBelongs(asked[p].req.repo, p)
    BY BelongsStays DEF NamesInv
  <1> QED BY <1>1, <1>2 DEF MapNames, StillBelongs, Belongs

LEMMA NamesNext ==
  ASSUME RowsStay, MapNames',
         \A w \in Worker : WorkNames(wk[w])', \A h \in Handler : RequestNames(hd[h])'
  PROVE  NamesInv'
  BY DEF NamesInv, MapNames, RowsStay

LEMMA JobNames ==
  ASSUME TypeOK, NamesInv, RowsStay, NEW w \in Worker, JobStep(w)
  PROVE  NamesInv'
  <1> DEFINE g == wk[w]
             x == wk'[w]
  <1>1. WorkNames(g) /\ g.pc # "off"
    BY DEF NamesInv, JobStep
  <1>2. StillBelongs(g.req.repo, g.project) /\ g.first \in minted'
    BY <1>1, BelongsStays DEF WorkNames, RowsStay
  <1>3. g.blame \in {g.req.repo, g.first}
    BY <1>1 DEF WorkNames
  <1>4. x.blame \in {g.req.repo, g.first}
    BY <1>3 DEF JobStep
  <1>5. x.pc \notin {"fail", "failwrite", "end"} => x.blame = g.req.repo
    BY <1>1 DEF WorkNames, JobStep, JobBegins, JobShows, JobGoesOn, JobFetches, JobSucceeds,
                JobFails, JobReports
  <1>6. WorkNames(wk[w])'
    BY <1>2, <1>4, <1>5 DEF WorkNames, JobStep, StillBelongs, Belongs
  <1>7. \A v \in Worker : WorkNames(wk[v])'
    BY <1>6, WorkNamesStay DEF JobStep, NamesInv
  <1>8. \A h \in Handler : RequestNames(hd[h])'
    BY RequestNamesStay DEF JobStep, NamesInv
  <1> QED BY <1>7, <1>8, MapNamesStay, NamesNext DEF JobStep, jobs

LEMMA RequestsName ==
  ASSUME TypeOK, NamesInv, RowsStay, NEW h \in Handler, RequestStep(h)
  PROVE  NamesInv'
  <1> DEFINE g == hd[h]
             x == hd'[h]
  <1>1. RequestNames(g) /\ UNCHANGED <<wk, next, asked>>
    BY DEF NamesInv, RequestStep, jobs
  <1>2. x.repo # None => x.repo \in minted'
    BY <1>1, AtHandling DEF RequestNames, RequestStep, RowsStay, NamesInv, Asks, Links, Finds, Marks, Leaves
  <1>3. x.pc \in {"mark", "enqueue"} => StillBelongs(x.repo, x.site)
    <2>1. CASE Finds(g, x)
      BY <2>1 DEF Finds, StillBelongs, NamesInv
    <2>2. CASE Marks(g, x)
      BY <1>1, <2>2, BelongsStays DEF Marks, RequestNames
    <2>3. CASE Asks(g, x) \/ Links(g, x) \/ Leaves(g, x)
      BY <2>3 DEF Asks, Links, Leaves
    <2> QED BY <2>1, <2>2, <2>3 DEF RequestStep
  <1>4. RequestNames(hd[h])'
    BY <1>2, <1>3 DEF RequestNames, StillBelongs, Belongs
  <1>5. \A i \in Handler : RequestNames(hd[i])'
    BY <1>4, RequestNamesStay DEF RequestStep, NamesInv
  <1>6. \A w \in Worker : WorkNames(wk[w])'
    BY <1>1, WorkNamesStay DEF NamesInv
  <1> QED BY <1>1, <1>5, <1>6, MapNamesStay, NamesNext

\* Queueing a run, and taking the next: x has just begun the request q.
Began(x, p, q, f) ==
  x.pc = "begin" /\ x.project = p /\ x.req = q /\ x.first = f /\ x.blame = q.repo
QueueStep(h) ==
  LET p == hd[h].site
      q == [kind |-> hd[h].kind, repo |-> hd[h].repo]
  IN /\ p \in Project /\ q \in Request /\ hd[h].pc = "enqueue"
     /\ hd'[h].pc = "idle" /\ hd'[h].repo = None
     /\ \A i \in Handler \ {h} : hd'[i] = hd[i]
     /\ asked'[p].req = q
     /\ row[q.repo].present => asked'[p].v = tip[row[q.repo].branch]
     /\ \A s \in Project \ {p} : asked'[s] = asked[s] /\ next'[s] = next[s] /\ running'[s] = running[s]
     /\ running'[p]
     /\ UNCHANGED <<row, minted, checkout, up, tip>>
     /\ \/ running[p] /\ next'[p] = q /\ UNCHANGED wk
        \/ /\ ~running[p] /\ next'[p] = next[p]
           /\ \E w \in Worker : /\ wk[w].pc = "off" /\ Began(wk'[w], p, q, q.repo)
                                /\ \A v \in Worker \ {w} : wk'[v] = wk[v]
EndStep(w) ==
  LET p == wk[w].project
  IN /\ p \in Project /\ wk[w].pc = "end" /\ up
     /\ \A v \in Worker \ {w} : wk'[v] = wk[v]
     /\ \A s \in Project \ {p} : next'[s] = next[s] /\ running'[s] = running[s]
     /\ next'[p] = None
     /\ UNCHANGED <<row, minted, checkout, up, hd, tip, asked>>
     /\ IF next[p] # None
        THEN running'[p] = running[p] /\ Began(wk'[w], p, next[p], wk[w].first)
        ELSE ~running'[p] /\ wk'[w].pc = "off"

LEMMA NewRun ==
  ASSUME NEW p, NEW q, NEW f
  PROVE  Began([NoWork EXCEPT !.pc = "begin", !.project = p, !.req = q, !.first = f,
                              !.blame = q.repo], p, q, f)
  BY DEF NoWork, Began

LEMMA Enqueues ==
  ASSUME TypeOK, NEW h \in Handler, Enqueue(h)
  PROVE  QueueStep(h)
  <1> DEFINE p == hd[h].site
             q == [kind |-> hd[h].kind, repo |-> hd[h].repo]
             z == [NoWork EXCEPT !.pc = "begin", !.project = p, !.req = q,
                                 !.first = q.repo, !.blame = q.repo]
             v == IF row[q.repo].present THEN tip[row[q.repo].branch] ELSE 0
             a == [req |-> q, v |-> v]
  <1>1. p \in Project /\ q \in Request /\ q.repo = hd[h].repo
    BY AtHandling DEF Enqueue, Handle, WellFormedHandling, Request
  <1>2. /\ hd[h].pc = "enqueue" /\ UNCHANGED <<row, minted, checkout, up, tip>>
        /\ asked' = [asked EXCEPT ![p] = a]
    BY <1>1 DEF Enqueue, Handle, db, world
  <1>3. /\ asked'[p].req = q
        /\ row[q.repo].present => asked'[p].v = tip[row[q.repo].branch]
        /\ \A s \in Project \ {p} : asked'[s] = asked[s]
    <2>1. a.req = q /\ a.v = v
      OBVIOUS
    <2> HIDE DEF a
    <2> QED BY <1>1, <1>2, <2>1 DEF TypeOK, HistoryOK
  <1>4. /\ hd'[h].pc = "idle" /\ hd'[h].repo = None
        /\ \A i \in Handler \ {h} : hd'[i] = hd[i]
    BY RequestReplies DEF Enqueue
  <1>5. \/ /\ running[p] /\ next' = [next EXCEPT ![p] = q]
           /\ UNCHANGED <<running, wk>>
        \/ /\ ~running[p] /\ running' = [running EXCEPT ![p] = TRUE]
           /\ UNCHANGED next
           /\ \E w \in Worker : wk[w].pc = "off" /\ wk' = [wk EXCEPT ![w] = z]
    BY DEF Enqueue, RunRepoJob
  <1>6. Began(z, p, q, q.repo)
    BY NewRun
  <1> HIDE DEF z, q, p, v, a
  <1>7. \A w \in Worker : wk' = [wk EXCEPT ![w] = z] =>
          wk'[w] = z /\ \A u \in Worker \ {w} : wk'[u] = wk[u]
    BY JobWrites
  <1>8. /\ running'[p]
        /\ \A s \in Project \ {p} : next'[s] = next[s] /\ running'[s] = running[s]
        /\ \/ running[p] /\ next'[p] = q /\ UNCHANGED wk
           \/ /\ ~running[p] /\ next'[p] = next[p]
              /\ \E w \in Worker : wk[w].pc = "off" /\ wk' = [wk EXCEPT ![w] = z]
    BY <1>1, <1>5 DEF TypeOK, JobsOK
  <1> QED BY <1>1, <1>2, <1>3, <1>4, <1>6, <1>7, <1>8 DEF QueueStep, p, q

LEMMA Ends ==
  ASSUME TypeOK, NEW w \in Worker, RunEnd(w)
  PROVE  EndStep(w)
  <1> DEFINE p == wk[w].project
             z == [NoWork EXCEPT !.pc = "begin", !.project = p, !.req = next[p],
                                 !.first = wk[w].first, !.blame = next[p].repo]
  <1>1. p \in Project /\ wk[w].pc = "end" /\ up
    BY AtWork DEF RunEnd, Run, Active
  <1>2. UNCHANGED <<row, minted, checkout, up, hd, tip, asked>>
    BY DEF RunEnd, db, world, ghost
  <1>3. CASE next[p] # None
    <2>1. wk' = [wk EXCEPT ![w] = z] /\ next' = [next EXCEPT ![p] = None] /\ UNCHANGED running
      BY <1>3 DEF RunEnd
    <2>2. Began(z, p, next[p], wk[w].first)
      BY NewRun
    <2> HIDE DEF z
    <2>3. wk'[w] = z /\ \A v \in Worker \ {w} : wk'[v] = wk[v]
      BY <2>1, JobWrites
    <2>4. next'[p] = None /\ \A s \in Project \ {p} : next'[s] = next[s]
      BY <1>1, <2>1 DEF TypeOK, JobsOK
    <2> QED BY <1>1, <1>2, <1>3, <2>1, <2>2, <2>3, <2>4 DEF EndStep
  <1>4. CASE next[p] = None
    <2>1. wk' = [wk EXCEPT ![w] = NoWork] /\ UNCHANGED next
          /\ running' = [running EXCEPT ![p] = FALSE]
      BY <1>4 DEF RunEnd
    <2>2. NoWork.pc = "off"
      BY DEF NoWork
    <2>3. wk'[w] = NoWork /\ \A v \in Worker \ {w} : wk'[v] = wk[v]
      BY <2>1, JobWrites
    <2>4. ~running'[p] /\ \A s \in Project \ {p} : running'[s] = running[s]
      BY <1>1, <2>1 DEF TypeOK, JobsOK
    <2> QED BY <1>1, <1>2, <1>4, <2>1, <2>2, <2>3, <2>4 DEF EndStep
  <1> QED BY <1>3, <1>4

LEMMA QueueNames ==
  ASSUME TypeOK, NamesInv, RowsStay, NEW h \in Handler, QueueStep(h)
  PROVE  NamesInv'
  <1> DEFINE p == hd[h].site
             q == [kind |-> hd[h].kind, repo |-> hd[h].repo]
  <1>1. /\ p \in Project /\ q.repo = hd[h].repo
        /\ asked'[p].req = q
        /\ \A s \in Project \ {p} : asked'[s] = asked[s] /\ next'[s] = next[s]
        /\ next'[p] \in {q, next[p]}
    BY DEF QueueStep
  <1>2. q.repo \in minted' /\ StillBelongs(q.repo, p)
    BY <1>1, BelongsStays DEF NamesInv, RequestNames, QueueStep, StillBelongs
  <1>3. \A s \in Project : /\ asked[s].req # None => StillBelongs(asked[s].req.repo, s)
                           /\ next[s] # None => StillBelongs(next[s].repo, s)
    BY BelongsStays DEF NamesInv
  <1> HIDE DEF q
  <1>4. MapNames'
    BY <1>1, <1>2, <1>3 DEF MapNames, NamesInv, RowsStay, StillBelongs, Belongs
  <1>5. ASSUME NEW w \in Worker, Began(wk'[w], p, q, q.repo) PROVE WorkNames(wk[w])'
    BY <1>2, <1>5 DEF Began, WorkNames, StillBelongs, Belongs
  <1>6. \A w \in Worker : WorkNames(wk[w])'
    <2>1. \A w \in Worker : wk'[w] = wk[w] \/ Began(wk'[w], p, q, q.repo)
      BY DEF QueueStep, q
    <2> QED BY <1>5, <2>1, WorkNamesStay DEF NamesInv
  <1>7. \A i \in Handler : RequestNames(hd[i])'
    BY RequestNamesStay DEF QueueStep, NamesInv, RequestNames
  <1> QED BY <1>4, <1>6, <1>7, NamesNext

LEMMA EndNames ==
  ASSUME TypeOK, NamesInv, RowsStay, NEW w \in Worker, EndStep(w)
  PROVE  NamesInv'
  <1> DEFINE p == wk[w].project
  <1>1. \A s \in Project : /\ asked[s].req # None => StillBelongs(asked[s].req.repo, s)
                           /\ next[s] # None => StillBelongs(next[s].repo, s)
    BY BelongsStays DEF NamesInv
  <1>2. wk[w].first \in minted'
    BY DEF EndStep, NamesInv, WorkNames, RowsStay
  <1>3. MapNames'
    BY <1>1 DEF EndStep, MapNames, NamesInv, RowsStay, StillBelongs, Belongs
  <1>4. WorkNames(wk[w])'
    <2>1. p \in Project
      BY DEF EndStep
    <2>2. next[p] # None => StillBelongs(next[p].repo, p)
      BY <1>1, <2>1
    <2> QED BY <1>2, <2>2 DEF EndStep, Began, WorkNames, StillBelongs, Belongs
  <1>5. \A v \in Worker : WorkNames(wk[v])'
    BY <1>4, WorkNamesStay DEF EndStep, NamesInv
  <1>6. \A h \in Handler : RequestNames(hd[h])'
    BY RequestNamesStay DEF EndStep, NamesInv
  <1> QED BY <1>3, <1>5, <1>6, NamesNext

LEMMA NamesStep ==
  ASSUME TypeOK, NamesInv, [Next]_vars
  PROVE  NamesInv'
  <1>1. RowsStay
    BY StepRows
  <1>2. CASE UNCHANGED <<jobs, wk, hd, asked>>
    <2>1. \A w \in Worker : WorkNames(wk[w])'
      BY <1>1, <1>2, WorkNamesStay DEF NamesInv
    <2>2. \A h \in Handler : RequestNames(hd[h])'
      BY <1>1, <1>2, RequestNamesStay DEF NamesInv
    <2> QED BY <1>1, <1>2, <2>1, <2>2, MapNamesStay, NamesNext DEF jobs
  <1>3. CASE Crash
    <2>1. MapNames'
      BY <1>3 DEF Crash, MapNames
    <2>2. /\ \A w \in Worker : wk'[w].pc = "off"
          /\ \A h \in Handler : hd'[h].pc = "idle" /\ hd'[h].repo = None
      BY <1>3 DEF Crash, NoWork, NoHandling
    <2>3. /\ \A w \in Worker : WorkNames(wk[w])'
          /\ \A h \in Handler : RequestNames(hd[h])'
      BY <2>2 DEF WorkNames, RequestNames
    <2> QED BY <1>1, <2>1, <2>3, NamesNext
  <1>4. CASE Startup \/ OutsideStep
    BY <1>2, <1>4 DEF Startup, OutsideStep, ghost
  <1> QED BY <1>1, <1>3, <1>4, StepKinds, JobNames, RequestsName, Enqueues, QueueNames, Ends, EndNames

LEMMA NamesAlways == Spec => []NamesInv
  <1>1. Init => NamesInv
    BY DEF Init, NamesInv, WorkNames, RequestNames, NoWork, NoHandling, NoRow
  <1> QED BY <1>1, NamesStep, TypeCorrect, PTL DEF Spec

-----------------------------------------------------------------------------
(* Jobs in one checkout directory *)

\* Repositories are of live projects, and of the projects of one domain one is live.
RowsLive == \A r \in Repo : row[r].present => site[row[r].project].st = "live"
OneLive ==
  \A p, q \in Project :
    p # q /\ DirOf[p] = DirOf[q] => ~(site[p].st = "live" /\ site[q].st = "live")
SitesInv == RowsLive /\ OneLive

\* A step that brings no site to life and no row.
LEMMA SitesKept ==
  ASSUME TypeOK, TypeOK', SitesInv,
         \A s \in Site : site'[s].st = site[s].st,
         \A r \in Repo : row'[r].present => row[r].present /\ row'[r].project = row[r].project
  PROVE  SitesInv'
  <1>1. \A p \in Project : site'[p].st = site[p].st
    BY DEF Project
  <1>2. \A r \in Repo : row'[r].present => row'[r].project \in Project
    BY DEF TypeOK, RowOK, WellFormedRow
  <1>3. RowsLive'
    BY <1>1, <1>2 DEF SitesInv, RowsLive
  <1>4. OneLive'
    BY <1>1 DEF SitesInv, OneLive
  <1> QED BY <1>3, <1>4 DEF SitesInv

LEMMA SameSites ==
  ASSUME TypeOK,
         \/ UNCHANGED site
         \/ \E s, r, by : SetSiteMapping(s, r, by)
         \/ \E r : ClearRepoMapping(r)
  PROVE  \A s \in Site : site'[s].st = site[s].st
  <1>1. ASSUME NEW s, NEW r, NEW by, SetSiteMapping(s, r, by)
        PROVE  \A t \in Site : site'[t].st = site[t].st
    BY <1>1 DEF SetSiteMapping, TypeOK, SiteRow
  <1>2. ASSUME NEW r, ClearRepoMapping(r)
        PROVE  \A t \in Site : site'[t].st = site[t].st
    BY <1>2 DEF ClearRepoMapping, TypeOK, SiteRow
  <1> QED BY <1>1, <1>2

LEMMA SameRows ==
  ASSUME TypeOK,
         \/ UNCHANGED row
         \/ \E r, c, st : UpdateRepoDeploy(r, c, st)
         \/ \E r : DeleteRepo(r)
         \/ \E r, b : row' = [row EXCEPT ![r].branch = b]
         \/ SweepStale
  PROVE  \A r \in Repo : row'[r].present => row[r].present /\ row'[r].project = row[r].project
  <1>1. ASSUME NEW q, NEW c, NEW st, UpdateRepoDeploy(q, c, st)
        PROVE  \A r \in Repo : row'[r].present => row[r].present /\ row'[r].project = row[r].project
    BY <1>1 DEF UpdateRepoDeploy, TypeOK, RowOK, RepoRow
  <1>2. ASSUME NEW q, DeleteRepo(q)
        PROVE  \A r \in Repo : row'[r].present => row[r].present /\ row'[r].project = row[r].project
    BY <1>2 DEF DeleteRepo, NoRow, TypeOK, RowOK, RepoRow
  <1>3. ASSUME NEW q, NEW b, row' = [row EXCEPT ![q].branch = b]
        PROVE  \A r \in Repo : row'[r].present => row[r].present /\ row'[r].project = row[r].project
    BY <1>3 DEF TypeOK, RowOK, RepoRow
  <1>4. ASSUME SweepStale
        PROVE  \A r \in Repo : row'[r].present => row[r].present /\ row'[r].project = row[r].project
    BY <1>4 DEF SweepStale, TypeOK, RowOK, RepoRow
  <1> QED BY <1>1, <1>2, <1>3, <1>4

\* The foreign key and the UNIQUE domain.
LEMMA SitesStep ==
  ASSUME TypeOK, SitesInv, [Next]_vars
  PROVE  SitesInv'
  <1>0. TypeOK'
    BY NextTypeOK
  <1>1. ASSUME NEW w \in Worker, Continue(w) \/ RunPanic(w)
        PROVE  SitesInv'
    <2>1. \/ UNCHANGED site
          \/ \E s, r, by : SetSiteMapping(s, r, by)
      BY <1>1 DEF Continue, RunBegin, RunMark, RunPrepare, RunWipe, RunClone, RunFetch, RunReread,
                  RunPersist, RunStamp, RunBuild, RunOk, RunFail, RunFailWrite, RunPanic, RunEnd, db
    <2>2. \/ UNCHANGED row
          \/ \E r, c, st : UpdateRepoDeploy(r, c, st)
      BY <1>1 DEF Continue, RunBegin, RunMark, RunPrepare, RunWipe, RunClone, RunFetch, RunReread,
                  RunPersist, RunStamp, RunBuild, RunOk, RunFail, RunFailWrite, RunPanic, RunEnd, db
    <2> QED BY <1>0, <2>1, <2>2, SameSites, SameRows, SitesKept
  <1>2. ASSUME NEW h \in Handler, Arrive(h), ~\E p \in Project, r \in Repo, b \in Branch : LinkRepo(h, p, r, b)
        PROVE  SitesInv'
    <2>1. UNCHANGED site /\ (UNCHANGED row \/ \E r, b : row' = [row EXCEPT ![r].branch = b])
      BY <1>2 DEF Arrive, ClickActivate, ChangeBranch, ClickDeploy, UnlinkRepo, DeleteSite, MapSite, db
    <2> QED BY <1>0, <2>1, SameSites, SameRows, SitesKept
  <1>3. ASSUME NEW h \in Handler, NEW p \in Project, NEW r \in Repo, NEW b \in Branch, LinkRepo(h, p, r, b)
        PROVE  SitesInv'
    <2>1. /\ UNCHANGED site /\ site[p].st = "live"
          /\ row' = [row EXCEPT ![r] = [present |-> TRUE, project |-> p, branch |-> b,
                                        commit |-> None, status |-> "linked"]]
      BY <1>3 DEF LinkRepo
    <2>2. row'[r].project = p /\ \A q \in Repo \ {r} : row'[q] = row[q]
      BY <2>1 DEF TypeOK, RowOK
    <2> QED BY <2>1, <2>2 DEF SitesInv, RowsLive, OneLive
  <1>4. ASSUME NEW h \in Handler, Proceed(h), ~DeleteRows(h)
        PROVE  SitesInv'
    <2>1. \/ UNCHANGED site
          \/ \E s, r, by : SetSiteMapping(s, r, by)
          \/ \E r : ClearRepoMapping(r)
      BY <1>4 DEF Proceed, Lookup, MarkBusy, Enqueue, GenerateKey, UnlinkClear, UnlinkDrop, MapPersist, db
    <2>2. \/ UNCHANGED row
          \/ \E r, c, st : UpdateRepoDeploy(r, c, st)
          \/ \E r : DeleteRepo(r)
      BY <1>4 DEF Proceed, Lookup, MarkBusy, Enqueue, GenerateKey, UnlinkClear, UnlinkDrop, MapPersist, db
    <2> QED BY <1>0, <2>1, <2>2, SameSites, SameRows, SitesKept
  <1>5. ASSUME NEW h \in Handler, DeleteRows(h)
        PROVE  SitesInv'
    <2> DEFINE s == hd[h].site
    <2>1. CASE UNCHANGED <<site, row>>
      BY <1>0, <2>1, SitesKept
    <2>2. CASE /\ site' = [t \in Site |-> IF t \in Family(s) /\ site[t].st = "live"
                                          THEN [NoSite EXCEPT !.st = "gone"] ELSE site[t]]
               /\ row' = [r \in Repo |-> IF r \in RepoOf(s) THEN NoRow ELSE row[r]]
      <3>1. \A t \in Site : site'[t].st = "live" => site[t].st = "live"
        BY <2>2 DEF NoSite
      <3>2. \A t \in Project : site'[t].st = site[t].st \/ t = s
        BY <2>2 DEF Project, Family
      <3>3. \A r \in Repo : row'[r].present => row'[r] = row[r] /\ row[r].project # s
        BY <2>2 DEF RepoOf, NoRow
      <3>4. \A r \in Repo : row[r].present => row[r].project \in Project
        BY DEF TypeOK, RowOK, WellFormedRow
      <3>5. RowsLive'
        BY <3>2, <3>3, <3>4 DEF SitesInv, RowsLive
      <3>6. OneLive'
        BY <3>1 DEF SitesInv, OneLive, Project
      <3> QED BY <3>5, <3>6 DEF SitesInv
    <2> QED BY <1>5, <2>1, <2>2 DEF DeleteRows
  <1>6. ASSUME NEW s \in Site, CreateSite(s)
        PROVE  SitesInv'
    <2>1. /\ site[s].st = "unborn" /\ UNCHANGED row
          /\ (MainOf[s] = s => \A t \in Site : DirOf[t] = DirOf[s] => site[t].st # "live")
          /\ site' = [site EXCEPT ![s].st = "live"]
      BY <1>6 DEF CreateSite
    <2>2. site'[s].st = "live" /\ \A t \in Site \ {s} : site'[t] = site[t]
      BY <2>1 DEF TypeOK, SiteRow
    <2>3. RowsLive'
      <3>1. \A r \in Repo : row[r].present => row[r].project \in Project
        BY DEF TypeOK, RowOK, WellFormedRow
      <3> QED BY <2>1, <2>2, <3>1 DEF SitesInv, RowsLive, Project
    <2>4. OneLive'
      BY <2>1, <2>2 DEF SitesInv, OneLive, Project
    <2> QED BY <2>3, <2>4 DEF SitesInv
  <1>7. ASSUME Crash \/ Startup \/ UNCHANGED vars \/ \E b \in Branch : Push(b)
        PROVE  SitesInv'
    <2>1. UNCHANGED site /\ (UNCHANGED row \/ SweepStale)
      BY <1>7 DEF Crash, Startup, Push, vars, db
    <2> QED BY <1>0, <2>1, SameSites, SameRows, SitesKept
  <1> QED BY <1>1, <1>2, <1>3, <1>4, <1>5, <1>6, <1>7 DEF Next

LEMMA SitesAlways == Spec => []SitesInv
  <1>1. Init => SitesInv
    BY DEF Init, SitesInv, RowsLive, OneLive, NoRow, NoSite, Project
  <1> QED BY <1>1, SitesStep, TypeCorrect, PTL DEF Spec

\* Only a live project comes to have a request or a job.
LEMMA EngagedBegins ==
  ASSUME TypeOK, SitesInv, [Next]_vars, NEW p \in Project, Engaged(p)'
  PROVE  Engaged(p) \/ site[p].st = "live"
  <1>1. ASSUME NEW w \in Worker, JobStep(w)
        PROVE  Engaged(p)
    BY <1>1 DEF JobStep, Engaged, jobs
  <1>2. ASSUME NEW w \in Worker, EndStep(w)
        PROVE  Engaged(p)
    <2>1. UNCHANGED hd /\ (running'[p] => running[p])
      <3>1. CASE p = wk[w].project
        BY <1>2, <3>1 DEF EndStep
      <3>2. CASE p # wk[w].project
        BY <1>2, <3>2 DEF EndStep
      <3> QED BY <3>1, <3>2
    <2> QED BY <2>1 DEF Engaged
  <1>3. ASSUME NEW h \in Handler, QueueStep(h)
        PROVE  Engaged(p)
    <2>1. /\ hd[h].pc = "enqueue" /\ hd'[h].pc = "idle"
          /\ \A i \in Handler \ {h} : hd'[i] = hd[i]
          /\ (p # hd[h].site => running'[p] = running[p])
      BY <1>3 DEF QueueStep
    <2>2. CASE p = hd[h].site
      BY <2>1, <2>2 DEF Engaged
    <2>3. CASE p # hd[h].site
      BY <2>1, <2>3 DEF Engaged
    <2> QED BY <2>2, <2>3
  <1>4. ASSUME NEW h \in Handler, RequestStep(h)
        PROVE  Engaged(p) \/ site[p].st = "live"
    <2>1. UNCHANGED running /\ \A i \in Handler \ {h} : hd'[i] = hd[i]
      BY <1>4 DEF RequestStep, jobs
    <2>2. CASE Engaged(p)
      BY <2>2
    <2>3. CASE ~Engaged(p)
      <3>1. hd'[h].pc \in {"mark", "enqueue"} /\ hd'[h].site = p
        BY <2>1, <2>3 DEF Engaged
      <3>2. ~(hd[h].pc = "mark" /\ hd[h].site = p)
        BY <2>3 DEF Engaged
      <3>3. Finds(hd[h], hd'[h])
        BY <1>4, <3>1, <3>2 DEF RequestStep, Asks, Links, Marks, Leaves
      <3>4. PICK r \in Repo : row[r].present /\ row[r].project = p
        BY <3>1, <3>3 DEF Finds
      <3> QED BY <3>4 DEF SitesInv, RowsLive
    <2> QED BY <2>2, <2>3
  <1>5. CASE Crash
    <2>1. ~running'[p] /\ \A h \in Handler : hd'[h].pc = "idle"
      BY <1>5 DEF Crash, NoHandling
    <2> QED BY <2>1 DEF Engaged
  <1>6. CASE Startup \/ OutsideStep
    BY <1>6 DEF Startup, OutsideStep, Engaged, jobs
  <1> QED BY <1>1, <1>2, <1>3, <1>4, <1>5, <1>6, StepKinds, Enqueues, Ends

\* Of the projects of one domain one at a time has requests or jobs.
ApartInv ==
  \A p, q \in Project : p # q /\ DirOf[p] = DirOf[q] => ~(Engaged(p) /\ Engaged(q))

LEMMA ApartStep ==
  ASSUME TypeOK, SitesInv, RecreatedIdle, ApartInv, [Next]_vars
  PROVE  ApartInv'
  <1> SUFFICES ASSUME NEW p \in Project, NEW q \in Project, p # q, DirOf[p] = DirOf[q],
                      Engaged(p)', Engaged(q)'
               PROVE  FALSE
    BY DEF ApartInv
  <1>1. (Engaged(p) \/ site[p].st = "live") /\ (Engaged(q) \/ site[q].st = "live")
    BY EngagedBegins
  <1>2. ~(site[p].st = "live" /\ Engaged(q)) /\ ~(site[q].st = "live" /\ Engaged(p))
    BY DEF RecreatedIdle
  <1> QED BY <1>1, <1>2 DEF ApartInv, SitesInv, OneLive

\* "Two concurrent git jobs there would corrupt it" (repoJob): as long as a domain is
\* created anew only once the requests and jobs of the site it had before are over, one
\* job at a time works in a checkout directory, whatever else is deleted, unlinked,
\* created and asked for meanwhile.  Jobs of projects deleted and made anew do share
\* directories here; the premise excludes the one overlap that breaks it.
THEOREM AtMostOneRunPerCheckout == Spec /\ []RecreatedIdle => []OneRunPerCheckout
  <1>1. Init => ApartInv
    BY DEF Init, ApartInv, Engaged, NoHandling
  <1>2. TypeOK /\ JobsInv /\ ApartInv => OneRunPerCheckout
    <2> SUFFICES ASSUME TypeOK, JobsInv, ApartInv, NEW v \in Worker, NEW w \in Worker,
                        Active(v), Active(w), DirOf[wk[v].project] = DirOf[wk[w].project]
                 PROVE  v = w
      BY DEF OneRunPerCheckout
    <2>1. wk[v].project \in Project /\ wk[w].project \in Project
      BY AtWork
    <2>2. Engaged(wk[v].project) /\ Engaged(wk[w].project)
      BY DEF JobsInv, Engaged
    <2>3. wk[v].project = wk[w].project
      BY <2>1, <2>2 DEF ApartInv
    <2> QED BY <2>3 DEF JobsInv, OneRunPerProject
  <1>3. TypeOK /\ SitesInv /\ RecreatedIdle /\ ApartInv /\ [Next]_vars => ApartInv'
    BY ApartStep
  <1> QED BY <1>1, <1>2, <1>3, TypeCorrect, JobsMapExact, SitesAlways, PTL DEF Spec

\* Between its git step and the recording of its outcome, a deploy or activation
\* finds the commit it is going to record in its checkout, under the same premise.
THEOREM CommitStaysCheckedOut == Spec /\ []RecreatedIdle => []CommitIsCheckedOut
  <1>1. Init => CommitIsCheckedOut
    BY DEF Init, NoWork, CommitIsCheckedOut
  <1>2. OneRunPerCheckout /\ TypeOK /\ CommitIsCheckedOut /\ [Next]_vars => CommitIsCheckedOut'
    BY StepCommits
  <1> QED BY <1>1, <1>2, AtMostOneRunPerCheckout, TypeCorrect, PTL DEF Spec

-----------------------------------------------------------------------------
(* A busy status has somebody to resolve it *)

\* Resolving, of one goroutine.
Resolves(x, r) ==
  IF x.pc \in {"fail", "failwrite"} THEN x.blame = r
                                    ELSE x.pc \notin {"off", "end"} /\ x.req.repo = r

LEMMA ResolvingIs ==
  ASSUME NEW r
  PROVE  Resolving(r) <=> \/ ~up
                          \/ \E w \in Worker : Resolves(wk[w], r)
                          \/ \E p \in Project : next[p] # None /\ next[p].repo = r
                          \/ \E h \in Handler : hd[h].pc = "enqueue" /\ hd[h].repo = r
  BY DEF Resolving, Resolves, Active

LEMMA ResolvingThen ==
  ASSUME NEW r,
         \/ ~up'
         \/ \E w \in Worker : Resolves(wk'[w], r)
         \/ \E p \in Project : next'[p] # None /\ next'[p].repo = r
         \/ \E h \in Handler : hd'[h].pc = "enqueue" /\ hd'[h].repo = r
  PROVE  Resolving(r)'
  BY DEF Resolving, Resolves, Active

\* LinksApart: a project with a repository is concerned with no other.
LEMMA NamedIsLinked ==
  ASSUME LinksApart, NEW r \in Repo, NEW p, row[r].present, row[r].project = p,
         NEW q \in Concerned(p)
  PROVE  q = r
  BY DEF LinksApart

LEMMA JobBacked ==
  ASSUME TypeOK, NamesInv, LinksApart, BusyIsBacked, NEW w \in Worker, JobStep(w),
         NEW r \in Repo, row'[r].present, row'[r].status \in Busy
  PROVE  Resolving(r)'
  <1> DEFINE g == wk[w]
             x == wk'[w]
  <1>1. row[r].present
    BY JobRows
  <1>2. CASE JobShows(g, x) /\ r = g.req.repo
    <2>1. Resolves(x, r)
      BY <1>2 DEF JobStep, JobShows, Resolves
    <2> QED BY <2>1, ResolvingThen
  <1>3. CASE ~(JobShows(g, x) /\ r = g.req.repo)
    <2>1. row[r].status \in Busy /\ ~(JobSucceeds(g, x) /\ r = g.req.repo)
          /\ ~(g.pc = "failwrite" /\ r = g.blame)
      BY <1>1, <1>3, JobRows DEF Busy
    <2>2. Resolving(r)
      BY <1>1, <2>1 DEF BusyIsBacked
    <2>3. CASE Resolves(g, r)
      <3>1. CASE JobFails(g, x)
        <4>1. g.req.repo = r /\ Active(w) /\ g.project \in Project /\ g.first \in Repo
          BY <2>3, <3>1, AtWork DEF Resolves, JobFails, Active
        <4>2. row[r].project = g.project /\ g.blame = r
          BY <1>1, <3>1, <4>1 DEF NamesInv, WorkNames, Belongs, JobFails, Active
        <4>3. g.first \in Concerned(g.project)
          BY <4>1 DEF Concerned
        <4>4. g.first = r
          BY <1>1, <4>2, <4>3, NamedIsLinked
        <4>5. x.pc = "fail" /\ x.blame = r
          BY <3>1, <4>2, <4>4 DEF JobStep, JobFails
        <4> QED BY <4>5, ResolvingThen DEF Resolves
      <3>2. CASE ~JobFails(g, x)
        <4>1. x.blame = g.blame /\ x.req = g.req
          BY <3>2 DEF JobStep
        <4>2. Resolves(x, r)
          BY <1>1, <2>1, <2>3, <3>2, <4>1
             DEF JobStep, Resolves, JobBegins, JobShows, JobGoesOn, JobFetches, JobSucceeds, JobReports
        <4> QED BY <4>2, ResolvingThen
      <3> QED BY <3>1, <3>2
    <2>4. CASE ~Resolves(g, r)
      <3>1. /\ \A v \in Worker \ {w} : wk'[v] = wk[v]
            /\ UNCHANGED <<up, next, hd>>
        BY DEF JobStep, jobs
      <3>2. (\E v \in Worker : Resolves(wk[v], r)) => \E v \in Worker : Resolves(wk'[v], r)
        BY <2>4, <3>1
      <3> QED BY <2>2, <3>1, <3>2, ResolvingIs, ResolvingThen
    <2> QED BY <2>3, <2>4
  <1> QED BY <1>2, <1>3

\* Everything that could resolve a busy status is still there.
LEMMA StillBacked ==
  ASSUME NEW r, Resolving(r), UNCHANGED <<up, wk, next>>,
         \A h \in Handler : hd[h].pc = "enqueue" => hd'[h] = hd[h]
  PROVE  Resolving(r)'
  BY ResolvingIs, ResolvingThen

LEMMA RequestBacked ==
  ASSUME TypeOK, BusyIsBacked, NEW h \in Handler, RequestStep(h),
         NEW r \in Repo, row'[r].present, row'[r].status \in Busy
  PROVE  Resolving(r)'
  <1> DEFINE g == hd[h]
             x == hd'[h]
  <1>1. /\ UNCHANGED <<up, wk, next>>
        /\ \A i \in Handler : hd[i].pc = "enqueue" => hd'[i] = hd[i]
    BY DEF RequestStep, jobs, Asks, Links, Finds, Marks, Leaves
  <1>2. CASE row[r].present /\ row[r].status \in Busy
    BY <1>1, <1>2, StillBacked DEF BusyIsBacked
  <1>3. CASE Asks(g, x)
    <2>1. ASSUME NEW b, row' = [row EXCEPT ![x.repo].branch = b]
          PROVE  row[r].present /\ row[r].status \in Busy
      <3> DEFINE y == [row[x.repo] EXCEPT !.branch = b]
      <3>1. y.present = row[x.repo].present /\ y.status = row[x.repo].status
        BY <1>3 DEF Asks, TypeOK, RowOK, RepoRow
      <3>2. row' = [row EXCEPT ![x.repo] = y]
        BY <2>1
      <3> HIDE DEF y
      <3> QED BY <3>1, <3>2 DEF TypeOK, RowOK
    <2> QED BY <1>2, <1>3, <2>1 DEF Asks
  <1>4. CASE Links(g, x)
    <2>1. PICK p \in Project, b \in Branch :
            row' = [row EXCEPT ![x.repo] = [present |-> TRUE, project |-> p, branch |-> b,
                                            commit |-> None, status |-> "linked"]]
      BY <1>4 DEF Links
    <2>2. r # x.repo
      BY <1>4, <2>1 DEF Links, TypeOK, RowOK, Busy
    <2>3. row'[r] = row[r]
      BY <1>4, <2>1, <2>2 DEF Links, TypeOK, RowOK
    <2> QED BY <1>2, <2>3
  <1>5. CASE Finds(g, x)
    BY <1>2, <1>5 DEF Finds
  <1>6. CASE Marks(g, x)
    <2>1. g.repo \in Repo
      BY <1>6, AtHandling DEF Marks, WellFormedHandling
    <2>2. CASE r = g.repo
      BY <1>6, <2>2, ResolvingThen DEF Marks
    <2>3. CASE r # g.repo
      <3>1. row'[r].present = row[r].present /\ row'[r].status = row[r].status
        BY <1>6, <2>1, <2>3, UpdatesRow DEF Marks
      <3> QED BY <1>2, <3>1
    <2> QED BY <2>2, <2>3
  <1>7. CASE Leaves(g, x)
    <2>1. row'[r] = row[r]
      BY <1>7 DEF Leaves, NoRow
    <2> QED BY <1>2, <2>1
  <1> QED BY <1>3, <1>4, <1>5, <1>6, <1>7 DEF RequestStep

LEMMA BeganResolves ==
  ASSUME NEW x, NEW p, NEW q, NEW f, Began(x, p, q, f)
  PROVE  Resolves(x, q.repo)
  BY DEF Began, Resolves

LEMMA QueueBacked ==
  ASSUME TypeOK, NamesInv, LinksApart, NEW h \in Handler, QueueStep(h),
         NEW r \in Repo, row[r].present, Resolving(r)
  PROVE  Resolving(r)'
  <1> DEFINE p == hd[h].site
             q == [kind |-> hd[h].kind, repo |-> hd[h].repo]
  <1>1. /\ p \in Project /\ q \in Request /\ q # None /\ q.repo = hd[h].repo
        /\ hd[h].pc = "enqueue" /\ UNCHANGED up
        /\ \A i \in Handler \ {h} : hd'[i] = hd[i]
        /\ \A s \in Project \ {p} : next'[s] = next[s]
    BY NoneAssumption DEF QueueStep
  <1>2. \/ next'[p] = q /\ UNCHANGED wk
        \/ /\ next'[p] = next[p]
           /\ \E w \in Worker : /\ wk[w].pc = "off" /\ Began(wk'[w], p, q, q.repo)
                                /\ \A v \in Worker \ {w} : wk'[v] = wk[v]
    BY DEF QueueStep
  <1> HIDE DEF q
  <1>3. CASE q.repo = r
    BY <1>1, <1>2, <1>3, BeganResolves, ResolvingThen
  <1>4. CASE q.repo # r
    <2>1. (\E w \in Worker : Resolves(wk[w], r)) => \E w \in Worker : Resolves(wk'[w], r)
      BY <1>2 DEF Resolves
    <2>2. ~(next[p] # None /\ next[p].repo = r)
      <3> SUFFICES ASSUME next[p] # None, next[p].repo = r PROVE FALSE
        OBVIOUS
      <3>1. row[r].project = p
        BY <1>1 DEF NamesInv, Belongs
      <3>2. hd[h].repo \in Concerned(p)
        BY <1>1 DEF Concerned, Request, q
      <3> QED BY <1>1, <1>4, <3>1, <3>2, NamedIsLinked
    <2>3. \A i \in Handler : hd[i].pc = "enqueue" /\ hd[i].repo = r => i # h
      BY <1>1, <1>4
    <2> QED BY <1>1, <2>1, <2>2, <2>3, ResolvingIs, ResolvingThen
  <1> QED BY <1>3, <1>4

LEMMA EndBacked ==
  ASSUME NEW w \in Worker, EndStep(w), NEW r, Resolving(r)
  PROVE  Resolving(r)'
  <1> DEFINE p == wk[w].project
  <1>1. CASE next[p] # None /\ next[p].repo = r
    BY <1>1, BeganResolves, ResolvingThen DEF EndStep
  <1>2. CASE ~(next[p] # None /\ next[p].repo = r)
    <2>1. (\E v \in Worker : Resolves(wk[v], r)) => \E v \in Worker : Resolves(wk'[v], r)
      BY DEF EndStep, Resolves
    <2> QED BY <1>2, <2>1, ResolvingIs, ResolvingThen DEF EndStep
  <1> QED BY <1>1, <1>2

LEMMA BackedStep ==
  ASSUME TypeOK, NamesInv, LinksApart, BusyIsBacked, [Next]_vars
  PROVE  BusyIsBacked'
  <1> SUFFICES ASSUME NEW r \in Repo, row'[r].present, row'[r].status \in Busy
               PROVE  Resolving(r)'
    BY DEF BusyIsBacked
  <1>1. ASSUME UNCHANGED row PROVE row[r].present /\ Resolving(r)
    BY <1>1 DEF BusyIsBacked
  <1>2. ASSUME NEW h \in Handler, Enqueue(h) PROVE Resolving(r)'
    <2>1. QueueStep(h)
      BY <1>2, Enqueues
    <2>2. UNCHANGED row
      BY <2>1 DEF QueueStep
    <2> QED BY <1>1, <2>1, <2>2, QueueBacked
  <1>3. ASSUME NEW w \in Worker, RunEnd(w) PROVE Resolving(r)'
    <2>1. EndStep(w)
      BY <1>3, Ends
    <2>2. UNCHANGED row
      BY <2>1 DEF EndStep
    <2> QED BY <1>1, <2>1, <2>2, EndBacked
  <1>4. CASE Crash
    BY <1>4, ResolvingThen DEF Crash
  <1>5. CASE Startup
    BY <1>5 DEF Startup, SweepStale, TypeOK, RowOK, RepoRow, Busy
  <1>6. CASE OutsideStep
    BY <1>1, <1>6, StillBacked DEF OutsideStep, jobs
  <1> QED BY <1>2, <1>3, <1>4, <1>5, <1>6, StepKinds, JobBacked, RequestBacked

\* "Busy statuses are only ever resolved by an in-memory background job"
\* (ResetStaleRepoDeploys), and there always is one: as long as no project is linked
\* anew while work for its former repository is under way.  Otherwise a panic is
\* recorded on the repository its goroutine was started for, and a request for the
\* former repository can take the place of the new one's follow-up.
THEOREM BusyStaysBacked == Spec /\ []LinksApart => []BusyIsBacked
  <1>1. Init => BusyIsBacked
    BY DEF Init, BusyIsBacked, NoRow
  <1> QED BY <1>1, BackedStep, TypeCorrect, NamesAlways, PTL DEF Spec

-----------------------------------------------------------------------------
(* The request made last, and what its run is going to show *)

\* The follow-up, or else the run, is the request made last.
LastInv ==
  /\ \A p \in Project : next[p] # None => asked[p].req = next[p]
  /\ \A w \in Worker :
       Active(w) /\ next[wk[w].project] = None => asked[wk[w].project].req = wk[w].req

LEMMA LastStep ==
  ASSUME TypeOK, JobsInv, LastInv, [Next]_vars
  PROVE  LastInv'
  <1>1. ASSUME NEW w \in Worker, JobStep(w) PROVE LastInv'
    BY <1>1 DEF JobStep, LastInv, Active, jobs
  <1>2. ASSUME UNCHANGED <<jobs, wk, asked>> PROVE LastInv'
    BY <1>2 DEF LastInv, Active, jobs
  <1>3. ASSUME NEW h \in Handler, QueueStep(h) PROVE LastInv'
    <2> DEFINE p == hd[h].site
               q == [kind |-> hd[h].kind, repo |-> hd[h].repo]
    <2>1. /\ p \in Project /\ q # None /\ asked'[p].req = q
          /\ \A s \in Project \ {p} : asked'[s] = asked[s] /\ next'[s] = next[s]
      BY <1>3, NoneAssumption DEF QueueStep
    <2>2. \/ running[p] /\ next'[p] = q /\ UNCHANGED wk
          \/ /\ ~running[p] /\ next'[p] = next[p]
             /\ \E w \in Worker : /\ wk[w].pc = "off" /\ Began(wk'[w], p, q, q.repo)
                                  /\ \A v \in Worker \ {w} : wk'[v] = wk[v]
      BY <1>3 DEF QueueStep
    <2>3. next'[p] # None => next'[p] = q
      BY <2>1, <2>2 DEF JobsInv
    <2> HIDE DEF q
    <2>4. ASSUME NEW v \in Worker, wk'[v].pc # "off", next'[wk'[v].project] = None
          PROVE  asked'[wk'[v].project].req = wk'[v].req
      <3>1. CASE wk'[v] = wk[v]
        <4>1. Active(v) /\ wk[v].project \in Project /\ running[wk[v].project]
          BY <2>4, <3>1, AtWork DEF Active, JobsInv
        <4>2. wk[v].project # p
          BY <2>1, <2>2, <2>4, <3>1, <4>1
        <4> QED BY <2>1, <2>4, <3>1, <4>1, <4>2 DEF LastInv
      <3>2. CASE Began(wk'[v], p, q, q.repo)
        BY <2>1, <3>2 DEF Began
      <3> QED BY <2>2, <3>1, <3>2
    <2> QED BY <2>1, <2>3, <2>4 DEF LastInv, Active
  <1>4. ASSUME NEW w \in Worker, EndStep(w) PROVE LastInv'
    <2> DEFINE p == wk[w].project
    <2>1. /\ p \in Project /\ Active(w) /\ next'[p] = None /\ UNCHANGED asked
          /\ \A v \in Worker \ {w} : wk'[v] = wk[v]
          /\ \A s \in Project \ {p} : next'[s] = next[s]
      BY <1>4 DEF EndStep, Active
    <2>2. ASSUME NEW v \in Worker, wk'[v].pc # "off", next'[wk'[v].project] = None
          PROVE  asked'[wk'[v].project].req = wk'[v].req
      <3>1. CASE v = w
        BY <1>4, <2>1, <2>2, <3>1 DEF EndStep, Began, LastInv
      <3>2. CASE v # w
        <4>1. Active(v) /\ wk[v].project \in Project /\ wk'[v] = wk[v]
          BY <2>1, <2>2, <3>2, AtWork DEF Active
        <4>2. wk[v].project # p
          BY <2>1, <3>2, <4>1 DEF JobsInv, OneRunPerProject
        <4> QED BY <2>1, <2>2, <4>1, <4>2 DEF LastInv
      <3> QED BY <3>1, <3>2
    <2> QED BY <2>1, <2>2 DEF LastInv, Active
  <1>5. CASE Crash
    <2>1. (\A w \in Worker : wk'[w].pc = "off") /\ \A p \in Project : next'[p] = None
      BY <1>5 DEF Crash, NoWork
    <2> QED BY <2>1 DEF LastInv, Active
  <1>6. ASSUME NEW h \in Handler, RequestStep(h) PROVE LastInv'
    BY <1>2, <1>6 DEF RequestStep
  <1>7. CASE Startup \/ OutsideStep
    BY <1>2, <1>7 DEF Startup, OutsideStep, ghost
  <1> QED BY <1>1, <1>3, <1>4, <1>5, <1>6, <1>7, StepKinds, Enqueues, Ends

LEMMA LastAlways == Spec => []LastInv
  <1>1. Init => LastInv
    BY DEF Init, LastInv, Active, NoWork
  <1> QED BY <1>1, LastStep, TypeCorrect, JobsMapExact, PTL DEF Spec

\* A row whose branch may have been changed, or that was made, by a request that has
\* not queued its run yet.
Pending(r) ==
  \E h \in Handler : /\ hd[h].repo = r /\ hd[h].kind = "activate"
                     /\ hd[h].pc \in {"lookup", "mark", "enqueue"}
Settled(r) == row[r].present /\ ~Pending(r)

\* A step after which a row is settled, and that leaves its branch alone and shows
\* no success in it.
SettledAsBefore(r) ==
  /\ Settled(r)
  /\ row'[r].project = row[r].project /\ row'[r].branch = row[r].branch
  /\ row'[r].status = "ok" => row[r].status = "ok"

LEMMA PendingStays ==
  ASSUME NEW r, Pending(r),
         \A h \in Handler : /\ hd[h].repo = r /\ hd[h].kind = "activate"
                            /\ hd[h].pc \in {"lookup", "mark", "enqueue"}
                            => /\ hd'[h].repo = r /\ hd'[h].kind = "activate"
                               /\ hd'[h].pc \in {"lookup", "mark", "enqueue"}
  PROVE  Pending(r)'
  BY DEF Pending

LEMMA RequestSettled ==
  ASSUME TypeOK, NEW h \in Handler, RequestStep(h), NEW r \in minted, Settled(r)'
  PROVE  SettledAsBefore(r)
  <1> DEFINE g == hd[h]
             x == hd'[h]
  <1>1. /\ row'[r].present /\ ~Pending(r)' /\ r \in Repo
        /\ \A i \in Handler \ {h} : hd'[i] = hd[i]
    BY DEF Settled, RequestStep, TypeOK
  <1>2. CASE Asks(g, x)
    <2>1. x.repo # r
      BY <1>1, <1>2 DEF Asks, Pending
    <2>2. row'[r] = row[r]
      <3>1. ASSUME NEW b, row' = [row EXCEPT ![x.repo].branch = b] PROVE row'[r] = row[r]
        <4> DEFINE y == [row[x.repo] EXCEPT !.branch = b]
        <4>1. row' = [row EXCEPT ![x.repo] = y]
          BY <3>1
        <4> HIDE DEF y
        <4> QED BY <1>1, <2>1, <4>1 DEF TypeOK, RowOK
      <3> QED BY <1>2, <3>1 DEF Asks
    <2>3. ~Pending(r)
      BY <1>1, <1>2, PendingStays DEF Asks
    <2> QED BY <1>1, <2>2, <2>3 DEF SettledAsBefore, Settled
  <1>3. CASE Links(g, x)
    <2>1. row'[r] = row[r]
      BY <1>1, <1>3 DEF Links, TypeOK, RowOK
    <2>2. ~Pending(r)
      BY <1>1, <1>3, PendingStays DEF Links
    <2> QED BY <1>1, <2>1, <2>2 DEF SettledAsBefore, Settled
  <1>4. CASE Finds(g, x)
    <2>1. ~Pending(r)
      BY <1>1, <1>4, PendingStays DEF Finds
    <2> QED BY <1>1, <1>4, <2>1 DEF Finds, SettledAsBefore, Settled
  <1>5. CASE Marks(g, x)
    <2>1. ~Pending(r)
      BY <1>1, <1>5, PendingStays DEF Marks
    <2>2. g.repo \in Repo
      BY <1>5, AtHandling DEF Marks, WellFormedHandling
    <2>3. /\ row'[r].present = row[r].present /\ row'[r].project = row[r].project
          /\ row'[r].branch = row[r].branch
          /\ row'[r].status = "ok" => row[r].status = "ok"
      <3>1. PICK st \in Busy : \E c : UpdateRepoDeploy(g.repo, c, st)
        BY <1>5 DEF Marks
      <3>2. /\ row'[r].present = row[r].present /\ row'[r].project = row[r].project
            /\ row'[r].branch = row[r].branch /\ row'[r].status \in {row[r].status, st}
        <4>1. PICK c : UpdateRepoDeploy(g.repo, c, st)
          BY <3>1
        <4>2. \A q \in Repo :
                /\ row'[q].present = row[q].present /\ row'[q].project = row[q].project
                /\ row'[q].branch = row[q].branch
                /\ row'[q].status = IF q = g.repo /\ row[g.repo].present THEN st ELSE row[q].status
          BY <2>2, <4>1, UpdatesRow
        <4> QED BY <1>1, <4>2
      <3> QED BY <3>2 DEF Busy
    <2> QED BY <1>1, <2>1, <2>3 DEF SettledAsBefore, Settled
  <1>6. CASE Leaves(g, x)
    <2>1. row'[r] = row[r]
      BY <1>1, <1>6 DEF Leaves, NoRow
    <2>2. ~(g.pc \in {"lookup", "mark", "enqueue"} /\ g.kind = "activate" /\ g.repo = r)
      BY <1>1, <1>6, <2>1 DEF Leaves
    <2>3. ~Pending(r)
      BY <1>1, <2>2, PendingStays
    <2> QED BY <1>1, <2>1, <2>3 DEF SettledAsBefore, Settled
  <1> QED BY <1>2, <1>3, <1>4, <1>5, <1>6 DEF RequestStep

LEMMA OtherSettled ==
  ASSUME TypeOK, UNCHANGED hd, Startup \/ UNCHANGED row, NEW r \in Repo, Settled(r)'
  PROVE  SettledAsBefore(r)
  <1>1. ~Pending(r) /\ row'[r].present
    BY DEF Settled, Pending
  <1>2. CASE Startup
    BY <1>1, <1>2 DEF Startup, SweepStale, TypeOK, RowOK, RepoRow, SettledAsBefore, Settled
  <1> QED BY <1>1, <1>2 DEF SettledAsBefore, Settled

LEMMA JobSettled ==
  ASSUME TypeOK, NEW w \in Worker, JobStep(w), NEW r \in Repo, Settled(r)'
  PROVE  /\ Settled(r) /\ row'[r].project = row[r].project /\ row'[r].branch = row[r].branch
         /\ row'[r].status = "ok" =>
              row[r].status = "ok" \/ (JobSucceeds(wk[w], wk'[w]) /\ r = wk[w].req.repo)
  <1>1. ~Pending(r) /\ row'[r].present
    BY DEF Settled, Pending, JobStep
  <1>2. row'[r].status = "ok" =>
          row[r].status = "ok" \/ (JobSucceeds(wk[w], wk'[w]) /\ r = wk[w].req.repo)
    <2>1. ASSUME JobShows(wk[w], wk'[w]), r = wk[w].req.repo, row[r].present
          PROVE  row'[r].status # "ok"
      BY <2>1, UpdatesRow DEF JobShows, Busy
    <2> QED BY <1>1, <2>1, JobRows
  <1> QED BY <1>1, <1>2, JobRows DEF Settled

\* The request that queues a run settles its own repository only.
LEMMA QueueSettled ==
  ASSUME TypeOK, NamesInv, NEW h \in Handler, QueueStep(h), NEW p \in Project, p # hd[h].site,
         NEW r \in Repo, row[r].project = p, Settled(r)'
  PROVE  SettledAsBefore(r)
  <1>1. UNCHANGED row /\ hd[h].pc = "enqueue" /\ \A i \in Handler \ {h} : hd'[i] = hd[i]
    BY DEF QueueStep
  <1>2. row[r].present /\ ~Pending(r)'
    BY <1>1 DEF Settled
  <1>3. hd[h].repo # r
    BY <1>1, <1>2 DEF NamesInv, RequestNames, Belongs
  <1>4. ~Pending(r)
    BY <1>1, <1>2, <1>3, PendingStays
  <1> QED BY <1>1, <1>2, <1>4 DEF SettledAsBefore, Settled

\* Commit c is of branch b, at v or later.
Shows(c, b, v) == c # None /\ c.branch = b /\ c.v >= v

\* The last request was for a deploy or an activation of r.
Wants(p, r) == /\ asked[p].req # None /\ asked[p].req.repo = r
               /\ asked[p].req.kind \in {"deploy", "activate"}

\* The tip a request found is there to be fetched.
TipInv ==
  \A p \in Project, r \in Repo :
    Wants(p, r) /\ Settled(r) => tip[row[r].branch] >= asked[p].v

\* The run of a project that has no follow-up is on the branch of the row, and the
\* commit it is going to record, or has just recorded, is what was asked for.
RunShows(w) ==
  LET r == wk[w].req.repo
      p == wk[w].project
  IN /\ Active(w) /\ next[p] = None /\ wk[w].req.kind # "build" /\ Settled(r)
     => /\ wk[w].pc \notin {"begin", "fail", "failwrite", "end"} => wk[w].branch = row[r].branch
        /\ wk[w].pc \in Recording => Shows(wk[w].commit, row[r].branch, asked[p].v)
        /\ wk[w].pc = "end" /\ row[r].status = "ok"
           => Shows(checkout[DirOf[p]], row[r].branch, asked[p].v)

\* ... and so is the checkout of a project at rest.
RestInv ==
  \A p \in Project, r \in Repo :
    /\ ~running[p] /\ row[r].project = p /\ Wants(p, r) /\ Settled(r) /\ row[r].status = "ok"
    => Shows(checkout[DirOf[p]], row[r].branch, asked[p].v)

ShowsInv == TipInv /\ (\A w \in Worker : RunShows(w)) /\ RestInv

LEMMA WantsTypes ==
  ASSUME TypeOK, NEW p \in Project, NEW r, Wants(p, r)
  PROVE  asked[p].req \in Request /\ r \in Repo
  BY DEF TypeOK, HistoryOK, Wants, Request

\* A run without a follow-up is what its project wants.
LEMMA RunWanted ==
  ASSUME TypeOK, LastInv, NEW w \in Worker, Active(w), next[wk[w].project] = None,
         wk[w].req.kind # "build"
  PROVE  /\ Wants(wk[w].project, wk[w].req.repo)
         /\ asked[wk[w].project].req = wk[w].req
  BY AtWork, NoneAssumption DEF LastInv, Wants, Kind

\* A repository that is wanted is linked, if at all, to the project that wants it.
LEMMA WantedLinked ==
  ASSUME NamesInv, NEW p \in Project, NEW r, Wants(p, r)
  PROVE  r \in minted /\ (row[r].present => row[r].project = p)
  BY DEF NamesInv, Wants, Belongs

\* A job's step touches its own checkout only.
LEMMA OtherCheckouts ==
  ASSUME TypeOK, NEW w \in Worker, JobStep(w),
         NEW p \in Project, DirOf[p] # DirOf[wk[w].project]
  PROVE  checkout'[DirOf[p]] = checkout[DirOf[p]]
  <1>1. /\ wk[w].project \in Project /\ DirOf[p] \in Dir /\ DirOf[wk[w].project] \in Dir
        /\ DirOf[p] # DirOf[wk[w].project]
    BY AtWork, SiteAssumption DEF JobStep, Active, Project
  <1>2. \/ UNCHANGED checkout
        \/ \E c : checkout' = [checkout EXCEPT ![DirOf[wk[w].project]] = c]
    BY DEF JobStep, JobBegins, JobShows, JobGoesOn, JobFetches, JobSucceeds, JobFails, JobReports
  <1> QED BY <1>1, <1>2 DEF TypeOK

LEMMA JobTip ==
  ASSUME TypeOK, NEW w \in Worker, JobStep(w), TipInv
  PROVE  TipInv'
  <1>1. UNCHANGED <<asked, tip>>
    BY DEF JobStep
  <1> QED BY <1>1, JobSettled DEF TipInv, Wants

LEMMA JobRest ==
  ASSUME SitesInv, RecreatedIdle, TypeOK, JobsInv, NamesInv, NEW w \in Worker, JobStep(w), RestInv
  PROVE  RestInv'
  <1>1. /\ UNCHANGED <<asked, running>> /\ Active(w) /\ wk[w].project \in Project
        /\ running[wk[w].project]
    BY AtWork DEF JobStep, jobs, Active, JobsInv
  <1> SUFFICES ASSUME NEW p \in Project, NEW r \in Repo, ~running[p], row'[r].project = p,
                      Wants(p, r), Settled(r)', row'[r].status = "ok"
               PROVE  Shows(checkout'[DirOf[p]], row'[r].branch, asked[p].v)
    BY <1>1 DEF RestInv, Wants
  <1>3. Settled(r) /\ row[r].project = p /\ row'[r].branch = row[r].branch
    BY JobSettled
  <1>2. p # wk[w].project /\ checkout'[DirOf[p]] = checkout[DirOf[p]]
    <2>1. site[p].st = "live"
      BY <1>3 DEF Settled, SitesInv, RowsLive
    <2>2. p # wk[w].project /\ Engaged(wk[w].project)
      BY <1>1 DEF Engaged
    <2>3. DirOf[p] # DirOf[wk[w].project]
      BY <1>1, <2>1, <2>2 DEF RecreatedIdle
    <2> QED BY <2>2, <2>3, OtherCheckouts
  <1>4. r # wk[w].req.repo
    BY <1>1, <1>2, <1>3 DEF NamesInv, WorkNames, Belongs, Settled, Active
  <1>5. row[r].status = "ok"
    BY <1>4, JobSettled
  <1> QED BY <1>2, <1>3, <1>5 DEF RestInv

\* The other jobs.
LEMMA OtherJobShows ==
  ASSUME OneRunPerCheckout, TypeOK, JobsInv, NamesInv, NEW w \in Worker, JobStep(w),
         NEW v \in Worker, v # w, RunShows(v)
  PROVE  RunShows(v)'
  <1> DEFINE r == wk[v].req.repo
             p == wk[v].project
  <1>1. wk'[v] = wk[v] /\ UNCHANGED <<next, asked>> /\ Active(w)
    BY DEF JobStep, jobs, Active
  <1> SUFFICES ASSUME Active(v), next[p] = None, wk[v].req.kind # "build", Settled(r)'
               PROVE  /\ wk[v].pc \notin {"begin", "fail", "failwrite", "end"}
                           => wk[v].branch = row'[r].branch
                      /\ wk[v].pc \in Recording
                           => Shows(wk[v].commit, row'[r].branch, asked[p].v)
                      /\ wk[v].pc = "end" /\ row'[r].status = "ok"
                           => Shows(checkout'[DirOf[p]], row'[r].branch, asked[p].v)
    BY <1>1 DEF RunShows, Active
  <1>2. p \in Project /\ r \in Repo /\ p # wk[w].project
    BY <1>1, AtWork DEF JobsInv, OneRunPerProject
  <1>3. checkout'[DirOf[p]] = checkout[DirOf[p]]
    <2>1. DirOf[p] # DirOf[wk[w].project]
      BY <1>1 DEF OneRunPerCheckout
    <2> QED BY <1>2, <2>1, OtherCheckouts
  <1>4. Settled(r) /\ row[r].project = row'[r].project /\ row'[r].branch = row[r].branch
    BY <1>1, <1>2, JobSettled
  <1>5. r # wk[w].req.repo
    BY <1>1, <1>2, <1>4 DEF NamesInv, WorkNames, Belongs, Settled, Active
  <1>6. row'[r].status = "ok" => row[r].status = "ok"
    BY <1>1, <1>2, <1>5, JobSettled
  <1> QED BY <1>3, <1>4, <1>6 DEF RunShows

\* The job itself.
LEMMA JobShowsNext ==
  ASSUME TypeOK, NamesInv, LinksApart, LastInv, CommitIsCheckedOut, TipInv,
         NEW w \in Worker, JobStep(w), RunShows(w)
  PROVE  RunShows(w)'
  <1> DEFINE g == wk[w]
             x == wk'[w]
             r == g.req.repo
             p == g.project
  <1>1. /\ UNCHANGED <<next, asked, tip>> /\ Active(w)
        /\ x.project = p /\ x.req = g.req
        /\ p \in Project /\ r \in Repo /\ g.first \in Repo
    BY AtWork DEF JobStep, jobs, Active
  <1> SUFFICES ASSUME next[p] = None, g.req.kind # "build", Settled(r)'
               PROVE  /\ x.pc \notin {"begin", "fail", "failwrite", "end"}
                           => x.branch = row'[r].branch
                      /\ x.pc \in Recording => Shows(x.commit, row'[r].branch, asked[p].v)
                      /\ x.pc = "end" /\ row'[r].status = "ok"
                           => Shows(checkout'[DirOf[p]], row'[r].branch, asked[p].v)
    BY <1>1 DEF RunShows, Active
  <1>2. Settled(r) /\ row'[r].branch = row[r].branch /\ row[r].present
    BY <1>1, JobSettled DEF Settled
  <1>3. /\ g.pc \notin {"begin", "fail", "failwrite", "end"} => g.branch = row[r].branch
        /\ g.pc \in Recording => Shows(g.commit, row[r].branch, asked[p].v)
    BY <1>1, <1>2 DEF RunShows
  <1>4. CASE JobBegins(g, x)
    BY <1>2, <1>4 DEF JobBegins, Recording
  <1>5. CASE JobShows(g, x) \/ JobGoesOn(g, x)
    BY <1>2, <1>3, <1>5 DEF JobShows, JobGoesOn, Recording
  <1>6. CASE JobFetches(g, x)
    <2>1. x.branch = row'[r].branch /\ x.pc # "end"
      BY <1>2, <1>3, <1>6 DEF JobFetches
    <2>2. ASSUME x.pc \in Recording PROVE Shows(x.commit, row'[r].branch, asked[p].v)
      <3>1. x.commit = Tip(row[r].branch)
        BY <1>2, <2>1, <2>2, <1>6 DEF JobFetches, Recording
      <3>2. Wants(p, r)
        BY <1>1, RunWanted
      <3>3. tip[row[r].branch] >= asked[p].v
        BY <1>1, <1>2, <3>2 DEF TipInv
      <3>4. Tip(row[r].branch) # None
        <4>1. row[r].branch \in Branch
          BY <1>1, <1>2 DEF TypeOK, RowOK, WellFormedRow
        <4> QED BY <4>1, TipOK, NoneAssumption
      <3> QED BY <1>2, <3>1, <3>3, <3>4 DEF Shows, Tip
    <2> QED BY <2>1, <2>2
  <1>7. CASE JobSucceeds(g, x)
    <2>1. /\ x.pc = "end" /\ g.pc \in Recording /\ UNCHANGED checkout
      BY <1>7 DEF JobSucceeds, Recording
    <2>2. checkout[DirOf[p]] = g.commit
      BY <2>1 DEF CommitIsCheckedOut, Recording
    <2> QED BY <1>2, <1>3, <2>1, <2>2 DEF Recording
  <1>8. CASE JobFails(g, x)
    BY <1>8 DEF JobFails, Recording
  <1>9. CASE JobReports(g, x)
    <2>1. x.pc \in {"failwrite", "end"} /\ (x.pc = "end" => g.pc = "failwrite")
      BY <1>9 DEF JobReports
    <2>2. ASSUME g.pc = "failwrite" PROVE row'[r].status # "ok"
      <3>1. g.first \in Concerned(p)
        BY <1>1 DEF Concerned
      <3>2. row[r].project = p /\ g.blame \in {r, g.first}
        BY <1>1, <1>2 DEF NamesInv, WorkNames, Belongs, Active
      <3>3. g.blame = r
        BY <1>1, <1>2, <3>1, <3>2, NamedIsLinked
      <3>4. row'[r].status = "error"
        BY <1>1, <1>2, <2>2, <3>3, JobRows
      <3> QED BY <3>4
    <2> QED BY <2>1, <2>2 DEF Recording
  <1> QED BY <1>4, <1>5, <1>6, <1>7, <1>8, <1>9 DEF JobStep

\* A step that leaves the jobs, the checkouts and the history alone.
LEMMA QuietShows ==
  ASSUME TypeOK, NamesInv, ShowsInv, UNCHANGED <<checkout, jobs, wk, asked>>,
         tip' \in [Branch -> Nat], \A b \in Branch : tip'[b] >= tip[b],
         \A r \in Repo : Settled(r)' /\ r \in minted => SettledAsBefore(r)
  PROVE  ShowsInv'
  <1>1. \A p \in Project, r \in Repo : Wants(p, r)' => Wants(p, r) /\ r \in minted
    BY WantedLinked DEF Wants
  <1>2. TipInv'
    <2> SUFFICES ASSUME NEW p \in Project, NEW r \in Repo, Wants(p, r)', Settled(r)'
                 PROVE  tip'[row'[r].branch] >= asked[p].v
      BY DEF TipInv
    <2>1. Wants(p, r) /\ SettledAsBefore(r)
      BY <1>1
    <2>2. row[r].branch \in Branch /\ asked[p].v \in Nat /\ tip \in [Branch -> Nat]
      BY <2>1 DEF SettledAsBefore, Settled, TypeOK, RowOK, WellFormedRow, HistoryOK
    <2>3. tip[row[r].branch] >= asked[p].v
      BY <2>1 DEF TipInv, ShowsInv, SettledAsBefore
    <2>4. tip'[row[r].branch] >= tip[row[r].branch]
      BY <2>2
    <2>5. tip'[row[r].branch] >= asked[p].v
      BY <2>2, <2>3, <2>4
    <2> QED BY <2>1, <2>5 DEF SettledAsBefore
  <1>3. ASSUME NEW w \in Worker PROVE RunShows(w)'
    <2> DEFINE r == wk[w].req.repo
    <2>1. Active(w) => r \in Repo /\ r \in minted
      BY AtWork DEF NamesInv, WorkNames, Belongs, Active
    <2>2. Active(w) /\ Settled(r)' => SettledAsBefore(r)
      BY <2>1
    <2> QED BY <2>2 DEF RunShows, ShowsInv, SettledAsBefore, Active, jobs
  <1>4. RestInv'
    <2> SUFFICES ASSUME NEW p \in Project, NEW r \in Repo, ~running[p], row'[r].project = p,
                        Wants(p, r)', Settled(r)', row'[r].status = "ok"
                 PROVE  Shows(checkout[DirOf[p]], row'[r].branch, asked[p].v)
      BY DEF RestInv, jobs
    <2>1. Wants(p, r) /\ SettledAsBefore(r)
      BY <1>1
    <2> QED BY <2>1 DEF SettledAsBefore, ShowsInv, RestInv
  <1> QED BY <1>2, <1>3, <1>4 DEF ShowsInv

LEMMA QueueShows ==
  ASSUME TypeOK, JobsInv, NamesInv, ShowsInv, NEW h \in Handler, QueueStep(h)
  PROVE  ShowsInv'
  <1> DEFINE s == hd[h].site
             q == [kind |-> hd[h].kind, repo |-> hd[h].repo]
  <1>1. /\ s \in Project /\ asked'[s].req = q /\ q.repo = hd[h].repo /\ q # None
        /\ row[q.repo].present => asked'[s].v = tip[row[q.repo].branch]
        /\ \A p \in Project \ {s} : /\ asked'[p] = asked[p] /\ next'[p] = next[p]
                                    /\ running'[p] = running[p]
        /\ running'[s] /\ UNCHANGED <<row, checkout, tip>>
    BY NoneAssumption DEF QueueStep
  <1>2. \/ running[s] /\ next'[s] = q /\ UNCHANGED wk
        \/ /\ ~running[s]
           /\ \E w \in Worker : /\ wk[w].pc = "off" /\ Began(wk'[w], s, q, q.repo)
                                /\ \A v \in Worker \ {w} : wk'[v] = wk[v]
    BY DEF QueueStep
  <1> HIDE DEF q
  <1>3. TipInv'
    <2> SUFFICES ASSUME NEW p \in Project, NEW r \in Repo, Wants(p, r)', Settled(r)'
                 PROVE  tip[row[r].branch] >= asked'[p].v
      BY <1>1 DEF TipInv
    <2>1. CASE p = s
      <3>1. r = q.repo /\ row[r].present
        BY <1>1, <2>1 DEF Wants, Settled
      <3>2. tip[row[r].branch] \in Nat
        BY <3>1 DEF TypeOK, RowOK, WellFormedRow
      <3> QED BY <1>1, <2>1, <3>1, <3>2
    <2>2. CASE p # s
      <3>1. asked'[p] = asked[p] /\ Wants(p, r) /\ row[r].present
        BY <1>1, <2>2 DEF Wants, Settled
      <3>2. row[r].project = p
        BY <3>1, WantedLinked
      <3>3. SettledAsBefore(r)
        BY <2>2, <3>2, QueueSettled
      <3> QED BY <3>1, <3>3 DEF ShowsInv, TipInv, SettledAsBefore
    <2> QED BY <2>1, <2>2
  <1>4. ASSUME NEW w \in Worker PROVE RunShows(w)'
    <2>1. CASE Began(wk'[w], s, q, q.repo)
      BY <2>1 DEF Began, RunShows, Recording
    <2>2. CASE wk'[w] = wk[w]
      <3> DEFINE r == wk[w].req.repo
                 p == wk[w].project
      <3> SUFFICES ASSUME Active(w), next'[p] = None, wk[w].req.kind # "build", Settled(r)'
                   PROVE  /\ wk[w].pc \notin {"begin", "fail", "failwrite", "end"}
                               => wk[w].branch = row[r].branch
                          /\ wk[w].pc \in Recording
                               => Shows(wk[w].commit, row[r].branch, asked'[p].v)
                          /\ wk[w].pc = "end" /\ row[r].status = "ok"
                               => Shows(checkout[DirOf[p]], row[r].branch, asked'[p].v)
        BY <1>1, <2>2 DEF RunShows, Active
      <3>1. p \in Project /\ r \in Repo /\ running[p] /\ row[r].present
        BY <1>1, <2>2, AtWork DEF JobsInv, Settled
      <3>2. p # s
        BY <1>1, <1>2, <3>1
      <3>3. row[r].project = p
        BY <3>1 DEF NamesInv, WorkNames, Belongs, Active
      <3>4. SettledAsBefore(r)
        BY <2>2, <3>1, <3>2, <3>3, QueueSettled
      <3> QED BY <1>1, <3>1, <3>2, <3>4 DEF ShowsInv, RunShows, SettledAsBefore
    <2> QED BY <1>2, <2>1, <2>2
  <1>5. RestInv'
    <2> SUFFICES ASSUME NEW p \in Project, NEW r \in Repo, ~running'[p], row[r].project = p,
                        Wants(p, r)', Settled(r)', row[r].status = "ok"
                 PROVE  Shows(checkout[DirOf[p]], row[r].branch, asked'[p].v)
      BY <1>1 DEF RestInv
    <2>1. p # s
      BY <1>1
    <2>2. Wants(p, r) /\ asked'[p] = asked[p] /\ ~running[p]
      BY <1>1, <2>1 DEF Wants
    <2>3. SettledAsBefore(r)
      BY <2>1, QueueSettled
    <2> QED BY <2>2, <2>3 DEF ShowsInv, RestInv, SettledAsBefore
  <1> QED BY <1>3, <1>4, <1>5 DEF ShowsInv

LEMMA EndShows ==
  ASSUME TypeOK, JobsInv, LastInv, ShowsInv, NEW w \in Worker, EndStep(w)
  PROVE  ShowsInv'
  <1> DEFINE s == wk[w].project
  <1>1. /\ s \in Project /\ wk[w].pc = "end" /\ Active(w)
        /\ \A v \in Worker \ {w} : wk'[v] = wk[v]
        /\ \A p \in Project \ {s} : next'[p] = next[p] /\ running'[p] = running[p]
        /\ UNCHANGED <<row, checkout, hd, tip, asked>>
    BY DEF EndStep, Active
  <1>2. \A r : Settled(r)' <=> Settled(r)
    BY <1>1 DEF Settled, Pending
  <1>3. \A p \in Project, r \in Repo : Wants(p, r)' <=> Wants(p, r)
    BY <1>1 DEF Wants
  <1>4. TipInv'
    BY <1>1, <1>2, <1>3 DEF TipInv, ShowsInv
  <1>5. ASSUME NEW v \in Worker PROVE RunShows(v)'
    <2>1. CASE v = w
      BY <2>1 DEF EndStep, Began, RunShows, Active, Recording
    <2>2. CASE v # w
      <3>1. wk'[v] = wk[v]
        BY <1>1, <2>2
      <3>2. Active(v) => wk[v].project \in Project \ {s}
        BY <1>1, <2>2, AtWork DEF JobsInv, OneRunPerProject
      <3> QED BY <1>1, <1>2, <3>1, <3>2 DEF RunShows, ShowsInv, Active
    <2> QED BY <2>1, <2>2
  <1>6. RestInv'
    <2> SUFFICES ASSUME NEW p \in Project, NEW r \in Repo, ~running'[p], row[r].project = p,
                        Wants(p, r), Settled(r), row[r].status = "ok"
                 PROVE  Shows(checkout[DirOf[p]], row[r].branch, asked[p].v)
      BY <1>1, <1>2, <1>3 DEF RestInv
    <2>1. CASE p = s
      <3>1. next[p] = None
        BY <1>1, <2>1 DEF EndStep, JobsInv
      <3>2. asked[p].req = wk[w].req
        BY <1>1, <2>1, <3>1 DEF LastInv
      <3>3. wk[w].req.repo = r /\ wk[w].req.kind # "build"
        BY <3>2 DEF Wants
      <3> QED BY <1>1, <2>1, <3>1, <3>3 DEF ShowsInv, RunShows
    <2>2. CASE p # s
      BY <1>1, <2>2 DEF ShowsInv, RestInv
    <2> QED BY <2>1, <2>2
  <1> QED BY <1>4, <1>5, <1>6 DEF ShowsInv

LEMMA ShowsStep ==
  ASSUME OneRunPerCheckout, SitesInv, RecreatedIdle,
         TypeOK, JobsInv, NamesInv, LinksApart, LastInv, CommitIsCheckedOut,
         ShowsInv, [Next]_vars
  PROVE  ShowsInv'
  <1>0. tip' \in [Branch -> Nat]
    BY NextTypeOK DEF TypeOK
  <1>1. ASSUME NEW w \in Worker, JobStep(w) PROVE ShowsInv'
    BY <1>1, JobTip, JobRest, OtherJobShows, JobShowsNext DEF ShowsInv
  <1>2. ASSUME NEW h \in Handler, RequestStep(h) PROVE ShowsInv'
    <2>1. UNCHANGED <<checkout, jobs, wk, asked, tip>>
      BY <1>2 DEF RequestStep
    <2>2. \A b \in Branch : tip'[b] >= tip[b]
      BY <2>1 DEF TypeOK
    <2>3. \A r \in Repo : Settled(r)' /\ r \in minted => SettledAsBefore(r)
      BY <1>2, RequestSettled
    <2> QED BY <1>0, <2>1, <2>2, <2>3, QuietShows
  <1>3. CASE Startup \/ OutsideStep
    <2>1. /\ UNCHANGED <<checkout, jobs, wk, asked, hd>>
          /\ Startup \/ UNCHANGED row
      BY <1>3 DEF Startup, OutsideStep, ghost
    <2>2. \A b \in Branch : tip'[b] >= tip[b]
      BY <1>3 DEF Startup, OutsideStep, world, TypeOK
    <2>3. \A r \in Repo : Settled(r)' => SettledAsBefore(r)
      BY <2>1, OtherSettled
    <2> QED BY <1>0, <2>1, <2>2, <2>3, QuietShows
  <1>4. CASE Crash
    <2>1. /\ \A p \in Project : asked'[p].req = None
          /\ \A w \in Worker : wk'[w].pc = "off"
      BY <1>4 DEF Crash, NoWork
    <2> QED BY <2>1 DEF ShowsInv, TipInv, RestInv, RunShows, Wants, Active
  <1> QED BY <1>1, <1>2, <1>3, <1>4, StepKinds, Enqueues, QueueShows, Ends, EndShows

\* When all is quiet and a repository shows "ok", the deploy or activation asked for
\* last is what is checked out, whatever requests, pushes, failures, panics and
\* restarts came before: as long as no domain is created anew, and no project linked
\* anew, while work for its former site or repository is under way.
THEOREM LatestWins == Spec /\ []LinksApart /\ []RecreatedIdle => []LatestRequestWins
  <1>1. Init => ShowsInv
    BY DEF Init, ShowsInv, TipInv, RestInv, RunShows, Wants, Active, NoWork
  <1>2. TypeOK /\ JobsInv /\ ShowsInv => LatestRequestWins
    <2> SUFFICES ASSUME TypeOK, JobsInv, ShowsInv, Quiet, NEW p \in Project, NEW r \in RepoOf(p),
                        row[r].status = "ok",
                        asked[p].req \in [kind : {"deploy", "activate"}, repo : {r}]
                 PROVE  Shows(checkout[DirOf[p]], row[r].branch, asked[p].v)
      BY DEF LatestRequestWins, Shows
    <2>1. r \in Repo /\ row[r].present /\ row[r].project = p
      BY DEF RepoOf
    <2>2. ~running[p]
      BY DEF Quiet, JobsInv
    <2>3. Settled(r)
      BY <2>1 DEF Quiet, Settled, Pending
    <2>4. Wants(p, r)
      <3>1. asked[p].req \in Request
        BY <2>1 DEF Request, Kind
      <3> QED BY <3>1, NoneAssumption DEF Wants
    <2> QED BY <2>1, <2>2, <2>3, <2>4 DEF ShowsInv, RestInv
  <1>3. OneRunPerCheckout /\ SitesInv /\ RecreatedIdle /\ TypeOK /\ JobsInv /\ NamesInv
        /\ LinksApart /\ LastInv /\ CommitIsCheckedOut /\ ShowsInv /\ [Next]_vars => ShowsInv'
    BY ShowsStep
  <1> QED BY <1>1, <1>2, <1>3, TypeCorrect, JobsMapExact, NamesAlways, LastAlways, SitesAlways,
             AtMostOneRunPerCheckout, CommitStaysCheckedOut, PTL DEF Spec
=============================================================================
