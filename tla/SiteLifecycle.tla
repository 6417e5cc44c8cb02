---------------------------- MODULE SiteLifecycle ----------------------------
(***************************************************************************)
(* Hosted sites: the rows of the sites table against the files the panel   *)
(* writes for them.  Requests are goroutines of net/http and hold no lock, *)
(* but for the operations on all sites and adoptions, which take switchMu. *)
(* A request reads the site's row once, and renders and persists from that *)
(* copy; each statement, each file with the reload that follows it, and    *)
(* each service command is a step of its own.                              *)
(*                                                                         *)
(* Virtual hosts of one domain can be at three paths: the panel's path in  *)
(* the directory of either web server, and any other name in the directory *)
(* of the server the host came with.  A stop of the panel may fall between *)
(* any two steps.                                                          *)
(***************************************************************************)
EXTENDS Naturals, FiniteSets

CONSTANTS
  Domain,
  ParentOf,      \* ParentOf[d]: the domain d is a subdomain of, or None
  Root,          \* document roots
  Php,           \* installed PHP versions
  StdRoot,       \* /var/www/<domain>/public_html
  StdPhp,        \* the first version detected
  Live,          \* domains the panel already manages
  Foreign,       \* domains with a virtual host the operator wrote
  ForeignPath,   \* ForeignPath[d]: where that virtual host is
  Handler,       \* concurrent requests
  None,
  Menus,         \* the operations asked for in a behaviour, one set of them each
  Failures,      \* whether commands, writes and statements may fail
  MaxOps, MaxCrash

Server == {"apache", "nginx"}
Path   == Server \cup {"other"}
Home   == "apache"     \* the server the host came with

Locked == {"switch", "regen", "adopt"}
Bulk   == {"switch", "regen", "upgrade", "scan"}
Op     == Locked \cup Bulk \cup {"create", "delete", "serve", "php", "ssl", "proxy"}
Other  == {"save", "rm", "edit"}   \* not requests, or done in one step
Aspect == {"vhost", "pool", "stray"}

ASSUME DomainAssumption ==
  /\ None \notin Domain \cup Handler \cup Path \cup Op
  /\ ParentOf \in [Domain -> Domain \cup {None}]
  /\ \A d \in Domain : ParentOf[d] # None => ParentOf[ParentOf[d]] = None
  /\ Live \subseteq Domain /\ Foreign \subseteq Domain \ Live
  /\ \A d \in Live : ParentOf[d] = None
  /\ ForeignPath \in [Foreign -> {Home, "other"}]
ASSUME ValueAssumption ==
  /\ StdRoot \in Root /\ StdPhp \in Php /\ Menus \subseteq SUBSET (Op \cup Other)
  /\ Failures \in BOOLEAN /\ MaxOps \in Nat /\ MaxCrash \in Nat

VARIABLES
  \* --- database ---
  row,        \* row[d]: the sites row of a domain
  app,        \* app[d]: an apps row refers to it
  ids,        \* site ids handed out
  dismissed,  \* dismissed_imports
  \* --- disk and services ---
  file,       \* file[p][d]: the virtual host of d at path p
  backup,     \* backup[p][d]: the same file with the suffix .disabled-by-openpropanel
  pool,       \* pool[d]: the FPM pool files of d
  docs,       \* docs[d]: what is in /var/www/<d>/public_html
  unit,       \* unit[d]: the systemd unit of d's app
  service,    \* the web server that runs
  saved,      \* web_server in the configuration file
  \* --- memory of the panel process ---
  up,
  active,     \* cfg.WebServer
  lock,       \* switchMu
  hd,         \* request goroutines
  \* --- bounds and history ---
  menu, ops, crashes,
  late,       \* domains forgotten after a scan at work had read the dismissals
  crossed,    \* domains that Crossing operations worked on at a time
  doubt       \* aspects of a domain that an operation on it left half-way, or
              \* that two operations changed at a time

db    == <<row, app, ids, dismissed>>
disk  == <<file, backup, pool, docs, unit>>
conf  == <<service, saved, active>>
bound == <<menu, ops, crashes, late, crossed>>
vars  == <<db, disk, conf, up, lock, hd, bound, doubt>>

-----------------------------------------------------------------------------
(* Types *)

Mode == {"files", "proxy"}
Row  == [id : Nat, source : {"none", "managed", "imported"}, sub : BOOLEAN, root : Root,
         php : Php, mode : Mode, ssl : BOOLEAN, own : BOOLEAN, conf : Path \cup {None}]
NoRow == [id |-> 0, source |-> "none", sub |-> FALSE, root |-> StdRoot, php |-> StdPhp,
          mode |-> "files", ssl |-> FALSE, own |-> FALSE, conf |-> None]

VHost == [by : {"nobody", "operator", "panel"}, root : Root, mode : Mode,
          cert : {"none", "own", "letsencrypt"}]
NoFile   == [by |-> "nobody", root |-> StdRoot, mode |-> "files", cert |-> "none"]
Original == [NoFile EXCEPT !.by = "operator", !.cert = "own"]

Pool == [php : Php, root : Root, owner : Server]

\* An index.html, the panel's own or the owner's, is all that can be told apart
\* of a document root: with anything else in it a root is never removed.
Docs == {"none", "seeded", "page"}

Pc == {"idle", "pool", "render", "insert", "forget", "teardown", "drop", "persist", "dropapp",
       "certs", "flag", "app", "configure", "lock", "sites", "validate", "swap", "save",
       "repool", "reconcile", "rerender", "clean", "apply", "disable", "mark", "scan",
       "dismissals", "lookup", "record", "nest", "group", "prune"}
Handling == [op : Op \cup {None}, pc : Pc, d : Domain \cup {None}, copy : Row,
             snap : [Domain -> Row],     \* rows as a list returned them
             mine : SUBSET Domain,       \* the sites the operation works on
             found : SUBSET Domain,      \* domains a scan saw
             orig : SUBSET Path,         \* where an adoption disabled files
             server : Server,            \* the server to switch to, then from
             quiet : BOOLEAN]            \* no other request since it began
NoHandling == [op |-> None, pc |-> "idle", d |-> None, copy |-> NoRow,
               snap |-> [d \in Domain |-> NoRow], mine |-> {}, found |-> {}, orig |-> {},
               server |-> Home, quiet |-> TRUE]

TypeOK ==
  /\ row \in [Domain -> Row] /\ app \in [Domain -> BOOLEAN]
  /\ ids \in Nat /\ dismissed \subseteq Domain
  /\ file \in [Path -> [Domain -> VHost]] /\ backup \in [Path -> [Domain -> VHost]]
  /\ pool \in [Domain -> SUBSET Pool] /\ unit \in [Domain -> BOOLEAN]
  /\ docs \in [Domain -> Docs]
  /\ service \in Server \cup {None} /\ saved \in Server /\ active \in Server
  /\ up \in BOOLEAN /\ lock \in Handler \cup {None} /\ hd \in [Handler -> Handling]
  /\ menu \in Menus /\ ops \in Nat /\ crashes \in Nat
  /\ late \subseteq Domain /\ crossed \subseteq Domain
  /\ doubt \subseteq Domain \X Aspect

-----------------------------------------------------------------------------
(* What the panel writes *)

Managed(rows) == {d \in Domain : rows[d].source = "managed"}
Subs(d)       == {s \in Domain : ParentOf[s] = d /\ row[s].sub}

\* renderVHost: the adopted site's own certificate is preserved.
Rendering(r) ==
  [by |-> "panel", root |-> r.root, mode |-> r.mode,
   cert |-> IF ~r.ssl THEN "none" ELSE IF r.own THEN "own" ELSE "letsencrypt"]

\* A proxy site without an app has nothing to forward to, and is refused.
Renderable(d, r) == r.mode = "proxy" => app[d]

\* Bug: the socket is handed to the server that runs, if one does.
PoolForRunning(r) == {[php |-> r.php, root |-> r.root, owner |-> service]}

\* ConfigureSite: the pool files of all versions are removed before one is written.
PoolFor(r) == {[php |-> r.php, root |-> r.root, owner |-> active]}

Written(S, rows) == [file EXCEPT ![active] =
                       [d \in Domain |-> IF d \in S THEN Rendering(rows[d]) ELSE @[d]]]
Write(d, r)   == file' = [file EXCEPT ![active][d] = Rendering(r)]
Remove(d)     == file' = [file EXCEPT ![active][d] = NoFile]
SetPool(d, p) == pool' = [pool EXCEPT ![d] = p]

\* provisionDocRoot, and rollbackFiles for the standard layout (isFreshDocRoot).
Provision(d, r) == docs' = IF r.root = StdRoot /\ docs[d] = "none"
                           THEN [docs EXCEPT ![d] = "seeded"] ELSE docs
RollBackDocs(d, r) == docs' = IF r.root = StdRoot THEN [docs EXCEPT ![d] = "none"] ELSE docs

\* UPDATE sites ... WHERE id = ?: nothing happens to a row deleted meanwhile.
Update(d, id, new) == row' = IF row[d].id = id THEN [row EXCEPT ![d] = new] ELSE row

\* DELETE FROM sites: subdomains go with their parent, apps with their site.
Deleted(rows, gone) ==
  LET all == gone \cup {s \in Domain : rows[s].sub /\ ParentOf[s] \in gone}
  IN [d \in Domain |-> IF d \in all THEN NoRow ELSE rows[d]]
KeepApps(rows) == [d \in Domain |-> app[d] /\ rows[d].source # "none"]

\* Sites whose rows go with an imported parent's: nothing removes their files.
Stranded(rows, cleared) == {d \in Managed(row) \ cleared : rows[d].source = "none"}

-----------------------------------------------------------------------------
(* Requests *)

Reach(op, d) == IF op \in Bulk THEN Domain
                ELSE IF op = "delete" THEN {d} \cup {s \in Domain : ParentOf[s] = d}
                ELSE {d}
Busy(h)    == hd[h].pc # "idle"
Touched(h) == IF Busy(h) THEN Reach(hd[h].op, hd[h].d) ELSE {}

\* Operations that may not overlap on a site: one of them writes from a row or
\* a list it read before the other's change, and no lock keeps them apart.
Single == {"create", "delete", "serve", "php", "ssl", "proxy"}
Clash(p, q) ==
  \/ {p, q} \subseteq Single /\ {p, q} \notin {{"delete"}, {"proxy"}}
  \/ p \in Single /\ q = "switch"
  \/ p \in Single \ {"create"} /\ q = "regen"
  \/ p \in {"delete", "php"} /\ q = "upgrade"
  \/ p \in {"create", "delete", "scan"} /\ q = "adopt"
  \/ p \in {"create", "delete"} /\ q = "scan"
Disturbed(op, d) ==
  {x \in Reach(op, d) :
     \E g \in Handler : x \in Touched(g) /\ (Clash(op, hd[g].op) \/ Clash(hd[g].op, op))}

\* Two creations of a domain, of which one fails; a proxy mode set and taken away.
Crossing == {{"create"}, {"serve", "proxy"}}

\* A request is accepted: "new" holds what it read on the way in.
Ask(h, op, d, new) ==
  /\ up /\ ~Busy(h) /\ op \in menu /\ ops < MaxOps
  /\ ops' = ops + 1
  /\ doubt' = doubt \cup (Disturbed(op, d) \X Aspect)
  /\ crossed' = IF \E g \in Handler : hd[g].d = d /\ {op, hd[g].op} \in Crossing
                THEN crossed \cup {d} ELSE crossed
  /\ hd' = [g \in Handler |->
              IF g = h THEN [new EXCEPT !.op = op, !.d = d,
                                        !.quiet = \A k \in Handler : ~Busy(k)]
              ELSE IF Busy(g) THEN [hd[g] EXCEPT !.quiet = FALSE] ELSE hd[g]]
  /\ UNCHANGED <<db, disk, conf, up, lock, menu, crashes, late>>

At(h, op, pc)  == up /\ hd[h].op = op /\ hd[h].pc = pc
Goto(h, pc)    == hd' = [hd EXCEPT ![h].pc = pc]
Reply(h)       == hd' = [hd EXCEPT ![h] = NoHandling]
Doubting(d, aspects) == doubt' = doubt \cup ({d} \X aspects)
Fails == Failures
KeepRest == UNCHANGED <<conf, up, lock, bound>>

Begin(pc, copy) == [NoHandling EXCEPT !.pc = pc, !.copy = copy]

\* Bug: the domain is not looked up first; the UNIQUE column is trusted.
CreateUnchecked(h, d) ==
  /\ ParentOf[d] # None => row[ParentOf[d]].source = "managed"
  /\ Ask(h, "create", d, Begin("pool", [NoRow EXCEPT !.source = "managed"]))

\* CreateSite with a version and maybe a custom root, AddSubdomain with its
\* parent's version and a folder of its own or not.
Create(h, d) ==
  /\ row[d].source = "none"
  /\ ParentOf[d] # None => row[ParentOf[d]].source = "managed"
  /\ \E v \in Php, r \in Root :
       /\ ParentOf[d] # None => v = row[ParentOf[d]].php
       /\ Ask(h, "create", d,
              Begin("pool", [NoRow EXCEPT !.source = "managed", !.php = v, !.root = r,
                                          !.sub = ParentOf[d] # None]))

\* DeleteSite looks the subdomains up when it begins; an imported site is forgotten.
Delete(h, d) ==
  /\ row[d].source # "none"
  /\ Ask(h, "delete", d,
         IF row[d].source = "managed"
         THEN [Begin("teardown", row[d]) EXCEPT !.mine = {d} \cup (Subs(d) \cap Managed(row))]
         ELSE Begin("forget", row[d]))

\* Bug: a blank mode keeps the current one, proxy included.
ServeBlank(h, d) ==
  /\ row[d].source = "managed"
  /\ \E r \in Root : Ask(h, "serve", d, Begin("persist", [row[d] EXCEPT !.root = r]))

\* SetServe, and applyMapping of a repository's folder.
Serve(h, d) ==
  /\ row[d].source = "managed"
  /\ \E r \in Root : Ask(h, "serve", d,
                         Begin("persist", [row[d] EXCEPT !.root = r, !.mode = "files"]))

ChangePhp(h, d) ==
  /\ row[d].source = "managed" /\ row[d].mode # "proxy"
  /\ \E v \in Php : Ask(h, "php", d, Begin("pool", [row[d] EXCEPT !.php = v]))

\* EnableSSL once certbot has answered, and DisableSSL.
ToggleSSL(h, d) ==
  /\ row[d].source = "managed"
  /\ \E on \in BOOLEAN :
       Ask(h, "ssl", d, Begin("render", [row[d] EXCEPT !.ssl = on, !.own = @ /\ ~on]))

SetProxyApp(h, d) ==
  /\ row[d].source = "managed"
  /\ Ask(h, "proxy", d, Begin("app", [row[d] EXCEPT !.mode = "proxy"]))

SwitchWebServer(h, s) ==
  s # active /\ Ask(h, "switch", None, [Begin("lock", NoRow) EXCEPT !.server = s])

RegenerateAll(h) == Ask(h, "regen", None, Begin("lock", NoRow))

\* upgradeOwnerSites lists the sites before it waits for the lock.
UpgradeSites(h) == Ask(h, "upgrade", None, [Begin("lock", NoRow) EXCEPT !.snap = row])

AdoptSite(h, d) ==
  /\ row[d].source = "imported"
  /\ \E v \in Php : Ask(h, "adopt", d, Begin("lock", [row[d] EXCEPT !.php = v]))

\* postScanSites forgets the dismissals first.
ScanSites(h) == Ask(h, "scan", None, Begin("scan", NoRow))

-----------------------------------------------------------------------------
(* CreateSite, AddSubdomain *)

\* The pool files are removed and one is written; reloading FPM may still fail,
\* and then nothing removes what was written.
CreatePool(h) ==
  LET d == hd[h].d  r == hd[h].copy IN
  /\ At(h, "create", "pool")
  /\ \/ /\ SetPool(d, PoolFor(r)) /\ Provision(d, r) /\ Goto(h, "render")
        /\ UNCHANGED <<file, doubt>>
     \/ /\ Failures
        /\ \E left \in {{}, PoolFor(r)} : SetPool(d, left)
        /\ Remove(d) /\ RollBackDocs(d, r)
        /\ Reply(h) /\ Doubting(d, {"pool", "stray"})
  /\ UNCHANGED <<db, backup, unit>> /\ KeepRest

\* Bug: the pool is forgotten.
RollBackVHost(h) ==
  LET d == hd[h].d IN
  /\ Remove(d) /\ RollBackDocs(d, hd[h].copy) /\ Reply(h) /\ UNCHANGED pool

RollBack(h) ==
  LET d == hd[h].d IN
  /\ Remove(d) /\ SetPool(d, {}) /\ RollBackDocs(d, hd[h].copy) /\ Reply(h)

CreateVHost(h) ==
  /\ At(h, "create", "render")
  /\ \/ Write(hd[h].d, hd[h].copy) /\ Goto(h, "insert") /\ UNCHANGED <<pool, docs>>
     \/ Failures /\ RollBack(h)
  /\ UNCHANGED <<db, backup, unit, doubt>> /\ KeepRest

\* domain is UNIQUE, and parent_id refers to a row.
CreateRow(h) ==
  LET d == hd[h].d
      fits == row[d].source = "none" /\ (ParentOf[d] # None => row[ParentOf[d]].source # "none")
  IN
  /\ At(h, "create", "insert")
  /\ \/ /\ fits
        /\ row' = [row EXCEPT ![d] = [hd[h].copy EXCEPT !.id = ids + 1]]
        /\ ids' = ids + 1 /\ Reply(h) /\ UNCHANGED <<file, pool, docs>>
     \/ /\ ~fits \/ Failures
        /\ RollBack(h) /\ UNCHANGED <<row, ids>>
  /\ UNCHANGED <<app, dismissed, backup, unit, doubt>> /\ KeepRest

-----------------------------------------------------------------------------
(* DeleteSite *)

DeleteTeardown(h) ==
  LET S == hd[h].mine IN
  /\ At(h, "delete", "teardown")
  /\ file' = [file EXCEPT ![active] = [d \in Domain |-> IF d \in S THEN NoFile ELSE @[d]]]
  /\ pool' = [d \in Domain |-> IF d \in S THEN {} ELSE pool[d]]
  /\ unit' = [d \in Domain |-> d \notin S /\ unit[d]]
  /\ Goto(h, "drop")
  /\ UNCHANGED <<db, backup, docs, doubt>> /\ KeepRest

\* A scan that has read the dismissals and not yet recorded what it chose by them.
Chosen(g) == hd[g].op = "scan" /\ hd[g].pc \in {"lookup", "record", "nest"}

DeleteDismiss(h) ==
  /\ At(h, "delete", "forget")
  /\ dismissed' = dismissed \cup {hd[h].d}
  /\ late' = IF \E g \in Handler : Chosen(g) THEN late \cup {hd[h].d} ELSE late \ {hd[h].d}
  /\ Goto(h, "drop")
  /\ UNCHANGED <<row, app, ids, disk, doubt, conf, up, lock, menu, ops, crashes, crossed>>

\* Apply, and then the rows.
DeleteRows(h) ==
  LET d == hd[h].d IN
  /\ At(h, "delete", "drop")
  /\ \/ /\ row' = IF row[d].id = hd[h].copy.id THEN Deleted(row, {d}) ELSE row
        /\ app' = KeepApps(row')
        /\ doubt' = doubt \cup (Stranded(row', hd[h].mine) \X Aspect)
     \/ /\ Failures
        /\ doubt' = doubt \cup (hd[h].mine \X {"vhost", "pool"})
        /\ UNCHANGED <<row, app>>
  /\ Reply(h)
  /\ UNCHANGED <<ids, dismissed, disk>> /\ KeepRest

-----------------------------------------------------------------------------
(* SetServe, SetProxyApp, ChangePHP, EnableSSL, DisableSSL *)

\* What a failure between the first write and the last leaves out of step.
Spoils(op) == IF op = "php" THEN {"pool"} ELSE {"vhost"}

ServePersist(h) ==
  LET d == hd[h].d  r == hd[h].copy IN
  /\ At(h, "serve", "persist")
  /\ Provision(d, r)
  /\ \/ /\ Update(d, r.id, [row[d] EXCEPT !.root = r.root, !.mode = r.mode])
        /\ Goto(h, "dropapp")
     \/ Failures /\ Reply(h) /\ UNCHANGED row
  /\ UNCHANGED <<app, ids, dismissed, file, backup, pool, unit, doubt>> /\ KeepRest

\* removeAppFor.
ServeDropApp(h) ==
  LET d == hd[h].d  has == app[d] /\ row[d].id = hd[h].copy.id IN
  /\ At(h, "serve", "dropapp")
  /\ app' = [app EXCEPT ![d] = @ /\ ~has]
  /\ unit' = [unit EXCEPT ![d] = @ /\ ~has]
  /\ Goto(h, "render")
  /\ UNCHANGED <<row, ids, dismissed, file, backup, pool, docs, doubt>> /\ KeepRest

\* CreateApp needs the site's row (FOREIGN KEY); UpdateApp when there is one.
ProxyApp(h) ==
  LET d == hd[h].d IN
  /\ At(h, "proxy", "app")
  /\ \/ row[d].id = hd[h].copy.id /\ app' = [app EXCEPT ![d] = TRUE] /\ Goto(h, "persist")
     \/ (Failures \/ row[d].id # hd[h].copy.id) /\ Reply(h) /\ UNCHANGED app
  /\ UNCHANGED <<row, ids, dismissed, disk, doubt>> /\ KeepRest

ProxyPersist(h) ==
  LET d == hd[h].d  r == hd[h].copy IN
  /\ At(h, "proxy", "persist")
  /\ \/ /\ Update(d, r.id, [row[d] EXCEPT !.root = r.root, !.mode = r.mode])
        /\ Goto(h, "render")
     \/ Failures /\ Reply(h) /\ UNCHANGED row
  /\ UNCHANGED <<app, ids, dismissed, disk, doubt>> /\ KeepRest

ProxyConfigure(h) ==
  /\ At(h, "proxy", "configure")
  /\ \/ unit' = [unit EXCEPT ![hd[h].d] = TRUE]
     \/ Failures /\ UNCHANGED unit
  /\ Reply(h)
  /\ UNCHANGED <<db, file, backup, pool, docs, doubt>> /\ KeepRest

PhpPool(h) ==
  LET d == hd[h].d  r == hd[h].copy IN
  /\ At(h, "php", "pool")
  /\ \/ SetPool(d, PoolFor(r)) /\ Goto(h, "render") /\ UNCHANGED doubt
     \/ /\ Failures
        /\ \E left \in {{}, PoolFor(r)} : SetPool(d, left)
        /\ Reply(h) /\ Doubting(d, Spoils("php"))
  /\ UNCHANGED <<db, file, backup, docs, unit>> /\ KeepRest

\* renderVHost and Apply.  A failure of either is answered at once, with the new
\* virtual host written or not.
RenderSite(h) ==
  LET d == hd[h].d  r == hd[h].copy  op == hd[h].op IN
  /\ up /\ hd[h].pc = "render" /\ op \in {"serve", "proxy", "php", "ssl"}
  /\ \/ /\ Renderable(d, r) /\ Write(d, r)
        /\ CASE op = "serve" -> Reply(h)
             [] op = "proxy" -> Goto(h, "configure")
             [] op = "php"   -> Goto(h, "persist")
             [] op = "ssl"   -> Goto(h, IF r.ssl THEN "certs" ELSE "flag")
        /\ UNCHANGED doubt
     \/ /\ Failures \/ ~Renderable(d, r)
        /\ \/ UNCHANGED file
           \/ Renderable(d, r) /\ Write(d, r)
        /\ Reply(h) /\ Doubting(d, Spoils(op))
  /\ UNCHANGED <<db, backup, pool, docs, unit>> /\ KeepRest

\* The last statement, or the last two: SetSiteCerts and SetSiteSSL, UpdateSitePHP.
PersistLast(h, op, pc, new, next) ==
  LET d == hd[h].d IN
  /\ At(h, op, pc)
  /\ \/ /\ Update(d, hd[h].copy.id, new)
        /\ IF next = "idle" THEN Reply(h) ELSE Goto(h, next)
        /\ UNCHANGED doubt
     \/ Failures /\ Reply(h) /\ Doubting(d, Spoils(op)) /\ UNCHANGED row
  /\ UNCHANGED <<app, ids, dismissed, disk>> /\ KeepRest

\* Bug: the paths of an adopted site's own certificate stay in its row.
PersistCertsNot(h) == PersistLast(h, "ssl", "certs", row[hd[h].d], "flag")

PersistCerts(h) == PersistLast(h, "ssl", "certs", [row[hd[h].d] EXCEPT !.own = FALSE], "flag")
PersistSSL(h)   == PersistLast(h, "ssl", "flag",
                               [row[hd[h].d] EXCEPT !.ssl = hd[h].copy.ssl], "idle")
PersistPhp(h)   == PersistLast(h, "php", "persist",
                               [row[hd[h].d] EXCEPT !.php = hd[h].copy.php], "idle")
-----------------------------------------------------------------------------
(* SwitchWebServer, RegenerateAll, upgradeOwnerSites: under switchMu *)

All(aspects) == doubt' = doubt \cup (Domain \X aspects)
Unlock(h)    == lock' = None /\ Reply(h)

\* The list of sites is read under the lock, but for upgradeOwnerSites.
Lock(h) ==
  LET op == hd[h].op  rows == IF op = "upgrade" THEN hd[h].snap ELSE row
      listed == [hd[h] EXCEPT !.pc = "sites", !.snap = rows, !.mine = Managed(rows)]
  IN
  /\ up /\ hd[h].pc = "lock" /\ lock = None
  /\ \/ op = "switch" /\ hd[h].server = active /\ Reply(h) /\ UNCHANGED <<lock, active>>
     \/ /\ op = "switch" /\ hd[h].server # active
        /\ active' = hd[h].server /\ lock' = h
        /\ hd' = [hd EXCEPT ![h] = [listed EXCEPT !.server = active]]
     \/ /\ op \in {"regen", "upgrade"}
        /\ lock' = h /\ hd' = [hd EXCEPT ![h] = listed] /\ UNCHANGED active
     \/ /\ op = "adopt" /\ row[hd[h].d].id = hd[h].copy.id /\ row[hd[h].d].source = "imported"
        /\ lock' = h
        /\ hd' = [hd EXCEPT ![h].pc = "disable",
                            ![h].copy = [row[hd[h].d] EXCEPT !.source = "managed", !.php = hd[h].copy.php]]
        /\ UNCHANGED active
     \/ /\ op = "adopt" /\ (row[hd[h].d].id # hd[h].copy.id \/ row[hd[h].d].source # "imported")
        /\ Reply(h) /\ UNCHANGED <<lock, active>>
  /\ UNCHANGED <<db, disk, service, saved, up, bound, doubt>>

\* Bug: the failure is answered with the new server still selected.
RevertNot(h) == UNCHANGED active /\ Unlock(h) /\ All({"stray"})

\* A failure until the services are swapped goes back to the old server.
Revert(h) == active' = hd[h].server /\ Unlock(h) /\ All({"stray"})

SwitchSites(h) ==
  LET S == hd[h].mine  rows == hd[h].snap
      refused == {d \in S : ~Renderable(d, rows[d])}
  IN
  /\ At(h, "switch", "sites")
  /\ \/ /\ refused = {} /\ file' = Written(S, rows) /\ Goto(h, "validate")
        /\ UNCHANGED <<active, lock, doubt>>
     \/ /\ Failures \/ refused # {}
        /\ \E done \in SUBSET (S \ refused) : file' = Written(done, rows)
        /\ Revert(h)
  /\ UNCHANGED <<db, backup, pool, docs, unit, service, saved, up, bound>>

SwitchValidate(h) ==
  /\ At(h, "switch", "validate")
  /\ \/ Goto(h, "swap") /\ UNCHANGED <<active, lock, doubt>>
     \/ Failures /\ Revert(h)
  /\ UNCHANGED <<db, disk, service, saved, up, bound>>

\* Starting the old server again is attempted, its error ignored.
SwitchSwap(h) ==
  /\ At(h, "switch", "swap")
  /\ \/ service' = active /\ Goto(h, "save") /\ UNCHANGED <<active, lock, doubt>>
     \/ Failures /\ service' \in {hd[h].server, None} /\ Revert(h)
  /\ UNCHANGED <<db, disk, saved, up, bound>>

\* When the configuration cannot be saved, the pools keep their old owner.
SwitchSave(h) ==
  /\ At(h, "switch", "save")
  /\ \/ saved' = active /\ Goto(h, "repool") /\ UNCHANGED <<lock, doubt>>
     \/ Failures /\ Unlock(h) /\ All({"pool", "stray"}) /\ UNCHANGED saved
  /\ UNCHANGED <<db, disk, service, active, up, bound>>

\* reprovisionPHP of every site listed; those that fail are left behind.
Repool(S, rows, failed) ==
  /\ failed # {} => Failures
  /\ \E gone \in SUBSET failed :
       pool' = [d \in Domain |-> IF d \in gone THEN {}
                                 ELSE IF d \in S THEN PoolFor(rows[d]) ELSE pool[d]]
  /\ doubt' = doubt \cup (failed \X {"pool"})

\* Bug: the sockets are left to the old server's user.
SwitchRepoolNot(h) ==
  /\ At(h, "switch", "repool") /\ Goto(h, "reconcile")
  /\ UNCHANGED <<db, disk, doubt>> /\ KeepRest

SwitchRepool(h) ==
  /\ At(h, "switch", "repool")
  /\ \E failed \in SUBSET hd[h].mine : Repool(hd[h].mine, hd[h].snap, failed)
  /\ Goto(h, "reconcile")
  /\ UNCHANGED <<db, file, backup, docs, unit>> /\ KeepRest

\* ReconcileApps lists again: units first, then a rendering of every site.
ReconciledUnits == [d \in Domain |-> unit[d] \/ (app[d] /\ row[d].source = "managed")]

SwitchReconcile(h) ==
  /\ At(h, "switch", "reconcile")
  /\ unit' \in IF Failures THEN {unit, ReconciledUnits} ELSE {ReconciledUnits}
  /\ hd' = [hd EXCEPT ![h].pc = "rerender", ![h].snap = row]
  /\ UNCHANGED <<db, file, backup, pool, docs, doubt>> /\ KeepRest

SwitchRerender(h) ==
  LET rows == hd[h].snap  S == {d \in Managed(rows) : Renderable(d, rows[d])} IN
  /\ At(h, "switch", "rerender")
  /\ \E done \in SUBSET S : (done # S => Failures) /\ file' = Written(done, rows)
  /\ Goto(h, "clean")
  /\ UNCHANGED <<db, backup, pool, docs, unit, doubt>> /\ KeepRest

\* The stale virtual hosts of the sites of the first list.
SwitchClean(h) ==
  LET S == hd[h].mine IN
  /\ At(h, "switch", "clean")
  /\ file' = [file EXCEPT ![hd[h].server] =
                [d \in Domain |-> IF d \in S THEN NoFile ELSE @[d]]]
  /\ Unlock(h)
  /\ UNCHANGED <<db, backup, pool, docs, unit, conf, up, bound, doubt>>

\* reprovisionSite of every site, stopping at the first that fails.
Regenerate(h) ==
  LET S == hd[h].mine  rows == hd[h].snap IN
  /\ At(h, "regen", "sites")
  /\ \E done \in SUBSET S :
       LET written == {d \in done : Renderable(d, rows[d])} IN
       /\ file' = Written(written, rows)
       /\ pool' = [d \in Domain |-> IF d \in done THEN PoolFor(rows[d]) ELSE pool[d]]
       /\ IF done = S /\ written = S
          THEN Goto(h, "apply") /\ UNCHANGED <<lock, doubt>>
          ELSE /\ Failures \/ written # done
               /\ Unlock(h) /\ doubt' = doubt \cup (S \X {"vhost", "pool"})
  /\ UNCHANGED <<db, backup, docs, unit, conf, up, bound>>

\* A regeneration nothing ran beside puts every managed site right.
RegenApply(h) ==
  /\ At(h, "regen", "apply")
  /\ Unlock(h)
  /\ doubt' = IF hd[h].quiet THEN doubt \ (hd[h].mine \X {"vhost", "pool"}) ELSE doubt
  /\ UNCHANGED <<db, disk, conf, up, bound>>

Upgrade(h) ==
  /\ At(h, "upgrade", "sites")
  /\ \E failed \in SUBSET hd[h].mine : Repool(hd[h].mine, hd[h].snap, failed)
  /\ Unlock(h)
  /\ UNCHANGED <<db, file, backup, docs, unit, conf, up, bound>>

-----------------------------------------------------------------------------
(* AdoptSite *)

\* The directory of the active server; that of the host's server also holds
\* virtual hosts under other names.
InDir == {active} \cup (IF active = Home THEN {"other"} ELSE {})
FilesOf(d) == {p \in InDir : file[p][d] # NoFile}

Move(from, to, P, d) == [p \in Path |-> [to[p] EXCEPT ![d] = IF p \in P THEN from[p][d] ELSE @]]
Erase(f, P, d)       == [p \in Path |-> [f[p] EXCEPT ![d] = IF p \in P THEN NoFile ELSE @]]

\* Every file that defines the domain is renamed, or else the one recorded.
AdoptDisable(h) ==
  LET d == hd[h].d
      P == IF FilesOf(d) # {} THEN FilesOf(d) ELSE {p \in {hd[h].copy.conf} : file[p][d] # NoFile}
  IN
  /\ At(h, "adopt", "disable")
  /\ \/ /\ backup' = Move(file, backup, P, d) /\ file' = Erase(file, P, d)
        /\ hd' = [hd EXCEPT ![h].pc = "pool", ![h].orig = P]
        /\ UNCHANGED <<pool, lock>>
     \/ /\ Failures
        /\ SetPool(d, {}) /\ Unlock(h) /\ UNCHANGED <<file, backup>>
  /\ UNCHANGED <<db, docs, unit, conf, up, bound, doubt>>

\* Bug: what was renamed is not renamed back.
RestoreNot(h) ==
  /\ file' = Erase(file, {active}, hd[h].d) /\ UNCHANGED backup
  /\ SetPool(hd[h].d, {}) /\ Unlock(h)

\* restore: what was written is removed, what was renamed is renamed back.
Restore(h) ==
  LET d == hd[h].d  P == hd[h].orig IN
  /\ file' = Move(backup, Erase(file, {active}, d), P, d)
  /\ backup' = Erase(backup, P, d)
  /\ SetPool(d, {}) /\ Unlock(h)

AdoptPool(h) ==
  /\ At(h, "adopt", "pool")
  /\ \/ /\ SetPool(hd[h].d, PoolFor(hd[h].copy)) /\ Goto(h, "render")
        /\ UNCHANGED <<file, backup, lock>>
     \/ Failures /\ Restore(h)
  /\ UNCHANGED <<db, docs, unit, conf, up, bound, doubt>>

\* Written, validated and reloaded.
AdoptVHost(h) ==
  /\ At(h, "adopt", "render")
  /\ \/ Write(hd[h].d, hd[h].copy) /\ Goto(h, "mark") /\ UNCHANGED <<backup, pool, lock>>
     \/ Failures /\ Restore(h)
  /\ UNCHANGED <<db, docs, unit, conf, up, bound, doubt>>

\* MarkSiteManaged: nothing is restored when this statement fails.
AdoptMark(h) ==
  LET d == hd[h].d  r == hd[h].copy IN
  /\ At(h, "adopt", "mark")
  /\ \/ /\ Update(d, r.id, [row[d] EXCEPT !.source = "managed", !.php = r.php, !.conf = None])
        /\ UNCHANGED doubt
     \/ Failures /\ Doubting(d, Aspect) /\ UNCHANGED row
  /\ Unlock(h)
  /\ UNCHANGED <<app, ids, dismissed, disk, conf, up, bound>>

-----------------------------------------------------------------------------
(* ImportExisting *)

Seen        == {d \in Domain : FilesOf(d) # {}}
Unmanaged   == {d \in Domain : \E p \in FilesOf(d) : file[p][d].by = "operator"}
ParentIn(d, rows) == ParentOf[d] # None /\ rows[ParentOf[d]].source # "none"

\* Sites are inserted, and the imported ones of "nested" grouped under their parent
\* if it is tracked.  Ids tell the rows of one domain apart.
Recorded(new, nested) ==
  LET fresh(d) == [NoRow EXCEPT !.id = ids + 1, !.source = "imported", !.ssl = TRUE, !.own = TRUE,
                                !.conf = ForeignPath[d]]
      rows == [d \in Domain |-> IF d \in new THEN fresh(d) ELSE row[d]]
  IN [d \in Domain |-> IF d \in nested /\ rows[d].source = "imported"
                       THEN [rows[d] EXCEPT !.sub = @ \/ ParentIn(d, rows)] ELSE rows[d]]

\* Imported rows whose virtual host was not seen go.
Pruned(rows, seen) == Deleted(rows, {d \in Domain : rows[d].source = "imported" /\ d \notin seen})

Untracked(S) == {d \in S : row[d].source = "none"}

\* postScanSites clears the dismissals; then the directory is read.
ScanDirectory(h) ==
  /\ At(h, "scan", "scan")
  /\ dismissed' = {}
  /\ hd' = [hd EXCEPT ![h].pc = "dismissals", ![h].mine = Unmanaged, ![h].found = Seen]
  /\ UNCHANGED <<row, app, ids, disk, doubt>> /\ KeepRest

\* Bug: the dismissals are not consulted.
ScanDismissalsNot(h) ==
  /\ At(h, "scan", "dismissals") /\ Goto(h, "lookup")
  /\ UNCHANGED <<db, disk, doubt>> /\ KeepRest

\* The dismissals are read once ...
ScanDismissals(h) ==
  /\ At(h, "scan", "dismissals")
  /\ hd' = [hd EXCEPT ![h].pc = "lookup", ![h].mine = @ \ dismissed]
  /\ UNCHANGED <<db, disk, doubt>> /\ KeepRest

\* ... then the candidates are looked up, and the sites listed that they may belong to.
ScanLookUp(h) ==
  /\ At(h, "scan", "lookup")
  /\ hd' = [hd EXCEPT ![h].pc = "record", ![h].mine = Untracked(@), ![h].snap = row]
  /\ UNCHANGED <<db, disk, doubt>> /\ KeepRest

\* parentDomainIn over the universe of sites listed and candidates.
Nested(h) == {d \in Domain : \/ ParentOf[d] \in hd[h].mine
                             \/ ParentIn(d, hd[h].snap)}

\* CreateSite of each, as what was chosen has it; domain is UNIQUE.
ScanInserts(h, pc, chosen, next) ==
  /\ At(h, "scan", pc)
  /\ \E done \in SUBSET Untracked(chosen) :
       /\ done # Untracked(chosen) => Failures
       /\ row' = Recorded(done, done \cap Nested(h))
  /\ ids' = IF Untracked(chosen) = {} THEN ids ELSE ids + 1
  /\ Goto(h, next)
  /\ UNCHANGED <<app, dismissed, disk, doubt>> /\ KeepRest

ScanMains(h) == ScanInserts(h, "record", hd[h].mine \ Nested(h), "nest")
ScanSubs(h)  == ScanInserts(h, "nest", hd[h].mine \cap Nested(h), "group")

\* SetSiteParent of the imported rows listed, its errors ignored.
ScanGroup(h) ==
  /\ At(h, "scan", "group")
  /\ \E done \in SUBSET Nested(h) : /\ done # Nested(h) => Failures
                                    /\ row' = Recorded({}, done)
  /\ Goto(h, "prune")
  /\ UNCHANGED <<app, ids, dismissed, disk, doubt>> /\ KeepRest

ScanPrune(h) ==
  /\ At(h, "scan", "prune")
  /\ row' = Pruned(row, hd[h].found) /\ app' = KeepApps(row')
  /\ doubt' = doubt \cup (Stranded(row', {}) \X Aspect)
  /\ Reply(h)
  /\ UNCHANGED <<ids, dismissed, disk>> /\ KeepRest

-----------------------------------------------------------------------------
(* The configuration file, the operator, restarts *)

\* postSettings, postPanelCert and the assistant's settings write the whole
\* configuration, whatever it is at that moment.
SaveSettings ==
  /\ up /\ "save" \in menu /\ saved # active
  /\ saved' = active
  /\ UNCHANGED <<db, disk, service, active, up, lock, hd, bound, doubt>>

\* The operator deletes a virtual host of their own.
RemoveConf(d) ==
  /\ "rm" \in menu /\ ops < MaxOps
  /\ d \in Foreign /\ file[ForeignPath[d]][d].by = "operator"
  /\ file' = [file EXCEPT ![ForeignPath[d]][d] = NoFile]
  /\ ops' = ops + 1 /\ Doubting(d, {"vhost"})
  /\ UNCHANGED <<db, backup, pool, docs, unit, conf, up, lock, hd, menu, crashes, late, crossed>>

\* The owner of a site replaces its landing page.
EditPage(d) ==
  /\ "edit" \in menu /\ row[d].source = "managed" /\ docs[d] = "seeded"
  /\ docs' = [docs EXCEPT ![d] = "page"]
  /\ UNCHANGED <<db, file, backup, pool, unit, conf, up, lock, hd, bound, doubt>>

Crash ==
  /\ up /\ crashes < MaxCrash
  /\ up' = FALSE /\ crashes' = crashes + 1
  /\ hd' = [h \in Handler |-> NoHandling] /\ lock' = None
  /\ doubt' = doubt \cup ((UNION {Touched(h) : h \in Handler}) \X Aspect)
  /\ UNCHANGED <<db, disk, conf, menu, ops, late, crossed>>

\* The configuration file decides; ImportExisting, which keeps the dismissals,
\* then ReconcileApps, all before the first request.
Start ==
  LET InSaved == {saved} \cup (IF saved = Home THEN {"other"} ELSE {})
      seen == {d \in Domain : \E p \in InSaved : file[p][d] # NoFile}
      new  == Untracked({d \in Domain \ dismissed :
                           \E p \in InSaved : file[p][d].by = "operator"})
      rows == Pruned(Recorded(new, Domain), seen)
      S    == {d \in Managed(rows) : rows[d].mode = "proxy" => app[d]}
  IN
  /\ ~up
  /\ up' = TRUE /\ active' = saved
  /\ row' = rows /\ app' = KeepApps(rows) /\ ids' = IF new = {} THEN ids ELSE ids + 1
  /\ \E done \in SUBSET S :
       /\ done # S => Failures
       /\ file' = [file EXCEPT ![saved] =
                     [d \in Domain |-> IF d \in done THEN Rendering(rows[d]) ELSE @[d]]]
       /\ doubt' = (doubt \ (done \X {"vhost"})) \cup (Stranded(rows, {}) \X Aspect)
                   \cup (IF saved # active THEN Domain \X {"pool", "stray", "vhost"} ELSE {})
  /\ unit' = [d \in Domain |-> unit[d] \/ (app'[d] /\ rows[d].source = "managed")]
  /\ UNCHANGED <<dismissed, backup, pool, docs, service, saved, lock, hd, bound>>

-----------------------------------------------------------------------------
(* The specification *)

Imported(d) == [NoRow EXCEPT !.id = 1, !.source = "imported", !.ssl = TRUE, !.own = TRUE,
                             !.sub = ParentOf[d] \in Live \cup Foreign, !.conf = ForeignPath[d]]

\* A panel that has served its sites for a while and imported the others.
Init ==
  /\ row = [d \in Domain |-> IF d \in Live THEN [NoRow EXCEPT !.id = 1, !.source = "managed"]
                             ELSE IF d \in Foreign THEN Imported(d) ELSE NoRow]
  /\ app = [d \in Domain |-> FALSE] /\ ids = 1 /\ dismissed = {}
  /\ active = Home /\ saved = Home /\ service = Home
  /\ file = [p \in Path |-> [d \in Domain |->
               IF d \in Live /\ p = Home THEN Rendering(row[d])
               ELSE IF d \in Foreign THEN IF p = ForeignPath[d] THEN Original ELSE NoFile
               ELSE NoFile]]
  /\ backup = [p \in Path |-> [d \in Domain |-> NoFile]]
  /\ pool = [d \in Domain |-> IF d \in Live THEN PoolFor(row[d]) ELSE {}]
  /\ docs = [d \in Domain |-> IF d \in Live THEN "seeded"
                              ELSE IF d \in Foreign THEN "page" ELSE "none"]
  /\ unit = [d \in Domain |-> FALSE]
  /\ up = TRUE /\ lock = None /\ hd = [h \in Handler |-> NoHandling]
  /\ menu \in Menus /\ ops = 0 /\ crashes = 0
  /\ late = {} /\ crossed = {} /\ doubt = {}

Request(h) ==
  \/ \E d \in Domain : \/ Create(h, d) \/ Delete(h, d) \/ Serve(h, d) \/ ChangePhp(h, d)
                        \/ ToggleSSL(h, d) \/ SetProxyApp(h, d) \/ AdoptSite(h, d)
  \/ \E s \in Server : SwitchWebServer(h, s)
  \/ RegenerateAll(h) \/ UpgradeSites(h) \/ ScanSites(h)

Step(h) ==
  \/ CreatePool(h) \/ CreateVHost(h) \/ CreateRow(h)
  \/ DeleteTeardown(h) \/ DeleteDismiss(h) \/ DeleteRows(h)
  \/ ServePersist(h) \/ ServeDropApp(h)
  \/ ProxyApp(h) \/ ProxyPersist(h) \/ ProxyConfigure(h)
  \/ PhpPool(h) \/ RenderSite(h) \/ PersistCerts(h) \/ PersistSSL(h) \/ PersistPhp(h)
  \/ Lock(h) \/ SwitchSites(h) \/ SwitchValidate(h) \/ SwitchSwap(h) \/ SwitchSave(h)
  \/ SwitchRepool(h) \/ SwitchReconcile(h) \/ SwitchRerender(h) \/ SwitchClean(h)
  \/ Regenerate(h) \/ RegenApply(h) \/ Upgrade(h)
  \/ AdoptDisable(h) \/ AdoptPool(h) \/ AdoptVHost(h) \/ AdoptMark(h)
  \/ ScanDirectory(h) \/ ScanDismissals(h) \/ ScanLookUp(h)
  \/ ScanMains(h) \/ ScanSubs(h) \/ ScanGroup(h) \/ ScanPrune(h)

Next ==
  \/ \E h \in Handler : Request(h) \/ Step(h)
  \/ \E d \in Domain : RemoveConf(d) \/ EditPage(d)
  \/ SaveSettings \/ Crash \/ Start

Spec == Init /\ [][Next]_vars

-----------------------------------------------------------------------------
(* Properties *)

Idle == up /\ \A h \in Handler : ~Busy(h)
Sure(d, aspect) == <<d, aspect>> \notin doubt

\* When no request is in flight, the virtual host the active server reads for a
\* managed site is the rendering of its row: failed requests, rolled back
\* creations and adoptions, reverted or completed switches included.  Only
\* overlapping requests on the site and the failures that domains.go leaves
\* half-way (Spoils) are excused, until a regeneration repairs them.
ManagedInSync ==
  Idle => \A d \in Managed(row) : Sure(d, "vhost") => file[active][d] = Rendering(row[d])

\* A managed site has one pool, of its version, whose socket the active server
\* may open: after a switch too, and after a switch that was reverted.
PoolInSync ==
  Idle => \A d \in Managed(row) : Sure(d, "pool") =>
            \E p \in pool[d] : pool[d] = {p} /\ p.php = row[d].php /\ p.owner = active

\* Nothing of the panel's is left for a domain without a managed row, and the
\* inactive server's directory holds no virtual host of a managed one.
NoOrphans ==
  Idle => \A d \in Domain : Sure(d, "stray") =>
    /\ row[d].source # "managed" =>
         pool[d] = {} /\ ~unit[d] /\ \A s \in Server : file[s][d].by # "panel"
    /\ row[d].source = "managed" => \A s \in Server \ {active} : file[s][d].by # "panel"

\* The server the panel writes for is the one that runs, or none does, except
\* while a switch is in progress.
ServiceIsActive ==
  crashes = 0 /\ (\A h \in Handler : hd[h].op # "switch") => service \in {active, None}

\* A site in proxy mode has an app to forward to (renderVHost refuses it else, and
\* its virtual host could never be written again), through deletions, failures and
\* stops in between and whatever else changes the site at the same time.  Only a
\* SetServe and a SetProxyApp at a time are excused: the one may take away the app
\* that the other has set up.
ProxyHasApp == \A d \in Domain : row[d].mode = "proxy" /\ d \notin crossed => app[d]

\* An imported site's own virtual host stands as the operator wrote it, unless
\* an adoption of the site is under way: a failed one has restored it.
ImportUntouched ==
  \A d \in Domain :
    /\ row[d].source = "imported" /\ Sure(d, "vhost")
    /\ \A h \in Handler : hd[h].op = "adopt" => hd[h].d # d
    => file[row[d].conf][d] = Original

\* A managed site in the standard layout has its document root, unless it is one the
\* operator configured: a creation that fails takes only what an earlier site left,
\* never a live site's.  Two creations of the domain at a time are excused: the one
\* that loses the INSERT takes the root of the other.
DocsKept ==
  \A d \in Managed(row) \ (Foreign \cup crossed) : row[d].root = StdRoot => docs[d] # "none"

\* A forgotten import stays forgotten, restarts included and whatever else runs, until
\* a scan asked for by an administrator has cleared the dismissals.  ImportExisting goes
\* by the dismissals as they were when it read them: a domain forgotten while a scan
\* was past that point (late) may be imported by it once more.
ForgottenStays ==
  [][\A d \in (dismissed \cap dismissed') \ late :
       row[d].source = "none" => row'[d].source # "imported"]_vars

\* PHP of a site is confined to the document root of its row.
PoolConfined ==
  Idle => \A d \in Managed(row) : Sure(d, "pool") => \A p \in pool[d] : p.root = row[d].root
=============================================================================
