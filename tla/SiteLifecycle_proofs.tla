------------------------ MODULE SiteLifecycle_proofs ------------------------
(***************************************************************************)
(* What holds of hosted sites for every set of domains, document roots,    *)
(* PHP versions and concurrent requests, whatever fails and wherever the   *)
(* panel stops.                                                            *)
(*                                                                         *)
(* StructInv says where a request of each kind can be and what it holds.   *)
(* CurrentInv adds that what a request read is still so of every site that *)
(* is clear: one that no two operations no lock keeps apart are changing.  *)
(* SiteArtefacts_proofs builds the invariants of the separate parts on     *)
(* these two; the services and the dismissals, which need only the first,  *)
(* are here.                                                               *)
(***************************************************************************)
EXTENDS SiteLifecycle, TLAPS

-----------------------------------------------------------------------------
(* The shape of the state *)

Edits   == {"serve", "proxy", "php", "ssl"}
Guarded == {"switch", "regen", "upgrade", "adopt"}
Past(h, op) == hd[h].op = op /\ hd[h].pc # "lock"

\* Where a request of each kind can be.
Shape(g) ==
  /\ g \in Handling
  /\ g.pc = "idle" => g = NoHandling
  /\ g.pc # "idle" => g.op \in Op /\ IF g.op \in Bulk THEN g.d = None ELSE g.d \in Domain
  /\ g.op = "create"  => g.pc \in {"pool", "render", "insert"}
  /\ g.op = "delete"  => g.pc \in {"forget", "teardown", "drop"}
  /\ g.op = "serve"   => g.pc \in {"persist", "dropapp", "render"}
  /\ g.op = "proxy"   => g.pc \in {"app", "persist", "render", "configure"}
  /\ g.op = "php"     => g.pc \in {"pool", "render", "persist"}
  /\ g.op = "ssl"     => g.pc \in {"render", "certs", "flag"}
  /\ g.op = "switch"  => g.pc \in {"lock", "sites", "validate", "swap", "save", "repool",
                                   "reconcile", "rerender", "clean"}
  /\ g.op = "regen"   => g.pc \in {"lock", "sites", "apply"}
  /\ g.op = "upgrade" => g.pc \in {"lock", "sites"}
  /\ g.op = "adopt"   => g.pc \in {"lock", "disable", "pool", "render", "mark"}
  /\ g.op = "scan"    => g.pc \in {"scan", "dismissals", "lookup", "record", "nest", "group", "prune"}

\* What it has in hand.
Holding(g) ==
  /\ g.op \in Edits \cup {"create"} => g.copy.source = "managed"
  /\ g.op \in Edits \cup {"delete", "adopt"} => g.copy.id \in 1..ids
  /\ g.op \in {"create", "serve"} => g.copy.mode = "files"
  /\ g.op = "proxy" => g.copy.mode = "proxy"
  /\ g.op = "ssl" => (g.copy.ssl => ~g.copy.own) /\ (g.pc = "certs" => g.copy.ssl)
  /\ g.op = "delete" => g.mine \subseteq Reach("delete", g.d)
  /\ g.op = "switch" /\ g.pc # "lock" => g.server # active
  /\ g.op = "scan" => g.mine \subseteq Foreign
  /\ g.op = "adopt" => g.d \in Foreign /\ g.copy.conf = ForeignPath[g.d]

HandlersOK == hd \in [Handler -> Handling] /\ \A h \in Handler : Shape(hd[h]) /\ Holding(hd[h])

RowOK(d) ==
  /\ row[d].source = "none" => row[d] = NoRow
  /\ row[d].source # "none" => row[d].id \in 1..ids
  /\ row[d].source = "imported" => d \in Foreign /\ row[d].conf = ForeignPath[d]

RowsOK == /\ row \in [Domain -> Row] /\ app \in [Domain -> BOOLEAN]
          /\ ids \in Nat /\ dismissed \subseteq Domain
          /\ \A d \in Domain : RowOK(d)

\* An operator's virtual host is only ever where the operator put it.
FileOK(f) ==
  /\ f \in [Path -> [Domain -> VHost]]
  /\ \A p \in Path, d \in Domain :
       /\ f[p][d].by = "operator" => d \in Foreign /\ p = ForeignPath[d] /\ f[p][d] = Original
       /\ f[p][d].by = "nobody" => f[p][d] = NoFile

DiskOK == /\ FileOK(file) /\ FileOK(backup)
          /\ pool \in [Domain -> SUBSET Pool] /\ unit \in [Domain -> BOOLEAN]
          /\ docs \in [Domain -> Docs]

PanelOK == /\ service \in Server \cup {None} /\ saved \in Server /\ active \in Server
           /\ up \in BOOLEAN /\ lock \in Handler \cup {None}
           /\ menu \in Menus /\ ops \in Nat /\ crashes \in Nat
           /\ late \subseteq Domain /\ crossed \subseteq Domain
           /\ doubt \subseteq Domain \X Aspect

LockOK == \A h \in Handler : hd[h].op \in Guarded /\ hd[h].pc # "lock" => lock = h
DownOK == ~up => \A h \in Handler : hd[h] = NoHandling

StructInv == HandlersOK /\ RowsOK /\ DiskOK /\ PanelOK /\ LockOK /\ DownOK

-----------------------------------------------------------------------------
(* Values *)

LEMMA Constants ==
  /\ "apache" \in Server /\ "nginx" \in Server /\ Home \in Server /\ Server \subseteq Path
  /\ "other" \in Path /\ None \notin Domain /\ None \notin Handler /\ None \notin Path
  /\ None \notin Op /\ Foreign \subseteq Domain /\ Live \subseteq Domain
  /\ \A d \in Foreign : ForeignPath[d] \in Path /\ ForeignPath[d] # "nginx"
  BY DomainAssumption DEF Server, Path, Home

LEMMA Values ==
  /\ NoRow \in Row /\ NoRow.source = "none" /\ NoRow.id = 0 /\ NoRow.mode = "files"
  /\ NoFile \in VHost /\ NoFile.by = "nobody" /\ Original \in VHost /\ Original.by = "operator"
  /\ NoHandling \in Handling /\ NoHandling.op = None /\ NoHandling.pc = "idle"
  <1>1. NoRow \in Row /\ NoRow.source = "none" /\ NoRow.id = 0 /\ NoRow.mode = "files"
    BY ValueAssumption DEF NoRow, Row, Mode
  <1>2. NoFile \in VHost /\ NoFile.by = "nobody" /\ Original \in VHost /\ Original.by = "operator"
    BY ValueAssumption DEF NoFile, Original, VHost, Mode
  <1>3. NoHandling \in Handling /\ NoHandling.op = None /\ NoHandling.pc = "idle"
    BY <1>1, Constants DEF NoHandling, Handling, Pc
  <1> QED BY <1>1, <1>2, <1>3

LEMMA Renders ==
  ASSUME NEW r \in Row
  PROVE  Rendering(r) \in VHost /\ Rendering(r).by = "panel"
  BY DEF Rendering, Row, VHost

LEMMA Idling == Shape(NoHandling) /\ Holding(NoHandling)
  <1>1. NoHandling.op \notin Op
    BY Values, Constants
  <1> QED BY <1>1, Values DEF Shape, Holding, Op, Edits, Locked, Bulk

\* A request that is somewhere is of a kind that gets there.
LEMMA Working ==
  ASSUME HandlersOK, NEW h \in Handler
  PROVE  /\ hd[h] \in Handling /\ Shape(hd[h]) /\ Holding(hd[h])
         /\ hd[h].pc = "idle" <=> hd[h].op = None
         /\ hd[h].op \in Op => Busy(h)
         /\ Busy(h) => hd[h].op \in Op
         /\ Busy(h) /\ hd[h].op \notin Bulk => hd[h].d \in Domain
  BY Values, Constants DEF HandlersOK, Shape, Busy

\* One request moves; what the others have in hand stands.
Moves(h) == hd' = [hd EXCEPT ![h] = hd'[h]]

LEMMA Moving ==
  ASSUME HandlersOK, NEW h \in Handler, Moves(h), Shape(hd'[h]), Holding(hd[h])',
         ids \in Nat, ids' \in Nat, ids' >= ids,
         active' = active \/ \A g \in Handler \ {h} : ~Past(g, "switch")
  PROVE  HandlersOK'
  <1>1. \A g \in Handler : g # h => hd'[g] = hd[g]
    BY DEF Moves, HandlersOK
  <1>2. \A g \in Handler : g # h => Shape(hd[g]) /\ Holding(hd[g])'
    BY <1>1 DEF HandlersOK, Holding, Past
  <1> QED BY <1>1, <1>2 DEF HandlersOK, Moves, Shape

LEMMA GoesOn ==
  ASSUME HandlersOK, NEW h \in Handler, NEW pc \in Pc \ {"idle"}, Goto(h, pc)
  PROVE  /\ Moves(h) /\ hd'[h] = [hd[h] EXCEPT !.pc = pc] /\ hd'[h] \in Handling
         /\ hd'[h].pc = pc /\ hd'[h].op = hd[h].op /\ hd'[h].d = hd[h].d
         /\ hd'[h].copy = hd[h].copy /\ hd'[h].mine = hd[h].mine /\ hd'[h].snap = hd[h].snap
         /\ hd'[h].server = hd[h].server /\ hd'[h].quiet = hd[h].quiet
         /\ hd'[h].orig = hd[h].orig /\ hd'[h].found = hd[h].found
  <1> DEFINE new == [hd[h] EXCEPT !.pc = pc]
  <1>1. hd[h] \in Handling /\ hd \in [Handler -> Handling]
    BY DEF HandlersOK
  <1>2. hd' = [hd EXCEPT ![h] = new]
    BY <1>1 DEF Goto
  <1>3. new \in Handling
    BY <1>1 DEF Handling
  <1>4. hd'[h] = new
    BY <1>1, <1>2
  <1>5. /\ new.pc = pc /\ new.op = hd[h].op /\ new.d = hd[h].d
        /\ new.copy = hd[h].copy /\ new.mine = hd[h].mine /\ new.snap = hd[h].snap
        /\ new.server = hd[h].server /\ new.quiet = hd[h].quiet
        /\ new.orig = hd[h].orig /\ new.found = hd[h].found
    BY <1>1 DEF Handling
  <1> HIDE DEF new
  <1>6. Moves(h)
    BY <1>2, <1>4 DEF Moves
  <1> QED BY <1>3, <1>4, <1>5, <1>6 DEF new

LEMMA Replies ==
  ASSUME HandlersOK, NEW h \in Handler, Reply(h)
  PROVE  Moves(h) /\ hd'[h] = NoHandling /\ Shape(hd'[h]) /\ Holding(hd[h])'
  <1>1. hd' = [hd EXCEPT ![h] = NoHandling] /\ hd'[h] = NoHandling
    BY DEF Reply, HandlersOK
  <1>2. Shape(hd'[h])
    BY <1>1, Idling
  <1>3. hd'[h].op \notin Op
    BY <1>1, Values, Constants
  <1>4. Holding(hd[h])'
    BY <1>3 DEF Holding, Op, Edits, Locked, Bulk
  <1> QED BY <1>1, <1>2, <1>4 DEF Moves

LEMMA LockKept ==
  ASSUME LockOK, NEW h \in Handler, HandlersOK, Moves(h), lock' = lock,
         hd'[h].op \in Guarded /\ hd'[h].pc # "lock" => hd[h].op \in Guarded /\ hd[h].pc # "lock"
  PROVE  LockOK'
  BY DEF LockOK, Moves, HandlersOK

LEMMA LockFreed ==
  ASSUME LockOK, NEW h \in Handler, HandlersOK, hd[h].op \in Guarded, hd[h].pc # "lock", Unlock(h)
  PROVE  LockOK'
  <1>1. \A g \in Handler \ {h} : ~(hd[g].op \in Guarded /\ hd[g].pc # "lock") /\ hd'[g] = hd[g]
    BY DEF LockOK, Unlock, Reply, HandlersOK
  <1>2. hd'[h].op \notin Op
    BY Replies, Values, Constants DEF Unlock
  <1>3. Guarded \subseteq Op
    BY DEF Guarded, Op, Locked, Bulk
  <1> QED BY <1>1, <1>2, <1>3 DEF LockOK

LEMMA FilesPut ==
  ASSUME NEW f, FileOK(f), NEW f2 \in [Path -> [Domain -> VHost]],
         \A p \in Path, d \in Domain :
           f2[p][d] = f[p][d] \/ f2[p][d].by = "panel" \/ f2[p][d] = NoFile
  PROVE  FileOK(f2)
  <1> SUFFICES ASSUME NEW p \in Path, NEW d \in Domain
               PROVE  /\ f2[p][d].by = "operator" =>
                           d \in Foreign /\ p = ForeignPath[d] /\ f2[p][d] = Original
                      /\ f2[p][d].by = "nobody" => f2[p][d] = NoFile
    BY DEF FileOK
  <1>1. NoFile.by = "nobody"
    BY Values
  <1> QED BY <1>1 DEF FileOK

LEMMA WritesFile ==
  ASSUME FileOK(file), active \in Server, NEW d \in Domain, NEW r \in Row, Write(d, r)
  PROVE  /\ FileOK(file)'
         /\ \A p \in Path, x \in Domain :
              file'[p][x] = IF p = active /\ x = d THEN Rendering(r) ELSE file[p][x]
  <1>1. Rendering(r) \in VHost /\ Rendering(r).by = "panel"
    BY Renders
  <1>2. active \in Path
    BY Constants
  <1>3. /\ file' \in [Path -> [Domain -> VHost]]
        /\ \A p \in Path, x \in Domain :
              file'[p][x] = IF p = active /\ x = d THEN Rendering(r) ELSE file[p][x]
    BY <1>1, <1>2 DEF Write, FileOK
  <1>4. FileOK(file')
    BY <1>1, <1>3, FilesPut
  <1> QED BY <1>3, <1>4 DEF FileOK

LEMMA RemovesFile ==
  ASSUME FileOK(file), active \in Server, NEW d \in Domain, Remove(d)
  PROVE  /\ FileOK(file)'
         /\ \A p \in Path, x \in Domain :
              file'[p][x] = IF p = active /\ x = d THEN NoFile ELSE file[p][x]
  <1>2. active \in Path /\ NoFile \in VHost
    BY Constants, Values
  <1>3. /\ file' \in [Path -> [Domain -> VHost]]
        /\ \A p \in Path, x \in Domain :
              file'[p][x] = IF p = active /\ x = d THEN NoFile ELSE file[p][x]
    BY <1>2 DEF Remove, FileOK
  <1>4. FileOK(file')
    BY <1>3, FilesPut
  <1> QED BY <1>3, <1>4 DEF FileOK

LEMMA WritesFiles ==
  ASSUME FileOK(file), active \in Server, NEW S \in SUBSET Domain, NEW rows \in [Domain -> Row],
         file' = Written(S, rows)
  PROVE  /\ FileOK(file)'
         /\ \A p \in Path, x \in Domain :
              file'[p][x] = IF p = active /\ x \in S THEN Rendering(rows[x]) ELSE file[p][x]
  <1>1. \A x \in Domain : Rendering(rows[x]) \in VHost /\ Rendering(rows[x]).by = "panel"
    BY Renders
  <1>2. active \in Path
    BY Constants
  <1>3. /\ file' \in [Path -> [Domain -> VHost]]
        /\ \A p \in Path, x \in Domain :
              file'[p][x] = IF p = active /\ x \in S THEN Rendering(rows[x]) ELSE file[p][x]
    BY <1>1, <1>2 DEF Written, FileOK
  <1>4. FileOK(file')
    BY <1>1, <1>3, FilesPut
  <1> QED BY <1>3, <1>4 DEF FileOK

LEMMA Pools ==
  ASSUME NEW r \in Row, active \in Server
  PROVE  PoolFor(r) \in SUBSET Pool
  BY DEF PoolFor, Pool, Row

\* CreateSite.
LEMMA CreateStruct ==
  ASSUME StructInv, NEW h \in Handler, CreatePool(h) \/ CreateVHost(h) \/ CreateRow(h)
  PROVE  StructInv'
  <1> DEFINE d == hd[h].d
             r == hd[h].copy
  <1>1. /\ hd[h].op = "create" /\ hd[h].pc \in {"pool", "render", "insert"} /\ up /\ up'
        /\ UNCHANGED <<conf, lock, bound, backup, unit, app, dismissed>>
    BY DEF CreatePool, CreateVHost, CreateRow, KeepRest, At, db
  <1>2. /\ hd[h] \in Handling /\ r \in Row /\ d \in Domain /\ Shape(hd[h]) /\ Holding(hd[h])
        /\ HandlersOK /\ FileOK(file) /\ active \in Server /\ active' = active
    BY <1>1, Working, Values, Constants DEF StructInv, Op, Handling, Bulk, Busy, Locked, conf, DiskOK, PanelOK
  <1>3. PoolFor(r) \in SUBSET Pool
    BY <1>2, Pools
  <1>4. Goto(h, "render") \/ Goto(h, "insert") \/ Reply(h)
    BY DEF CreatePool, CreateVHost, CreateRow, RollBack
  <1>5. ids' \in Nat /\ ids' >= ids /\ RowsOK'
    <2>1. CASE UNCHANGED <<row, ids>>
      BY <2>1, <1>1 DEF StructInv, RowsOK, RowOK
    <2>2. CASE /\ row[d].source = "none" /\ row' = [row EXCEPT ![d] = [hd[h].copy EXCEPT !.id = ids + 1]]
               /\ ids' = ids + 1
      <3> DEFINE new == [r EXCEPT !.id = ids + 1]
      <3>1. ids \in Nat /\ row \in [Domain -> Row] /\ r.source = "managed"
        BY <1>1, <1>2 DEF StructInv, RowsOK, Holding
      <3>2. new \in Row /\ new.source = "managed" /\ new.id = ids + 1
        BY <1>2, <3>1 DEF Row
      <3> HIDE DEF new
      <3>3. row' \in [Domain -> Row] /\ row' = [row EXCEPT ![d] = new]
        BY <2>2, <1>2, <3>1, <3>2 DEF new
      <3>4. \A x \in Domain : RowOK(x)'
        BY <2>2, <3>1, <3>2, <3>3 DEF StructInv, RowsOK, RowOK
      <3> QED BY <1>1, <2>2, <3>1, <3>3, <3>4 DEF StructInv, RowsOK
    <2> QED BY <2>1, <2>2 DEF CreatePool, CreateVHost, CreateRow, db
  <1>6. Moves(h) /\ Shape(hd'[h]) /\ Holding(hd[h])' /\ (hd'[h].op = "create" \/ hd'[h] = NoHandling)
    <2>1. CASE Reply(h)
      BY <2>1, <1>2, Replies
    <2>2. ASSUME NEW pc \in {"render", "insert"}, Goto(h, pc)
          PROVE  Moves(h) /\ Shape(hd'[h]) /\ Holding(hd[h])' /\ hd'[h].op = "create"
      <3>1. pc \in Pc \ {"idle"}
        BY DEF Pc
      <3>2. /\ Moves(h) /\ hd'[h] \in Handling /\ hd'[h].pc = pc /\ hd'[h].op = "create"
            /\ hd'[h].d = d /\ hd'[h].copy = r
        BY <1>1, <1>2, <2>2, <3>1, GoesOn
      <3>3. Shape(hd'[h])
        BY <1>2, <3>2 DEF Shape, Op, Bulk, Locked
      <3>4. Holding(hd[h])'
        BY <1>1, <1>2, <3>2 DEF Holding, Edits
      <3> QED BY <3>2, <3>3, <3>4
    <2> QED BY <1>4, <2>1, <2>2
  <1>7. HandlersOK'
    BY <1>2, <1>5, <1>6, Moving DEF StructInv, RowsOK
  <1>8. DiskOK'
    <2>1. FileOK(file)'
      BY <1>2, RemovesFile, WritesFile DEF CreatePool, CreateVHost, CreateRow, RollBack, FileOK
    <2>2. pool' \in [Domain -> SUBSET Pool] /\ docs' \in [Domain -> Docs]
      <3>1. pool \in [Domain -> SUBSET Pool] /\ docs \in [Domain -> Docs]
        BY DEF StructInv, DiskOK
      <3>2. UNCHANGED pool \/ \E left \in {{}, PoolFor(r)} : SetPool(d, left)
        BY DEF CreatePool, CreateVHost, CreateRow, RollBack
      <3>3. UNCHANGED docs \/ Provision(d, r) \/ RollBackDocs(d, r)
        BY DEF CreatePool, CreateVHost, CreateRow, RollBack
      <3>4. pool' \in [Domain -> SUBSET Pool]
        BY <1>3, <3>1, <3>2 DEF SetPool
      <3>5. docs' \in [Domain -> Docs]
        BY <3>1, <3>3 DEF Provision, RollBackDocs, Docs
      <3> QED BY <3>4, <3>5
    <2> QED BY <1>1, <2>1, <2>2 DEF StructInv, DiskOK, FileOK
  <1>9. PanelOK'
    <2>1. doubt' \subseteq Domain \X Aspect
      BY <1>2 DEF CreatePool, CreateVHost, CreateRow, Doubting, StructInv, PanelOK, Aspect
    <2> QED BY <1>1, <2>1 DEF StructInv, PanelOK, conf, bound
  <1>10. LockOK'
    BY <1>1, <1>2, <1>6, LockKept, Values, Constants DEF StructInv, Guarded, Op, Locked, Bulk
  <1>11. DownOK'
    BY <1>1 DEF DownOK
  <1> QED BY <1>5, <1>7, <1>8, <1>9, <1>10, <1>11 DEF StructInv

\* DELETE FROM sites.
LEMMA DeletesRows ==
  ASSUME RowsOK, NEW gone \in SUBSET Domain, row' = Deleted(row, gone), app' = KeepApps(row'),
         UNCHANGED <<ids, dismissed>>
  PROVE  /\ RowsOK'
         /\ \A x \in Domain : row'[x] = row[x] \/ row'[x] = NoRow
  <1>1. row' \in [Domain -> Row] /\ \A x \in Domain : row'[x] = row[x] \/ row'[x] = NoRow
    BY Values DEF Deleted, RowsOK
  <1>2. \A x \in Domain : RowOK(x)'
    BY <1>1, Values DEF RowsOK, RowOK
  <1>3. app' \in [Domain -> BOOLEAN]
    BY DEF RowsOK, KeepApps
  <1> QED BY <1>1, <1>2, <1>3 DEF RowsOK

\* UPDATE sites: the row stays the one it was.
LEMMA UpdatesRow ==
  ASSUME RowsOK, NEW d \in Domain, NEW id \in 1..ids, NEW new, Update(d, id, new),
         row[d].source # "none" => /\ new \in Row /\ new.id = row[d].id
                                   /\ new.source = row[d].source /\ new.conf = row[d].conf,
         UNCHANGED <<app, ids, dismissed>>
  PROVE  /\ RowsOK'
         /\ \A x \in Domain : row'[x] = IF x = d /\ row[d].id = id THEN new ELSE row[x]
  <1>1. CASE row[d].id = id
    <2>1. row[d].source # "none"
      BY <1>1, Values DEF RowsOK, RowOK
    <2>2. row' = [row EXCEPT ![d] = new] /\ row' \in [Domain -> Row]
      BY <1>1, <2>1 DEF Update, RowsOK
    <2>3. \A x \in Domain : row'[x] = IF x = d /\ row[d].id = id THEN new ELSE row[x]
      BY <1>1, <2>2 DEF RowsOK
    <2>4. \A x \in Domain : RowOK(x)'
      BY <2>1, <2>3 DEF RowsOK, RowOK
    <2> QED BY <2>2, <2>3, <2>4 DEF RowsOK
  <1>2. CASE row[d].id # id
    BY <1>2 DEF Update, RowsOK, RowOK
  <1> QED BY <1>1, <1>2

\* DeleteSite.
LEMMA DeleteStruct ==
  ASSUME StructInv, NEW h \in Handler, DeleteTeardown(h) \/ DeleteDismiss(h) \/ DeleteRows(h)
  PROVE  StructInv'
  <1> DEFINE d == hd[h].d
  <1>1. /\ hd[h].op = "delete" /\ hd[h].pc \in {"teardown", "forget", "drop"} /\ up /\ up'
        /\ UNCHANGED <<conf, lock, menu, ops, crashes, ids, backup, docs>>
    BY DEF DeleteTeardown, DeleteDismiss, DeleteRows, KeepRest, At, db, disk, bound
  <1>2. /\ hd[h] \in Handling /\ d \in Domain /\ Shape(hd[h]) /\ Holding(hd[h])
        /\ hd[h].mine \in SUBSET Domain
        /\ HandlersOK /\ FileOK(file) /\ active \in Server /\ active' = active /\ ids \in Nat
    BY <1>1, Working, Values, Constants
       DEF StructInv, Op, Handling, Bulk, Busy, Locked, conf, DiskOK, PanelOK, RowsOK
  <1>3. Moves(h) /\ Shape(hd'[h]) /\ Holding(hd[h])' /\ (hd'[h].op = "delete" \/ hd'[h] = NoHandling)
    <2>1. CASE Reply(h)
      BY <2>1, <1>2, Replies
    <2>2. CASE Goto(h, "drop")
      <3>1. /\ Moves(h) /\ hd'[h] \in Handling /\ hd'[h].pc = "drop" /\ hd'[h].op = "delete"
            /\ hd'[h].d = d /\ hd'[h].copy = hd[h].copy /\ hd'[h].mine = hd[h].mine
        BY <1>1, <1>2, <2>2, GoesOn DEF Pc
      <3>2. Shape(hd'[h])
        BY <1>2, <3>1 DEF Shape, Op, Bulk, Locked
      <3>3. Holding(hd[h])'
        BY <1>1, <1>2, <3>1 DEF Holding, Edits, Reach, Bulk
      <3> QED BY <3>1, <3>2, <3>3
    <2> QED BY <2>1, <2>2 DEF DeleteTeardown, DeleteDismiss, DeleteRows
  <1>4. HandlersOK'
    BY <1>1, <1>2, <1>3, Moving DEF StructInv
  <1>5. RowsOK'
    <2>1. CASE UNCHANGED <<row, app>> /\ dismissed' \in {dismissed, dismissed \cup {d}}
      BY <1>1, <1>2, <2>1 DEF StructInv, RowsOK, RowOK
    <2>2. CASE row' = Deleted(row, {d}) /\ app' = KeepApps(row') /\ UNCHANGED dismissed
      BY <1>1, <1>2, <2>2, DeletesRows DEF StructInv
    <2>3. CASE row' = row /\ app' = KeepApps(row') /\ UNCHANGED dismissed
      BY <1>1, <2>3 DEF StructInv, RowsOK, RowOK, KeepApps
    <2> QED BY <2>1, <2>2, <2>3 DEF DeleteTeardown, DeleteDismiss, DeleteRows, db
  <1>6. DiskOK'
    <2>1. CASE UNCHANGED disk
      BY <2>1 DEF StructInv, DiskOK, FileOK, disk
    <2>2. CASE DeleteTeardown(h)
      <3> DEFINE S == hd[h].mine
      <3>1. active \in Path /\ NoFile \in VHost
        BY <1>2, Constants, Values
      <3>2. /\ file' \in [Path -> [Domain -> VHost]]
            /\ \A p \in Path, x \in Domain :
                 file'[p][x] = IF p = active /\ x \in S THEN NoFile ELSE file[p][x]
        BY <1>2, <2>2, <3>1 DEF DeleteTeardown, FileOK
      <3>3. FileOK(file')
        BY <1>2, <3>2, FilesPut
      <3>4. pool' \in [Domain -> SUBSET Pool] /\ unit' \in [Domain -> BOOLEAN]
        BY <2>2 DEF DeleteTeardown, StructInv, DiskOK
      <3> QED BY <1>1, <3>3, <3>4 DEF StructInv, DiskOK, FileOK
    <2> QED BY <2>1, <2>2 DEF DeleteDismiss, DeleteRows
  <1>7. PanelOK'
    <2>1. doubt' \subseteq Domain \X Aspect
      BY <1>2 DEF DeleteTeardown, DeleteDismiss, DeleteRows, Stranded, Managed, StructInv, PanelOK, Aspect
    <2>2. late' \in {late, late \cup {d}, late \ {d}} /\ crossed' = crossed
      BY DEF DeleteTeardown, DeleteDismiss, DeleteRows, KeepRest, bound
    <2> QED BY <1>1, <1>2, <2>1, <2>2 DEF StructInv, PanelOK, conf
  <1>8. LockOK'
    BY <1>1, <1>2, <1>3, LockKept, Values, Constants DEF StructInv, Guarded, Op, Locked, Bulk
  <1>9. DownOK'
    BY <1>1 DEF DownOK
  <1> QED BY <1>4, <1>5, <1>6, <1>7, <1>8, <1>9 DEF StructInv

\* SetServe, SetProxyApp, ChangePHP, EnableSSL, DisableSSL.
EditStep(h) ==
  \/ ServePersist(h) \/ ServeDropApp(h) \/ ProxyApp(h) \/ ProxyPersist(h) \/ ProxyConfigure(h)
  \/ PhpPool(h) \/ RenderSite(h) \/ PersistCerts(h) \/ PersistSSL(h) \/ PersistPhp(h)

\* The row as the statement of this step leaves it.
Persisted(h) ==
  LET now == row[hd[h].d]  r == hd[h].copy IN
  CASE hd[h].op \in {"serve", "proxy"} -> [now EXCEPT !.root = r.root, !.mode = r.mode]
    [] hd[h].op = "php" -> [now EXCEPT !.php = r.php]
    [] hd[h].op = "ssl" /\ hd[h].pc = "certs" -> [now EXCEPT !.own = FALSE]
    [] hd[h].op = "ssl" /\ hd[h].pc # "certs" -> [now EXCEPT !.ssl = r.ssl]

LEMMA EditKinds ==
  ASSUME StructInv, NEW h \in Handler, EditStep(h)
  PROVE  /\ hd[h].op \in Edits /\ Busy(h) /\ hd[h].pc # "lock" /\ up /\ up'
         /\ UNCHANGED <<conf, lock, bound, ids, dismissed, backup>>
         /\ hd[h] \in Handling /\ hd[h].copy \in Row /\ hd[h].copy.id \in 1..ids
         /\ hd[h].d \in Domain /\ Shape(hd[h]) /\ Holding(hd[h])
         /\ HandlersOK /\ FileOK(file) /\ active \in Server /\ active' = active /\ ids \in Nat
  <1>1. /\ hd[h].op \in Edits /\ Busy(h) /\ hd[h].pc # "lock" /\ up /\ up'
        /\ UNCHANGED <<conf, lock, bound, ids, dismissed, backup>>
    <2>1. CASE ServePersist(h) \/ ServeDropApp(h) \/ ProxyApp(h) \/ ProxyPersist(h) \/ ProxyConfigure(h)
      BY <2>1 DEF ServePersist, ServeDropApp, ProxyApp, ProxyPersist, ProxyConfigure, KeepRest, At,
                  db, disk, Edits, Busy
    <2>2. CASE PhpPool(h) \/ PersistCerts(h) \/ PersistSSL(h) \/ PersistPhp(h)
      BY <2>2 DEF PhpPool, PersistCerts, PersistSSL, PersistPhp, PersistLast, KeepRest, At, db, disk,
                  Edits, Busy
    <2>3. CASE RenderSite(h)
      BY <2>3 DEF RenderSite, KeepRest, db, disk, Edits, Busy
    <2> QED BY <2>1, <2>2, <2>3 DEF EditStep
  <1>2. HandlersOK /\ FileOK(file) /\ active \in Server /\ active' = active /\ ids \in Nat
    BY <1>1 DEF StructInv, DiskOK, PanelOK, RowsOK, conf
  <1>3. hd[h] \in Handling /\ hd[h].d \in Domain /\ Shape(hd[h]) /\ Holding(hd[h])
    BY <1>1, <1>2, Working DEF Edits, Bulk
  <1>4. hd[h].copy \in Row /\ hd[h].copy.id \in 1..ids
    BY <1>1, <1>3 DEF Holding, Handling
  <1> QED BY <1>1, <1>2, <1>3, <1>4

LEMMA EditMoves ==
  ASSUME StructInv, NEW h \in Handler, EditStep(h)
  PROVE  \/ Reply(h)
         \/ \E pc \in Pc \ {"idle"} : Goto(h, pc) /\
              \/ hd[h].op = "serve" /\ hd[h].pc = "persist" /\ pc = "dropapp"
              \/ hd[h].op = "serve" /\ hd[h].pc = "dropapp" /\ pc = "render"
              \/ hd[h].op = "proxy" /\ hd[h].pc = "app" /\ pc = "persist"
              \/ hd[h].op = "proxy" /\ hd[h].pc = "persist" /\ pc = "render"
              \/ hd[h].op = "proxy" /\ hd[h].pc = "render" /\ pc = "configure"
              \/ hd[h].op = "php" /\ hd[h].pc = "pool" /\ pc = "render"
              \/ hd[h].op = "php" /\ hd[h].pc = "render" /\ pc = "persist"
              \/ hd[h].op = "ssl" /\ hd[h].pc = "render" /\ pc = "certs" /\ hd[h].copy.ssl
              \/ hd[h].op = "ssl" /\ hd[h].pc = "render" /\ pc = "flag" /\ ~hd[h].copy.ssl
              \/ hd[h].op = "ssl" /\ hd[h].pc = "certs" /\ pc = "flag"
  <1>1. CASE RenderSite(h)
    <2>1. CASE Reply(h)
      BY <2>1
    <2>2. CASE ~Reply(h)
      <3>1. CASE hd[h].op = "ssl"
        <4>1. Goto(h, IF hd[h].copy.ssl THEN "certs" ELSE "flag") /\ hd[h].pc = "render"
          BY <1>1, <2>2, <3>1 DEF RenderSite
        <4> QED BY <3>1, <4>1 DEF Pc
      <3>2. CASE hd[h].op = "php"
        <4>1. Goto(h, "persist") /\ hd[h].pc = "render"
          BY <1>1, <2>2, <3>2 DEF RenderSite
        <4> QED BY <3>2, <4>1 DEF Pc
      <3>3. CASE hd[h].op = "proxy"
        <4>1. Goto(h, "configure") /\ hd[h].pc = "render"
          BY <1>1, <2>2, <3>3 DEF RenderSite
        <4> QED BY <3>3, <4>1 DEF Pc
      <3>4. CASE hd[h].op = "serve"
        BY <1>1, <2>2, <3>4 DEF RenderSite
      <3> QED BY <1>1, <3>1, <3>2, <3>3, <3>4 DEF RenderSite
    <2> QED BY <2>1, <2>2
  <1>2. CASE ServePersist(h) \/ ServeDropApp(h) \/ ProxyApp(h) \/ ProxyPersist(h) \/ ProxyConfigure(h)
    BY <1>2 DEF ServePersist, ServeDropApp, ProxyApp, ProxyPersist, ProxyConfigure, At, Pc
  <1>3. CASE PhpPool(h) \/ PersistCerts(h) \/ PersistSSL(h) \/ PersistPhp(h)
    BY <1>3 DEF PhpPool, PersistCerts, PersistSSL, PersistPhp, PersistLast, At, Pc
  <1> QED BY <1>1, <1>2, <1>3 DEF EditStep

LEMMA EditRows ==
  ASSUME StructInv, NEW h \in Handler, EditStep(h)
  PROVE  \/ UNCHANGED row
         \/ Update(hd[h].d, hd[h].copy.id, Persisted(h)) /\ UNCHANGED app
  <1>1. CASE ServePersist(h) \/ ProxyPersist(h)
    <2>1. Persisted(h) = [row[hd[h].d] EXCEPT !.root = hd[h].copy.root, !.mode = hd[h].copy.mode]
      BY <1>1 DEF ServePersist, ProxyPersist, Persisted, At
    <2> QED BY <1>1, <2>1 DEF ServePersist, ProxyPersist
  <1>2. CASE PersistPhp(h)
    <2>1. Persisted(h) = [row[hd[h].d] EXCEPT !.php = hd[h].copy.php]
      BY <1>2 DEF PersistPhp, PersistLast, Persisted, At
    <2> QED BY <1>2, <2>1 DEF PersistPhp, PersistLast
  <1>3. CASE PersistCerts(h)
    <2>1. Persisted(h) = [row[hd[h].d] EXCEPT !.own = FALSE]
      BY <1>3 DEF PersistCerts, PersistLast, Persisted, At
    <2> QED BY <1>3, <2>1 DEF PersistCerts, PersistLast
  <1>4. CASE PersistSSL(h)
    <2>1. Persisted(h) = [row[hd[h].d] EXCEPT !.ssl = hd[h].copy.ssl]
      BY <1>4 DEF PersistSSL, PersistLast, Persisted, At
    <2> QED BY <1>4, <2>1 DEF PersistSSL, PersistLast
  <1>5. CASE ServeDropApp(h) \/ ProxyApp(h) \/ ProxyConfigure(h) \/ PhpPool(h) \/ RenderSite(h)
    BY <1>5 DEF ServeDropApp, ProxyApp, ProxyConfigure, PhpPool, RenderSite, db
  <1> QED BY <1>1, <1>2, <1>3, <1>4, <1>5 DEF EditStep

LEMMA EditUpdates ==
  ASSUME StructInv, NEW h \in Handler, EditStep(h)
  PROVE  /\ RowsOK'
         /\ \A x \in Domain : row'[x] = row[x] \/ (x = hd[h].d /\ row[x].id = hd[h].copy.id
                                                   /\ row'[x] = Persisted(h))
         /\ \A x \in Domain : /\ row'[x].id = row[x].id /\ row'[x].source = row[x].source
                              /\ row'[x].sub = row[x].sub /\ row'[x].conf = row[x].conf
  <1> DEFINE d == hd[h].d
             now == row[d]
             new == Persisted(h)
  <1>1. /\ d \in Domain /\ hd[h].op \in Edits /\ now \in Row /\ hd[h].copy \in Row
        /\ hd[h].copy.id \in 1..ids /\ UNCHANGED <<ids, dismissed>> /\ RowsOK
    BY EditKinds DEF StructInv, RowsOK
  <1>2. /\ new \in Row /\ new.id = now.id /\ new.source = now.source
        /\ new.sub = now.sub /\ new.conf = now.conf
    BY <1>1 DEF Persisted, Row, Edits
  <1>3. app' \in [Domain -> BOOLEAN]
    <2>1. app \in [Domain -> BOOLEAN]
      BY <1>1 DEF RowsOK
    <2> QED BY <2>1 DEF EditStep, ServePersist, ServeDropApp, ProxyApp, ProxyPersist, ProxyConfigure,
                 PhpPool, RenderSite, PersistCerts, PersistSSL, PersistPhp, PersistLast, db
  <1> HIDE DEF new
  <1>4. CASE UNCHANGED row
    BY <1>1, <1>3, <1>4 DEF RowsOK, RowOK
  <1>5. CASE Update(d, hd[h].copy.id, new) /\ UNCHANGED app
    <2>1. /\ RowsOK'
          /\ \A x \in Domain : row'[x] = IF x = d /\ now.id = hd[h].copy.id THEN new ELSE row[x]
      BY <1>1, <1>2, <1>5, UpdatesRow
    <2> QED BY <1>2, <2>1 DEF new
  <1> QED BY <1>4, <1>5, EditRows DEF new

LEMMA EditStruct ==
  ASSUME StructInv, NEW h \in Handler, EditStep(h)
  PROVE  StructInv'
  <1> DEFINE d == hd[h].d
             r == hd[h].copy
  <1>1. /\ hd[h].op \in Edits /\ hd[h].pc # "lock" /\ up /\ up'
        /\ UNCHANGED <<conf, lock, bound, ids, dismissed, backup>>
        /\ hd[h] \in Handling /\ r \in Row /\ d \in Domain /\ Shape(hd[h]) /\ Holding(hd[h])
        /\ HandlersOK /\ FileOK(file) /\ active \in Server /\ active' = active /\ ids \in Nat
    BY EditKinds
  <1>2. Moves(h) /\ Shape(hd'[h]) /\ Holding(hd[h])' /\ (hd'[h].op \in Edits \/ hd'[h] = NoHandling)
    <2>1. CASE Reply(h)
      BY <2>1, <1>1, Replies
    <2>2. CASE ~Reply(h)
      <3>1. PICK pc \in Pc \ {"idle"} : Goto(h, pc) /\
              \/ hd[h].op = "serve" /\ hd[h].pc = "persist" /\ pc = "dropapp"
              \/ hd[h].op = "serve" /\ hd[h].pc = "dropapp" /\ pc = "render"
              \/ hd[h].op = "proxy" /\ hd[h].pc = "app" /\ pc = "persist"
              \/ hd[h].op = "proxy" /\ hd[h].pc = "persist" /\ pc = "render"
              \/ hd[h].op = "proxy" /\ hd[h].pc = "render" /\ pc = "configure"
              \/ hd[h].op = "php" /\ hd[h].pc = "pool" /\ pc = "render"
              \/ hd[h].op = "php" /\ hd[h].pc = "render" /\ pc = "persist"
              \/ hd[h].op = "ssl" /\ hd[h].pc = "render" /\ pc = "certs" /\ hd[h].copy.ssl
              \/ hd[h].op = "ssl" /\ hd[h].pc = "render" /\ pc = "flag" /\ ~hd[h].copy.ssl
              \/ hd[h].op = "ssl" /\ hd[h].pc = "certs" /\ pc = "flag"
        BY <2>2, EditMoves
      <3>2. /\ Moves(h) /\ hd'[h] \in Handling /\ hd'[h].pc = pc /\ hd'[h].op = hd[h].op
            /\ hd'[h].d = d /\ hd'[h].copy = r
        BY <1>1, <3>1, GoesOn
      <3>3. Shape(hd'[h])
        BY <1>1, <3>1, <3>2 DEF Shape, Op, Bulk, Locked, Edits
      <3>4. Holding(hd[h])'
        BY <1>1, <3>1, <3>2 DEF Holding, Edits
      <3> QED BY <1>1, <3>2, <3>3, <3>4
    <2> QED BY <2>1, <2>2
  <1>3. HandlersOK'
    BY <1>1, <1>2, Moving
  <1>4. RowsOK'
    BY EditUpdates
  <1>5. DiskOK'
    <2>1. FileOK(file)'
      <3>1. UNCHANGED file \/ Write(d, r)
        BY DEF EditStep, ServePersist, ServeDropApp, ProxyApp, ProxyPersist, ProxyConfigure,
               PhpPool, RenderSite, PersistCerts, PersistSSL, PersistPhp, PersistLast, disk
      <3> QED BY <1>1, <3>1, WritesFile DEF FileOK
    <2>2. pool' \in [Domain -> SUBSET Pool]
      <3>1. UNCHANGED pool \/ \E left \in {{}, PoolFor(r)} : SetPool(d, left)
        BY DEF EditStep, ServePersist, ServeDropApp, ProxyApp, ProxyPersist, ProxyConfigure,
               PhpPool, RenderSite, PersistCerts, PersistSSL, PersistPhp, PersistLast, disk
      <3>2. PoolFor(r) \in SUBSET Pool
        BY <1>1, Pools
      <3> QED BY <3>1, <3>2 DEF SetPool, StructInv, DiskOK
    <2>3. docs' \in [Domain -> Docs]
      <3>1. UNCHANGED docs \/ Provision(d, r)
        BY DEF EditStep, ServePersist, ServeDropApp, ProxyApp, ProxyPersist, ProxyConfigure,
               PhpPool, RenderSite, PersistCerts, PersistSSL, PersistPhp, PersistLast, disk
      <3> QED BY <3>1 DEF Provision, Docs, StructInv, DiskOK
    <2>4. unit' \in [Domain -> BOOLEAN]
      <3>1. unit \in [Domain -> BOOLEAN]
        BY DEF StructInv, DiskOK
      <3> QED BY <3>1 DEF EditStep, ServePersist, ServeDropApp, ProxyApp, ProxyPersist, ProxyConfigure,
               PhpPool, RenderSite, PersistCerts, PersistSSL, PersistPhp, PersistLast, disk
    <2> QED BY <1>1, <2>1, <2>2, <2>3, <2>4 DEF StructInv, DiskOK, FileOK
  <1>6. PanelOK'
    <2>1. UNCHANGED doubt \/ Doubting(d, Spoils(hd[h].op)) \/ Doubting(d, Spoils("php"))
      BY DEF EditStep, ServePersist, ServeDropApp, ProxyApp, ProxyPersist, ProxyConfigure,
             PhpPool, RenderSite, PersistCerts, PersistSSL, PersistPhp, PersistLast, At
    <2>2. doubt' \subseteq Domain \X Aspect
      BY <1>1, <2>1 DEF StructInv, PanelOK, Doubting, Spoils, Aspect
    <2> QED BY <1>1, <2>2 DEF StructInv, PanelOK, conf, bound
  <1>7. LockOK'
    BY <1>1, <1>2, LockKept, Values, Constants DEF StructInv, Guarded, Edits, Op, Locked, Bulk
  <1>8. DownOK'
    BY <1>1 DEF DownOK
  <1> QED BY <1>3, <1>4, <1>5, <1>6, <1>7, <1>8 DEF StructInv

\* The operations on all sites, once they hold switchMu.
BulkStep(h) ==
  \/ SwitchSites(h) \/ SwitchValidate(h) \/ SwitchSwap(h) \/ SwitchSave(h) \/ SwitchRepool(h)
  \/ SwitchReconcile(h) \/ SwitchRerender(h) \/ SwitchClean(h)
  \/ Regenerate(h) \/ RegenApply(h) \/ Upgrade(h)

LEMMA BulkKinds ==
  ASSUME StructInv, NEW h \in Handler, BulkStep(h)
  PROVE  /\ hd[h].op \in {"switch", "regen", "upgrade"} /\ Busy(h) /\ hd[h].pc # "lock"
         /\ lock = h /\ up /\ up' /\ UNCHANGED <<db, bound, backup, docs>>
         /\ hd[h] \in Handling /\ hd[h].server \in Server
         /\ hd[h].mine \in SUBSET Domain /\ hd[h].snap \in [Domain -> Row]
         /\ Shape(hd[h]) /\ Holding(hd[h])
         /\ \A g \in Handler \ {h} : hd[g].op \in Guarded => hd[g].pc = "lock"
         /\ HandlersOK /\ FileOK(file) /\ active \in Server /\ ids \in Nat
  <1>1. /\ hd[h].op \in {"switch", "regen", "upgrade"} /\ Busy(h) /\ hd[h].pc # "lock" /\ up /\ up'
        /\ UNCHANGED <<db, bound, backup, docs>>
    <2>1. CASE \/ SwitchSites(h) \/ SwitchValidate(h) \/ SwitchSwap(h) \/ SwitchSave(h) \/ SwitchRepool(h)
      BY <2>1 DEF SwitchSites, SwitchValidate, SwitchSwap, SwitchSave, SwitchRepool, KeepRest, At,
                  db, disk, Busy
    <2>2. CASE \/ SwitchReconcile(h) \/ SwitchRerender(h) \/ SwitchClean(h)
               \/ Regenerate(h) \/ RegenApply(h) \/ Upgrade(h)
      BY <2>2 DEF SwitchReconcile, SwitchRerender, SwitchClean, Regenerate, RegenApply, Upgrade,
                  KeepRest, At, db, disk, Busy
    <2> QED BY <2>1, <2>2 DEF BulkStep
  <1>2. HandlersOK /\ FileOK(file) /\ active \in Server /\ ids \in Nat /\ LockOK
    BY DEF StructInv, DiskOK, PanelOK, RowsOK
  <1>3. hd[h] \in Handling /\ Shape(hd[h]) /\ Holding(hd[h])
    BY <1>2, Working
  <1>4. lock = h /\ \A g \in Handler \ {h} : hd[g].op \in Guarded => hd[g].pc = "lock"
    BY <1>1, <1>2 DEF LockOK, Guarded
  <1> QED BY <1>1, <1>2, <1>3, <1>4 DEF Handling

LEMMA BulkMoves ==
  ASSUME StructInv, NEW h \in Handler, BulkStep(h)
  PROVE  \/ Unlock(h)
         \/ \E pc \in Pc \ {"idle"} : Goto(h, pc) /\ lock' = lock /\ active' = active /\
              \/ hd[h].op = "switch" /\ hd[h].pc = "sites" /\ pc = "validate"
              \/ hd[h].op = "switch" /\ hd[h].pc = "validate" /\ pc = "swap"
              \/ hd[h].op = "switch" /\ hd[h].pc = "swap" /\ pc = "save"
              \/ hd[h].op = "switch" /\ hd[h].pc = "save" /\ pc = "repool"
              \/ hd[h].op = "switch" /\ hd[h].pc = "repool" /\ pc = "reconcile"
              \/ hd[h].op = "switch" /\ hd[h].pc = "rerender" /\ pc = "clean"
              \/ hd[h].op = "regen" /\ hd[h].pc = "sites" /\ pc = "apply"
         \/ /\ hd[h].op = "switch" /\ hd[h].pc = "reconcile" /\ lock' = lock /\ active' = active
            /\ hd' = [hd EXCEPT ![h].pc = "rerender", ![h].snap = row]
  <1>1. CASE \/ SwitchSites(h) \/ SwitchValidate(h) \/ SwitchSwap(h) \/ SwitchSave(h)
    BY <1>1 DEF SwitchSites, SwitchValidate, SwitchSwap, SwitchSave, At, Revert, Pc
  <1>2. CASE SwitchRepool(h) \/ SwitchRerender(h) \/ SwitchClean(h)
    BY <1>2 DEF SwitchRepool, SwitchRerender, SwitchClean, At, Pc, KeepRest, conf
  <1>3. CASE SwitchReconcile(h)
    BY <1>3 DEF SwitchReconcile, At, KeepRest, conf
  <1>4. CASE Regenerate(h) \/ RegenApply(h) \/ Upgrade(h)
    BY <1>4 DEF Regenerate, RegenApply, Upgrade, At, Pc, conf
  <1> QED BY <1>1, <1>2, <1>3, <1>4 DEF BulkStep

LEMMA SnapMoves ==
  ASSUME StructInv, NEW h \in Handler, hd' = [hd EXCEPT ![h].pc = "rerender", ![h].snap = row]
  PROVE  /\ Moves(h) /\ hd'[h] = [hd[h] EXCEPT !.pc = "rerender", !.snap = row] /\ hd'[h] \in Handling
         /\ hd'[h].pc = "rerender" /\ hd'[h].op = hd[h].op /\ hd'[h].d = hd[h].d
         /\ hd'[h].copy = hd[h].copy /\ hd'[h].mine = hd[h].mine /\ hd'[h].snap = row
         /\ hd'[h].server = hd[h].server /\ hd'[h].quiet = hd[h].quiet
  <1> DEFINE new == [hd[h] EXCEPT !.pc = "rerender", !.snap = row]
  <1>1. hd[h] \in Handling /\ hd \in [Handler -> Handling] /\ row \in [Domain -> Row]
    BY DEF StructInv, HandlersOK, RowsOK
  <1>2. hd' = [hd EXCEPT ![h] = new]
    BY <1>1
  <1>3. new \in Handling
    BY <1>1 DEF Handling, Pc
  <1>4. hd'[h] = new
    BY <1>1, <1>2
  <1>5. /\ new.pc = "rerender" /\ new.op = hd[h].op /\ new.d = hd[h].d
        /\ new.copy = hd[h].copy /\ new.mine = hd[h].mine /\ new.snap = row
        /\ new.server = hd[h].server /\ new.quiet = hd[h].quiet
    BY <1>1 DEF Handling
  <1> HIDE DEF new
  <1>6. Moves(h)
    BY <1>2, <1>4 DEF Moves
  <1> QED BY <1>3, <1>4, <1>5, <1>6 DEF new

\* What each of them does to the disk and the rest.
LEMMA BulkWrites ==
  ASSUME StructInv, NEW h \in Handler, BulkStep(h)
  PROVE  /\ \/ UNCHANGED file
            \/ \E S \in SUBSET Domain : file' = Written(S, hd[h].snap)
            \/ /\ hd[h].op = "switch"
               /\ file' = [file EXCEPT ![hd[h].server] =
                             [d \in Domain |-> IF d \in hd[h].mine THEN NoFile ELSE @[d]]]
         /\ \/ UNCHANGED pool
            \/ \E S, gone \in SUBSET Domain :
                 pool' = [d \in Domain |-> IF d \in gone THEN {}
                                           ELSE IF d \in S THEN PoolFor(hd[h].snap[d]) ELSE pool[d]]
         /\ unit' \in {unit, ReconciledUnits}
         /\ active' \in {active, hd[h].server} /\ saved' \in {saved, active}
         /\ service' \in {service, active, hd[h].server, None}
         /\ doubt' \subseteq doubt \cup (Domain \X Aspect)
  <1> DEFINE S == hd[h].mine
  <1>0. S \in SUBSET Domain
    BY BulkKinds
  <1>1. CASE SwitchSites(h)
    <2>1. \/ file' = Written(S, hd[h].snap)
          \/ \E T \in SUBSET S : file' = Written(T, hd[h].snap)
      BY <1>1 DEF SwitchSites
    <2>2. doubt' \subseteq doubt \cup (Domain \X Aspect) /\ active' \in {active, hd[h].server}
      BY <1>1 DEF SwitchSites, Revert, All, Aspect
    <2> QED BY <1>0, <1>1, <2>1, <2>2 DEF SwitchSites
  <1>2. CASE SwitchValidate(h) \/ SwitchSwap(h) \/ SwitchSave(h)
    BY <1>2 DEF SwitchValidate, SwitchSwap, SwitchSave, Revert, All, Aspect, disk
  <1>3. ASSUME NEW failed \in SUBSET S, Repool(S, hd[h].snap, failed)
        PROVE  /\ \E T, gone \in SUBSET Domain :
                    pool' = [d \in Domain |-> IF d \in gone THEN {}
                                              ELSE IF d \in T THEN PoolFor(hd[h].snap[d]) ELSE pool[d]]
               /\ doubt' \subseteq doubt \cup (Domain \X Aspect)
    BY <1>0, <1>3 DEF Repool, Aspect
  <1>4. CASE SwitchRepool(h) \/ Upgrade(h)
    BY <1>3, <1>4 DEF SwitchRepool, Upgrade, KeepRest, conf
  <1>5. CASE SwitchReconcile(h)
    BY <1>5 DEF SwitchReconcile, KeepRest, conf
  <1>6. CASE SwitchRerender(h)
    <2>1. \E T \in SUBSET Domain : file' = Written(T, hd[h].snap)
      BY <1>6 DEF SwitchRerender, Managed
    <2> QED BY <1>6, <2>1 DEF SwitchRerender, KeepRest, conf
  <1>7. CASE SwitchClean(h)
    BY <1>7 DEF SwitchClean, At, conf
  <1>8. CASE Regenerate(h)
    <2>1. PICK done \in SUBSET S :
            /\ file' = Written({d \in done : Renderable(d, hd[h].snap[d])}, hd[h].snap)
            /\ pool' = [d \in Domain |-> IF d \in done THEN PoolFor(hd[h].snap[d]) ELSE pool[d]]
            /\ doubt' \in {doubt, doubt \cup (S \X {"vhost", "pool"})}
      BY <1>8 DEF Regenerate
    <2>2. {d \in done : Renderable(d, hd[h].snap[d])} \in SUBSET Domain /\ done \in SUBSET Domain
      BY <1>0
    <2>3. pool' = [d \in Domain |-> IF d \in {} THEN {}
                                    ELSE IF d \in done THEN PoolFor(hd[h].snap[d]) ELSE pool[d]]
      BY <2>1
    <2>4. \E T, gone \in SUBSET Domain :
            pool' = [d \in Domain |-> IF d \in gone THEN {}
                                      ELSE IF d \in T THEN PoolFor(hd[h].snap[d]) ELSE pool[d]]
      BY <2>2, <2>3
    <2>5. doubt' \subseteq doubt \cup (Domain \X Aspect)
      BY <1>0, <2>1 DEF Aspect
    <2> QED BY <1>8, <2>1, <2>2, <2>4, <2>5 DEF Regenerate, conf
  <1>9. CASE RegenApply(h)
    BY <1>9 DEF RegenApply, disk, conf
  <1> QED BY <1>1, <1>2, <1>4, <1>5, <1>6, <1>7, <1>8, <1>9 DEF BulkStep

LEMMA BulkStruct ==
  ASSUME StructInv, NEW h \in Handler, BulkStep(h)
  PROVE  StructInv'
  <1>1. /\ hd[h].op \in {"switch", "regen", "upgrade"} /\ hd[h].pc # "lock"
        /\ lock = h /\ up /\ up' /\ UNCHANGED <<db, bound, backup, docs>>
        /\ hd[h] \in Handling /\ hd[h].server \in Server
        /\ hd[h].mine \in SUBSET Domain /\ hd[h].snap \in [Domain -> Row]
        /\ Shape(hd[h]) /\ Holding(hd[h])
        /\ \A g \in Handler \ {h} : hd[g].op \in Guarded => hd[g].pc = "lock"
        /\ HandlersOK /\ FileOK(file) /\ active \in Server /\ ids \in Nat
    BY BulkKinds
  <1>2. /\ Moves(h) /\ Shape(hd'[h]) /\ Holding(hd[h])'
        /\ \/ Unlock(h)
           \/ hd'[h].op = hd[h].op /\ hd'[h].pc # "lock" /\ lock' = lock
    <2>1. CASE Unlock(h)
      BY <2>1, <1>1, Replies DEF Unlock
    <2>2. ASSUME hd'[h] \in Handling, hd'[h].op = hd[h].op, hd'[h].d = hd[h].d, hd'[h].copy = hd[h].copy,
                 hd'[h].mine = hd[h].mine, hd'[h].server = hd[h].server, active' = active,
                 hd'[h].pc # "idle",
                 hd[h].op = "switch" => hd'[h].pc \in {"validate", "swap", "save", "repool",
                                                       "reconcile", "rerender", "clean"},
                 hd[h].op = "regen" => hd'[h].pc = "apply",
                 hd[h].op # "upgrade"
          PROVE  Shape(hd'[h]) /\ Holding(hd[h])' /\ hd'[h].pc # "lock"
      <3>1. Shape(hd'[h]) /\ hd'[h].pc # "lock"
        BY <1>1, <2>2 DEF Shape, Op, Bulk, Locked
      <3>2. Holding(hd[h])'
        BY <1>1, <2>2 DEF Holding, Edits
      <3> QED BY <3>1, <3>2
    <2>3. ASSUME NEW pc \in Pc \ {"idle"}, Goto(h, pc), lock' = lock, active' = active,
              \/ hd[h].op = "switch" /\ hd[h].pc = "sites" /\ pc = "validate"
              \/ hd[h].op = "switch" /\ hd[h].pc = "validate" /\ pc = "swap"
              \/ hd[h].op = "switch" /\ hd[h].pc = "swap" /\ pc = "save"
              \/ hd[h].op = "switch" /\ hd[h].pc = "save" /\ pc = "repool"
              \/ hd[h].op = "switch" /\ hd[h].pc = "repool" /\ pc = "reconcile"
              \/ hd[h].op = "switch" /\ hd[h].pc = "rerender" /\ pc = "clean"
              \/ hd[h].op = "regen" /\ hd[h].pc = "sites" /\ pc = "apply"
          PROVE  Moves(h) /\ Shape(hd'[h]) /\ Holding(hd[h])' /\ hd'[h].op = hd[h].op /\ hd'[h].pc # "lock"
      <3>1. /\ Moves(h) /\ hd'[h] \in Handling /\ hd'[h].pc = pc /\ hd'[h].op = hd[h].op
            /\ hd'[h].d = hd[h].d /\ hd'[h].copy = hd[h].copy /\ hd'[h].mine = hd[h].mine
            /\ hd'[h].server = hd[h].server
        BY <1>1, <2>3, GoesOn
      <3> QED BY <2>2, <2>3, <3>1
    <2>4. CASE /\ hd[h].op = "switch" /\ hd[h].pc = "reconcile" /\ lock' = lock /\ active' = active
               /\ hd' = [hd EXCEPT ![h].pc = "rerender", ![h].snap = row]
      <3>1. /\ Moves(h) /\ hd'[h] \in Handling /\ hd'[h].pc = "rerender" /\ hd'[h].op = hd[h].op
            /\ hd'[h].d = hd[h].d /\ hd'[h].copy = hd[h].copy /\ hd'[h].mine = hd[h].mine
            /\ hd'[h].server = hd[h].server
        BY <2>4, SnapMoves
      <3> QED BY <2>2, <2>4, <3>1
    <2> QED BY <2>1, <2>3, <2>4, BulkMoves
  <1>3. HandlersOK'
    <2>1. \A g \in Handler \ {h} : ~Past(g, "switch")
      BY <1>1 DEF Past, Guarded
    <2> QED BY <1>1, <1>2, <2>1, Moving DEF db
  <1>4. RowsOK'
    BY <1>1 DEF StructInv, RowsOK, RowOK, db
  <1>5. DiskOK'
    <2>1. FileOK(file)'
      <3>1. CASE /\ hd[h].op = "switch"
                 /\ file' = [file EXCEPT ![hd[h].server] =
                             [d \in Domain |-> IF d \in hd[h].mine THEN NoFile ELSE @[d]]]
        <4>1. hd[h].server \in Path /\ NoFile \in VHost
          BY <1>1, Constants, Values
        <4>2. /\ file' \in [Path -> [Domain -> VHost]]
              /\ \A p \in Path, x \in Domain :
                   file'[p][x] = IF p = hd[h].server /\ x \in hd[h].mine THEN NoFile ELSE file[p][x]
          BY <1>1, <3>1, <4>1 DEF FileOK
        <4>3. FileOK(file')
          BY <1>1, <4>2, FilesPut
        <4> QED BY <4>3 DEF FileOK
      <3>2. ASSUME NEW S \in SUBSET Domain, file' = Written(S, hd[h].snap)
            PROVE  FileOK(file)'
        BY <1>1, <3>2, WritesFiles
      <3> QED BY <1>1, <3>1, <3>2, BulkWrites DEF FileOK
    <2>2. pool' \in [Domain -> SUBSET Pool]
      <3>1. \A x \in Domain : PoolFor(hd[h].snap[x]) \in SUBSET Pool
        BY <1>1, Pools
      <3>2. pool \in [Domain -> SUBSET Pool]
        BY DEF StructInv, DiskOK
      <3>3. ASSUME NEW S \in SUBSET Domain, NEW gone \in SUBSET Domain,
                   pool' = [d \in Domain |-> IF d \in gone THEN {}
                                             ELSE IF d \in S THEN PoolFor(hd[h].snap[d]) ELSE pool[d]]
            PROVE  pool' \in [Domain -> SUBSET Pool]
        BY <3>1, <3>2, <3>3
      <3> QED BY <3>2, <3>3, BulkWrites
    <2>3. unit' \in [Domain -> BOOLEAN]
      BY BulkWrites DEF StructInv, DiskOK, ReconciledUnits, RowsOK
    <2> QED BY <1>1, <2>1, <2>2, <2>3 DEF StructInv, DiskOK, FileOK
  <1>6. PanelOK'
    <2>1. lock' \in Handler \cup {None}
      BY <1>1, <1>2 DEF Unlock
    <2> QED BY <1>1, <2>1, BulkWrites DEF StructInv, PanelOK, bound
  <1>7. LockOK'
    <2>1. CASE Unlock(h)
      BY <1>1, <2>1, LockFreed DEF StructInv, Guarded
    <2>2. CASE lock' = lock
      BY <1>1, <1>2, <2>2, LockKept DEF StructInv, Guarded
    <2> QED BY <1>2, <2>1, <2>2
  <1>8. DownOK'
    BY <1>1 DEF DownOK
  <1> QED BY <1>3, <1>4, <1>5, <1>6, <1>7, <1>8 DEF StructInv

\* switchMu is taken.
LEMMA LockStruct ==
  ASSUME StructInv, NEW h \in Handler, Lock(h)
  PROVE  StructInv'
  <1> DEFINE g == hd[h]
             rows == IF g.op = "upgrade" THEN g.snap ELSE row
             listed == [g EXCEPT !.pc = "sites", !.snap = rows, !.mine = Managed(rows)]
             switching == [listed EXCEPT !.server = active]
             adopting == [g EXCEPT !.pc = "disable",
                            !.copy = [row[g.d] EXCEPT !.source = "managed", !.php = g.copy.php]]
  <1>1. /\ g.op \in Guarded /\ g.pc = "lock" /\ lock = None /\ up /\ up'
        /\ UNCHANGED <<db, disk, service, saved, bound, doubt>>
    BY DEF Lock, Guarded
  <1>2. /\ g \in Handling /\ g.server \in Server /\ g.snap \in [Domain -> Row] /\ g.copy \in Row
        /\ Shape(g) /\ Holding(g) /\ HandlersOK /\ active \in Server
        /\ RowsOK /\ row \in [Domain -> Row] /\ ids \in Nat /\ hd \in [Handler -> Handling]
        /\ \A k \in Handler : hd[k].op \in Guarded => hd[k].pc = "lock"
    BY <1>1, Working, Constants DEF StructInv, PanelOK, RowsOK, Handling, LockOK, HandlersOK
  <1>3. rows \in [Domain -> Row] /\ Managed(rows) \subseteq Domain
    BY <1>2 DEF Managed
  <1> HIDE DEF rows
  <1>4. /\ listed \in Handling /\ listed.pc = "sites" /\ listed.op = g.op /\ listed.d = g.d
        /\ listed.copy = g.copy /\ listed.server = g.server
        /\ switching \in Handling /\ switching.pc = "sites" /\ switching.op = g.op /\ switching.d = g.d
        /\ switching.copy = g.copy /\ switching.server = active
    BY <1>2, <1>3 DEF Handling, Pc
  <1>5. /\ \/ (Reply(h) /\ UNCHANGED <<lock, active>>)
           \/ /\ g.op = "switch" /\ g.server # active /\ active' = g.server /\ lock' = h
              /\ hd' = [hd EXCEPT ![h] = switching]
           \/ g.op \in {"regen", "upgrade"} /\ lock' = h /\ hd' = [hd EXCEPT ![h] = listed] /\ UNCHANGED active
           \/ /\ g.op = "adopt" /\ lock' = h /\ hd' = [hd EXCEPT ![h] = adopting] /\ UNCHANGED active
              /\ row[g.d].source = "imported"
    BY <1>1, <1>2 DEF Lock, rows
  <1>6. /\ Moves(h) /\ Shape(hd'[h]) /\ Holding(hd[h])' /\ active' \in Server
        /\ (hd'[h] = NoHandling /\ lock' = lock) \/ lock' = h
    <2>1. CASE Reply(h) /\ UNCHANGED <<lock, active>>
      BY <1>2, <2>1, Replies
    <2>2. CASE /\ g.op = "switch" /\ g.server # active /\ active' = g.server /\ lock' = h
               /\ hd' = [hd EXCEPT ![h] = switching]
      <3> HIDE DEF switching
      <3>1. hd'[h] = switching /\ Moves(h)
        BY <1>2, <2>2 DEF Moves
      <3>2. Shape(hd'[h])
        BY <1>2, <1>4, <2>2, <3>1 DEF Shape, Op, Bulk, Locked
      <3>3. Holding(hd[h])'
        BY <1>2, <1>4, <2>2, <3>1 DEF Holding, Edits
      <3> QED BY <1>2, <2>2, <3>1, <3>2, <3>3
    <2>3. CASE g.op \in {"regen", "upgrade"} /\ lock' = h /\ hd' = [hd EXCEPT ![h] = listed] /\ UNCHANGED active
      <3> HIDE DEF listed
      <3>1. hd'[h] = listed /\ Moves(h)
        BY <1>2, <2>3 DEF Moves
      <3>2. Shape(hd'[h])
        BY <1>2, <1>4, <2>3, <3>1 DEF Shape, Op, Bulk, Locked
      <3>3. Holding(hd[h])'
        BY <1>2, <1>4, <2>3, <3>1 DEF Holding, Edits
      <3> QED BY <1>2, <2>3, <3>1, <3>2, <3>3
    <2>4. CASE /\ g.op = "adopt" /\ lock' = h /\ hd' = [hd EXCEPT ![h] = adopting] /\ UNCHANGED active
               /\ row[g.d].source = "imported"
      <3>1. g.d \in Domain
        BY <1>1, <1>2, <2>4, Working, Constants DEF Holding
      <3>2. /\ adopting \in Handling /\ adopting.pc = "disable" /\ adopting.op = "adopt" /\ adopting.d = g.d
            /\ adopting.copy.id \in 1..ids /\ adopting.copy.conf = ForeignPath[g.d]
        <4> DEFINE copied == [row[g.d] EXCEPT !.source = "managed", !.php = g.copy.php]
        <4>1. copied \in Row /\ copied.id = row[g.d].id /\ copied.conf = row[g.d].conf
          BY <1>2, <3>1 DEF Row
        <4>2. row[g.d].id \in 1..ids /\ row[g.d].conf = ForeignPath[g.d]
          BY <1>2, <2>4, <3>1 DEF RowsOK, RowOK
        <4> HIDE DEF copied
        <4>3. adopting = [g EXCEPT !.pc = "disable", !.copy = copied]
          BY DEF copied
        <4> QED BY ZenonT(30), <1>2, <2>4, <4>1, <4>2, <4>3 DEF Handling, Pc
      <3> HIDE DEF adopting
      <3>3. hd'[h] = adopting /\ Moves(h)
        BY <1>2, <2>4 DEF Moves
      <3>4. Shape(hd'[h])
        BY <1>2, <2>4, <3>1, <3>2, <3>3 DEF Shape, Op, Bulk, Locked
      <3>5. Holding(hd[h])'
        BY <1>1, <1>2, <2>4, <3>2, <3>3 DEF Holding, Edits, db
      <3> QED BY <1>2, <2>4, <3>3, <3>4, <3>5
    <2> QED BY <1>5, <2>1, <2>2, <2>3, <2>4
  <1>7. HandlersOK'
    <2>1. \A k \in Handler \ {h} : ~Past(k, "switch")
      BY <1>2 DEF Past, Guarded
    <2> QED BY <1>1, <1>2, <1>6, <2>1, Moving DEF db
  <1>8. RowsOK' /\ DiskOK' /\ PanelOK' /\ DownOK'
    BY <1>1, <1>6 DEF StructInv, RowsOK, RowOK, DiskOK, FileOK, PanelOK, DownOK, db, disk, bound
  <1>9. LockOK'
    <2>1. \A k \in Handler \ {h} : hd'[k] = hd[k]
      BY <1>2, <1>6 DEF Moves
    <2>2. NoHandling.op \notin Guarded
      BY Values, Constants DEF Guarded, Op, Locked, Bulk
    <2> QED BY <1>2, <1>6, <2>1, <2>2 DEF LockOK
  <1> QED BY <1>7, <1>8, <1>9 DEF StructInv

\* AdoptSite.
AdoptStep(h) == AdoptDisable(h) \/ AdoptPool(h) \/ AdoptVHost(h) \/ AdoptMark(h)

LEMMA AdoptKinds ==
  ASSUME StructInv, NEW h \in Handler, AdoptStep(h)
  PROVE  /\ hd[h].op = "adopt" /\ hd[h].pc \in {"disable", "pool", "render", "mark"} /\ Busy(h)
         /\ lock = h /\ up /\ up' /\ UNCHANGED <<app, ids, dismissed, docs, unit, conf, bound>>
         /\ hd[h] \in Handling /\ hd[h].copy \in Row /\ hd[h].d \in Domain /\ hd[h].d \in Foreign
         /\ hd[h].orig \in SUBSET Path
         /\ Shape(hd[h]) /\ Holding(hd[h])
         /\ \A g \in Handler \ {h} : hd[g].op \in Guarded => hd[g].pc = "lock"
         /\ HandlersOK /\ FileOK(file) /\ FileOK(backup) /\ active \in Server /\ active' = active /\ ids \in Nat
  <1>1. /\ hd[h].op = "adopt" /\ hd[h].pc \in {"disable", "pool", "render", "mark"} /\ Busy(h)
        /\ up /\ up' /\ UNCHANGED <<app, ids, dismissed, docs, unit, conf, bound>>
    BY DEF AdoptStep, AdoptDisable, AdoptPool, AdoptVHost, AdoptMark, At, Busy, db, disk
  <1>2. HandlersOK /\ FileOK(file) /\ FileOK(backup) /\ active \in Server /\ ids \in Nat /\ LockOK
    BY DEF StructInv, DiskOK, PanelOK, RowsOK
  <1>3. hd[h] \in Handling /\ Shape(hd[h]) /\ Holding(hd[h]) /\ hd[h].d \in Foreign
    BY <1>1, <1>2, Working DEF Holding
  <1>4. lock = h /\ \A g \in Handler \ {h} : hd[g].op \in Guarded => hd[g].pc = "lock"
    BY <1>1, <1>2 DEF LockOK, Guarded
  <1>5. hd[h].d \in Domain /\ hd[h].copy \in Row /\ hd[h].orig \in SUBSET Path
    BY <1>3, Constants DEF Handling
  <1> QED BY <1>1, <1>2, <1>3, <1>4, <1>5 DEF conf

LEMMA MovesFiles ==
  ASSUME NEW f, FileOK(f), NEW to, FileOK(to), NEW P \in SUBSET Path, NEW d \in Domain
  PROVE  /\ FileOK(Move(f, to, P, d))
         /\ \A p \in Path, x \in Domain :
              Move(f, to, P, d)[p][x] = IF x = d /\ p \in P THEN f[p][d] ELSE to[p][x]
  <1>1. /\ Move(f, to, P, d) \in [Path -> [Domain -> VHost]]
        /\ \A p \in Path, x \in Domain :
              Move(f, to, P, d)[p][x] = IF x = d /\ p \in P THEN f[p][d] ELSE to[p][x]
    BY DEF Move, FileOK
  <1> DEFINE m == Move(f, to, P, d)
  <1>2. \A p \in Path, x \in Domain : m[p][x] = f[p][x] \/ m[p][x] = to[p][x]
    BY <1>1
  <1> HIDE DEF m
  <1>3. FileOK(m)
    BY <1>1, <1>2 DEF FileOK, m
  <1> QED BY <1>1, <1>3 DEF m

LEMMA ErasesFiles ==
  ASSUME NEW f, FileOK(f), NEW P \in SUBSET Path, NEW d \in Domain
  PROVE  /\ FileOK(Erase(f, P, d))
         /\ \A p \in Path, x \in Domain :
              Erase(f, P, d)[p][x] = IF x = d /\ p \in P THEN NoFile ELSE f[p][x]
  <1>1. /\ Erase(f, P, d) \in [Path -> [Domain -> VHost]]
        /\ \A p \in Path, x \in Domain :
              Erase(f, P, d)[p][x] = IF x = d /\ p \in P THEN NoFile ELSE f[p][x]
    BY Values DEF Erase, FileOK
  <1>2. FileOK(Erase(f, P, d))
    BY <1>1, FilesPut
  <1> QED BY <1>1, <1>2

LEMMA AdoptFiles ==
  ASSUME StructInv, NEW h \in Handler, AdoptStep(h)
  PROVE  FileOK(file)' /\ FileOK(backup)' /\ pool' \in [Domain -> SUBSET Pool]
  <1> DEFINE d == hd[h].d
  <1>1. /\ hd[h].copy \in Row /\ d \in Domain /\ active \in Server /\ hd[h].orig \in SUBSET Path
        /\ FileOK(file) /\ FileOK(backup)
    BY AdoptKinds
  <1>2. pool' \in [Domain -> SUBSET Pool]
    <2>1. PoolFor(hd[h].copy) \in SUBSET Pool /\ pool \in [Domain -> SUBSET Pool]
      BY <1>1, Pools DEF StructInv, DiskOK
    <2>2. UNCHANGED pool \/ SetPool(d, {}) \/ SetPool(d, PoolFor(hd[h].copy))
      BY DEF AdoptStep, AdoptDisable, AdoptPool, AdoptVHost, AdoptMark, Restore, disk
    <2> QED BY <2>1, <2>2 DEF SetPool
  <1>3. CASE UNCHANGED <<file, backup>>
    BY <1>1, <1>2, <1>3 DEF FileOK
  <1>4. CASE Restore(h)
    <2>1. {active} \in SUBSET Path
      BY <1>1, Constants
    <2>2. FileOK(Erase(file, {active}, d))
      BY <1>1, <2>1, ErasesFiles
    <2>3. FileOK(Erase(backup, hd[h].orig, d))
      BY <1>1, ErasesFiles
    <2>4. FileOK(Move(backup, Erase(file, {active}, d), hd[h].orig, d))
      <3> DEFINE e == Erase(file, {active}, d)
      <3>1. FileOK(e)
        BY <2>2
      <3> HIDE DEF e
      <3>2. FileOK(Move(backup, e, hd[h].orig, d))
        BY ZenonT(30), <1>1, <3>1, MovesFiles
      <3> QED BY <3>2 DEF e
    <2> QED BY ZenonT(30), <1>2, <1>4, <2>2, <2>3, <2>4 DEF Restore, FileOK
  <1>5. CASE Write(d, hd[h].copy) /\ UNCHANGED backup
    BY <1>1, <1>2, <1>5, WritesFile DEF FileOK
  <1>6. ASSUME NEW P \in SUBSET Path, backup' = Move(file, backup, P, d), file' = Erase(file, P, d)
        PROVE  FileOK(file)' /\ FileOK(backup)'
    <2>1. FileOK(Erase(file, P, d))
      BY <1>1, ErasesFiles
    <2>2. FileOK(Move(file, backup, P, d))
      BY <1>1, MovesFiles
    <2> QED BY <1>6, <2>1, <2>2 DEF FileOK
  <1>7. \/ UNCHANGED <<file, backup>> \/ Restore(h) \/ (Write(d, hd[h].copy) /\ UNCHANGED backup)
        \/ \E P \in SUBSET Path : backup' = Move(file, backup, P, d) /\ file' = Erase(file, P, d)
    <2>1. FilesOf(d) \subseteq Path
      BY <1>1, Constants DEF FilesOf, InDir
    <2>2. \A p : p \in {hd[h].copy.conf} /\ p # None => p \in Path
      BY <1>1 DEF Row
    <2>3. CASE AdoptDisable(h)
      <3> DEFINE P == IF FilesOf(d) # {} THEN FilesOf(d)
                      ELSE {p \in {hd[h].copy.conf} : file[p][d] # NoFile}
      <3>1. \/ UNCHANGED <<file, backup>>
            \/ backup' = Move(file, backup, P, d) /\ file' = Erase(file, P, d)
        BY <2>3 DEF AdoptDisable
      <3> DEFINE Q == P \cap Path
      <3>2. Move(file, backup, P, d) = Move(file, backup, Q, d) /\ Erase(file, P, d) = Erase(file, Q, d)
        <4> HIDE DEF P
        <4> QED BY DEF Move, Erase
      <3> QED BY <3>1, <3>2
    <2>4. CASE AdoptPool(h) \/ AdoptVHost(h) \/ AdoptMark(h)
      BY <2>4 DEF AdoptPool, AdoptVHost, AdoptMark, disk
    <2> QED BY <2>3, <2>4 DEF AdoptStep
  <1> QED BY <1>2, <1>3, <1>4, <1>5, <1>6, <1>7

LEMMA AdoptMoves ==
  ASSUME StructInv, NEW h \in Handler, AdoptStep(h)
  PROVE  \/ Unlock(h)
         \/ /\ lock' = lock /\ Moves(h) /\ hd'[h] \in Handling /\ hd'[h].op = "adopt" /\ hd'[h].d = hd[h].d
            /\ hd'[h].copy = hd[h].copy /\ hd'[h].quiet = hd[h].quiet
            /\ \/ hd[h].pc = "disable" /\ hd'[h].pc = "pool"
               \/ hd[h].pc = "pool" /\ hd'[h].pc = "render" /\ hd'[h].orig = hd[h].orig
               \/ hd[h].pc = "render" /\ hd'[h].pc = "mark" /\ hd'[h].orig = hd[h].orig
  <1>1. hd[h].op = "adopt" /\ HandlersOK /\ hd[h] \in Handling
    BY AdoptKinds
  <1>2. CASE AdoptDisable(h)
    <2> DEFINE d == hd[h].d
               P == IF FilesOf(d) # {} THEN FilesOf(d)
                    ELSE {p \in {hd[h].copy.conf} : file[p][d] # NoFile}
               new == [hd[h] EXCEPT !.pc = "pool", !.orig = P]
    <2>1. hd[h].pc = "disable" /\ (Unlock(h) \/ (hd' = [hd EXCEPT ![h].pc = "pool", ![h].orig = P] /\ lock' = lock))
      BY <1>2 DEF AdoptDisable, At
    <2>2. CASE hd' = [hd EXCEPT ![h].pc = "pool", ![h].orig = P] /\ lock' = lock
      <3>1. P \subseteq Path
        <4>1. hd[h].copy.conf \in Path /\ active \in Server
          BY AdoptKinds, Constants DEF Holding
        <4>2. FilesOf(d) \subseteq Path
          BY <4>1, Constants DEF FilesOf, InDir
        <4> QED BY <4>1, <4>2
      <3> HIDE DEF P
      <3>2. hd' = [hd EXCEPT ![h] = new] /\ new \in Handling /\ new.pc = "pool" /\ new.op = "adopt"
            /\ new.d = hd[h].d /\ new.copy = hd[h].copy /\ new.quiet = hd[h].quiet
        BY <1>1, <2>2, <3>1 DEF Handling, HandlersOK, Pc
      <3> HIDE DEF new
      <3>3. hd'[h] = new /\ Moves(h)
        BY <1>1, <3>2 DEF HandlersOK, Moves
      <3> QED BY <2>1, <2>2, <3>2, <3>3
    <2> QED BY <2>1, <2>2
  <1>3. CASE AdoptPool(h)
    <2>1. hd[h].pc = "pool" /\ (Unlock(h) \/ (Goto(h, "render") /\ lock' = lock))
      BY <1>3 DEF AdoptPool, Restore, At
    <2>2. "render" \in Pc \ {"idle"}
      BY DEF Pc
    <2> QED BY <1>1, <2>1, <2>2, GoesOn
  <1>4. CASE AdoptVHost(h)
    <2>1. hd[h].pc = "render" /\ (Unlock(h) \/ (Goto(h, "mark") /\ lock' = lock))
      BY <1>4 DEF AdoptVHost, Restore, At
    <2>2. "mark" \in Pc \ {"idle"}
      BY DEF Pc
    <2> QED BY <1>1, <2>1, <2>2, GoesOn
  <1>5. CASE AdoptMark(h)
    BY <1>5 DEF AdoptMark
  <1> QED BY <1>2, <1>3, <1>4, <1>5 DEF AdoptStep

\* MarkSiteManaged.
LEMMA AdoptRows ==
  ASSUME StructInv, NEW h \in Handler, AdoptStep(h)
  PROVE  /\ RowsOK'
         /\ \/ UNCHANGED row
            \/ \E d \in Foreign :
                 /\ hd[h].pc = "mark" /\ d = hd[h].d /\ row[d].id = hd[h].copy.id /\ Unlock(h) /\ UNCHANGED doubt
                 /\ row' = [row EXCEPT ![d] = [row[d] EXCEPT !.source = "managed",
                                               !.php = hd[h].copy.php, !.conf = None]]
  <1>1. /\ UNCHANGED <<app, ids, dismissed>> /\ hd[h].d \in Domain /\ hd[h].d \in Foreign
        /\ hd[h].copy \in Row /\ hd[h].copy.id \in 1..ids /\ ids \in Nat /\ RowsOK
    BY AdoptKinds DEF StructInv, Holding
  <1>2. CASE UNCHANGED row
    BY <1>1, <1>2 DEF RowsOK, RowOK
  <1>3. ASSUME NEW d \in Foreign, d = hd[h].d,
               row' = [row EXCEPT ![d] = [row[d] EXCEPT !.source = "managed",
                                          !.php = hd[h].copy.php, !.conf = None]],
               row[d].source # "none"
        PROVE  RowsOK'
    <2> DEFINE new == [row[d] EXCEPT !.source = "managed", !.php = hd[h].copy.php, !.conf = None]
    <2>1. new \in Row /\ new.source = "managed" /\ new.id = row[d].id
      BY <1>1, <1>3 DEF Row, RowsOK
    <2> HIDE DEF new
    <2>2. row' = [row EXCEPT ![d] = new]
      BY <1>3 DEF new
    <2> QED BY <1>1, <1>3, <2>1, <2>2 DEF RowsOK, RowOK
  <1>4. \/ UNCHANGED row
        \/ \E d \in Foreign :
                 /\ hd[h].pc = "mark" /\ d = hd[h].d /\ row[d].id = hd[h].copy.id /\ Unlock(h) /\ UNCHANGED doubt
                 /\ row' = [row EXCEPT ![d] = [row[d] EXCEPT !.source = "managed",
                                               !.php = hd[h].copy.php, !.conf = None]]
    <2>1. CASE AdoptDisable(h) \/ AdoptPool(h) \/ AdoptVHost(h)
      BY <2>1 DEF AdoptDisable, AdoptPool, AdoptVHost, db
    <2>2. CASE AdoptMark(h)
      BY <1>1, <2>2 DEF AdoptMark, Update, At
    <2> QED BY <2>1, <2>2 DEF AdoptStep
  <1>5. row[hd[h].d].source = "none" => row[hd[h].d].id # hd[h].copy.id
    BY <1>1, Values DEF RowsOK, RowOK
  <1> QED BY <1>2, <1>3, <1>4, <1>5

LEMMA AdoptStruct ==
  ASSUME StructInv, NEW h \in Handler, AdoptStep(h)
  PROVE  StructInv'
  <1>1. /\ hd[h].op = "adopt" /\ hd[h].pc # "lock" /\ up /\ up'
        /\ UNCHANGED <<app, ids, dismissed, docs, unit, conf, bound>>
        /\ hd[h] \in Handling /\ hd[h].d \in Domain /\ Shape(hd[h]) /\ Holding(hd[h])
        /\ HandlersOK /\ active \in Server /\ active' = active /\ ids \in Nat
    BY AdoptKinds
  <1>2. /\ Moves(h) /\ Shape(hd'[h]) /\ Holding(hd[h])'
        /\ \/ Unlock(h)
           \/ hd'[h].op = hd[h].op /\ hd'[h].pc # "lock" /\ lock' = lock
    <2>1. CASE Unlock(h)
      BY <2>1, <1>1, Replies DEF Unlock
    <2>2. CASE ~Unlock(h)
      <3>1. /\ lock' = lock /\ Moves(h) /\ hd'[h] \in Handling /\ hd'[h].op = "adopt" /\ hd'[h].d = hd[h].d
            /\ hd'[h].copy = hd[h].copy /\ hd'[h].pc \in {"pool", "render", "mark"}
        BY <2>2, AdoptMoves
      <3>2. Shape(hd'[h])
        BY <1>1, <3>1 DEF Shape, Op, Bulk, Locked
      <3>3. Holding(hd[h])'
        BY <1>1, <3>1 DEF Holding, Edits
      <3> QED BY <1>1, <3>1, <3>2, <3>3
    <2> QED BY <2>1, <2>2
  <1>3. HandlersOK'
    BY <1>1, <1>2, Moving
  <1>4. RowsOK'
    BY AdoptRows
  <1>5. DiskOK'
    BY <1>1, AdoptFiles DEF StructInv, DiskOK
  <1>6. PanelOK'
    <2>1. lock' \in Handler \cup {None}
      BY <1>2 DEF Unlock, StructInv, PanelOK
    <2>2. UNCHANGED doubt \/ Doubting(hd[h].d, Aspect)
      BY DEF AdoptStep, AdoptDisable, AdoptPool, AdoptVHost, AdoptMark
    <2>3. doubt' \subseteq Domain \X Aspect
      BY <1>1, <2>2 DEF Doubting, StructInv, PanelOK
    <2> QED BY <1>1, <2>1, <2>3 DEF StructInv, PanelOK, bound, conf
  <1>7. LockOK'
    <2>1. CASE Unlock(h)
      BY <1>1, <2>1, LockFreed DEF StructInv, Guarded
    <2>2. CASE lock' = lock
      BY <1>1, <1>2, <2>2, LockKept DEF StructInv, Guarded
    <2> QED BY <1>2, <2>1, <2>2
  <1>8. DownOK'
    BY <1>1 DEF DownOK
  <1> QED BY <1>3, <1>4, <1>5, <1>6, <1>7, <1>8 DEF StructInv

\* ImportExisting: what it records and what it prunes.
LEMMA RecordsRows ==
  ASSUME RowsOK, NEW new \in SUBSET Foreign, NEW nested
  PROVE  LET rows == Recorded(new, nested) IN
         /\ rows \in [Domain -> Row]
         /\ \A x \in Domain : x \notin new =>
              /\ rows[x].id = row[x].id /\ rows[x].source = row[x].source /\ rows[x].conf = row[x].conf
              /\ row[x].source # "imported" => rows[x] = row[x]
         /\ \A x \in new : /\ rows[x].id = ids + 1 /\ rows[x].source = "imported"
                           /\ rows[x].conf = ForeignPath[x]
  <1> DEFINE fresh(x) == [NoRow EXCEPT !.id = ids + 1, !.source = "imported", !.ssl = TRUE,
                                       !.own = TRUE, !.conf = ForeignPath[x]]
             mid == [x \in Domain |-> IF x \in new THEN fresh(x) ELSE row[x]]
             out == [x \in Domain |-> IF x \in nested /\ mid[x].source = "imported"
                                      THEN [mid[x] EXCEPT !.sub = @ \/ ParentIn(x, mid)] ELSE mid[x]]
  <1>1. \A x \in new : /\ fresh(x) \in Row /\ fresh(x).id = ids + 1 /\ fresh(x).source = "imported"
                       /\ fresh(x).conf = ForeignPath[x]
    <2> TAKE x \in new
    <2>1. ForeignPath[x] \in Path /\ ids + 1 \in Nat
      BY Constants DEF RowsOK
    <2>2. NoRow \in Row
      BY Values
    <2> QED BY <2>1, <2>2 DEF Row
  <1> HIDE DEF fresh
  <1>2. \A x \in Domain : mid[x] \in Row /\ mid[x] = IF x \in new THEN fresh(x) ELSE row[x]
    BY <1>1 DEF RowsOK
  <1> HIDE DEF mid
  <1>3. \A x \in Domain : ParentIn(x, mid) \in BOOLEAN
    BY DEF ParentIn
  <1>4. \A x \in Domain : /\ out[x] \in Row /\ out[x].id = mid[x].id /\ out[x].source = mid[x].source
                          /\ out[x].conf = mid[x].conf
                          /\ mid[x].source # "imported" => out[x] = mid[x]
    BY <1>2, <1>3 DEF Row
  <1>5. out = Recorded(new, nested)
    BY DEF Recorded, mid, fresh
  <1>6. out \in [Domain -> Row]
    BY <1>4
  <1> HIDE DEF out
  <1>7. \A x \in Domain : x \notin new =>
              /\ out[x].id = row[x].id /\ out[x].source = row[x].source /\ out[x].conf = row[x].conf
              /\ row[x].source # "imported" => out[x] = row[x]
    BY <1>2, <1>4
  <1>8. \A x \in new : out[x].id = ids + 1 /\ out[x].source = "imported" /\ out[x].conf = ForeignPath[x]
    BY <1>1, <1>2, <1>4, Constants
  <1> QED BY <1>5, <1>6, <1>7, <1>8

LEMMA PrunesRows ==
  ASSUME NEW rows \in [Domain -> Row], NEW seen
  PROVE  /\ Pruned(rows, seen) \in [Domain -> Row]
         /\ \A x \in Domain : Pruned(rows, seen)[x] = rows[x] \/ Pruned(rows, seen)[x] = NoRow
  BY Values DEF Pruned, Deleted

\* What a scan reads, what it records, and what it prunes.
ScanReads(h)  == ScanDirectory(h) \/ ScanDismissals(h) \/ ScanLookUp(h)
ScanRecord(h) == ScanMains(h) \/ ScanSubs(h) \/ ScanGroup(h)
ScanStep(h)   == ScanReads(h) \/ ScanRecord(h) \/ ScanPrune(h)

LEMMA ScanKinds ==
  ASSUME NEW h \in Handler, ScanStep(h)
  PROVE  /\ hd[h].op = "scan" /\ up /\ up' /\ UNCHANGED up
         /\ hd[h].pc \in {"scan", "dismissals", "lookup", "record", "nest", "group", "prune"}
         /\ UNCHANGED <<disk, conf, lock, bound>> /\ UNCHANGED disk /\ UNCHANGED conf
         /\ doubt' = doubt \/ doubt' = doubt \cup (Stranded(row', {}) \X Aspect)
  <1>1. CASE ScanReads(h)
    BY <1>1 DEF ScanReads, ScanDirectory, ScanDismissals, ScanLookUp, At, KeepRest, conf
  <1>2. CASE ScanRecord(h)
    BY <1>2 DEF ScanRecord, ScanMains, ScanSubs, ScanInserts, ScanGroup, At, KeepRest, conf
  <1>3. CASE ScanPrune(h)
    BY <1>3 DEF ScanPrune, At, KeepRest, conf
  <1> QED BY <1>1, <1>2, <1>3 DEF ScanStep

LEMMA ScanReading ==
  ASSUME StructInv, NEW h \in Handler, ScanReads(h)
  PROVE  /\ Moves(h) /\ hd'[h] \in Handling /\ UNCHANGED <<row, app, ids, doubt>>
         /\ hd'[h].op = "scan" /\ hd'[h].pc \in {"dismissals", "lookup", "record"}
         /\ hd'[h].d = hd[h].d /\ hd'[h].quiet = hd[h].quiet /\ hd'[h].mine \subseteq Foreign
         /\ ScanDirectory(h) => hd'[h].pc = "dismissals" /\ hd'[h].mine = Unmanaged /\ dismissed' = {}
         /\ ~ScanDirectory(h) => hd'[h].mine \subseteq hd[h].mine /\ dismissed' = dismissed
         /\ ScanDismissals(h) => hd'[h].mine \cap dismissed = {}
         /\ ScanLookUp(h) => hd[h].pc = "lookup"
  <1>1. /\ hd[h] \in Handling /\ hd \in [Handler -> Handling] /\ HandlersOK /\ FileOK(file)
        /\ active \in Server /\ row \in [Domain -> Row] /\ Holding(hd[h]) /\ hd[h].op = "scan"
    BY ScanKinds DEF StructInv, HandlersOK, DiskOK, PanelOK, RowsOK, ScanStep
  <1>2. hd[h].mine \subseteq Foreign /\ hd[h].mine \subseteq Domain
    BY <1>1 DEF Holding, Handling
  <1>3. Unmanaged \subseteq Foreign
    BY <1>1, Constants DEF Unmanaged, FilesOf, InDir, FileOK
  <1>4. Unmanaged \in SUBSET Domain /\ Seen \in SUBSET Domain
    BY DEF Unmanaged, Seen
  <1> DEFINE read == [hd[h] EXCEPT !.pc = "dismissals", !.mine = Unmanaged, !.found = Seen]
             kept == [hd[h] EXCEPT !.pc = "lookup", !.mine = @ \ dismissed]
             free == [hd[h] EXCEPT !.pc = "record", !.mine = Untracked(@), !.snap = row]
  <1>5. /\ read \in Handling /\ read.pc = "dismissals" /\ read.op = "scan" /\ read.mine = Unmanaged
        /\ read.d = hd[h].d /\ read.quiet = hd[h].quiet
    BY <1>1, <1>4 DEF Handling, Pc
  <1>6. /\ kept \in Handling /\ kept.pc = "lookup" /\ kept.op = "scan"
        /\ kept.mine = hd[h].mine \ dismissed /\ kept.d = hd[h].d /\ kept.quiet = hd[h].quiet
    BY <1>1, <1>2 DEF Handling, Pc
  <1>7. Untracked(hd[h].mine) \subseteq hd[h].mine
    BY DEF Untracked
  <1>8. /\ free \in Handling /\ free.pc = "record" /\ free.op = "scan"
        /\ free.mine = Untracked(hd[h].mine) /\ free.d = hd[h].d /\ free.quiet = hd[h].quiet
    BY <1>1, <1>2, <1>7 DEF Handling, Pc
  <1>9. ScanDirectory(h) => hd' = [hd EXCEPT ![h] = read] /\ dismissed' = {} /\ UNCHANGED <<row, app, ids, doubt>>
    BY <1>1 DEF ScanDirectory
  <1>10. ScanDismissals(h) => hd' = [hd EXCEPT ![h] = kept] /\ UNCHANGED <<db, doubt>>
    BY <1>1 DEF ScanDismissals
  <1>11. ScanLookUp(h) => hd' = [hd EXCEPT ![h] = free] /\ hd[h].pc = "lookup" /\ UNCHANGED <<db, doubt>>
    BY <1>1 DEF ScanLookUp, At
  <1>12. /\ ScanDirectory(h) => hd[h].pc = "scan"
         /\ ScanDismissals(h) => hd[h].pc = "dismissals"
    BY DEF ScanDirectory, ScanDismissals, At
  <1> HIDE DEF read, kept, free
  <1>13. ASSUME NEW new, hd' = [hd EXCEPT ![h] = new]
         PROVE  Moves(h) /\ hd'[h] = new
    BY <1>1, <1>13 DEF Moves
  <1>14. CASE ScanDirectory(h)
    BY <1>3, <1>5, <1>9, <1>11, <1>12, <1>13, <1>14
  <1>15. CASE ScanDismissals(h)
    BY <1>2, <1>6, <1>10, <1>11, <1>12, <1>13, <1>15 DEF db
  <1>16. CASE ScanLookUp(h)
    BY <1>2, <1>7, <1>8, <1>11, <1>12, <1>13, <1>16 DEF db
  <1> QED BY <1>14, <1>15, <1>16 DEF ScanReads

LEMMA ScanRecords ==
  ASSUME StructInv, NEW h \in Handler, ScanRecord(h)
  PROVE  /\ hd[h].pc \in {"record", "nest", "group"} /\ UNCHANGED <<app, dismissed, doubt>>
         /\ ids' \in {ids, ids + 1}
         /\ \E pc \in {"nest", "group", "prune"} : Goto(h, pc) /\ (hd[h].pc # "record" => pc # "nest")
                                                 /\ (pc = "nest" => hd[h].pc = "record")
         /\ \E done \in SUBSET (hd[h].mine \cap Foreign), nested \in SUBSET Domain :
              /\ row' = Recorded(done, nested) /\ \A x \in done : row[x].source = "none"
              /\ done # {} => ids' = ids + 1 /\ hd[h].pc # "group"
  <1>1. hd[h].mine \subseteq Foreign
    BY ScanKinds, Working DEF StructInv, Holding, ScanStep
  <1>2. Nested(h) \in SUBSET Domain
    BY DEF Nested
  <1>3. ASSUME NEW pc, NEW chosen \in SUBSET hd[h].mine, NEW next, ScanInserts(h, pc, chosen, next)
        PROVE  /\ UNCHANGED <<app, dismissed, doubt>> /\ Goto(h, next) /\ hd[h].pc = pc
               /\ ids' \in {ids, ids + 1}
               /\ \E done \in SUBSET (hd[h].mine \cap Foreign), nested \in SUBSET Domain :
                    /\ row' = Recorded(done, nested) /\ \A x \in done : row[x].source = "none"
                    /\ done # {} => ids' = ids + 1
    <2>1. PICK done \in SUBSET Untracked(chosen) : row' = Recorded(done, done \cap Nested(h))
      BY <1>3 DEF ScanInserts
    <2>2. /\ done \in SUBSET (hd[h].mine \cap Foreign) /\ done \cap Nested(h) \in SUBSET Domain
          /\ \A x \in done : row[x].source = "none"
      BY <1>1, <1>2 DEF Untracked
    <2>3. ids' = IF Untracked(chosen) = {} THEN ids ELSE ids + 1
      BY <1>3 DEF ScanInserts
    <2>4. done # {} => ids' = ids + 1
      BY <2>3
    <2> QED BY <1>3, <2>1, <2>2, <2>3, <2>4 DEF ScanInserts, At
  <1>4. CASE ScanMains(h)
    <2>1. hd[h].mine \ Nested(h) \in SUBSET hd[h].mine
      OBVIOUS
    <2>2. ScanInserts(h, "record", hd[h].mine \ Nested(h), "nest")
      BY <1>4 DEF ScanMains
    <2>3. Goto(h, "nest") /\ hd[h].pc = "record"
      BY <1>3, <2>1, <2>2
    <2>4. /\ UNCHANGED <<app, dismissed, doubt>> /\ ids' \in {ids, ids + 1}
          /\ \E done \in SUBSET (hd[h].mine \cap Foreign), nested \in SUBSET Domain :
               /\ row' = Recorded(done, nested) /\ \A x \in done : row[x].source = "none"
               /\ done # {} => ids' = ids + 1
      BY <1>3, <2>1, <2>2
    <2> QED BY <2>3, <2>4
  <1>5. CASE ScanSubs(h)
    <2>1. hd[h].mine \cap Nested(h) \in SUBSET hd[h].mine
      OBVIOUS
    <2>2. ScanInserts(h, "nest", hd[h].mine \cap Nested(h), "group")
      BY <1>5 DEF ScanSubs
    <2>3. Goto(h, "group") /\ hd[h].pc = "nest"
      BY <1>3, <2>1, <2>2
    <2>4. /\ UNCHANGED <<app, dismissed, doubt>> /\ ids' \in {ids, ids + 1}
          /\ \E done \in SUBSET (hd[h].mine \cap Foreign), nested \in SUBSET Domain :
               /\ row' = Recorded(done, nested) /\ \A x \in done : row[x].source = "none"
               /\ done # {} => ids' = ids + 1
      BY <1>3, <2>1, <2>2
    <2> QED BY <2>3, <2>4
  <1>6. CASE ScanGroup(h)
    <2>1. PICK done \in SUBSET Nested(h) : row' = Recorded({}, done)
      BY <1>6 DEF ScanGroup
    <2> QED BY <1>2, <1>6, <2>1 DEF ScanGroup, At
  <1> QED BY <1>4, <1>5, <1>6 DEF ScanRecord

LEMMA ScanStruct ==
  ASSUME StructInv, NEW h \in Handler, ScanStep(h)
  PROVE  StructInv'
  <1>1. /\ hd[h].op = "scan" /\ hd[h].pc # "idle" /\ up /\ up'
        /\ UNCHANGED <<conf, lock, bound, disk>>
    BY ScanKinds DEF disk
  <1>2. /\ hd[h] \in Handling /\ Shape(hd[h]) /\ Holding(hd[h]) /\ hd[h].d = None
        /\ HandlersOK /\ active \in Server /\ active' = active /\ ids \in Nat /\ RowsOK
        /\ hd \in [Handler -> Handling] /\ FileOK(file)
    BY <1>1, Working, Values, Constants
       DEF StructInv, Bulk, Busy, conf, DiskOK, PanelOK, RowsOK, Shape, HandlersOK
  <1>3. ids' \in Nat /\ ids' >= ids /\ RowsOK'
    <2>1. CASE ScanReads(h)
      <3>1. UNCHANGED <<row, app, ids>> /\ dismissed' \subseteq dismissed
        BY <2>1, ScanReading
      <3> QED BY <1>2, <3>1 DEF RowsOK, RowOK
    <2>2. CASE ScanRecord(h)
      <3>1. PICK done \in SUBSET (hd[h].mine \cap Foreign), nested \in SUBSET Domain :
              row' = Recorded(done, nested) /\ (done # {} => ids' = ids + 1)
        BY <2>2, ScanRecords
      <3>2. done \in SUBSET Foreign
        BY <3>1
      <3>3. done # {} => ids' = ids + 1
        BY <3>1
      <3>4. ids' \in {ids, ids + 1} /\ UNCHANGED <<app, dismissed>>
        BY <2>2, ScanRecords
      <3> DEFINE rows == Recorded(done, nested)
      <3>5. /\ rows \in [Domain -> Row]
            /\ \A x \in Domain : x \notin done =>
                 /\ rows[x].id = row[x].id /\ rows[x].source = row[x].source /\ rows[x].conf = row[x].conf
                 /\ row[x].source # "imported" => rows[x] = row[x]
            /\ \A x \in done : /\ rows[x].id = ids + 1 /\ rows[x].source = "imported"
                               /\ rows[x].conf = ForeignPath[x]
        BY <1>2, <3>2, RecordsRows
      <3>6. row' = rows
        BY <3>1
      <3> HIDE DEF rows
      <3>7. ids' \in Nat /\ ids' >= ids
        BY <1>2, <3>4
      <3>8. \A x \in done : RowOK(x)'
        BY <1>2, <3>2, <3>3, <3>5, <3>6 DEF RowOK
      <3>9. \A x \in Domain \ done : RowOK(x)'
        BY <1>2, <3>4, <3>5, <3>6, <3>7 DEF RowOK, RowsOK
      <3> QED BY <1>2, <3>4, <3>5, <3>6, <3>7, <3>8, <3>9 DEF RowsOK
    <2>3. CASE ScanPrune(h)
      <3>1. row' = Deleted(row, {x \in Domain : row[x].source = "imported" /\ x \notin hd[h].found})
            /\ app' = KeepApps(row') /\ UNCHANGED <<ids, dismissed>>
        BY <2>3 DEF ScanPrune, Pruned
      <3>2. {x \in Domain : row[x].source = "imported" /\ x \notin hd[h].found} \in SUBSET Domain
        OBVIOUS
      <3> QED BY <1>2, <3>1, <3>2, DeletesRows
    <2> QED BY <2>1, <2>2, <2>3 DEF ScanStep
  <1>4. Moves(h) /\ Shape(hd'[h]) /\ Holding(hd[h])' /\ (hd'[h].op = "scan" \/ hd'[h] = NoHandling)
    <2>1. CASE Reply(h)
      BY <1>2, <2>1, Replies
    <2>2. ASSUME NEW pc \in {"nest", "group", "prune"}, Goto(h, pc)
          PROVE  Moves(h) /\ Shape(hd'[h]) /\ Holding(hd[h])' /\ hd'[h].op = "scan"
      <3>1. /\ Moves(h) /\ hd'[h] \in Handling /\ hd'[h].pc = pc /\ hd'[h].op = "scan"
            /\ hd'[h].d = None /\ hd'[h].mine = hd[h].mine
        BY <1>1, <1>2, <2>2, GoesOn DEF Pc
      <3>2. Shape(hd'[h])
        BY <3>1 DEF Shape, Op, Bulk, Locked
      <3>3. Holding(hd[h])'
        BY <1>1, <1>2, <3>1 DEF Holding, Edits
      <3> QED BY <3>1, <3>2, <3>3
    <2>3. CASE ScanReads(h)
      <3>1. /\ Moves(h) /\ hd'[h] \in Handling /\ hd'[h].op = "scan"
            /\ hd'[h].pc \in {"dismissals", "lookup", "record"} /\ hd'[h].d = hd[h].d
            /\ hd'[h].mine \subseteq Foreign
        BY <2>3, ScanReading
      <3>2. Shape(hd'[h])
        BY <1>2, <3>1 DEF Shape, Op, Bulk, Locked
      <3>3. Holding(hd[h])'
        BY <3>1 DEF Holding, Edits
      <3> QED BY <3>1, <3>2, <3>3
    <2>4. ScanPrune(h) => Reply(h)
      BY DEF ScanPrune
    <2> QED BY <2>1, <2>2, <2>3, <2>4, ScanRecords DEF ScanStep
  <1>5. HandlersOK'
    BY <1>2, <1>3, <1>4, Moving
  <1>6. DiskOK'
    BY <1>1 DEF StructInv, DiskOK, FileOK, disk
  <1>7. PanelOK'
    <2>1. doubt' \subseteq Domain \X Aspect
      BY ScanKinds DEF Stranded, Managed, StructInv, PanelOK
    <2> QED BY <1>1, <2>1 DEF StructInv, PanelOK, conf, bound
  <1>8. LockOK'
    BY <1>1, <1>2, <1>4, LockKept, Values, Constants DEF StructInv, Guarded, Op, Locked, Bulk
  <1>9. DownOK'
    BY <1>1 DEF DownOK
  <1> QED BY <1>3, <1>5, <1>6, <1>7, <1>8, <1>9 DEF StructInv

\* A request is accepted: it has in hand what it read, and the others are not alone.
Asked(h, op, d, new) ==
  /\ hd' \in [Handler -> Handling] /\ ~Busy(h) /\ up /\ up'
  /\ hd'[h].op = op /\ hd'[h].d = d /\ hd'[h].pc = new.pc /\ hd'[h].copy = new.copy
  /\ hd'[h].snap = new.snap /\ hd'[h].mine = new.mine /\ hd'[h].server = new.server
  /\ hd'[h].quiet = (\A k \in Handler : ~Busy(k))
  /\ \A g \in Handler \ {h} :
       /\ hd'[g].op = hd[g].op /\ hd'[g].d = hd[g].d /\ hd'[g].pc = hd[g].pc
       /\ hd'[g].copy = hd[g].copy /\ hd'[g].snap = hd[g].snap /\ hd'[g].mine = hd[g].mine
       /\ hd'[g].server = hd[g].server /\ hd'[g].orig = hd[g].orig
       /\ IF Busy(g) THEN ~hd'[g].quiet ELSE hd'[g] = hd[g]
  /\ UNCHANGED <<db, disk, conf, up, lock, menu, crashes, late>>

LEMMA CrossingOps ==
  /\ \A p, q : {p, q} \in Crossing => p \in {"create", "serve", "proxy"} /\ q \in {"create", "serve", "proxy"}
  /\ {"create", "create"} \in Crossing /\ {"serve", "proxy"} \in Crossing /\ {"proxy", "serve"} \in Crossing
  <1>1. ASSUME NEW p, NEW q, {p, q} \in Crossing
        PROVE  p \in {"create", "serve", "proxy"} /\ q \in {"create", "serve", "proxy"}
    <2>1. {p, q} \subseteq {"create", "serve", "proxy"}
      BY <1>1 DEF Crossing
    <2> QED BY <2>1
  <1>2. {"create", "create"} = {"create"} /\ {"proxy", "serve"} = {"serve", "proxy"}
    OBVIOUS
  <1> QED BY <1>1, <1>2 DEF Crossing

LEMMA Asks ==
  ASSUME HandlersOK, NEW h \in Handler, NEW op \in Op, NEW d \in Domain \cup {None},
         NEW new \in Handling, Ask(h, op, d, new)
  PROVE  Asked(h, op, d, new)
  <1> DEFINE alone == \A k \in Handler : ~Busy(k)
             mine == [new EXCEPT !.op = op, !.d = d, !.quiet = alone]
             left(g) == IF Busy(g) THEN [hd[g] EXCEPT !.quiet = FALSE] ELSE hd[g]
  <1>1. /\ hd' = [g \in Handler |-> IF g = h THEN mine ELSE left(g)]
        /\ ~Busy(h) /\ up /\ UNCHANGED <<db, disk, conf, up, lock, menu, crashes, late>>
    BY DEF Ask
  <1>2. alone \in BOOLEAN
    OBVIOUS
  <1> HIDE DEF alone
  <1>3. /\ mine \in Handling /\ mine.op = op /\ mine.d = d /\ mine.pc = new.pc /\ mine.copy = new.copy
        /\ mine.snap = new.snap /\ mine.mine = new.mine /\ mine.server = new.server /\ mine.quiet = alone
    BY <1>2 DEF Handling
  <1>4. \A g \in Handler :
              /\ left(g) \in Handling
              /\ left(g).op = hd[g].op /\ left(g).d = hd[g].d /\ left(g).pc = hd[g].pc
              /\ left(g).copy = hd[g].copy /\ left(g).snap = hd[g].snap /\ left(g).mine = hd[g].mine
              /\ left(g).server = hd[g].server /\ left(g).orig = hd[g].orig
              /\ IF Busy(g) THEN ~left(g).quiet ELSE left(g) = hd[g]
    <2> TAKE g \in Handler
    <2>1. hd[g] \in Handling
      BY DEF HandlersOK
    <2> QED BY <2>1 DEF Handling
  <1> HIDE DEF mine, left
  <1>5. hd' \in [Handler -> Handling] /\ hd'[h] = mine /\ \A g \in Handler \ {h} : hd'[g] = left(g)
    BY <1>1, <1>3, <1>4
  <1> QED BY <1>1, <1>3, <1>4, <1>5 DEF alone, Asked

LEMMA Begins ==
  ASSUME NEW pc \in Pc, NEW r \in Row
  PROVE  /\ Begin(pc, r) \in Handling /\ Begin(pc, r).pc = pc /\ Begin(pc, r).copy = r
         /\ Begin(pc, r).mine = {}
  BY Values DEF Begin, Handling, NoHandling

\* What each request begins with.
Opening(op, d, new) ==
  /\ IF op \in Bulk THEN d = None ELSE d \in Domain
  /\ op = "create"  => /\ new.pc = "pool" /\ row[d].source = "none"
                       /\ new.copy.source = "managed" /\ new.copy.mode = "files"
  /\ op = "delete"  => /\ new.copy = row[d]
                       /\ \/ /\ new.pc = "forget" /\ row[d].source = "imported" /\ new.mine = {}
                          \/ /\ new.pc = "teardown" /\ row[d].source = "managed"
                             /\ new.mine = {d} \cup (Subs(d) \cap Managed(row))
  /\ op \in Edits   => row[d].source = "managed"
  /\ op = "serve"   => /\ new.pc = "persist"
                       /\ \E r \in Root : new.copy = [row[d] EXCEPT !.root = r, !.mode = "files"]
  /\ op = "proxy"   => new.pc = "app" /\ new.copy = [row[d] EXCEPT !.mode = "proxy"]
  /\ op = "php"     => new.pc = "pool" /\ \E v \in Php : new.copy = [row[d] EXCEPT !.php = v]
  /\ op = "ssl"     => /\ new.pc = "render"
                       /\ \E on \in BOOLEAN : new.copy = [row[d] EXCEPT !.ssl = on, !.own = @ /\ ~on]
  /\ op \in Guarded => new.pc = "lock"
  /\ op = "upgrade" => new.snap = row
  /\ op = "adopt"   => /\ row[d].source = "imported"
                       /\ \E v \in Php : new.copy = [row[d] EXCEPT !.php = v]
  /\ op = "scan"    => new.pc = "scan" /\ new.mine = {}

LEMMA Opens ==
  ASSUME StructInv, NEW op \in Op, NEW d \in Domain \cup {None}, NEW new \in Handling, Opening(op, d, new)
  PROVE  /\ op = "create"  => new.pc = "pool"
         /\ op = "delete"  => new.pc \in {"forget", "teardown"}
         /\ op = "serve"   => new.pc = "persist"
         /\ op = "proxy"   => new.pc = "app"
         /\ op = "php"     => new.pc = "pool"
         /\ op = "ssl"     => new.pc = "render"
         /\ op = "scan"    => new.pc = "scan"
         /\ op \in Guarded => new.pc = "lock"
         /\ op \in Edits \cup {"create"} => new.copy.source = "managed"
         /\ op \in Edits \cup {"delete", "adopt"} => new.copy.id \in 1..ids
         /\ op \in {"create", "serve"} => new.copy.mode = "files"
         /\ op = "proxy" => new.copy.mode = "proxy"
         /\ op = "ssl" => (new.copy.ssl => ~new.copy.own)
         /\ op = "delete" => new.mine \subseteq Reach("delete", d)
         /\ op = "scan" => new.mine \subseteq Foreign
         /\ op = "adopt" => d \in Foreign /\ new.copy.conf = ForeignPath[d]
  <1>1. \A x \in Domain : row[x] \in Row /\ RowOK(x)
    BY DEF StructInv, RowsOK
  <1>2. op \in Edits \cup {"create", "delete", "adopt"} => d \in Domain
    BY DEF Opening, Edits, Bulk
  <1>3. op \in Edits \cup {"create"} => new.copy.source = "managed"
    BY <1>1, <1>2 DEF Opening, Row, Edits
  <1>4. op \in Edits => new.copy.id = row[d].id /\ row[d].source = "managed"
    BY <1>1, <1>2 DEF Opening, Row, Edits
  <1>5. op \in {"delete", "adopt"} => new.copy.id = row[d].id /\ row[d].source \in {"managed", "imported"}
    BY <1>1, <1>2 DEF Opening, Row
  <1>6. op \in Edits \cup {"delete", "adopt"} => new.copy.id \in 1..ids
    BY <1>1, <1>2, <1>4, <1>5 DEF RowOK
  <1>7. /\ op \in {"create", "serve"} => new.copy.mode = "files"
        /\ op = "proxy" => new.copy.mode = "proxy"
        /\ op = "ssl" => (new.copy.ssl => ~new.copy.own)
    BY <1>1, <1>2 DEF Opening, Row, Edits
  <1>8. op = "delete" => new.mine \subseteq Reach("delete", d)
    BY DEF Opening, Reach, Bulk, Subs
  <1>9. op = "adopt" => d \in Foreign /\ new.copy.conf = ForeignPath[d]
    BY <1>1, <1>2 DEF Opening, RowOK, Row
  <1>10. /\ op = "create"  => new.pc = "pool"
         /\ op = "delete"  => new.pc \in {"forget", "teardown"}
         /\ op = "serve"   => new.pc = "persist"
         /\ op = "proxy"   => new.pc = "app"
         /\ op = "php"     => new.pc = "pool"
         /\ op = "ssl"     => new.pc = "render"
         /\ op = "scan"    => new.pc = "scan" /\ new.mine \subseteq Foreign
         /\ op \in Guarded => new.pc = "lock"
    BY DEF Opening
  <1> QED BY <1>3, <1>6, <1>7, <1>8, <1>9, <1>10

LEMMA AskStruct ==
  ASSUME StructInv, NEW h \in Handler, NEW op \in Op, NEW d \in Domain \cup {None},
         NEW new \in Handling, Ask(h, op, d, new), Opening(op, d, new)
  PROVE  StructInv'
  <1>1. /\ hd' \in [Handler -> Handling] /\ ~Busy(h) /\ up /\ up'
        /\ hd'[h].op = op /\ hd'[h].d = d /\ hd'[h].pc = new.pc /\ hd'[h].copy = new.copy
        /\ hd'[h].mine = new.mine
        /\ \A g \in Handler \ {h} :
              /\ hd'[g].op = hd[g].op /\ hd'[g].d = hd[g].d /\ hd'[g].pc = hd[g].pc
              /\ hd'[g].copy = hd[g].copy /\ hd'[g].mine = hd[g].mine /\ hd'[g].server = hd[g].server
              /\ Busy(g) \/ hd'[g] = hd[g]
        /\ UNCHANGED <<db, disk, conf, up, lock, menu, crashes, late>>
    <2>1. Asked(h, op, d, new)
      BY Asks DEF StructInv
    <2> QED BY <2>1 DEF Asked
  <1>2. \A g \in Handler \ {h} : Shape(hd'[g]) /\ Holding(hd[g])'
    <2> TAKE g \in Handler \ {h}
    <2>1. Shape(hd[g]) /\ Holding(hd[g])
      BY DEF StructInv, HandlersOK
    <2>2. Shape(hd'[g])
      BY <1>1, <2>1 DEF Shape, Busy
    <2>3. Holding(hd[g])'
      BY <1>1, <2>1 DEF Holding, db, conf
    <2> QED BY <2>2, <2>3
  <1>3. Shape(hd'[h])
    <2>1. IF op \in Bulk THEN d = None ELSE d \in Domain
      BY DEF Opening
    <2> QED BY <1>1, <2>1, Opens DEF Shape, Op, Bulk, Locked, Guarded
  <1>4. Holding(hd[h])'
    BY <1>1, Opens DEF Holding, Edits, Guarded, db
  <1>5. HandlersOK'
    BY <1>1, <1>2, <1>3, <1>4 DEF HandlersOK
  <1>6. RowsOK' /\ DiskOK' /\ DownOK'
    BY <1>1 DEF StructInv, RowsOK, RowOK, DiskOK, FileOK, DownOK, db, disk
  <1>7. PanelOK'
    <2>1. Disturbed(op, d) \subseteq Domain
      BY DEF Disturbed, Reach, Opening
    <2>2. doubt' = doubt \cup (Disturbed(op, d) \X Aspect) /\ ops' = ops + 1
      BY DEF Ask
    <2>3. doubt' \subseteq Domain \X Aspect /\ ops' \in Nat
      BY <2>1, <2>2 DEF StructInv, PanelOK
    <2>4. crossed' \subseteq Domain
      <3>1. crossed' = IF \E g \in Handler : hd[g].d = d /\ {op, hd[g].op} \in Crossing
                       THEN crossed \cup {d} ELSE crossed
        BY DEF Ask
      <3>2. ASSUME NEW q, {op, q} \in Crossing
            PROVE  d \in Domain
        BY <3>2, CrossingOps DEF Opening, Bulk
      <3> QED BY <3>1, <3>2 DEF StructInv, PanelOK
    <2> QED BY <1>1, <2>3, <2>4 DEF StructInv, PanelOK, conf
  <1>8. LockOK'
    <2>1. op \in Guarded => new.pc = "lock"
      BY DEF Opening
    <2> QED BY <1>1, <2>1 DEF StructInv, LockOK
  <1> QED BY <1>5, <1>6, <1>7, <1>8 DEF StructInv

\* Each request.
LEMMA RequestOpens ==
  ASSUME StructInv, NEW h \in Handler, Request(h)
  PROVE  \E op \in Op, d \in Domain \cup {None} : \E new \in Handling :
           Ask(h, op, d, new) /\ Opening(op, d, new)
  <1> DEFINE Opened == \E op \in Op, d \in Domain \cup {None} : \E new \in Handling :
                         Ask(h, op, d, new) /\ Opening(op, d, new)
  <1>1. \A x \in Domain : row[x] \in Row
    BY DEF StructInv, RowsOK
  <1>2. ASSUME NEW op \in Op, NEW d \in Domain \cup {None}, NEW new \in Handling,
               Ask(h, op, d, new), Opening(op, d, new)
        PROVE  Opened
    BY <1>2
  <1> HIDE DEF Opened
  <1>3. ASSUME NEW d \in Domain, Create(h, d)
        PROVE  Opened
    <2>1. PICK v \in Php, r \in Root :
            Ask(h, "create", d, Begin("pool", [NoRow EXCEPT !.source = "managed", !.php = v, !.root = r,
                                               !.sub = ParentOf[d] # None]))
      BY <1>3 DEF Create
    <2> DEFINE drafted == [NoRow EXCEPT !.source = "managed", !.php = v, !.root = r,
                                        !.sub = ParentOf[d] # None]
               new == Begin("pool", drafted)
    <2>2. drafted \in Row /\ drafted.source = "managed" /\ drafted.mode = "files"
      BY Values DEF Row
    <2>3. Ask(h, "create", d, new) /\ row[d].source = "none"
      BY <1>3, <2>1 DEF Create
    <2> HIDE DEF drafted
    <2>4. "pool" \in Pc /\ "create" \in Op
      BY DEF Pc, Op
    <2>5. new \in Handling /\ new.pc = "pool" /\ new.copy = drafted
      BY <2>2, <2>4, Begins
    <2> HIDE DEF new
    <2>6. Opening("create", d, new)
      BY <2>2, <2>3, <2>5 DEF Opening, Bulk, Edits, Guarded
    <2> QED BY <1>2, <2>3, <2>4, <2>5, <2>6
  <1>4. ASSUME NEW d \in Domain, Delete(h, d)
        PROVE  Opened
    <2> DEFINE S == {d} \cup (Subs(d) \cap Managed(row))
               tearing == [Begin("teardown", row[d]) EXCEPT !.mine = S]
               forgetting == Begin("forget", row[d])
    <2>1. \/ row[d].source = "managed" /\ Ask(h, "delete", d, tearing)
          \/ row[d].source = "imported" /\ Ask(h, "delete", d, forgetting)
      BY <1>1, <1>4 DEF Delete, Row
    <2>2. S \subseteq Domain /\ S = {d} \cup (Subs(d) \cap Managed(row))
      BY DEF Subs
    <2> HIDE DEF S
    <2>3. "teardown" \in Pc /\ "forget" \in Pc /\ "delete" \in Op
      BY DEF Pc, Op
    <2>4. forgetting \in Handling /\ forgetting.pc = "forget" /\ forgetting.copy = row[d] /\ forgetting.mine = {}
      BY <1>1, <2>3, Begins
    <2>5. tearing \in Handling /\ tearing.pc = "teardown" /\ tearing.copy = row[d] /\ tearing.mine = S
      <3> DEFINE b == Begin("teardown", row[d])
      <3>1. b \in Handling /\ b.pc = "teardown" /\ b.copy = row[d]
        BY <1>1, <2>3, Begins
      <3> HIDE DEF b
      <3>2. [b EXCEPT !.mine = S] \in Handling /\ [b EXCEPT !.mine = S].pc = "teardown"
            /\ [b EXCEPT !.mine = S].copy = row[d] /\ [b EXCEPT !.mine = S].mine = S
        BY <2>2, <3>1 DEF Handling
      <3> QED BY <3>2 DEF b
    <2> HIDE DEF tearing, forgetting
    <2>6. CASE row[d].source = "managed" /\ Ask(h, "delete", d, tearing)
      <3>1. Opening("delete", d, tearing)
        BY <2>2, <2>5, <2>6 DEF Opening, Bulk, Edits, Guarded
      <3> QED BY <1>2, <2>3, <2>5, <2>6, <3>1
    <2>7. CASE row[d].source = "imported" /\ Ask(h, "delete", d, forgetting)
      <3>1. Opening("delete", d, forgetting)
        BY <2>4, <2>7 DEF Opening, Bulk, Edits, Guarded
      <3> QED BY <1>2, <2>3, <2>4, <2>7, <3>1
    <2> QED BY <2>1, <2>6, <2>7
  <1>5. ASSUME NEW d \in Domain, NEW op \in Op, NEW pc \in Pc, NEW r \in Row, Ask(h, op, d, Begin(pc, r)),
               \A new \in Handling : new.pc = pc /\ new.copy = r => Opening(op, d, new)
        PROVE  Opened
    <2> DEFINE new == Begin(pc, r)
    <2>1. new \in Handling /\ new.pc = pc /\ new.copy = r
      BY Begins
    <2>2. Ask(h, op, d, new)
      BY <1>5
    <2> HIDE DEF new
    <2> QED BY <1>2, <1>5, <2>1, <2>2
  <1>6. /\ {"serve", "php", "ssl", "proxy", "adopt"} \subseteq Op
        /\ {"persist", "pool", "render", "app", "lock"} \subseteq Pc
    BY DEF Op, Locked, Pc
  <1>7. ASSUME NEW d \in Domain, Serve(h, d)
        PROVE  Opened
    <2>1. PICK r \in Root : Ask(h, "serve", d, Begin("persist", [row[d] EXCEPT !.root = r, !.mode = "files"]))
      BY <1>7 DEF Serve
    <2> DEFINE drafted == [row[d] EXCEPT !.root = r, !.mode = "files"]
    <2>2. drafted \in Row
      BY <1>1 DEF Row, Mode
    <2>3. Ask(h, "serve", d, Begin("persist", drafted)) /\ row[d].source = "managed"
      BY <1>7, <2>1 DEF Serve
    <2>4. \A new \in Handling : new.pc = "persist" /\ new.copy = drafted => Opening("serve", d, new)
      BY <2>3 DEF Opening, Bulk, Edits, Guarded
    <2> HIDE DEF drafted
    <2> QED BY <1>5, <1>6, <2>2, <2>3, <2>4
  <1>8. ASSUME NEW d \in Domain, ChangePhp(h, d)
        PROVE  Opened
    <2>1. PICK v \in Php : Ask(h, "php", d, Begin("pool", [row[d] EXCEPT !.php = v]))
      BY <1>8 DEF ChangePhp
    <2> DEFINE drafted == [row[d] EXCEPT !.php = v]
    <2>2. drafted \in Row
      BY <1>1 DEF Row
    <2>3. Ask(h, "php", d, Begin("pool", drafted)) /\ row[d].source = "managed"
      BY <1>8, <2>1 DEF ChangePhp
    <2>4. \A new \in Handling : new.pc = "pool" /\ new.copy = drafted => Opening("php", d, new)
      BY <2>3 DEF Opening, Bulk, Edits, Guarded
    <2> HIDE DEF drafted
    <2> QED BY <1>5, <1>6, <2>2, <2>3, <2>4
  <1>9. ASSUME NEW d \in Domain, ToggleSSL(h, d)
        PROVE  Opened
    <2>1. PICK on \in BOOLEAN :
            Ask(h, "ssl", d, Begin("render", [row[d] EXCEPT !.ssl = on, !.own = @ /\ ~on]))
      BY <1>9 DEF ToggleSSL
    <2> DEFINE drafted == [row[d] EXCEPT !.ssl = on, !.own = @ /\ ~on]
    <2>2. drafted \in Row
      BY <1>1 DEF Row
    <2>3. Ask(h, "ssl", d, Begin("render", drafted)) /\ row[d].source = "managed"
      BY <1>9, <2>1 DEF ToggleSSL
    <2>4. \A new \in Handling : new.pc = "render" /\ new.copy = drafted => Opening("ssl", d, new)
      BY <2>3 DEF Opening, Bulk, Edits, Guarded
    <2> HIDE DEF drafted
    <2> QED BY <1>5, <1>6, <2>2, <2>3, <2>4
  <1>10. ASSUME NEW d \in Domain, SetProxyApp(h, d)
         PROVE  Opened
    <2> DEFINE drafted == [row[d] EXCEPT !.mode = "proxy"]
    <2>1. drafted \in Row
      BY <1>1 DEF Row, Mode
    <2>2. Ask(h, "proxy", d, Begin("app", drafted)) /\ row[d].source = "managed"
      BY <1>10 DEF SetProxyApp
    <2>3. \A new \in Handling : new.pc = "app" /\ new.copy = drafted => Opening("proxy", d, new)
      BY <2>2 DEF Opening, Bulk, Edits, Guarded
    <2> HIDE DEF drafted
    <2> QED BY <1>5, <1>6, <2>1, <2>2, <2>3
  <1>11. ASSUME NEW d \in Domain, AdoptSite(h, d)
         PROVE  Opened
    <2>1. PICK v \in Php : Ask(h, "adopt", d, Begin("lock", [row[d] EXCEPT !.php = v]))
      BY <1>11 DEF AdoptSite
    <2> DEFINE drafted == [row[d] EXCEPT !.php = v]
    <2>2. drafted \in Row
      BY <1>1 DEF Row
    <2>3. Ask(h, "adopt", d, Begin("lock", drafted)) /\ row[d].source = "imported"
      BY <1>11, <2>1 DEF AdoptSite
    <2>4. \A new \in Handling : new.pc = "lock" /\ new.copy = drafted => Opening("adopt", d, new)
      BY <2>3 DEF Opening, Bulk, Edits, Guarded
    <2> HIDE DEF drafted
    <2> QED BY <1>5, <1>6, <2>2, <2>3, <2>4
  <1>12. ASSUME NEW op \in Bulk, NEW new \in Handling, Ask(h, op, None, new),
                new.pc = IF op = "scan" THEN "scan" ELSE "lock", op = "scan" => new.mine = {},
                op = "upgrade" => new.snap = row
         PROVE  Opened
    <2>1. op \in Op /\ op \notin Edits /\ op \notin {"create", "delete", "adopt"} /\ "scan" \notin Guarded
      BY DEF Op, Bulk, Locked, Edits, Guarded
    <2>2. Opening(op, None, new)
      BY <1>12, <2>1 DEF Opening, Edits
    <2> QED BY <1>2, <1>12, <2>1, <2>2
  <1>13. NoRow \in Row /\ {"lock", "scan"} \subseteq Pc /\ Bulk = {"switch", "regen", "upgrade", "scan"}
    BY Values DEF Pc, Bulk
  <1>14. Begin("lock", NoRow) \in Handling /\ Begin("lock", NoRow).pc = "lock"
    BY <1>13, Begins
  <1>15. ASSUME NEW s \in Server, SwitchWebServer(h, s)
         PROVE  Opened
    <2> DEFINE new == [Begin("lock", NoRow) EXCEPT !.server = s]
    <2>1. new \in Handling /\ new.pc = "lock"
      BY <1>14 DEF Handling
    <2>2. Ask(h, "switch", None, new)
      BY <1>15 DEF SwitchWebServer
    <2> HIDE DEF new
    <2> QED BY <1>12, <1>13, <2>1, <2>2
  <1>16. ASSUME RegenerateAll(h)
         PROVE  Opened
    BY <1>12, <1>13, <1>14, <1>16 DEF RegenerateAll
  <1>17. ASSUME UpgradeSites(h)
         PROVE  Opened
    <2> DEFINE new == [Begin("lock", NoRow) EXCEPT !.snap = row]
    <2>1. new \in Handling /\ new.pc = "lock" /\ new.snap = row
      <3>1. row \in [Domain -> Row]
        BY DEF StructInv, RowsOK
      <3> QED BY <3>1, <1>14 DEF Handling
    <2>2. Ask(h, "upgrade", None, new)
      BY <1>17 DEF UpgradeSites
    <2> HIDE DEF new
    <2> QED BY <1>12, <1>13, <2>1, <2>2
  <1>18. ASSUME ScanSites(h)
         PROVE  Opened
    <2> DEFINE new == Begin("scan", NoRow)
    <2>1. new \in Handling /\ new.pc = "scan" /\ new.mine = {}
      BY <1>13, Begins
    <2>2. Ask(h, "scan", None, new)
      BY <1>18 DEF ScanSites
    <2> HIDE DEF new
    <2> QED BY <1>12, <1>13, <2>1, <2>2
  <1>19. Opened
    BY <1>3, <1>4, <1>7, <1>8, <1>9, <1>10, <1>11, <1>15, <1>16, <1>17, <1>18 DEF Request
  <1> QED BY <1>19 DEF Opened

LEMMA RequestStruct ==
  ASSUME StructInv, NEW h \in Handler, Request(h)
  PROVE  StructInv'
  <1>1. PICK op \in Op, d \in Domain \cup {None} : \E new \in Handling :
           Ask(h, op, d, new) /\ Opening(op, d, new)
    BY RequestOpens
  <1>2. PICK new \in Handling : Ask(h, op, d, new) /\ Opening(op, d, new)
    BY <1>1
  <1> QED BY <1>2, AskStruct

\* The operator, the configuration file, a stop of the panel.
LEMMA OutsideStruct ==
  ASSUME StructInv, SaveSettings \/ Crash \/ \E d \in Domain : RemoveConf(d) \/ EditPage(d)
  PROVE  StructInv'
  <1>1. CASE SaveSettings
    BY <1>1 DEF SaveSettings, StructInv, HandlersOK, Holding, RowsOK, RowOK, DiskOK, FileOK, PanelOK,
                LockOK, DownOK, db, disk, bound
  <1>2. CASE Crash
    <2>1. /\ up' = FALSE /\ hd' = [h \in Handler |-> NoHandling] /\ lock' = None
          /\ UNCHANGED <<db, disk, conf, menu, ops, late, crossed>> /\ crashes' = crashes + 1
      BY <1>2 DEF Crash
    <2>2. \A h \in Handler : hd'[h] = NoHandling /\ Shape(hd'[h]) /\ Holding(hd[h])'
      <3>1. \A h \in Handler : hd'[h] = NoHandling
        BY <2>1
      <3>2. NoHandling.op \notin Op
        BY Values, Constants
      <3> QED BY <3>1, <3>2, Idling DEF Holding, Op, Edits, Locked, Bulk
    <2>3. HandlersOK' /\ DownOK'
      BY <2>1, <2>2, Values DEF HandlersOK, DownOK
    <2>4. LockOK'
      <3>1. NoHandling.op \notin Guarded
        BY Values, Constants DEF Guarded, Op, Locked, Bulk
      <3> QED BY <2>2, <3>1 DEF LockOK
    <2>5. PanelOK'
      <3>1. \A h \in Handler : Touched(h) \subseteq Domain
        BY Working DEF Touched, Reach, StructInv
      <3>2. doubt' \subseteq Domain \X Aspect
        BY <1>2, <3>1 DEF Crash, StructInv, PanelOK
      <3>3. up' \in BOOLEAN /\ lock' \in Handler \cup {None}
        BY <1>2 DEF Crash
      <3>5. crashes' \in Nat
        BY <1>2 DEF Crash, StructInv, PanelOK
      <3>4. UNCHANGED <<service, saved, active, menu, ops, late, crossed>>
        BY <2>1 DEF conf
      <3> QED BY <3>2, <3>3, <3>4, <3>5 DEF StructInv, PanelOK
    <2> QED BY <2>1, <2>3, <2>4, <2>5 DEF StructInv, RowsOK, RowOK, DiskOK, FileOK, db, disk
  <1>3. ASSUME NEW d \in Domain, RemoveConf(d)
        PROVE  StructInv'
    <2>1. /\ d \in Foreign /\ file' = [file EXCEPT ![ForeignPath[d]][d] = NoFile]
          /\ ops' = ops + 1 /\ Doubting(d, {"vhost"})
          /\ UNCHANGED <<db, backup, pool, docs, unit, conf, up, lock, hd, menu, crashes, late, crossed>>
      BY <1>3 DEF RemoveConf
    <2>2. FileOK(file)'
      <3>1. NoFile \in VHost /\ ForeignPath[d] \in Path /\ FileOK(file)
        BY <2>1, Values, Constants DEF StructInv, DiskOK
      <3>2. file' \in [Path -> [Domain -> VHost]] /\
            \A p \in Path, x \in Domain : file'[p][x] = file[p][x] \/ file'[p][x] = NoFile
        BY <2>1, <3>1 DEF FileOK
      <3>3. FileOK(file')
        BY <3>1, <3>2, FilesPut
      <3> QED BY <3>3 DEF FileOK
    <2>3. PanelOK'
      <3>1. doubt' \subseteq Domain \X Aspect
        BY <2>1 DEF StructInv, PanelOK, Doubting, Aspect
      <3> QED BY <2>1, <3>1 DEF StructInv, PanelOK, conf
    <2>4. HandlersOK' /\ LockOK' /\ DownOK'
      BY <2>1 DEF StructInv, HandlersOK, Holding, LockOK, DownOK, db, conf
    <2> QED BY <2>1, <2>2, <2>3, <2>4 DEF StructInv, RowsOK, RowOK, DiskOK, FileOK, db
  <1>4. ASSUME NEW d \in Domain, EditPage(d)
        PROVE  StructInv'
    <2>1. docs' \in [Domain -> Docs]
      BY <1>4 DEF EditPage, StructInv, DiskOK, Docs
    <2> QED BY <1>4, <2>1 DEF EditPage, StructInv, HandlersOK, Holding, RowsOK, RowOK, DiskOK, FileOK, PanelOK,
                LockOK, DownOK, db, conf, bound
  <1> QED BY <1>1, <1>2, <1>3, <1>4

\* What Start finds, and what it leaves.
InSaved == {saved} \cup (IF saved = Home THEN {"other"} ELSE {})
Loaded == {d \in Domain : \E p \in InSaved : file[p][d] # NoFile}
Newly  == Untracked({d \in Domain \ dismissed :
                       \E p \in InSaved : file[p][d].by = "operator"})
Booted == Pruned(Recorded(Newly, Domain), Loaded)
Served == {d \in Managed(Booted) : Booted[d].mode = "proxy" => app[d]}

LEMMA StartDoes ==
  ASSUME Start
  PROVE  /\ ~up /\ up' = TRUE /\ active' = saved /\ row' = Booted /\ app' = KeepApps(Booted)
         /\ ids' = IF Newly = {} THEN ids ELSE ids + 1
         /\ unit' = [d \in Domain |-> unit[d] \/ (app'[d] /\ Booted[d].source = "managed")]
         /\ UNCHANGED <<dismissed, backup, pool, docs, service, saved, lock, hd, bound>>
         /\ \E done \in SUBSET Served :
              /\ done # Served => Failures
              /\ file' = [file EXCEPT ![saved] =
                     [d \in Domain |-> IF d \in done THEN Rendering(Booted[d]) ELSE @[d]]]
              /\ doubt' = (doubt \ (done \X {"vhost"})) \cup (Stranded(Booted, {}) \X Aspect)
                   \cup (IF saved # active THEN Domain \X {"pool", "stray", "vhost"} ELSE {})
  <1>1. /\ ~up /\ up' = TRUE /\ active' = saved /\ row' = Booted /\ app' = KeepApps(Booted)
        /\ ids' = IF Newly = {} THEN ids ELSE ids + 1
        /\ unit' = [d \in Domain |-> unit[d] \/ (app'[d] /\ Booted[d].source = "managed")]
        /\ UNCHANGED <<dismissed, backup, pool, docs, service, saved, lock, hd, bound>>
    BY DEF Start, Booted, Newly, Loaded, InSaved
  <1>2. \E done \in SUBSET Served :
              /\ done # Served => Failures
              /\ file' = [file EXCEPT ![saved] =
                     [d \in Domain |-> IF d \in done THEN Rendering(Booted[d]) ELSE @[d]]]
              /\ doubt' = (doubt \ (done \X {"vhost"})) \cup (Stranded(Booted, {}) \X Aspect)
                   \cup (IF saved # active THEN Domain \X {"pool", "stray", "vhost"} ELSE {})
    BY Zenon DEF Start, Served, Booted, Newly, Loaded, InSaved
  <1> QED BY <1>1, <1>2

\* What the rows are after a scan: nothing of a site the panel manages changes but that
\* its row may go.
LEMMA StartRows ==
  ASSUME StructInv
  PROVE  /\ Newly \subseteq Foreign /\ Booted \in [Domain -> Row]
         /\ \A x \in Domain :
              \/ Booted[x] = NoRow
              \/ x \notin Newly /\ row[x].source # "imported" /\ Booted[x] = row[x]
              \/ /\ x \notin Newly /\ row[x].source = "imported" /\ Booted[x].source = "imported"
                 /\ Booted[x].id = row[x].id /\ Booted[x].conf = row[x].conf
              \/ /\ x \in Newly /\ Booted[x].source = "imported" /\ Booted[x].id = ids + 1
                 /\ Booted[x].conf = ForeignPath[x]
  <1>1. FileOK(file) /\ saved \in Server /\ RowsOK
    BY DEF StructInv, DiskOK, PanelOK
  <1>2. InSaved \subseteq Path
    BY <1>1, Constants DEF InSaved
  <1>3. Newly \subseteq Foreign
    BY <1>1, <1>2 DEF Newly, Untracked, FileOK
  <1> DEFINE rows == Recorded(Newly, Domain)
  <1>4. /\ rows \in [Domain -> Row]
        /\ \A x \in Domain : x \notin Newly =>
             /\ rows[x].id = row[x].id /\ rows[x].source = row[x].source /\ rows[x].conf = row[x].conf
             /\ row[x].source # "imported" => rows[x] = row[x]
        /\ \A x \in Newly : /\ rows[x].id = ids + 1 /\ rows[x].source = "imported"
                            /\ rows[x].conf = ForeignPath[x]
    BY <1>1, <1>3, RecordsRows
  <1>5. Booted = Pruned(rows, Loaded)
    BY DEF Booted
  <1> HIDE DEF rows
  <1>6. Booted \in [Domain -> Row] /\ \A x \in Domain : Booted[x] = rows[x] \/ Booted[x] = NoRow
    BY <1>4, <1>5, PrunesRows
  <1> QED BY <1>3, <1>4, <1>6

LEMMA StartStruct ==
  ASSUME StructInv, Start
  PROVE  StructInv'
  <1>1. /\ ~up /\ up' = TRUE /\ active' = saved /\ row' = Booted /\ app' = KeepApps(Booted)
        /\ ids' = IF Newly = {} THEN ids ELSE ids + 1
        /\ unit' = [d \in Domain |-> unit[d] \/ (app'[d] /\ Booted[d].source = "managed")]
        /\ UNCHANGED <<dismissed, backup, pool, docs, service, saved, lock, hd, bound>>
    BY StartDoes
  <1>2. PICK done \in SUBSET Served :
              /\ file' = [file EXCEPT ![saved] =
                     [d \in Domain |-> IF d \in done THEN Rendering(Booted[d]) ELSE @[d]]]
              /\ doubt' = (doubt \ (done \X {"vhost"})) \cup (Stranded(Booted, {}) \X Aspect)
                   \cup (IF saved # active THEN Domain \X {"pool", "stray", "vhost"} ELSE {})
    BY StartDoes
  <1>3. /\ \A h \in Handler : hd[h] = NoHandling
        /\ RowsOK /\ ids \in Nat /\ FileOK(file) /\ saved \in Server /\ Booted \in [Domain -> Row]
    BY <1>1, StartRows DEF StructInv, DownOK, RowsOK, DiskOK, PanelOK
  <1>4. HandlersOK' /\ LockOK' /\ DownOK'
    <2>1. \A h \in Handler : Shape(hd'[h]) /\ Holding(hd[h])'
      <3>1. NoHandling.op \notin Op
        BY Values, Constants
      <3> QED BY <1>1, <1>3, <3>1, Idling DEF Holding, Op, Edits, Locked, Bulk
    <2> QED BY <1>1, <2>1 DEF StructInv, HandlersOK, LockOK, DownOK
  <1>5. RowsOK'
    <2>1. ids' \in Nat /\ ids' >= ids /\ (Newly # {} => ids' = ids + 1)
      BY <1>1, <1>3
    <2>2. \A x \in Domain : RowOK(x)'
      <3> TAKE x \in Domain
      <3>1. RowOK(x)
        BY <1>3 DEF RowsOK
      <3> QED BY <1>1, <1>3, <2>1, <3>1, StartRows, Values DEF RowOK
    <2>3. app' \in [Domain -> BOOLEAN]
      BY <1>1, <1>3 DEF KeepApps, RowsOK
    <2> QED BY <1>1, <1>3, <2>1, <2>2, <2>3 DEF RowsOK
  <1>6. DiskOK'
    <2>1. \A x \in Domain : Rendering(Booted[x]) \in VHost /\ Rendering(Booted[x]).by = "panel"
      BY <1>3, Renders
    <2>2. saved \in Path
      BY <1>3, Constants
    <2>3. /\ file' \in [Path -> [Domain -> VHost]]
          /\ \A p \in Path, x \in Domain : file'[p][x] = file[p][x] \/ file'[p][x] = Rendering(Booted[x])
      BY <1>2, <1>3, <2>1, <2>2 DEF FileOK
    <2>4. FileOK(file')
      BY <1>3, <2>1, <2>3, FilesPut
    <2>5. unit' \in [Domain -> BOOLEAN]
      BY <1>1, <1>3 DEF KeepApps, StructInv, DiskOK, RowsOK
    <2> QED BY <1>1, <2>4, <2>5 DEF StructInv, DiskOK, FileOK
  <1>7. PanelOK'
    <2>1. doubt' \subseteq Domain \X Aspect
      BY <1>2 DEF StructInv, PanelOK, Stranded, Managed, Aspect
    <2> QED BY <1>1, <2>1 DEF StructInv, PanelOK, bound
  <1> QED BY <1>4, <1>5, <1>6, <1>7 DEF StructInv

LEMMA InitStruct ==
  ASSUME Init
  PROVE  StructInv
  <1>1. HandlersOK
    <2>1. \A h \in Handler : hd[h] = NoHandling
      BY DEF Init
    <2> QED BY <2>1, Idling, Values DEF Init, HandlersOK
  <1>2. RowsOK
    <2> DEFINE live == [NoRow EXCEPT !.id = 1, !.source = "managed"]
    <2>1. live \in Row /\ live.id = 1 /\ live.source = "managed"
      BY Values DEF Row
    <2>2. \A d \in Foreign : /\ Imported(d) \in Row /\ Imported(d).id = 1
                             /\ Imported(d).source = "imported" /\ Imported(d).conf = ForeignPath[d]
      <3> TAKE d \in Foreign
      <3>1. NoRow \in Row /\ ForeignPath[d] \in Path
        BY Values, Constants
      <3> DEFINE under == ParentOf[d] \in Live \cup Foreign
                 new == [NoRow EXCEPT !.id = 1, !.source = "imported", !.ssl = TRUE, !.own = TRUE,
                                      !.sub = under, !.conf = ForeignPath[d]]
      <3>2. Imported(d) = new /\ under \in BOOLEAN
        BY DEF Imported
      <3> HIDE DEF under
      <3>3. new \in Row /\ new.id = 1 /\ new.source = "imported" /\ new.conf = ForeignPath[d]
        BY <3>1, <3>2 DEF Row
      <3> HIDE DEF new
      <3> QED BY <3>2, <3>3
    <2> HIDE DEF live
    <2>3. row = [d \in Domain |-> IF d \in Live THEN live ELSE IF d \in Foreign THEN Imported(d) ELSE NoRow]
      BY DEF Init, live
    <2>4. \A d \in Domain : row[d] = IF d \in Live THEN live ELSE IF d \in Foreign THEN Imported(d) ELSE NoRow
      BY <2>3
    <2>5. row \in [Domain -> Row]
      BY <2>1, <2>2, <2>3, Values
    <2>6. ids = 1 /\ app \in [Domain -> BOOLEAN] /\ dismissed = {}
      BY DEF Init
    <2>7. \A d \in Domain : RowOK(d)
      BY <2>1, <2>2, <2>4, <2>6, Values DEF RowOK
    <2> QED BY <2>5, <2>6, <2>7 DEF RowsOK
  <1>3. FileOK(file) /\ FileOK(backup)
    <2>1. file = [p \in Path |-> [d \in Domain |->
                   IF d \in Live /\ p = Home THEN Rendering(row[d])
                   ELSE IF d \in Foreign THEN IF p = ForeignPath[d] THEN Original ELSE NoFile
                   ELSE NoFile]]
          /\ backup = [p \in Path |-> [d \in Domain |-> NoFile]]
      BY DEF Init
    <2>2. \A d \in Domain : Rendering(row[d]) \in VHost /\ Rendering(row[d]).by = "panel"
      BY <1>2, Renders DEF RowsOK
    <2>3. /\ file \in [Path -> [Domain -> VHost]]
          /\ \A p \in Path, d \in Domain :
               \/ file[p][d] = Rendering(row[d]) \/ file[p][d] = NoFile
               \/ file[p][d] = Original /\ d \in Foreign /\ p = ForeignPath[d]
      BY <2>1, <2>2, Values
    <2>4. FileOK(file)
      BY <2>2, <2>3, Values DEF FileOK
    <2>5. FileOK(backup)
      BY <2>1, Values DEF FileOK
    <2> QED BY <2>4, <2>5
  <1>4. DiskOK
    <2>1. \A d \in Domain : PoolFor(row[d]) \in SUBSET Pool
      BY <1>2, Constants, Pools DEF Init, RowsOK
    <2>2. pool \in [Domain -> SUBSET Pool] /\ unit \in [Domain -> BOOLEAN] /\ docs \in [Domain -> Docs]
      BY <2>1 DEF Init, Docs
    <2> QED BY <1>3, <2>2 DEF DiskOK
  <1>5. PanelOK
    BY Constants DEF Init, PanelOK
  <1>6. LockOK /\ DownOK
    <2>1. NoHandling.op \notin Guarded
      BY Values, Constants DEF Guarded, Op, Locked, Bulk
    <2> QED BY <2>1 DEF Init, LockOK, DownOK
  <1> QED BY <1>1, <1>2, <1>4, <1>5, <1>6 DEF StructInv

\* The steps of a request, by kind.
LEMMA StepKinds ==
  ASSUME NEW h \in Handler, Step(h)
  PROVE  \/ CreatePool(h) \/ CreateVHost(h) \/ CreateRow(h)
         \/ DeleteTeardown(h) \/ DeleteDismiss(h) \/ DeleteRows(h)
         \/ EditStep(h) \/ Lock(h) \/ BulkStep(h) \/ AdoptStep(h) \/ ScanStep(h)
  BY DEF Step, EditStep, BulkStep, AdoptStep, ScanStep, ScanReads, ScanRecord

LEMMA StepStruct ==
  ASSUME StructInv, NEW h \in Handler, Step(h)
  PROVE  StructInv'
  <1>1. CASE CreatePool(h) \/ CreateVHost(h) \/ CreateRow(h)
    BY <1>1, CreateStruct
  <1>2. CASE DeleteTeardown(h) \/ DeleteDismiss(h) \/ DeleteRows(h)
    BY <1>2, DeleteStruct
  <1>3. CASE EditStep(h)
    BY <1>3, EditStruct
  <1>4. CASE Lock(h)
    BY <1>4, LockStruct
  <1>5. CASE BulkStep(h)
    BY <1>5, BulkStruct
  <1>6. CASE AdoptStep(h)
    BY <1>6, AdoptStruct
  <1>7. CASE ScanStep(h)
    BY <1>7, ScanStruct
  <1> QED BY <1>1, <1>2, <1>3, <1>4, <1>5, <1>6, <1>7, StepKinds

LEMMA StutterStruct ==
  ASSUME StructInv, UNCHANGED vars
  PROVE  StructInv'
  <1>1. HandlersOK'
    BY DEF StructInv, HandlersOK, Holding, vars, db, conf
  <1>2. RowsOK' /\ DiskOK' /\ PanelOK' /\ LockOK' /\ DownOK'
    BY DEF StructInv, RowsOK, RowOK, DiskOK, FileOK, PanelOK, LockOK, DownOK, vars, db, disk, conf, bound
  <1> QED BY <1>1, <1>2 DEF StructInv

LEMMA StructStep ==
  ASSUME StructInv, [Next]_vars
  PROVE  StructInv'
  <1>1. ASSUME NEW h \in Handler, Request(h)
        PROVE  StructInv'
    BY <1>1, RequestStruct
  <1>2. ASSUME NEW h \in Handler, Step(h)
        PROVE  StructInv'
    BY <1>2, StepStruct
  <1>3. CASE SaveSettings \/ Crash \/ \E d \in Domain : RemoveConf(d) \/ EditPage(d)
    BY <1>3, OutsideStruct
  <1>4. CASE Start
    BY <1>4, StartStruct
  <1>5. CASE UNCHANGED vars
    BY <1>5, StutterStruct
  <1> QED BY <1>1, <1>2, <1>3, <1>4, <1>5 DEF Next

LEMMA StructTypes ==
  ASSUME StructInv
  PROVE  TypeOK
  <1>1. hd \in [Handler -> Handling]
    BY DEF StructInv, HandlersOK
  <1> QED BY <1>1 DEF StructInv, RowsOK, DiskOK, FileOK, PanelOK, TypeOK

\* Every reachable state has the shape the operations give it.
THEOREM StructAlways == Spec => []StructInv
  <1>1. Init => StructInv
    BY InitStruct
  <1>2. StructInv /\ [Next]_vars => StructInv'
    BY StructStep
  <1> QED BY <1>1, <1>2, PTL DEF Spec

\* Every request is where one of its kind can be, with what it read in hand; rows, files
\* and the fields of the panel have their types.
THEOREM SiteTypes == Spec => []TypeOK
  <1>1. StructInv => TypeOK
    BY StructTypes
  <1> QED BY <1>1, StructAlways, PTL

-----------------------------------------------------------------------------
(* Requests that overlap *)

\* Something is still known of the site.
Clear(d) == \E a \in Aspect : Sure(d, a)

QuietOK == \A h, g \in Handler : Busy(h) /\ hd[h].quiet /\ g # h => ~Busy(g)
OverlapOK == \A h, g \in Handler : \A d \in Touched(h) \cap Touched(g) :
               h # g /\ Clash(hd[h].op, hd[g].op) => ~Clear(d)

\* A step leaves its request the one it was, or answers it.
LEMMA StepStays ==
  ASSUME StructInv, NEW h \in Handler, Step(h)
  PROVE  /\ Moves(h) /\ Busy(h) /\ up /\ up'
         /\ \/ hd'[h] = NoHandling
            \/ hd'[h].op = hd[h].op /\ hd'[h].d = hd[h].d /\ hd'[h].quiet = hd[h].quiet
  <1>0. HandlersOK
    BY DEF StructInv
  <1>1. CASE Reply(h) /\ Busy(h) /\ up /\ up'
    BY <1>0, <1>1, Replies
  <1>2. ASSUME NEW pc \in Pc \ {"idle"}, Goto(h, pc)
        PROVE  /\ Moves(h)
               /\ hd'[h].op = hd[h].op /\ hd'[h].d = hd[h].d /\ hd'[h].quiet = hd[h].quiet
    BY <1>0, <1>2, GoesOn
  <1>3. CASE CreatePool(h) \/ CreateVHost(h) \/ CreateRow(h)
    <2>1. Reply(h) \/ Goto(h, "render") \/ Goto(h, "insert")
      BY <1>3 DEF CreatePool, CreateVHost, CreateRow, RollBack
    <2>2. Busy(h) /\ up /\ up'
      BY <1>3 DEF CreatePool, CreateVHost, CreateRow, At, KeepRest, Busy
    <2>3. {"render", "insert"} \subseteq Pc \ {"idle"}
      BY DEF Pc
    <2> QED BY <1>1, <1>2, <2>1, <2>2, <2>3
  <1>4. CASE DeleteTeardown(h) \/ DeleteDismiss(h) \/ DeleteRows(h)
    <2>1. Reply(h) \/ Goto(h, "drop")
      BY <1>4 DEF DeleteTeardown, DeleteDismiss, DeleteRows
    <2>2. Busy(h) /\ up /\ up'
      BY <1>4 DEF DeleteTeardown, DeleteDismiss, DeleteRows, At, KeepRest, Busy
    <2>3. "drop" \in Pc \ {"idle"}
      BY DEF Pc
    <2> QED BY <1>1, <1>2, <2>1, <2>2, <2>3
  <1>5. CASE EditStep(h)
    <2>1. Reply(h) \/ \E pc \in Pc \ {"idle"} : Goto(h, pc)
      BY <1>5, EditMoves
    <2>2. Busy(h) /\ up /\ up'
      BY <1>5, EditKinds
    <2> QED BY <1>1, <1>2, <2>1, <2>2
  <1>6. CASE Lock(h)
    <2>1. Busy(h) /\ up /\ up'
      BY <1>6 DEF Lock, Busy
    <2> DEFINE rows == IF hd[h].op = "upgrade" THEN hd[h].snap ELSE row
               listed == [hd[h] EXCEPT !.pc = "sites", !.snap = rows, !.mine = Managed(rows)]
               switching == [listed EXCEPT !.server = active]
               adopting == [hd[h] EXCEPT !.pc = "disable",
                            !.copy = [row[hd[h].d] EXCEPT !.source = "managed", !.php = hd[h].copy.php]]
    <2>2. Reply(h) \/ \E new \in {listed, switching, adopting} : hd' = [hd EXCEPT ![h] = new]
      BY <1>0, <1>6 DEF Lock, HandlersOK
    <2>3. \A new \in {listed, switching, adopting} :
            new.op = hd[h].op /\ new.d = hd[h].d /\ new.quiet = hd[h].quiet
      <3>1. hd[h] \in Handling
        BY <1>0 DEF HandlersOK
      <3> QED BY <3>1 DEF Handling
    <2> HIDE DEF listed, switching, adopting
    <2>4. ASSUME NEW new \in {listed, switching, adopting}, hd' = [hd EXCEPT ![h] = new]
          PROVE  hd'[h] = new /\ Moves(h)
      BY <1>0, <2>4 DEF HandlersOK, Moves
    <2> QED BY <1>1, <2>1, <2>2, <2>3, <2>4
  <1>7. CASE BulkStep(h)
    <2>1. \/ Unlock(h) \/ (\E pc \in Pc \ {"idle"} : Goto(h, pc))
          \/ hd' = [hd EXCEPT ![h].pc = "rerender", ![h].snap = row]
      BY <1>7, BulkMoves
    <2>2. Busy(h) /\ up /\ up'
      BY <1>7, BulkKinds
    <2>3. CASE hd' = [hd EXCEPT ![h].pc = "rerender", ![h].snap = row]
      BY <2>2, <2>3, SnapMoves
    <2> QED BY <1>1, <1>2, <2>1, <2>2, <2>3 DEF Unlock
  <1>8. CASE AdoptStep(h)
    BY <1>1, <1>8, AdoptMoves, AdoptKinds DEF Unlock
  <1>9. CASE ScanStep(h)
    <2>1. Busy(h) /\ up /\ up'
      BY <1>9, ScanKinds DEF Busy
    <2>2. CASE ScanReads(h)
      BY <1>9, <2>1, <2>2, ScanReading, ScanKinds
    <2>3. CASE ScanRecord(h)
      BY <1>2, <2>1, <2>3, ScanRecords DEF Pc
    <2>4. CASE ScanPrune(h)
      BY <1>1, <2>1, <2>4 DEF ScanPrune
    <2> QED BY <1>9, <2>2, <2>3, <2>4 DEF ScanStep
  <1> QED BY <1>3, <1>4, <1>5, <1>6, <1>7, <1>8, <1>9, StepKinds

\* Only a regeneration that ran alone, and a start, clear a doubt.
LEMMA StepDoubts ==
  ASSUME StructInv, NEW h \in Handler, Step(h)
  PROVE  \/ doubt \subseteq doubt'
         \/ RegenApply(h) /\ hd[h].quiet
  <1>1. CASE CreatePool(h) \/ CreateVHost(h) \/ CreateRow(h)
    BY <1>1 DEF CreatePool, CreateVHost, CreateRow, Doubting
  <1>2. CASE DeleteTeardown(h) \/ DeleteDismiss(h) \/ DeleteRows(h)
    BY <1>2 DEF DeleteTeardown, DeleteDismiss, DeleteRows
  <1>3. CASE EditStep(h)
    BY <1>3 DEF EditStep, ServePersist, ServeDropApp, ProxyApp, ProxyPersist, ProxyConfigure,
             PhpPool, RenderSite, PersistCerts, PersistSSL, PersistPhp, PersistLast, Doubting
  <1>4. CASE Lock(h)
    BY <1>4 DEF Lock
  <1>5. CASE RegenApply(h)
    BY <1>5 DEF RegenApply
  <1>6. CASE SwitchSites(h) \/ SwitchValidate(h) \/ SwitchSwap(h) \/ SwitchSave(h)
    BY <1>6 DEF SwitchSites, SwitchValidate, SwitchSwap, SwitchSave, Revert, All
  <1>7. CASE SwitchRepool(h) \/ SwitchReconcile(h) \/ SwitchRerender(h) \/ SwitchClean(h)
    BY <1>7 DEF SwitchRepool, SwitchReconcile, SwitchRerender, SwitchClean, Repool
  <1>8. CASE Regenerate(h) \/ Upgrade(h)
    BY <1>8 DEF Regenerate, Upgrade, Repool
  <1>9. CASE AdoptStep(h)
    BY <1>9 DEF AdoptStep, AdoptDisable, AdoptPool, AdoptVHost, AdoptMark, Doubting
  <1>10. CASE ScanStep(h)
    BY <1>10, ScanKinds
  <1> QED BY <1>1, <1>2, <1>3, <1>4, <1>5, <1>6, <1>7, <1>8, <1>9, <1>10, StepKinds DEF BulkStep

LEMMA Unclears ==
  ASSUME doubt \subseteq doubt', NEW d \in Domain, NEW a \in Aspect
  PROVE  (Sure(d, a)' => Sure(d, a)) /\ (Clear(d)' => Clear(d))
  BY DEF Sure, Clear

LEMMA AskOverlap ==
  ASSUME StructInv, QuietOK, OverlapOK, NEW h \in Handler, NEW op \in Op, NEW d \in Domain \cup {None},
         NEW new \in Handling, Ask(h, op, d, new)
  PROVE  QuietOK' /\ OverlapOK'
  <1>1. Asked(h, op, d, new)
    BY Asks DEF StructInv
  <1>2. /\ ~Busy(h) /\ hd'[h].op = op /\ hd'[h].d = d /\ hd'[h].quiet = (\A k \in Handler : ~Busy(k))
        /\ \A g \in Handler \ {h} :
             /\ hd'[g].op = hd[g].op /\ hd'[g].d = hd[g].d /\ hd'[g].pc = hd[g].pc
             /\ IF Busy(g) THEN ~hd'[g].quiet ELSE hd'[g] = hd[g]
    BY <1>1 DEF Asked
  <1>3. \A g \in Handler \ {h} : (Busy(g)' <=> Busy(g)) /\ (Touched(g)' = Touched(g))
    BY <1>2 DEF Busy, Touched
  <1>4. QuietOK'
    <2> SUFFICES ASSUME NEW k \in Handler, NEW g \in Handler, Busy(k)', hd'[k].quiet, g # k
                 PROVE  ~Busy(g)'
      BY DEF QuietOK
    <2>1. CASE k = h
      BY <1>2, <1>3, <2>1
    <2>2. CASE k # h
      BY <1>2, <1>3, <2>2
    <2> QED BY <2>1, <2>2
  <1>5. doubt' = doubt \cup (Disturbed(op, d) \X Aspect)
    BY DEF Ask
  <1>6. Touched(h)' \subseteq Reach(op, d)
    BY <1>2 DEF Touched
  <1>7. OverlapOK'
    <2> SUFFICES ASSUME NEW k \in Handler, NEW g \in Handler, NEW x \in Touched(k)' \cap Touched(g)',
                        k # g, Clash(hd'[k].op, hd'[g].op)
                 PROVE  ~Clear(x)'
      BY DEF OverlapOK
    <2>1. CASE k # h /\ g # h
      <3>1. ~Clear(x)
        BY <1>2, <1>3, <2>1 DEF OverlapOK
      <3> QED BY <1>5, <3>1 DEF Clear, Sure
    <2>2. ASSUME NEW y \in Handler \ {h}, x \in Touched(y), x \in Reach(op, d),
                 Clash(op, hd[y].op) \/ Clash(hd[y].op, op)
          PROVE  ~Clear(x)'
      <3>1. x \in Disturbed(op, d)
        BY <2>2 DEF Disturbed
      <3> QED BY <1>5, <3>1 DEF Clear, Sure
    <2>3. CASE k = h
      BY <1>2, <1>3, <1>6, <2>2, <2>3
    <2>4. CASE g = h
      BY <1>2, <1>3, <1>6, <2>2, <2>4
    <2> QED BY <2>1, <2>3, <2>4
  <1> QED BY <1>4, <1>7

LEMMA StepOverlap ==
  ASSUME StructInv, QuietOK, OverlapOK, NEW h \in Handler, Step(h)
  PROVE  QuietOK' /\ OverlapOK'
  <1>1. /\ Moves(h) /\ Busy(h)
        /\ \/ hd'[h] = NoHandling
           \/ hd'[h].op = hd[h].op /\ hd'[h].d = hd[h].d /\ hd'[h].quiet = hd[h].quiet
    BY StepStays
  <1>2. \A g \in Handler \ {h} : hd'[g] = hd[g]
    BY <1>1 DEF Moves, StructInv, HandlersOK
  <1>3. \A g \in Handler : Busy(g)' => Busy(g) /\ hd'[g].op = hd[g].op /\ hd'[g].d = hd[g].d
                                         /\ hd'[g].quiet = hd[g].quiet
    BY <1>1, <1>2, Values DEF Busy
  <1>4. QuietOK'
    BY <1>3 DEF QuietOK
  <1>5. \A g \in Handler : Touched(g)' \subseteq Touched(g)
    BY <1>3 DEF Touched
  <1>6. CASE doubt \subseteq doubt'
    <2> SUFFICES ASSUME NEW k \in Handler, NEW g \in Handler, NEW x \in Touched(k)' \cap Touched(g)',
                        k # g, Clash(hd'[k].op, hd'[g].op)
                 PROVE  ~Clear(x)'
      BY <1>4 DEF OverlapOK
    <2>1. Busy(k)' /\ Busy(g)'
      BY DEF Touched
    <2>2. ~Clear(x)
      BY <1>3, <1>5, <2>1 DEF OverlapOK
    <2> QED BY <1>4, <1>6, <2>2 DEF Clear, Sure
  <1>7. CASE RegenApply(h) /\ hd[h].quiet
    <2>1. \A g \in Handler \ {h} : ~Busy(g)
      BY <1>1, <1>7 DEF QuietOK
    <2>2. \A g \in Handler \ {h} : Touched(g)' = {}
      BY <1>3, <2>1 DEF Touched
    <2>3. OverlapOK'
      <3> SUFFICES ASSUME NEW k \in Handler, NEW g \in Handler, NEW x \in Touched(k)' \cap Touched(g)', k # g
                   PROVE  FALSE
        BY DEF OverlapOK
      <3> QED BY <2>2
    <2> QED BY <1>4, <2>3
  <1> QED BY <1>6, <1>7, StepDoubts

LEMMA Unbusy ==
  ASSUME \A g \in Handler : hd'[g] = NoHandling
  PROVE  QuietOK' /\ OverlapOK'
  <1>1. \A g \in Handler : ~Busy(g)' /\ Touched(g)' = {}
    BY Values DEF Busy, Touched
  <1> QED BY <1>1 DEF QuietOK, OverlapOK

LEMMA OverlapStep ==
  ASSUME StructInv, QuietOK, OverlapOK, [Next]_vars
  PROVE  QuietOK' /\ OverlapOK'
  <1>1. ASSUME NEW h \in Handler, Request(h)
        PROVE  QuietOK' /\ OverlapOK'
    <2>1. PICK op \in Op, d \in Domain \cup {None} : \E new \in Handling :
             Ask(h, op, d, new) /\ Opening(op, d, new)
      BY <1>1, RequestOpens
    <2> QED BY <2>1, AskOverlap
  <1>2. ASSUME NEW h \in Handler, Step(h)
        PROVE  QuietOK' /\ OverlapOK'
    BY <1>2, StepOverlap
  <1>3. ASSUME UNCHANGED hd, doubt \subseteq doubt'
        PROVE  QuietOK' /\ OverlapOK'
    BY <1>3 DEF QuietOK, OverlapOK, Busy, Touched, Clear, Sure
  <1>4. CASE SaveSettings \/ UNCHANGED vars
    BY <1>3, <1>4 DEF SaveSettings, vars
  <1>5. CASE \E d \in Domain : RemoveConf(d) \/ EditPage(d)
    BY <1>3, <1>5 DEF RemoveConf, EditPage, Doubting
  <1>6. CASE Crash
    BY <1>6, Unbusy DEF Crash
  <1>7. CASE Start
    <2>1. \A g \in Handler : hd'[g] = NoHandling
      BY <1>7, StartDoes DEF StructInv, DownOK
    <2> QED BY <2>1, Unbusy
  <1> QED BY <1>1, <1>2, <1>4, <1>5, <1>6, <1>7 DEF Next

LEMMA InitOverlap ==
  ASSUME Init
  PROVE  QuietOK /\ OverlapOK
  <1>1. \A g \in Handler : ~Busy(g) /\ Touched(g) = {}
    BY Values DEF Init, Busy, Touched
  <1> QED BY <1>1 DEF QuietOK, OverlapOK

-----------------------------------------------------------------------------
(* Forgotten imports *)

\* ImportExisting goes by the dismissals it read: what was forgotten later is marked.
ForgottenInv == \A h \in Handler : Chosen(h) => hd[h].mine \cap dismissed \subseteq late

\* A forgotten import stays forgotten, restarts included and whatever else runs, until
\* a scan asked for by an administrator has cleared the dismissals; but for a domain
\* forgotten while a scan had read them and not yet recorded what it chose.
ForgottenAction == \A d \in (dismissed \cap dismissed') \ late :
                      row[d].source = "none" => row'[d].source # "imported"

LEMMA StepSources ==
  ASSUME StructInv, ForgottenInv, NEW h \in Handler, Step(h), NEW d \in dismissed \ late,
         row[d].source = "none"
  PROVE  row'[d].source # "imported"
  <1>1. /\ row \in [Domain -> Row] /\ d \in Domain /\ row[d] = NoRow /\ NoRow.source = "none"
        /\ HandlersOK /\ RowsOK /\ row[d].source # "imported" /\ row[d].id = 0
    BY Values DEF StructInv, RowsOK, RowOK
  <1>2. CASE UNCHANGED row
    BY <1>1, <1>2
  <1>3. CASE CreatePool(h) \/ CreateVHost(h)
    BY <1>2, <1>3 DEF CreatePool, CreateVHost, db
  <1>4. CASE CreateRow(h)
    <2>1. CASE row' = [row EXCEPT ![hd[h].d] = [hd[h].copy EXCEPT !.id = ids + 1]]
      <3>1. hd[h] \in Handling /\ Holding(hd[h]) /\ hd[h].op = "create"
        BY <1>1, <1>4, Working DEF CreateRow, At
      <3>2. hd[h].copy \in Row /\ hd[h].copy.source = "managed"
        BY <3>1 DEF Holding, Handling
      <3>3. [hd[h].copy EXCEPT !.id = ids + 1].source = "managed"
        BY <3>2 DEF Row
      <3> QED BY <1>1, <2>1, <3>3
    <2> QED BY <1>2, <1>4, <2>1 DEF CreateRow
  <1>5. CASE DeleteTeardown(h) \/ DeleteDismiss(h)
    BY <1>2, <1>5 DEF DeleteTeardown, DeleteDismiss, db
  <1>6. CASE DeleteRows(h)
    BY <1>1, <1>2, <1>6 DEF DeleteRows, Deleted
  <1>7. CASE EditStep(h)
    BY <1>1, <1>7, EditUpdates
  <1>8. CASE Lock(h)
    BY <1>2, <1>8 DEF Lock, db
  <1>9. CASE BulkStep(h)
    BY <1>2, <1>9, BulkKinds DEF db
  <1>10. CASE AdoptStep(h)
    <2>1. \/ UNCHANGED row
          \/ \E x \in Foreign : row[x].id = hd[h].copy.id /\ x = hd[h].d /\
               row' = [row EXCEPT ![x] = [row[x] EXCEPT !.source = "managed",
                                          !.php = hd[h].copy.php, !.conf = None]]
      BY <1>10, AdoptRows
    <2>2. hd[h].copy.id \in 1..ids
      BY <1>10, AdoptKinds DEF Holding
    <2>3. ids \in Nat
      BY <1>1 DEF RowsOK
    <2>4. ASSUME NEW x \in Foreign, NEW new, row[x].id = hd[h].copy.id, row' = [row EXCEPT ![x] = new]
          PROVE  row'[d] = row[d]
      <3>1. d # x
        BY <1>1, <2>2, <2>3, <2>4
      <3> QED BY <1>1, <2>4, <3>1
    <2> QED BY <1>1, <2>1, <2>4
  <1>11. CASE ScanStep(h)
    <2>1. CASE ScanRecord(h)
      <3>1. PICK done \in SUBSET (hd[h].mine \cap Foreign), nested \in SUBSET Domain :
              row' = Recorded(done, nested) /\ (done # {} => hd[h].pc # "group")
        BY <2>1, ScanRecords
      <3>2. done # {} => Chosen(h)
        BY <1>11, <2>1, <3>1, ScanRecords, ScanKinds DEF Chosen
      <3>3. done \in SUBSET Foreign /\ d \notin done
        BY <3>1, <3>2 DEF ForgottenInv
      <3>4. Recorded(done, nested)[d].source = row[d].source
        BY <1>1, <3>3, RecordsRows
      <3> QED BY <1>1, <3>1, <3>4
    <2>2. CASE ScanPrune(h)
      BY <1>1, <2>2 DEF ScanPrune, Pruned, Deleted
    <2>3. CASE ScanReads(h)
      BY <1>2, <2>3, ScanReading
    <2> QED BY <1>11, <2>1, <2>2, <2>3 DEF ScanStep
  <1> QED BY <1>3, <1>4, <1>5, <1>6, <1>7, <1>8, <1>9, <1>10, <1>11, StepKinds

\* Who changes the dismissals and the marks.
LEMMA Dismissals ==
  ASSUME StructInv, NEW h \in Handler, Step(h), ~DeleteDismiss(h), ~ScanDirectory(h)
  PROVE  UNCHANGED <<dismissed, late>>
  <1>1. CASE CreatePool(h) \/ CreateVHost(h) \/ CreateRow(h)
    BY <1>1 DEF CreatePool, CreateVHost, CreateRow, KeepRest, bound, db
  <1>2. CASE DeleteTeardown(h) \/ DeleteRows(h)
    BY <1>2 DEF DeleteTeardown, DeleteRows, KeepRest, bound, db
  <1>3. CASE EditStep(h)
    BY <1>3 DEF EditStep, ServePersist, ServeDropApp, ProxyApp, ProxyPersist, ProxyConfigure, PhpPool,
             RenderSite, PersistCerts, PersistSSL, PersistPhp, PersistLast, KeepRest, bound, db
  <1>4. CASE Lock(h)
    BY <1>4 DEF Lock, bound, db
  <1>5. CASE BulkStep(h)
    BY <1>5, BulkKinds DEF bound, db
  <1>6. CASE AdoptStep(h)
    BY <1>6 DEF AdoptStep, AdoptDisable, AdoptPool, AdoptVHost, AdoptMark, bound, db
  <1>7. CASE ScanDismissals(h) \/ ScanLookUp(h) \/ ScanPrune(h)
    BY <1>7 DEF ScanDismissals, ScanLookUp, ScanPrune, KeepRest, bound, db
  <1>8. CASE ScanRecord(h)
    BY <1>8 DEF ScanRecord, ScanMains, ScanSubs, ScanInserts, ScanGroup, KeepRest, bound
  <1> QED BY <1>1, <1>2, <1>3, <1>4, <1>5, <1>6, <1>7, <1>8, StepKinds DEF ScanStep, ScanReads

\* A scan past its reading of the dismissals has in hand what it chose by them.
LEMMA ChosenStep ==
  ASSUME StructInv, ForgottenInv, NEW h \in Handler, Step(h)
  PROVE  ForgottenInv'
  <1>1. /\ Moves(h) /\ HandlersOK /\ \A g \in Handler \ {h} : hd'[g] = hd[g]
        /\ hd'[h].op \in {hd[h].op, None}
    BY StepStays, Values DEF Moves, StructInv, HandlersOK
  <1>2. CASE DeleteDismiss(h)
    <2>1. hd[h].op = "delete" /\ dismissed' = dismissed \cup {hd[h].d}
      BY <1>2 DEF DeleteDismiss, At
    <2>2. ~Chosen(h) /\ ~Chosen(h)'
      BY <1>1, <2>1, Constants DEF Chosen, Op, Bulk
    <2>3. \A g \in Handler : Chosen(g)' => Chosen(g) /\ hd'[g].mine = hd[g].mine
      BY <1>1, <2>2 DEF Chosen
    <2>4. (\E g \in Handler : Chosen(g)) => late' = late \cup {hd[h].d}
      BY <1>2 DEF DeleteDismiss
    <2> QED BY <2>1, <2>3, <2>4 DEF ForgottenInv
  <1>3. CASE ScanDirectory(h)
    <2>1. dismissed' = {}
      BY <1>3 DEF ScanDirectory
    <2> QED BY <2>1 DEF ForgottenInv
  <1>4. CASE ~DeleteDismiss(h) /\ ~ScanDirectory(h)
    <2>1. UNCHANGED <<dismissed, late>>
      BY <1>4, Dismissals
    <2>2. ASSUME Chosen(h)'
          PROVE  hd'[h].mine \cap dismissed \subseteq late
      <3>1. ScanStep(h)
        <4>1. hd[h].op = "scan"
          BY <1>1, <2>2, Constants DEF Chosen, Op, Bulk
        <4>2. ~EditStep(h) /\ ~BulkStep(h) /\ ~AdoptStep(h)
          BY <4>1, EditKinds, BulkKinds, AdoptKinds DEF Edits
        <4>3. /\ ~CreatePool(h) /\ ~CreateVHost(h) /\ ~CreateRow(h)
              /\ ~DeleteTeardown(h) /\ ~DeleteDismiss(h) /\ ~DeleteRows(h)
          BY <4>1 DEF CreatePool, CreateVHost, CreateRow, DeleteTeardown, DeleteDismiss, DeleteRows, At
        <4>4. Lock(h) => hd[h].pc = "lock"
          BY DEF Lock
        <4>5. Shape(hd[h])
          BY <1>1, Working
        <4> QED BY <4>1, <4>2, <4>3, <4>4, <4>5, StepKinds DEF Shape
      <3>2. CASE ScanReads(h)
        <4>1. ScanDismissals(h) => hd'[h].mine \cap dismissed = {}
          BY <3>2, ScanReading
        <4>2. ScanLookUp(h) => Chosen(h) /\ hd'[h].mine \subseteq hd[h].mine
          BY <1>4, <3>1, <3>2, ScanReading, ScanKinds DEF Chosen
        <4> QED BY <1>4, <3>2, <4>1, <4>2 DEF ForgottenInv, ScanReads
      <3>3. CASE ScanRecord(h)
        <4>1. PICK pc \in {"nest", "group", "prune"} : Goto(h, pc) /\ (pc = "nest" => hd[h].pc = "record")
          BY <3>3, ScanRecords
        <4>2. hd'[h].pc = pc /\ hd'[h].mine = hd[h].mine /\ hd'[h].op = hd[h].op
          BY <1>1, <4>1, GoesOn DEF Pc
        <4>3. Chosen(h)
          BY <2>2, <3>1, <4>1, <4>2, ScanKinds DEF Chosen
        <4> QED BY <4>2, <4>3 DEF ForgottenInv
      <3>4. CASE ScanPrune(h)
        <4>1. hd'[h] = NoHandling
          BY <1>1, <3>4, Replies DEF ScanPrune
        <4> QED BY <2>2, <4>1, Values DEF Chosen
      <3> QED BY <3>1, <3>2, <3>3, <3>4 DEF ScanStep
    <2>3. \A g \in Handler \ {h} : Chosen(g)' => Chosen(g) /\ hd'[g].mine = hd[g].mine
      BY <1>1 DEF Chosen
    <2> QED BY <2>1, <2>2, <2>3 DEF ForgottenInv
  <1> QED BY <1>2, <1>3, <1>4

LEMMA ForgottenStep ==
  ASSUME StructInv, ForgottenInv, [Next]_vars
  PROVE  ForgottenAction /\ ForgottenInv'
  <1>1. ASSUME UNCHANGED row
        PROVE  ForgottenAction
    BY <1>1 DEF ForgottenAction
  <1>2. ASSUME NEW h \in Handler, Request(h)
        PROVE  ForgottenAction /\ ForgottenInv'
    <2>1. PICK op \in Op, x \in Domain \cup {None} : \E new \in Handling :
             Ask(h, op, x, new) /\ Opening(op, x, new)
      BY <1>2, RequestOpens
    <2>2. PICK new \in Handling : Ask(h, op, x, new) /\ Opening(op, x, new)
      BY <2>1
    <2>3. Asked(h, op, x, new)
      BY <2>2, Asks DEF StructInv
    <2>4. UNCHANGED <<row, dismissed, late>>
      BY <2>3 DEF Asked, db
    <2>5. \A g \in Handler \ {h} : Chosen(g)' => Chosen(g) /\ hd'[g].mine = hd[g].mine
      BY <2>3 DEF Asked, Chosen
    <2>6. ~Chosen(h)'
      BY <2>2, <2>3 DEF Asked, Opening, Chosen
    <2> QED BY <1>1, <2>4, <2>5, <2>6 DEF ForgottenInv
  <1>3. ASSUME NEW h \in Handler, Step(h)
        PROVE  ForgottenAction /\ ForgottenInv'
    BY <1>3, StepSources, ChosenStep DEF ForgottenAction
  <1>4. ASSUME UNCHANGED <<row, dismissed, late, hd>>
        PROVE  ForgottenAction /\ ForgottenInv'
    BY <1>1, <1>4 DEF ForgottenInv, Chosen
  <1>5. CASE SaveSettings \/ UNCHANGED vars
    BY <1>4, <1>5 DEF SaveSettings, vars, db, bound
  <1>6. CASE \E x \in Domain : RemoveConf(x) \/ EditPage(x)
    BY <1>4, <1>6 DEF RemoveConf, EditPage, db, bound
  <1>7. ASSUME \A g \in Handler : hd'[g] = NoHandling
        PROVE  ForgottenInv'
    BY <1>7, Values DEF ForgottenInv, Chosen
  <1>8. CASE Crash
    BY <1>1, <1>7, <1>8 DEF Crash, db
  <1>9. CASE Start
    <2>1. row' = Booted /\ \A g \in Handler : hd'[g] = NoHandling
      BY <1>9, StartDoes DEF StructInv, DownOK
    <2>2. ASSUME NEW d \in dismissed, row[d].source = "none"
          PROVE  row'[d].source # "imported"
      <3>1. d \notin Newly /\ d \in Domain
        BY DEF Newly, Untracked, StructInv, RowsOK
      <3> QED BY <2>1, <2>2, <3>1, StartRows, Values
    <2> QED BY <1>7, <2>1, <2>2 DEF ForgottenAction
  <1> QED BY <1>2, <1>3, <1>5, <1>6, <1>8, <1>9 DEF Next

LEMMA InitForgotten == Init => ForgottenInv
  BY Values DEF Init, ForgottenInv, Chosen

THEOREM ForgottenStaysForgotten == Spec => ForgottenStays
  <1>1. Init => ForgottenInv
    BY InitForgotten
  <1>2. StructInv /\ ForgottenInv /\ [Next]_vars => ForgottenInv'
    BY ForgottenStep
  <1>3. StructInv /\ ForgottenInv /\ [Next]_vars => [ForgottenAction]_vars
    BY ForgottenStep
  <1> QED BY <1>1, <1>2, <1>3, StructAlways, PTL DEF Spec, ForgottenStays, ForgottenAction

-----------------------------------------------------------------------------
(* The web server that runs *)

\* While a switch is at work the other server may still run, until they are swapped.
ServiceInv ==
  crashes = 0 =>
  /\ up
  /\ (\A h \in Handler : ~Past(h, "switch")) => service \in {active, None}
  /\ \A h \in Handler : Past(h, "switch") =>
        IF hd[h].pc \in {"sites", "validate", "swap"} THEN service \in {hd[h].server, None}
        ELSE service = active

LEMMA ServiceStands ==
  ASSUME ServiceInv, UNCHANGED <<conf, up, crashes>>,
         \A g \in Handler : Past(g, "switch")' <=> Past(g, "switch"),
         \A g \in Handler : Past(g, "switch") => hd'[g].pc = hd[g].pc /\ hd'[g].server = hd[g].server
  PROVE  ServiceInv'
  BY DEF ServiceInv, conf

\* A switch, step by step.
LEMMA Switches ==
  ASSUME NEW h \in Handler, BulkStep(h), hd[h].op = "switch"
  PROVE  \/ /\ Unlock(h) /\ active' = hd[h].server
            /\ \/ hd[h].pc \in {"sites", "validate"} /\ service' = service
               \/ hd[h].pc = "swap" /\ service' \in {hd[h].server, None}
         \/ Unlock(h) /\ UNCHANGED <<active, service>> /\ hd[h].pc \in {"save", "clean"}
         \/ Goto(h, "validate") /\ UNCHANGED <<active, service>> /\ hd[h].pc = "sites"
         \/ Goto(h, "swap") /\ UNCHANGED <<active, service>> /\ hd[h].pc = "validate"
         \/ Goto(h, "save") /\ active' = active /\ service' = active /\ hd[h].pc = "swap"
         \/ /\ \E pc \in {"repool", "reconcile", "clean"} : Goto(h, pc)
            /\ UNCHANGED <<active, service>> /\ hd[h].pc \in {"save", "repool", "rerender"}
         \/ /\ hd' = [hd EXCEPT ![h].pc = "rerender", ![h].snap = row]
            /\ UNCHANGED <<active, service>> /\ hd[h].pc = "reconcile"
  <1>1. CASE SwitchSites(h) \/ SwitchValidate(h)
    BY <1>1 DEF SwitchSites, SwitchValidate, Revert, At
  <1>2. CASE SwitchSwap(h) \/ SwitchSave(h)
    BY <1>2 DEF SwitchSwap, SwitchSave, Revert, At
  <1>3. CASE SwitchRepool(h) \/ SwitchReconcile(h) \/ SwitchRerender(h) \/ SwitchClean(h)
    BY <1>3 DEF SwitchRepool, SwitchReconcile, SwitchRerender, SwitchClean, At, KeepRest, conf
  <1>4. CASE Regenerate(h) \/ RegenApply(h) \/ Upgrade(h)
    BY <1>4 DEF Regenerate, RegenApply, Upgrade, At
  <1> QED BY <1>1, <1>2, <1>3, <1>4 DEF BulkStep

LEMMA StepService ==
  ASSUME StructInv, ServiceInv, NEW h \in Handler, Step(h)
  PROVE  ServiceInv'
  <1>1. /\ Moves(h) /\ Busy(h) /\ up' /\ HandlersOK /\ hd[h] \in Handling
        /\ (hd'[h] = NoHandling \/ hd'[h].op = hd[h].op)
        /\ \A g \in Handler \ {h} : hd'[g] = hd[g]
    BY StepStays DEF StructInv, HandlersOK, Moves
  <1>2. ASSUME UNCHANGED <<conf, up, crashes>>, hd[h].op # "switch"
        PROVE  ServiceInv'
    <2>1. NoHandling.op # "switch"
      BY Values, Constants DEF Op, Locked
    <2>2. ~Past(h, "switch") /\ ~Past(h, "switch")'
      BY <1>1, <1>2, <2>1 DEF Past
    <2>3. \A g \in Handler \ {h} : Past(g, "switch")' <=> Past(g, "switch")
      BY <1>1 DEF Past
    <2> QED BY <1>1, <1>2, <2>2, <2>3, ServiceStands
  <1>3. CASE CreatePool(h) \/ CreateVHost(h) \/ CreateRow(h)
    BY <1>2, <1>3 DEF CreatePool, CreateVHost, CreateRow, At, KeepRest, bound
  <1>4. CASE DeleteTeardown(h) \/ DeleteDismiss(h) \/ DeleteRows(h)
    BY <1>2, <1>4 DEF DeleteTeardown, DeleteDismiss, DeleteRows, At, KeepRest, bound
  <1>5. CASE EditStep(h)
    <2>1. hd[h].op \in Edits /\ UNCHANGED <<conf, bound>> /\ up /\ up'
      BY <1>5, EditKinds
    <2> QED BY <1>2, <2>1 DEF Edits, bound
  <1>6. CASE AdoptStep(h)
    <2>1. hd[h].op = "adopt" /\ UNCHANGED <<conf, bound>> /\ up /\ up'
      BY <1>6, AdoptKinds
    <2> QED BY <1>2, <2>1 DEF bound
  <1>7. CASE ScanStep(h)
    BY <1>2, <1>7, ScanKinds DEF bound
  <1>8. ASSUME \A g \in Handler \ {h} : ~Past(g, "switch"), crashes' = crashes,
               crashes = 0 => up' /\ IF Past(h, "switch")'
                     THEN IF hd'[h].pc \in {"sites", "validate", "swap"} THEN service' \in {hd'[h].server, None}
                          ELSE service' = active'
                     ELSE service' \in {active', None}
        PROVE  ServiceInv'
    <2>1. \A g \in Handler \ {h} : ~Past(g, "switch")'
      BY <1>1, <1>8 DEF Past
    <2> QED BY <1>8, <2>1 DEF ServiceInv
  <1>9. CASE Lock(h)
    <2>1. /\ hd[h].pc = "lock" /\ lock = None /\ crashes' = crashes /\ service' = service /\ up /\ up'
      BY <1>9 DEF Lock, bound
    <2>2. \A g \in Handler : ~Past(g, "switch")
      BY <2>1, Constants DEF StructInv, LockOK, Past, Guarded
    <2>3. crashes = 0 => service \in {active, None}
      BY <2>2 DEF ServiceInv
    <2>4. CASE hd[h].op # "switch"
      <3>1. UNCHANGED <<conf, up, crashes>>
        BY <1>9, <2>4 DEF Lock, conf, bound
      <3> QED BY <1>2, <2>4, <3>1
    <2>5. CASE Reply(h) /\ UNCHANGED active
      <3>1. ~Past(h, "switch")'
        BY <1>1, <2>5, Replies, Values, Constants DEF Past, Op, Locked
      <3> QED BY <1>8, <2>1, <2>2, <2>3, <2>5, <3>1
    <2>6. CASE hd[h].op = "switch" /\ ~(Reply(h) /\ UNCHANGED active)
      <3> DEFINE listed == [hd[h] EXCEPT !.pc = "sites", !.snap = row, !.mine = Managed(row)]
                 new == [listed EXCEPT !.server = active]
      <3>1. hd' = [hd EXCEPT ![h] = new]
        BY <1>9, <2>6 DEF Lock
      <3>2. new.server = active /\ new.pc = "sites" /\ new.op = "switch"
        BY <1>1, <2>6 DEF Handling
      <3> HIDE DEF new
      <3>3. hd'[h].server = active /\ hd'[h].pc = "sites" /\ hd'[h].op = "switch"
        BY <1>1, <3>1, <3>2 DEF HandlersOK
      <3>4. Past(h, "switch")'
        BY <3>3 DEF Past
      <3> QED BY <1>8, <2>1, <2>2, <2>3, <3>3, <3>4
    <2> QED BY <2>4, <2>5, <2>6
  <1>10. CASE BulkStep(h)
    <2>1. /\ hd[h].op \in {"switch", "regen", "upgrade"} /\ hd[h].pc # "lock" /\ crashes' = crashes /\ up
          /\ \A g \in Handler \ {h} : hd[g].op \in Guarded => hd[g].pc = "lock"
      BY <1>10, BulkKinds DEF bound
    <2>2. \A g \in Handler \ {h} : ~Past(g, "switch")
      BY <2>1 DEF Past, Guarded
    <2>3. CASE hd[h].op # "switch"
      <3>1. UNCHANGED <<conf, up, crashes>>
        BY <1>1, <2>1, <2>3, <1>10 DEF BulkStep, SwitchSites, SwitchValidate, SwitchSwap, SwitchSave, SwitchRepool,
             SwitchReconcile, SwitchRerender, SwitchClean, Regenerate, RegenApply, Upgrade, At, bound
      <3> QED BY <1>2, <2>3, <3>1
    <2>4. CASE hd[h].op = "switch"
      <3>1. Past(h, "switch")
        BY <2>1, <2>4 DEF Past
      <3>2. crashes = 0 => IF hd[h].pc \in {"sites", "validate", "swap"} THEN service \in {hd[h].server, None}
                           ELSE service = active
        BY <3>1 DEF ServiceInv
      <3>3. ASSUME Unlock(h), crashes = 0 => service' \in {active', None}
            PROVE  ServiceInv'
        <4>1. ~Past(h, "switch")'
          BY <1>1, <3>3, Replies, Values, Constants DEF Past, Op, Locked, Unlock
        <4> QED BY <1>1, <1>8, <2>1, <2>2, <3>3, <4>1
      <3>4. ASSUME hd'[h].op = "switch", hd'[h].pc # "lock",
                   crashes = 0 => IF hd'[h].pc \in {"sites", "validate", "swap"}
                                  THEN service' \in {hd'[h].server, None} ELSE service' = active'
            PROVE  ServiceInv'
        <4>1. Past(h, "switch")'
          BY <3>4 DEF Past
        <4> QED BY <1>1, <1>8, <2>1, <2>2, <3>4, <4>1
      <3>5. ASSUME NEW pc \in {"validate", "swap", "save", "repool", "reconcile", "clean"}, Goto(h, pc)
            PROVE  hd'[h].op = "switch" /\ hd'[h].pc = pc /\ hd'[h].server = hd[h].server
        <4>1. pc \in Pc \ {"idle"}
          BY DEF Pc
        <4> QED BY <1>1, <2>4, <3>5, <4>1, GoesOn
      <3>6. CASE hd' = [hd EXCEPT ![h].pc = "rerender", ![h].snap = row]
        <4>1. hd'[h].op = "switch" /\ hd'[h].pc = "rerender"
          BY <2>4, <3>6, SnapMoves
        <4>2. hd[h].pc = "reconcile" /\ UNCHANGED <<active, service>>
          <5>1. \A pc \in {"validate", "swap", "save", "repool", "reconcile", "clean"} : ~Goto(h, pc)
            BY <3>5, <4>1
          <5>2. ~Unlock(h)
            BY <1>1, <4>1, Replies, Values DEF Unlock
          <5> QED BY <1>10, <2>4, <5>1, <5>2, Switches
        <4> QED BY <3>2, <3>4, <4>1, <4>2
      <3>7. CASE Unlock(h)
        <4>1. ~\E pc \in {"validate", "swap", "save", "repool", "reconcile", "clean"} : Goto(h, pc)
          BY <1>1, <3>5, <3>7, Replies, Values, Constants DEF Unlock, Op, Locked
        <4>2. hd' # [hd EXCEPT ![h].pc = "rerender", ![h].snap = row]
          BY <1>1, <2>4, <3>7, SnapMoves, Replies, Values DEF Unlock
        <4>3. crashes = 0 => service' \in {active', None}
          BY <1>10, <2>4, <3>2, <4>1, <4>2, Switches
        <4> QED BY <3>3, <3>7, <4>3
      <3>8. CASE Goto(h, "validate") /\ UNCHANGED <<active, service>> /\ hd[h].pc = "sites"
        BY <3>2, <3>4, <3>5, <3>8
      <3>9. CASE Goto(h, "swap") /\ UNCHANGED <<active, service>> /\ hd[h].pc = "validate"
        BY <3>2, <3>4, <3>5, <3>9
      <3>10. CASE Goto(h, "save") /\ active' = active /\ service' = active /\ hd[h].pc = "swap"
        BY <3>4, <3>5, <3>10
      <3>11. ASSUME NEW pc \in {"repool", "reconcile", "clean"}, Goto(h, pc), UNCHANGED <<active, service>>,
                    hd[h].pc \in {"save", "repool", "rerender"}
             PROVE  ServiceInv'
        BY <3>2, <3>4, <3>5, <3>11
      <3> QED BY <1>10, <2>4, <3>6, <3>7, <3>8, <3>9, <3>10, <3>11, Switches
    <2> QED BY <2>3, <2>4
  <1> QED BY <1>3, <1>4, <1>5, <1>6, <1>7, <1>9, <1>10, StepKinds

LEMMA ServiceStep ==
  ASSUME StructInv, ServiceInv, [Next]_vars
  PROVE  ServiceInv'
  <1>1. ASSUME NEW h \in Handler, Request(h)
        PROVE  ServiceInv'
    <2>1. PICK op \in Op, d \in Domain \cup {None} : \E new \in Handling :
             Ask(h, op, d, new) /\ Opening(op, d, new)
      BY <1>1, RequestOpens
    <2>2. PICK new \in Handling : Ask(h, op, d, new) /\ Opening(op, d, new)
      BY <2>1
    <2>3. Asked(h, op, d, new) /\ HandlersOK
      BY <2>2, Asks DEF StructInv
    <2>4. ~Past(h, "switch") /\ ~Past(h, "switch")'
      <3>1. hd[h].op # "switch"
        BY <2>3, Working DEF Asked, Op, Locked, Bulk
      <3>2. op = "switch" => new.pc = "lock"
        BY <2>2 DEF Opening, Guarded
      <3> QED BY <2>3, <3>1, <3>2 DEF Past, Asked
    <2>5. \A g \in Handler \ {h} : /\ Past(g, "switch")' <=> Past(g, "switch")
                                   /\ hd'[g].pc = hd[g].pc /\ hd'[g].server = hd[g].server
      BY <2>3 DEF Past, Asked
    <2> QED BY <2>3, <2>4, <2>5, ServiceStands DEF Asked
  <1>2. ASSUME NEW h \in Handler, Step(h)
        PROVE  ServiceInv'
    BY <1>2, StepService
  <1>3. CASE SaveSettings \/ UNCHANGED vars
    BY <1>3 DEF SaveSettings, vars, conf, bound, ServiceInv, Past
  <1>4. CASE \E d \in Domain : RemoveConf(d) \/ EditPage(d)
    BY <1>4, ServiceStands DEF RemoveConf, EditPage, bound, Past
  <1>5. CASE Crash
    <2>1. crashes' = crashes + 1 /\ crashes \in Nat
      BY <1>5 DEF Crash, StructInv, PanelOK
    <2> QED BY <2>1 DEF ServiceInv
  <1>6. CASE Start
    <2>1. ~up /\ UNCHANGED crashes
      BY <1>6, StartDoes DEF bound
    <2> QED BY <2>1 DEF ServiceInv
  <1> QED BY <1>1, <1>2, <1>3, <1>4, <1>5, <1>6 DEF Next

\* The server the panel writes for is the one that runs, or none does, except while a
\* switch is in progress: a failed switch has gone back to both (SwitchWebServer).
THEOREM ServiceFollows == Spec => []ServiceIsActive
  <1>1. Init => ServiceInv
    <2>1. ASSUME Init
          PROVE  \A h \in Handler : ~Past(h, "switch")
      BY <2>1, Values, Constants DEF Init, Past, Op, Locked
    <2> QED BY <2>1 DEF Init, ServiceInv
  <1>2. StructInv /\ ServiceInv /\ [Next]_vars => ServiceInv'
    BY ServiceStep
  <1>3. ServiceInv => ServiceIsActive
    BY DEF ServiceInv, ServiceIsActive, Past
  <1> QED BY <1>1, <1>2, <1>3, StructAlways, PTL DEF Spec

-----------------------------------------------------------------------------
(* What a step does to a row *)

RowChange(h, x) ==
  \/ row'[x] = row[x]
  \/ /\ hd[h].op = "create" /\ x = hd[h].d /\ row[x].source = "none" /\ Reply(h)
     /\ row'[x] = [hd[h].copy EXCEPT !.id = ids + 1]
  \/ /\ hd[h].op \in Edits /\ x = hd[h].d /\ row[x].id = hd[h].copy.id /\ row'[x] = Persisted(h)
  \/ /\ hd[h].op = "delete" /\ x \in Reach("delete", hd[h].d) /\ Reply(h)
     /\ row[hd[h].d].id = hd[h].copy.id /\ row'[x] = NoRow
  \/ /\ hd[h].op = "adopt" /\ hd[h].pc = "mark" /\ x = hd[h].d /\ row[x].id = hd[h].copy.id /\ Unlock(h)
     /\ row'[x] = [row[x] EXCEPT !.source = "managed", !.php = hd[h].copy.php, !.conf = None]
  \/ hd[h].op = "scan" /\ row[x].source # "managed" /\ row'[x].source # "managed"
  \/ hd[h].op = "scan" /\ row'[x] = NoRow /\ \A a \in Aspect : ~Sure(x, a)'

LEMMA RowChanges ==
  ASSUME StructInv, NEW h \in Handler, Step(h), NEW x \in Domain
  PROVE  RowChange(h, x)
  <1>1. /\ row \in [Domain -> Row] /\ NoRow.source = "none" /\ HandlersOK /\ RowsOK
        /\ hd[h] \in Handling
    BY Values DEF StructInv, RowsOK, HandlersOK
  <1>2. CASE UNCHANGED row
    BY <1>2 DEF RowChange
  <1>3. CASE CreatePool(h) \/ CreateVHost(h)
    BY <1>2, <1>3 DEF CreatePool, CreateVHost, db
  <1>4. CASE CreateRow(h)
    <2>1. CASE /\ row[hd[h].d].source = "none" /\ Reply(h)
               /\ row' = [row EXCEPT ![hd[h].d] = [hd[h].copy EXCEPT !.id = ids + 1]]
      <3>1. hd[h].op = "create" /\ hd[h].d \in Domain
        BY <1>1, <1>4, Working, Values, Constants DEF CreateRow, At, Op, Bulk, Locked, Busy
      <3>2. row'[x] = IF x = hd[h].d THEN [hd[h].copy EXCEPT !.id = ids + 1] ELSE row[x]
        BY <1>1, <2>1, <3>1
      <3> QED BY <2>1, <3>1, <3>2 DEF RowChange
    <2> QED BY <1>2, <1>4, <2>1 DEF CreateRow
  <1>5. CASE DeleteTeardown(h) \/ DeleteDismiss(h)
    BY <1>2, <1>5 DEF DeleteTeardown, DeleteDismiss, db
  <1>6. CASE DeleteRows(h)
    <2>1. CASE row[hd[h].d].id = hd[h].copy.id /\ row' = Deleted(row, {hd[h].d})
      <3>1. hd[h].op = "delete" /\ Reply(h)
        BY <1>6 DEF DeleteRows, At
      <3>2. row'[x] = row[x] \/ (row'[x] = NoRow /\ (x = hd[h].d \/ ParentOf[x] = hd[h].d))
        BY <2>1 DEF Deleted
      <3>3. row'[x] = row[x] \/ (row'[x] = NoRow /\ x \in Reach("delete", hd[h].d))
        BY <3>2 DEF Reach, Bulk
      <3> QED BY <2>1, <3>1, <3>3 DEF RowChange
    <2> QED BY <1>2, <1>6, <2>1 DEF DeleteRows
  <1>7. CASE EditStep(h)
    BY <1>7, EditUpdates, EditKinds DEF RowChange
  <1>8. CASE Lock(h)
    BY <1>2, <1>8 DEF Lock, db
  <1>9. CASE BulkStep(h)
    BY <1>2, <1>9, BulkKinds DEF db
  <1>10. CASE AdoptStep(h)
    <2>1. ASSUME NEW d \in Foreign, hd[h].pc = "mark", d = hd[h].d, row[d].id = hd[h].copy.id, Unlock(h),
                 row' = [row EXCEPT ![d] = [row[d] EXCEPT !.source = "managed",
                                            !.php = hd[h].copy.php, !.conf = None]]
          PROVE  RowChange(h, x)
      <3>1. hd[h].op = "adopt"
        BY <1>10, AdoptKinds
      <3>2. row'[x] = IF x = d THEN [row[d] EXCEPT !.source = "managed",
                                            !.php = hd[h].copy.php, !.conf = None] ELSE row[x]
        BY <1>1, <2>1
      <3> QED BY <2>1, <3>1, <3>2 DEF RowChange
    <2> QED BY <1>2, <1>10, <2>1, AdoptRows
  <1>11. CASE ScanStep(h)
    <2>1. CASE ScanRecord(h)
      <3>1. PICK done \in SUBSET (hd[h].mine \cap Foreign), nested \in SUBSET Domain :
              row' = Recorded(done, nested) /\ \A y \in done : row[y].source = "none"
        BY <2>1, ScanRecords
      <3>2. hd[h].op = "scan"
        BY <1>11, ScanKinds
      <3>3. done \in SUBSET Foreign /\ (x \in done => row[x].source = "none")
        BY <3>1
      <3> DEFINE rows == Recorded(done, nested)
      <3>4. /\ x \notin done => /\ rows[x].source = row[x].source
                                /\ row[x].source # "imported" => rows[x] = row[x]
            /\ x \in done => rows[x].source = "imported"
        BY <1>1, <3>3, RecordsRows
      <3>5. row' = rows
        BY <3>1
      <3> HIDE DEF rows
      <3> QED BY <3>2, <3>3, <3>4, <3>5 DEF RowChange
    <2>2. CASE ScanPrune(h)
      <3>1. /\ hd[h].op = "scan" /\ doubt' = doubt \cup (Stranded(row', {}) \X Aspect)
            /\ row'[x] = row[x] \/ row'[x] = NoRow
        BY <2>2 DEF ScanPrune, Pruned, Deleted, At
      <3>2. CASE row'[x] = NoRow /\ row[x].source = "managed"
        <4>1. x \in Stranded(row', {})
          BY <1>1, <3>2 DEF Stranded, Managed
        <4> QED BY <3>1, <3>2, <4>1 DEF RowChange, Sure
      <3> QED BY <1>1, <3>1, <3>2 DEF RowChange
    <2>3. CASE ScanReads(h)
      BY <1>2, <2>3, ScanReading
    <2> QED BY <1>11, <2>1, <2>2, <2>3 DEF ScanStep
  <1> QED BY <1>3, <1>4, <1>5, <1>6, <1>7, <1>8, <1>9, <1>10, <1>11, StepKinds

\* When the row of a parent goes, those of its subdomains go with it.
LEMMA Cascades ==
  ASSUME StructInv, NEW h \in Handler, Step(h), NEW x \in Domain, NEW s \in Domain,
         row[x].source # "none", row'[x] = NoRow, row[s].sub, ParentOf[s] = x
  PROVE  row'[s] = NoRow
  <1>1. NoRow.source = "none" /\ row[x] # NoRow
    BY Values
  <1>2. ASSUME NEW gone \in SUBSET Domain, row' = Deleted(row, gone)
        PROVE  row'[s] = NoRow
    <2>1. x \in gone \/ (row[x].sub /\ ParentOf[x] \in gone)
      BY <1>1, <1>2 DEF Deleted
    <2>2. ParentOf[x] = None /\ None \notin gone
      BY DomainAssumption
    <2>3. x \in gone
      BY <2>1, <2>2
    <2> QED BY <1>2, <2>3 DEF Deleted
  <1>3. CASE row'[x] = row[x]
    BY <1>1, <1>3
  <1>4. CASE DeleteRows(h)
    <2>1. hd[h].d \in Domain
      BY <1>4, Working, Values, Constants DEF DeleteRows, At, Op, Bulk, Locked, Busy, StructInv
    <2>2. row' = row \/ row' = Deleted(row, {hd[h].d})
      BY <1>4 DEF DeleteRows
    <2> QED BY <1>2, <1>3, <2>1, <2>2
  <1>5. CASE ScanPrune(h)
    <2>1. row' = Deleted(row, {d \in Domain : row[d].source = "imported" /\ d \notin hd[h].found})
      BY <1>5 DEF ScanPrune, Pruned
    <2> QED BY <1>2, <2>1
  <1>6. CASE ~DeleteRows(h) /\ ~ScanPrune(h)
    <2>1. CASE CreateRow(h)
      <3>1. Holding(hd[h]) /\ hd[h] \in Handling /\ hd[h].d \in Domain /\ hd[h].op = "create"
        BY <2>1, Working, Values, Constants DEF CreateRow, At, Op, Bulk, Locked, Busy, StructInv
      <3>2. \/ row' = row
            \/ /\ row[hd[h].d].source = "none"
               /\ row' = [row EXCEPT ![hd[h].d] = [hd[h].copy EXCEPT !.id = ids + 1]]
        BY <2>1 DEF CreateRow
      <3> QED BY <1>3, <3>1, <3>2 DEF StructInv, RowsOK
    <2>2. CASE EditStep(h)
      BY <1>1, <2>2, EditUpdates
    <2>3. CASE AdoptStep(h)
      <3>1. row'[x].source # "none"
        <4>1. ASSUME NEW d \in Foreign, row' = [row EXCEPT ![d] = [row[d] EXCEPT !.source = "managed",
                                            !.php = hd[h].copy.php, !.conf = None]]
              PROVE  row'[x].source # "none"
          <5>1. row \in [Domain -> Row]
            BY DEF StructInv, RowsOK
          <5>2. row[x] \in Row /\ row'[x] = IF x = d THEN [row[x] EXCEPT !.source = "managed",
                                            !.php = hd[h].copy.php, !.conf = None] ELSE row[x]
            BY <4>1, <5>1
          <5> QED BY <5>2 DEF Row
        <4> QED BY <2>3, <4>1, AdoptRows
      <3> QED BY <1>1, <3>1
    <2>4. CASE ScanRecord(h)
      <3>1. PICK done \in SUBSET (hd[h].mine \cap Foreign), nested \in SUBSET Domain :
              row' = Recorded(done, nested)
        BY <2>4, ScanRecords
      <3>2. RowsOK
        BY DEF StructInv
      <3>3. done \in SUBSET Foreign
        BY <3>1
      <3>4. Recorded(done, nested)[x].source # "none"
        BY <3>2, <3>3, RecordsRows
      <3> QED BY <1>1, <3>1, <3>4
    <2>5. CASE Lock(h) \/ CreatePool(h) \/ CreateVHost(h) \/ DeleteTeardown(h) \/ DeleteDismiss(h) \/ ScanReads(h)
      BY <1>3, <2>5, ScanReading DEF Lock, CreatePool, CreateVHost, DeleteTeardown, DeleteDismiss, db
    <2>6. CASE BulkStep(h)
      BY <1>3, <2>6, BulkKinds DEF db
    <2> QED BY <1>6, <2>1, <2>2, <2>3, <2>4, <2>5, <2>6, StepKinds DEF ScanStep
  <1> QED BY <1>4, <1>5, <1>6

\* Who may run beside whom on a site.
LEMMA Clashes ==
  ASSUME NEW p \in Op, NEW q \in Op, ~Clash(p, q), ~Clash(q, p)
  PROVE  /\ p = "create" => q \in {"regen", "upgrade"}
         /\ p \in Edits => q \in {"upgrade", "adopt", "scan"} \/ (p = "proxy" /\ q = "proxy")
         /\ p = "php" => q # "upgrade"
         /\ p = "delete" => q = "delete"
         /\ p = "adopt" => q \notin {"create", "delete", "scan"}
         /\ p = "scan" => q \notin {"create", "delete", "adopt"}
  <1>1. ASSUME p \in Single, q \in Single, p # q \/ p \notin {"delete", "proxy"}
        PROVE  FALSE
    <2>1. {p, q} \subseteq Single /\ {p, q} # {"delete"} /\ {p, q} # {"proxy"}
      BY <1>1
    <2> QED BY <2>1 DEF Clash
  <1>2. p \in Single => q # "switch" /\ (p # "create" => q # "regen")
    BY DEF Clash, Single
  <1>3. p \in {"delete", "php"} => q # "upgrade"
    BY DEF Clash
  <1>4. /\ p \in {"create", "delete", "scan"} => q # "adopt"
        /\ q \in {"create", "delete", "scan"} => p # "adopt"
        /\ p \in {"create", "delete"} => q # "scan"
        /\ q \in {"create", "delete"} => p # "scan"
    BY DEF Clash
  <1>5. Op = Single \cup {"switch", "regen", "upgrade", "adopt", "scan"}
    BY DEF Op, Single, Locked, Bulk
  <1> QED BY <1>1, <1>2, <1>3, <1>4, <1>5 DEF Single, Edits

LEMMA Alongside ==
  ASSUME StructInv, OverlapOK, NEW h \in Handler, NEW g \in Handler \ {h}, NEW x \in Domain, Clear(x),
         x \in Touched(h), x \in Touched(g)
  PROVE  /\ hd[h].op \in Op /\ hd[g].op \in Op
         /\ ~Clash(hd[h].op, hd[g].op) /\ ~Clash(hd[g].op, hd[h].op)
  <1>1. Busy(h) /\ Busy(g)
    BY DEF Touched
  <1>2. hd[h].op \in Op /\ hd[g].op \in Op
    BY <1>1, Working DEF StructInv
  <1> QED BY <1>2 DEF OverlapOK

-----------------------------------------------------------------------------
(* What a request read on the way in is still so *)

\* The row as a request will leave it, from what is in the table now.
Draft(g, now) ==
  CASE g.op = "serve" /\ g.pc = "persist" -> [now EXCEPT !.root = g.copy.root, !.mode = g.copy.mode]
    [] g.op = "proxy" /\ g.pc \in {"app", "persist"} -> [now EXCEPT !.mode = g.copy.mode]
    [] g.op = "php" -> [now EXCEPT !.php = g.copy.php]
    [] g.op = "ssl" /\ g.pc \in {"render", "certs"} /\ g.copy.ssl -> [now EXCEPT !.ssl = TRUE, !.own = FALSE]
    [] g.op = "ssl" /\ ~(g.pc \in {"render", "certs"} /\ g.copy.ssl) -> [now EXCEPT !.ssl = g.copy.ssl]
    [] OTHER -> now

CreateCurrent(g) == g.op = "create" /\ Clear(g.d) => row[g.d].source = "none"
EditCurrent(g) ==
  g.op \in Edits /\ Clear(g.d) => row[g.d].source = "managed" /\ Draft(g, row[g.d]) = g.copy
DeleteCurrent(g) ==
  g.op = "delete" => \A s \in g.mine : Clear(s) =>
     /\ row[s].source # "imported"
     /\ row[s].source = "managed" => row[g.d].id = g.copy.id /\ (s = g.d \/ row[s].sub)
SwitchCurrent(g) ==
  g.op = "switch" /\ g.pc # "lock" => \A d \in Domain : Clear(d) =>
     /\ d \in g.mine <=> row[d].source = "managed"
     /\ g.snap[d].source = "managed" <=> row[d].source = "managed"
     /\ d \in g.mine => g.snap[d] = row[d]
RegenCurrent(g) ==
  g.op = "regen" /\ g.pc # "lock" =>
     /\ g.mine = Managed(g.snap)
     /\ g.quiet => g.snap = row
     /\ \A d \in g.mine : Clear(d) => g.snap[d] = row[d]
UpgradeCurrent(g) ==
  g.op = "upgrade" =>
     /\ g.pc # "lock" => g.mine = Managed(g.snap)
     /\ \A d \in Managed(g.snap) : Clear(d) => row[d].source = "managed" /\ row[d].php = g.snap[d].php
AdoptCurrent(g) ==
  g.op = "adopt" /\ g.pc # "lock" /\ Clear(g.d) =>
     /\ row[g.d].source = "imported"
     /\ g.copy = [row[g.d] EXCEPT !.source = "managed", !.php = g.copy.php]
Current(g) ==
  /\ CreateCurrent(g) /\ EditCurrent(g) /\ DeleteCurrent(g) /\ SwitchCurrent(g)
  /\ RegenCurrent(g) /\ UpgradeCurrent(g) /\ AdoptCurrent(g)
CurrentInv == \A h \in Handler : Current(hd[h])

\* What h has done to a site g works on, beside it.
LEMMA Besides ==
  ASSUME StructInv, OverlapOK, NEW h \in Handler, Step(h), NEW g \in Handler \ {h}, NEW x \in Domain,
         x \in Touched(g), Clear(x), Clear(x)'
  PROVE  \/ row'[x] = row[x]
         \/ hd[h].op = "create" /\ hd[h].d = x /\ row[x].source = "none" /\ hd[g].op \in {"regen", "upgrade"}
         \/ /\ hd[h].op \in Edits /\ hd[h].d = x /\ row[x].id = hd[h].copy.id /\ row'[x] = Persisted(h)
            /\ hd[g].op \in {"upgrade", "adopt", "scan"} \/ (hd[h].op = "proxy" /\ hd[g].op = "proxy")
            /\ hd[h].op = "php" => hd[g].op # "upgrade"
         \/ hd[h].op = "delete" /\ row'[x] = NoRow /\ hd[g].op = "delete"
         \/ /\ hd[h].op = "adopt" /\ hd[h].pc = "mark" /\ hd[h].d = x
            /\ hd[g].op \in {"serve", "proxy", "php", "ssl", "switch", "regen", "upgrade", "adopt"}
            /\ hd[g].op \in Guarded => hd[g].pc = "lock"
         \/ /\ hd[h].op = "scan" /\ row[x].source # "managed" /\ row'[x].source # "managed"
            /\ hd[g].op \notin {"create", "delete", "adopt"}
  <1>1. CASE row'[x] = row[x]
    BY <1>1
  <1>2. CASE row'[x] # row[x]
    <2>1. RowChange(h, x) /\ Busy(h)
      BY RowChanges, StepStays
    <2>2. ~\A a \in Aspect : ~Sure(x, a)'
      BY DEF Clear
    <2>3. x \in Touched(h)
      <3>1. hd[h].op \in {"create", "adopt"} \cup Edits /\ x = hd[h].d => x \in Reach(hd[h].op, hd[h].d)
        BY DEF Reach, Bulk, Edits
      <3>2. hd[h].op = "scan" => x \in Reach(hd[h].op, hd[h].d)
        BY DEF Reach, Bulk
      <3> QED BY <1>2, <2>1, <3>1, <3>2 DEF RowChange, Touched
    <2>4. /\ hd[h].op \in Op /\ hd[g].op \in Op
          /\ ~Clash(hd[h].op, hd[g].op) /\ ~Clash(hd[g].op, hd[h].op)
      BY <2>3, Alongside
    <2> DEFINE p == hd[h].op
               q == hd[g].op
    <2>5. /\ p = "create" => q \in {"regen", "upgrade"}
          /\ p \in Edits => q \in {"upgrade", "adopt", "scan"} \/ (p = "proxy" /\ q = "proxy")
          /\ p = "php" => q # "upgrade"
          /\ p = "delete" => q = "delete"
          /\ p = "adopt" => q \notin {"create", "delete", "scan"}
          /\ p = "scan" => q \notin {"create", "delete", "adopt"}
      <3> HIDE DEF p, q
      <3>1. p \in Op /\ q \in Op /\ ~Clash(p, q) /\ ~Clash(q, p)
        BY <2>4 DEF p, q
      <3> QED BY <3>1, Clashes
    <2>6. p = "adopt" => q \in {"serve", "proxy", "php", "ssl", "switch", "regen", "upgrade", "adopt"}
      BY <2>4, <2>5 DEF Op, Locked, Bulk
    <2>7. p = "adopt" /\ hd[h].pc = "mark" /\ q \in Guarded => hd[g].pc = "lock"
      BY DEF StructInv, LockOK, Guarded
    <2> QED BY <1>2, <2>1, <2>2, <2>5, <2>6, <2>7 DEF RowChange
  <1> QED BY <1>1, <1>2

\* A row keeps its id for as long as it is there.
LEMMA KeepsIds ==
  ASSUME StructInv, NEW h \in Handler, Step(h), NEW x \in Domain, row[x].source # "none", row'[x] # NoRow
  PROVE  row'[x].id = row[x].id
  <1>1. row[x] \in Row /\ HandlersOK
    BY DEF StructInv, RowsOK
  <1>2. CASE ScanRecord(h)
    <2>1. PICK done \in SUBSET (hd[h].mine \cap Foreign), nested \in SUBSET Domain :
            row' = Recorded(done, nested) /\ \A y \in done : row[y].source = "none"
      BY <1>2, ScanRecords
    <2>2. RowsOK
      BY DEF StructInv
    <2>3. done \in SUBSET Foreign /\ x \notin done
      BY <2>1
    <2>4. Recorded(done, nested)[x].id = row[x].id
      BY <2>2, <2>3, RecordsRows
    <2> QED BY <2>1, <2>4
  <1>3. CASE ScanPrune(h)
    BY <1>3 DEF ScanPrune, Pruned, Deleted
  <1>4. CASE EditStep(h)
    BY <1>4, EditUpdates
  <1>5. CASE ~ScanRecord(h) /\ ~ScanPrune(h) /\ ~EditStep(h)
    <2>1. RowChange(h, x)
      BY RowChanges
    <2>2. CASE row'[x] = [row[x] EXCEPT !.source = "managed", !.php = hd[h].copy.php, !.conf = None]
      BY <1>1, <2>2 DEF Row
    <2>3. CASE hd[h].op \in {"scan"} \cup Edits
      <3>1. ScanReads(h) => UNCHANGED row
        BY ScanReading
      <3>2. ~CreatePool(h) /\ ~CreateVHost(h) /\ ~CreateRow(h) /\ ~DeleteTeardown(h) /\ ~DeleteDismiss(h)
            /\ ~DeleteRows(h)
        BY <2>3 DEF CreatePool, CreateVHost, CreateRow, DeleteTeardown, DeleteDismiss, DeleteRows, At, Edits
      <3>3. ~BulkStep(h) /\ ~AdoptStep(h)
        BY <2>3, BulkKinds, AdoptKinds DEF Edits
      <3>4. Lock(h) => UNCHANGED row
        BY DEF Lock, db
      <3> QED BY <1>5, <3>1, <3>2, <3>3, <3>4, StepKinds DEF ScanStep
    <2> QED BY <2>1, <2>2, <2>3 DEF RowChange
  <1> QED BY <1>2, <1>3, <1>4, <1>5

LEMMA Reaches ==
  ASSUME StructInv, NEW g \in Handler, Busy(g)
  PROVE  /\ hd[g].op \in Op
         /\ hd[g].op \notin Bulk => hd[g].d \in Domain /\ hd[g].d \in Touched(g)
         /\ hd[g].op \in Bulk => Touched(g) = Domain
         /\ hd[g].op = "delete" => hd[g].mine \subseteq Touched(g)
  <1>1. /\ hd[g].op \in Op /\ Holding(hd[g])
        /\ hd[g].op \notin Bulk => hd[g].d \in Domain
    BY Working DEF StructInv
  <1>2. hd[g].op \in Bulk => Touched(g) = Domain
    BY DEF Touched, Reach
  <1>3. hd[g].op \notin Bulk => hd[g].d \in Touched(g)
    BY DEF Touched, Reach
  <1>4. hd[g].op = "delete" => hd[g].mine \subseteq Touched(g)
    BY <1>1 DEF Holding, Touched, Reach, Bulk
  <1> QED BY <1>1, <1>2, <1>3, <1>4

\* While one request moves, what the others hold stays current.
LEMMA OthersCurrent ==
  ASSUME StructInv, QuietOK, OverlapOK, CurrentInv, NEW h \in Handler, Step(h),
         NEW g \in Handler \ {h}, doubt \subseteq doubt'
  PROVE  Current(hd[g])'
  <1>1. hd'[g] = hd[g] /\ Busy(h) /\ HandlersOK
    BY StepStays DEF StructInv, HandlersOK, Moves
  <1>2. \A x \in Domain : Clear(x)' => Clear(x)
    BY DEF Clear, Sure
  <1>3. CASE ~Busy(g)
    <2>1. hd[g].op \notin Op
      BY <1>1, <1>3, Working, Constants DEF Busy
    <2> QED BY <1>1, <2>1 DEF Current, CreateCurrent, EditCurrent, DeleteCurrent, SwitchCurrent, RegenCurrent,
                  UpgradeCurrent, AdoptCurrent, Op, Locked, Bulk, Edits
  <1>4. CASE Busy(g)
    <2>1. /\ hd[g].op \in Op
          /\ hd[g].op \notin Bulk => hd[g].d \in Domain /\ hd[g].d \in Touched(g)
          /\ hd[g].op \in Bulk => Touched(g) = Domain
          /\ hd[g].op = "delete" => hd[g].mine \subseteq Touched(g)
      BY <1>4, Reaches
    <2>2. /\ CreateCurrent(hd[g]) /\ EditCurrent(hd[g]) /\ DeleteCurrent(hd[g]) /\ SwitchCurrent(hd[g])
          /\ RegenCurrent(hd[g]) /\ UpgradeCurrent(hd[g]) /\ AdoptCurrent(hd[g])
          /\ EditCurrent(hd[h]) /\ AdoptCurrent(hd[h])
      BY DEF CurrentInv, Current
    <2>3. ASSUME NEW x \in Touched(g), x \in Domain, Clear(x)'
          PROVE  /\ Clear(x)
                 /\ \/ row'[x] = row[x]
                    \/ hd[h].op = "create" /\ hd[h].d = x /\ row[x].source = "none" /\ hd[g].op \in {"regen", "upgrade"}
                    \/ /\ hd[h].op \in Edits /\ hd[h].d = x /\ row[x].id = hd[h].copy.id /\ row'[x] = Persisted(h)
                       /\ hd[g].op \in {"upgrade", "adopt", "scan"} \/ (hd[h].op = "proxy" /\ hd[g].op = "proxy")
                       /\ hd[h].op = "php" => hd[g].op # "upgrade"
                    \/ hd[h].op = "delete" /\ row'[x] = NoRow /\ hd[g].op = "delete"
                    \/ /\ hd[h].op = "adopt" /\ hd[h].pc = "mark" /\ hd[h].d = x
                       /\ hd[g].op \in {"serve", "proxy", "php", "ssl", "switch", "regen", "upgrade", "adopt"}
                       /\ hd[g].op \in Guarded => hd[g].pc = "lock"
                    \/ /\ hd[h].op = "scan" /\ row[x].source # "managed" /\ row'[x].source # "managed"
                       /\ hd[g].op \notin {"create", "delete", "adopt"}
      BY <1>2, <2>3, Besides
    <2>4. \A x \in Domain : row[x] \in Row /\ row'[x] \in Row
      BY StepStruct DEF StructInv, RowsOK
    <2>5. \A x \in Domain : Clear(x) /\ hd[h].op \in Edits /\ hd[h].d = x => row[x].source = "managed"
      BY <2>2 DEF EditCurrent
    <2>6. \A x \in Domain : Clear(x) /\ hd[h].op = "adopt" /\ hd[h].pc = "mark" /\ hd[h].d = x
                               => row[x].source = "imported"
      BY <2>2 DEF AdoptCurrent
    <2>7. CreateCurrent(hd[g])'
      <3> SUFFICES ASSUME hd[g].op = "create", Clear(hd[g].d)'
                   PROVE  row'[hd[g].d].source = "none"
        BY <1>1 DEF CreateCurrent
      <3>1. hd[g].d \in Domain /\ hd[g].d \in Touched(g)
        BY <2>1 DEF Bulk
      <3>2. row'[hd[g].d] = row[hd[g].d] /\ Clear(hd[g].d)
        BY <1>1, <2>3, <3>1 DEF Edits
      <3> QED BY <2>2, <3>2 DEF CreateCurrent
    <2>8. EditCurrent(hd[g])'
      <3> DEFINE x == hd[g].d
      <3> SUFFICES ASSUME hd[g].op \in Edits, Clear(x)'
                   PROVE  row'[x].source = "managed" /\ Draft(hd[g], row'[x]) = hd[g].copy
        BY <1>1 DEF EditCurrent, Draft
      <3>1. x \in Domain /\ x \in Touched(g) /\ hd[g].op \notin Bulk
        BY <2>1 DEF Bulk, Edits
      <3>2. Clear(x)
        BY <1>1, <1>2, <3>1
      <3>3. row[x].source = "managed" /\ Draft(hd[g], row[x]) = hd[g].copy
        BY <2>2, <3>2 DEF EditCurrent
      <3>4. \/ row'[x] = row[x]
            \/ /\ hd[h].op = "proxy" /\ hd[g].op = "proxy" /\ hd[h].d = x /\ row'[x] = Persisted(h)
        BY <1>1, <2>3, <2>6, <3>1, <3>2, <3>3 DEF Edits, Bulk
      <3>5. CASE /\ hd[h].op = "proxy" /\ hd[g].op = "proxy" /\ hd[h].d = x /\ row'[x] = Persisted(h)
        <4>1. hd[h].copy.mode = "proxy" /\ hd[g].copy.mode = "proxy"
          BY <1>1, <3>5, Working DEF Holding
        <4>2. Draft(hd[h], row[x]) = hd[h].copy
          BY <2>2, <3>2, <3>5 DEF EditCurrent, Edits
        <4>3. hd[h].copy = row[x] \/ hd[h].copy = [row[x] EXCEPT !.mode = "proxy"]
          BY <3>5, <4>1, <4>2 DEF Draft
        <4>4. hd[h].copy.root = row[x].root
          BY <2>4, <3>1, <4>3 DEF Row
        <4>5. row'[x] = [row[x] EXCEPT !.root = row[x].root, !.mode = "proxy"]
          BY <3>5, <4>1, <4>4 DEF Persisted
        <4>6. row'[x] = [row[x] EXCEPT !.mode = "proxy"] /\ row'[x].source = row[x].source
          BY <2>4, <3>1, <4>5 DEF Row
        <4>7. CASE hd[g].pc \in {"app", "persist"}
          <5>1. [row'[x] EXCEPT !.mode = "proxy"] = [row[x] EXCEPT !.mode = "proxy"]
            BY <2>4, <3>1, <4>6 DEF Row
          <5> QED BY <3>3, <3>5, <4>1, <4>6, <4>7, <5>1 DEF Draft
        <4>8. CASE hd[g].pc \notin {"app", "persist"}
          <5>1. row[x] = hd[g].copy
            BY <3>3, <3>5, <4>8 DEF Draft
          <5>2. row'[x] = row[x]
            BY <2>4, <3>1, <4>1, <4>6, <5>1 DEF Row
          <5> QED BY <3>3, <5>2
        <4> QED BY <4>7, <4>8
      <3> QED BY <3>3, <3>4, <3>5
    <2>9. DeleteCurrent(hd[g])'
      <3> DEFINE d == hd[g].d
      <3> SUFFICES ASSUME hd[g].op = "delete", NEW s \in hd[g].mine, Clear(s)'
                   PROVE  /\ row'[s].source # "imported"
                          /\ row'[s].source = "managed" => row'[d].id = hd[g].copy.id /\ (s = d \/ row'[s].sub)
        BY <1>1 DEF DeleteCurrent
      <3>1. hd[g].op \notin Bulk /\ d \in Domain /\ s \in Touched(g) /\ s \in Reach("delete", d) /\ s \in Domain
        <4>1. Holding(hd[g])
          BY <1>1, Working
        <4>2. s \in Reach("delete", d)
          BY <4>1 DEF Holding
        <4> QED BY <2>1, <4>2 DEF Bulk, Reach
      <3>2. s = d \/ ParentOf[s] = d
        BY <3>1 DEF Reach, Bulk
      <3>3. Clear(s) /\ (row'[s] = row[s] \/ row'[s] = NoRow)
        BY <2>3, <3>1 DEF Edits
      <3>4. CASE row'[s] = NoRow
        BY <3>4, Values
      <3>5. CASE row'[s] = row[s] /\ row[s].source # "managed"
        BY <2>2, <3>3, <3>5 DEF DeleteCurrent
      <3>6. CASE row'[s] = row[s] /\ row[s].source = "managed"
        <4>1. row[d].id = hd[g].copy.id /\ (s = d \/ row[s].sub)
          BY <2>2, <3>3, <3>6 DEF DeleteCurrent
        <4>2. row'[d].id = row[d].id
          <5>1. CASE s = d
            BY <3>6, <5>1
          <5>2. CASE s # d
            <6>1. hd[g].copy.id \in 1..ids /\ ids \in Nat
              BY <1>1, Working DEF Holding, StructInv, RowsOK
            <6>2. row[d].source # "none" /\ row[d].id # 0
              BY <3>1, <4>1, <6>1, Values DEF StructInv, RowsOK, RowOK
            <6>3. row'[d] # NoRow
              BY <3>1, <3>2, <3>6, <4>1, <5>2, <6>2, Cascades, Values
            <6> QED BY <2>4, <3>1, <6>2, <6>3, KeepsIds
          <5> QED BY <5>1, <5>2
        <4> QED BY <3>6, <4>1, <4>2
      <3> QED BY <3>3, <3>4, <3>5, <3>6
    <2>10. SwitchCurrent(hd[g])'
      <3> SUFFICES ASSUME hd[g].op = "switch", hd[g].pc # "lock", NEW x \in Domain, Clear(x)'
                   PROVE  /\ x \in hd[g].mine <=> row'[x].source = "managed"
                          /\ hd[g].snap[x].source = "managed" <=> row'[x].source = "managed"
                          /\ x \in hd[g].mine => hd[g].snap[x] = row'[x]
        BY <1>1 DEF SwitchCurrent
      <3>1. x \in Touched(g)
        BY <2>1 DEF Bulk
      <3>2. \/ row'[x] = row[x]
            \/ row[x].source # "managed" /\ row'[x].source # "managed"
        BY <2>3, <3>1 DEF Edits, Guarded
      <3>3. Clear(x)
        BY <2>3, <3>1
      <3> QED BY <2>2, <3>2, <3>3 DEF SwitchCurrent
    <2>11. RegenCurrent(hd[g])'
      <3> SUFFICES ASSUME hd[g].op = "regen", hd[g].pc # "lock"
                   PROVE  /\ hd[g].mine = Managed(hd[g].snap)
                          /\ hd[g].quiet => hd[g].snap = row'
                          /\ \A x \in hd[g].mine : Clear(x)' => hd[g].snap[x] = row'[x]
        BY <1>1 DEF RegenCurrent, Managed
      <3>1. hd[g].mine = Managed(hd[g].snap) /\ \A x \in hd[g].mine : Clear(x) => hd[g].snap[x] = row[x]
        BY <2>2 DEF RegenCurrent
      <3>2. ~hd[g].quiet
        BY <1>1, <1>4 DEF QuietOK
      <3>3. ASSUME NEW x \in hd[g].mine, Clear(x)'
            PROVE  hd[g].snap[x] = row'[x]
        <4>1. x \in Domain /\ x \in Touched(g) /\ hd[g].snap[x].source = "managed"
          BY <2>1, <3>1 DEF Bulk, Managed
        <4>2. Clear(x) /\ row[x].source = "managed"
          BY <1>2, <3>1, <3>3, <4>1
        <4>3. row'[x] = row[x]
          BY <2>3, <3>3, <4>1, <4>2 DEF Edits, Guarded
        <4> QED BY <3>1, <4>2, <4>3
      <3> QED BY <3>1, <3>2, <3>3
    <2>12. UpgradeCurrent(hd[g])'
      <3> SUFFICES ASSUME hd[g].op = "upgrade"
                   PROVE  /\ hd[g].pc # "lock" => hd[g].mine = Managed(hd[g].snap)
                          /\ \A x \in Managed(hd[g].snap) : Clear(x)' =>
                               row'[x].source = "managed" /\ row'[x].php = hd[g].snap[x].php
        BY <1>1 DEF UpgradeCurrent, Managed
      <3>1. ASSUME NEW x \in Managed(hd[g].snap), Clear(x)'
            PROVE  row'[x].source = "managed" /\ row'[x].php = hd[g].snap[x].php
        <4>1. x \in Domain /\ x \in Touched(g)
          BY <2>1 DEF Bulk, Managed
        <4>2. Clear(x) /\ row[x].source = "managed" /\ row[x].php = hd[g].snap[x].php
          BY <1>2, <2>2, <3>1, <4>1 DEF UpgradeCurrent
        <4>3. \/ row'[x] = row[x]
              \/ hd[h].op \in Edits /\ hd[h].op # "php" /\ row'[x] = Persisted(h) /\ hd[h].d = x
          BY <2>3, <2>6, <3>1, <4>1, <4>2
        <4>4. CASE hd[h].op \in Edits /\ hd[h].op # "php" /\ row'[x] = Persisted(h) /\ hd[h].d = x
          BY <2>4, <4>1, <4>2, <4>4 DEF Persisted, Edits, Row
        <4> QED BY <4>2, <4>3, <4>4
      <3> QED BY <2>2, <3>1 DEF UpgradeCurrent
    <2>13. AdoptCurrent(hd[g])'
      <3> SUFFICES ASSUME hd[g].op = "adopt", hd[g].pc # "lock", Clear(hd[g].d)'
                   PROVE  /\ row'[hd[g].d].source = "imported"
                          /\ hd[g].copy = [row'[hd[g].d] EXCEPT !.source = "managed", !.php = hd[g].copy.php]
        BY <1>1 DEF AdoptCurrent
      <3>1. hd[g].d \in Domain /\ hd[g].d \in Touched(g)
        BY <2>1 DEF Bulk
      <3>2. Clear(hd[g].d) /\ row[hd[g].d].source = "imported"
        BY <1>1, <1>2, <2>2, <3>1 DEF AdoptCurrent
      <3>3. row'[hd[g].d] = row[hd[g].d]
        BY <1>1, <2>3, <2>5, <3>1, <3>2 DEF Guarded
      <3> QED BY <2>2, <3>2, <3>3 DEF AdoptCurrent
    <2> QED BY <2>7, <2>8, <2>9, <2>10, <2>11, <2>12, <2>13 DEF Current
  <1> QED BY <1>3, <1>4

-----------------------------------------------------------------------------
(* The request that moves *)

LEMMA NothingHeld ==
  ASSUME NEW h \in Handler, hd'[h].op \notin Op \ {"scan"}
  PROVE  Current(hd[h])'
  BY DEF Current, CreateCurrent, EditCurrent, DeleteCurrent, SwitchCurrent, RegenCurrent,
         UpgradeCurrent, AdoptCurrent, Op, Locked, Bulk, Edits

\* Nothing this request is about has changed, and it holds what it held.
LEMMA SameCurrent ==
  ASSUME NEW g \in Handler, Current(hd[g]), row' = row, doubt \subseteq doubt',
         hd'[g].op = hd[g].op, hd'[g].d = hd[g].d, hd'[g].copy = hd[g].copy, hd'[g].snap = hd[g].snap,
         hd'[g].mine = hd[g].mine, hd'[g].quiet => hd[g].quiet,
         hd'[g].op \in Edits => Draft(hd'[g], row[hd[g].d]) = Draft(hd[g], row[hd[g].d]),
         hd'[g].pc # "lock" => hd[g].pc # "lock"
  PROVE  Current(hd[g])'
  <1>1. \A x : Clear(x)' => Clear(x)
    BY DEF Clear, Sure
  <1>2. CreateCurrent(hd[g])' /\ DeleteCurrent(hd[g])' /\ AdoptCurrent(hd[g])'
    BY <1>1 DEF Current, CreateCurrent, DeleteCurrent, AdoptCurrent
  <1>3. EditCurrent(hd[g])'
    <2> SUFFICES ASSUME hd[g].op \in Edits, Clear(hd[g].d)'
                 PROVE  row[hd[g].d].source = "managed" /\ Draft(hd'[g], row[hd[g].d]) = hd[g].copy
      BY DEF EditCurrent, Draft
    <2>1. Clear(hd[g].d)
      BY <1>1
    <2> QED BY <2>1 DEF Current, EditCurrent
  <1>4. SwitchCurrent(hd[g])'
    BY <1>1 DEF Current, SwitchCurrent
  <1>5. RegenCurrent(hd[g])'
    BY <1>1 DEF Current, RegenCurrent, Managed
  <1>6. UpgradeCurrent(hd[g])'
    BY <1>1 DEF Current, UpgradeCurrent, Managed
  <1> QED BY <1>2, <1>3, <1>4, <1>5, <1>6 DEF Current

\* What the first statements of an edit do to its draft.
LEMMA OwnEdit ==
  ASSUME StructInv, CurrentInv, NEW h \in Handler, EditStep(h), doubt \subseteq doubt'
  PROVE  Current(hd[h])'
  <1> DEFINE d == hd[h].d
             r == hd[h].copy
  <1>1. /\ hd[h].op \in Edits /\ hd[h] \in Handling /\ r \in Row /\ r.id \in 1..ids
        /\ d \in Domain /\ Holding(hd[h]) /\ HandlersOK /\ row \in [Domain -> Row] /\ Current(hd[h])
    BY EditKinds DEF StructInv, RowsOK, CurrentInv
  <1>2. CASE Reply(h)
    BY <1>1, <1>2, Replies, NothingHeld, Values, Constants
  <1>3. ASSUME NEW pc \in Pc \ {"idle"}, Goto(h, pc), row' = row,
               Draft(hd'[h], row[d]) = Draft(hd[h], row[d])
        PROVE  Current(hd[h])'
    <2>1. /\ hd'[h].pc = pc /\ hd'[h].op = hd[h].op /\ hd'[h].d = hd[h].d
          /\ hd'[h].copy = hd[h].copy /\ hd'[h].mine = hd[h].mine /\ hd'[h].snap = hd[h].snap
          /\ hd'[h].quiet = hd[h].quiet
      BY <1>1, <1>3, GoesOn
    <2>2. hd[h].pc # "lock"
      BY EditKinds
    <2> QED BY <1>1, <1>3, <2>1, <2>2, SameCurrent
  <1>4. ASSUME NEW pc \in Pc \ {"idle"}, Goto(h, pc), NEW new, Update(d, r.id, new),
               hd[h].pc \in {"persist", "certs"},
               Clear(d) /\ row[d].source = "managed" /\ Draft(hd[h], row[d]) = r
               => new.source = "managed" /\ Draft([hd[h] EXCEPT !.pc = pc], new) = r
        PROVE  Current(hd[h])'
    <2>1. /\ hd'[h] = [hd[h] EXCEPT !.pc = pc] /\ hd'[h].pc = pc /\ hd'[h].op = hd[h].op
          /\ hd'[h].d = d /\ hd'[h].copy = r
      BY <1>1, <1>4, GoesOn
    <2>2. EditCurrent(hd[h])'
      <3> SUFFICES ASSUME Clear(d)'
                   PROVE  row'[d].source = "managed" /\ Draft(hd'[h], row'[d]) = r
        BY <2>1 DEF EditCurrent
      <3>1. Clear(d)
        BY <2>1 DEF Clear, Sure
      <3>2. row[d].source = "managed" /\ Draft(hd[h], row[d]) = r
        BY <1>1, <3>1 DEF Current, EditCurrent
      <3>3. r.id = row[d].id
        BY <1>1, <3>2 DEF Draft, Row
      <3> QED BY <1>1, <1>4, <2>1, <3>1, <3>2, <3>3 DEF Update
    <2> QED BY <1>1, <2>1, <2>2 DEF Current, CreateCurrent, DeleteCurrent, SwitchCurrent, RegenCurrent,
         UpgradeCurrent, AdoptCurrent, Edits
  <1>5. row[d] \in Row
    BY <1>1
  <1>6. CASE ServePersist(h)
    <2>1. CASE Update(d, r.id, [row[d] EXCEPT !.root = r.root, !.mode = r.mode]) /\ Goto(h, "dropapp")
      <3> DEFINE new == [row[d] EXCEPT !.root = r.root, !.mode = r.mode]
      <3>1. hd[h].pc = "persist" /\ hd[h].op = "serve" /\ "dropapp" \in Pc \ {"idle"}
        BY <1>6 DEF ServePersist, At, Pc
      <3>2. new.source = row[d].source
        BY <1>5 DEF Row
      <3>3. Draft([hd[h] EXCEPT !.pc = "dropapp"], new) = new /\ Draft(hd[h], row[d]) = new
        BY <1>1, <3>1 DEF Draft, Handling
      <3> HIDE DEF new
      <3>4. Update(d, r.id, new) /\ Goto(h, "dropapp")
        BY <2>1 DEF new
      <3> QED BY <1>4, <3>1, <3>2, <3>3, <3>4
    <2> QED BY <1>2, <1>6, <2>1 DEF ServePersist
  <1>7. CASE ProxyPersist(h)
    <2>1. CASE Update(d, r.id, [row[d] EXCEPT !.root = r.root, !.mode = r.mode]) /\ Goto(h, "render")
      <3> DEFINE new == [row[d] EXCEPT !.root = r.root, !.mode = r.mode]
      <3>1. hd[h].pc = "persist" /\ hd[h].op = "proxy" /\ "render" \in Pc \ {"idle"}
        BY <1>7 DEF ProxyPersist, At, Pc
      <3>2. new.source = row[d].source
        BY <1>5 DEF Row
      <3>3. Draft([hd[h] EXCEPT !.pc = "render"], new) = new
            /\ Draft(hd[h], row[d]) = [row[d] EXCEPT !.mode = r.mode]
        BY <1>1, <3>1 DEF Draft, Handling
      <3>4. [row[d] EXCEPT !.mode = r.mode] = r => r.root = row[d].root
        BY <1>5 DEF Row
      <3>5. r.root = row[d].root => new = [row[d] EXCEPT !.mode = r.mode]
        BY <1>5 DEF Row
      <3> HIDE DEF new
      <3>6. Update(d, r.id, new) /\ Goto(h, "render")
        BY <2>1 DEF new
      <3> QED BY <1>4, <3>1, <3>2, <3>3, <3>4, <3>5, <3>6
    <2> QED BY <1>2, <1>7, <2>1 DEF ProxyPersist
  <1>8. CASE PersistCerts(h)
    <2>1. CASE Update(d, r.id, [row[d] EXCEPT !.own = FALSE]) /\ Goto(h, "flag")
      <3> DEFINE new == [row[d] EXCEPT !.own = FALSE]
      <3>1. hd[h].pc = "certs" /\ hd[h].op = "ssl" /\ r.ssl = TRUE /\ "flag" \in Pc \ {"idle"}
        BY <1>1, <1>8 DEF PersistCerts, PersistLast, At, Holding, Pc, Row
      <3>2. new.source = row[d].source
        BY <1>5 DEF Row
      <3>3. Draft([hd[h] EXCEPT !.pc = "flag"], new) = [new EXCEPT !.ssl = TRUE]
            /\ Draft(hd[h], row[d]) = [row[d] EXCEPT !.ssl = TRUE, !.own = FALSE]
        BY <1>1, <3>1 DEF Draft, Handling
      <3>4. [new EXCEPT !.ssl = TRUE] = [row[d] EXCEPT !.ssl = TRUE, !.own = FALSE]
        BY <1>5 DEF Row
      <3> HIDE DEF new
      <3>5. Update(d, r.id, new) /\ Goto(h, "flag")
        BY <2>1 DEF new
      <3> QED BY <1>4, <3>1, <3>2, <3>3, <3>4, <3>5
    <2> QED BY <1>2, <1>8, <2>1 DEF PersistCerts, PersistLast
  <1>9. CASE PersistSSL(h) \/ PersistPhp(h) \/ ProxyConfigure(h)
    BY <1>2, <1>9 DEF PersistSSL, PersistPhp, PersistLast, ProxyConfigure
  <1>10. CASE ServeDropApp(h)
    <2>1. Goto(h, "render") /\ row' = row /\ "render" \in Pc \ {"idle"} /\ hd[h].pc = "dropapp" /\ hd[h].op = "serve"
      BY <1>10 DEF ServeDropApp, At, Pc
    <2>2. Draft(hd'[h], row[d]) = Draft(hd[h], row[d])
      BY <1>1, <2>1, GoesOn DEF Draft
    <2> QED BY <1>3, <2>1, <2>2
  <1>11. CASE ProxyApp(h)
    <2>1. CASE Goto(h, "persist")
      <3>1. row' = row /\ "persist" \in Pc \ {"idle"} /\ hd[h].pc = "app" /\ hd[h].op = "proxy"
        BY <1>11 DEF ProxyApp, At, Pc
      <3>2. Draft(hd'[h], row[d]) = Draft(hd[h], row[d])
        BY <1>1, <2>1, <3>1, GoesOn DEF Draft
      <3> QED BY <1>3, <2>1, <3>1, <3>2
    <2> QED BY <1>2, <1>11, <2>1 DEF ProxyApp
  <1>12. CASE PhpPool(h)
    <2>1. CASE Goto(h, "render")
      <3>1. row' = row /\ "render" \in Pc \ {"idle"} /\ hd[h].op = "php"
        BY <1>12 DEF PhpPool, At, Pc, db
      <3>2. Draft(hd'[h], row[d]) = Draft(hd[h], row[d])
        BY <1>1, <2>1, <3>1, GoesOn DEF Draft
      <3> QED BY <1>3, <2>1, <3>1, <3>2
    <2> QED BY <1>2, <1>12, <2>1 DEF PhpPool
  <1>13. CASE RenderSite(h)
    <2>1. row' = row /\ hd[h].pc = "render"
      BY <1>13 DEF RenderSite, db
    <2>2. \/ Reply(h)
          \/ hd[h].op = "proxy" /\ Goto(h, "configure")
          \/ hd[h].op = "php" /\ Goto(h, "persist")
          \/ hd[h].op = "ssl" /\ Goto(h, IF r.ssl THEN "certs" ELSE "flag")
      BY <1>1, <1>13 DEF RenderSite, Edits
    <2>3. ASSUME NEW pc \in Pc \ {"idle"}, Goto(h, pc),
                 \/ hd[h].op = "proxy" /\ pc = "configure"
                 \/ hd[h].op = "php" /\ pc = "persist"
                 \/ hd[h].op = "ssl" /\ pc = IF r.ssl THEN "certs" ELSE "flag"
          PROVE  Current(hd[h])'
      <3>1. Draft(hd'[h], row[d]) = Draft(hd[h], row[d])
        BY <1>1, <2>1, <2>3, GoesOn DEF Draft
      <3> QED BY <1>3, <2>1, <2>3, <3>1
    <2>4. {"configure", "persist", "certs", "flag"} \subseteq Pc \ {"idle"}
      BY DEF Pc
    <2> QED BY <1>2, <2>2, <2>3, <2>4
  <1> HIDE DEF d, r
  <1> QED BY <1>6, <1>7, <1>8, <1>9, <1>10, <1>11, <1>12, <1>13 DEF EditStep

\* What an operation reads under the lock.
Enters(h) ==
  /\ Moves(h) /\ hd'[h].op = hd[h].op /\ hd'[h].d = hd[h].d /\ hd'[h].quiet = hd[h].quiet /\ lock' = h
  /\ \/ /\ hd[h].op \in {"switch", "regen"} /\ hd'[h].pc = "sites"
        /\ hd'[h].snap = row /\ hd'[h].mine = Managed(row)
        /\ IF hd[h].op = "switch"
           THEN hd[h].server # active /\ active' = hd[h].server /\ hd'[h].server = active
           ELSE active' = active
     \/ /\ hd[h].op = "upgrade" /\ hd'[h].pc = "sites" /\ active' = active
        /\ hd'[h].snap = hd[h].snap /\ hd'[h].mine = Managed(hd[h].snap)
     \/ /\ hd[h].op = "adopt" /\ hd'[h].pc = "disable" /\ active' = active
        /\ row[hd[h].d].source = "imported"
        /\ hd'[h].copy = [row[hd[h].d] EXCEPT !.source = "managed", !.php = hd[h].copy.php]
        /\ hd'[h].copy.php = hd[h].copy.php

LEMMA LockReads ==
  ASSUME StructInv, NEW h \in Handler, Lock(h)
  PROVE  /\ hd[h].pc = "lock" /\ hd[h].op \in Guarded /\ lock = None
         /\ UNCHANGED <<db, disk, service, saved, bound, doubt>>
         /\ (Reply(h) /\ UNCHANGED <<lock, active>>) \/ Enters(h)
  <1> DEFINE g == hd[h]
             rows == IF g.op = "upgrade" THEN g.snap ELSE row
             listed == [g EXCEPT !.pc = "sites", !.snap = rows, !.mine = Managed(rows)]
             switching == [listed EXCEPT !.server = active]
             new == [row[g.d] EXCEPT !.source = "managed", !.php = g.copy.php]
             adopting == [g EXCEPT !.pc = "disable", !.copy = new]
  <1>1. g.pc = "lock" /\ g.op \in Guarded /\ lock = None /\ UNCHANGED <<db, disk, service, saved, bound, doubt>>
    BY DEF Lock, Guarded
  <1>2. /\ g \in Handling /\ HandlersOK /\ row \in [Domain -> Row] /\ hd \in [Handler -> Handling]
    BY DEF StructInv, RowsOK, HandlersOK
  <1>3. /\ listed.pc = "sites" /\ listed.op = g.op /\ listed.d = g.d /\ listed.quiet = g.quiet
        /\ listed.snap = rows /\ listed.mine = Managed(rows)
        /\ switching.pc = "sites" /\ switching.op = g.op /\ switching.d = g.d /\ switching.quiet = g.quiet
        /\ switching.snap = rows /\ switching.mine = Managed(rows) /\ switching.server = active
    <2> HIDE DEF rows
    <2> QED BY <1>2 DEF Handling
  <1>4. /\ adopting.pc = "disable" /\ adopting.op = g.op /\ adopting.d = g.d /\ adopting.quiet = g.quiet
        /\ adopting.copy = new
    <2> HIDE DEF new
    <2> QED BY <1>2 DEF Handling
  <1>5. \/ (Reply(h) /\ UNCHANGED <<lock, active>>)
        \/ /\ g.op = "switch" /\ g.server # active /\ active' = g.server /\ lock' = h
           /\ hd' = [hd EXCEPT ![h] = switching]
        \/ g.op \in {"regen", "upgrade"} /\ lock' = h /\ hd' = [hd EXCEPT ![h] = listed] /\ UNCHANGED active
        \/ /\ g.op = "adopt" /\ lock' = h /\ hd' = [hd EXCEPT ![h] = adopting] /\ UNCHANGED active
           /\ row[g.d].source = "imported"
    BY <1>1, <1>2 DEF Lock
  <1>6. g.op = "adopt" => new.php = g.copy.php
    <2>1. g.op = "adopt" => g.d \in Domain
      BY <1>2, Working, Constants DEF Holding
    <2> QED BY <1>2, <2>1 DEF Row
  <1>7. ASSUME NEW value, hd' = [hd EXCEPT ![h] = value]
        PROVE  hd'[h] = value /\ Moves(h)
    BY <1>2, <1>7 DEF Moves
  <1> HIDE DEF listed, switching, adopting, new
  <1>8. CASE hd' = [hd EXCEPT ![h] = switching] /\ g.op = "switch" /\ g.server # active /\ active' = g.server /\ lock' = h
    BY <1>1, <1>3, <1>7, <1>8 DEF Enters
  <1>9. CASE g.op \in {"regen", "upgrade"} /\ lock' = h /\ hd' = [hd EXCEPT ![h] = listed] /\ UNCHANGED active
    BY <1>1, <1>3, <1>7, <1>9 DEF Enters
  <1>10. CASE /\ g.op = "adopt" /\ lock' = h /\ hd' = [hd EXCEPT ![h] = adopting] /\ UNCHANGED active
              /\ row[g.d].source = "imported"
    <2>1. /\ Moves(h) /\ hd'[h].op = g.op /\ hd'[h].d = g.d /\ hd'[h].quiet = g.quiet
          /\ hd'[h].pc = "disable" /\ hd'[h].copy = new
      BY <1>4, <1>7, <1>10
    <2>2. Enters(h)
      BY <1>6, <1>10, <2>1 DEF new, Enters
    <2> QED BY <1>1, <2>2
  <1> QED BY <1>1, <1>5, <1>8, <1>9, <1>10

LEMMA OwnCurrent ==
  ASSUME StructInv, CurrentInv, NEW h \in Handler, Step(h), doubt \subseteq doubt'
  PROVE  Current(hd[h])'
  <1>1. /\ HandlersOK /\ hd[h] \in Handling /\ Current(hd[h]) /\ Moves(h) /\ row \in [Domain -> Row]
      BY StepStays DEF StructInv, HandlersOK, RowsOK, CurrentInv
  <1>2. CASE Reply(h)
    BY <1>1, <1>2, Replies, NothingHeld, Values, Constants
  <1>3. CASE Unlock(h)
    BY <1>2, <1>3 DEF Unlock
  <1>4. ASSUME NEW pc \in Pc \ {"idle"}, Goto(h, pc), row' = row, hd[h].pc # "lock", hd[h].op \notin Edits
        PROVE  Current(hd[h])'
    <2>1. /\ hd'[h].pc = pc /\ hd'[h].op = hd[h].op /\ hd'[h].d = hd[h].d
          /\ hd'[h].copy = hd[h].copy /\ hd'[h].mine = hd[h].mine /\ hd'[h].snap = hd[h].snap
          /\ hd'[h].quiet = hd[h].quiet
      BY <1>1, <1>4, GoesOn
    <2> QED BY <1>1, <1>4, <2>1, SameCurrent
  <1>5. CASE CreatePool(h) \/ CreateVHost(h)
    <2>1. hd[h].op = "create" /\ hd[h].pc # "lock" /\ row' = row
      BY <1>5 DEF CreatePool, CreateVHost, At, db
    <2>2. Reply(h) \/ \E pc \in Pc \ {"idle"} : Goto(h, pc)
      BY <1>5 DEF CreatePool, CreateVHost, RollBack, Pc
    <2> QED BY <1>2, <1>4, <2>1, <2>2 DEF Edits
  <1>6. CASE CreateRow(h)
    BY <1>2, <1>6 DEF CreateRow, RollBack
  <1>7. CASE DeleteTeardown(h) \/ DeleteDismiss(h)
    <2>1. hd[h].op = "delete" /\ hd[h].pc # "lock" /\ row' = row
      BY <1>7 DEF DeleteTeardown, DeleteDismiss, At, db
    <2>2. \E pc \in Pc \ {"idle"} : Goto(h, pc)
      BY <1>7 DEF DeleteTeardown, DeleteDismiss, Pc
    <2> QED BY <1>4, <2>1, <2>2 DEF Edits
  <1>8. CASE DeleteRows(h)
    BY <1>2, <1>8 DEF DeleteRows
  <1>9. CASE EditStep(h)
    BY <1>9, OwnEdit
  <1>10. CASE ScanStep(h)
    <2>1. hd'[h].op \in {"scan", None}
      <3>1. hd[h].op = "scan"
        BY <1>10, ScanKinds
      <3> QED BY <1>1, <1>10, <3>1, StepStays, Values
    <2> QED BY <2>1, NothingHeld, Constants
  <1>11. CASE AdoptStep(h)
    <2>1. CASE ~Unlock(h)
      <3>1. row' = row /\ hd[h].op = "adopt" /\ hd[h].pc # "lock"
        BY <1>11, <2>1, AdoptRows, AdoptKinds
      <3>2. hd'[h].op = "adopt" /\ hd'[h].d = hd[h].d /\ hd'[h].copy = hd[h].copy
        BY <1>11, <2>1, AdoptMoves
      <3>3. \A x : Clear(x)' => Clear(x)
        BY DEF Clear, Sure
      <3>4. AdoptCurrent(hd[h])'
        BY <1>1, <3>1, <3>2, <3>3 DEF Current, AdoptCurrent
      <3> QED BY <3>2, <3>4 DEF Current, CreateCurrent, DeleteCurrent, SwitchCurrent, RegenCurrent,
                 UpgradeCurrent, EditCurrent, Edits
    <2> QED BY <1>3, <2>1
  <1>12. CASE BulkStep(h)
    <2>1. row' = row /\ hd[h].op \in {"switch", "regen", "upgrade"} /\ hd[h].pc # "lock"
      BY <1>12, BulkKinds DEF db
    <2>2. CASE \E pc \in Pc \ {"idle"} : Goto(h, pc)
      BY <1>4, <2>1, <2>2 DEF Edits
    <2>3. CASE hd[h].op = "switch" /\ hd' = [hd EXCEPT ![h].pc = "rerender", ![h].snap = row]
      <3>1. hd'[h].op = "switch" /\ hd'[h].mine = hd[h].mine /\ hd'[h].snap = row
        BY <2>3, SnapMoves
      <3>2. \A x : Clear(x)' => Clear(x)
        BY DEF Clear, Sure
      <3>3. SwitchCurrent(hd[h])'
        BY <1>1, <2>1, <2>3, <3>1, <3>2 DEF Current, SwitchCurrent
      <3> QED BY <3>1, <3>3 DEF Current, CreateCurrent, DeleteCurrent, AdoptCurrent, RegenCurrent,
                 UpgradeCurrent, EditCurrent, Edits
    <2> QED BY <1>3, <1>12, <2>2, <2>3, BulkMoves
  <1>13. CASE Lock(h)
    <2>1. row' = row
      BY <1>13 DEF Lock, db
    <2>2. CASE hd[h].op \in {"switch", "regen"} /\ ~Reply(h)
      <3>1. hd'[h].op = hd[h].op /\ hd'[h].snap = row /\ hd'[h].mine = Managed(row)
        BY <1>13, <2>2, LockReads DEF Enters
      <3>2. SwitchCurrent(hd[h])' /\ RegenCurrent(hd[h])'
        BY <2>1, <3>1 DEF SwitchCurrent, RegenCurrent, Managed
      <3> QED BY <2>2, <3>1, <3>2 DEF Current, CreateCurrent, DeleteCurrent, AdoptCurrent,
                 UpgradeCurrent, EditCurrent, Edits
    <2>3. CASE hd[h].op = "upgrade" /\ ~Reply(h)
      <3>1. hd'[h].op = hd[h].op /\ hd'[h].snap = hd[h].snap /\ hd'[h].mine = Managed(hd[h].snap)
        BY <1>13, <2>3, LockReads DEF Enters
      <3>2. \A x : Clear(x)' => Clear(x)
        BY DEF Clear, Sure
      <3>3. UpgradeCurrent(hd[h])'
        BY <1>1, <2>1, <2>3, <3>1, <3>2 DEF UpgradeCurrent, Managed, Current
      <3> QED BY <2>3, <3>1, <3>3 DEF Current, CreateCurrent, DeleteCurrent, AdoptCurrent,
                 SwitchCurrent, RegenCurrent, EditCurrent, Edits
    <2>4. CASE hd[h].op = "adopt" /\ ~Reply(h)
      <3>1. /\ row[hd[h].d].source = "imported" /\ hd'[h].op = "adopt" /\ hd'[h].d = hd[h].d
            /\ hd'[h].copy = [row[hd[h].d] EXCEPT !.source = "managed", !.php = hd[h].copy.php]
        BY <1>13, <2>4, LockReads DEF Enters
      <3>2. hd[h].d \in Domain
        BY <1>1, <2>4, Working, Constants DEF Holding
      <3>3. hd'[h].copy.php = hd[h].copy.php
        BY <1>1, <3>1, <3>2 DEF Row
      <3>4. AdoptCurrent(hd[h])'
        BY <2>1, <3>1, <3>3 DEF AdoptCurrent
      <3> QED BY <3>1, <3>4 DEF Current, CreateCurrent, DeleteCurrent, UpgradeCurrent,
                 SwitchCurrent, RegenCurrent, EditCurrent, Edits
    <2> QED BY <1>2, <1>13, <2>2, <2>3, <2>4, LockReads DEF Guarded
  <1> QED BY <1>5, <1>6, <1>7, <1>8, <1>9, <1>10, <1>11, <1>12, <1>13, StepKinds

\* A regeneration nothing ran beside leaves every request idle.
LEMMA QuietEnds ==
  ASSUME StructInv, QuietOK, NEW h \in Handler, RegenApply(h), hd[h].quiet
  PROVE  \A g \in Handler : hd'[g] = NoHandling
  <1>1. HandlersOK /\ Busy(h) /\ Reply(h)
    BY DEF StructInv, RegenApply, At, Busy, Unlock
  <1>2. \A g \in Handler \ {h} : hd[g] = NoHandling
    BY <1>1, Working DEF QuietOK, Busy, Shape
  <1> QED BY <1>1, <1>2, Replies DEF Moves, HandlersOK

LEMMA IdleCurrent ==
  ASSUME \A g \in Handler : hd'[g] = NoHandling
  PROVE  CurrentInv'
  BY NothingHeld, Values, Constants DEF CurrentInv

LEMMA StepCurrent ==
  ASSUME StructInv, QuietOK, OverlapOK, CurrentInv, NEW h \in Handler, Step(h)
  PROVE  CurrentInv'
  <1>1. CASE doubt \subseteq doubt'
    BY <1>1, OthersCurrent, OwnCurrent DEF CurrentInv
  <1>2. CASE RegenApply(h) /\ hd[h].quiet
    BY <1>2, QuietEnds, IdleCurrent
  <1> QED BY <1>1, <1>2, StepDoubts

LEMMA AskCurrent ==
  ASSUME StructInv, CurrentInv, NEW h \in Handler, NEW op \in Op, NEW d \in Domain \cup {None},
         NEW new \in Handling, Ask(h, op, d, new), Opening(op, d, new)
  PROVE  CurrentInv'
  <1>1. Asked(h, op, d, new) /\ HandlersOK
    BY Asks DEF StructInv
  <1>2. doubt \subseteq doubt' /\ row' = row /\ row \in [Domain -> Row]
    BY <1>1 DEF Ask, Asked, db, StructInv, RowsOK
  <1>3. ASSUME NEW g \in Handler \ {h}
        PROVE  Current(hd[g])'
    <2>1. /\ hd'[g].op = hd[g].op /\ hd'[g].d = hd[g].d /\ hd'[g].pc = hd[g].pc
          /\ hd'[g].copy = hd[g].copy /\ hd'[g].snap = hd[g].snap /\ hd'[g].mine = hd[g].mine
          /\ hd'[g].quiet => hd[g].quiet
      BY <1>1 DEF Asked
    <2> QED BY <1>2, <2>1, SameCurrent DEF CurrentInv, Draft
  <1>4. Current(hd[h])'
    <2>1. /\ hd'[h].op = op /\ hd'[h].d = d /\ hd'[h].pc = new.pc /\ hd'[h].copy = new.copy
          /\ hd'[h].snap = new.snap /\ hd'[h].mine = new.mine
      BY <1>1 DEF Asked
    <2>2. CreateCurrent(hd[h])'
      BY <1>2, <2>1 DEF CreateCurrent, Opening
    <2>3. EditCurrent(hd[h])'
      <3> SUFFICES ASSUME op \in Edits
                   PROVE  row[d].source = "managed" /\ Draft(hd'[h], row[d]) = new.copy
        BY <1>2, <2>1 DEF EditCurrent, Draft
      <3>1. d \in Domain /\ row[d].source = "managed" /\ row[d] \in Row
        BY <1>2 DEF Opening, Edits, Bulk
      <3>2. CASE op = "serve"
        <4>1. PICK r \in Root : new.copy = [row[d] EXCEPT !.root = r, !.mode = "files"]
          BY <3>2 DEF Opening
        <4>2. new.copy.root = r /\ new.copy.mode = "files"
          BY <3>1, <4>1 DEF Row
        <4>3. new.pc = "persist"
          BY <3>2 DEF Opening
        <4> QED BY <2>1, <3>1, <3>2, <4>1, <4>2, <4>3 DEF Draft
      <3>3. CASE op = "proxy"
        <4>1. new.pc = "app" /\ new.copy = [row[d] EXCEPT !.mode = "proxy"]
          BY <3>3 DEF Opening
        <4>2. new.copy.mode = "proxy"
          BY <3>1, <4>1 DEF Row
        <4> QED BY <2>1, <3>1, <3>3, <4>1, <4>2 DEF Draft
      <3>4. CASE op = "php"
        <4>1. PICK v \in Php : new.copy = [row[d] EXCEPT !.php = v]
          BY <3>4 DEF Opening
        <4>2. new.copy.php = v
          BY <3>1, <4>1 DEF Row
        <4> QED BY <2>1, <3>1, <3>4, <4>1, <4>2 DEF Draft
      <3>5. CASE op = "ssl"
        <4>1. PICK on \in BOOLEAN : new.copy = [row[d] EXCEPT !.ssl = on, !.own = @ /\ ~on]
          BY <3>5 DEF Opening
        <4>2. new.copy.ssl = on /\ new.pc = "render"
          BY <3>1, <3>5, <4>1 DEF Row, Opening
        <4>3. CASE on = TRUE
          <5>1. new.copy = [row[d] EXCEPT !.ssl = TRUE, !.own = FALSE]
            BY <3>1, <4>1, <4>3 DEF Row
          <5> QED BY <2>1, <3>1, <3>5, <4>2, <4>3, <5>1 DEF Draft
        <4>4. CASE on = FALSE
          <5>1. new.copy = [row[d] EXCEPT !.ssl = FALSE]
            BY <3>1, <4>1, <4>4 DEF Row
          <5> QED BY <2>1, <3>1, <3>5, <4>2, <4>4, <5>1 DEF Draft
        <4> QED BY <4>3, <4>4
      <3> QED BY <3>2, <3>3, <3>4, <3>5 DEF Edits
    <2>4. DeleteCurrent(hd[h])'
      <3> SUFFICES ASSUME op = "delete", NEW s \in new.mine
                   PROVE  /\ row[s].source # "imported"
                          /\ row[s].source = "managed" => row[d].id = new.copy.id /\ (s = d \/ row[s].sub)
        BY <1>2, <2>1 DEF DeleteCurrent
      <3> QED BY DEF Opening, Subs, Managed
    <2>5. SwitchCurrent(hd[h])' /\ RegenCurrent(hd[h])' /\ AdoptCurrent(hd[h])'
      BY <2>1 DEF SwitchCurrent, RegenCurrent, AdoptCurrent, Opening, Guarded
    <2>6. UpgradeCurrent(hd[h])'
      <3>1. op = "upgrade" => new.pc = "lock" /\ new.snap = row
        BY DEF Opening, Guarded
      <3> QED BY <1>2, <2>1, <3>1 DEF UpgradeCurrent, Managed
    <2> QED BY <2>2, <2>3, <2>4, <2>5, <2>6 DEF Current
  <1> QED BY <1>3, <1>4 DEF CurrentInv

LEMMA CurrentStep ==
  ASSUME StructInv, QuietOK, OverlapOK, CurrentInv, [Next]_vars
  PROVE  CurrentInv'
  <1>1. ASSUME NEW h \in Handler, Request(h)
        PROVE  CurrentInv'
    BY <1>1, RequestOpens, AskCurrent
  <1>2. CASE Crash
    BY <1>2, IdleCurrent DEF Crash
  <1>3. CASE Start
    <2>1. \A g \in Handler : hd'[g] = NoHandling
      BY <1>3 DEF Start, StructInv, DownOK
    <2> QED BY <2>1, IdleCurrent
  <1>4. CASE SaveSettings \/ (\E d \in Domain : RemoveConf(d) \/ EditPage(d)) \/ UNCHANGED vars
    <2>1. hd' = hd /\ row' = row /\ doubt \subseteq doubt'
      BY <1>4 DEF SaveSettings, RemoveConf, EditPage, Doubting, vars, db
    <2> QED BY <2>1, SameCurrent DEF CurrentInv
  <1> QED BY <1>1, <1>2, <1>3, <1>4, StepCurrent DEF Next

LEMMA InitCurrent ==
  ASSUME Init
  PROVE  CurrentInv
  <1>1. \A g \in Handler : hd[g].op = None
    BY Values DEF Init
  <1> QED BY <1>1, Constants DEF CurrentInv, Current, CreateCurrent, EditCurrent, DeleteCurrent, SwitchCurrent,
       RegenCurrent, UpgradeCurrent, AdoptCurrent, Op, Locked, Bulk, Edits

\* The conjunction the invariants of the files rest on.
Base == StructInv /\ QuietOK /\ OverlapOK /\ CurrentInv

LEMMA BaseStep ==
  ASSUME Base, [Next]_vars
  PROVE  Base'
  BY StructStep, OverlapStep, CurrentStep DEF Base

LEMMA InitBase ==
  ASSUME Init
  PROVE  Base
  BY InitStruct, InitOverlap, InitCurrent DEF Base

\* What a request holds is current on every site no two operations disturb.
THEOREM HeldIsCurrent == Spec => []Base
  <1>1. Init => Base
    BY InitBase
  <1>2. Base /\ [Next]_vars => Base'
    BY BaseStep
  <1> QED BY <1>1, <1>2, PTL DEF Spec
=============================================================================
