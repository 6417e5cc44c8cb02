------------------------ MODULE SiteArtefacts_proofs ------------------------
(***************************************************************************)
(* What a hosted site consists of, for every instance of SiteLifecycle: its*)
(* app, its document root, the operator's virtual host or the panel's, its *)
(* pools, and that nothing of it is left when it is gone.                  *)
(*                                                                         *)
(* Each part has an invariant over what SiteLifecycle_proofs shows every   *)
(* request to hold: the property between requests and, for every place in  *)
(* which a request may have gone half of its way, what holds instead.      *)
(***************************************************************************)
EXTENDS SiteLifecycle_proofs

-----------------------------------------------------------------------------
(* Operations that take from each other are marked *)

CrossInv ==
  \A h, g \in Handler :
    h # g /\ hd[h].d = hd[g].d /\ {hd[h].op, hd[g].op} \in Crossing => hd[h].d \in crossed

LEMMA CrossedKept ==
  ASSUME StructInv, NEW h \in Handler, Step(h)
  PROVE  crossed' = crossed
  <1>1. CASE CreatePool(h) \/ CreateVHost(h) \/ CreateRow(h)
    BY <1>1 DEF CreatePool, CreateVHost, CreateRow, KeepRest, bound
  <1>2. CASE DeleteTeardown(h) \/ DeleteDismiss(h) \/ DeleteRows(h)
    BY <1>2 DEF DeleteTeardown, DeleteDismiss, DeleteRows, KeepRest, bound
  <1>3. CASE EditStep(h)
    BY <1>3, EditKinds DEF bound
  <1>4. CASE Lock(h)
    BY <1>4, LockReads DEF bound
  <1>5. CASE BulkStep(h)
    BY <1>5, BulkKinds DEF bound
  <1>6. CASE AdoptStep(h)
    BY <1>6, AdoptKinds DEF bound
  <1>7. CASE ScanStep(h)
    BY <1>7, ScanKinds DEF bound
  <1> QED BY <1>1, <1>2, <1>3, <1>4, <1>5, <1>6, <1>7, StepKinds

LEMMA CrossStep ==
  ASSUME StructInv, CrossInv, [Next]_vars
  PROVE  CrossInv' /\ crossed \subseteq crossed'
  <1>1. ASSUME NEW h \in Handler, Request(h)
        PROVE  CrossInv' /\ crossed \subseteq crossed'
    <2>1. PICK op \in Op, d \in Domain \cup {None} : \E new \in Handling :
             Ask(h, op, d, new) /\ Opening(op, d, new)
      BY <1>1, RequestOpens
    <2>2. PICK new \in Handling : Ask(h, op, d, new) /\ Opening(op, d, new)
      BY <2>1
    <2>3. /\ hd'[h].op = op /\ hd'[h].d = d
          /\ \A g \in Handler \ {h} : hd'[g].op = hd[g].op /\ hd'[g].d = hd[g].d
      BY <2>2, Asks DEF Asked, StructInv
    <2>4. crossed' = IF \E g \in Handler : hd[g].d = d /\ {op, hd[g].op} \in Crossing
                     THEN crossed \cup {d} ELSE crossed
      BY <2>2 DEF Ask
    <2>5. \A g \in Handler \ {h} : hd[g].d = d /\ {op, hd[g].op} \in Crossing => d \in crossed'
      BY <2>4
    <2>6. ASSUME NEW k \in Handler, NEW g \in Handler, k # g, hd'[k].d = hd'[g].d,
                 {hd'[k].op, hd'[g].op} \in Crossing
          PROVE  hd'[k].d \in crossed'
      <3>1. CASE k = h
        BY <2>3, <2>5, <2>6, <3>1
      <3>2. CASE g = h
        <4>1. {hd'[k].op, hd'[g].op} = {hd'[g].op, hd'[k].op}
          OBVIOUS
        <4> QED BY <2>3, <2>5, <2>6, <3>2, <4>1
      <3>3. CASE k # h /\ g # h
        BY <2>3, <2>4, <2>6, <3>3 DEF CrossInv
      <3> QED BY <3>1, <3>2, <3>3
    <2> QED BY <2>4, <2>6 DEF CrossInv
  <1>2. ASSUME NEW h \in Handler, Step(h)
        PROVE  CrossInv' /\ crossed \subseteq crossed'
    <2>1. \A g \in Handler : hd'[g].op = None \/ (hd'[g].op = hd[g].op /\ hd'[g].d = hd[g].d)
      BY <1>2, StepStays, Values DEF Moves, StructInv, HandlersOK
    <2>2. \A h1, h2 \in Handler : {hd'[h1].op, hd'[h2].op} \in Crossing => hd'[h1].op # None /\ hd'[h2].op # None
      BY CrossingOps, Constants DEF Op
    <2> QED BY <1>2, <2>1, <2>2, CrossedKept DEF CrossInv
  <1>3. CASE Crash
    <2>1. \A g \in Handler : hd'[g].op = None
      BY <1>3, Values DEF Crash
    <2>2. \A p : {None, p} \notin Crossing
      BY CrossingOps, Constants DEF Op
    <2> QED BY <1>3, <2>1, <2>2 DEF CrossInv, Crash
  <1>4. CASE Start \/ SaveSettings \/ (\E d \in Domain : RemoveConf(d) \/ EditPage(d)) \/ UNCHANGED vars
    <2>1. hd' = hd /\ crossed' = crossed
      BY <1>4 DEF Start, SaveSettings, RemoveConf, EditPage, vars, bound
    <2> QED BY <2>1 DEF CrossInv
  <1> QED BY <1>1, <1>2, <1>3, <1>4 DEF Next

LEMMA InitCross ==
  ASSUME Init
  PROVE  CrossInv
  <1>1. \A g \in Handler : hd[g].op = None
    BY Values DEF Init
  <1>2. \A p : {None, p} \notin Crossing
    BY CrossingOps, Constants DEF Op
  <1> QED BY <1>1, <1>2 DEF CrossInv

-----------------------------------------------------------------------------
(* A site in proxy mode has an app *)

AppHeld(g) ==
  g.op \in {"proxy", "serve"} /\ g.d \notin crossed /\ row[g.d].id = g.copy.id =>
  /\ g.op = "proxy" /\ g.pc # "app" => app[g.d]
  /\ g.op = "serve" /\ g.pc = "dropapp" => row[g.d].mode = "files"
AppInv == ProxyHasApp /\ \A h \in Handler : AppHeld(hd[h])

LEMMA RecordsModes ==
  ASSUME RowsOK, NEW new \in SUBSET Foreign, NEW nested, NEW x \in Domain
  PROVE  Recorded(new, nested)[x].mode = IF x \in new THEN "files" ELSE row[x].mode
  <1> DEFINE fresh(d) == [NoRow EXCEPT !.id = ids + 1, !.source = "imported", !.ssl = TRUE, !.own = TRUE,
                                !.conf = ForeignPath[d]]
             rows == [d \in Domain |-> IF d \in new THEN fresh(d) ELSE row[d]]
  <1>1. fresh(x).mode = "files"
    BY DEF NoRow
  <1>2. rows[x].mode = IF x \in new THEN "files" ELSE row[x].mode
    BY <1>1
  <1>3. rows[x] \in [id : Nat, source : {"none", "managed", "imported"}, sub : BOOLEAN, root : Root,
         php : Php, mode : Mode, ssl : BOOLEAN, own : BOOLEAN, conf : Path \cup {None}]
    <2>1. x \in new => ForeignPath[x] \in Path
      BY Constants
    <2>2. StdRoot \in Root /\ StdPhp \in Php /\ ids + 1 \in Nat
      BY ValueAssumption DEF RowsOK
    <2> QED BY <2>1, <2>2 DEF RowsOK, Row, NoRow, Mode
  <1>4. Recorded(new, nested)[x] = IF x \in nested /\ rows[x].source = "imported"
                                   THEN [rows[x] EXCEPT !.sub = @ \/ ParentIn(x, rows)] ELSE rows[x]
    BY DEF Recorded
  <1> HIDE DEF rows
  <1> QED BY <1>2, <1>3, <1>4

\* What a step does to the mode and the app of a site.
ModeChange(h, x) ==
  \/ row'[x].mode = row[x].mode /\ row'[x].id = row[x].id /\ app'[x] = app[x]
  \/ row'[x].mode = "files" /\ (row'[x].id = 0 \/ row'[x].id = ids + 1)
  \/ /\ hd[h].op = "serve" /\ hd[h].pc = "persist" /\ x = hd[h].d /\ app'[x] = app[x]
     /\ row[x].id = hd[h].copy.id /\ row'[x].id = row[x].id /\ row'[x].mode = "files"
  \/ /\ hd[h].op = "serve" /\ hd[h].pc = "dropapp" /\ x = hd[h].d
     /\ row'[x] = row[x] /\ (app'[x] = app[x] \/ row[x].id = hd[h].copy.id)
  \/ /\ hd[h].op = "proxy" /\ hd[h].pc = "app" /\ x = hd[h].d /\ row'[x] = row[x] /\ app'[x]
  \/ /\ hd[h].op = "proxy" /\ hd[h].pc = "persist" /\ x = hd[h].d /\ app'[x] = app[x]
     /\ row[x].id = hd[h].copy.id /\ row'[x].id = row[x].id /\ row'[x].mode = "proxy"

LEMMA ModeChanges ==
  ASSUME StructInv, NEW h \in Handler, Step(h), NEW x \in Domain
  PROVE  ModeChange(h, x)
  <1>1. /\ row \in [Domain -> Row] /\ app \in [Domain -> BOOLEAN] /\ HandlersOK /\ RowsOK /\ ids \in Nat
        /\ hd[h] \in Handling /\ Holding(hd[h]) /\ Shape(hd[h]) /\ row[x] \in Row
        /\ NoRow.mode = "files" /\ NoRow.id = 0
    BY Values, Working DEF StructInv, RowsOK, HandlersOK
  <1>2. CASE row' = row /\ app' = app
    BY <1>2 DEF ModeChange
  <1>3. CASE CreatePool(h) \/ CreateVHost(h)
    BY <1>2, <1>3 DEF CreatePool, CreateVHost, db
  <1>4. CASE CreateRow(h)
    <2>1. hd[h].op = "create" /\ hd[h].d \in Domain /\ hd[h].copy \in Row /\ hd[h].copy.mode = "files"
      BY <1>1, <1>4, Working, Constants DEF CreateRow, At, Op, Bulk, Locked, Busy, Holding, Handling
    <2>2. CASE row' = [row EXCEPT ![hd[h].d] = [hd[h].copy EXCEPT !.id = ids + 1]] /\ app' = app
      <3>1. row'[x] = IF x = hd[h].d THEN [hd[h].copy EXCEPT !.id = ids + 1] ELSE row[x]
        BY <1>1, <2>1, <2>2
      <3>2. [hd[h].copy EXCEPT !.id = ids + 1].mode = "files" /\ [hd[h].copy EXCEPT !.id = ids + 1].id = ids + 1
        BY <2>1 DEF Row
      <3> QED BY <2>2, <3>1, <3>2 DEF ModeChange
    <2> QED BY <1>2, <1>4, <2>2 DEF CreateRow
  <1>5. CASE DeleteTeardown(h) \/ DeleteDismiss(h)
    BY <1>2, <1>5 DEF DeleteTeardown, DeleteDismiss, db
  <1>6. ASSUME NEW gone, row' = Deleted(row, gone), app' = KeepApps(row')
        PROVE  ModeChange(h, x)
    <2>1. CASE row'[x] = NoRow
      BY <1>1, <2>1 DEF ModeChange
    <2>2. CASE row'[x] # NoRow
      <3>1. row'[x] = row[x] /\ app'[x] = (app[x] /\ row[x].source # "none")
        BY <1>6, <2>2 DEF Deleted, KeepApps
      <3>2. row[x].source # "none"
        BY <1>1, <2>2, <3>1 DEF RowsOK, RowOK
      <3> QED BY <1>1, <3>1, <3>2 DEF ModeChange
    <2> QED BY <2>1, <2>2
  <1>7. CASE row' = row /\ app' = KeepApps(row)
    <2>1. CASE row[x].source = "none"
      BY <1>1, <1>7, <2>1 DEF ModeChange, RowsOK, RowOK
    <2>2. CASE row[x].source # "none"
      BY <1>1, <1>7, <2>2 DEF ModeChange, KeepApps
    <2> QED BY <2>1, <2>2
  <1>8. CASE DeleteRows(h)
    BY <1>2, <1>6, <1>7, <1>8 DEF DeleteRows
  <1>9. CASE ScanPrune(h)
    BY <1>6, <1>9 DEF ScanPrune, Pruned
  <1>10. CASE ScanReads(h)
    BY <1>2, <1>10, ScanReading
  <1>11. CASE ScanRecord(h)
    <2>1. app' = app /\ ids' \in {ids, ids + 1}
      BY <1>11, ScanRecords
    <2>2. PICK done \in SUBSET (hd[h].mine \cap Foreign), nested \in SUBSET Domain :
            row' = Recorded(done, nested)
      BY <1>11, ScanRecords
    <2>3. done \in SUBSET Foreign
      OBVIOUS
    <2>4. /\ Recorded(done, nested)[x].mode = IF x \in done THEN "files" ELSE row[x].mode
          /\ Recorded(done, nested)[x].id = IF x \in done THEN ids + 1 ELSE row[x].id
      BY <1>1, <2>3, RecordsModes, RecordsRows
    <2> QED BY <2>1, <2>2, <2>4 DEF ModeChange
  <1>12. CASE Lock(h)
    BY <1>2, <1>12, LockReads DEF db
  <1>13. CASE BulkStep(h)
    BY <1>2, <1>13, BulkKinds DEF db
  <1>14. CASE AdoptStep(h)
    <2>1. app' = app
      BY <1>14, AdoptKinds
    <2>2. ASSUME NEW d \in Foreign, row' = [row EXCEPT ![d] = [row[d] EXCEPT !.source = "managed",
                                            !.php = hd[h].copy.php, !.conf = None]]
          PROVE  ModeChange(h, x)
      <3>1. row'[x] = IF x = d THEN [row[x] EXCEPT !.source = "managed",
                                            !.php = hd[h].copy.php, !.conf = None] ELSE row[x]
        BY <1>1, <2>2
      <3>2. row'[x].mode = row[x].mode /\ row'[x].id = row[x].id
        BY <1>1, <3>1 DEF Row
      <3> QED BY <2>1, <3>2 DEF ModeChange
    <2> QED BY <1>2, <1>14, <2>1, <2>2, AdoptRows
  <1>15. CASE EditStep(h)
    <2> DEFINE d == hd[h].d
               r == hd[h].copy
    <2>1. d \in Domain /\ r \in Row /\ hd[h].op \in Edits
      BY <1>15, EditKinds
    <2>2. ASSUME NEW new, Update(d, r.id, new)
          PROVE  row'[x] = IF x = d /\ row[x].id = r.id THEN new ELSE row[x]
      BY <1>1, <2>1, <2>2 DEF Update
    <2>3. CASE ServePersist(h)
      <3>1. /\ hd[h].op = "serve" /\ hd[h].pc = "persist" /\ app' = app /\ r.mode = "files"
            /\ row' = row \/ Update(d, r.id, [row[d] EXCEPT !.root = r.root, !.mode = r.mode])
        BY <1>1, <2>3 DEF ServePersist, At, Holding
      <3>2. [row[x] EXCEPT !.root = r.root, !.mode = r.mode].mode = r.mode
            /\ [row[x] EXCEPT !.root = r.root, !.mode = r.mode].id = row[x].id
        BY <1>1 DEF Row
      <3> QED BY <1>2, <2>2, <3>1, <3>2 DEF ModeChange
    <2>4. CASE ProxyPersist(h)
      <3>1. /\ hd[h].op = "proxy" /\ hd[h].pc = "persist" /\ app' = app /\ r.mode = "proxy"
            /\ row' = row \/ Update(d, r.id, [row[d] EXCEPT !.root = r.root, !.mode = r.mode])
        BY <1>1, <2>4 DEF ProxyPersist, At, Holding
      <3>2. [row[x] EXCEPT !.root = r.root, !.mode = r.mode].mode = r.mode
            /\ [row[x] EXCEPT !.root = r.root, !.mode = r.mode].id = row[x].id
        BY <1>1 DEF Row
      <3> QED BY <1>2, <2>2, <3>1, <3>2 DEF ModeChange
    <2>5. CASE ServeDropApp(h)
      <3>1. /\ hd[h].op = "serve" /\ hd[h].pc = "dropapp" /\ row' = row
            /\ app' = [app EXCEPT ![d] = @ /\ ~(app[d] /\ row[d].id = r.id)]
        BY <2>5 DEF ServeDropApp, At
      <3>2. app'[x] = app[x] \/ (x = d /\ row[x].id = r.id)
        BY <1>1, <2>1, <3>1
      <3> QED BY <3>1, <3>2 DEF ModeChange
    <2>6. CASE ProxyApp(h)
      <3>1. /\ hd[h].op = "proxy" /\ hd[h].pc = "app" /\ row' = row
            /\ app' = app \/ app' = [app EXCEPT ![d] = TRUE]
        BY <2>6 DEF ProxyApp, At
      <3> QED BY <1>1, <2>1, <3>1 DEF ModeChange
    <2>7. CASE ProxyConfigure(h) \/ PhpPool(h) \/ RenderSite(h)
      BY <1>2, <2>7 DEF ProxyConfigure, PhpPool, RenderSite, db
    <2>8. CASE PersistCerts(h) \/ PersistSSL(h) \/ PersistPhp(h)
      <3>1. app' = app
        BY <2>8 DEF PersistCerts, PersistSSL, PersistPhp, PersistLast
      <3>2. row'[x] = row[x] \/ (x = d /\ row'[x] = Persisted(h))
        BY <1>15, EditUpdates
      <3>3. hd[h].op \in {"php", "ssl"}
        BY <2>8 DEF PersistCerts, PersistSSL, PersistPhp, PersistLast, At
      <3>4. x = d => Persisted(h).mode = row[x].mode /\ Persisted(h).id = row[x].id
        BY <1>1, <3>3 DEF Persisted, Row
      <3> QED BY <3>1, <3>2, <3>4 DEF ModeChange
    <2> QED BY <1>15, <2>3, <2>4, <2>5, <2>6, <2>7, <2>8 DEF EditStep
  <1> QED BY <1>3, <1>4, <1>5, <1>8, <1>9, <1>10, <1>11, <1>12, <1>13, <1>14, <1>15, StepKinds DEF ScanStep

LEMMA StepApp ==
  ASSUME StructInv, CrossInv, AppInv, NEW h \in Handler, Step(h)
  PROVE  AppInv'
  <1>1. /\ HandlersOK /\ RowsOK /\ ids \in Nat /\ crossed' = crossed
        /\ \A g \in Handler \ {h} : hd'[g] = hd[g]
    BY CrossedKept, StepStays DEF StructInv, RowsOK, Moves, HandlersOK
  <1>2. \A x \in Domain : ModeChange(h, x)
    BY <1>1, ModeChanges
  <1>3. \A g \in Handler : AppHeld(hd[g])
    BY DEF AppInv
  <1>4. \A g \in Handler : hd[g].op \in Edits => hd[g].d \in Domain /\ hd[g].copy.id \in 1..ids
    <2> SUFFICES ASSUME NEW g \in Handler, hd[g].op \in Edits
                 PROVE  hd[g].d \in Domain /\ hd[g].copy.id \in 1..ids
      OBVIOUS
    <2>1. hd[g].op \in Op /\ hd[g].op \notin Bulk
      BY DEF Op, Edits, Bulk
    <2>2. Busy(g)
      BY <1>1, <2>1, Working
    <2> QED BY <1>1, <2>1, <2>2, Working DEF Holding
  <1>5. ProxyHasApp'
    <2> SUFFICES ASSUME NEW x \in Domain, row'[x].mode = "proxy", x \notin crossed
                 PROVE  app'[x]
      BY <1>1 DEF ProxyHasApp
    <2>1. row[x].mode = "proxy" => app[x]
      BY DEF AppInv, ProxyHasApp
    <2>2. AppHeld(hd[h])
      BY <1>3
    <2> QED BY <1>2, <2>1, <2>2 DEF ModeChange, AppHeld
  <1>6. ASSUME NEW g \in Handler \ {h}
        PROVE  AppHeld(hd[g])'
    <2> SUFFICES ASSUME hd[g].op \in {"proxy", "serve"}, hd[g].d \notin crossed, row'[hd[g].d].id = hd[g].copy.id
                 PROVE  /\ hd[g].op = "proxy" /\ hd[g].pc # "app" => app'[hd[g].d]
                        /\ hd[g].op = "serve" /\ hd[g].pc = "dropapp" => row'[hd[g].d].mode = "files"
      BY <1>1 DEF AppHeld
    <2> DEFINE x == hd[g].d
    <2>1. x \in Domain /\ hd[g].copy.id \in 1..ids
      BY <1>4 DEF Edits
    <2>2. ModeChange(h, x) /\ AppHeld(hd[g])
      BY <1>2, <1>3, <2>1
    <2>3. row'[x].id # 0 /\ row'[x].id # ids + 1
      BY <1>1, <2>1
    <2>4. ~(hd[h].d = x /\ {hd[h].op, hd[g].op} \in Crossing)
      BY DEF CrossInv
    <2>5. hd[h].op \in {"serve", "proxy"} /\ hd[h].d = x => hd[h].op = hd[g].op
      <3>1. CASE hd[h].op = "serve" /\ hd[g].op = "proxy"
        BY <2>4, <3>1, CrossingOps
      <3>2. CASE hd[h].op = "proxy" /\ hd[g].op = "serve"
        BY <2>4, <3>2, CrossingOps
      <3> QED BY <3>1, <3>2
    <2> HIDE DEF x
    <2>6. CASE row'[x].mode = row[x].mode /\ row'[x].id = row[x].id /\ app'[x] = app[x]
      BY <2>1, <2>2, <2>6 DEF AppHeld, x
    <2>7. CASE hd[h].op = "proxy" /\ hd[g].op = "proxy" /\ row'[x] = row[x] /\ app'[x]
      BY <2>7 DEF x
    <2>8. CASE /\ hd[h].op = "proxy" /\ hd[g].op = "proxy" /\ app'[x] = app[x]
               /\ row[x].id = hd[h].copy.id /\ row'[x].id = row[x].id
      BY <2>1, <2>2, <2>8 DEF AppHeld, x
    <2>9. CASE hd[g].op = "serve" /\ row'[x].mode = "files"
      BY <2>9 DEF x
    <2>10. CASE hd[g].op = "serve" /\ row'[x] = row[x]
      BY <2>1, <2>2, <2>10 DEF AppHeld, x
    <2> QED BY <2>2, <2>3, <2>5, <2>6, <2>7, <2>8, <2>9, <2>10 DEF ModeChange
  <1>7. AppHeld(hd[h])'
    <2>1. CASE hd'[h].op \notin {"proxy", "serve"}
      BY <2>1 DEF AppHeld
    <2>2. CASE hd'[h].op \in {"proxy", "serve"}
      <3>1. hd[h].op = hd'[h].op /\ hd'[h].d = hd[h].d /\ hd'[h] # NoHandling
        BY <1>1, <2>2, StepStays, Values, Constants DEF Op
      <3>2. hd[h].op \notin Locked \cup Bulk \cup {"create", "delete"} /\ hd[h].op \in {"proxy", "serve"}
        BY <2>2, <3>1 DEF Locked, Bulk
      <3>3. EditStep(h)
        <4>1. ~CreatePool(h) /\ ~CreateVHost(h) /\ ~CreateRow(h) /\ ~DeleteTeardown(h) /\ ~DeleteDismiss(h)
              /\ ~DeleteRows(h) /\ ~Lock(h)
          BY <3>2 DEF CreatePool, CreateVHost, CreateRow, DeleteTeardown, DeleteDismiss, DeleteRows, At, Lock
        <4>2. ~BulkStep(h) /\ ~AdoptStep(h)
          BY <1>1, <3>2, BulkKinds, AdoptKinds
        <4>3. ~ScanStep(h)
          BY <3>2, ScanKinds
        <4> QED BY <4>1, <4>2, <4>3, StepKinds
      <3>4. ~Reply(h)
        BY <1>1, <3>1, Replies
      <3>5. PICK pc \in Pc \ {"idle"} : Goto(h, pc) /\
              \/ hd[h].op = "serve" /\ hd[h].pc = "persist" /\ pc = "dropapp"
              \/ hd[h].op = "serve" /\ hd[h].pc = "dropapp" /\ pc = "render"
              \/ hd[h].op = "proxy" /\ hd[h].pc = "app" /\ pc = "persist"
              \/ hd[h].op = "proxy" /\ hd[h].pc = "persist" /\ pc = "render"
              \/ hd[h].op = "proxy" /\ hd[h].pc = "render" /\ pc = "configure"
        BY <1>1, <3>2, <3>3, <3>4, EditMoves
      <3>6. hd'[h].pc = pc /\ hd'[h].copy = hd[h].copy
        BY <1>1, <3>5, GoesOn
      <3> DEFINE x == hd[h].d
      <3> SUFFICES ASSUME x \notin crossed, row'[x].id = hd[h].copy.id
                   PROVE  /\ hd[h].op = "proxy" => app'[x]
                          /\ hd[h].op = "serve" /\ pc = "dropapp" => row'[x].mode = "files"
        BY <1>1, <3>1, <3>6 DEF AppHeld
      <3>7. x \in Domain /\ hd[h].copy.id \in 1..ids /\ ModeChange(h, x) /\ AppHeld(hd[h])
        BY <1>2, <1>3, <1>4, <3>2 DEF Edits
      <3>8. row'[x].id # 0 /\ row'[x].id # ids + 1 /\ hd[h].copy.id = row'[x].id
        BY <1>1, <3>7
      <3>9. CASE hd[h].op = "proxy" /\ hd[h].pc = "app"
        <4>1. app'[x]
          <5>1. ProxyApp(h)
            BY <3>3, <3>9 DEF EditStep, ServePersist, ServeDropApp, ProxyPersist, ProxyConfigure,
               PhpPool, RenderSite, PersistCerts, PersistSSL, PersistPhp, PersistLast, At
          <5>2. app' = [app EXCEPT ![x] = TRUE]
            BY <3>4, <5>1 DEF ProxyApp
          <5> QED BY <1>1, <3>7, <5>2 DEF RowsOK
        <4> QED BY <3>9, <4>1
      <3>10. CASE hd[h].op = "proxy" /\ hd[h].pc # "app"
        BY <3>7, <3>8, <3>10 DEF ModeChange, AppHeld
      <3>11. CASE hd[h].op = "serve" /\ hd[h].pc = "persist"
        <4>1. ServePersist(h)
          BY <3>3, <3>11 DEF EditStep, ServeDropApp, ProxyApp, ProxyPersist, ProxyConfigure,
             PhpPool, RenderSite, PersistCerts, PersistSSL, PersistPhp, PersistLast, At
        <4>2. Update(x, hd[h].copy.id, [row[x] EXCEPT !.root = hd[h].copy.root, !.mode = hd[h].copy.mode])
          BY <3>4, <4>1 DEF ServePersist
        <4>3. row \in [Domain -> Row] /\ hd[h].copy.mode = "files"
          BY <1>1, <3>11, Working DEF RowsOK, Holding
        <4>4. row[x].id = row'[x].id
          BY <1>1, <3>3, <3>7, EditUpdates
        <4>5. row'[x] = [row[x] EXCEPT !.root = hd[h].copy.root, !.mode = "files"]
          BY <3>7, <4>2, <4>3, <4>4 DEF Update
        <4> QED BY <3>7, <3>11, <4>3, <4>5 DEF Row
      <3>12. CASE hd[h].op = "serve" /\ hd[h].pc # "persist"
        BY <3>5, <3>12
      <3> HIDE DEF x
      <3> QED BY <3>2, <3>9, <3>10, <3>11, <3>12
    <2> QED BY <2>1, <2>2
  <1> QED BY <1>5, <1>6, <1>7 DEF AppInv

\* What a request that comes in leaves alone.
LEMMA AskLeaves ==
  ASSUME StructInv, NEW h \in Handler, Request(h)
  PROVE  \E op \in Op, d \in Domain \cup {None} : \E new \in Handling :
           /\ Asked(h, op, d, new) /\ Opening(op, d, new) /\ doubt \subseteq doubt'
  <1>1. PICK op \in Op, d \in Domain \cup {None} : \E new \in Handling :
           Ask(h, op, d, new) /\ Opening(op, d, new)
    BY RequestOpens
  <1>2. PICK new \in Handling : Ask(h, op, d, new) /\ Opening(op, d, new)
    BY <1>1
  <1>3. Asked(h, op, d, new) /\ doubt \subseteq doubt'
    BY <1>2, Asks DEF Ask, StructInv
  <1> QED BY <1>2, <1>3

LEMMA StartModes ==
  ASSUME StructInv, NEW x \in Domain
  PROVE  Booted[x].mode \in {"files", row[x].mode}
         /\ (Booted[x].mode = "proxy" => Booted[x].source # "none")
  <1>1. RowsOK /\ Newly \in SUBSET Foreign
    BY StartRows DEF StructInv
  <1>2. Recorded(Newly, Domain)[x].mode = IF x \in Newly THEN "files" ELSE row[x].mode
    BY <1>1, RecordsModes
  <1>3. Recorded(Newly, Domain) \in [Domain -> Row]
    BY <1>1, RecordsRows
  <1>4. Booted[x] = Recorded(Newly, Domain)[x] \/ Booted[x] = NoRow
    BY <1>3, PrunesRows DEF Booted
  <1>5. Recorded(Newly, Domain)[x].mode = "proxy" => Recorded(Newly, Domain)[x].source # "none"
    BY <1>1, <1>2, RecordsRows, Values DEF RowsOK, RowOK
  <1> QED BY <1>2, <1>4, <1>5, Values

LEMMA AppStep ==
  ASSUME StructInv, CrossInv, AppInv, [Next]_vars
  PROVE  AppInv'
  <1>1. crossed \subseteq crossed'
    BY CrossStep
  <1>2. ASSUME NEW h \in Handler, Request(h)
        PROVE  AppInv'
    <2>1. PICK op \in Op, d \in Domain \cup {None} : \E new \in Handling :
            Asked(h, op, d, new) /\ Opening(op, d, new) /\ doubt \subseteq doubt'
      BY <1>2, AskLeaves
    <2>2. PICK new \in Handling : Asked(h, op, d, new) /\ Opening(op, d, new) /\ doubt \subseteq doubt'
      BY <2>1
    <2>3. row' = row /\ app' = app
      BY <2>2 DEF Asked, db
    <2>4. AppHeld(hd[h])'
      BY <2>2, Opens DEF Asked, AppHeld
    <2>5. ASSUME NEW g \in Handler \ {h} PROVE AppHeld(hd[g])'
      <3>1. AppHeld(hd[g])
        BY DEF AppInv
      <3>2. hd'[g].op = hd[g].op /\ hd'[g].d = hd[g].d /\ hd'[g].pc = hd[g].pc /\ hd'[g].copy = hd[g].copy
        BY <2>2 DEF Asked
      <3> QED BY <1>1, <2>3, <3>1, <3>2 DEF AppHeld
    <2> QED BY <1>1, <2>3, <2>4, <2>5 DEF AppInv, ProxyHasApp
  <1>3. CASE Crash
    <2>1. row' = row /\ app' = app
      BY <1>3 DEF Crash, db
    <2>2. \A g \in Handler : hd'[g].op \notin {"proxy", "serve"}
      BY <1>3, Values, Constants DEF Crash, Op
    <2> QED BY <1>1, <2>1, <2>2 DEF AppInv, ProxyHasApp, AppHeld
  <1>4. CASE Start
    <2>1. /\ row' = Booted /\ app' = KeepApps(Booted) /\ hd' = hd /\ ~up
         
      <3>1. \A v : v \in doubt /\ v[2] = "app" => v \in doubt'
        BY <1>4, StartDoes
      <3> QED BY <1>4, <3>1, StartDoes DEF Sure
    <2>2. \A g \in Handler : hd'[g].op \notin {"proxy", "serve"}
      BY <2>1, Values, Constants DEF StructInv, DownOK, Op
    <2>3. ASSUME NEW x \in Domain, Booted[x].mode = "proxy", x \notin crossed
          PROVE  KeepApps(Booted)[x]
      <3>1. row[x].mode = "proxy" /\ Booted[x].source # "none"
        BY <2>3, StartModes
      <3> QED BY <2>3, <3>1 DEF AppInv, ProxyHasApp, KeepApps
    <2> QED BY <1>1, <2>1, <2>2, <2>3 DEF AppInv, ProxyHasApp, AppHeld
  <1>5. CASE SaveSettings \/ (\E d \in Domain : RemoveConf(d) \/ EditPage(d)) \/ UNCHANGED vars
    <2>1. hd' = hd /\ row' = row /\ app' = app
      BY <1>5 DEF SaveSettings, RemoveConf, EditPage, vars, db
    <2> QED BY <1>1, <2>1 DEF AppInv, ProxyHasApp, AppHeld
  <1> QED BY <1>2, <1>3, <1>4, <1>5, StepApp DEF Next

LEMMA InitApp ==
  ASSUME Init
  PROVE  AppInv
  <1>1. \A g \in Handler : hd[g].op \notin {"proxy", "serve"}
    BY Values, Constants DEF Init, Op
  <1>2. \A x \in Domain : row[x].mode = "files"
    BY DEF Init, Imported, NoRow
  <1> QED BY <1>1, <1>2 DEF AppInv, ProxyHasApp, AppHeld

\* A site in proxy mode has its app, whatever fails, stops or runs beside: only a
\* SetServe and a SetProxyApp of one site at a time (crossed) may leave one its
\* virtual host can never be written for.
THEOREM ProxySitesHaveApps == Spec => []ProxyHasApp
  <1> DEFINE Inv == StructInv /\ CrossInv /\ AppInv
  <1>1. Init => Inv
    BY InitStruct, InitCross, InitApp
  <1>2. Inv /\ [Next]_vars => Inv'
    BY StructStep, CrossStep, AppStep
  <1>3. Inv => ProxyHasApp
    BY DEF AppInv
  <1> QED BY <1>1, <1>2, <1>3, PTL DEF Spec

-----------------------------------------------------------------------------
(* A site in the standard layout has its document root *)

DocsMade(g) ==
  /\ g.op = "create" /\ g.d \notin Foreign \cup crossed =>
       /\ row[g.d].source = "none"
       /\ g.pc # "pool" /\ g.copy.root = StdRoot => docs[g.d] # "none"
  /\ /\ g.op = "proxy" /\ g.d \notin Foreign \cup crossed
     /\ row[g.d].id = g.copy.id /\ g.copy.root = StdRoot
     => docs[g.d] # "none"
DocsInv == DocsKept /\ \A h \in Handler : DocsMade(hd[h])

LEMMA DocsChanges ==
  ASSUME StructInv, NEW h \in Handler, Step(h), NEW x \in Domain
  PROVE  \/ docs'[x] = docs[x] \/ docs'[x] # "none"
         \/ /\ hd[h].op = "create" /\ x = hd[h].d /\ row' = row /\ Reply(h)
  <1>1. docs \in [Domain -> Docs] /\ HandlersOK
    BY DEF StructInv, DiskOK
  <1>2. CASE docs' = docs
    BY <1>2
  <1>3. ASSUME NEW d, NEW r, Provision(d, r)
        PROVE  docs'[x] = docs[x] \/ docs'[x] # "none"
    BY <1>1, <1>3 DEF Provision
  <1>4. ASSUME NEW d, NEW r, RollBackDocs(d, r)
        PROVE  docs'[x] = docs[x] \/ x = d
    BY <1>1, <1>4 DEF RollBackDocs
  <1>5. CASE CreatePool(h)
    <2>1. hd[h].op = "create" /\ row' = row
      BY <1>5 DEF CreatePool, At, db
    <2>2. \/ Provision(hd[h].d, hd[h].copy)
          \/ RollBackDocs(hd[h].d, hd[h].copy) /\ Reply(h)
      BY <1>5 DEF CreatePool
    <2> QED BY <1>3, <1>4, <2>1, <2>2
  <1>6. CASE CreateVHost(h) \/ CreateRow(h)
    <2>1. hd[h].op = "create"
      BY <1>6 DEF CreateVHost, CreateRow, At
    <2>2. \/ docs' = docs
          \/ RollBackDocs(hd[h].d, hd[h].copy) /\ Reply(h) /\ row' = row
      BY <1>6 DEF CreateVHost, CreateRow, RollBack, db
    <2> QED BY <1>4, <2>1, <2>2
  <1>7. CASE DeleteTeardown(h) \/ DeleteDismiss(h) \/ DeleteRows(h)
    BY <1>2, <1>7 DEF DeleteTeardown, DeleteDismiss, DeleteRows, disk
  <1>8. CASE EditStep(h)
    BY <1>2, <1>3, <1>8 DEF EditStep, ServePersist, ServeDropApp, ProxyApp, ProxyPersist, ProxyConfigure,
       PhpPool, RenderSite, PersistCerts, PersistSSL, PersistPhp, PersistLast, disk
  <1>9. CASE Lock(h)
    BY <1>2, <1>9, LockReads DEF disk
  <1>10. CASE BulkStep(h)
    BY <1>2, <1>10, BulkKinds
  <1>11. CASE AdoptStep(h)
    BY <1>2, <1>11, AdoptKinds
  <1>12. CASE ScanStep(h)
    BY <1>2, <1>12, ScanKinds DEF disk
  <1> QED BY <1>5, <1>6, <1>7, <1>8, <1>9, <1>10, <1>11, <1>12, StepKinds

LEMMA StepDocs ==
  ASSUME StructInv, CrossInv, DocsInv, NEW h \in Handler, Step(h)
  PROVE  DocsInv'
  <1>1. /\ HandlersOK /\ RowsOK /\ row \in [Domain -> Row] /\ ids \in Nat /\ crossed' = crossed
        /\ \A g \in Handler \ {h} : hd'[g] = hd[g]
        /\ NoRow.source = "none" /\ NoRow.id = 0
        /\ \A x \in Domain : row[x].source = "none" => row[x].id = 0
        /\ \A x \in Domain : row'[x].source = "imported" => x \in Foreign
    <2>1. RowsOK' /\ RowsOK /\ HandlersOK
      BY StepStruct DEF StructInv
    <2>2. \A x \in Domain : row[x].source = "none" => row[x].id = 0
      BY <2>1, Values DEF RowsOK, RowOK
    <2>3. \A x \in Domain : row'[x].source = "imported" => x \in Foreign
      BY <2>1 DEF RowsOK, RowOK
    <2> QED BY <2>1, <2>2, <2>3, CrossedKept, StepStays, Values DEF RowsOK, Moves, HandlersOK
  <1>2. ASSUME NEW g \in Handler, hd[g].op \in {"create", "proxy"}
        PROVE  /\ hd[g].d \in Domain /\ hd[g].copy \in Row
               /\ (hd[g].op = "proxy" => hd[g].copy.id \in 1..ids)
    <2>1. hd[g].op \in Op /\ hd[g].op \notin Bulk
      BY <1>2 DEF Op, Bulk
    <2> QED BY <1>1, <1>2, <2>1, Working DEF Handling, Holding, Edits
  \* What DocsMade says of a creation and of a proxied site, one at a time.
  <1>13. ASSUME NEW g \in Handler, hd[g].op = "create", hd[g].d \notin Foreign \cup crossed
         PROVE  /\ row[hd[g].d].source = "none"
                /\ (hd[g].pc # "pool" /\ hd[g].copy.root = StdRoot => docs[hd[g].d] # "none")
    <2>1. DocsMade(hd[g])
      BY DEF DocsInv
    <2> QED BY <1>13, <2>1 DEF DocsMade
  <1>14. ASSUME NEW g \in Handler, hd[g].op = "proxy", hd[g].d \notin Foreign \cup crossed,
                row[hd[g].d].id = hd[g].copy.id, hd[g].copy.root = StdRoot
         PROVE  docs[hd[g].d] # "none"
    <2>1. DocsMade(hd[g])
      BY DEF DocsInv
    <2> QED BY <1>14, <2>1 DEF DocsMade
  \* A root is only taken away where no site is.
  <1>3. ASSUME NEW x \in Domain \ Foreign, x \notin crossed, row[x].source # "none", docs[x] # "none"
        PROVE  docs'[x] # "none"
    <2>1. hd[h].op = "create" /\ x = hd[h].d => row[x].source = "none"
      BY <1>3 DEF DocsInv, DocsMade
    <2> QED BY <1>3, <2>1, DocsChanges
  <1>4. DocsKept'
    <2> SUFFICES ASSUME NEW x \in Domain \ Foreign, row'[x].source = "managed", row'[x].root = StdRoot,
                        x \notin crossed
                 PROVE  docs'[x] # "none"
      BY <1>1 DEF DocsKept, Managed
    <2>1. CASE row[x].source = "managed" /\ row[x].root = StdRoot
      <3>1. docs[x] # "none"
        BY <2>1 DEF DocsInv, DocsKept, Managed
      <3> QED BY <1>3, <2>1, <3>1
    <2>2. CASE hd[h].op = "create" /\ x = hd[h].d /\ row'[x] # row[x]
      <3>1. CreateRow(h)
        <4>1. CreatePool(h) \/ CreateVHost(h) => row' = row
          BY DEF CreatePool, CreateVHost, db
        <4>2. Lock(h) => row' = row
          BY LockReads DEF db
        <4>3. ~EditStep(h) /\ ~BulkStep(h) /\ ~AdoptStep(h)
          BY <2>2, EditKinds, BulkKinds, AdoptKinds DEF Edits
        <4>4. ~ScanStep(h) /\ ~DeleteTeardown(h) /\ ~DeleteDismiss(h) /\ ~DeleteRows(h)
          BY <2>2, ScanKinds DEF DeleteTeardown, DeleteDismiss, DeleteRows, At
        <4> QED BY <2>2, <4>1, <4>2, <4>3, <4>4, StepKinds
      <3>2. /\ docs' = docs /\ row' = [row EXCEPT ![x] = [hd[h].copy EXCEPT !.id = ids + 1]]
            /\ hd[h].pc = "insert"
        BY <2>2, <3>1 DEF CreateRow, At
      <3>3. hd[h].copy.root = StdRoot
        BY <1>1, <1>2, <2>2, <3>2 DEF Row
      <3> QED BY <2>2, <3>2, <3>3 DEF DocsInv, DocsMade
    <2>3. CASE /\ hd[h].op \in Edits /\ x = hd[h].d /\ row[x].id = hd[h].copy.id /\ row'[x] = Persisted(h)
               /\ row'[x] # row[x]
      <3>1. EditStep(h) /\ docs \in [Domain -> Docs]
        <4>1. Lock(h) => row' = row
          BY LockReads DEF db
        <4>2. ~BulkStep(h) /\ ~AdoptStep(h)
          BY <2>3, BulkKinds, AdoptKinds DEF Edits
        <4>3. ~ScanStep(h) /\ ~DeleteTeardown(h) /\ ~DeleteDismiss(h) /\ ~DeleteRows(h)
              /\ ~CreatePool(h) /\ ~CreateVHost(h) /\ ~CreateRow(h)
          BY <2>3, ScanKinds
             DEF DeleteTeardown, DeleteDismiss, DeleteRows, CreatePool, CreateVHost, CreateRow, At, Edits
        <4> QED BY <2>3, <4>1, <4>2, <4>3, StepKinds DEF StructInv, DiskOK
      <3>2. row[x].source = "managed"
        BY <3>1, EditUpdates
      <3>3. CASE hd[h].op = "serve"
        <4>1. ServePersist(h)
          BY <2>3, <3>1, <3>3 DEF EditStep, ServeDropApp, ProxyApp, ProxyPersist, ProxyConfigure,
             PhpPool, RenderSite, PersistCerts, PersistSSL, PersistPhp, PersistLast, At, db
        <4>2. Provision(x, hd[h].copy)
          BY <2>3, <4>1 DEF ServePersist
        <4>3. hd[h].copy.root = StdRoot
          BY <1>1, <2>3, <3>3 DEF Persisted, Row
        <4> QED BY <3>1, <4>2, <4>3 DEF Provision
      <3>4. CASE hd[h].op = "proxy"
        <4>1. hd[h].copy.root = StdRoot
          BY <1>1, <2>3, <3>4 DEF Persisted, Row
        <4>2. docs[x] # "none"
          BY <2>3, <3>4, <4>1 DEF DocsInv, DocsMade
        <4> QED BY <1>3, <3>2, <4>2
      <3>5. CASE hd[h].op \in {"php", "ssl"}
        <4>1. row[x].root = StdRoot
          BY <1>1, <2>3, <3>5 DEF Persisted, Row
        <4> QED BY <2>1, <3>2, <4>1
      <3> QED BY <2>3, <3>3, <3>4, <3>5 DEF Edits
    <2>4. CASE hd[h].op = "adopt" /\ x = hd[h].d
      BY <1>1, <2>4, Working DEF Holding
    <2> QED BY <1>1, <2>1, <2>2, <2>3, <2>4, RowChanges DEF RowChange
  <1>5. ASSUME NEW g \in Handler \ {h}, hd[g].op = "create", hd[g].d \notin Foreign \cup crossed
        PROVE  DocsMade(hd[g])'
    <2> DEFINE x == hd[g].d
    <2>1. /\ x \in Domain /\ row[x].source = "none" /\ row[x].id = 0
          /\ (hd[g].pc # "pool" /\ hd[g].copy.root = StdRoot => docs[x] # "none")
      <3>1. x \in Domain
        BY <1>2, <1>5
      <3>2. /\ row[x].source = "none"
            /\ (hd[g].pc # "pool" /\ hd[g].copy.root = StdRoot => docs[x] # "none")
        BY <1>5, <1>13
      <3> HIDE DEF x
      <3> QED BY <1>1, <3>1, <3>2
    <2>2. ~(hd[h].op = "create" /\ hd[h].d = x)
      BY <1>5, CrossingOps DEF CrossInv
    <2>3. RowChange(h, x)
      BY <2>1, RowChanges
    <2>4. row'[x].source # "imported"
      BY <1>1, <1>5, <2>1
    <2>5. ~(hd[h].op \in Edits \cup {"adopt"} /\ row[x].id = hd[h].copy.id)
      BY <1>1, <2>1, Working DEF Holding
    <2>6. row'[x].source = "none"
      <3> HIDE DEF x
      <3>1. row'[x].source \in {"none", "managed", "imported"}
        BY <2>1, StepStruct DEF StructInv, RowsOK, Row
      <3> QED BY <1>1, <2>1, <2>2, <2>3, <2>4, <2>5, <3>1 DEF RowChange
    <2>7. docs'[x] = docs[x] \/ docs'[x] # "none"
      BY <2>1, <2>2, DocsChanges
    <2> QED BY <1>1, <1>5, <2>1, <2>6, <2>7 DEF DocsMade
  <1>6. ASSUME NEW g \in Handler, hd[g].op = "proxy", hd[g].d \notin Foreign \cup crossed,
               row'[hd[g].d].id = hd[g].copy.id, hd[g].copy.root = StdRoot
        PROVE  docs'[hd[g].d] # "none"
    <2> DEFINE x == hd[g].d
    <2>1. x \in Domain /\ hd[g].copy.id \in 1..ids
      BY <1>2, <1>6, <1>1
    <2>2. ModeChange(h, x)
      BY <2>1, ModeChanges
    <2>3. row[x].id = hd[g].copy.id
      BY <1>1, <1>6, <2>1, <2>2 DEF ModeChange
    <2>4. docs[x] # "none" /\ row[x].source # "none"
      <3>1. docs[x] # "none"
        BY <1>6, <1>14, <2>3
      <3> HIDE DEF x
      <3> QED BY <1>1, <2>1, <2>3, <3>1 DEF x
    <2> QED BY <1>3, <1>6, <2>1, <2>4
  <1>7. ASSUME NEW g \in Handler \ {h}
        PROVE  DocsMade(hd[g])'
    BY <1>1, <1>5, <1>6 DEF DocsMade
  <1>8. ASSUME hd'[h].op = "create"
        PROVE  DocsMade(hd[h])'
    <2>1. hd[h].op = "create" /\ hd'[h].d = hd[h].d /\ hd'[h] # NoHandling
      BY <1>8, StepStays, Values, Constants DEF Op
    <2>2. CreatePool(h) \/ CreateVHost(h)
      <3>1. ~EditStep(h) /\ ~BulkStep(h) /\ ~AdoptStep(h) /\ ~Lock(h)
        BY <2>1, EditKinds, BulkKinds, AdoptKinds, LockReads DEF Edits, Guarded
      <3>2. ~ScanStep(h) /\ ~DeleteTeardown(h) /\ ~DeleteDismiss(h) /\ ~DeleteRows(h)
        BY <2>1, ScanKinds DEF DeleteTeardown, DeleteDismiss, DeleteRows, At
      <3>3. CreateRow(h) => Reply(h)
        BY DEF CreateRow, RollBack
      <3> QED BY <1>1, <2>1, <3>1, <3>2, <3>3, StepKinds, Replies
    <2>3. hd'[h].copy = hd[h].copy
      <3>1. \E pc \in Pc \ {"idle"} : Goto(h, pc)
        BY <1>1, <2>1, <2>2, Replies DEF CreatePool, CreateVHost, RollBack, Pc
      <3> QED BY <1>1, <3>1, GoesOn
    <2>4. ~Reply(h) /\ row' = row
      BY <1>1, <2>1, <2>2, Replies DEF CreatePool, CreateVHost, db
    <2>5. ASSUME hd[h].copy.root = StdRoot, hd[h].d \notin Foreign \cup crossed
          PROVE  docs'[hd[h].d] # "none"
      <3>1. CASE CreatePool(h)
        <4>1. Provision(hd[h].d, hd[h].copy)
          BY <2>4, <3>1 DEF CreatePool
        <4>2. docs \in [Domain -> Docs]
          BY DEF StructInv, DiskOK
        <4>3. hd[h].d \in Domain
          BY <1>2, <2>1
        <4> QED BY <2>5, <4>1, <4>2, <4>3 DEF Provision
      <3>2. CASE CreateVHost(h)
        <4>1. docs' = docs /\ hd[h].pc # "pool"
          BY <2>4, <3>2 DEF CreateVHost, RollBack, At
        <4> QED BY <1>13, <2>1, <2>5, <4>1
      <3> QED BY <2>2, <3>1, <3>2
    <2>6. hd[h].d \notin Foreign \cup crossed => row[hd[h].d].source = "none"
      BY <1>13, <2>1
    <2>7. /\ hd'[h].op # "proxy"
          /\ hd'[h].d \notin Foreign \cup crossed' => row'[hd'[h].d].source = "none"
      BY <1>1, <1>8, <2>1, <2>4, <2>6
    <2>8. hd'[h].d \notin Foreign \cup crossed' /\ hd'[h].copy.root = StdRoot => docs'[hd'[h].d] # "none"
      BY <1>1, <2>1, <2>3, <2>5
    <2> QED BY <2>7, <2>8 DEF DocsMade
  <1>9. ASSUME hd'[h].op = "proxy"
        PROVE  DocsMade(hd[h])'
    <2>1. hd[h].op = "proxy" /\ hd'[h].d = hd[h].d /\ hd'[h] # NoHandling
      BY <1>9, StepStays, Values, Constants DEF Op
    <2>2. EditStep(h)
      <3>1. /\ ~CreatePool(h) /\ ~CreateVHost(h) /\ ~CreateRow(h) /\ ~DeleteTeardown(h) /\ ~DeleteDismiss(h)
            /\ ~DeleteRows(h)
        BY <2>1 DEF CreatePool, CreateVHost, CreateRow, DeleteTeardown, DeleteDismiss, DeleteRows, At
      <3>2. ~BulkStep(h) /\ ~AdoptStep(h) /\ ~Lock(h) /\ ~ScanStep(h)
        BY <1>1, <2>1, BulkKinds, AdoptKinds, LockReads, ScanKinds DEF Guarded
      <3> QED BY <3>1, <3>2, StepKinds
    <2>3. ~Reply(h)
      BY <1>1, <2>1, Replies
    <2>4. PICK pc \in Pc \ {"idle"} : Goto(h, pc)
      BY <1>1, <2>1, <2>2, <2>3, EditMoves
    <2>5. hd'[h].copy = hd[h].copy
      BY <1>1, <2>4, GoesOn
    <2>6. /\ hd'[h].d \notin Foreign \cup crossed' /\ row'[hd'[h].d].id = hd'[h].copy.id
          /\ hd'[h].copy.root = StdRoot
          => docs'[hd'[h].d] # "none"
      BY <1>1, <1>6, <2>1, <2>5
    <2> QED BY <1>9, <2>6 DEF DocsMade
  <1>10. DocsMade(hd[h])'
    BY <1>8, <1>9 DEF DocsMade
  <1> QED BY <1>4, <1>7, <1>10 DEF DocsInv

LEMMA DocsStep ==
  ASSUME StructInv, CrossInv, DocsInv, [Next]_vars
  PROVE  DocsInv'
  <1>1. crossed \subseteq crossed'
    BY CrossStep
  <1>2. ASSUME NEW h \in Handler, Request(h)
        PROVE  DocsInv'
    <2>1. PICK op \in Op, d \in Domain \cup {None} : \E new \in Handling :
            Asked(h, op, d, new) /\ Opening(op, d, new) /\ doubt \subseteq doubt'
      BY <1>2, AskLeaves
    <2>2. PICK new \in Handling : Asked(h, op, d, new) /\ Opening(op, d, new) /\ doubt \subseteq doubt'
      BY <2>1
    <2>3. row' = row /\ docs' = docs /\ hd'[h].op = op /\ hd'[h].d = d /\ hd'[h].pc = new.pc /\ hd'[h].copy = new.copy
      BY <2>2 DEF Asked, db, disk
    <2>4. DocsKept'
      BY <1>1, <2>3 DEF DocsInv, DocsKept, Managed
    <2>5. op = "create" => new.pc = "pool" /\ row[d].source = "none"
      BY <2>2 DEF Opening
    <2>6. ASSUME op = "proxy", d \notin Foreign \cup crossed, new.copy.root = StdRoot
          PROVE  docs[d] # "none"
      <3>1. d \in Domain /\ row[d].source = "managed" /\ new.copy = [row[d] EXCEPT !.mode = "proxy"]
        BY <2>2, <2>6 DEF Opening, Bulk, Edits
      <3>2. row[d].root = StdRoot
        BY <2>6, <3>1 DEF StructInv, RowsOK, Row
      <3> QED BY <2>6, <3>1, <3>2 DEF DocsInv, DocsKept, Managed
    <2>7. DocsMade(hd[h])'
      BY <1>1, <2>3, <2>5, <2>6 DEF DocsMade
    <2>8. ASSUME NEW g \in Handler \ {h} PROVE DocsMade(hd[g])'
      <3>1. DocsMade(hd[g])
        BY DEF DocsInv
      <3>2. hd'[g].op = hd[g].op /\ hd'[g].d = hd[g].d /\ hd'[g].pc = hd[g].pc /\ hd'[g].copy = hd[g].copy
        BY <2>2 DEF Asked
      <3> QED BY <1>1, <2>3, <3>1, <3>2 DEF DocsMade
    <2> QED BY <2>4, <2>7, <2>8 DEF DocsInv
  <1>3. CASE Crash
    <2>1. row' = row /\ docs' = docs
      BY <1>3 DEF Crash, db, disk
    <2>2. \A g \in Handler : hd'[g].op \notin {"create", "proxy"}
      BY <1>3, Values, Constants DEF Crash, Op
    <2> QED BY <1>1, <2>1, <2>2 DEF DocsInv, DocsKept, Managed, DocsMade
  <1>4. CASE Start
    <2>1. row' = Booted /\ docs' = docs /\ hd' = hd /\ ~up
      BY <1>4, StartDoes
    <2>2. \A g \in Handler : hd'[g].op \notin {"create", "proxy"}
      BY <2>1, Values, Constants DEF StructInv, DownOK, Op
    <2>3. \A x \in Domain : Booted[x].source = "managed" => Booted[x] = row[x]
      BY StartRows, Values
    <2> QED BY <1>1, <2>1, <2>2, <2>3 DEF DocsInv, DocsKept, Managed, DocsMade
  <1>5. CASE SaveSettings \/ (\E d \in Domain : RemoveConf(d)) \/ UNCHANGED vars
    <2>1. hd' = hd /\ row' = row /\ docs' = docs
      BY <1>5 DEF SaveSettings, RemoveConf, vars, db, disk
    <2> QED BY <1>1, <2>1 DEF DocsInv, DocsKept, Managed, DocsMade
  <1>6. ASSUME NEW d \in Domain, EditPage(d)
        PROVE  DocsInv'
    <2>1. hd' = hd /\ row' = row /\ docs' = [docs EXCEPT ![d] = "page"] /\ docs \in [Domain -> Docs]
      BY <1>6 DEF EditPage, StructInv, DiskOK, db
    <2>2. \A x : docs[x] # "none" => docs'[x] # "none"
      BY <2>1
    <2> QED BY <1>1, <2>1, <2>2 DEF DocsInv, DocsKept, Managed, DocsMade
  <1> QED BY <1>2, <1>3, <1>4, <1>5, <1>6, StepDocs DEF Next

LEMMA InitDocs ==
  ASSUME Init
  PROVE  DocsInv
  <1>1. \A g \in Handler : hd[g].op \notin {"create", "proxy"}
    BY Values, Constants DEF Init, Op
  <1>2. \A x \in Managed(row) : x \in Live /\ x \in Domain
    BY DEF Init, Imported, NoRow, Managed
  <1>3. \A x \in Managed(row) : docs[x] = "seeded"
    BY <1>2 DEF Init
  <1> QED BY <1>1, <1>3 DEF DocsInv, DocsKept, DocsMade

\* No creation that fails, deletion, adoption or stop takes the document root of a
\* site that stays, but for one the operator had configured before and for two
\* creations of the domain at a time (crossed).
THEOREM RootsStay == Spec => []DocsKept
  <1> DEFINE Inv == StructInv /\ CrossInv /\ DocsInv
  <1>1. Init => Inv
    BY InitStruct, InitCross, InitDocs
  <1>2. Inv /\ [Next]_vars => Inv'
    BY StructStep, CrossStep, DocsStep
  <1>3. Inv => DocsKept
    BY DEF DocsInv
  <1> QED BY <1>1, <1>2, <1>3, PTL DEF Spec

-----------------------------------------------------------------------------
(* What a step does to the virtual hosts of a site *)

FileSame(x)   == \A p \in Path : file'[p][x] = file[p][x]
FileIs(x, v)  == \A p \in Path : file'[p][x] = IF p = active THEN v ELSE file[p][x]

FileChange(h, x) ==
  \/ FileSame(x)
  \/ /\ hd[h].op = "create" /\ x = hd[h].d
     /\ \/ FileIs(x, Rendering(hd[h].copy)) /\ hd[h].pc = "render"
        \/ FileIs(x, NoFile) /\ Reply(h) /\ row' = row
  \/ /\ hd[h].op \in Edits /\ hd[h].pc = "render" /\ x = hd[h].d /\ FileIs(x, Rendering(hd[h].copy))
     /\ row' = row
  \/ /\ hd[h].op = "delete" /\ hd[h].pc = "teardown" /\ x \in hd[h].mine /\ FileIs(x, NoFile) /\ Goto(h, "drop")
  \/ hd[h].op = "switch" /\ hd[h].pc = "sites" /\ x \in hd[h].mine /\ FileIs(x, Rendering(hd[h].snap[x]))
  \/ /\ hd[h].op = "switch" /\ hd[h].pc = "rerender" /\ x \in Managed(hd[h].snap)
     /\ FileIs(x, Rendering(hd[h].snap[x])) /\ active' = active
  \/ /\ hd[h].op = "switch" /\ hd[h].pc = "clean" /\ x \in hd[h].mine /\ Unlock(h) /\ active' = active
     /\ \A p \in Path : file'[p][x] = IF p = hd[h].server THEN NoFile ELSE file[p][x]
  \/ hd[h].op = "regen" /\ hd[h].pc = "sites" /\ x \in hd[h].mine /\ FileIs(x, Rendering(hd[h].snap[x]))
  \/ hd[h].op = "adopt" /\ hd[h].pc \in {"disable", "pool", "render"} /\ x = hd[h].d

LEMMA WritesSome ==
  ASSUME StructInv, NEW S \in SUBSET Domain, NEW rows \in [Domain -> Row], file' = Written(S, rows), NEW x \in Domain
  PROVE  FileSame(x) \/ (x \in S /\ FileIs(x, Rendering(rows[x])))
  <1>1. FileOK(file) /\ active \in Server
    BY DEF StructInv, DiskOK, PanelOK
  <1>2. \A p \in Path : file'[p][x] = IF p = active /\ x \in S THEN Rendering(rows[x]) ELSE file[p][x]
    BY <1>1, WritesFiles
  <1> QED BY <1>2 DEF FileSame, FileIs

LEMMA FileChanges ==
  ASSUME StructInv, NEW h \in Handler, Step(h), NEW x \in Domain
  PROVE  FileChange(h, x)
  <1>1. /\ FileOK(file) /\ active \in Server /\ HandlersOK /\ hd[h] \in Handling /\ Holding(hd[h])
        /\ file \in [Path -> [Domain -> VHost]]
    BY Working DEF StructInv, DiskOK, PanelOK, HandlersOK, FileOK
  <1>2. CASE file' = file
    BY <1>2 DEF FileChange, FileSame
  <1>3. ASSUME NEW d \in Domain, NEW r \in Row, Write(d, r)
        PROVE  FileSame(x) \/ (x = d /\ FileIs(x, Rendering(r)))
    BY <1>1, <1>3, WritesFile DEF FileSame, FileIs
  <1>4. ASSUME NEW d \in Domain, Remove(d)
        PROVE  FileSame(x) \/ (x = d /\ FileIs(x, NoFile))
    BY <1>1, <1>4, RemovesFile DEF FileSame, FileIs
  <1>5. CASE CreatePool(h) \/ CreateVHost(h) \/ CreateRow(h)
    <2>1. hd[h].op = "create"
      BY <1>5 DEF CreatePool, CreateVHost, CreateRow, At
    <2>2. hd[h].d \in Domain /\ hd[h].copy \in Row
      BY <1>1, <2>1, Working, Constants DEF Op, Bulk, Locked, Busy, Handling
    <2>3. \/ file' = file
          \/ Write(hd[h].d, hd[h].copy) /\ hd[h].pc = "render"
          \/ Remove(hd[h].d) /\ Reply(h) /\ row' = row
      BY <1>5 DEF CreatePool, CreateVHost, CreateRow, At, RollBack, db
    <2> QED BY <1>2, <1>3, <1>4, <2>1, <2>2, <2>3 DEF FileChange
  <1>6. CASE DeleteTeardown(h)
    <2>1. hd[h].op = "delete" /\ hd[h].pc = "teardown" /\ Goto(h, "drop")
      BY <1>6 DEF DeleteTeardown, At
    <2>2. file' = [file EXCEPT ![active] = [d \in Domain |-> IF d \in hd[h].mine THEN NoFile ELSE @[d]]]
      BY <1>6 DEF DeleteTeardown
    <2>3. \A p \in Path : file'[p][x] = IF p = active /\ x \in hd[h].mine THEN NoFile ELSE file[p][x]
      BY <1>1, <2>2
    <2> QED BY <2>1, <2>3 DEF FileChange, FileSame, FileIs
  <1>7. CASE DeleteDismiss(h) \/ DeleteRows(h)
    BY <1>2, <1>7 DEF DeleteDismiss, DeleteRows, disk
  <1>8. CASE EditStep(h)
    <2>1. CASE RenderSite(h)
      <3>1. /\ hd[h].op \in Edits /\ hd[h].pc = "render" /\ row' = row
            /\ file' = file \/ Write(hd[h].d, hd[h].copy)
        BY <2>1 DEF RenderSite, Edits, db
      <3>2. hd[h].d \in Domain /\ hd[h].copy \in Row
        BY <1>8, EditKinds
      <3> QED BY <1>2, <1>3, <3>1, <3>2 DEF FileChange
    <2> QED BY <1>2, <1>8, <2>1 DEF EditStep, ServePersist, ServeDropApp, ProxyApp, ProxyPersist, ProxyConfigure,
       PhpPool, PersistCerts, PersistSSL, PersistPhp, PersistLast, disk
  <1>9. CASE Lock(h)
    BY <1>2, <1>9, LockReads DEF disk
  <1>10. CASE ScanStep(h)
    BY <1>2, <1>10, ScanKinds DEF disk
  <1>11. CASE AdoptStep(h)
    <2>1. hd[h].op = "adopt" /\ hd[h].d \in Domain
      BY <1>11, AdoptKinds
    <2>2. AdoptMark(h) => file' = file
      BY DEF AdoptMark, disk
    <2>3. ASSUME NEW P, file' = Erase(file, P, hd[h].d)
          PROVE  x = hd[h].d \/ FileSame(x)
      BY <1>1, <2>3 DEF Erase, FileSame
    <2>4. CASE AdoptDisable(h)
      <3>1. hd[h].pc = "disable" /\ (file' = file \/ \E P : file' = Erase(file, P, hd[h].d))
        BY <2>4 DEF AdoptDisable, At
      <3> QED BY <1>2, <2>1, <2>3, <3>1 DEF FileChange
    <2>5. CASE Restore(h) /\ hd[h].pc \in {"pool", "render"}
      <3>1. file' = Move(backup, Erase(file, {active}, hd[h].d), hd[h].orig, hd[h].d)
        BY <2>5 DEF Restore
      <3>2. x = hd[h].d \/ FileSame(x)
        BY <1>1, <3>1 DEF Move, Erase, FileSame
      <3> QED BY <2>1, <2>5, <3>2 DEF FileChange
    <2>6. CASE AdoptPool(h) \/ AdoptVHost(h)
      <3>1. /\ hd[h].pc \in {"pool", "render"}
            /\ file' = file \/ Restore(h) \/ Write(hd[h].d, hd[h].copy)
        BY <2>6 DEF AdoptPool, AdoptVHost, At
      <3>2. hd[h].copy \in Row
        BY <1>11, AdoptKinds
      <3> QED BY <1>2, <1>3, <2>1, <2>5, <3>1, <3>2 DEF FileChange
    <2> QED BY <1>2, <1>11, <2>2, <2>4, <2>6 DEF AdoptStep
  <1>12. CASE BulkStep(h)
    <2>1. hd[h].mine \in SUBSET Domain /\ hd[h].snap \in [Domain -> Row]
      BY <1>12, BulkKinds
    <2>2. CASE SwitchSites(h)
      <3>1. hd[h].op = "switch" /\ hd[h].pc = "sites" /\ \E S \in SUBSET hd[h].mine : file' = Written(S, hd[h].snap)
        BY <2>2 DEF SwitchSites, At
      <3>2. PICK S \in SUBSET hd[h].mine : file' = Written(S, hd[h].snap)
        BY <3>1
      <3>3. FileSame(x) \/ (x \in S /\ FileIs(x, Rendering(hd[h].snap[x])))
        BY <2>1, <3>2, WritesSome
      <3> QED BY <3>1, <3>2, <3>3 DEF FileChange
    <2>3. CASE SwitchRerender(h)
      <3>1. hd[h].op = "switch" /\ hd[h].pc = "rerender" /\ active' = active
        BY <2>3 DEF SwitchRerender, At, KeepRest, conf
      <3>2. PICK S \in SUBSET Managed(hd[h].snap) : file' = Written(S, hd[h].snap)
        BY <2>3 DEF SwitchRerender
      <3>3. FileSame(x) \/ (x \in S /\ FileIs(x, Rendering(hd[h].snap[x])))
        BY <2>1, <3>2, WritesSome DEF Managed
      <3> QED BY <3>1, <3>2, <3>3 DEF FileChange
    <2>4. CASE SwitchClean(h)
      <3>1. hd[h].op = "switch" /\ hd[h].pc = "clean" /\ Unlock(h) /\ active' = active
        BY <2>4 DEF SwitchClean, At, conf
      <3>2. file' = [file EXCEPT ![hd[h].server] = [d \in Domain |-> IF d \in hd[h].mine THEN NoFile ELSE @[d]]]
        BY <2>4 DEF SwitchClean
      <3>3. \A p \in Path : file'[p][x] = IF p = hd[h].server /\ x \in hd[h].mine THEN NoFile ELSE file[p][x]
        BY <1>1, <3>2
      <3> QED BY <3>1, <3>3 DEF FileChange, FileSame
    <2>5. CASE Regenerate(h)
      <3>1. hd[h].op = "regen" /\ hd[h].pc = "sites"
        BY <2>5 DEF Regenerate, At
      <3>2. PICK S \in SUBSET hd[h].mine : file' = Written(S, hd[h].snap)
        <4>1. PICK done \in SUBSET hd[h].mine :
                file' = Written({d \in done : Renderable(d, hd[h].snap[d])}, hd[h].snap)
          BY <2>5 DEF Regenerate
        <4>2. {d \in done : Renderable(d, hd[h].snap[d])} \in SUBSET hd[h].mine
          OBVIOUS
        <4> QED BY <4>1, <4>2
      <3>3. FileSame(x) \/ (x \in S /\ FileIs(x, Rendering(hd[h].snap[x])))
        BY <2>1, <3>2, WritesSome
      <3> QED BY <3>1, <3>2, <3>3 DEF FileChange
    <2>6. CASE SwitchValidate(h) \/ SwitchSwap(h) \/ SwitchSave(h) \/ SwitchRepool(h) \/ SwitchReconcile(h)
               \/ RegenApply(h) \/ Upgrade(h)
      BY <1>2, <2>6 DEF SwitchValidate, SwitchSwap, SwitchSave, SwitchRepool, SwitchReconcile, RegenApply, Upgrade, disk
    <2> QED BY <1>12, <2>2, <2>3, <2>4, <2>5, <2>6 DEF BulkStep
  <1> QED BY <1>5, <1>6, <1>7, <1>8, <1>9, <1>10, <1>11, <1>12, StepKinds

\* The row of a site whose virtual hosts a step changes.
LEMMA FileOwner ==
  ASSUME Base, NEW h \in Handler, Step(h), NEW x \in Domain, Clear(x), ~FileSame(x)
  PROVE  /\ x \in Touched(h)
         /\ \/ hd[h].op = "create" /\ row[x].source = "none"
            \/ hd[h].op \in Edits /\ row[x].source = "managed"
            \/ hd[h].op = "delete" /\ row[x].source # "imported"
            \/ hd[h].op \in {"switch", "regen"} /\ hd[h].pc # "lock" /\ row[x].source = "managed"
            \/ hd[h].op = "adopt" /\ hd[h].pc # "lock" /\ row[x].source = "imported"
  <1>1. FileChange(h, x) /\ Busy(h) /\ HandlersOK /\ StructInv
    BY FileChanges, StepStays DEF Base, StructInv
  <1>2. Current(hd[h])
    BY DEF Base, CurrentInv
  <1>3. /\ hd[h].op \notin Bulk => hd[h].d \in Touched(h)
        /\ hd[h].op \in Bulk => Touched(h) = Domain
        /\ hd[h].op = "delete" => hd[h].mine \subseteq Touched(h)
    BY <1>1, Reaches
  <1>4. CASE hd[h].op \in {"create", "adopt"} \cup Edits /\ x = hd[h].d
    BY <1>1, <1>2, <1>3, <1>4 DEF FileChange, Current, CreateCurrent, EditCurrent, AdoptCurrent, Bulk, Edits
  <1>5. CASE hd[h].op = "delete" /\ x \in hd[h].mine
    BY <1>2, <1>3, <1>5 DEF Current, DeleteCurrent
  <1>6. CASE hd[h].op = "switch" /\ hd[h].pc # "lock" /\ (x \in hd[h].mine \/ x \in Managed(hd[h].snap))
    BY <1>2, <1>3, <1>6 DEF Current, SwitchCurrent, Bulk, Managed
  <1>7. CASE hd[h].op = "regen" /\ hd[h].pc # "lock" /\ x \in hd[h].mine
    <2>1. row[x].source = "managed"
      BY <1>2, <1>7 DEF Current, RegenCurrent, Managed
    <2> QED BY <1>3, <1>7, <2>1 DEF Bulk
  <1> QED BY <1>1, <1>4, <1>5, <1>6, <1>7 DEF FileChange

LEMMA BesidesFile ==
  ASSUME Base, NEW h \in Handler, Step(h), NEW g \in Handler \ {h}, NEW x \in Domain, Clear(x), ~FileSame(x),
         x \in Touched(g)
  PROVE  /\ hd[h].op = "create" => hd[g].op \in {"regen", "upgrade"}
         /\ hd[h].op \in Edits => hd[g].op \in {"upgrade", "adopt", "scan"} \/ (hd[h].op = "proxy" /\ hd[g].op = "proxy")
         /\ hd[h].op = "delete" => hd[g].op = "delete"
         /\ hd[h].op = "switch" => hd[g].op \notin Single
         /\ hd[h].op = "regen" => hd[g].op \notin Single \ {"create"}
         /\ hd[h].op = "adopt" => hd[g].op \notin {"create", "delete", "scan"}
         /\ hd[h].op \in Guarded /\ hd[g].op \in Guarded => hd[g].pc = "lock"
  <1>1. StructInv /\ OverlapOK /\ x \in Touched(h) /\ (hd[h].op \in Guarded => hd[h].pc # "lock")
    BY FileOwner DEF Base, Guarded, Edits
  <1> DEFINE p == hd[h].op
             q == hd[g].op
  <1>2. p \in Op /\ q \in Op /\ ~Clash(p, q) /\ ~Clash(q, p)
    BY <1>1, Alongside
  <1>3. p \in Guarded /\ q \in Guarded => hd[g].pc = "lock"
    BY <1>1 DEF StructInv, LockOK
  <1> HIDE DEF p, q
  <1>4. /\ p = "switch" => q \notin Single
        /\ p = "regen" => q \notin Single \ {"create"}
    BY <1>2 DEF Clash
  <1>5. /\ p = "create" => q \in {"regen", "upgrade"}
        /\ p \in Edits => q \in {"upgrade", "adopt", "scan"} \/ (p = "proxy" /\ q = "proxy")
        /\ p = "delete" => q = "delete"
        /\ p = "adopt" => q \notin {"create", "delete", "scan"}
    BY <1>2, Clashes
  <1> QED BY <1>3, <1>4, <1>5 DEF p, q

-----------------------------------------------------------------------------
(* An imported site's own virtual host *)

Standing(d) == file[ForeignPath[d]][d] = Original
\* No adoption of the site has gone past its first step.
Unadopted(d) == \A h \in Handler : hd[h].op = "adopt" /\ hd[h].d = d => hd[h].pc \in {"lock", "disable"}
AdoptHeld(g) ==
  g.op = "adopt" /\ g.pc \in {"pool", "render"} /\ Sure(g.d, "vhost") =>
    IF ForeignPath[g.d] \in g.orig THEN backup[ForeignPath[g.d]][g.d] = Original
    ELSE ForeignPath[g.d] # active /\ Standing(g.d)
ScanHeld(g) ==
  g.op = "scan" /\ g.pc \in {"dismissals", "lookup", "record", "nest"} =>
    \A d \in g.mine : Sure(d, "vhost") /\ row[d].source = "none" => Standing(d)
ImportsStand ==
  \A d \in Foreign : row[d].source = "imported" /\ Sure(d, "vhost") /\ Unadopted(d) => Standing(d)
ImportInv ==
  /\ ImportsStand
  /\ \A h \in Handler : AdoptHeld(hd[h]) /\ ScanHeld(hd[h])

LEMMA StrayDoubts ==
  ASSUME StructInv, NEW h \in Handler, Step(h), NEW d
  PROVE  /\ Sure(d, "stray")' => Sure(d, "stray")
         /\ Sure(d, "stray") => Clear(d)
  <1>1. \A v : v \in doubt /\ v[2] = "stray" => v \in doubt'
    BY StepDoubts DEF RegenApply
  <1> QED BY <1>1 DEF Sure, Clear, Aspect

\* Only a regeneration takes doubts away, and only of managed sites.
LEMMA SureBefore ==
  ASSUME Base, NEW h \in Handler, Step(h), NEW x \in Domain, row[x].source # "managed", NEW a \in Aspect, Sure(x, a)'
  PROVE  Sure(x, a) /\ Clear(x)
  <1>1. CASE doubt \subseteq doubt'
    BY <1>1 DEF Sure, Clear
  <1>2. CASE RegenApply(h) /\ hd[h].quiet
    <2>1. hd[h].op = "regen" /\ hd[h].pc # "lock" /\ doubt' = doubt \ (hd[h].mine \X {"vhost", "pool"})
      BY <1>2 DEF RegenApply, At
    <2>2. hd[h].snap = row /\ hd[h].mine = Managed(row)
      BY <1>2, <2>1 DEF Base, CurrentInv, Current, RegenCurrent
    <2>3. x \notin hd[h].mine
      BY <2>2 DEF Managed
    <2>4. <<x, a>> \notin hd[h].mine \X {"vhost", "pool"}
      BY <2>3
    <2>5. <<x, a>> \notin doubt
      BY <2>1, <2>4 DEF Sure
    <2> QED BY <2>5 DEF Sure, Clear
  <1> QED BY <1>1, <1>2, StepDoubts DEF Base

\* An adoption's steps, on the site it adopts.
LEMMA AdoptsFiles ==
  ASSUME StructInv, NEW h \in Handler, AdoptStep(h)
  PROVE  LET d == hd[h].d  fp == ForeignPath[d] IN
         \/ /\ hd[h].pc = "disable" /\ Unlock(h) /\ UNCHANGED <<file, backup, doubt, row>>
         \/ /\ hd[h].pc = "disable" /\ hd'[h].pc = "pool" /\ UNCHANGED <<doubt, row>>
            /\ \E P \in SUBSET Path :
                 /\ P = IF FilesOf(d) # {} THEN FilesOf(d) ELSE {p \in {hd[h].copy.conf} : file[p][d] # NoFile}
                 /\ hd'[h].orig = P
                 /\ backup' = Move(file, backup, P, d) /\ file' = Erase(file, P, d)
         \/ /\ hd[h].pc \in {"pool", "render"} /\ Restore(h) /\ UNCHANGED <<doubt, row>>
         \/ /\ hd[h].pc = "pool" /\ hd'[h].pc = "render" /\ hd'[h].orig = hd[h].orig
            /\ UNCHANGED <<file, backup, doubt, row>>
         \/ /\ hd[h].pc = "render" /\ hd'[h].pc = "mark" /\ Write(d, hd[h].copy) /\ UNCHANGED <<backup, doubt, row>>
         \/ /\ hd[h].pc = "mark" /\ Unlock(h) /\ UNCHANGED <<file, backup>>
            /\ \/ Update(d, hd[h].copy.id, [row[d] EXCEPT !.source = "managed", !.php = hd[h].copy.php, !.conf = None])
                  /\ UNCHANGED doubt
               \/ row' = row /\ \A a \in Aspect : <<d, a>> \in doubt'
  <1> DEFINE d == hd[h].d
  <1>1. /\ hd[h] \in Handling /\ HandlersOK /\ hd \in [Handler -> Handling] /\ Holding(hd[h]) /\ d \in Foreign
        /\ hd[h].op = "adopt" /\ active \in Server
    BY AdoptKinds DEF HandlersOK
  <1>2. CASE AdoptDisable(h)
    <2> DEFINE P == IF FilesOf(d) # {} THEN FilesOf(d) ELSE {p \in {hd[h].copy.conf} : file[p][d] # NoFile}
    <2>1. P \in SUBSET Path
      <3>1. hd[h].copy.conf \in Path
        BY <1>1, Constants DEF Holding
      <3>2. FilesOf(d) \subseteq Path
        BY <1>1, Constants DEF FilesOf, InDir
      <3> QED BY <3>1, <3>2
    <2>2. hd[h].pc = "disable" /\ UNCHANGED <<doubt, row>>
      BY <1>2 DEF AdoptDisable, At, db
    <2>3. CASE backup' = Move(file, backup, P, d) /\ file' = Erase(file, P, d)
               /\ hd' = [hd EXCEPT ![h].pc = "pool", ![h].orig = P]
      <3>1. hd'[h].pc = "pool" /\ hd'[h].orig = P
        <4> HIDE DEF P
        <4> QED BY <1>1, <2>1, <2>3 DEF Handling
      <3> QED BY <2>1, <2>2, <2>3, <3>1
    <2>4. CASE Unlock(h) /\ UNCHANGED <<file, backup>>
      BY <2>2, <2>4
    <2> QED BY <1>2, <2>3, <2>4 DEF AdoptDisable
  <1>3. CASE AdoptPool(h)
    <2>1. hd[h].pc = "pool" /\ UNCHANGED <<doubt, row>>
      BY <1>3 DEF AdoptPool, At, db
    <2>2. CASE Goto(h, "render") /\ UNCHANGED <<file, backup>>
      <3>1. "render" \in Pc \ {"idle"}
        BY DEF Pc
      <3> QED BY <1>1, <2>1, <2>2, <3>1, GoesOn
    <2> QED BY <1>3, <2>1, <2>2 DEF AdoptPool
  <1>4. CASE AdoptVHost(h)
    <2>1. hd[h].pc = "render" /\ UNCHANGED <<doubt, row>>
      BY <1>4 DEF AdoptVHost, At, db
    <2>2. CASE Goto(h, "mark") /\ Write(d, hd[h].copy) /\ UNCHANGED backup
      <3>1. "mark" \in Pc \ {"idle"}
        BY DEF Pc
      <3> QED BY <1>1, <2>1, <2>2, <3>1, GoesOn
    <2> QED BY <1>4, <2>1, <2>2 DEF AdoptVHost
  <1>5. CASE AdoptMark(h)
    <2>1. hd[h].pc = "mark" /\ UNCHANGED <<file, backup>> /\ Unlock(h)
      BY <1>5 DEF AdoptMark, At, disk
    <2>2. Doubting(d, Aspect) => \A a \in Aspect : <<d, a>> \in doubt'
      BY DEF Doubting
    <2> QED BY <1>5, <2>1, <2>2 DEF AdoptMark
  <1> QED BY <1>2, <1>3, <1>4, <1>5 DEF AdoptStep

\* What one step leaves of the active server.
LEMMA ActiveChanges ==
  ASSUME StructInv, NEW h \in Handler, Step(h)
  PROVE  active' = active \/ (hd[h].op = "switch" /\ \A g \in Handler \ {h} : hd[g].op \in Guarded => hd[g].pc = "lock")
  <1>1. CASE Lock(h)
    <2>1. lock = None => \A g \in Handler : hd[g].op \in Guarded => hd[g].pc = "lock"
      BY Constants DEF StructInv, LockOK
    <2> QED BY <1>1, <2>1, LockReads DEF Enters
  <1>2. CASE BulkStep(h)
    <2>1. hd[h].op # "switch" => active' = active
      BY <1>2, BulkKinds DEF BulkStep, SwitchSites, SwitchValidate, SwitchSwap, SwitchSave, SwitchRepool,
         SwitchReconcile, SwitchRerender, SwitchClean, Regenerate, RegenApply, Upgrade, At, conf
    <2> QED BY <1>2, <2>1, BulkKinds
  <1>3. CASE ~Lock(h) /\ ~BulkStep(h)
    <2>1. EditStep(h) \/ AdoptStep(h) => active' = active
      BY EditKinds, AdoptKinds
    <2>2. active' = active
      BY <1>3, <2>1, StepKinds, ScanKinds
         DEF CreatePool, CreateVHost, CreateRow, DeleteTeardown, DeleteDismiss, DeleteRows, KeepRest, conf
    <2> QED BY <2>2
  <1> QED BY <1>1, <1>2, <1>3

LEMMA BackupChanges ==
  ASSUME StructInv, NEW h \in Handler, Step(h), NEW x \in Domain
  PROVE  \/ \A p \in Path : backup'[p][x] = backup[p][x]
         \/ hd[h].op = "adopt" /\ hd[h].pc # "lock" /\ x = hd[h].d
  <1>1. CASE AdoptStep(h)
    <2>1. hd[h].op = "adopt" /\ hd[h].pc # "lock" /\ FileOK(file) /\ FileOK(backup)
      BY <1>1, AdoptKinds
    <2>2. CASE x # hd[h].d
      <3>1. \/ backup' = backup \/ \E P \in SUBSET Path : backup' = Move(file, backup, P, hd[h].d)
            \/ backup' = Erase(backup, hd[h].orig, hd[h].d)
        BY <1>1, AdoptsFiles DEF Restore
      <3> QED BY <2>1, <2>2, <3>1 DEF Move, Erase, FileOK
    <2> QED BY <2>1, <2>2
  <1>2. CASE ~AdoptStep(h)
    <2>1. EditStep(h) \/ BulkStep(h) \/ Lock(h) => backup' = backup
      BY EditKinds, BulkKinds, LockReads DEF disk
    <2>2. backup' = backup
      BY <1>2, <2>1, StepKinds, ScanKinds
         DEF CreatePool, CreateVHost, CreateRow, DeleteTeardown, DeleteDismiss, DeleteRows, disk
    <2> QED BY <2>2
  <1> QED BY <1>1, <1>2

\* An adopting request has the row of an imported site, as long as that is clear.
LEMMA Adopting ==
  ASSUME Base, NEW g \in Handler, hd[g].op = "adopt", hd[g].pc # "lock"
  PROVE  /\ hd[g].d \in Foreign /\ hd[g].d \in Domain /\ hd[g].d \in Touched(g) /\ Busy(g)
         /\ hd[g].copy.conf = ForeignPath[hd[g].d]
         /\ Clear(hd[g].d) => row[hd[g].d].source = "imported" /\ row[hd[g].d].id = hd[g].copy.id
  <1>1. /\ HandlersOK /\ Current(hd[g]) /\ StructInv /\ row \in [Domain -> Row] /\ hd[g].op \in Op /\ hd[g].op \notin Bulk
    BY DEF Base, StructInv, CurrentInv, RowsOK, Op, Locked, Bulk
  <1>2. Busy(g) /\ Holding(hd[g])
    BY <1>1, Working
  <1>3. hd[g].d \in Foreign /\ hd[g].d \in Domain
    BY <1>2, Constants DEF Holding
  <1>4. Clear(hd[g].d) => /\ row[hd[g].d].source = "imported"
                          /\ hd[g].copy = [row[hd[g].d] EXCEPT !.source = "managed", !.php = hd[g].copy.php]
    BY <1>1 DEF Current, AdoptCurrent
  <1>5. Clear(hd[g].d) => row[hd[g].d].id = hd[g].copy.id
    BY <1>1, <1>3, <1>4 DEF Row
  <1> QED BY <1>1, <1>2, <1>3, <1>4, <1>5, Reaches DEF Holding

LEMMA OtherAdoption ==
  ASSUME Base, ImportInv, NEW h \in Handler, Step(h), NEW g \in Handler \ {h}
  PROVE  AdoptHeld(hd[g])'
  <1> DEFINE x == hd[g].d
             fp == ForeignPath[x]
  <1>1. hd'[g] = hd[g] /\ StructInv /\ OverlapOK
    BY StepStays DEF Moves, Base, StructInv, HandlersOK
  <1> SUFFICES ASSUME hd[g].op = "adopt", hd[g].pc \in {"pool", "render"}, <<x, "vhost">> \notin doubt'
               PROVE  IF fp \in hd[g].orig THEN backup'[fp][x] = Original
                      ELSE fp # active' /\ file'[fp][x] = Original
    BY <1>1 DEF AdoptHeld, Standing, Sure
  <1>2. x \in Domain /\ x \in Foreign /\ x \in Touched(g) /\ (Clear(x) => row[x].source = "imported")
    BY Adopting
  <1>3. Sure(x, "vhost") /\ Clear(x)
    <2>1. CASE row[x].source # "managed"
      BY <1>2, <2>1, SureBefore DEF Sure, Aspect
    <2>2. CASE row[x].source = "managed"
      <3>1. CASE doubt \subseteq doubt'
        BY <3>1 DEF Sure, Clear, Aspect
      <3>2. CASE RegenApply(h) /\ hd[h].quiet
        <4>1. hd'[g] = NoHandling
          BY <1>1, <3>2, QuietEnds DEF Base
        <4> QED BY <1>1, <4>1, Values, Constants DEF Op, Locked
      <3> QED BY <1>1, <3>1, <3>2, StepDoubts
    <2> QED BY <2>1, <2>2
  <1>4. row[x].source = "imported" /\ AdoptHeld(hd[g])
    BY <1>2, <1>3 DEF ImportInv
  <1>5. FileSame(x)
    <2> SUFFICES ASSUME ~FileSame(x) PROVE FALSE
      OBVIOUS
    <2>1. hd[h].op = "adopt"
      BY <1>2, <1>3, <1>4, FileOwner, BesidesFile DEF Guarded
    <2> QED BY <1>2, <1>3, <2>1, BesidesFile DEF Guarded
  <1>6. active' = active
    BY <1>1, ActiveChanges DEF Guarded
  <1>7. ~(hd[h].op = "adopt" /\ hd[h].pc # "lock")
    BY <1>1 DEF StructInv, LockOK, Guarded
  <1>8. backup'[fp][x] = backup[fp][x]
    <2>1. fp \in Path
      BY <1>2, Constants
    <2> QED BY <1>1, <1>2, <1>7, <2>1, BackupChanges
  <1>9. file'[fp][x] = file[fp][x]
    BY <1>2, <1>5, Constants DEF FileSame
  <1> HIDE DEF x
  <1> QED BY <1>3, <1>4, <1>6, <1>8, <1>9 DEF AdoptHeld, Standing, x

LEMMA OwnAdoption ==
  ASSUME Base, ImportInv, NEW h \in Handler, Step(h)
  PROVE  AdoptHeld(hd[h])'
  <1> DEFINE x == hd[h].d
             fp == ForeignPath[x]
  <1>1. StructInv /\ HandlersOK
    BY DEF Base, StructInv
  <1>2. CASE ~(hd'[h].op = "adopt" /\ hd'[h].pc \in {"pool", "render"})
    BY <1>2 DEF AdoptHeld
  <1>3. CASE hd'[h].op = "adopt" /\ hd'[h].pc \in {"pool", "render"}
    <2>1. hd[h].op = "adopt" /\ hd'[h].d = x /\ hd'[h] # NoHandling
      BY <1>1, <1>3, StepStays, Values, Constants DEF Op, Locked
    <2>2. AdoptStep(h)
      <3>1. ~Lock(h)
        BY <1>1, <1>3, <2>1, LockReads, Replies DEF Enters
      <3>2. ~EditStep(h) /\ ~BulkStep(h)
        BY <1>1, <2>1, EditKinds, BulkKinds DEF Edits
      <3>3. ~CreatePool(h) /\ ~CreateVHost(h) /\ ~CreateRow(h) /\ ~DeleteTeardown(h) /\ ~DeleteDismiss(h)
            /\ ~DeleteRows(h) /\ ~ScanStep(h)
        BY <2>1, ScanKinds DEF CreatePool, CreateVHost, CreateRow, DeleteTeardown, DeleteDismiss, DeleteRows, At
      <3> QED BY <3>1, <3>2, <3>3, StepKinds
    <2>3. /\ hd[h].pc # "lock" /\ x \in Foreign /\ x \in Domain /\ fp \in Path /\ fp = hd[h].copy.conf
          /\ (Clear(x) => row[x].source = "imported") /\ active' = active /\ FileOK(file) /\ FileOK(backup)
      BY <1>1, <2>1, <2>2, AdoptKinds, Adopting, Constants
    <2>4. ~Unlock(h) /\ ~Restore(h)
      BY <1>1, <2>1, Replies DEF Unlock, Restore
    <2> SUFFICES ASSUME <<x, "vhost">> \notin doubt'
                 PROVE  IF fp \in hd'[h].orig THEN backup'[fp][x] = Original
                        ELSE fp # active' /\ file'[fp][x] = Original
      BY <1>3, <2>1 DEF AdoptHeld, Standing, Sure
    <2>5. CASE hd[h].pc = "disable"
      <3>1. PICK P \in SUBSET Path :
              /\ doubt' = doubt
              /\ P = IF FilesOf(x) # {} THEN FilesOf(x) ELSE {p \in {hd[h].copy.conf} : file[p][x] # NoFile}
              /\ hd'[h].orig = P
              /\ backup' = Move(file, backup, P, x) /\ file' = Erase(file, P, x)
        BY <1>1, <2>2, <2>4, <2>5, AdoptsFiles
      <3>2. Sure(x, "vhost") /\ Clear(x) /\ row[x].source = "imported"
        BY <2>3, <3>1 DEF Sure, Clear, Aspect
      <3>3. Unadopted(x)
        <4>1. \A k \in Handler \ {h} : hd[k].op = "adopt" => hd[k].pc = "lock"
          BY <1>1, <2>2, AdoptKinds DEF Guarded
        <4> QED BY <2>5, <4>1 DEF Unadopted
      <3>4. file[fp][x] = Original /\ Original # NoFile
        BY <2>3, <3>2, <3>3, Values DEF ImportInv, ImportsStand, Standing
      <3>5. CASE fp \in P
        <4>1. backup'[fp][x] = Original
          <5>1. Move(file, backup, P, x)[fp][x] = file[fp][x]
            BY <2>3, <3>5 DEF Move, FileOK
          <5> QED BY <3>1, <3>4, <5>1
        <4> QED BY <3>1, <3>5, <4>1
      <3>6. CASE fp \notin P
        <4>1. fp \notin FilesOf(x)
          BY <2>3, <3>1, <3>4, <3>6
        <4>2. fp # active
          BY <3>4, <4>1 DEF FilesOf, InDir
        <4>3. file'[fp][x] = Original
          BY SMTT(30), <2>3, <3>1, <3>4, <3>6, ErasesFiles
        <4> QED BY <2>3, <3>1, <3>6, <4>2, <4>3
      <3> QED BY <3>5, <3>6
    <2>6. CASE hd[h].pc = "pool"
      <3>1. UNCHANGED <<file, backup, doubt>> /\ hd'[h].orig = hd[h].orig
        BY <1>1, <2>2, <2>4, <2>6, AdoptsFiles
      <3>2. AdoptHeld(hd[h]) /\ Sure(x, "vhost")
        BY <3>1 DEF ImportInv, Sure
      <3> QED BY <2>1, <2>3, <2>6, <3>1, <3>2 DEF AdoptHeld, Standing
    <2>7. hd[h].pc \in {"disable", "pool"}
      BY <1>1, <1>3, <2>2, <2>4, AdoptMoves
    <2> HIDE DEF x, fp
    <2> QED BY <2>5, <2>6, <2>7
  <1> QED BY <1>2, <1>3

\* A step that leaves the virtual hosts of an imported site alone, or restores them.
LEMMA ImportsStep ==
  ASSUME Base, ImportInv, NEW h \in Handler, Step(h)
  PROVE  ImportsStand'
  <1>1. StructInv /\ HandlersOK /\ RowsOK /\ row \in [Domain -> Row] /\ OverlapOK
    BY DEF Base, StructInv, RowsOK
  <1> SUFFICES ASSUME NEW x \in Foreign, row'[x].source = "imported", Sure(x, "vhost")', Unadopted(x)'
               PROVE  file'[ForeignPath[x]][x] = Original
    BY DEF ImportsStand, Standing
  <1> DEFINE fp == ForeignPath[x]
  <1>2. x \in Domain /\ fp \in Path
    BY Constants
  <1>3. RowChange(h, x) /\ row[x] \in Row
    BY <1>1, <1>2, RowChanges
  <1>4. row[x].source # "managed"
    <2>1. SUFFICES ASSUME row[x].source = "managed" PROVE FALSE
      OBVIOUS
    <2>2. row'[x] = Persisted(h) /\ x = hd[h].d /\ hd[h].op \in Edits => row'[x].source = row[x].source
      BY <1>2, <1>3 DEF Persisted, Row, Edits
    <2>3. row'[x] = [row[x] EXCEPT !.source = "managed", !.php = hd[h].copy.php, !.conf = None]
            => row'[x].source = "managed"
      BY <1>3 DEF Row
    <2> QED BY <1>3, <2>1, <2>2, <2>3, Values DEF RowChange
  <1>5. Sure(x, "vhost") /\ Clear(x)
    BY <1>2, <1>4, SureBefore DEF Aspect
  <1>6. CASE AdoptStep(h) /\ x = hd[h].d
    <2>1. /\ hd[h].op = "adopt" /\ hd[h].pc # "lock" /\ FileOK(file) /\ active \in Server
          /\ \A k \in Handler \ {h} : hd[k].op = "adopt" => hd[k].pc = "lock"
      BY <1>1, <1>6, AdoptKinds DEF Guarded
    <2>2. row[x].source = "imported" /\ row[x].id = hd[h].copy.id
      BY <1>5, <1>6, <2>1, Adopting
    <2>3. CASE hd'[h].pc \in {"pool", "render", "mark"}
      <3>1. hd'[h].op = "adopt" /\ hd'[h].d = x
        BY <1>1, <1>6, <2>1, <2>3, StepStays, Values DEF Base
      <3> QED BY <2>3, <3>1 DEF Unadopted
    <2>4. CASE Restore(h) /\ hd[h].pc \in {"pool", "render"}
      <3>1. AdoptHeld(hd[h])
        BY DEF ImportInv
      <3>2. IF fp \in hd[h].orig THEN backup[fp][x] = Original ELSE fp # active /\ file[fp][x] = Original
        BY <1>5, <1>6, <2>1, <2>4, <3>1 DEF AdoptHeld, Standing
      <3> DEFINE e == Erase(file, {active}, x)
      <3>3. FileOK(e) /\ e[fp][x] = IF fp = active THEN NoFile ELSE file[fp][x]
        <4>1. {active} \in SUBSET Path
          BY <2>1, Constants
        <4> QED BY <1>2, <2>1, <4>1, ErasesFiles
      <3>4. file' = Move(backup, e, hd[h].orig, x)
        BY <1>6, <2>4 DEF Restore
      <3> HIDE DEF e
      <3>5. Move(backup, e, hd[h].orig, x)[fp][x] = IF fp \in hd[h].orig THEN backup[fp][x] ELSE e[fp][x]
        BY <1>2, <3>3 DEF Move, FileOK
      <3> QED BY <3>2, <3>3, <3>4, <3>5
    <2>5. CASE hd[h].pc = "disable" /\ UNCHANGED file
      <3>1. Unadopted(x)
        BY <2>1, <2>5 DEF Unadopted
      <3> QED BY <1>5, <2>2, <2>5, <3>1 DEF ImportInv, ImportsStand, Standing
    <2>6. CASE Update(x, hd[h].copy.id, [row[x] EXCEPT !.source = "managed", !.php = hd[h].copy.php, !.conf = None])
      <3>1. row'[x] = [row[x] EXCEPT !.source = "managed", !.php = hd[h].copy.php, !.conf = None]
        BY <1>1, <1>2, <2>2, <2>6 DEF Update
      <3> QED BY <1>3, <3>1 DEF Row
    <2>7. CASE \A a \in Aspect : <<x, a>> \in doubt'
      BY <2>7 DEF Sure, Aspect
    <2> QED BY <1>1, <1>6, <2>3, <2>4, <2>5, <2>6, <2>7, AdoptsFiles
  <1>7. CASE ~(AdoptStep(h) /\ x = hd[h].d) /\ row[x].source = "imported"
    <2>1. hd[h].op = "adopt" /\ hd[h].d = x => hd[h].pc = "lock"
      <3> SUFFICES ASSUME hd[h].op = "adopt", ~AdoptStep(h)
                   PROVE  hd[h].pc = "lock"
        BY <1>7
      <3>1. ~EditStep(h) /\ ~BulkStep(h)
        BY <1>1, EditKinds, BulkKinds DEF Edits
      <3>2. ~CreatePool(h) /\ ~CreateVHost(h) /\ ~CreateRow(h) /\ ~DeleteTeardown(h) /\ ~DeleteDismiss(h)
            /\ ~DeleteRows(h) /\ ~ScanStep(h)
        BY ScanKinds DEF CreatePool, CreateVHost, CreateRow, DeleteTeardown, DeleteDismiss, DeleteRows, At
      <3> QED BY <1>1, <3>1, <3>2, StepKinds, LockReads
    <2>2. Unadopted(x)
      <3>1. \A k \in Handler \ {h} : hd'[k] = hd[k]
        BY <1>1, StepStays DEF Moves, HandlersOK
      <3> QED BY <2>1, <3>1 DEF Unadopted
    <2>3. file[fp][x] = Original
      BY <1>5, <1>7, <2>2 DEF ImportInv, ImportsStand, Standing
    <2>4. FileSame(x)
      <3> SUFFICES ASSUME ~FileSame(x) PROVE FALSE
        OBVIOUS
      <3>1. hd[h].op = "adopt" /\ hd[h].pc # "lock"
        BY <1>2, <1>5, <1>7, FileOwner
      <3>2. FileChange(h, x)
        BY <1>1, <1>2, FileChanges
      <3> QED BY <2>1, <3>1, <3>2 DEF FileChange, Edits
    <2> QED BY <1>2, <2>3, <2>4 DEF FileSame
  <1>8. CASE row[x].source = "none"
    <2>1. row'[x] # row[x]
      BY <1>8
    <2>2. hd[h].op = "scan"
      <3>1. hd[h].copy \in Row /\ (hd[h].op = "create" => hd[h].copy.source = "managed")
        BY <1>1, Working DEF Holding, Handling
      <3>2. CASE row'[x] = [hd[h].copy EXCEPT !.id = ids + 1] /\ hd[h].op = "create"
        BY <3>1, <3>2 DEF Row
      <3>3. CASE row'[x] = Persisted(h) /\ hd[h].op \in Edits /\ x = hd[h].d
        BY <1>3, <1>8, <3>3 DEF Persisted, Row, Edits
      <3>4. CASE row'[x] = [row[x] EXCEPT !.source = "managed", !.php = hd[h].copy.php, !.conf = None]
        BY <1>3, <3>4 DEF Row
      <3> QED BY <1>3, <1>8, <2>1, <3>2, <3>3, <3>4, Values DEF RowChange
    <2>3. ScanRecord(h)
      <3>1. ScanStep(h)
        <4>1. ~EditStep(h) /\ ~BulkStep(h) /\ ~AdoptStep(h) /\ ~Lock(h)
          BY <1>1, <2>2, EditKinds, BulkKinds, AdoptKinds, LockReads DEF Edits, Guarded
        <4>2. ~CreatePool(h) /\ ~CreateVHost(h) /\ ~CreateRow(h) /\ ~DeleteTeardown(h) /\ ~DeleteDismiss(h)
              /\ ~DeleteRows(h)
          BY <2>2 DEF CreatePool, CreateVHost, CreateRow, DeleteTeardown, DeleteDismiss, DeleteRows, At
        <4> QED BY <4>1, <4>2, StepKinds
      <3>2. ~ScanReads(h)
        BY <1>1, <2>1, ScanReading DEF Base
      <3>3. ~ScanPrune(h)
        BY <1>2, <1>8, Values DEF ScanPrune, Pruned, Deleted
      <3> QED BY <3>1, <3>2, <3>3 DEF ScanStep
    <2>4. PICK done \in SUBSET (hd[h].mine \cap Foreign), nested \in SUBSET Domain :
            row' = Recorded(done, nested) /\ (done # {} => hd[h].pc # "group")
      BY <1>1, <2>3, ScanRecords
    <2>5. file' = file
      BY <2>3, ScanKinds DEF ScanStep, disk
    <2>6. done \in SUBSET Foreign
      OBVIOUS
    <2>7. x \in done
      BY <1>1, <1>2, <1>8, <2>4, <2>6, RecordsRows
    <2>8. x \in hd[h].mine /\ hd[h].pc \in {"record", "nest"}
      BY <1>1, <2>3, <2>4, <2>7, ScanRecords
    <2>9. ScanHeld(hd[h])
      BY DEF ImportInv
    <2>10. file[fp][x] = Original
      BY <1>5, <1>8, <2>2, <2>8, <2>9 DEF ScanHeld, Standing
    <2> QED BY <2>5, <2>10
  <1> QED BY <1>3, <1>4, <1>6, <1>7, <1>8 DEF Row

LEMMA ScansStep ==
  ASSUME Base, ImportInv, NEW h \in Handler, Step(h), NEW g \in Handler
  PROVE  ScanHeld(hd[g])'
  <1>1. StructInv /\ HandlersOK /\ RowsOK /\ row \in [Domain -> Row] /\ OverlapOK /\ FileOK(file) /\ active \in Server
    BY DEF Base, StructInv, RowsOK, DiskOK, PanelOK
  <1>2. CASE g = h
    <2> SUFFICES ASSUME hd'[h].op = "scan", hd'[h].pc \in {"dismissals", "lookup", "record", "nest"},
                        NEW x \in hd'[h].mine, Sure(x, "vhost")', row'[x].source = "none"
                 PROVE  file'[ForeignPath[x]][x] = Original
      BY <1>2 DEF ScanHeld, Standing
    <2>1. hd[h].op = "scan" /\ hd'[h] # NoHandling
      BY <1>1, StepStays, Values, Constants DEF Op, Bulk
    <2>2. ScanStep(h)
      <3>1. ~EditStep(h) /\ ~BulkStep(h) /\ ~AdoptStep(h) /\ ~Lock(h)
        BY <1>1, <2>1, EditKinds, BulkKinds, AdoptKinds, LockReads DEF Edits, Guarded
      <3>2. ~CreatePool(h) /\ ~CreateVHost(h) /\ ~CreateRow(h) /\ ~DeleteTeardown(h) /\ ~DeleteDismiss(h)
            /\ ~DeleteRows(h)
        BY <2>1 DEF CreatePool, CreateVHost, CreateRow, DeleteTeardown, DeleteDismiss, DeleteRows, At
      <3> QED BY <3>1, <3>2, StepKinds
    <2>3. ~ScanPrune(h)
      BY <1>1, <2>1, Replies DEF ScanPrune
    <2>4. file' = file
      BY <2>2, ScanKinds DEF disk
    <2>5. CASE ScanDirectory(h)
      <3>1. hd'[h].mine = Unmanaged
        BY <1>1, <2>5, ScanReading DEF ScanReads
      <3>2. PICK p \in FilesOf(x) : x \in Domain /\ file[p][x].by = "operator"
        BY <3>1 DEF Unmanaged
      <3>3. p \in Path
        BY <1>1, <3>2, Constants DEF FilesOf, InDir
      <3>4. p = ForeignPath[x] /\ file[p][x] = Original
        BY <1>1, <3>2, <3>3 DEF FileOK
      <3> QED BY <2>4, <3>4
    <2>6. ASSUME x \in hd[h].mine, row[x].source = "none",
                 hd[h].pc \in {"dismissals", "lookup", "record", "nest"}
          PROVE  file'[ForeignPath[x]][x] = Original
      <3>1. Sure(x, "vhost")
        BY <2>2, ScanKinds DEF Sure
      <3>2. ScanHeld(hd[h])
        BY DEF ImportInv
      <3> QED BY <2>1, <2>4, <2>6, <3>1, <3>2 DEF ScanHeld, Standing
    <2>7. CASE ScanDismissals(h) \/ ScanLookUp(h)
      <3>1. ~ScanDirectory(h) /\ hd[h].pc \in {"dismissals", "lookup"}
        BY <2>7 DEF ScanDirectory, ScanDismissals, ScanLookUp, At
      <3>2. hd'[h].mine \subseteq hd[h].mine /\ row' = row
        BY <1>1, <2>7, <3>1, ScanReading DEF ScanReads
      <3> QED BY <2>6, <3>1, <3>2
    <2>8. CASE ScanRecord(h)
      <3>1. PICK pc \in {"nest", "group", "prune"} : Goto(h, pc) /\ (pc = "nest" => hd[h].pc = "record")
        BY <1>1, <2>8, ScanRecords
      <3>2. pc \in Pc \ {"idle"}
        BY DEF Pc
      <3>3. hd'[h].pc = pc /\ hd'[h].mine = hd[h].mine
        BY <1>1, <3>1, <3>2, GoesOn
      <3>4. PICK done \in SUBSET (hd[h].mine \cap Foreign), nested \in SUBSET Domain :
              row' = Recorded(done, nested)
        BY <1>1, <2>8, ScanRecords
      <3>5. x \in Domain
        BY <1>1, <2>1, <3>3, Working, Constants DEF Holding
      <3>6. done \in SUBSET Foreign
        OBVIOUS
      <3>7. row[x].source = "none"
        BY <1>1, <3>4, <3>5, <3>6, RecordsRows
      <3> QED BY <2>6, <3>1, <3>3, <3>7
    <2> QED BY <2>2, <2>3, <2>5, <2>7, <2>8 DEF ScanStep, ScanReads
  <1>3. CASE g # h
    <2>1. hd'[g] = hd[g]
      BY <1>1, <1>3, StepStays DEF Moves, HandlersOK
    <2> SUFFICES ASSUME hd[g].op = "scan", hd[g].pc \in {"dismissals", "lookup", "record", "nest"},
                        NEW x \in hd[g].mine, Sure(x, "vhost")', row'[x].source = "none"
                 PROVE  file'[ForeignPath[x]][x] = Original
      BY <2>1 DEF ScanHeld, Standing
    <2>2. x \in Foreign /\ x \in Domain /\ x \in Touched(g) /\ ForeignPath[x] \in Path
      <3>1. Busy(g) /\ Holding(hd[g])
        BY <1>1, Working DEF Busy
      <3> QED BY <1>1, <3>1, Reaches, Constants DEF Holding, Bulk
    <2>3. RowChange(h, x) /\ row[x] \in Row
      BY <1>1, <2>2, RowChanges
    <2>4. Sure(x, "vhost") /\ Clear(x)
      <3>1. CASE doubt \subseteq doubt'
        BY <3>1 DEF Sure, Clear, Aspect
      <3>2. CASE RegenApply(h) /\ hd[h].quiet
        <4>1. hd'[g] = NoHandling
          BY <1>1, <3>2, QuietEnds DEF Base
        <4> QED BY <2>1, <4>1, Values, Constants DEF Op, Bulk
      <3> QED BY <1>1, <3>1, <3>2, StepDoubts
    <2>5. ScanHeld(hd[g]) /\ ImportsStand
      BY DEF ImportInv
    <2>6. CASE row[x].source = "none"
      <3>1. file[ForeignPath[x]][x] = Original
        BY <2>4, <2>5, <2>6 DEF ScanHeld, Standing
      <3>2. FileSame(x)
        <4> SUFFICES ASSUME ~FileSame(x) PROVE FALSE
          OBVIOUS
        <4>1. hd[h].op \in {"create", "delete"}
          BY <2>2, <2>4, <2>6, FileOwner
        <4> QED BY <1>3, <2>2, <2>4, <4>1, BesidesFile
      <3> QED BY <2>2, <3>1, <3>2 DEF FileSame
    <2>7. CASE row[x].source # "none"
      <3>1. row'[x] = NoRow \/ hd[h].op = "scan"
        <4>1. row'[x] = Persisted(h) /\ x = hd[h].d /\ hd[h].op \in Edits => row'[x].source = row[x].source
          BY <2>2, <2>3 DEF Persisted, Row, Edits
        <4>2. row'[x] = [row[x] EXCEPT !.source = "managed", !.php = hd[h].copy.php, !.conf = None]
                => row'[x].source = "managed"
          BY <2>3 DEF Row
        <4> QED BY <2>3, <2>7, <4>1, <4>2 DEF RowChange
      <3>2. hd[h].op = "scan" /\ row[x].source = "imported"
        <4>1. CASE hd[h].op = "delete" /\ x \in Reach("delete", hd[h].d) /\ Busy(h)
          <5>1. x \in Touched(h)
            BY <4>1 DEF Touched
          <5>2. ~Clash("delete", "scan")
            BY <1>1, <1>3, <2>2, <2>4, <4>1, <5>1, Alongside
          <5> QED BY <5>2 DEF Clash
        <4>2. Busy(h)
          BY <1>1, StepStays
        <4>3. hd[h].op = "scan" => row[x].source = "imported"
          <5>1. <<x, "vhost">> \notin doubt'
            BY DEF Sure
          <5> QED BY <2>3, <2>7 DEF RowChange, Row, Sure, Aspect, Edits
        <4>4. NoRow.source # "managed" /\ NoRow.source = "none"
          BY Values
        <4>5. row'[x] # row[x]
          BY <2>7
        <4>6. CASE hd[h].op = "create" /\ row[x].source = "none"
          BY <2>7, <4>6
        <4>7. CASE row'[x] = Persisted(h) /\ x = hd[h].d /\ hd[h].op \in Edits
          BY <2>2, <2>3, <2>7, <4>7 DEF Persisted, Row, Edits
        <4>8. CASE row'[x] = [row[x] EXCEPT !.source = "managed", !.php = hd[h].copy.php, !.conf = None]
          BY <2>3, <4>8 DEF Row
        <4> QED BY <2>3, <4>1, <4>2, <4>3, <4>5, <4>6, <4>7, <4>8 DEF RowChange
      <3>3. Unadopted(x)
        <4> SUFFICES ASSUME NEW k \in Handler, hd[k].op = "adopt", hd[k].d = x, hd[k].pc # "lock"
                     PROVE  FALSE
          BY DEF Unadopted
        <4>1. x \in Touched(k) /\ k # g
          BY Adopting
        <4>2. ~Clash("scan", "adopt")
          BY <1>1, <2>2, <2>4, <4>1, Alongside
        <4> QED BY <4>2 DEF Clash
      <3>4. file[ForeignPath[x]][x] = Original
        BY <2>2, <2>4, <2>5, <3>2, <3>3 DEF ImportsStand, Standing
      <3>5. FileSame(x)
        <4>1. FileChange(h, x)
          BY <1>1, <2>2, FileChanges
        <4> QED BY <3>2, <4>1 DEF FileChange, Edits
      <3> QED BY <2>2, <3>4, <3>5 DEF FileSame
    <2> QED BY <2>6, <2>7
  <1> QED BY <1>2, <1>3

LEMMA StepImport ==
  ASSUME Base, ImportInv, NEW h \in Handler, Step(h)
  PROVE  ImportInv'
  <1>1. ImportsStand'
    BY ImportsStep
  <1>2. ASSUME NEW g \in Handler
        PROVE  AdoptHeld(hd[g])' /\ ScanHeld(hd[g])'
    <2>1. CASE g = h
      BY <2>1, OwnAdoption, ScansStep
    <2>2. CASE g \in Handler \ {h}
      BY <2>2, OtherAdoption, ScansStep
    <2> QED BY <2>1, <2>2
  <1> QED BY <1>1, <1>2 DEF ImportInv

LEMMA StartImport ==
  ASSUME Base, ImportInv, Start
  PROVE  ImportInv'
  <1>1. StructInv /\ FileOK(file) /\ saved \in Server /\ saved \in Path
    BY Constants DEF Base, StructInv, DiskOK, PanelOK
  <1>2. ~up /\ row' = Booted /\ hd' = hd
    BY StartDoes
  <1>3. PICK done \in SUBSET Served :
          /\ file' = [file EXCEPT ![saved] =
                 [d \in Domain |-> IF d \in done THEN Rendering(Booted[d]) ELSE @[d]]]
          /\ doubt' = (doubt \ (done \X {"vhost"})) \cup (Stranded(Booted, {}) \X Aspect)
               \cup (IF saved # active THEN Domain \X {"pool", "stray", "vhost"} ELSE {})
    BY StartDoes
  <1>4. \A g \in Handler : hd[g] = NoHandling /\ hd'[g].op \notin {"adopt", "scan"}
    BY <1>1, <1>2, Values, Constants DEF StructInv, DownOK, Op, Locked, Bulk
  <1>5. ASSUME NEW x \in Foreign, Booted[x].source = "imported", <<x, "vhost">> \notin doubt'
        PROVE  file'[ForeignPath[x]][x] = Original
    <2> DEFINE fp == ForeignPath[x]
    <2>1. x \in Domain /\ fp \in Path
      BY Constants
    <2>2. x \notin done
      BY <1>5 DEF Served, Managed
    <2>3. file'[fp][x] = file[fp][x]
      BY <1>1, <1>3, <2>1, <2>2 DEF FileOK
    <2>4. CASE x \in Newly
      <3>1. PICK p \in InSaved : file[p][x].by = "operator"
        BY <2>4 DEF Newly, Untracked
      <3>2. p \in Path
        BY <1>1, <3>1, Constants DEF InSaved
      <3> QED BY <1>1, <2>1, <2>3, <3>1, <3>2 DEF FileOK
    <2>5. CASE x \notin Newly
      <3>1. row[x].source = "imported"
        BY <1>1, <1>5, <2>1, <2>5, StartRows, Values
      <3>2. <<x, "vhost">> \notin done \X {"vhost"}
        BY <2>2
      <3>3. Sure(x, "vhost")
        BY <1>3, <1>5, <3>2 DEF Sure
      <3>4. Unadopted(x)
        BY <1>2, <1>4 DEF Unadopted
      <3> QED BY <2>3, <3>1, <3>3, <3>4 DEF ImportInv, ImportsStand, Standing
    <2> QED BY <2>4, <2>5
  <1>6. ImportsStand'
    BY <1>2, <1>5 DEF ImportsStand, Standing, Sure
  <1> QED BY <1>4, <1>6 DEF ImportInv, AdoptHeld, ScanHeld

LEMMA ImportStep ==
  ASSUME Base, ImportInv, [Next]_vars
  PROVE  ImportInv'
  <1>1. StructInv /\ HandlersOK /\ FileOK(file) /\ FileOK(backup)
    BY DEF Base, StructInv, DiskOK
  <1>2. ASSUME NEW h \in Handler, Request(h)
        PROVE  ImportInv'
    <2>1. PICK op \in Op, d \in Domain \cup {None} : \E new \in Handling :
            Asked(h, op, d, new) /\ Opening(op, d, new) /\ doubt \subseteq doubt'
      BY <1>1, <1>2, AskLeaves
    <2>2. PICK new \in Handling : Asked(h, op, d, new) /\ Opening(op, d, new) /\ doubt \subseteq doubt'
      BY <2>1
    <2>3. row' = row /\ file' = file /\ backup' = backup /\ active' = active
          /\ \A x : Sure(x, "vhost")' => Sure(x, "vhost")
      BY <2>2 DEF Asked, db, disk, conf, Sure
    <2>4. AdoptHeld(hd[h])' /\ ScanHeld(hd[h])' /\ (hd'[h].op = "adopt" => hd'[h].pc = "lock")
      <3>1. op = "adopt" => new.pc = "lock"
        BY <2>2, Opens, <1>1 DEF Guarded
      <3>2. op = "scan" => new.pc = "scan"
        BY <2>2, Opens, <1>1
      <3> QED BY <2>2, <3>1, <3>2 DEF Asked, AdoptHeld, ScanHeld
    <2>5. \A g \in Handler \ {h} :
            /\ hd'[g].op = hd[g].op /\ hd'[g].d = hd[g].d /\ hd'[g].pc = hd[g].pc
            /\ hd'[g].mine = hd[g].mine /\ hd'[g].orig = hd[g].orig
      BY <2>2 DEF Asked
    <2>6. ASSUME NEW g \in Handler \ {h} PROVE AdoptHeld(hd[g])' /\ ScanHeld(hd[g])'
      <3>1. AdoptHeld(hd[g]) /\ ScanHeld(hd[g])
        BY DEF ImportInv
      <3> QED BY <2>3, <2>5, <3>1 DEF AdoptHeld, ScanHeld, Standing
    <2>7. \A x : Unadopted(x)' => Unadopted(x)
      <3>1. ~Busy(h) /\ hd[h].op # "adopt"
        BY <1>1, <2>2, Values, Constants DEF Asked, Busy, HandlersOK, Shape, Op, Locked
      <3> QED BY <2>5, <3>1 DEF Unadopted
    <2>8. ImportsStand'
      BY <2>3, <2>7 DEF ImportInv, ImportsStand, Standing
    <2> QED BY <2>4, <2>6, <2>8 DEF ImportInv
  <1>3. CASE Crash
    <2>1. row' = row /\ file' = file /\ \A x : Sure(x, "vhost")' => Sure(x, "vhost")
      BY <1>3 DEF Crash, db, disk, Sure
    <2>2. \A g \in Handler : hd'[g].op \notin {"adopt", "scan"}
      BY <1>3, Values, Constants DEF Crash, Op, Locked, Bulk
    <2>3. ASSUME NEW x \in Domain, <<x, "vhost">> \notin doubt' PROVE Unadopted(x)
      <3> SUFFICES ASSUME NEW k \in Handler, hd[k].op = "adopt", hd[k].d = x, hd[k].pc # "lock" PROVE FALSE
        BY DEF Unadopted
      <3>1. x \in Touched(k)
        BY Adopting
      <3> QED BY <1>3, <2>3, <3>1 DEF Crash, Aspect
    <2>4. ImportsStand'
      <3>1. \A x \in Foreign : Sure(x, "vhost")' => Unadopted(x)
        BY <2>3, Constants DEF Sure
      <3> QED BY <2>1, <3>1 DEF ImportInv, ImportsStand, Standing
    <2> QED BY <2>2, <2>4 DEF ImportInv, AdoptHeld, ScanHeld
  <1>4. ASSUME NEW d \in Domain, RemoveConf(d)
        PROVE  ImportInv'
    <2>1. /\ hd' = hd /\ row' = row /\ backup' = backup /\ active' = active /\ d \in Foreign
          /\ doubt' = doubt \cup ({d} \X {"vhost"}) /\ file' = [file EXCEPT ![ForeignPath[d]][d] = NoFile]
      BY <1>4 DEF RemoveConf, db, conf, Doubting
    <2>2. \A x : Sure(x, "vhost")' => Sure(x, "vhost") /\ x # d
      BY <2>1 DEF Sure
    <2>3. \A x \in Domain, p \in Path : x # d => file'[p][x] = file[p][x]
      BY <1>1, <2>1 DEF FileOK
    <2>4. ImportsStand'
      BY <2>1, <2>2, <2>3, Constants DEF ImportInv, ImportsStand, Standing, Unadopted
    <2>5. ASSUME NEW g \in Handler PROVE AdoptHeld(hd[g])' /\ ScanHeld(hd[g])'
      <3>1. AdoptHeld(hd[g]) /\ ScanHeld(hd[g]) /\ Holding(hd[g])
        BY <1>1 DEF ImportInv, HandlersOK
      <3> QED BY <2>1, <2>2, <2>3, <3>1, Constants DEF AdoptHeld, ScanHeld, Standing, Holding
    <2> QED BY <2>4, <2>5 DEF ImportInv
  <1>5. CASE SaveSettings \/ (\E d \in Domain : EditPage(d)) \/ UNCHANGED vars
    <2>1. hd' = hd /\ row' = row /\ file' = file /\ backup' = backup /\ active' = active /\ doubt' = doubt
      BY <1>5 DEF SaveSettings, EditPage, vars, db, disk, conf
    <2> QED BY <2>1 DEF ImportInv, ImportsStand, Standing, Unadopted, AdoptHeld, ScanHeld, Sure
  <1> QED BY <1>2, <1>3, <1>4, <1>5, StepImport, StartImport DEF Next

LEMMA InitImport ==
  ASSUME Init
  PROVE  ImportInv
  <1>1. \A g \in Handler : hd[g].op \notin {"adopt", "scan"}
    BY Values, Constants DEF Init, Op, Locked, Bulk
  <1>2. \A x \in Foreign : file[ForeignPath[x]][x] = Original
    BY Constants, DomainAssumption DEF Init
  <1> QED BY <1>1, <1>2 DEF ImportInv, ImportsStand, Standing, AdoptHeld, ScanHeld

\* What the operator wrote for a site the panel only lists stands as it was:
\* no creation, deletion, switch, regeneration, scan or restart touches it, and
\* an adoption that fails has put it back.
THEOREM ImportsStayUntouched == Spec => []ImportUntouched
  <1>1. Init => Base /\ ImportInv
    BY InitBase, InitImport
  <1>2. Base /\ ImportInv /\ [Next]_vars => (Base /\ ImportInv)'
    BY BaseStep, ImportStep
  <1>3. Base /\ ImportInv => ImportUntouched
    <2> SUFFICES ASSUME Base, ImportInv, NEW x \in Domain, row[x].source = "imported", Sure(x, "vhost"),
                        \A h \in Handler : hd[h].op = "adopt" => hd[h].d # x
                 PROVE  file[row[x].conf][x] = Original
      BY DEF ImportUntouched
    <2>1. x \in Foreign /\ row[x].conf = ForeignPath[x]
      BY DEF Base, StructInv, RowsOK, RowOK
    <2> QED BY <2>1 DEF ImportInv, ImportsStand, Unadopted, Standing
  <1> QED BY <1>1, <1>2, <1>3, PTL DEF Spec

-----------------------------------------------------------------------------
(* Virtual hosts of managed sites *)

InSync(d) == file[active][d] = Rendering(row[d])

\* A request between its change of the row and its change of the file.
Rewriting(g, d) ==
  \/ g.op = "serve" /\ g.pc \in {"dropapp", "render"} /\ d = g.d
  \/ g.op = "proxy" /\ g.pc = "render" /\ d = g.d
  \/ g.op = "ssl" /\ g.pc \in {"certs", "flag"} /\ d = g.d
  \/ g.op = "delete" /\ g.pc = "drop" /\ d \in g.mine
  \/ g.op = "switch" /\ g.pc = "sites"

SiteInSync(d) ==
  row[d].source = "managed" /\ Sure(d, "vhost") /\ (\A h \in Handler : ~Rewriting(hd[h], d)) => InSync(d)
CopyWritten(g) ==
  /\ \/ g.op = "create" /\ g.pc = "insert"
     \/ g.op = "adopt" /\ g.pc = "mark"
     \/ g.op = "ssl" /\ g.pc \in {"certs", "flag"}
  /\ Sure(g.d, "vhost")
  => file[active][g.d] = Rendering(g.copy)
\* Before a switch swaps the services it can still go back.
OldInSync(g) ==
  g.op = "switch" /\ g.pc \in {"sites", "validate", "swap"} =>
    \A d \in Domain : row[d].source = "managed" /\ Sure(d, "vhost") => file[g.server][d] = Rendering(row[d])
QuietInSync(g) ==
  g.op = "regen" /\ g.pc = "apply" /\ g.quiet => \A d \in g.mine : InSync(d)
VHostInv ==
  /\ \A d \in Domain : SiteInSync(d)
  /\ \A h \in Handler : CopyWritten(hd[h]) /\ OldInSync(hd[h]) /\ QuietInSync(hd[h])

\* A site the step leaves alone stays in sync.
LEMMA LeftInSync ==
  ASSUME Base, VHostInv, NEW h \in Handler, Step(h), doubt \subseteq doubt', NEW x \in Domain,
         row'[x].source = "managed" =>
           row[x].source = "managed" /\ Rendering(row'[x]) = Rendering(row[x]),
         file'[active][x] = file[active][x], active' = active, ~Rewriting(hd[h], x)
  PROVE  SiteInSync(x)'
  <1>1. \A g \in Handler \ {h} : hd'[g] = hd[g]
    BY StepStays DEF Moves, Base, StructInv, HandlersOK
  <1> SUFFICES ASSUME row'[x].source = "managed", <<x, "vhost">> \notin doubt',
                      \A g \in Handler : ~Rewriting(hd'[g], x)
               PROVE  file'[active'][x] = Rendering(row'[x])
    BY DEF SiteInSync, InSync, Sure, Rewriting
  <1>2. \A g \in Handler : ~Rewriting(hd[g], x)
    BY <1>1
  <1>3. Sure(x, "vhost")
    BY DEF Sure
  <1>4. InSync(x)
    BY <1>2, <1>3 DEF VHostInv, SiteInSync
  <1> QED BY <1>4 DEF InSync

LEMMA CreateInSync ==
  ASSUME Base, VHostInv, NEW h \in Handler, Step(h), hd[h].op = "create", doubt \subseteq doubt', NEW x \in Domain
  PROVE  SiteInSync(x)'
  <1>1. StructInv /\ HandlersOK /\ RowChange(h, x) /\ FileChange(h, x) /\ active' = active /\ active \in Path
    BY RowChanges, FileChanges, ActiveChanges, Constants DEF Base, StructInv, PanelOK
  <1>2. ~Rewriting(hd[h], x)
    BY DEF Rewriting
  <1>3. CASE row'[x] = row[x] /\ FileSame(x)
    BY <1>1, <1>2, <1>3, LeftInSync DEF FileSame
  <1>4. CASE ~(row'[x] = row[x] /\ FileSame(x))
    <2>1. x = hd[h].d
      BY <1>1, <1>4 DEF RowChange, FileChange, Edits
    <2>2. CASE row'[x] = row[x] /\ Clear(x)
      <3>1. row[x].source = "none"
        BY <2>1, <2>2 DEF Base, CurrentInv, Current, CreateCurrent
      <3> QED BY <2>2, <3>1 DEF SiteInSync
    <2>3. CASE ~Clear(x)
      BY <2>3 DEF Clear, Sure, Aspect, SiteInSync
    <2>4. CASE row'[x] # row[x]
      <3>1. CreateRow(h) /\ hd[h].pc = "insert"
        <4>1. ~DeleteTeardown(h) /\ ~DeleteDismiss(h) /\ ~DeleteRows(h) /\ ~ScanStep(h)
          BY ScanKinds DEF DeleteTeardown, DeleteDismiss, DeleteRows, At
        <4>2. ~EditStep(h) /\ ~BulkStep(h) /\ ~AdoptStep(h) /\ ~Lock(h)
          BY <1>1, EditKinds, BulkKinds, AdoptKinds, LockReads DEF Edits, Guarded
        <4>3. ~CreatePool(h) /\ ~CreateVHost(h)
          BY <2>4 DEF CreatePool, CreateVHost, db
        <4> QED BY <4>1, <4>2, <4>3, StepKinds DEF CreateRow, At
      <3>2. file' = file
        BY <2>4, <3>1 DEF CreateRow
      <3>3. row'[x] = [hd[h].copy EXCEPT !.id = ids + 1] /\ hd[h].copy \in Row
        BY <1>1, <2>4, Working DEF RowChange, Edits, Handling
      <3>4. Sure(x, "vhost")' => file[active][x] = Rendering(hd[h].copy)
        BY <2>1, <3>1 DEF VHostInv, CopyWritten, Sure
      <3>5. Rendering(row'[x]) = Rendering(hd[h].copy)
        BY <3>3 DEF Rendering, Row
      <3> QED BY <1>1, <3>2, <3>4, <3>5 DEF SiteInSync, InSync
    <2> QED BY <2>2, <2>3, <2>4
  <1> QED BY <1>3, <1>4

\* A step that changes nothing of a site's row, and of its file at most what the row says.
LEMMA EditInSync ==
  ASSUME Base, VHostInv, NEW h \in Handler, Step(h), EditStep(h), doubt \subseteq doubt', NEW x \in Domain
  PROVE  SiteInSync(x)'
  <1>1. /\ StructInv /\ HandlersOK /\ active' = active /\ active \in Path /\ hd[h].op \in Edits
        /\ RowChange(h, x) /\ FileChange(h, x) /\ hd[h].copy \in Row /\ row[x] \in Row
    BY RowChanges, FileChanges, EditKinds, Constants DEF Base, StructInv, RowsOK
  <1>2. CASE x # hd[h].d
    <2>1. row'[x] = row[x] /\ FileSame(x) /\ ~Rewriting(hd[h], x)
      BY <1>1, <1>2 DEF RowChange, FileChange, Edits, Rewriting
    <2> QED BY <1>1, <2>1, LeftInSync DEF FileSame
  <1>3. CASE ~Sure(x, "vhost")'
    BY <1>3 DEF SiteInSync
  <1>4. CASE x = hd[h].d /\ Sure(x, "vhost")'
    <2>1. Sure(x, "vhost") /\ Clear(x)
      BY <1>4 DEF Sure, Clear, Aspect
    <2>2. row[x].source = "managed" /\ Draft(hd[h], row[x]) = hd[h].copy
      BY <1>1, <1>4, <2>1 DEF Base, CurrentInv, Current, EditCurrent
    <2>3. file' = file \/ Write(x, hd[h].copy) => FileSame(x) \/ FileIs(x, Rendering(hd[h].copy))
      BY <1>1, <1>4, WritesFile DEF Base, StructInv, DiskOK, PanelOK, FileSame, FileIs
    <2>4. ASSUME NEW pc \in Pc \ {"idle"}, Goto(h, pc),
                 \/ hd[h].op = "serve" /\ pc \in {"dropapp", "render"}
                 \/ hd[h].op = "proxy" /\ pc = "render"
                 \/ hd[h].op = "ssl" /\ pc \in {"certs", "flag"}
          PROVE  SiteInSync(x)'
      <3>1. hd'[h].op = hd[h].op /\ hd'[h].d = x /\ hd'[h].pc = pc
        BY <1>1, <1>4, <2>4, GoesOn
      <3>2. Rewriting(hd'[h], x)
        BY <2>4, <3>1 DEF Rewriting
      <3>3. Rewriting(hd[h], x)'
        BY <3>2 DEF Rewriting
      <3> QED BY <3>3 DEF SiteInSync
    <2>5. {"dropapp", "render", "certs", "flag"} \subseteq Pc \ {"idle"}
      BY DEF Pc
    <2>6. CASE ServePersist(h)
      <3>1. CASE Goto(h, "dropapp")
        BY <2>4, <2>5, <2>6, <3>1 DEF ServePersist, At
      <3>2. CASE row' = row
        <4>1. file' = file /\ ~Rewriting(hd[h], x)
          BY <2>6 DEF ServePersist, At, Rewriting
        <4> QED BY <1>1, <2>2, <3>2, <4>1, LeftInSync
      <3> QED BY <2>6, <3>1, <3>2 DEF ServePersist
    <2>7. CASE ServeDropApp(h)
      BY <2>4, <2>5, <2>7 DEF ServeDropApp, At
    <2>8. CASE ProxyApp(h) \/ ProxyConfigure(h) \/ PhpPool(h)
      <3>1. row' = row /\ file' = file /\ ~Rewriting(hd[h], x)
        BY <2>8 DEF ProxyApp, ProxyConfigure, PhpPool, At, Rewriting, db, disk
      <3> QED BY <1>1, <2>2, <3>1, LeftInSync
    <2>9. CASE ProxyPersist(h)
      <3>1. CASE Goto(h, "render")
        BY <2>4, <2>5, <2>9, <3>1 DEF ProxyPersist, At
      <3>2. CASE row' = row
        <4>1. file' = file /\ ~Rewriting(hd[h], x)
          BY <2>9 DEF ProxyPersist, At, Rewriting, disk
        <4> QED BY <1>1, <2>2, <3>2, <4>1, LeftInSync
      <3> QED BY <2>9, <3>1, <3>2 DEF ProxyPersist
    <2>10. CASE PersistPhp(h)
      <3>1. file' = file /\ ~Rewriting(hd[h], x) /\ hd[h].op = "php"
        BY <2>10 DEF PersistPhp, PersistLast, At, Rewriting, disk
      <3>2. row'[x] = row[x] \/ row'[x] = [row[x] EXCEPT !.php = hd[h].copy.php]
        BY <1>1, <1>4, <3>1 DEF RowChange, Persisted, Edits
      <3>3. row'[x].source = "managed" /\ Rendering(row'[x]) = Rendering(row[x])
        BY <1>1, <2>2, <3>2 DEF Rendering, Row
      <3> QED BY <1>1, <2>2, <3>1, <3>3, LeftInSync
    <2>11. CASE PersistCerts(h)
      <3>1. Doubting(x, {"vhost"}) => ~Sure(x, "vhost")'
        BY DEF Doubting, Sure
      <3>2. Goto(h, "flag") \/ Doubting(x, {"vhost"})
        BY <1>4, <2>11 DEF PersistCerts, PersistLast, At, Spoils
      <3> QED BY <1>4, <2>4, <2>5, <2>11, <3>1, <3>2 DEF PersistCerts, PersistLast, At
    <2>12. CASE PersistSSL(h)
      <3>1. /\ hd[h].op = "ssl" /\ hd[h].pc = "flag" /\ file' = file
            /\ Update(x, hd[h].copy.id, [row[x] EXCEPT !.ssl = hd[h].copy.ssl]) \/ Doubting(x, {"vhost"})
        BY <1>4, <2>12 DEF PersistSSL, PersistLast, At, Spoils, disk
      <3>2. Doubting(x, {"vhost"}) => ~Sure(x, "vhost")'
        BY DEF Doubting, Sure
      <3>3. [row[x] EXCEPT !.ssl = hd[h].copy.ssl] = hd[h].copy /\ row[x].id = hd[h].copy.id
        BY <1>1, <2>2, <3>1 DEF Draft, Row
      <3>4. row'[x] = hd[h].copy
        BY <1>1, <1>4, <3>1, <3>2, <3>3 DEF Update, Base, StructInv, RowsOK
      <3>5. file[active][x] = Rendering(hd[h].copy)
        BY <1>4, <2>1, <3>1 DEF VHostInv, CopyWritten
      <3> QED BY <1>1, <3>1, <3>4, <3>5 DEF SiteInSync, InSync
    <2>13. CASE RenderSite(h)
      <3>1. row' = row /\ hd[h].pc = "render"
        BY <2>13 DEF RenderSite, db
      <3>2. CASE hd[h].op = "ssl"
        <4>1. Doubting(x, {"vhost"}) => ~Sure(x, "vhost")'
          BY DEF Doubting, Sure
        <4>2. Goto(h, "certs") \/ Goto(h, "flag") \/ Doubting(x, {"vhost"})
          BY <1>4, <2>13, <3>2 DEF RenderSite, Spoils
        <4> QED BY <1>4, <2>4, <2>5, <3>2, <4>1, <4>2
      <3>3. CASE hd[h].op \in {"serve", "proxy", "php"}
        <4>1. Rendering(hd[h].copy) = Rendering(row[x])
          <5>1. CASE hd[h].op = "php"
            <6>1. hd[h].copy = [row[x] EXCEPT !.php = hd[h].copy.php]
              BY <2>2, <5>1 DEF Draft
            <6> QED BY <1>1, <6>1 DEF Rendering, Row
          <5>2. CASE hd[h].op \in {"serve", "proxy"}
            <6>1. hd[h].copy = row[x]
              BY <2>2, <3>1, <5>2 DEF Draft
            <6> QED BY <6>1
          <5> QED BY <3>3, <5>1, <5>2
        <4>2. FileSame(x) \/ FileIs(x, Rendering(hd[h].copy))
          BY <1>4, <2>3, <2>13 DEF RenderSite
        <4>3. CASE FileIs(x, Rendering(hd[h].copy))
          BY <1>1, <3>1, <4>1, <4>3 DEF SiteInSync, InSync, FileIs
        <4>4. CASE FileSame(x) /\ hd[h].op = "php"
          <5>1. ~Rewriting(hd[h], x)
            BY <4>4 DEF Rewriting
          <5> QED BY <1>1, <2>2, <3>1, <4>4, <5>1, LeftInSync DEF FileSame
        <4>5. CASE FileSame(x) /\ hd[h].op \in {"serve", "proxy"}
          <5>1. Doubting(x, {"vhost"}) => ~Sure(x, "vhost")'
            BY DEF Doubting, Sure
          <5>2. Write(x, hd[h].copy)
            BY <1>4, <2>13, <4>5, <5>1 DEF RenderSite, Spoils
          <5>3. FileIs(x, Rendering(hd[h].copy))
            BY <1>1, <1>4, <5>2, WritesFile DEF Base, StructInv, DiskOK, PanelOK, FileIs
          <5> QED BY <4>3, <5>3
        <4> QED BY <3>3, <4>2, <4>3, <4>4, <4>5
      <3> QED BY <1>1, <3>2, <3>3 DEF Edits
    <2> QED BY <2>6, <2>7, <2>8, <2>9, <2>10, <2>11, <2>12, <2>13 DEF EditStep
  <1> QED BY <1>2, <1>3, <1>4

LEMMA DeleteInSync ==
  ASSUME Base, VHostInv, NEW h \in Handler, Step(h), hd[h].op = "delete", doubt \subseteq doubt', NEW x \in Domain
  PROVE  SiteInSync(x)'
  <1>1. StructInv /\ HandlersOK /\ RowChange(h, x) /\ FileChange(h, x) /\ active' = active /\ active \in Path
        /\ row[x] \in Row
    BY RowChanges, FileChanges, ActiveChanges, Constants DEF Base, StructInv, PanelOK, RowsOK
  <1>2. row'[x] = row[x] \/ row'[x].source = "none"
    BY <1>1, Values DEF RowChange, Edits
  <1>3. CASE FileSame(x) /\ ~Rewriting(hd[h], x)
    <2>1. row'[x].source = "managed" => row[x].source = "managed" /\ Rendering(row'[x]) = Rendering(row[x])
      BY <1>2
    <2> QED BY <1>1, <1>3, <2>1, LeftInSync DEF FileSame
  <1>4. CASE ~FileSame(x)
    <2>1. x \in hd[h].mine /\ Goto(h, "drop") /\ "drop" \in Pc \ {"idle"}
      BY <1>1, <1>4 DEF FileChange, Edits, Pc
    <2>2. hd'[h].op = "delete" /\ hd'[h].pc = "drop" /\ x \in hd'[h].mine
      BY <1>1, <2>1, GoesOn
    <2>3. Rewriting(hd[h], x)'
      BY <2>2 DEF Rewriting
    <2> QED BY <2>3 DEF SiteInSync
  <1>5. CASE Rewriting(hd[h], x) /\ FileSame(x)
    <2>1. hd[h].pc = "drop" /\ x \in hd[h].mine
      BY <1>5 DEF Rewriting
    <2>2. DeleteRows(h)
      <3>1. ~CreatePool(h) /\ ~CreateVHost(h) /\ ~CreateRow(h) /\ ~ScanStep(h) /\ ~DeleteTeardown(h) /\ ~DeleteDismiss(h)
        BY <2>1, ScanKinds DEF CreatePool, CreateVHost, CreateRow, DeleteTeardown, DeleteDismiss, At
      <3>2. ~EditStep(h) /\ ~BulkStep(h) /\ ~AdoptStep(h) /\ ~Lock(h)
        BY <1>1, EditKinds, BulkKinds, AdoptKinds, LockReads DEF Edits, Guarded
      <3> QED BY <3>1, <3>2, StepKinds
    <2>3. CASE doubt' = doubt \cup (hd[h].mine \X {"vhost", "pool"})
      BY <2>1, <2>3 DEF SiteInSync, Sure
    <2>4. CASE row' = IF row[hd[h].d].id = hd[h].copy.id THEN Deleted(row, {hd[h].d}) ELSE row
      <3>1. CASE row[x].source = "managed" /\ Clear(x)
        <4>1. row[hd[h].d].id = hd[h].copy.id /\ (x = hd[h].d \/ row[x].sub)
          BY <2>1, <3>1 DEF Base, CurrentInv, Current, DeleteCurrent
        <4>2. x = hd[h].d \/ ParentOf[x] = hd[h].d
          <5>1. x \in Reach("delete", hd[h].d)
            BY <1>1, <2>1, Working DEF Holding
          <5> QED BY <5>1 DEF Reach, Bulk
        <4>3. row'[x] = NoRow
          BY <2>4, <4>1, <4>2 DEF Deleted
        <4> QED BY <4>3, Values DEF SiteInSync
      <3>2. CASE row[x].source # "managed"
        BY <1>2, <3>2 DEF SiteInSync
      <3>3. CASE ~Clear(x)
        BY <3>3 DEF Clear, Sure, Aspect, SiteInSync
      <3> QED BY <3>1, <3>2, <3>3
    <2> QED BY <2>2, <2>3, <2>4 DEF DeleteRows
  <1> QED BY <1>3, <1>4, <1>5

LEMMA LockInSync ==
  ASSUME Base, VHostInv, NEW h \in Handler, Step(h), Lock(h), doubt \subseteq doubt', NEW x \in Domain
  PROVE  SiteInSync(x)'
  <1>1. hd[h].pc = "lock" /\ hd[h].op \in Guarded /\ row' = row /\ file' = file /\ StructInv
    BY LockReads DEF Base, db, disk
  <1>2. CASE active' = active
    <2>1. ~Rewriting(hd[h], x)
      BY <1>1 DEF Rewriting
    <2> QED BY <1>1, <1>2, <2>1, LeftInSync
  <1>3. CASE active' # active
    <2>1. hd'[h].op = "switch" /\ hd'[h].pc = "sites"
      BY <1>1, <1>3, LockReads DEF Enters
    <2>2. Rewriting(hd[h], x)'
      BY <2>1 DEF Rewriting
    <2> QED BY <2>2 DEF SiteInSync
  <1> QED BY <1>2, <1>3

LEMMA AdoptInSync ==
  ASSUME Base, VHostInv, NEW h \in Handler, Step(h), AdoptStep(h), doubt \subseteq doubt', NEW x \in Domain
  PROVE  SiteInSync(x)'
  <1>1. StructInv /\ HandlersOK /\ RowChange(h, x) /\ FileChange(h, x) /\ active' = active /\ active \in Path
        /\ hd[h].op = "adopt" /\ hd[h].pc # "lock" /\ row[x] \in Row /\ hd[h].copy \in Row
    BY RowChanges, FileChanges, ActiveChanges, AdoptKinds, Constants DEF Base, StructInv, PanelOK, RowsOK
  <1>2. ~Rewriting(hd[h], x)
    BY <1>1 DEF Rewriting
  <1>3. CASE x # hd[h].d
    <2>1. row'[x] = row[x] /\ FileSame(x)
      BY <1>1, <1>3 DEF RowChange, FileChange, Edits
    <2> QED BY <1>1, <1>2, <2>1, LeftInSync DEF FileSame
  <1>4. CASE ~Clear(x)
    BY <1>4 DEF Clear, Sure, Aspect, SiteInSync
  <1>5. CASE x = hd[h].d /\ Clear(x)
    <2>1. /\ row[x].source = "imported"
          /\ hd[h].copy = [row[x] EXCEPT !.source = "managed", !.php = hd[h].copy.php]
      BY <1>1, <1>5 DEF Base, CurrentInv, Current, AdoptCurrent
    <2>2. CASE row'[x] = row[x]
      BY <2>1, <2>2 DEF SiteInSync
    <2>3. CASE row'[x] # row[x]
      <3>1. hd[h].pc = "mark" /\ row'[x] = [row[x] EXCEPT !.source = "managed", !.php = hd[h].copy.php, !.conf = None]
        BY <1>1, <2>3 DEF RowChange, Edits
      <3>2. file' = file
        BY <3>1 DEF AdoptStep, AdoptDisable, AdoptPool, AdoptVHost, AdoptMark, At, disk
      <3>3. Sure(x, "vhost")' => file[active][x] = Rendering(hd[h].copy)
        BY <1>1, <1>5, <3>1 DEF VHostInv, CopyWritten, Sure
      <3>4. Rendering(row'[x]) = Rendering(hd[h].copy)
        BY <1>1, <2>1, <3>1 DEF Rendering, Row
      <3> QED BY <1>1, <3>2, <3>3, <3>4 DEF SiteInSync, InSync
    <2> QED BY <2>2, <2>3
  <1> QED BY <1>3, <1>4, <1>5

LEMMA ScanInSync ==
  ASSUME Base, VHostInv, NEW h \in Handler, Step(h), ScanStep(h), doubt \subseteq doubt', NEW x \in Domain
  PROVE  SiteInSync(x)'
  <1>1. hd[h].op = "scan"
    BY ScanKinds
  <1>2. RowChange(h, x) /\ file' = file /\ active' = active
    BY RowChanges, ScanKinds DEF Base, disk, conf
  <1>3. row'[x].source = "managed" => row'[x] = row[x]
    BY <1>1, <1>2, Values DEF RowChange, Edits
  <1>4. ~Rewriting(hd[h], x)
    BY <1>1 DEF Rewriting
  <1> QED BY <1>2, <1>3, <1>4, LeftInSync

LEMMA SwitchInSync ==
  ASSUME Base, VHostInv, NEW h \in Handler, Step(h), BulkStep(h), hd[h].op = "switch", doubt \subseteq doubt',
         NEW x \in Domain
  PROVE  SiteInSync(x)'
  <1>1. /\ StructInv /\ HandlersOK /\ row' = row /\ active \in Server /\ active \in Path /\ hd[h].server \in Path
        /\ hd[h].server # active /\ hd[h].mine \in SUBSET Domain /\ hd[h].snap \in [Domain -> Row]
        /\ FileOK(file) /\ hd[h].pc # "lock"
    BY BulkKinds, Constants DEF Base, StructInv, Holding, db
  <1> SUFFICES ASSUME row[x].source = "managed", <<x, "vhost">> \notin doubt',
                      \A g \in Handler : ~Rewriting(hd'[g], x)
               PROVE  file'[active'][x] = Rendering(row[x])
    BY <1>1 DEF SiteInSync, InSync, Sure, Rewriting
  <1>2. Sure(x, "vhost") /\ Clear(x)
    BY DEF Sure, Clear, Aspect
  <1>3. x \in hd[h].mine /\ hd[h].snap[x].source = "managed" /\ hd[h].snap[x] = row[x]
    BY <1>1, <1>2 DEF Base, CurrentInv, Current, SwitchCurrent
  <1>4. CASE hd[h].pc # "sites" /\ file'[active][x] = file[active][x] /\ active' = active
    <2>1. ~Rewriting(hd[h], x)
      BY <1>4 DEF Rewriting
    <2>2. SiteInSync(x)'
      BY <1>1, <1>4, <2>1, LeftInSync
    <2> QED BY <1>1, <2>2 DEF SiteInSync, InSync, Sure, Rewriting
  <1>5. ASSUME hd[h].pc \in {"sites", "validate", "swap"}, active' = hd[h].server,
               file'[hd[h].server][x] = file[hd[h].server][x]
        PROVE  file'[active'][x] = Rendering(row[x])
    <2>1. file[hd[h].server][x] = Rendering(row[x])
      BY <1>2, <1>5 DEF VHostInv, OldInSync
    <2> QED BY <1>5, <2>1
  <1>6. CASE SwitchSites(h)
    <2>1. hd[h].pc = "sites"
      BY <1>6 DEF SwitchSites, At
    <2>2. CASE file' = Written(hd[h].mine, hd[h].snap) /\ active' = active
      <3>1. file'[active][x] = Rendering(hd[h].snap[x])
        BY SMTT(30), <1>1, <1>3, <2>2, WritesFiles
      <3> QED BY <1>3, <2>2, <3>1
    <2>3. ASSUME NEW done \in SUBSET Domain, file' = Written(done, hd[h].snap), Revert(h)
          PROVE  file'[active'][x] = Rendering(row[x])
      <3>1. file'[hd[h].server][x] = file[hd[h].server][x]
        <4>1. \A p \in Path, y \in Domain :
                file'[p][y] = IF p = active /\ y \in done THEN Rendering(hd[h].snap[y]) ELSE file[p][y]
          <5> DEFINE rows == hd[h].snap
          <5>1. rows \in [Domain -> Row] /\ file' = Written(done, rows) /\ done \in SUBSET Domain
            BY <1>1, <2>3
          <5> HIDE DEF rows
          <5>2. \A p \in Path, y \in Domain :
                  file'[p][y] = IF p = active /\ y \in done THEN Rendering(rows[y]) ELSE file[p][y]
            BY SMTT(30), <1>1, <5>1, WritesFiles
          <5> QED BY <5>2 DEF rows
        <4> QED BY <1>1, <4>1
      <3> QED BY <1>5, <2>1, <2>3, <3>1 DEF Revert
    <2>4. \/ file' = Written(hd[h].mine, hd[h].snap) /\ active' = active
          \/ Revert(h) /\ \E done \in SUBSET hd[h].mine : file' = Written(done, hd[h].snap)
      BY <1>6 DEF SwitchSites
    <2>5. ASSUME Revert(h), \E done \in SUBSET hd[h].mine : file' = Written(done, hd[h].snap)
          PROVE  file'[active'][x] = Rendering(row[x])
      <3>1. PICK done \in SUBSET hd[h].mine : file' = Written(done, hd[h].snap)
        BY <2>5
      <3>2. done \in SUBSET Domain
        BY <1>1
      <3> QED BY <2>3, <2>5, <3>1, <3>2
    <2> QED BY <2>2, <2>4, <2>5
  <1>7. CASE SwitchValidate(h) \/ SwitchSwap(h)
    <2>1. hd[h].pc \in {"validate", "swap"} /\ file' = file /\ (active' = active \/ Revert(h))
      BY <1>7 DEF SwitchValidate, SwitchSwap, At, disk
    <2> QED BY <1>4, <1>5, <2>1 DEF Revert, SiteInSync, InSync
  <1>8. CASE SwitchSave(h) \/ SwitchRepool(h) \/ SwitchReconcile(h)
    <2>1. hd[h].pc # "sites" /\ file' = file /\ active' = active
      BY <1>8 DEF SwitchSave, SwitchRepool, SwitchReconcile, At, disk, conf, KeepRest
    <2> QED BY <1>4, <2>1
  <1>9. CASE SwitchRerender(h)
    <2>1. hd[h].pc # "sites" /\ active' = active
      BY <1>9 DEF SwitchRerender, At, conf, KeepRest
    <2>2. PICK done \in SUBSET Domain : file' = Written(done, hd[h].snap)
      BY <1>9 DEF SwitchRerender, Managed
    <2>3. file'[active][x] = IF x \in done THEN Rendering(hd[h].snap[x]) ELSE file[active][x]
      BY SMTT(30), <1>1, <2>2, WritesFiles
    <2> QED BY <1>3, <1>4, <2>1, <2>3
  <1>10. CASE SwitchClean(h)
    <2>1. hd[h].pc # "sites" /\ active' = active
      BY <1>10 DEF SwitchClean, At, conf
    <2>2. file' = [file EXCEPT ![hd[h].server] = [d \in Domain |-> IF d \in hd[h].mine THEN NoFile ELSE @[d]]]
      BY <1>10 DEF SwitchClean
    <2>3. file'[active][x] = file[active][x]
      BY <1>1, <2>2 DEF FileOK
    <2> QED BY <1>4, <2>1, <2>3
  <1>11. ~Regenerate(h) /\ ~RegenApply(h) /\ ~Upgrade(h)
    BY DEF Regenerate, RegenApply, Upgrade, At
  <1> QED BY <1>6, <1>7, <1>8, <1>9, <1>10, <1>11 DEF BulkStep

LEMMA RegenInSync ==
  ASSUME Base, VHostInv, NEW h \in Handler, Step(h), BulkStep(h), hd[h].op # "switch", doubt \subseteq doubt',
         NEW x \in Domain
  PROVE  SiteInSync(x)'
  <1>1. /\ StructInv /\ HandlersOK /\ row' = row /\ active' = active /\ FileChange(h, x) /\ active \in Path
        /\ hd[h].op \in {"regen", "upgrade"} /\ hd[h].pc # "lock"
    BY BulkKinds, FileChanges, ActiveChanges, Constants DEF Base, StructInv, PanelOK, db
  <1>2. ~Rewriting(hd[h], x)
    BY <1>1 DEF Rewriting
  <1>3. CASE FileSame(x)
    BY <1>1, <1>2, <1>3, LeftInSync DEF FileSame
  <1>4. CASE hd[h].op = "regen" /\ x \in hd[h].mine /\ FileIs(x, Rendering(hd[h].snap[x]))
    <2>1. Clear(x) => hd[h].snap[x] = row[x]
      BY <1>1, <1>4 DEF Base, CurrentInv, Current, RegenCurrent
    <2>2. Sure(x, "vhost")' => Clear(x)
      BY DEF Sure, Clear, Aspect
    <2> QED BY <1>1, <1>4, <2>1, <2>2 DEF SiteInSync, InSync, FileIs
  <1> QED BY <1>1, <1>3, <1>4 DEF FileChange, Edits

LEMMA SitesInSync ==
  ASSUME Base, VHostInv, NEW h \in Handler, Step(h), doubt \subseteq doubt', NEW x \in Domain
  PROVE  SiteInSync(x)'
  <1>1. CASE CreatePool(h) \/ CreateVHost(h) \/ CreateRow(h)
    <2>1. hd[h].op = "create"
      BY <1>1 DEF CreatePool, CreateVHost, CreateRow, At
    <2> QED BY <2>1, CreateInSync
  <1>2. CASE DeleteTeardown(h) \/ DeleteDismiss(h) \/ DeleteRows(h)
    <2>1. hd[h].op = "delete"
      BY <1>2 DEF DeleteTeardown, DeleteDismiss, DeleteRows, At
    <2> QED BY <2>1, DeleteInSync
  <1> QED BY <1>1, <1>2, EditInSync, LockInSync, SwitchInSync, RegenInSync, AdoptInSync, ScanInSync, StepKinds

\* What another request holds of a site stays in sync with its virtual host.
LEMMA OthersInSync ==
  ASSUME Base, VHostInv, NEW h \in Handler, Step(h), doubt \subseteq doubt', NEW g \in Handler \ {h}
  PROVE  CopyWritten(hd[g])' /\ OldInSync(hd[g])' /\ QuietInSync(hd[g])'
  <1>1. hd'[g] = hd[g] /\ StructInv /\ HandlersOK /\ OverlapOK /\ QuietOK /\ Busy(h) /\ row \in [Domain -> Row]
    BY StepStays DEF Moves, Base, StructInv, HandlersOK, RowsOK
  <1>2. QuietInSync(hd[g])'
    <2>1. hd[g].op = "regen" => Busy(g)
      BY <1>1, Working DEF Op, Locked
    <2>2. hd[g].op = "regen" => ~hd[g].quiet
      BY <1>1, <2>1 DEF QuietOK
    <2> QED BY <1>1, <2>2 DEF QuietInSync
  <1>3. active \in Path
    BY <1>1, Constants DEF StructInv, PanelOK
  <1>4. CopyWritten(hd[g])'
    <2> DEFINE x == hd[g].d
    <2> SUFFICES ASSUME <<x, "vhost">> \notin doubt',
                        \/ hd[g].op = "create" /\ hd[g].pc = "insert"
                        \/ hd[g].op = "adopt" /\ hd[g].pc = "mark"
                        \/ hd[g].op = "ssl" /\ hd[g].pc \in {"certs", "flag"}
                 PROVE  file'[active'][x] = Rendering(hd[g].copy)
      BY <1>1 DEF CopyWritten, Sure
    <2>1. Sure(x, "vhost") /\ Clear(x)
      BY DEF Sure, Clear, Aspect
    <2>2. file[active][x] = Rendering(hd[g].copy)
      BY <2>1 DEF VHostInv, CopyWritten
    <2>3. hd[g].op \in Op /\ hd[g].op \notin Bulk /\ Busy(g)
      BY <1>1, Working DEF Op, Bulk, Locked
    <2>4. x \in Domain /\ x \in Touched(g)
      BY <1>1, <2>3, Reaches
    <2>5. /\ hd[g].op = "create" => row[x].source = "none"
          /\ hd[g].op = "adopt" => row[x].source = "imported"
          /\ hd[g].op = "ssl" => row[x].source = "managed"
      BY <2>1 DEF Base, CurrentInv, Current, CreateCurrent, AdoptCurrent, EditCurrent, Edits
    <2>6. hd[h].op = "switch" => hd[g].op = "adopt"
      <3>1. hd[h].op = "switch" => x \in Touched(h)
        BY <1>1, <2>4, Reaches DEF Bulk
      <3>2. hd[h].op = "switch" => ~Clash(hd[g].op, "switch")
        BY <1>1, <2>1, <2>4, <3>1, Alongside
      <3> QED BY <3>2 DEF Clash, Single
    <2>7. active' = active
      BY <1>1, <2>6, ActiveChanges DEF Guarded
    <2>8. FileSame(x)
      <3> SUFFICES ASSUME ~FileSame(x) PROVE FALSE
        OBVIOUS
      <3> HIDE DEF x
      <3>1. CASE hd[g].op = "create"
        BY <2>1, <2>4, <2>5, <3>1, FileOwner, BesidesFile
      <3>2. CASE hd[g].op = "adopt"
        BY <2>1, <2>4, <2>5, <3>2, FileOwner, BesidesFile DEF Guarded
      <3>3. CASE hd[g].op = "ssl"
        BY <2>1, <2>4, <2>5, <3>3, FileOwner, BesidesFile DEF Single
      <3> QED BY <3>1, <3>2, <3>3
    <2> QED BY <1>3, <2>2, <2>7, <2>8 DEF FileSame
  <1>5. OldInSync(hd[g])'
    <2> DEFINE s == hd[g].server
    <2> SUFFICES ASSUME hd[g].op = "switch", hd[g].pc \in {"sites", "validate", "swap"}, NEW x \in Domain,
                        row'[x].source = "managed", <<x, "vhost">> \notin doubt'
                 PROVE  file'[s][x] = Rendering(row'[x])
      BY <1>1 DEF OldInSync, Sure
    <2>1. Sure(x, "vhost") /\ Clear(x) /\ Clear(x)'
      BY DEF Sure, Clear, Aspect
    <2>2. Busy(g) /\ x \in Touched(g) /\ s \in Path
      <3>1. Busy(g) /\ hd[g] \in Handling
        BY <1>1, Working DEF Op, Bulk
      <3> QED BY <1>1, <3>1, Reaches, Constants DEF Bulk, Handling
    <2>3. row'[x] = row[x]
      BY <1>1, <2>1, <2>2, Besides DEF Guarded
    <2>4. file[s][x] = Rendering(row[x])
      BY <2>1, <2>3 DEF VHostInv, OldInSync
    <2>5. FileSame(x)
      <3> SUFFICES ASSUME ~FileSame(x) PROVE FALSE
        OBVIOUS
      <3> QED BY <2>1, <2>2, <2>3, FileOwner, BesidesFile DEF Guarded, Single
    <2> QED BY <2>2, <2>3, <2>4, <2>5 DEF FileSame
  <1> QED BY <1>2, <1>4, <1>5

\* What the request that moves holds afterwards.
LEMMA OwnCopy ==
  ASSUME Base, VHostInv, NEW h \in Handler, Step(h), doubt \subseteq doubt'
  PROVE  CopyWritten(hd[h])'
  <1> DEFINE x == hd[h].d
  <1>1. StructInv /\ HandlersOK /\ FileOK(file) /\ active \in Server /\ active \in Path
    BY Constants DEF Base, StructInv, DiskOK, PanelOK
  <1> SUFFICES ASSUME \/ hd'[h].op = "create" /\ hd'[h].pc = "insert"
                      \/ hd'[h].op = "adopt" /\ hd'[h].pc = "mark"
                      \/ hd'[h].op = "ssl" /\ hd'[h].pc \in {"certs", "flag"},
                      <<hd'[h].d, "vhost">> \notin doubt'
               PROVE  file'[active'][hd'[h].d] = Rendering(hd'[h].copy)
    BY DEF CopyWritten, Sure
  <1>2. hd[h].op = hd'[h].op /\ hd'[h].d = x /\ hd'[h] # NoHandling
    BY <1>1, StepStays, Values, Constants DEF Op, Locked
  <1>3. x \in Domain /\ hd[h].copy \in Row /\ ~Reply(h)
    <2>1. Busy(h) /\ hd[h] \in Handling
      BY <1>1, Working, StepStays
    <2> QED BY <1>1, <1>2, <2>1, Working, Replies DEF Bulk, Handling
  <1>4. ASSUME NEW pc \in Pc \ {"idle"}, Goto(h, pc)
        PROVE  hd'[h].pc = pc /\ hd'[h].copy = hd[h].copy
    BY <1>1, <1>4, GoesOn
  <1>5. ASSUME Write(x, hd[h].copy), active' = active, hd'[h].copy = hd[h].copy
        PROVE  file'[active'][hd'[h].d] = Rendering(hd'[h].copy)
    BY <1>1, <1>2, <1>3, <1>5, WritesFile
  <1>6. {"render", "insert", "mark", "pool", "certs", "flag"} \subseteq Pc \ {"idle"}
    BY DEF Pc
  <1>7. CASE hd[h].op = "create"
    <2>1. CreatePool(h) \/ CreateVHost(h) \/ CreateRow(h)
      <3>1. ~DeleteTeardown(h) /\ ~DeleteDismiss(h) /\ ~DeleteRows(h) /\ ~ScanStep(h)
        BY <1>7, ScanKinds DEF DeleteTeardown, DeleteDismiss, DeleteRows, At
      <3>2. ~EditStep(h) /\ ~BulkStep(h) /\ ~AdoptStep(h) /\ ~Lock(h)
        BY <1>1, <1>7, EditKinds, BulkKinds, AdoptKinds, LockReads DEF Edits, Guarded
      <3> QED BY <3>1, <3>2, StepKinds
    <2>2. ~CreateRow(h)
      BY <1>3 DEF CreateRow, RollBack
    <2>3. ~CreatePool(h)
      <3>1. CreatePool(h) => Goto(h, "render")
        BY <1>3 DEF CreatePool
      <3> QED BY <1>2, <1>4, <1>6, <1>7, <3>1
    <2>4. Write(x, hd[h].copy) /\ Goto(h, "insert") /\ active' = active
      BY <1>3, <2>1, <2>2, <2>3 DEF CreateVHost, RollBack, KeepRest, conf
    <2> QED BY <1>4, <1>5, <1>6, <2>4
  <1>8. CASE hd[h].op = "adopt"
    <2>1. AdoptStep(h) \/ Lock(h)
      <3>1. ~DeleteTeardown(h) /\ ~DeleteDismiss(h) /\ ~DeleteRows(h) /\ ~ScanStep(h)
        BY <1>8, ScanKinds DEF DeleteTeardown, DeleteDismiss, DeleteRows, At
      <3>2. ~EditStep(h) /\ ~BulkStep(h) /\ ~CreatePool(h) /\ ~CreateVHost(h) /\ ~CreateRow(h)
        BY <1>1, <1>8, EditKinds, BulkKinds DEF Edits, CreatePool, CreateVHost, CreateRow, At
      <3> QED BY <3>1, <3>2, StepKinds
    <2>2. ~Lock(h)
      BY <1>1, <1>2, <1>3, <1>8, LockReads DEF Enters
    <2>3. ~Unlock(h) /\ ~Restore(h)
      BY <1>3 DEF Unlock, Restore
    <2>4. hd[h].pc = "render" /\ Write(x, hd[h].copy)
      BY <1>1, <1>2, <1>8, <2>1, <2>2, <2>3, AdoptsFiles
    <2>5. AdoptVHost(h)
      BY <2>1, <2>2, <2>4 DEF AdoptStep, AdoptDisable, AdoptPool, AdoptMark, At
    <2>6. Goto(h, "mark") /\ active' = active
      BY <2>3, <2>5 DEF AdoptVHost, conf
    <2> QED BY <1>4, <1>5, <1>6, <2>4, <2>6
  <1>9. CASE hd[h].op = "ssl"
    <2>1. EditStep(h)
      <3>1. ~DeleteTeardown(h) /\ ~DeleteDismiss(h) /\ ~DeleteRows(h) /\ ~ScanStep(h)
        BY <1>9, ScanKinds DEF DeleteTeardown, DeleteDismiss, DeleteRows, At
      <3>2. ~AdoptStep(h) /\ ~BulkStep(h) /\ ~CreatePool(h) /\ ~CreateVHost(h) /\ ~CreateRow(h) /\ ~Lock(h)
        BY <1>1, <1>9, AdoptKinds, BulkKinds, LockReads DEF Guarded, CreatePool, CreateVHost, CreateRow, At
      <3> QED BY <3>1, <3>2, StepKinds
    <2>2. active' = active
      BY <1>1, <2>1, EditKinds
    <2>3. CASE RenderSite(h)
      <3>1. Write(x, hd[h].copy) /\ (Goto(h, "certs") \/ Goto(h, "flag"))
        BY <1>3, <1>9, <2>3 DEF RenderSite
      <3> QED BY <1>4, <1>5, <1>6, <2>2, <3>1
    <2>4. CASE PersistCerts(h)
      <3>1. Goto(h, "flag") /\ file' = file /\ hd[h].pc = "certs"
        BY <1>3, <2>4 DEF PersistCerts, PersistLast, At, disk
      <3>2. Sure(x, "vhost")
        BY <1>2 DEF Sure
      <3>3. file[active][x] = Rendering(hd[h].copy)
        BY <1>9, <3>1, <3>2 DEF VHostInv, CopyWritten
      <3> QED BY <1>2, <1>4, <1>6, <2>2, <3>1, <3>3
    <2>5. ~PersistSSL(h)
      BY <1>3 DEF PersistSSL, PersistLast
    <2>6. ~ServePersist(h) /\ ~ServeDropApp(h) /\ ~ProxyApp(h) /\ ~ProxyPersist(h) /\ ~ProxyConfigure(h)
          /\ ~PhpPool(h) /\ ~PersistPhp(h)
      BY <1>9 DEF ServePersist, ServeDropApp, ProxyApp, ProxyPersist, ProxyConfigure, PhpPool, PersistPhp,
         PersistLast, At
    <2> QED BY <2>1, <2>3, <2>4, <2>5, <2>6 DEF EditStep
  <1> QED BY <1>2, <1>7, <1>8, <1>9

LEMMA OwnQuiet ==
  ASSUME Base, VHostInv, NEW h \in Handler, Step(h), doubt \subseteq doubt'
  PROVE  QuietInSync(hd[h])'
  <1>1. StructInv /\ HandlersOK /\ FileOK(file) /\ active \in Server /\ active \in Path
    BY Constants DEF Base, StructInv, DiskOK, PanelOK
  <1> SUFFICES ASSUME hd'[h].op = "regen", hd'[h].pc = "apply", hd'[h].quiet
               PROVE  \A d \in hd'[h].mine : file'[active'][d] = Rendering(row'[d])
    BY DEF QuietInSync, InSync
  <1>2. hd[h].op = "regen" /\ hd[h].quiet /\ hd'[h] # NoHandling
    BY <1>1, StepStays, Values, Constants DEF Op, Locked
  <1>3. BulkStep(h)
    <2>1. ~DeleteTeardown(h) /\ ~DeleteDismiss(h) /\ ~DeleteRows(h) /\ ~ScanStep(h)
      BY <1>2, ScanKinds DEF DeleteTeardown, DeleteDismiss, DeleteRows, At
    <2>2. ~AdoptStep(h) /\ ~EditStep(h) /\ ~CreatePool(h) /\ ~CreateVHost(h) /\ ~CreateRow(h)
      BY <1>1, <1>2, AdoptKinds, EditKinds DEF Edits, CreatePool, CreateVHost, CreateRow, At
    <2>3. ~Lock(h)
      BY <1>1, <1>2, LockReads, Replies DEF Enters
    <2> QED BY <2>1, <2>2, <2>3, StepKinds
  <1>4. ~Unlock(h)
    BY <1>1, <1>2, Replies DEF Unlock
  <1>5. Regenerate(h)
    BY <1>2, <1>3, <1>4 DEF BulkStep, SwitchSites, SwitchValidate, SwitchSwap, SwitchSave, SwitchRepool,
       SwitchReconcile, SwitchRerender, SwitchClean, RegenApply, Upgrade, At
  <1>6. /\ hd[h].snap = row /\ hd[h].mine = Managed(row) /\ hd[h].mine \in SUBSET Domain
        /\ row' = row /\ active' = active /\ row \in [Domain -> Row]
    <2>1. hd[h].pc # "lock" /\ row' = row /\ active' = active
      BY <1>5 DEF Regenerate, At, db, conf
    <2> QED BY <1>1, <1>2, <2>1 DEF Base, CurrentInv, Current, RegenCurrent, StructInv, RowsOK, Managed
  <1>7. Goto(h, "apply") /\ file' = Written(hd[h].mine, hd[h].snap)
    <2>1. PICK done \in SUBSET hd[h].mine :
            /\ file' = Written({d \in done : Renderable(d, hd[h].snap[d])}, hd[h].snap)
            /\ IF done = hd[h].mine /\ {d \in done : Renderable(d, hd[h].snap[d])} = hd[h].mine
               THEN Goto(h, "apply") ELSE Unlock(h)
      BY <1>5 DEF Regenerate
    <2> QED BY <1>4, <2>1
  <1>8. hd'[h].mine = hd[h].mine
    <2>1. "apply" \in Pc \ {"idle"}
      BY DEF Pc
    <2> QED BY <1>1, <1>7, <2>1, GoesOn
  <1>9. \A d \in hd[h].mine : file'[active][d] = Rendering(row[d])
    BY <1>1, <1>6, <1>7, WritesFiles
  <1> QED BY <1>6, <1>8, <1>9

LEMMA Rewrites ==
  ASSUME Base, NEW g \in Handler, NEW x \in Domain, Rewriting(hd[g], x)
  PROVE  /\ Busy(g) /\ x \in Touched(g)
         /\ hd[g].op \in {"serve", "proxy", "ssl", "delete"} \/ (hd[g].op = "switch" /\ hd[g].pc = "sites")
  <1>1. StructInv /\ HandlersOK
    BY DEF Base, StructInv
  <1>2. hd[g].op \in {"serve", "proxy", "ssl", "delete"} \/ (hd[g].op = "switch" /\ hd[g].pc = "sites")
    BY DEF Rewriting
  <1>3. Busy(g)
    BY <1>1, <1>2, Working DEF Op, Bulk
  <1>4. x \in Touched(g)
    BY <1>1, <1>2, <1>3, Reaches DEF Rewriting, Bulk
  <1> QED BY <1>2, <1>3, <1>4

LEMMA OwnOld ==
  ASSUME Base, VHostInv, NEW h \in Handler, Step(h), doubt \subseteq doubt'
  PROVE  OldInSync(hd[h])'
  <1>1. /\ StructInv /\ HandlersOK /\ FileOK(file) /\ active \in Server /\ active \in Path /\ OverlapOK
        /\ hd[h] \in Handling /\ Holding(hd[h]) /\ LockOK
    BY Constants, Working DEF Base, StructInv, DiskOK, PanelOK
  <1> SUFFICES ASSUME hd'[h].op = "switch", hd'[h].pc \in {"sites", "validate", "swap"}, NEW x \in Domain,
                      row'[x].source = "managed", <<x, "vhost">> \notin doubt'
               PROVE  file'[hd'[h].server][x] = Rendering(row'[x])
    BY DEF OldInSync, Sure
  <1>2. hd[h].op = "switch" /\ hd'[h] # NoHandling /\ Busy(h)
    BY <1>1, StepStays, Values, Constants DEF Op, Bulk
  <1>3. Sure(x, "vhost") /\ Clear(x)
    BY DEF Sure, Clear, Aspect
  <1>4. BulkStep(h) \/ Lock(h)
    <2>1. ~DeleteTeardown(h) /\ ~DeleteDismiss(h) /\ ~DeleteRows(h) /\ ~ScanStep(h)
      BY <1>2, ScanKinds DEF DeleteTeardown, DeleteDismiss, DeleteRows, At
    <2>2. ~AdoptStep(h) /\ ~EditStep(h) /\ ~CreatePool(h) /\ ~CreateVHost(h) /\ ~CreateRow(h)
      BY <1>1, <1>2, AdoptKinds, EditKinds DEF Edits, CreatePool, CreateVHost, CreateRow, At
    <2> QED BY <2>1, <2>2, StepKinds
  <1>5. ~Reply(h) /\ ~Unlock(h)
    BY <1>1, <1>2, Replies DEF Unlock
  <1>6. CASE Lock(h)
    <2>1. hd'[h].server = active /\ row' = row /\ file' = file /\ lock = None
      BY <1>1, <1>2, <1>5, <1>6, LockReads DEF Enters, db, disk
    <2>2. ASSUME NEW g \in Handler, Rewriting(hd[g], x) PROVE FALSE
      <3>1. /\ Busy(g) /\ x \in Touched(g)
            /\ hd[g].op \in {"serve", "proxy", "ssl", "delete"} \/ (hd[g].op = "switch" /\ hd[g].pc = "sites")
        BY <2>2, Rewrites
      <3>2. CASE hd[g].op = "switch" /\ hd[g].pc = "sites"
        BY <1>1, <2>1, <3>2, Constants DEF LockOK, Guarded
      <3>3. CASE hd[g].op \in {"serve", "proxy", "ssl", "delete"}
        <4>1. x \in Touched(h) /\ g # h
          BY <1>1, <1>2, <3>3, Reaches DEF Bulk
        <4>2. ~Clash(hd[g].op, "switch")
          BY <1>1, <1>2, <1>3, <3>1, <4>1, Alongside
        <4> QED BY <3>3, <4>2 DEF Clash, Single
      <3> QED BY <3>1, <3>2, <3>3
    <2>3. InSync(x)
      BY <1>3, <2>1, <2>2 DEF VHostInv, SiteInSync
    <2> QED BY <2>1, <2>3 DEF InSync
  <1>7. CASE BulkStep(h)
    <2>1. row' = row /\ hd[h].mine \in SUBSET Domain /\ hd[h].snap \in [Domain -> Row] /\ hd[h].pc # "lock"
          /\ hd[h].server \in Path /\ hd[h].server # active
      BY <1>1, <1>2, <1>7, BulkKinds, Constants DEF db, Holding
    <2>2. PICK pc \in Pc \ {"idle"} : Goto(h, pc) /\
              \/ hd[h].op = "switch" /\ hd[h].pc = "sites" /\ pc = "validate"
              \/ hd[h].op = "switch" /\ hd[h].pc = "validate" /\ pc = "swap"
      <3>1. hd' # [hd EXCEPT ![h].pc = "rerender", ![h].snap = row]
        BY <1>1, SnapMoves
      <3>2. PICK pc \in Pc \ {"idle"} : Goto(h, pc) /\
              \/ hd[h].op = "switch" /\ hd[h].pc = "sites" /\ pc = "validate"
              \/ hd[h].op = "switch" /\ hd[h].pc = "validate" /\ pc = "swap"
              \/ hd[h].op = "switch" /\ hd[h].pc = "swap" /\ pc = "save"
              \/ hd[h].op = "switch" /\ hd[h].pc = "save" /\ pc = "repool"
              \/ hd[h].op = "switch" /\ hd[h].pc = "repool" /\ pc = "reconcile"
              \/ hd[h].op = "switch" /\ hd[h].pc = "rerender" /\ pc = "clean"
              \/ hd[h].op = "regen" /\ hd[h].pc = "sites" /\ pc = "apply"
        BY <1>1, <1>5, <1>7, <3>1, BulkMoves
      <3>3. hd'[h].pc = pc
        BY <1>1, <3>2, GoesOn
      <3> QED BY <1>2, <3>2, <3>3
    <2>3. hd'[h].server = hd[h].server
      BY <1>1, <2>2, GoesOn
    <2>4. file[hd[h].server][x] = Rendering(row[x])
      BY <1>2, <1>3, <2>1, <2>2 DEF VHostInv, OldInSync
    <2>5. file'[hd[h].server][x] = file[hd[h].server][x]
      <3>1. FileChange(h, x)
        BY <1>1, FileChanges
      <3> QED BY <1>2, <2>1, <2>2, <3>1 DEF FileChange, FileSame, FileIs, Edits
    <2> QED BY <2>1, <2>3, <2>4, <2>5
  <1> QED BY <1>4, <1>6, <1>7

LEMMA StepVHost ==
  ASSUME Base, VHostInv, NEW h \in Handler, Step(h)
  PROVE  VHostInv'
  <1>1. CASE doubt \subseteq doubt'
    <2>1. \A d \in Domain : SiteInSync(d)'
      BY <1>1, SitesInSync
    <2>2. ASSUME NEW g \in Handler
          PROVE  CopyWritten(hd[g])' /\ OldInSync(hd[g])' /\ QuietInSync(hd[g])'
      <3>1. CASE g = h
        BY <1>1, <3>1, OwnCopy, OwnOld, OwnQuiet
      <3>2. CASE g \in Handler \ {h}
        BY <1>1, <3>2, OthersInSync
      <3> QED BY <3>1, <3>2
    <2> QED BY <2>1, <2>2 DEF VHostInv
  <1>2. CASE RegenApply(h) /\ hd[h].quiet
    <2>1. \A g \in Handler : hd'[g] = NoHandling /\ hd'[g].op \notin Op
      BY <1>2, QuietEnds, Values, Constants DEF Base
    <2>2. row' = row /\ file' = file /\ active' = active /\ hd[h].op = "regen" /\ hd[h].pc = "apply"
      BY <1>2 DEF RegenApply, At, db, disk, conf
    <2>3. hd[h].mine = Managed(row) /\ QuietInSync(hd[h])
      BY <1>2, <2>2 DEF Base, CurrentInv, Current, RegenCurrent, VHostInv, Managed
    <2>4. \A d \in Domain : row[d].source = "managed" => InSync(d)
      BY <1>2, <2>2, <2>3 DEF QuietInSync, Managed
    <2> QED BY <2>1, <2>2, <2>4 DEF VHostInv, SiteInSync, InSync, CopyWritten, OldInSync, QuietInSync, Op, Locked, Bulk
  <1>3. StructInv
    BY DEF Base
  <1> QED BY <1>1, <1>2, <1>3, StepDoubts

LEMMA StartVHost ==
  ASSUME Base, VHostInv, Start
  PROVE  VHostInv'
  <1>1. StructInv /\ FileOK(file) /\ saved \in Server /\ saved \in Path
    BY Constants DEF Base, StructInv, DiskOK, PanelOK
  <1>2. ~up /\ row' = Booted /\ hd' = hd /\ active' = saved
    BY StartDoes
  <1>3. PICK done \in SUBSET Served :
          /\ file' = [file EXCEPT ![saved] =
                 [d \in Domain |-> IF d \in done THEN Rendering(Booted[d]) ELSE @[d]]]
          /\ doubt' = (doubt \ (done \X {"vhost"})) \cup (Stranded(Booted, {}) \X Aspect)
               \cup (IF saved # active THEN Domain \X {"pool", "stray", "vhost"} ELSE {})
    BY StartDoes
  <1>4. \A g \in Handler : hd[g] = NoHandling /\ hd[g].op \notin Op
    BY <1>1, <1>2, Values, Constants DEF StructInv, DownOK
  <1>5. ASSUME NEW x \in Domain, Booted[x].source = "managed", <<x, "vhost">> \notin doubt'
        PROVE  file'[saved][x] = Rendering(Booted[x])
    <2>1. row[x] = Booted[x]
      BY <1>1, <1>5, StartRows, Values
    <2>2. active = saved
      BY <1>3, <1>5
    <2>3. CASE x \in done
      BY <1>1, <1>3, <2>3 DEF FileOK
    <2>4. CASE x \notin done
      <3>1. Sure(x, "vhost")
        BY <1>3, <1>5, <2>4 DEF Sure
      <3>2. \A g \in Handler : ~Rewriting(hd[g], x)
        BY <1>4 DEF Rewriting, Op, Bulk
      <3>3. InSync(x)
        BY <1>5, <2>1, <3>1, <3>2 DEF VHostInv, SiteInSync
      <3>4. file'[saved][x] = file[saved][x]
        BY <1>1, <1>3, <2>4 DEF FileOK
      <3> QED BY <2>1, <2>2, <3>3, <3>4 DEF InSync
    <2> QED BY <2>3, <2>4
  <1>6. \A x \in Domain : SiteInSync(x)'
    BY <1>2, <1>5 DEF SiteInSync, InSync, Sure
  <1> QED BY <1>2, <1>4, <1>6 DEF VHostInv, CopyWritten, OldInSync, QuietInSync, Op, Locked, Bulk

LEMMA VHostStep ==
  ASSUME Base, VHostInv, [Next]_vars
  PROVE  VHostInv'
  <1>1. StructInv /\ HandlersOK /\ FileOK(file) /\ active \in Server /\ active \in Path /\ row \in [Domain -> Row]
    BY Constants DEF Base, StructInv, DiskOK, PanelOK, RowsOK
  <1>2. ASSUME NEW h \in Handler, Request(h)
        PROVE  VHostInv'
    <2>1. PICK op \in Op, d \in Domain \cup {None} : \E new \in Handling :
            Asked(h, op, d, new) /\ Opening(op, d, new) /\ doubt \subseteq doubt'
      BY <1>1, <1>2, AskLeaves
    <2>2. PICK new \in Handling : Asked(h, op, d, new) /\ Opening(op, d, new) /\ doubt \subseteq doubt'
      BY <2>1
    <2>3. row' = row /\ file' = file /\ active' = active /\ \A x : Sure(x, "vhost")' => Sure(x, "vhost")
      BY <2>2 DEF Asked, db, disk, conf, Sure
    <2>4. \A g \in Handler \ {h} :
            /\ hd'[g].op = hd[g].op /\ hd'[g].d = hd[g].d /\ hd'[g].pc = hd[g].pc
            /\ hd'[g].copy = hd[g].copy /\ hd'[g].mine = hd[g].mine /\ hd'[g].server = hd[g].server
            /\ hd'[g].quiet => hd[g].quiet
      BY <2>2 DEF Asked
    <2>5. hd[h].op \notin Op
      BY <1>1, <2>2, Working DEF Asked
    <2>6. CopyWritten(hd[h])' /\ OldInSync(hd[h])' /\ QuietInSync(hd[h])'
      <3>1. /\ op = "create" => new.pc = "pool"
            /\ op = "ssl" => new.pc = "render"
            /\ op \in Guarded => new.pc = "lock"
        BY <1>1, <2>2, Opens
      <3>2. hd'[h].op = op /\ hd'[h].pc = new.pc
        BY <2>2 DEF Asked
      <3> QED BY <3>1, <3>2 DEF CopyWritten, OldInSync, QuietInSync, Guarded
    <2>7. ASSUME NEW g \in Handler \ {h}
          PROVE  CopyWritten(hd[g])' /\ OldInSync(hd[g])' /\ QuietInSync(hd[g])'
      <3>1. CopyWritten(hd[g]) /\ OldInSync(hd[g]) /\ QuietInSync(hd[g])
        BY DEF VHostInv
      <3>2. CopyWritten(hd[g])'
        BY <2>3, <2>4, <3>1 DEF CopyWritten
      <3>3. OldInSync(hd[g])'
        BY <2>3, <2>4, <3>1 DEF OldInSync
      <3>4. QuietInSync(hd[g])'
        BY <2>3, <2>4, <3>1 DEF QuietInSync, InSync
      <3> QED BY <3>2, <3>3, <3>4
    <2>8. ASSUME NEW x \in Domain PROVE SiteInSync(x)'
      <3>1. ~Rewriting(hd[h], x)
        BY <2>5 DEF Rewriting, Op, Bulk
      <3>2. \A g \in Handler \ {h} : Rewriting(hd[g], x) => Rewriting(hd'[g], x)
        BY <2>4 DEF Rewriting
      <3>3. SiteInSync(x)
        BY DEF VHostInv
      <3>4. (\A g \in Handler : ~Rewriting(hd'[g], x)) => \A g \in Handler : ~Rewriting(hd[g], x)
        BY <3>1, <3>2
      <3>5. \A g : Rewriting(hd[g], x)' <=> Rewriting(hd'[g], x)
        BY DEF Rewriting
      <3> QED BY <2>3, <3>3, <3>4, <3>5 DEF SiteInSync, InSync
    <2> QED BY <2>6, <2>7, <2>8 DEF VHostInv
  <1>3. CASE Crash
    <2>1. row' = row /\ file' = file /\ active' = active /\ \A x : Sure(x, "vhost")' => Sure(x, "vhost")
      BY <1>3 DEF Crash, db, disk, conf, Sure
    <2>2. \A g \in Handler : hd'[g].op \notin Op
      BY <1>3, Values, Constants DEF Crash
    <2>3. ASSUME NEW x \in Domain PROVE SiteInSync(x)'
      <3>1. Sure(x, "vhost")' => \A g \in Handler : ~Rewriting(hd[g], x)
        <4> SUFFICES ASSUME NEW g \in Handler, Rewriting(hd[g], x) PROVE <<x, "vhost">> \in doubt'
          BY DEF Sure
        <4>1. x \in Touched(g)
          BY Rewrites
        <4> QED BY <1>3, <4>1 DEF Crash, Aspect
      <3>2. SiteInSync(x)
        BY DEF VHostInv
      <3> QED BY <2>1, <3>1, <3>2 DEF SiteInSync, InSync
    <2> QED BY <2>2, <2>3 DEF VHostInv, CopyWritten, OldInSync, QuietInSync, Op, Locked, Bulk
  <1>4. ASSUME NEW d \in Domain, RemoveConf(d)
        PROVE  VHostInv'
    <2> DEFINE fp == ForeignPath[d]
    <2>1. /\ hd' = hd /\ row' = row /\ active' = active /\ d \in Foreign /\ file[fp][d].by = "operator"
          /\ doubt' = doubt \cup ({d} \X {"vhost"}) /\ file' = [file EXCEPT ![fp][d] = NoFile]
      BY <1>4 DEF RemoveConf, db, conf, Doubting
    <2>2. fp \in Path
      BY <2>1, Constants
    <2>3. \A x : Sure(x, "vhost")' => Sure(x, "vhost") /\ x # d
      BY <2>1 DEF Sure
    <2>4. \A x \in Domain, p \in Path : (x # d \/ p # fp) => file'[p][x] = file[p][x]
      BY <1>1, <2>1, <2>2 DEF FileOK
    <2> HIDE DEF fp
    <2>5. ASSUME NEW x \in Domain PROVE SiteInSync(x)'
      <3>1. SiteInSync(x)
        BY DEF VHostInv
      <3> QED BY <1>1, <2>1, <2>3, <2>4, <3>1 DEF SiteInSync, InSync
    <2>6. ASSUME NEW g \in Handler PROVE CopyWritten(hd[g])' /\ OldInSync(hd[g])' /\ QuietInSync(hd[g])'
      <3>1. CopyWritten(hd[g]) /\ OldInSync(hd[g]) /\ QuietInSync(hd[g])
        BY DEF VHostInv
      <3>2. hd[g] \in Handling /\ hd[g].server \in Path /\ (hd[g].op \in {"create", "adopt", "ssl"} => hd[g].d \in Domain)
        <4>1. hd[g] \in Handling /\ (hd[g].op \in {"create", "adopt", "ssl"} => Busy(g) /\ hd[g].op \notin Bulk)
          BY <1>1, Working DEF Op, Locked, Bulk
        <4> QED BY <1>1, <4>1, Working, Constants DEF Handling
      <3>3. CopyWritten(hd[g])'
        BY <1>1, <2>1, <2>3, <2>4, <3>1, <3>2 DEF CopyWritten
      <3>4. OldInSync(hd[g])'
        BY <1>1, <2>1, <2>3, <2>4, <3>1, <3>2 DEF OldInSync
      <3>5. QuietInSync(hd[g])'
        <4> SUFFICES ASSUME hd[g].op = "regen", hd[g].pc = "apply", hd[g].quiet, NEW x \in hd[g].mine
                     PROVE  file'[active][x] = Rendering(row[x])
          BY <2>1 DEF QuietInSync, InSync
        <4>1. file[active][x] = Rendering(row[x])
          BY <3>1 DEF QuietInSync, InSync
        <4>2. x \in Domain
          BY <3>2 DEF Handling
        <4>3. x = d => fp # active
          <5>1. Rendering(row[x]).by = "panel"
            BY <1>1, <4>2, Renders
          <5> QED BY <2>1, <4>1, <5>1
        <4> QED BY <1>1, <2>4, <4>1, <4>2, <4>3
      <3> QED BY <3>3, <3>4, <3>5
    <2> QED BY <2>5, <2>6 DEF VHostInv
  <1>5. CASE SaveSettings \/ (\E d \in Domain : EditPage(d)) \/ UNCHANGED vars
    <2>1. hd' = hd /\ row' = row /\ file' = file /\ active' = active /\ doubt' = doubt
      BY <1>5 DEF SaveSettings, EditPage, vars, db, disk, conf
    <2>2. \A x \in Domain : SiteInSync(x)'
      BY <2>1 DEF VHostInv, SiteInSync, InSync, Sure
    <2>3. \A g \in Handler : CopyWritten(hd[g])' /\ OldInSync(hd[g])' /\ QuietInSync(hd[g])'
      BY <2>1 DEF VHostInv, CopyWritten, OldInSync, QuietInSync, InSync, Sure
    <2> QED BY <2>2, <2>3 DEF VHostInv
  <1> QED BY <1>2, <1>3, <1>4, <1>5, StepVHost, StartVHost DEF Next

LEMMA InitVHost ==
  ASSUME Init
  PROVE  VHostInv
  <1>1. \A g \in Handler : hd[g].op \notin Op
    BY Values, Constants DEF Init
  <1>2. ASSUME NEW x \in Domain, row[x].source = "managed"
        PROVE  InSync(x)
    <2>1. x \in Live
      BY <1>2 DEF Init, Imported, NoRow
    <2> QED BY <2>1, Constants DEF Init, InSync
  <1> QED BY <1>1, <1>2 DEF VHostInv, SiteInSync, CopyWritten, OldInSync, QuietInSync, Op, Locked, Bulk

\* When the panel is idle, the active server reads for every managed site what
\* the site's row says, but for the failures that the code leaves half-way and
\* sites that requests no lock keeps apart changed at a time.
THEOREM ManagedStaysInSync == Spec => []ManagedInSync
  <1>1. Init => Base /\ VHostInv
    BY InitBase, InitVHost
  <1>2. Base /\ VHostInv /\ [Next]_vars => (Base /\ VHostInv)'
    BY BaseStep, VHostStep
  <1>3. Base /\ VHostInv => ManagedInSync
    <2> SUFFICES ASSUME Base, VHostInv, Idle, NEW x \in Domain, row[x].source = "managed", Sure(x, "vhost")
                 PROVE  InSync(x)
      BY DEF ManagedInSync, Managed, InSync
    <2>1. \A g \in Handler : ~Rewriting(hd[g], x)
      BY Rewrites DEF Idle
    <2> QED BY <2>1 DEF VHostInv, SiteInSync
  <1> QED BY <1>1, <1>2, <1>3, PTL DEF Spec

-----------------------------------------------------------------------------
(* What a step does to the pools of a site *)

PoolChange(h, x) ==
  \/ pool'[x] = pool[x]
  \/ /\ hd[h].op = "create" /\ x = hd[h].d
     /\ \/ hd[h].pc = "pool" /\ pool'[x] = PoolFor(hd[h].copy) /\ Goto(h, "render")
        \/ Reply(h) /\ (pool'[x] = {} \/ ~Sure(x, "stray")')
     /\ row' = row
  \/ /\ hd[h].op = "php" /\ hd[h].pc = "pool" /\ x = hd[h].d /\ row' = row
     /\ \/ pool'[x] = PoolFor(hd[h].copy) /\ Goto(h, "render")
        \/ ~Sure(x, "pool")'
  \/ hd[h].op = "delete" /\ hd[h].pc = "teardown" /\ x \in hd[h].mine /\ pool'[x] = {} /\ Goto(h, "drop")
  \/ /\ \/ hd[h].op = "switch" /\ hd[h].pc = "repool"
        \/ hd[h].op = "upgrade" /\ hd[h].pc = "sites"
     /\ x \in hd[h].mine /\ active' = active
     /\ pool'[x] = PoolFor(hd[h].snap[x]) \/ ~Sure(x, "pool")'
  \/ hd[h].op = "regen" /\ hd[h].pc = "sites" /\ x \in hd[h].mine /\ pool'[x] = PoolFor(hd[h].snap[x])
  \/ /\ hd[h].op = "adopt" /\ hd[h].pc \in {"disable", "pool", "render"} /\ x = hd[h].d
     /\ \/ hd[h].pc = "pool" /\ pool'[x] = PoolFor(hd[h].copy) /\ Goto(h, "render")
        \/ pool'[x] = {} /\ Unlock(h)
     /\ row' = row

LEMMA Repools ==
  ASSUME StructInv, NEW S \in SUBSET Domain, NEW rows, NEW failed \in SUBSET S, Repool(S, rows, failed), NEW x \in Domain
  PROVE  pool'[x] = pool[x] \/ (x \in S /\ (pool'[x] = PoolFor(rows[x]) \/ ~Sure(x, "pool")'))
  <1>1. PICK gone \in SUBSET failed :
          pool' = [d \in Domain |-> IF d \in gone THEN {} ELSE IF d \in S THEN PoolFor(rows[d]) ELSE pool[d]]
    BY DEF Repool
  <1>2. doubt' = doubt \cup (failed \X {"pool"})
    BY DEF Repool
  <1>3. CASE x \in gone
    BY <1>2, <1>3 DEF Sure
  <1>4. CASE x \notin gone
    BY <1>1, <1>4
  <1> QED BY <1>3, <1>4

LEMMA SetsPool ==
  ASSUME StructInv, NEW d \in Domain, NEW p, SetPool(d, p), NEW x \in Domain
  PROVE  pool'[x] = IF x = d THEN p ELSE pool[x]
  BY DEF SetPool, StructInv, DiskOK

LEMMA PoolChanges ==
  ASSUME StructInv, NEW h \in Handler, Step(h), NEW x \in Domain
  PROVE  PoolChange(h, x)
  <1>1. HandlersOK /\ hd[h] \in Handling /\ Holding(hd[h])
    BY Working DEF StructInv
  <1>2. CASE pool' = pool
    BY <1>2 DEF PoolChange
  <1>3. CASE CreatePool(h) \/ CreateVHost(h) \/ CreateRow(h)
    <2>1. hd[h].op = "create"
      BY <1>3 DEF CreatePool, CreateVHost, CreateRow, At
    <2>2. hd[h].d \in Domain
      BY <1>1, <2>1, Working, Constants DEF Op, Bulk, Locked, Busy, Handling
    <2>3. \/ pool' = pool
          \/ hd[h].pc = "pool" /\ SetPool(hd[h].d, PoolFor(hd[h].copy)) /\ Goto(h, "render") /\ row' = row
          \/ SetPool(hd[h].d, {}) /\ Reply(h) /\ row' = row
          \/ (\E left : SetPool(hd[h].d, left)) /\ Doubting(hd[h].d, {"pool", "stray"}) /\ Reply(h) /\ row' = row
      <3>1. CASE CreatePool(h)
        BY <3>1 DEF CreatePool, At, db
      <3>2. CASE CreateVHost(h) \/ CreateRow(h)
        <4>1. RollBack(h) => SetPool(hd[h].d, {}) /\ Reply(h)
          BY DEF RollBack
        <4>2. pool' = pool \/ (RollBack(h) /\ row' = row)
          BY <3>2 DEF CreateVHost, CreateRow, db
        <4> QED BY <4>1, <4>2
      <3> QED BY <1>3, <3>1, <3>2
    <2>4. CASE hd[h].pc = "pool" /\ SetPool(hd[h].d, PoolFor(hd[h].copy)) /\ Goto(h, "render") /\ row' = row
      BY <2>1, <2>2, <2>4, SetsPool DEF PoolChange
    <2>5. CASE SetPool(hd[h].d, {}) /\ Reply(h) /\ row' = row
      BY <2>1, <2>2, <2>5, SetsPool DEF PoolChange
    <2>6. CASE (\E left : SetPool(hd[h].d, left)) /\ Doubting(hd[h].d, {"pool", "stray"}) /\ Reply(h) /\ row' = row
      <3>1. x = hd[h].d => ~Sure(x, "stray")'
        BY <2>6 DEF Doubting, Sure
      <3> QED BY <2>1, <2>2, <2>6, <3>1, SetsPool DEF PoolChange
    <2> QED BY <1>2, <2>3, <2>4, <2>5, <2>6
  <1>4. CASE DeleteTeardown(h)
    <2>1. hd[h].op = "delete" /\ hd[h].pc = "teardown" /\ Goto(h, "drop")
      BY <1>4 DEF DeleteTeardown, At
    <2>2. pool' = [d \in Domain |-> IF d \in hd[h].mine THEN {} ELSE pool[d]]
      BY <1>4 DEF DeleteTeardown
    <2> QED BY <2>1, <2>2 DEF PoolChange
  <1>5. CASE DeleteDismiss(h) \/ DeleteRows(h)
    BY <1>2, <1>5 DEF DeleteDismiss, DeleteRows, disk
  <1>6. CASE EditStep(h)
    <2>1. CASE PhpPool(h)
      <3>1. /\ hd[h].op = "php" /\ hd[h].pc = "pool" /\ row' = row
            /\ \/ SetPool(hd[h].d, PoolFor(hd[h].copy)) /\ Goto(h, "render")
               \/ (\E left : SetPool(hd[h].d, left)) /\ Doubting(hd[h].d, {"pool"})
        BY <2>1 DEF PhpPool, At, db, Spoils
      <3>2. hd[h].d \in Domain
        BY <1>6, EditKinds
      <3>3. CASE SetPool(hd[h].d, PoolFor(hd[h].copy)) /\ Goto(h, "render")
        BY <3>1, <3>2, <3>3, SetsPool DEF PoolChange
      <3>4. CASE (\E left : SetPool(hd[h].d, left)) /\ Doubting(hd[h].d, {"pool"})
        <4>1. x = hd[h].d => ~Sure(x, "pool")'
          BY <3>4 DEF Doubting, Sure
        <4> QED BY <3>1, <3>2, <3>4, <4>1, SetsPool DEF PoolChange
      <3> QED BY <3>1, <3>3, <3>4
    <2> QED BY <1>2, <1>6, <2>1 DEF EditStep, ServePersist, ServeDropApp, ProxyApp, ProxyPersist, ProxyConfigure,
       RenderSite, PersistCerts, PersistSSL, PersistPhp, PersistLast, disk
  <1>7. CASE Lock(h)
    BY <1>2, <1>7, LockReads DEF disk
  <1>8. CASE ScanStep(h)
    BY <1>2, <1>8, ScanKinds DEF disk
  <1>9. CASE AdoptStep(h)
    <2>1. hd[h].op = "adopt" /\ hd[h].d \in Domain
      BY <1>9, AdoptKinds
    <2>2. Restore(h) => SetPool(hd[h].d, {}) /\ Unlock(h)
      BY DEF Restore
    <2>3. \/ pool' = pool
          \/ /\ hd[h].pc \in {"disable", "pool", "render"} /\ row' = row
             /\ \/ hd[h].pc = "pool" /\ SetPool(hd[h].d, PoolFor(hd[h].copy)) /\ Goto(h, "render")
                \/ SetPool(hd[h].d, {}) /\ Unlock(h)
      <3>1. CASE AdoptDisable(h)
        BY <3>1 DEF AdoptDisable, At, db
      <3>2. CASE AdoptPool(h)
        BY <2>2, <3>2 DEF AdoptPool, At, db
      <3>3. CASE AdoptVHost(h)
        BY <2>2, <3>3 DEF AdoptVHost, At, db
      <3>4. CASE AdoptMark(h)
        BY <3>4 DEF AdoptMark, disk
      <3> QED BY <1>9, <3>1, <3>2, <3>3, <3>4 DEF AdoptStep
    <2> QED BY <1>2, <2>1, <2>3, SetsPool DEF PoolChange
  <1>10. CASE BulkStep(h)
    <2>1. hd[h].mine \in SUBSET Domain
      BY <1>10, BulkKinds
    <2>2. CASE SwitchRepool(h)
      <3>1. hd[h].op = "switch" /\ hd[h].pc = "repool" /\ active' = active
        BY <2>2 DEF SwitchRepool, At, KeepRest, conf
      <3>2. PICK failed \in SUBSET hd[h].mine : Repool(hd[h].mine, hd[h].snap, failed)
        BY <2>2 DEF SwitchRepool
      <3>3. pool'[x] = pool[x] \/ (x \in hd[h].mine /\ (pool'[x] = PoolFor(hd[h].snap[x]) \/ ~Sure(x, "pool")'))
        BY <2>1, <3>2, Repools
      <3> QED BY <3>1, <3>3 DEF PoolChange
    <2>3. CASE Upgrade(h)
      <3>1. hd[h].op = "upgrade" /\ hd[h].pc = "sites" /\ active' = active
        BY <2>3 DEF Upgrade, At, conf
      <3>2. PICK failed \in SUBSET hd[h].mine : Repool(hd[h].mine, hd[h].snap, failed)
        BY <2>3 DEF Upgrade
      <3>3. pool'[x] = pool[x] \/ (x \in hd[h].mine /\ (pool'[x] = PoolFor(hd[h].snap[x]) \/ ~Sure(x, "pool")'))
        BY <2>1, <3>2, Repools
      <3> QED BY <3>1, <3>3 DEF PoolChange
    <2>4. CASE Regenerate(h)
      <3>1. hd[h].op = "regen" /\ hd[h].pc = "sites"
        BY <2>4 DEF Regenerate, At
      <3>2. PICK done \in SUBSET hd[h].mine :
              pool' = [d \in Domain |-> IF d \in done THEN PoolFor(hd[h].snap[d]) ELSE pool[d]]
        BY <2>4 DEF Regenerate
      <3> QED BY <3>1, <3>2 DEF PoolChange
    <2> QED BY <1>2, <1>10, <2>2, <2>3, <2>4 DEF BulkStep, SwitchSites, SwitchValidate, SwitchSwap, SwitchSave,
       SwitchReconcile, SwitchRerender, SwitchClean, RegenApply, disk
  <1> QED BY <1>3, <1>4, <1>5, <1>6, <1>7, <1>8, <1>9, <1>10, StepKinds

\* The row of a site whose pools a step changes.
LEMMA PoolOwner ==
  ASSUME Base, NEW h \in Handler, Step(h), NEW x \in Domain, Clear(x), pool'[x] # pool[x]
  PROVE  /\ x \in Touched(h)
         /\ \/ hd[h].op = "create" /\ row[x].source = "none"
            \/ hd[h].op = "php" /\ row[x].source = "managed"
            \/ hd[h].op = "delete" /\ row[x].source # "imported"
            \/ hd[h].op \in {"switch", "regen", "upgrade"} /\ hd[h].pc # "lock" /\ row[x].source = "managed"
            \/ hd[h].op = "adopt" /\ hd[h].pc # "lock" /\ row[x].source = "imported"
  <1>1. PoolChange(h, x) /\ Busy(h) /\ HandlersOK /\ StructInv
    BY PoolChanges, StepStays DEF Base, StructInv
  <1>2. Current(hd[h])
    BY DEF Base, CurrentInv
  <1>3. /\ hd[h].op \notin Bulk => hd[h].d \in Touched(h)
        /\ hd[h].op \in Bulk => Touched(h) = Domain
        /\ hd[h].op = "delete" => hd[h].mine \subseteq Touched(h)
    BY <1>1, Reaches
  <1>4. CASE hd[h].op \in {"create", "adopt", "php"} /\ x = hd[h].d
    BY <1>1, <1>2, <1>3, <1>4 DEF PoolChange, Current, CreateCurrent, EditCurrent, AdoptCurrent, Bulk, Edits
  <1>5. CASE hd[h].op = "delete" /\ x \in hd[h].mine
    BY <1>2, <1>3, <1>5 DEF Current, DeleteCurrent
  <1>6. CASE hd[h].op = "switch" /\ hd[h].pc # "lock" /\ x \in hd[h].mine
    BY <1>2, <1>3, <1>6 DEF Current, SwitchCurrent, Bulk
  <1>7. CASE hd[h].op = "regen" /\ hd[h].pc # "lock" /\ x \in hd[h].mine
    <2>1. row[x].source = "managed"
      BY <1>2, <1>7 DEF Current, RegenCurrent, Managed
    <2> QED BY <1>3, <1>7, <2>1 DEF Bulk
  <1>8. CASE hd[h].op = "upgrade" /\ hd[h].pc # "lock" /\ x \in hd[h].mine
    <2>1. row[x].source = "managed"
      BY <1>2, <1>8 DEF Current, UpgradeCurrent
    <2> QED BY <1>3, <1>8, <2>1 DEF Bulk
  <1> QED BY <1>1, <1>4, <1>5, <1>6, <1>7, <1>8 DEF PoolChange

LEMMA BesidesPool ==
  ASSUME Base, NEW h \in Handler, Step(h), NEW g \in Handler \ {h}, NEW x \in Domain, Clear(x), pool'[x] # pool[x],
         x \in Touched(g)
  PROVE  /\ hd[h].op = "create" => hd[g].op \in {"regen", "upgrade"}
         /\ hd[h].op = "php" => hd[g].op \in {"adopt", "scan"}
         /\ hd[h].op = "delete" => hd[g].op = "delete"
         /\ hd[h].op = "switch" => hd[g].op \notin Single
         /\ hd[h].op = "regen" => hd[g].op \notin Single \ {"create"}
         /\ hd[h].op = "upgrade" => hd[g].op \notin {"delete", "php"}
         /\ hd[h].op = "adopt" => hd[g].op \notin {"create", "delete", "scan"}
         /\ hd[h].op \in Guarded /\ hd[g].op \in Guarded => hd[g].pc = "lock"
  <1>1. StructInv /\ OverlapOK /\ x \in Touched(h) /\ (hd[h].op \in Guarded => hd[h].pc # "lock")
    BY PoolOwner DEF Base, Guarded
  <1> DEFINE p == hd[h].op
             q == hd[g].op
  <1>2. p \in Op /\ q \in Op /\ ~Clash(p, q) /\ ~Clash(q, p)
    BY <1>1, Alongside
  <1>3. p \in Guarded /\ q \in Guarded => hd[g].pc = "lock"
    BY <1>1 DEF StructInv, LockOK
  <1> HIDE DEF p, q
  <1>4. /\ p = "switch" => q \notin Single
        /\ p = "regen" => q \notin Single \ {"create"}
        /\ p = "upgrade" => q \notin {"delete", "php"}
    BY <1>2 DEF Clash
  <1>5. /\ p = "create" => q \in {"regen", "upgrade"}
        /\ p = "php" => q \in {"adopt", "scan"}
        /\ p = "delete" => q = "delete"
        /\ p = "adopt" => q \notin {"create", "delete", "scan"}
    BY <1>2, Clashes DEF Edits
  <1> QED BY <1>3, <1>4, <1>5 DEF p, q

-----------------------------------------------------------------------------
(* Pools of managed sites *)

\* One pool, of the version, whose socket the server may open.
Fit(pools, version, server) == \E p \in pools : pools = {p} /\ p.php = version /\ p.owner = server

\* A request that has changed the pool and not yet the row, or the other way round;
\* a switch before it hands the sockets to the new server.
Repooling(g, d) ==
  \/ g.op = "php" /\ g.pc \in {"render", "persist"} /\ d = g.d
  \/ g.op = "delete" /\ g.pc = "drop" /\ d \in g.mine
  \/ g.op = "switch" /\ g.pc \in {"sites", "validate", "swap", "save", "repool"}

SitePooled(d) ==
  row[d].source = "managed" /\ Sure(d, "pool") /\ (\A h \in Handler : ~Repooling(hd[h], d)) =>
    Fit(pool[d], row[d].php, active)
CopyPooled(g) ==
  /\ \/ g.op \in {"create", "adopt"} /\ g.pc \in {"render", "insert", "mark"}
     \/ g.op = "php" /\ g.pc \in {"render", "persist"}
  /\ Sure(g.d, "pool")
  => Fit(pool[g.d], g.copy.php, active)
\* Until then the sockets are the old server's.
OldPooled(g) ==
  g.op = "switch" /\ g.pc \in {"sites", "validate", "swap", "save", "repool"} =>
    \A d \in Domain : row[d].source = "managed" /\ Sure(d, "pool") => Fit(pool[d], row[d].php, g.server)
QuietPooled(g) ==
  g.op = "regen" /\ g.pc = "apply" /\ g.quiet => \A d \in g.mine : Fit(pool[d], row[d].php, active)
PoolInv ==
  /\ \A d \in Domain : SitePooled(d)
  /\ \A h \in Handler : CopyPooled(hd[h]) /\ OldPooled(hd[h]) /\ QuietPooled(hd[h])

LEMMA PoolFits ==
  ASSUME NEW r \in Row
  PROVE  Fit(PoolFor(r), r.php, active)
  BY DEF Fit, PoolFor

LEMMA LeftPooled ==
  ASSUME Base, PoolInv, NEW h \in Handler, Step(h), doubt \subseteq doubt', NEW x \in Domain,
         row'[x].source = "managed" => row[x].source = "managed" /\ row'[x].php = row[x].php,
         pool'[x] = pool[x], active' = active, ~Repooling(hd[h], x)
  PROVE  SitePooled(x)'
  <1>1. \A g \in Handler \ {h} : hd'[g] = hd[g]
    BY StepStays DEF Moves, Base, StructInv, HandlersOK
  <1> SUFFICES ASSUME row'[x].source = "managed", <<x, "pool">> \notin doubt',
                      \A g \in Handler : ~Repooling(hd'[g], x)
               PROVE  Fit(pool'[x], row'[x].php, active')
    BY DEF SitePooled, Sure, Repooling
  <1>2. \A g \in Handler : ~Repooling(hd[g], x)
    BY <1>1
  <1>3. Sure(x, "pool")
    BY DEF Sure
  <1>4. Fit(pool[x], row[x].php, active)
    BY <1>2, <1>3 DEF PoolInv, SitePooled
  <1> QED BY <1>4

LEMMA CreatePooled ==
  ASSUME Base, PoolInv, NEW h \in Handler, Step(h), hd[h].op = "create", doubt \subseteq doubt', NEW x \in Domain
  PROVE  SitePooled(x)'
  <1>1. StructInv /\ HandlersOK /\ RowChange(h, x) /\ PoolChange(h, x) /\ active' = active
    BY RowChanges, PoolChanges, ActiveChanges DEF Base, StructInv
  <1>2. ~Repooling(hd[h], x)
    BY DEF Repooling
  <1>3. CASE row'[x] = row[x] /\ pool'[x] = pool[x]
    BY <1>1, <1>2, <1>3, LeftPooled
  <1>4. CASE ~(row'[x] = row[x] /\ pool'[x] = pool[x])
    <2>1. x = hd[h].d
      BY <1>1, <1>4 DEF RowChange, PoolChange, Edits
    <2>2. CASE row'[x] = row[x] /\ Clear(x)
      <3>1. row[x].source = "none"
        BY <2>1, <2>2 DEF Base, CurrentInv, Current, CreateCurrent
      <3> QED BY <2>2, <3>1 DEF SitePooled
    <2>3. CASE ~Clear(x)
      BY <2>3 DEF Clear, Sure, Aspect, SitePooled
    <2>4. CASE row'[x] # row[x]
      <3>1. CreateRow(h) /\ hd[h].pc = "insert"
        <4>1. ~DeleteTeardown(h) /\ ~DeleteDismiss(h) /\ ~DeleteRows(h) /\ ~ScanStep(h)
          BY ScanKinds DEF DeleteTeardown, DeleteDismiss, DeleteRows, At
        <4>2. ~EditStep(h) /\ ~BulkStep(h) /\ ~AdoptStep(h) /\ ~Lock(h)
          BY <1>1, EditKinds, BulkKinds, AdoptKinds, LockReads DEF Edits, Guarded
        <4>3. ~CreatePool(h) /\ ~CreateVHost(h)
          BY <2>4 DEF CreatePool, CreateVHost, db
        <4> QED BY <4>1, <4>2, <4>3, StepKinds DEF CreateRow, At
      <3>2. pool' = pool
        BY <2>4, <3>1 DEF CreateRow
      <3>3. row'[x] = [hd[h].copy EXCEPT !.id = ids + 1] /\ hd[h].copy \in Row
        BY <1>1, <2>4, Working DEF RowChange, Edits, Handling
      <3>4. Sure(x, "pool")' => Fit(pool[x], hd[h].copy.php, active)
        BY <2>1, <3>1 DEF PoolInv, CopyPooled, Sure
      <3>5. row'[x].php = hd[h].copy.php
        BY <3>3 DEF Row
      <3> QED BY <1>1, <3>2, <3>4, <3>5 DEF SitePooled
    <2> QED BY <2>2, <2>3, <2>4
  <1> QED BY <1>3, <1>4

LEMMA EditPooled ==
  ASSUME Base, PoolInv, NEW h \in Handler, Step(h), EditStep(h), doubt \subseteq doubt', NEW x \in Domain
  PROVE  SitePooled(x)'
  <1>1. /\ StructInv /\ HandlersOK /\ active' = active /\ hd[h].op \in Edits
        /\ RowChange(h, x) /\ PoolChange(h, x) /\ hd[h].copy \in Row /\ row[x] \in Row
    BY RowChanges, PoolChanges, EditKinds DEF Base, StructInv, RowsOK
  <1>2. CASE x # hd[h].d
    <2>1. row'[x] = row[x] /\ pool'[x] = pool[x] /\ ~Repooling(hd[h], x)
      BY <1>1, <1>2 DEF RowChange, PoolChange, Edits, Repooling
    <2> QED BY <1>1, <2>1, LeftPooled
  <1>3. CASE x = hd[h].d /\ hd[h].op # "php"
    <2>1. pool'[x] = pool[x] /\ ~Repooling(hd[h], x)
      BY <1>1, <1>3 DEF PoolChange, Edits, Repooling
    <2>2. row'[x] = row[x] \/ row'[x] = Persisted(h)
      BY <1>1 DEF RowChange, Edits
    <2>3. row'[x].source = row[x].source /\ row'[x].php = row[x].php
      BY <1>1, <1>3, <2>2 DEF Persisted, Edits, Row
    <2> QED BY <1>1, <2>1, <2>3, LeftPooled
  <1>4. CASE ~Sure(x, "pool")'
    BY <1>4 DEF SitePooled
  <1>5. CASE x = hd[h].d /\ hd[h].op = "php" /\ Sure(x, "pool")'
    <2>1. Sure(x, "pool") /\ Clear(x)
      BY <1>5 DEF Sure, Clear, Aspect
    <2>2. row[x].source = "managed" /\ [row[x] EXCEPT !.php = hd[h].copy.php] = hd[h].copy
      BY <1>1, <1>5, <2>1 DEF Base, CurrentInv, Current, EditCurrent, Draft
    <2>3. ASSUME NEW pc \in {"render", "persist"}, Goto(h, pc)
          PROVE  SitePooled(x)'
      <3>1. pc \in Pc \ {"idle"}
        BY <2>3 DEF Pc
      <3>2. hd'[h].op = "php" /\ hd'[h].d = x /\ hd'[h].pc = pc
        BY <1>1, <1>5, <2>3, <3>1, GoesOn
      <3>3. Repooling(hd'[h], x)
        BY <2>3, <3>2 DEF Repooling
      <3>4. Repooling(hd[h], x)'
        BY <3>3 DEF Repooling
      <3> QED BY <3>4 DEF SitePooled
    <2>4. ~Doubting(x, {"pool"})
      BY <1>5 DEF Doubting, Sure
    <2>5. CASE PhpPool(h)
      BY <1>5, <2>3, <2>4, <2>5 DEF PhpPool, Spoils
    <2>6. CASE RenderSite(h)
      <3>1. Goto(h, "persist") \/ Doubting(x, {"pool"})
        BY <1>5, <2>6 DEF RenderSite, Spoils
      <3> QED BY <2>3, <2>4, <3>1
    <2>7. CASE PersistPhp(h)
      <3>1. hd[h].pc = "persist" /\ pool' = pool /\ Update(x, hd[h].copy.id, [row[x] EXCEPT !.php = hd[h].copy.php])
        BY <1>5, <2>4, <2>7 DEF PersistPhp, PersistLast, At, Spoils, disk
      <3>2. Fit(pool[x], hd[h].copy.php, active)
        BY <1>5, <2>1, <3>1 DEF PoolInv, CopyPooled
      <3>3. row[x].id = hd[h].copy.id
        BY <1>1, <2>2 DEF Row
      <3>4. row'[x] = [row[x] EXCEPT !.php = hd[h].copy.php]
        BY <3>1, <3>3 DEF Update, Base, StructInv, RowsOK
      <3>5. row'[x].php = hd[h].copy.php
        BY <1>1, <3>4 DEF Row
      <3> QED BY <1>1, <3>1, <3>2, <3>5 DEF SitePooled
    <2>8. ~ServePersist(h) /\ ~ServeDropApp(h) /\ ~ProxyApp(h) /\ ~ProxyPersist(h) /\ ~ProxyConfigure(h)
          /\ ~PersistCerts(h) /\ ~PersistSSL(h)
      BY <1>5 DEF ServePersist, ServeDropApp, ProxyApp, ProxyPersist, ProxyConfigure, PersistCerts, PersistSSL,
         PersistLast, At
    <2> QED BY <2>5, <2>6, <2>7, <2>8 DEF EditStep
  <1> QED BY <1>2, <1>3, <1>4, <1>5

LEMMA DeletePooled ==
  ASSUME Base, PoolInv, NEW h \in Handler, Step(h), hd[h].op = "delete", doubt \subseteq doubt', NEW x \in Domain
  PROVE  SitePooled(x)'
  <1>1. StructInv /\ HandlersOK /\ RowChange(h, x) /\ PoolChange(h, x) /\ active' = active /\ row[x] \in Row
    BY RowChanges, PoolChanges, ActiveChanges DEF Base, StructInv, RowsOK
  <1>2. row'[x] = row[x] \/ row'[x].source = "none"
    BY <1>1, Values DEF RowChange, Edits
  <1>3. CASE pool'[x] = pool[x] /\ ~Repooling(hd[h], x)
    BY <1>1, <1>2, <1>3, LeftPooled
  <1>4. CASE pool'[x] # pool[x]
    <2>1. x \in hd[h].mine /\ Goto(h, "drop") /\ "drop" \in Pc \ {"idle"}
      BY <1>1, <1>4 DEF PoolChange, Pc
    <2>2. hd'[h].op = "delete" /\ hd'[h].pc = "drop" /\ x \in hd'[h].mine
      BY <1>1, <2>1, GoesOn
    <2>3. Repooling(hd[h], x)'
      BY <2>2 DEF Repooling
    <2> QED BY <2>3 DEF SitePooled
  <1>5. CASE Repooling(hd[h], x)
    <2>1. hd[h].pc = "drop" /\ x \in hd[h].mine
      BY <1>5 DEF Repooling
    <2>2. DeleteRows(h)
      <3>1. ~CreatePool(h) /\ ~CreateVHost(h) /\ ~CreateRow(h) /\ ~ScanStep(h) /\ ~DeleteTeardown(h) /\ ~DeleteDismiss(h)
        BY <2>1, ScanKinds DEF CreatePool, CreateVHost, CreateRow, DeleteTeardown, DeleteDismiss, At
      <3>2. ~EditStep(h) /\ ~BulkStep(h) /\ ~AdoptStep(h) /\ ~Lock(h)
        BY <1>1, EditKinds, BulkKinds, AdoptKinds, LockReads DEF Edits, Guarded
      <3> QED BY <3>1, <3>2, StepKinds
    <2>3. CASE doubt' = doubt \cup (hd[h].mine \X {"vhost", "pool"})
      BY <2>1, <2>3 DEF SitePooled, Sure
    <2>4. CASE row' = IF row[hd[h].d].id = hd[h].copy.id THEN Deleted(row, {hd[h].d}) ELSE row
      <3>1. CASE row[x].source = "managed" /\ Clear(x)
        <4>1. row[hd[h].d].id = hd[h].copy.id /\ (x = hd[h].d \/ row[x].sub)
          BY <2>1, <3>1 DEF Base, CurrentInv, Current, DeleteCurrent
        <4>2. x = hd[h].d \/ ParentOf[x] = hd[h].d
          <5>1. x \in Reach("delete", hd[h].d)
            BY <1>1, <2>1, Working DEF Holding
          <5> QED BY <5>1 DEF Reach, Bulk
        <4>3. row'[x] = NoRow
          BY <2>4, <4>1, <4>2 DEF Deleted
        <4> QED BY <4>3, Values DEF SitePooled
      <3>2. CASE row[x].source # "managed"
        BY <1>2, <3>2 DEF SitePooled
      <3>3. CASE ~Clear(x)
        BY <3>3 DEF Clear, Sure, Aspect, SitePooled
      <3> QED BY <3>1, <3>2, <3>3
    <2> QED BY <2>2, <2>3, <2>4 DEF DeleteRows
  <1> QED BY <1>3, <1>4, <1>5

LEMMA LockPooled ==
  ASSUME Base, PoolInv, NEW h \in Handler, Step(h), Lock(h), doubt \subseteq doubt', NEW x \in Domain
  PROVE  SitePooled(x)'
  <1>1. hd[h].pc = "lock" /\ hd[h].op \in Guarded /\ row' = row /\ pool' = pool
    BY LockReads DEF Base, db, disk
  <1>2. CASE active' = active
    <2>1. ~Repooling(hd[h], x)
      BY <1>1 DEF Repooling
    <2> QED BY <1>1, <1>2, <2>1, LeftPooled
  <1>3. CASE active' # active
    <2>1. hd'[h].op = "switch" /\ hd'[h].pc = "sites"
      BY <1>1, <1>3, LockReads DEF Base, Enters
    <2>2. Repooling(hd[h], x)'
      BY <2>1 DEF Repooling
    <2> QED BY <2>2 DEF SitePooled
  <1> QED BY <1>2, <1>3

LEMMA AdoptPooled ==
  ASSUME Base, PoolInv, NEW h \in Handler, Step(h), AdoptStep(h), doubt \subseteq doubt', NEW x \in Domain
  PROVE  SitePooled(x)'
  <1>1. StructInv /\ HandlersOK /\ RowChange(h, x) /\ PoolChange(h, x) /\ active' = active
        /\ hd[h].op = "adopt" /\ hd[h].pc # "lock" /\ row[x] \in Row /\ hd[h].copy \in Row
    BY RowChanges, PoolChanges, ActiveChanges, AdoptKinds DEF Base, StructInv, RowsOK
  <1>2. ~Repooling(hd[h], x)
    BY <1>1 DEF Repooling
  <1>3. CASE x # hd[h].d
    <2>1. row'[x] = row[x] /\ pool'[x] = pool[x]
      BY <1>1, <1>3 DEF RowChange, PoolChange, Edits
    <2> QED BY <1>1, <1>2, <2>1, LeftPooled
  <1>4. CASE ~Clear(x)
    BY <1>4 DEF Clear, Sure, Aspect, SitePooled
  <1>5. CASE x = hd[h].d /\ Clear(x)
    <2>1. row[x].source = "imported"
      BY <1>1, <1>5 DEF Base, CurrentInv, Current, AdoptCurrent
    <2>2. CASE row'[x] = row[x]
      BY <2>1, <2>2 DEF SitePooled
    <2>3. CASE row'[x] # row[x]
      <3>1. hd[h].pc = "mark" /\ row'[x] = [row[x] EXCEPT !.source = "managed", !.php = hd[h].copy.php, !.conf = None]
        BY <1>1, <2>3 DEF RowChange, Edits
      <3>2. pool' = pool
        BY <3>1 DEF AdoptStep, AdoptDisable, AdoptPool, AdoptVHost, AdoptMark, At, disk
      <3>3. Sure(x, "pool")' => Fit(pool[x], hd[h].copy.php, active)
        BY <1>1, <1>5, <3>1 DEF PoolInv, CopyPooled, Sure
      <3>4. row'[x].php = hd[h].copy.php
        BY <1>1, <3>1 DEF Row
      <3> QED BY <1>1, <3>2, <3>3, <3>4 DEF SitePooled
    <2> QED BY <2>2, <2>3
  <1> QED BY <1>3, <1>4, <1>5

LEMMA ScanPooled ==
  ASSUME Base, PoolInv, NEW h \in Handler, Step(h), ScanStep(h), doubt \subseteq doubt', NEW x \in Domain
  PROVE  SitePooled(x)'
  <1>1. hd[h].op = "scan"
    BY ScanKinds
  <1>2. RowChange(h, x) /\ pool' = pool /\ active' = active
    BY RowChanges, ScanKinds DEF Base, disk, conf
  <1>3. row'[x].source = "managed" => row'[x] = row[x]
    BY <1>1, <1>2, Values DEF RowChange, Edits
  <1>4. ~Repooling(hd[h], x)
    BY <1>1 DEF Repooling
  <1> QED BY <1>2, <1>3, <1>4, LeftPooled

LEMMA SwitchPooled ==
  ASSUME Base, PoolInv, NEW h \in Handler, Step(h), BulkStep(h), hd[h].op = "switch", doubt \subseteq doubt',
         NEW x \in Domain
  PROVE  SitePooled(x)'
  <1>1. /\ StructInv /\ HandlersOK /\ row' = row /\ PoolChange(h, x) /\ hd[h].pc # "lock"
        /\ hd[h].mine \in SUBSET Domain /\ hd[h].snap \in [Domain -> Row]
    BY BulkKinds, PoolChanges DEF Base, StructInv, db
  <1> SUFFICES ASSUME row[x].source = "managed", <<x, "pool">> \notin doubt',
                      \A g \in Handler : ~Repooling(hd'[g], x)
               PROVE  Fit(pool'[x], row[x].php, active')
    BY <1>1 DEF SitePooled, Sure, Repooling
  <1>2. Sure(x, "pool") /\ Clear(x) /\ Sure(x, "pool")'
    BY DEF Sure, Clear, Aspect
  <1>3. x \in hd[h].mine /\ hd[h].snap[x] = row[x]
    BY <1>1, <1>2 DEF Base, CurrentInv, Current, SwitchCurrent
  <1>4. ASSUME NEW pc \in {"validate", "swap", "save", "repool"}, Goto(h, pc) PROVE FALSE
    <2>1. pc \in Pc \ {"idle"}
      BY <1>4 DEF Pc
    <2>2. hd'[h].op = "switch" /\ hd'[h].pc = pc
      BY <1>1, <1>4, <2>1, GoesOn
    <2> QED BY <1>4, <2>2 DEF Repooling
  <1>5. CASE hd[h].pc \in {"sites", "validate", "swap"}
    <2>1. active' = hd[h].server
      BY <1>4, <1>5, Switches
    <2>2. pool'[x] = pool[x]
      BY <1>1, <1>5 DEF PoolChange
    <2>3. Fit(pool[x], row[x].php, hd[h].server)
      BY <1>2, <1>5 DEF PoolInv, OldPooled
    <2> QED BY <2>1, <2>2, <2>3
  <1>6. CASE hd[h].pc = "save"
    <2>1. SwitchSave(h)
      BY <1>6 DEF BulkStep, SwitchSites, SwitchValidate, SwitchSwap, SwitchRepool, SwitchReconcile, SwitchRerender,
         SwitchClean, Regenerate, RegenApply, Upgrade, At
    <2>2. Goto(h, "repool") \/ All({"pool", "stray"})
      BY <2>1 DEF SwitchSave
    <2>3. ~All({"pool", "stray"})
      BY <1>2 DEF All, Sure
    <2> QED BY <1>4, <2>2, <2>3
  <1>7. CASE hd[h].pc = "repool"
    <2>1. SwitchRepool(h)
      BY <1>7 DEF BulkStep, SwitchSites, SwitchValidate, SwitchSwap, SwitchSave, SwitchReconcile, SwitchRerender,
         SwitchClean, Regenerate, RegenApply, Upgrade, At
    <2>2. PICK failed \in SUBSET hd[h].mine : Repool(hd[h].mine, hd[h].snap, failed)
      BY <2>1 DEF SwitchRepool
    <2>3. x \notin failed
      BY <1>2, <2>2 DEF Repool, Sure
    <2>4. pool'[x] = PoolFor(hd[h].snap[x]) /\ active' = active
      BY <1>3, <2>1, <2>2, <2>3 DEF Repool, SwitchRepool, KeepRest, conf
    <2> QED BY <1>1, <1>3, <2>4, PoolFits
  <1>8. CASE hd[h].pc \in {"reconcile", "rerender", "clean"}
    <2>1. active' = active /\ pool'[x] = pool[x] /\ ~Repooling(hd[h], x)
      BY <1>1, <1>8, Switches DEF PoolChange, Repooling
    <2>2. SitePooled(x)'
      BY <1>1, <2>1, LeftPooled
    <2> QED BY <1>1, <2>2 DEF SitePooled, Sure, Repooling
  <1>9. hd[h].pc \in {"lock", "sites", "validate", "swap", "save", "repool", "reconcile", "rerender", "clean"}
    BY <1>1, Working DEF Shape
  <1> QED BY <1>1, <1>5, <1>6, <1>7, <1>8, <1>9

LEMMA RegenPooled ==
  ASSUME Base, PoolInv, NEW h \in Handler, Step(h), BulkStep(h), hd[h].op # "switch", doubt \subseteq doubt',
         NEW x \in Domain
  PROVE  SitePooled(x)'
  <1>1. /\ StructInv /\ HandlersOK /\ row' = row /\ active' = active /\ PoolChange(h, x)
        /\ hd[h].op \in {"regen", "upgrade"} /\ hd[h].pc # "lock" /\ hd[h].snap \in [Domain -> Row]
    BY BulkKinds, PoolChanges, ActiveChanges DEF Base, StructInv, db
  <1>2. ~Repooling(hd[h], x)
    BY <1>1 DEF Repooling
  <1>3. CASE pool'[x] = pool[x]
    BY <1>1, <1>2, <1>3, LeftPooled
  <1>4. CASE Sure(x, "pool")' /\ x \in hd[h].mine /\ pool'[x] = PoolFor(hd[h].snap[x])
    <2>1. Clear(x)
      BY <1>4 DEF Sure, Clear, Aspect
    <2>2. hd[h].snap[x].php = row[x].php
      BY <1>1, <1>4, <2>1 DEF Base, CurrentInv, Current, RegenCurrent, UpgradeCurrent
    <2>3. Fit(pool'[x], hd[h].snap[x].php, active)
      BY <1>1, <1>4, PoolFits
    <2> QED BY <1>1, <2>2, <2>3 DEF SitePooled
  <1>5. CASE ~Sure(x, "pool")'
    BY <1>5 DEF SitePooled
  <1> QED BY <1>1, <1>3, <1>4, <1>5 DEF PoolChange

LEMMA SitesPooled ==
  ASSUME Base, PoolInv, NEW h \in Handler, Step(h), doubt \subseteq doubt', NEW x \in Domain
  PROVE  SitePooled(x)'
  <1>1. CASE CreatePool(h) \/ CreateVHost(h) \/ CreateRow(h)
    <2>1. hd[h].op = "create"
      BY <1>1 DEF CreatePool, CreateVHost, CreateRow, At
    <2> QED BY <2>1, CreatePooled
  <1>2. CASE DeleteTeardown(h) \/ DeleteDismiss(h) \/ DeleteRows(h)
    <2>1. hd[h].op = "delete"
      BY <1>2 DEF DeleteTeardown, DeleteDismiss, DeleteRows, At
    <2> QED BY <2>1, DeletePooled
  <1> QED BY <1>1, <1>2, EditPooled, LockPooled, SwitchPooled, RegenPooled, AdoptPooled, ScanPooled, StepKinds

\* What another request holds of a site still fits its pool.
LEMMA OthersPooled ==
  ASSUME Base, PoolInv, NEW h \in Handler, Step(h), doubt \subseteq doubt', NEW g \in Handler \ {h}
  PROVE  CopyPooled(hd[g])' /\ OldPooled(hd[g])' /\ QuietPooled(hd[g])'
  <1>1. hd'[g] = hd[g] /\ StructInv /\ HandlersOK /\ OverlapOK /\ QuietOK /\ Busy(h)
    BY StepStays DEF Moves, Base, StructInv, HandlersOK
  <1>2. QuietPooled(hd[g])'
    <2>1. hd[g].op = "regen" => Busy(g)
      BY <1>1, Working DEF Op, Locked
    <2>2. hd[g].op = "regen" => ~hd[g].quiet
      BY <1>1, <2>1 DEF QuietOK
    <2> QED BY <1>1, <2>2 DEF QuietPooled
  <1>3. CopyPooled(hd[g])'
    <2> DEFINE x == hd[g].d
    <2> SUFFICES ASSUME <<x, "pool">> \notin doubt',
                        \/ hd[g].op \in {"create", "adopt"} /\ hd[g].pc \in {"render", "insert", "mark"}
                        \/ hd[g].op = "php" /\ hd[g].pc \in {"render", "persist"}
                 PROVE  Fit(pool'[x], hd[g].copy.php, active')
      BY <1>1 DEF CopyPooled, Sure
    <2>1. Sure(x, "pool") /\ Clear(x)
      BY DEF Sure, Clear, Aspect
    <2>2. Fit(pool[x], hd[g].copy.php, active)
      BY <2>1 DEF PoolInv, CopyPooled
    <2>3. hd[g].op \in Op /\ hd[g].op \notin Bulk /\ Busy(g) /\ hd[g].pc # "lock"
      BY <1>1, Working DEF Op, Bulk, Locked
    <2>4. x \in Domain /\ x \in Touched(g)
      BY <1>1, <2>3, Reaches
    <2>5. /\ hd[g].op = "create" => row[x].source = "none"
          /\ hd[g].op = "adopt" => row[x].source = "imported"
          /\ hd[g].op = "php" => row[x].source = "managed"
      BY <2>1, <2>3 DEF Base, CurrentInv, Current, CreateCurrent, AdoptCurrent, EditCurrent, Edits
    <2>6. hd[h].op = "switch" => hd[g].op = "adopt"
      <3>1. hd[h].op = "switch" => x \in Touched(h)
        BY <1>1, <2>4, Reaches DEF Bulk
      <3>2. hd[h].op = "switch" => ~Clash(hd[g].op, "switch")
        BY <1>1, <2>1, <2>4, <3>1, Alongside
      <3> QED BY <3>2 DEF Clash, Single
    <2>7. active' = active
      BY <1>1, <2>3, <2>6, ActiveChanges DEF Guarded
    <2>8. pool'[x] = pool[x]
      <3> SUFFICES ASSUME pool'[x] # pool[x] PROVE FALSE
        OBVIOUS
      <3> HIDE DEF x
      <3>1. CASE hd[g].op = "create"
        BY <2>1, <2>4, <2>5, <3>1, PoolOwner, BesidesPool
      <3>2. CASE hd[g].op = "adopt"
        BY <2>1, <2>3, <2>4, <2>5, <3>2, PoolOwner, BesidesPool DEF Guarded
      <3>3. CASE hd[g].op = "php"
        BY <2>1, <2>4, <2>5, <3>3, PoolOwner, BesidesPool DEF Single
      <3> QED BY <3>1, <3>2, <3>3
    <2> QED BY <2>2, <2>7, <2>8
  <1>4. OldPooled(hd[g])'
    <2> DEFINE s == hd[g].server
    <2> SUFFICES ASSUME hd[g].op = "switch", hd[g].pc \in {"sites", "validate", "swap", "save", "repool"},
                        NEW x \in Domain, row'[x].source = "managed", <<x, "pool">> \notin doubt'
                 PROVE  Fit(pool'[x], row'[x].php, s)
      BY <1>1 DEF OldPooled, Sure
    <2>1. Sure(x, "pool") /\ Clear(x) /\ Clear(x)'
      BY DEF Sure, Clear, Aspect
    <2>2. Busy(g) /\ x \in Touched(g)
      BY <1>1, Working, Reaches DEF Op, Bulk
    <2>3. row'[x] = row[x]
      BY <1>1, <2>1, <2>2, Besides DEF Guarded
    <2>4. Fit(pool[x], row[x].php, s)
      BY <2>1, <2>3 DEF PoolInv, OldPooled
    <2>5. pool'[x] = pool[x]
      <3> SUFFICES ASSUME pool'[x] # pool[x] PROVE FALSE
        OBVIOUS
      <3> QED BY <2>1, <2>2, <2>3, PoolOwner, BesidesPool DEF Guarded, Single
    <2> QED BY <2>3, <2>4, <2>5
  <1> QED BY <1>2, <1>3, <1>4

\* What the request that moves holds afterwards.
LEMMA OwnCopyPool ==
  ASSUME Base, PoolInv, NEW h \in Handler, Step(h), doubt \subseteq doubt'
  PROVE  CopyPooled(hd[h])'
  <1> DEFINE x == hd[h].d
             r == hd[h].copy
  <1>1. StructInv /\ HandlersOK /\ pool \in [Domain -> SUBSET Pool]
    BY DEF Base, StructInv, DiskOK
  <1> SUFFICES ASSUME \/ hd'[h].op \in {"create", "adopt"} /\ hd'[h].pc \in {"render", "insert", "mark"}
                      \/ hd'[h].op = "php" /\ hd'[h].pc \in {"render", "persist"},
                      <<hd'[h].d, "pool">> \notin doubt'
               PROVE  Fit(pool'[hd'[h].d], hd'[h].copy.php, active')
    BY DEF CopyPooled, Sure
  <1>2. hd[h].op = hd'[h].op /\ hd'[h].d = x /\ hd'[h] # NoHandling
    BY <1>1, StepStays, Values, Constants DEF Op, Locked
  <1>3. x \in Domain /\ r \in Row /\ ~Reply(h) /\ ~Unlock(h)
    <2>1. Busy(h) /\ hd[h] \in Handling
      BY <1>1, Working, StepStays
    <2> QED BY <1>1, <1>2, <2>1, Working, Replies DEF Bulk, Handling, Unlock
  <1>4. ASSUME NEW pc \in Pc \ {"idle"}, Goto(h, pc)
        PROVE  hd'[h].pc = pc /\ hd'[h].copy = r
    BY <1>1, <1>4, GoesOn
  <1>5. ASSUME SetPool(x, PoolFor(r)), active' = active, hd'[h].copy = r
        PROVE  Fit(pool'[hd'[h].d], hd'[h].copy.php, active')
    <2>1. pool'[x] = PoolFor(r)
      BY <1>1, <1>3, <1>5, SetsPool
    <2>2. Fit(PoolFor(r), r.php, active)
      BY <1>3, PoolFits
    <2> QED BY <1>2, <1>5, <2>1, <2>2
  <1>6. ASSUME pool' = pool, active' = active, hd'[h].copy = r,
               \/ hd[h].op \in {"create", "adopt"} /\ hd[h].pc \in {"render", "insert", "mark"}
               \/ hd[h].op = "php" /\ hd[h].pc \in {"render", "persist"}
        PROVE  Fit(pool'[hd'[h].d], hd'[h].copy.php, active')
    <2>1. Sure(x, "pool")
      BY <1>2 DEF Sure
    <2>2. Fit(pool[x], r.php, active)
      BY <1>6, <2>1 DEF PoolInv, CopyPooled
    <2> QED BY <1>2, <1>6, <2>2
  <1>7. {"render", "insert", "mark", "persist"} \subseteq Pc \ {"idle"}
    BY DEF Pc
  <1>8. ~DeleteTeardown(h) /\ ~DeleteDismiss(h) /\ ~DeleteRows(h) /\ ~ScanStep(h) /\ ~BulkStep(h) /\ ~Lock(h)
    <2>1. ~DeleteTeardown(h) /\ ~DeleteDismiss(h) /\ ~DeleteRows(h) /\ ~ScanStep(h)
      BY <1>2, ScanKinds DEF DeleteTeardown, DeleteDismiss, DeleteRows, At
    <2>2. ~BulkStep(h) /\ ~Lock(h)
      BY <1>1, <1>2, <1>3, BulkKinds, LockReads DEF Enters, Guarded
    <2> QED BY <2>1, <2>2
  <1>9. CASE CreatePool(h) \/ CreateVHost(h) \/ CreateRow(h)
    <2>1. hd[h].op = "create" /\ active' = active
      BY <1>9 DEF CreatePool, CreateVHost, CreateRow, At, KeepRest, conf
    <2>2. ~CreateRow(h)
      BY <1>3 DEF CreateRow, RollBack
    <2>3. CASE CreatePool(h)
      BY <1>3, <1>4, <1>5, <1>7, <2>1, <2>3 DEF CreatePool
    <2>4. CASE CreateVHost(h)
      <3>1. hd[h].pc = "render" /\ pool' = pool /\ Goto(h, "insert")
        BY <1>3, <2>4 DEF CreateVHost, RollBack, At
      <3> QED BY <1>4, <1>6, <1>7, <2>1, <3>1
    <2> QED BY <1>9, <2>2, <2>3, <2>4
  <1>10. CASE AdoptStep(h)
    <2>1. hd[h].op = "adopt" /\ active' = active
      BY <1>1, <1>10, AdoptKinds
    <2>2. ~Restore(h)
      BY <1>3 DEF Restore
    <2>3. ~AdoptMark(h)
      BY <1>3 DEF AdoptMark
    <2>4. ~AdoptDisable(h)
      <3>1. AdoptDisable(h) => hd' = [hd EXCEPT ![h].pc = "pool", ![h].orig = hd'[h].orig]
        BY <1>1, <1>3 DEF AdoptDisable, HandlersOK, Handling
      <3>2. AdoptDisable(h) => hd'[h].pc = "pool"
        BY <1>1, <3>1 DEF HandlersOK, Handling
      <3> QED BY <1>2, <2>1, <3>2
    <2>5. CASE AdoptPool(h)
      BY <1>4, <1>5, <1>7, <2>1, <2>2, <2>5 DEF AdoptPool
    <2>6. CASE AdoptVHost(h)
      <3>1. hd[h].pc = "render" /\ pool' = pool /\ Goto(h, "mark")
        BY <2>2, <2>6 DEF AdoptVHost, At
      <3> QED BY <1>4, <1>6, <1>7, <2>1, <3>1
    <2> QED BY <1>10, <2>3, <2>4, <2>5, <2>6 DEF AdoptStep
  <1>11. CASE EditStep(h)
    <2>1. hd[h].op = "php" /\ active' = active
      BY <1>1, <1>2, <1>11, EditKinds DEF Edits
    <2>2. CASE PhpPool(h)
      BY <1>3, <1>4, <1>5, <1>7, <2>1, <2>2 DEF PhpPool
    <2>3. CASE RenderSite(h)
      <3>1. hd[h].pc = "render" /\ pool' = pool /\ Goto(h, "persist")
        BY <1>3, <2>1, <2>3 DEF RenderSite
      <3> QED BY <1>4, <1>6, <1>7, <2>1, <3>1
    <2>4. ~PersistPhp(h)
      BY <1>3 DEF PersistPhp, PersistLast
    <2>5. ~ServePersist(h) /\ ~ServeDropApp(h) /\ ~ProxyApp(h) /\ ~ProxyPersist(h) /\ ~ProxyConfigure(h)
          /\ ~PersistCerts(h) /\ ~PersistSSL(h)
      BY <2>1 DEF ServePersist, ServeDropApp, ProxyApp, ProxyPersist, ProxyConfigure, PersistCerts, PersistSSL,
         PersistLast, At
    <2> QED BY <1>11, <2>2, <2>3, <2>4, <2>5 DEF EditStep
  <1> QED BY <1>8, <1>9, <1>10, <1>11, StepKinds

LEMMA OwnQuietPool ==
  ASSUME Base, PoolInv, NEW h \in Handler, Step(h), doubt \subseteq doubt'
  PROVE  QuietPooled(hd[h])'
  <1>1. StructInv /\ HandlersOK
    BY DEF Base, StructInv
  <1> SUFFICES ASSUME hd'[h].op = "regen", hd'[h].pc = "apply", hd'[h].quiet
               PROVE  \A d \in hd'[h].mine : Fit(pool'[d], row'[d].php, active')
    BY DEF QuietPooled
  <1>2. hd[h].op = "regen" /\ hd[h].quiet /\ hd'[h] # NoHandling
    BY <1>1, StepStays, Values, Constants DEF Op, Locked
  <1>3. BulkStep(h)
    <2>1. ~DeleteTeardown(h) /\ ~DeleteDismiss(h) /\ ~DeleteRows(h) /\ ~ScanStep(h)
      BY <1>2, ScanKinds DEF DeleteTeardown, DeleteDismiss, DeleteRows, At
    <2>2. ~AdoptStep(h) /\ ~EditStep(h) /\ ~CreatePool(h) /\ ~CreateVHost(h) /\ ~CreateRow(h)
      BY <1>1, <1>2, AdoptKinds, EditKinds DEF Edits, CreatePool, CreateVHost, CreateRow, At
    <2>3. ~Lock(h)
      BY <1>1, <1>2, LockReads, Replies DEF Enters
    <2> QED BY <2>1, <2>2, <2>3, StepKinds
  <1>4. ~Unlock(h)
    BY <1>1, <1>2, Replies DEF Unlock
  <1>5. Regenerate(h)
    BY <1>2, <1>3, <1>4 DEF BulkStep, SwitchSites, SwitchValidate, SwitchSwap, SwitchSave, SwitchRepool,
       SwitchReconcile, SwitchRerender, SwitchClean, RegenApply, Upgrade, At
  <1>6. /\ hd[h].snap = row /\ hd[h].mine = Managed(row) /\ hd[h].mine \in SUBSET Domain
        /\ row' = row /\ active' = active /\ row \in [Domain -> Row]
    <2>1. hd[h].pc # "lock" /\ row' = row /\ active' = active
      BY <1>5 DEF Regenerate, At, db, conf
    <2> QED BY <1>1, <1>2, <2>1 DEF Base, CurrentInv, Current, RegenCurrent, StructInv, RowsOK, Managed
  <1>7. Goto(h, "apply") /\ pool' = [d \in Domain |-> IF d \in hd[h].mine THEN PoolFor(hd[h].snap[d]) ELSE pool[d]]
    <2>1. PICK done \in SUBSET hd[h].mine :
            /\ pool' = [d \in Domain |-> IF d \in done THEN PoolFor(hd[h].snap[d]) ELSE pool[d]]
            /\ IF done = hd[h].mine /\ {d \in done : Renderable(d, hd[h].snap[d])} = hd[h].mine
               THEN Goto(h, "apply") ELSE Unlock(h)
      BY <1>5 DEF Regenerate
    <2> QED BY <1>4, <2>1
  <1>8. hd'[h].mine = hd[h].mine
    <2>1. "apply" \in Pc \ {"idle"}
      BY DEF Pc
    <2> QED BY <1>1, <1>7, <2>1, GoesOn
  <1>9. ASSUME NEW d \in hd[h].mine
        PROVE  Fit(pool'[d], row[d].php, active)
    <2>1. pool'[d] = PoolFor(row[d]) /\ row[d] \in Row
      BY <1>6, <1>7
    <2> QED BY <2>1, PoolFits
  <1> QED BY <1>6, <1>8, <1>9

LEMMA Repoolings ==
  ASSUME Base, NEW g \in Handler, NEW x \in Domain, Repooling(hd[g], x)
  PROVE  /\ Busy(g) /\ x \in Touched(g)
         /\ hd[g].op \in {"php", "delete"} \/ (hd[g].op = "switch" /\ hd[g].pc # "lock")
  <1>1. StructInv /\ HandlersOK
    BY DEF Base, StructInv
  <1>2. hd[g].op \in {"php", "delete"} \/ (hd[g].op = "switch" /\ hd[g].pc # "lock")
    BY DEF Repooling
  <1>3. Busy(g)
    BY <1>1, <1>2, Working DEF Op, Bulk
  <1>4. x \in Touched(g)
    BY <1>1, <1>2, <1>3, Reaches DEF Repooling, Bulk
  <1> QED BY <1>2, <1>3, <1>4

LEMMA OwnOldPool ==
  ASSUME Base, PoolInv, NEW h \in Handler, Step(h), doubt \subseteq doubt'
  PROVE  OldPooled(hd[h])'
  <1>1. StructInv /\ HandlersOK /\ OverlapOK /\ hd[h] \in Handling /\ Holding(hd[h]) /\ LockOK
    BY Working DEF Base, StructInv
  <1> SUFFICES ASSUME hd'[h].op = "switch", hd'[h].pc \in {"sites", "validate", "swap", "save", "repool"},
                      NEW x \in Domain, row'[x].source = "managed", <<x, "pool">> \notin doubt'
               PROVE  Fit(pool'[x], row'[x].php, hd'[h].server)
    BY DEF OldPooled, Sure
  <1>2. hd[h].op = "switch" /\ hd'[h] # NoHandling /\ Busy(h)
    BY <1>1, StepStays, Values, Constants DEF Op, Bulk
  <1>3. Sure(x, "pool") /\ Clear(x)
    BY DEF Sure, Clear, Aspect
  <1>4. BulkStep(h) \/ Lock(h)
    <2>1. ~DeleteTeardown(h) /\ ~DeleteDismiss(h) /\ ~DeleteRows(h) /\ ~ScanStep(h)
      BY <1>2, ScanKinds DEF DeleteTeardown, DeleteDismiss, DeleteRows, At
    <2>2. ~AdoptStep(h) /\ ~EditStep(h) /\ ~CreatePool(h) /\ ~CreateVHost(h) /\ ~CreateRow(h)
      BY <1>1, <1>2, AdoptKinds, EditKinds DEF Edits, CreatePool, CreateVHost, CreateRow, At
    <2> QED BY <2>1, <2>2, StepKinds
  <1>5. ~Reply(h) /\ ~Unlock(h)
    BY <1>1, <1>2, Replies DEF Unlock
  <1>6. CASE Lock(h)
    <2>1. hd'[h].server = active /\ row' = row /\ pool' = pool /\ lock = None
      BY <1>1, <1>2, <1>5, <1>6, LockReads DEF Enters, db, disk
    <2>2. ASSUME NEW g \in Handler, Repooling(hd[g], x) PROVE FALSE
      <3>1. /\ Busy(g) /\ x \in Touched(g)
            /\ hd[g].op \in {"php", "delete"} \/ (hd[g].op = "switch" /\ hd[g].pc # "lock")
        BY <2>2, Repoolings
      <3>2. CASE hd[g].op = "switch" /\ hd[g].pc # "lock"
        BY <1>1, <2>1, <3>2, Constants DEF LockOK, Guarded
      <3>3. CASE hd[g].op \in {"php", "delete"}
        <4>1. x \in Touched(h) /\ g # h
          BY <1>1, <1>2, <3>3, Reaches DEF Bulk
        <4>2. ~Clash(hd[g].op, "switch")
          BY <1>1, <1>2, <1>3, <3>1, <4>1, Alongside
        <4> QED BY <3>3, <4>2 DEF Clash, Single
      <3> QED BY <3>1, <3>2, <3>3
    <2>3. Fit(pool[x], row[x].php, active)
      BY <1>3, <2>1, <2>2 DEF PoolInv, SitePooled
    <2> QED BY <2>1, <2>3
  <1>7. CASE BulkStep(h)
    <2>1. row' = row
      BY <1>1, <1>7, BulkKinds DEF db
    <2>2. PICK pc \in Pc \ {"idle"} : Goto(h, pc) /\ hd[h].pc \in {"sites", "validate", "swap", "save"}
      <3>1. hd' # [hd EXCEPT ![h].pc = "rerender", ![h].snap = row]
        BY <1>1, SnapMoves
      <3>2. PICK pc \in Pc \ {"idle"} : Goto(h, pc) /\
              \/ hd[h].op = "switch" /\ hd[h].pc = "sites" /\ pc = "validate"
              \/ hd[h].op = "switch" /\ hd[h].pc = "validate" /\ pc = "swap"
              \/ hd[h].op = "switch" /\ hd[h].pc = "swap" /\ pc = "save"
              \/ hd[h].op = "switch" /\ hd[h].pc = "save" /\ pc = "repool"
              \/ hd[h].op = "switch" /\ hd[h].pc = "repool" /\ pc = "reconcile"
              \/ hd[h].op = "switch" /\ hd[h].pc = "rerender" /\ pc = "clean"
              \/ hd[h].op = "regen" /\ hd[h].pc = "sites" /\ pc = "apply"
        BY <1>1, <1>5, <1>7, <3>1, BulkMoves
      <3>3. hd'[h].pc = pc
        BY <1>1, <3>2, GoesOn
      <3> QED BY <1>2, <3>2, <3>3
    <2>3. hd'[h].server = hd[h].server
      BY <1>1, <2>2, GoesOn
    <2>4. Fit(pool[x], row[x].php, hd[h].server)
      BY <1>2, <1>3, <2>1, <2>2 DEF PoolInv, OldPooled
    <2>5. pool'[x] = pool[x]
      <3>1. PoolChange(h, x)
        BY <1>1, PoolChanges
      <3> QED BY <1>2, <2>2, <3>1 DEF PoolChange
    <2> QED BY <2>1, <2>3, <2>4, <2>5
  <1> QED BY <1>4, <1>6, <1>7

LEMMA StepPool ==
  ASSUME Base, PoolInv, NEW h \in Handler, Step(h)
  PROVE  PoolInv'
  <1>1. CASE doubt \subseteq doubt'
    <2>1. \A d \in Domain : SitePooled(d)'
      BY <1>1, SitesPooled
    <2>2. ASSUME NEW g \in Handler
          PROVE  CopyPooled(hd[g])' /\ OldPooled(hd[g])' /\ QuietPooled(hd[g])'
      <3>1. CASE g = h
        BY <1>1, <3>1, OwnCopyPool, OwnOldPool, OwnQuietPool
      <3>2. CASE g \in Handler \ {h}
        BY <1>1, <3>2, OthersPooled
      <3> QED BY <3>1, <3>2
    <2> QED BY <2>1, <2>2 DEF PoolInv
  <1>2. CASE RegenApply(h) /\ hd[h].quiet
    <2>1. \A g \in Handler : hd'[g] = NoHandling /\ hd'[g].op \notin Op
      BY <1>2, QuietEnds, Values, Constants DEF Base
    <2>2. row' = row /\ pool' = pool /\ active' = active /\ hd[h].op = "regen" /\ hd[h].pc = "apply"
      BY <1>2 DEF RegenApply, At, db, disk, conf
    <2>3. hd[h].mine = Managed(row) /\ QuietPooled(hd[h])
      BY <1>2, <2>2 DEF Base, CurrentInv, Current, RegenCurrent, PoolInv, Managed
    <2>4. \A d \in Domain : row[d].source = "managed" => Fit(pool[d], row[d].php, active)
      BY <1>2, <2>2, <2>3 DEF QuietPooled, Managed
    <2> QED BY <2>1, <2>2, <2>4 DEF PoolInv, SitePooled, CopyPooled, OldPooled, QuietPooled, Op, Locked, Bulk
  <1>3. StructInv
    BY DEF Base
  <1> QED BY <1>1, <1>2, <1>3, StepDoubts

LEMMA PoolStep ==
  ASSUME Base, PoolInv, [Next]_vars
  PROVE  PoolInv'
  <1>1. StructInv /\ HandlersOK
    BY DEF Base, StructInv
  <1>2. ASSUME NEW h \in Handler, Request(h)
        PROVE  PoolInv'
    <2>1. PICK op \in Op, d \in Domain \cup {None} : \E new \in Handling :
            Asked(h, op, d, new) /\ Opening(op, d, new) /\ doubt \subseteq doubt'
      BY <1>1, <1>2, AskLeaves
    <2>2. PICK new \in Handling : Asked(h, op, d, new) /\ Opening(op, d, new) /\ doubt \subseteq doubt'
      BY <2>1
    <2>3. row' = row /\ pool' = pool /\ active' = active /\ \A x : Sure(x, "pool")' => Sure(x, "pool")
      BY <2>2 DEF Asked, db, disk, conf, Sure
    <2>4. \A g \in Handler \ {h} :
            /\ hd'[g].op = hd[g].op /\ hd'[g].d = hd[g].d /\ hd'[g].pc = hd[g].pc
            /\ hd'[g].copy = hd[g].copy /\ hd'[g].mine = hd[g].mine /\ hd'[g].server = hd[g].server
            /\ hd'[g].quiet => hd[g].quiet
      BY <2>2 DEF Asked
    <2>5. hd[h].op \notin Op
      BY <1>1, <2>2, Working DEF Asked
    <2>6. CopyPooled(hd[h])' /\ OldPooled(hd[h])' /\ QuietPooled(hd[h])'
      <3>1. /\ op \in {"create", "php"} => new.pc = "pool"
            /\ op \in Guarded => new.pc = "lock"
        BY <1>1, <2>2, Opens
      <3>2. hd'[h].op = op /\ hd'[h].pc = new.pc
        BY <2>2 DEF Asked
      <3> QED BY <3>1, <3>2 DEF CopyPooled, OldPooled, QuietPooled, Guarded
    <2>7. ASSUME NEW g \in Handler \ {h}
          PROVE  CopyPooled(hd[g])' /\ OldPooled(hd[g])' /\ QuietPooled(hd[g])'
      <3>1. CopyPooled(hd[g]) /\ OldPooled(hd[g]) /\ QuietPooled(hd[g])
        BY DEF PoolInv
      <3>2. CopyPooled(hd[g])'
        BY <2>3, <2>4, <3>1 DEF CopyPooled
      <3>3. OldPooled(hd[g])'
        BY <2>3, <2>4, <3>1 DEF OldPooled
      <3>4. QuietPooled(hd[g])'
        BY <2>3, <2>4, <3>1 DEF QuietPooled
      <3> QED BY <3>2, <3>3, <3>4
    <2>8. ASSUME NEW x \in Domain PROVE SitePooled(x)'
      <3>1. ~Repooling(hd[h], x)
        BY <2>5 DEF Repooling, Op, Bulk
      <3>2. \A g \in Handler \ {h} : Repooling(hd[g], x) => Repooling(hd'[g], x)
        BY <2>4 DEF Repooling
      <3>3. SitePooled(x)
        BY DEF PoolInv
      <3>4. (\A g \in Handler : ~Repooling(hd'[g], x)) => \A g \in Handler : ~Repooling(hd[g], x)
        BY <3>1, <3>2
      <3>5. \A g : Repooling(hd[g], x)' <=> Repooling(hd'[g], x)
        BY DEF Repooling
      <3> QED BY <2>3, <3>3, <3>4, <3>5 DEF SitePooled
    <2> QED BY <2>6, <2>7, <2>8 DEF PoolInv
  <1>3. CASE Crash
    <2>1. row' = row /\ pool' = pool /\ active' = active /\ \A x : Sure(x, "pool")' => Sure(x, "pool")
      BY <1>3 DEF Crash, db, disk, conf, Sure
    <2>2. \A g \in Handler : hd'[g].op \notin Op
      BY <1>3, Values, Constants DEF Crash
    <2>3. ASSUME NEW x \in Domain PROVE SitePooled(x)'
      <3>1. Sure(x, "pool")' => \A g \in Handler : ~Repooling(hd[g], x)
        <4> SUFFICES ASSUME NEW g \in Handler, Repooling(hd[g], x) PROVE <<x, "pool">> \in doubt'
          BY DEF Sure
        <4>1. x \in Touched(g)
          BY Repoolings
        <4> QED BY <1>3, <4>1 DEF Crash, Aspect
      <3>2. SitePooled(x)
        BY DEF PoolInv
      <3> QED BY <2>1, <3>1, <3>2 DEF SitePooled
    <2> QED BY <2>2, <2>3 DEF PoolInv, CopyPooled, OldPooled, QuietPooled, Op, Locked, Bulk
  <1>4. CASE Start
    <2>1. ~up /\ row' = Booted /\ hd' = hd /\ active' = saved /\ pool' = pool
      BY <1>4, StartDoes
    <2>2. \A g \in Handler : hd[g] = NoHandling /\ hd[g].op \notin Op
      BY <1>1, <2>1, Values, Constants DEF StructInv, DownOK
    <2>3. PICK done \in SUBSET Served :
            doubt' = (doubt \ (done \X {"vhost"})) \cup (Stranded(Booted, {}) \X Aspect)
               \cup (IF saved # active THEN Domain \X {"pool", "stray", "vhost"} ELSE {})
      BY <1>4, StartDoes
    <2>4. ASSUME NEW x \in Domain, Booted[x].source = "managed", <<x, "pool">> \notin doubt'
          PROVE  Fit(pool[x], Booted[x].php, saved)
      <3>1. row[x] = Booted[x]
        BY <1>1, <2>4, StartRows, Values
      <3>2. active = saved /\ Sure(x, "pool")
        BY <2>3, <2>4 DEF Sure
      <3>3. \A g \in Handler : ~Repooling(hd[g], x)
        BY <2>2 DEF Repooling, Op, Bulk
      <3> QED BY <2>4, <3>1, <3>2, <3>3 DEF PoolInv, SitePooled
    <2>5. \A x \in Domain : SitePooled(x)'
      BY <2>1, <2>4 DEF SitePooled, Sure
    <2> QED BY <2>1, <2>2, <2>5 DEF PoolInv, CopyPooled, OldPooled, QuietPooled, Op, Locked, Bulk
  <1>5. CASE SaveSettings \/ (\E d \in Domain : RemoveConf(d) \/ EditPage(d)) \/ UNCHANGED vars
    <2>1. hd' = hd /\ row' = row /\ pool' = pool /\ active' = active /\ doubt \subseteq doubt'
      BY <1>5 DEF SaveSettings, EditPage, RemoveConf, Doubting, vars, db, disk, conf
    <2>2. \A x : Sure(x, "pool")' => Sure(x, "pool")
      BY <2>1 DEF Sure
    <2>3. \A x \in Domain : SitePooled(x)'
      BY <2>1, <2>2 DEF PoolInv, SitePooled
    <2>4. \A g \in Handler : CopyPooled(hd[g])' /\ OldPooled(hd[g])' /\ QuietPooled(hd[g])'
      BY <2>1, <2>2 DEF PoolInv, CopyPooled, OldPooled, QuietPooled
    <2> QED BY <2>3, <2>4 DEF PoolInv
  <1> QED BY <1>2, <1>3, <1>4, <1>5, StepPool DEF Next

LEMMA InitPool ==
  ASSUME Init
  PROVE  PoolInv
  <1>1. \A g \in Handler : hd[g].op \notin Op
    BY Values, Constants DEF Init
  <1>2. ASSUME NEW x \in Domain, row[x].source = "managed"
        PROVE  Fit(pool[x], row[x].php, active)
    <2>1. x \in Live
      BY <1>2 DEF Init, Imported, NoRow
    <2>2. pool[x] = PoolFor(row[x])
      BY <2>1 DEF Init
    <2>3. row \in [Domain -> Row]
      BY InitBase DEF Base, StructInv, RowsOK
    <2> QED BY <2>2, <2>3, PoolFits
  <1> QED BY <1>1, <1>2 DEF PoolInv, SitePooled, CopyPooled, OldPooled, QuietPooled, Op, Locked, Bulk

\* When the panel is idle, a managed site has one pool, of its version, whose
\* socket the active server may open: after a switch, one that was reverted and an
\* upgrade too, but for the failures that the code leaves half-way and sites that
\* requests no lock keeps apart changed at a time.
THEOREM PoolsStayInSync == Spec => []PoolInSync
  <1>1. Init => Base /\ PoolInv
    BY InitBase, InitPool
  <1>2. Base /\ PoolInv /\ [Next]_vars => (Base /\ PoolInv)'
    BY BaseStep, PoolStep
  <1>3. Base /\ PoolInv => PoolInSync
    <2> SUFFICES ASSUME Base, PoolInv, Idle, NEW x \in Domain, row[x].source = "managed", Sure(x, "pool")
                 PROVE  Fit(pool[x], row[x].php, active)
      BY DEF PoolInSync, Managed, Fit
    <2>1. \A g \in Handler : ~Repooling(hd[g], x)
      BY Repoolings DEF Idle
    <2> QED BY <2>1 DEF PoolInv, SitePooled
  <1> QED BY <1>1, <1>2, <1>3, PTL DEF Spec

-----------------------------------------------------------------------------
(* Nothing of the panel's is left behind *)

Bare(d) == pool[d] = {} /\ ~unit[d] /\ \A s \in Server : file[s][d].by # "panel"
Tidy(d) == \A s \in Server \ {active} : file[s][d].by # "panel"

\* A request that is making a managed site of the domain.
Making(g, d) == g.d = d /\ (g.op = "create" \/ (g.op = "adopt" /\ g.pc \in {"pool", "render", "mark"}))
Switching(g) == g.op = "switch" /\ g.pc # "lock"

SiteBare(d) ==
  row[d].source # "managed" /\ Sure(d, "stray") /\ (\A h \in Handler : ~Making(hd[h], d)) => Bare(d)
SiteTidy(d) ==
  row[d].source = "managed" /\ Sure(d, "stray") /\ (\A h \in Handler : ~Switching(hd[h])) => Tidy(d)
\* What a deletion has torn down, before its rows go.
DeletedBare(g) ==
  /\ g.op = "delete" /\ g.pc = "forget" => g.mine = {}
  /\ g.op = "delete" /\ g.pc = "drop" => \A d \in g.mine : Sure(d, "stray") => Bare(d)
MakingTidy(g) ==
  (g.op = "create" \/ (g.op = "adopt" /\ g.pc \in {"pool", "render", "mark"})) /\ Sure(g.d, "stray") =>
    ~unit[g.d] /\ Tidy(g.d)
\* What an adoption would put back is not the panel's.
OrigKept(g) ==
  g.op = "adopt" /\ g.pc \in {"pool", "render"} /\ Sure(g.d, "stray") =>
    \A s \in g.orig \cap Server : backup[s][g.d].by # "panel"
StrayInv ==
  /\ \A d \in Domain : SiteBare(d) /\ SiteTidy(d)
  /\ \A h \in Handler : DeletedBare(hd[h]) /\ MakingTidy(hd[h]) /\ OrigKept(hd[h])

\* Each operation has its own steps.
LEMMA StepOf ==
  ASSUME StructInv, NEW h \in Handler, Step(h)
  PROVE  /\ hd[h].op = "create" => CreatePool(h) \/ CreateVHost(h) \/ CreateRow(h)
         /\ hd[h].op = "delete" => DeleteTeardown(h) \/ DeleteDismiss(h) \/ DeleteRows(h)
         /\ hd[h].op \in Edits => EditStep(h)
         /\ hd[h].op \in {"switch", "regen", "upgrade"} => BulkStep(h) \/ Lock(h)
         /\ hd[h].op = "adopt" => AdoptStep(h) \/ Lock(h)
         /\ hd[h].op = "scan" => ScanStep(h)
  <1>1. CASE CreatePool(h) \/ CreateVHost(h) \/ CreateRow(h)
    <2>1. hd[h].op = "create"
      BY <1>1 DEF CreatePool, CreateVHost, CreateRow, At
    <2> QED BY <1>1, <2>1 DEF Edits
  <1>2. CASE DeleteTeardown(h) \/ DeleteDismiss(h) \/ DeleteRows(h)
    <2>1. hd[h].op = "delete"
      BY <1>2 DEF DeleteTeardown, DeleteDismiss, DeleteRows, At
    <2> QED BY <1>2, <2>1 DEF Edits
  <1>3. CASE EditStep(h)
    <2>1. hd[h].op \in Edits
      BY <1>3, EditKinds
    <2> QED BY <1>3, <2>1 DEF Edits
  <1>4. CASE BulkStep(h)
    <2>1. hd[h].op \in {"switch", "regen", "upgrade"}
      BY <1>4, BulkKinds
    <2> QED BY <1>4, <2>1 DEF Edits
  <1>5. CASE AdoptStep(h)
    <2>1. hd[h].op = "adopt"
      BY <1>5, AdoptKinds
    <2> QED BY <1>5, <2>1 DEF Edits
  <1>6. CASE ScanStep(h)
    <2>1. hd[h].op = "scan"
      BY <1>6, ScanKinds
    <2> QED BY <1>6, <2>1 DEF Edits
  <1>7. CASE Lock(h)
    <2>1. hd[h].op \in Guarded
      BY <1>7, LockReads
    <2> QED BY <1>7, <2>1 DEF Edits, Guarded
  <1> QED BY <1>1, <1>2, <1>3, <1>4, <1>5, <1>6, <1>7, StepKinds

\* What a step does to the unit of a site's app.
LEMMA UnitChanges ==
  ASSUME StructInv, NEW h \in Handler, Step(h), NEW x \in Domain
  PROVE  \/ unit'[x] = unit[x] \/ ~unit'[x]
         \/ hd[h].op = "proxy" /\ x = hd[h].d
         \/ hd[h].op = "switch" /\ hd[h].pc # "lock" /\ row[x].source = "managed"
  <1>1. unit \in [Domain -> BOOLEAN]
    BY DEF StructInv, DiskOK
  <1>2. CASE unit' = unit
    BY <1>2
  <1>3. CASE CreatePool(h) \/ CreateVHost(h) \/ CreateRow(h)
    BY <1>2, <1>3 DEF CreatePool, CreateVHost, CreateRow
  <1>4. CASE DeleteTeardown(h) \/ DeleteDismiss(h) \/ DeleteRows(h)
    <2>1. CASE DeleteTeardown(h)
      BY <1>1, <2>1 DEF DeleteTeardown
    <2> QED BY <1>2, <1>4, <2>1 DEF DeleteDismiss, DeleteRows, disk
  <1>5. CASE EditStep(h)
    <2>1. CASE ServeDropApp(h)
      BY <1>1, <2>1 DEF ServeDropApp
    <2>2. CASE ProxyConfigure(h)
      BY <1>1, <2>2 DEF ProxyConfigure, At
    <2> QED BY <1>2, <1>5, <2>1, <2>2 DEF EditStep, ServePersist, ProxyApp, ProxyPersist, PhpPool, RenderSite,
       PersistCerts, PersistSSL, PersistPhp, PersistLast, disk
  <1>6. CASE Lock(h)
    BY <1>2, <1>6, LockReads DEF disk
  <1>7. CASE BulkStep(h)
    <2>1. CASE SwitchReconcile(h)
      BY <1>1, <2>1 DEF SwitchReconcile, ReconciledUnits, At
    <2> QED BY <1>2, <1>7, <2>1 DEF BulkStep, SwitchSites, SwitchValidate, SwitchSwap, SwitchSave, SwitchRepool,
       SwitchRerender, SwitchClean, Regenerate, RegenApply, Upgrade, disk
  <1>8. CASE AdoptStep(h)
    BY <1>2, <1>8, AdoptKinds
  <1>9. CASE ScanStep(h)
    BY <1>2, <1>9, ScanKinds DEF disk
  <1> QED BY <1>3, <1>4, <1>5, <1>6, <1>7, <1>8, <1>9, StepKinds

\* Who may put something of the panel's where there was nothing.
LEMMA BareOwner ==
  ASSUME Base, NEW h \in Handler, Step(h), NEW x \in Domain, Clear(x), Bare(x), ~Bare(x)'
  PROVE  /\ x \in Touched(h)
         /\ \/ hd[h].op = "create" /\ x = hd[h].d /\ row[x].source = "none"
            \/ hd[h].op \in Edits /\ row[x].source = "managed"
            \/ hd[h].op \in {"switch", "regen", "upgrade"} /\ hd[h].pc # "lock" /\ row[x].source = "managed"
            \/ /\ hd[h].op = "adopt" /\ hd[h].pc \in {"pool", "render"} /\ x = hd[h].d
               /\ row[x].source = "imported"
  <1>1. StructInv /\ HandlersOK /\ Busy(h) /\ FileOK(file) /\ Current(hd[h]) /\ unit \in [Domain -> BOOLEAN]
        /\ hd[h].op \in Op
    BY StepStays, Working DEF Base, StructInv, DiskOK, CurrentInv
  <1>2. CASE pool'[x] # {}
    <2>1. pool'[x] # pool[x]
      BY <1>2 DEF Bare
    <2>2. /\ x \in Touched(h)
          /\ \/ hd[h].op = "create" /\ row[x].source = "none"
             \/ hd[h].op = "php" /\ row[x].source = "managed"
             \/ hd[h].op = "delete" /\ row[x].source # "imported"
             \/ hd[h].op \in {"switch", "regen", "upgrade"} /\ hd[h].pc # "lock" /\ row[x].source = "managed"
             \/ hd[h].op = "adopt" /\ hd[h].pc # "lock" /\ row[x].source = "imported"
      BY <2>1, PoolOwner
    <2>3. PoolChange(h, x)
      BY <1>1, PoolChanges
    <2>4. /\ hd[h].op # "delete" /\ (hd[h].op = "create" => x = hd[h].d)
          /\ hd[h].op = "adopt" => hd[h].pc = "pool" /\ x = hd[h].d
      BY <1>2, <2>1, <2>3 DEF PoolChange
    <2> QED BY <2>2, <2>4 DEF Edits
  <1>3. CASE unit'[x] # FALSE
    <2>1. \/ hd[h].op = "proxy" /\ x = hd[h].d
          \/ hd[h].op = "switch" /\ hd[h].pc # "lock" /\ row[x].source = "managed"
      <3>1. unit[x] \in BOOLEAN /\ unit'[x] # unit[x] /\ ~unit[x]
        BY <1>1, <1>3 DEF Bare
      <3>2. unit'[x]
        <4>1. StructInv'
          BY BaseStep DEF Base, Next
        <4>2. unit'[x] \in BOOLEAN
          BY <4>1 DEF StructInv, DiskOK
        <4> QED BY <1>3, <4>2
      <3> QED BY <1>1, <3>1, <3>2, UnitChanges
    <2>2. x \in Touched(h)
      BY <1>1, <2>1, Reaches DEF Bulk
    <2>3. hd[h].op = "proxy" => row[x].source = "managed"
      BY <1>1, <2>1 DEF Current, EditCurrent, Edits
    <2> QED BY <2>1, <2>2, <2>3 DEF Edits
  <1>4. ASSUME NEW s \in Server, file'[s][x].by = "panel"
        PROVE  /\ x \in Touched(h)
               /\ \/ hd[h].op = "create" /\ x = hd[h].d /\ row[x].source = "none"
                  \/ hd[h].op \in Edits /\ row[x].source = "managed"
                  \/ hd[h].op \in {"switch", "regen", "upgrade"} /\ hd[h].pc # "lock" /\ row[x].source = "managed"
                  \/ /\ hd[h].op = "adopt" /\ hd[h].pc \in {"pool", "render"} /\ x = hd[h].d
                     /\ row[x].source = "imported"
    <2>1. s \in Path /\ file[s][x].by # "panel"
      BY Constants DEF Bare
    <2>2. ~FileSame(x)
      BY <1>4, <2>1 DEF FileSame
    <2>3. /\ x \in Touched(h)
          /\ \/ hd[h].op = "create" /\ row[x].source = "none"
             \/ hd[h].op \in Edits /\ row[x].source = "managed"
             \/ hd[h].op = "delete" /\ row[x].source # "imported"
             \/ hd[h].op \in {"switch", "regen"} /\ hd[h].pc # "lock" /\ row[x].source = "managed"
             \/ hd[h].op = "adopt" /\ hd[h].pc # "lock" /\ row[x].source = "imported"
      BY <2>2, FileOwner
    <2>4. FileChange(h, x)
      BY <1>1, FileChanges
    <2>5. hd[h].op = "delete" => FileIs(x, NoFile)
      BY <2>2, <2>4 DEF FileChange, Edits
    <2>6. ~FileIs(x, NoFile)
      BY <1>4, <2>1, Values DEF FileIs
    <2>7. /\ hd[h].op = "create" => x = hd[h].d
          /\ hd[h].op = "adopt" => hd[h].pc \in {"disable", "pool", "render"} /\ x = hd[h].d
      BY <2>2, <2>4 DEF FileChange, Edits
    <2>8. hd[h].op = "adopt" => hd[h].pc # "disable"
      <3> SUFFICES ASSUME hd[h].op = "adopt", hd[h].pc = "disable" PROVE FALSE
        OBVIOUS
      <3>1. AdoptStep(h)
        BY <1>1, StepOf, LockReads
      <3>2. file' = file \/ \E P \in SUBSET Path : file' = Erase(file, P, hd[h].d)
        BY <1>1, <3>1, AdoptsFiles
      <3>3. hd[h].d \in Domain
        BY <1>1, <3>1, AdoptKinds
      <3>4. file'[s][x] = file[s][x] \/ file'[s][x] = NoFile
        BY <1>1, <2>1, <3>2, <3>3, ErasesFiles
      <3> QED BY <1>4, <2>1, <3>4, Values
    <2> QED BY <2>3, <2>5, <2>6, <2>7, <2>8
  <1> QED BY <1>2, <1>3, <1>4 DEF Bare

\* What stands in the other server's directory came there by a switch.
LEMMA TidyStays ==
  ASSUME Base, StrayInv, NEW h \in Handler, Step(h), NEW x \in Domain, Sure(x, "stray"), Tidy(x), active' = active
  PROVE  Tidy(x)'
  <1>1. StructInv /\ HandlersOK /\ FileOK(file) /\ FileOK(backup) /\ FileChange(h, x) /\ active \in Server
    BY FileChanges DEF Base, StructInv, DiskOK, PanelOK
  <1> SUFFICES ASSUME NEW s \in Server \ {active} PROVE file'[s][x].by # "panel"
    BY DEF Tidy
  <1>2. s \in Path /\ file[s][x].by # "panel"
    BY Constants DEF Tidy
  <1>3. CASE file'[s][x] = file[s][x] \/ file'[s][x] = NoFile
    BY <1>2, <1>3, Values
  <1>4. CASE hd[h].op = "adopt" /\ x = hd[h].d
    <2>1. AdoptStep(h) \/ file' = file
      BY <1>1, <1>4, StepOf, LockReads DEF disk
    <2>2. CASE AdoptStep(h)
      <3>1. hd[h].orig \in SUBSET Path /\ hd[h].copy \in Row
        BY <1>1, <2>2, AdoptKinds
      <3>2. \/ file' = file
            \/ \E P \in SUBSET Path : file' = Erase(file, P, x)
            \/ hd[h].pc \in {"pool", "render"} /\ file' = Move(backup, Erase(file, {active}, x), hd[h].orig, x)
            \/ Write(x, hd[h].copy)
        BY <1>1, <1>4, <2>2, AdoptsFiles DEF Restore
      <3>3. CASE \E P \in SUBSET Path : file' = Erase(file, P, x)
        <4>1. file'[s][x] = file[s][x] \/ file'[s][x] = NoFile
          BY <1>1, <1>2, <3>3, ErasesFiles
        <4> QED BY <1>3, <4>1
      <3>4. CASE hd[h].pc \in {"pool", "render"} /\ file' = Move(backup, Erase(file, {active}, x), hd[h].orig, x)
        <4> DEFINE erased == Erase(file, {active}, x)
        <4>1. {active} \in SUBSET Path
          BY <1>1, Constants
        <4>2. FileOK(erased) /\ \A p \in Path : erased[p][x] = IF p = active THEN NoFile ELSE file[p][x]
          BY <1>1, <4>1, ErasesFiles
        <4> HIDE DEF erased
        <4>3. file'[s][x] = IF s \in hd[h].orig THEN backup[s][x] ELSE erased[s][x]
          <5>1. file' = Move(backup, erased, hd[h].orig, x)
            BY <3>4 DEF erased
          <5>2. \A p \in Path, y \in Domain :
                  Move(backup, erased, hd[h].orig, x)[p][y] =
                    IF y = x /\ p \in hd[h].orig THEN backup[p][x] ELSE erased[p][y]
            BY <1>1, <3>1, <4>2, MovesFiles
          <5> QED BY <1>2, <5>1, <5>2
        <4>4. s \in hd[h].orig => backup[s][x].by # "panel"
          BY <1>4, <3>4 DEF StrayInv, OrigKept
        <4> QED BY <1>2, <4>2, <4>3, <4>4, Values
      <3>5. CASE Write(x, hd[h].copy)
        BY <1>1, <1>2, <1>3, <3>1, <3>5, WritesFile
      <3> QED BY <1>3, <3>2, <3>3, <3>4, <3>5
    <2> QED BY <1>3, <2>1, <2>2
  <1>5. file'[s][x] = file[s][x] \/ file'[s][x] = NoFile \/ (hd[h].op = "adopt" /\ x = hd[h].d)
    BY <1>1, <1>2 DEF FileChange, FileSame, FileIs
  <1> QED BY <1>3, <1>4, <1>5

\* A request that is making a site: the row it found, and that it alone is.
LEMMA Makes ==
  ASSUME Base, NEW g \in Handler, NEW x \in Domain, Making(hd[g], x), Clear(x)
  PROVE  /\ Busy(g) /\ x \in Touched(g) /\ row[x].source # "managed"
         /\ hd[g].op = "adopt" => hd[g].pc # "lock" /\ row[x].source = "imported"
         /\ hd[g].op = "create" => row[x].source = "none"
  <1>1. StructInv /\ HandlersOK /\ Current(hd[g])
    BY DEF Base, StructInv, CurrentInv
  <1>2. hd[g].op \in {"create", "adopt"} /\ hd[g].d = x /\ (hd[g].op = "adopt" => hd[g].pc # "lock")
    BY DEF Making
  <1>3. Busy(g) /\ hd[g].op \notin Bulk
    BY <1>1, <1>2, Working DEF Op, Locked, Bulk
  <1>4. x \in Touched(g)
    BY <1>1, <1>2, <1>3, Reaches
  <1>5. /\ hd[g].op = "adopt" => row[x].source = "imported"
        /\ hd[g].op = "create" => row[x].source = "none"
    BY <1>1, <1>2 DEF Current, CreateCurrent, AdoptCurrent
  <1> QED BY <1>2, <1>3, <1>4, <1>5

\* No switch takes place beside it.
LEMMA ActiveKept ==
  ASSUME Base, NEW h \in Handler, Step(h), NEW g \in Handler, NEW x \in Domain, Making(hd[g], x), Clear(x)
  PROVE  active' = active
  <1>1. StructInv /\ OverlapOK /\ Busy(h)
    BY StepStays DEF Base
  <1>2. Busy(g) /\ x \in Touched(g) /\ (hd[g].op = "adopt" => hd[g].pc # "lock") /\ hd[g].op \in {"create", "adopt"}
    BY Makes DEF Making
  <1> SUFFICES ASSUME hd[h].op = "switch", \A k \in Handler \ {h} : hd[k].op \in Guarded => hd[k].pc = "lock" PROVE FALSE
    BY <1>1, ActiveChanges
  <1>3. g \in Handler \ {h} /\ hd[g].op = "create"
    BY <1>2 DEF Guarded
  <1>4. x \in Touched(h)
    BY <1>1, Reaches DEF Bulk
  <1>5. ~Clash("create", "switch")
    BY <1>1, <1>2, <1>3, <1>4, Alongside
  <1> QED BY <1>5 DEF Clash, Single

\* What is being made is not served by an app, nor by the other server.
LEMMA MakingKept ==
  ASSUME Base, StrayInv, NEW h \in Handler, Step(h), NEW x \in Domain, Sure(x, "stray"), ~unit[x], Tidy(x),
         active' = active, row[x].source # "managed"
  PROVE  ~unit'[x] /\ Tidy(x)'
  <1>1. StructInv /\ Clear(x) /\ Current(hd[h])
    BY DEF Base, CurrentInv, Clear, Aspect
  <1>2. ~(hd[h].op = "proxy" /\ x = hd[h].d)
    BY <1>1 DEF Current, EditCurrent, Edits
  <1>3. ~unit'[x]
    BY <1>1, <1>2, UnitChanges
  <1>4. Tidy(x)'
    BY TidyStays
  <1> QED BY <1>3, <1>4

\* What an adoption is about to disable is all that there is.
LEMMA AdoptsBare ==
  ASSUME Base, StrayInv, NEW h \in Handler, AdoptStep(h), hd[h].pc = "disable", Sure(hd[h].d, "stray")
  PROVE  Bare(hd[h].d) /\ row[hd[h].d].source = "imported"
  <1> DEFINE x == hd[h].d
  <1>1. StructInv /\ OverlapOK /\ x \in Domain /\ hd[h].op = "adopt" /\ Busy(h) /\ Clear(x) /\ Current(hd[h])
        /\ \A g \in Handler \ {h} : hd[g].op \in Guarded => hd[g].pc = "lock"
    BY AdoptKinds DEF Base, CurrentInv, Clear, Aspect
  <1>2. row[x].source = "imported"
    BY <1>1 DEF Current, AdoptCurrent
  <1>3. x \in Touched(h)
    BY <1>1, Reaches DEF Bulk
  <1>4. ASSUME NEW g \in Handler, Making(hd[g], x) PROVE FALSE
    <2>1. g # h
      BY <1>1, <1>4 DEF Making
    <2>2. hd[g].op = "create"
      BY <1>1, <1>4, <2>1 DEF Making, Guarded
    <2>3. x \in Touched(g)
      BY <1>1, <1>4, Makes
    <2>4. ~Clash("create", "adopt")
      BY <1>1, <1>3, <2>1, <2>2, <2>3, Alongside
    <2> QED BY <2>4 DEF Clash
  <1>5. SiteBare(x)
    BY <1>1 DEF StrayInv
  <1> QED BY <1>2, <1>4, <1>5 DEF SiteBare

\* What a request is making stays so, whoever steps.
LEMMA MakingStep ==
  ASSUME Base, StrayInv, NEW h \in Handler, Step(h), NEW g \in Handler
  PROVE  MakingTidy(hd[g])'
  <1>1. StructInv /\ HandlersOK /\ Moves(h) /\ (hd'[h] = NoHandling \/ (hd'[h].op = hd[h].op /\ hd'[h].d = hd[h].d))
        /\ (g # h => hd'[g] = hd[g]) /\ NoHandling.op = None /\ None \notin Op
    BY StepStays, Values, Constants DEF Moves, Base, StructInv, HandlersOK
  <1> SUFFICES ASSUME hd'[g].op = "create" \/ (hd'[g].op = "adopt" /\ hd'[g].pc \in {"pool", "render", "mark"}),
                      <<hd'[g].d, "stray">> \notin doubt'
               PROVE  LET x == hd'[g].d IN ~unit'[x] /\ \A s \in Server \ {active'} : file'[s][x].by # "panel"
    BY DEF MakingTidy, Sure, Tidy
  <1> PICK x : x = hd[g].d
    OBVIOUS
  <1>2. hd'[g].d = x /\ hd'[g].op = hd[g].op /\ hd[g].op \in {"create", "adopt"}
    BY <1>1 DEF Op, Locked
  <1>3. x \in Domain
    BY <1>1, <1>2, Working DEF Op, Locked, Bulk
  <1>4. Sure(x, "stray") /\ Clear(x)
    BY <1>1, <1>2, StrayDoubts DEF Sure
  <1>5. CASE Making(hd[g], x)
    <2>1. ~unit[x] /\ Tidy(x)
      BY <1>4, <1>5 DEF StrayInv, MakingTidy, Making
    <2>2. active' = active /\ row[x].source # "managed"
      BY <1>3, <1>4, <1>5, ActiveKept, Makes
    <2>3. ~unit'[x] /\ Tidy(x)'
      BY <1>3, <1>4, <2>1, <2>2, MakingKept
    <2> QED BY <1>2, <2>3 DEF Tidy
  <1>6. CASE ~Making(hd[g], x)
    <2>1. g = h /\ hd[h].op = "adopt" /\ hd'[h].pc \in {"pool", "render", "mark"} /\ hd[h].pc \notin {"pool", "render", "mark"}
      BY <1>1, <1>2, <1>6 DEF Making
    <2>2. AdoptStep(h)
      <3>1. CASE Lock(h)
        <4>1. Enters(h) /\ hd'[h].pc = "disable"
          BY <1>1, <2>1, <3>1, LockReads, Replies, Values DEF Enters
        <4> QED BY <2>1, <4>1
      <3> QED BY <1>1, <2>1, <3>1, StepOf
    <2>3. hd[h].pc = "disable"
      BY <1>1, <2>1, <2>2, AdoptKinds
    <2>4. Bare(x) /\ row[x].source = "imported"
      BY <1>4, <2>1, <2>2, <2>3, AdoptsBare
    <2>5. ~unit[x] /\ Tidy(x) /\ active' = active
      BY <1>1, <2>2, <2>4, AdoptKinds DEF Bare, Tidy
    <2>6. ~unit'[x] /\ Tidy(x)'
      BY <1>3, <1>4, <2>4, <2>5, MakingKept
    <2> QED BY <1>2, <2>6 DEF Tidy
  <1> QED BY <1>5, <1>6

\* What was renamed out of the way.
LEMMA OrigStep ==
  ASSUME Base, StrayInv, NEW h \in Handler, Step(h), NEW g \in Handler
  PROVE  OrigKept(hd[g])'
  <1>1. StructInv /\ HandlersOK /\ Moves(h) /\ (hd'[h] = NoHandling \/ (hd'[h].op = hd[h].op /\ hd'[h].d = hd[h].d))
        /\ (g # h => hd'[g] = hd[g]) /\ NoHandling.op = None /\ None \notin Op
    BY StepStays, Values, Constants DEF Moves, Base, StructInv, HandlersOK
  <1> SUFFICES ASSUME hd'[g].op = "adopt", hd'[g].pc \in {"pool", "render"}, <<hd'[g].d, "stray">> \notin doubt',
                      NEW s \in hd'[g].orig \cap Server
               PROVE  backup'[s][hd'[g].d].by # "panel"
    BY DEF OrigKept, Sure
  <1> PICK x : x = hd[g].d
    OBVIOUS
  <1>2. hd'[g].d = x /\ hd[g].op = "adopt"
    BY <1>1 DEF Op, Locked
  <1>3. x \in Domain
    BY <1>1, <1>2, Working DEF Op, Locked, Bulk
  <1>4. Sure(x, "stray") /\ Clear(x) /\ s \in Path
    BY <1>1, <1>2, StrayDoubts, Constants DEF Sure
  <1>5. CASE g # h
    <2>1. backup[s][x].by # "panel"
      BY <1>1, <1>2, <1>4, <1>5 DEF StrayInv, OrigKept
    <2>2. lock = g
      BY <1>1, <1>2, <1>5 DEF StructInv, LockOK, Guarded
    <2>3. ~(hd[h].op = "adopt" /\ hd[h].pc # "lock")
      BY <1>1, <1>5, <2>2 DEF StructInv, LockOK, Guarded
    <2>4. backup'[s][x] = backup[s][x]
      BY <1>1, <1>3, <1>4, <2>3, BackupChanges
    <2> QED BY <1>2, <2>1, <2>4
  <1>6. CASE g = h
    <2>1. AdoptStep(h)
      <3>1. CASE Lock(h)
        <4>1. Enters(h) /\ hd'[h].pc = "disable"
          BY <1>1, <1>2, <1>6, <3>1, LockReads, Replies, Values DEF Enters
        <4> QED BY <1>6, <4>1
      <3> QED BY <1>1, <1>2, <1>6, <3>1, StepOf
    <2>2. hd'[h] # NoHandling /\ hd'[h].pc \in {"pool", "render"}
      BY <1>1, <1>2, <1>6, Values
    <2>3. ~Unlock(h)
      BY <1>1, <2>2, Replies DEF Unlock
    <2>4. \/ /\ hd[h].pc = "disable"
             /\ \E P \in SUBSET Path : hd'[h].orig = P /\ backup' = Move(file, backup, P, x)
          \/ hd[h].pc = "pool" /\ hd'[h].orig = hd[h].orig /\ backup' = backup
      BY <1>1, <1>6, <2>1, <2>2, <2>3, AdoptsFiles DEF Restore
    <2>5. CASE hd[h].pc = "pool" /\ hd'[h].orig = hd[h].orig /\ backup' = backup
      BY <1>2, <1>4, <1>6, <2>5 DEF StrayInv, OrigKept
    <2>6. CASE hd[h].pc = "disable"
      <3>1. PICK P \in SUBSET Path : hd'[h].orig = P /\ backup' = Move(file, backup, P, x)
        BY <2>4, <2>6
      <3>2. Bare(x)
        BY <1>4, <1>6, <2>1, <2>6, AdoptsBare
      <3>3. FileOK(file) /\ FileOK(backup) /\ s \in P
        BY <1>1, <1>6, <3>1 DEF StructInv, DiskOK
      <3>4. backup'[s][x] = file[s][x]
        <4>1. \A p \in Path, y \in Domain :
                Move(file, backup, P, x)[p][y] = IF y = x /\ p \in P THEN file[p][x] ELSE backup[p][y]
          BY <1>3, <3>3, MovesFiles
        <4> QED BY <1>3, <1>4, <3>1, <3>3, <4>1
      <3> QED BY <1>2, <3>2, <3>4 DEF Bare
    <2> QED BY <2>4, <2>5, <2>6
  <1> QED BY <1>5, <1>6

\* A creation that ends without a row has rolled back.
LEMMA CreateBare ==
  ASSUME Base, StrayInv, NEW h \in Handler, Step(h), hd[h].op = "create", NEW x \in Domain, x = hd[h].d,
         Sure(x, "stray"), <<x, "stray">> \notin doubt', row'[x].source # "managed", hd'[h].op # "create"
  PROVE  Bare(x)'
  <1>1. StructInv /\ HandlersOK /\ FileOK(file) /\ active \in Server /\ active \in Path /\ hd[h].copy.source = "managed"
        /\ pool \in [Domain -> SUBSET Pool] /\ row \in [Domain -> Row] /\ hd[h].copy \in Row
    BY Working, Constants DEF Base, StructInv, DiskOK, PanelOK, RowsOK, Holding, Handling
  <1>2. ~unit[x] /\ Tidy(x)
    BY DEF StrayInv, MakingTidy
  <1>3. ~(\E pc \in Pc \ {"idle"} : Goto(h, pc))
    BY <1>1, GoesOn
  <1>4. RollBack(h) /\ UNCHANGED <<unit, active>>
    <2>1. CreatePool(h) \/ CreateVHost(h) \/ CreateRow(h)
      BY <1>1, StepOf
    <2>2. CASE CreatePool(h)
      BY <1>3, <2>2 DEF CreatePool, Doubting, Pc
    <2>3. CASE CreateVHost(h)
      BY <1>3, <2>3 DEF CreateVHost, Pc, KeepRest, conf
    <2>4. CASE CreateRow(h)
      <3>1. ~(row' = [row EXCEPT ![x] = [hd[h].copy EXCEPT !.id = ids + 1]])
        BY <1>1 DEF Row
      <3> QED BY <2>4, <3>1 DEF CreateRow, KeepRest, conf
    <2> QED BY <2>1, <2>2, <2>3, <2>4
  <1>5. pool'[x] = {}
    BY <1>1, <1>4 DEF RollBack, SetPool
  <1>6. ASSUME NEW s \in Server PROVE file'[s][x].by # "panel"
    <2>1. s \in Path /\ file'[s][x] = IF s = active THEN NoFile ELSE file[s][x]
      BY <1>1, <1>4, Constants, RemovesFile DEF RollBack
    <2> QED BY <1>2, <2>1, Values DEF Tidy
  <1> QED BY <1>2, <1>4, <1>5, <1>6 DEF Bare

\* An adoption that ends without a managed row has put back what it found.
LEMMA AdoptBare ==
  ASSUME Base, StrayInv, NEW h \in Handler, Step(h), hd[h].op = "adopt", hd[h].pc \in {"pool", "render", "mark"},
         NEW x \in Domain, x = hd[h].d, Sure(x, "stray"), <<x, "stray">> \notin doubt',
         row'[x].source # "managed", hd'[h].pc \notin {"pool", "render", "mark"}
  PROVE  Bare(x)'
  <1>1. StructInv /\ HandlersOK /\ FileOK(file) /\ FileOK(backup) /\ active \in Server /\ Clear(x)
        /\ pool \in [Domain -> SUBSET Pool] /\ row \in [Domain -> Row] /\ Current(hd[h])
    BY DEF Base, StructInv, DiskOK, PanelOK, RowsOK, CurrentInv, Clear, Aspect
  <1>2. ~unit[x] /\ Tidy(x)
    BY DEF StrayInv, MakingTidy
  <1>3. AdoptStep(h)
    BY <1>1, StepOf, LockReads
  <1>4. hd[h].orig \in SUBSET Path /\ UNCHANGED <<unit, active>>
    BY <1>1, <1>3, AdoptKinds DEF conf
  <1>5. Restore(h) /\ hd[h].pc \in {"pool", "render"}
    <2>1. CASE Update(x, hd[h].copy.id, [row[x] EXCEPT !.source = "managed", !.php = hd[h].copy.php, !.conf = None])
      <3>1. row[x].id = hd[h].copy.id
        BY <1>1, Adopting DEF Base
      <3>2. row'[x] = [row[x] EXCEPT !.source = "managed", !.php = hd[h].copy.php, !.conf = None]
        BY <1>1, <2>1, <3>1 DEF Update
      <3>3. row'[x].source = "managed"
        BY <1>1, <3>2 DEF Row
      <3> QED BY <3>3
    <2>2. ~(\A a \in Aspect : <<x, a>> \in doubt')
      BY DEF Aspect
    <2> QED BY <1>1, <1>3, <2>1, <2>2, AdoptsFiles
  <1>6. pool'[x] = {}
    BY <1>1, <1>5 DEF Restore, SetPool
  <1>7. ASSUME NEW s \in Server PROVE file'[s][x].by # "panel"
    <2> DEFINE erased == Erase(file, {active}, x)
    <2>1. {active} \in SUBSET Path /\ s \in Path
      BY <1>1, Constants
    <2>2. FileOK(erased) /\ \A p \in Path : erased[p][x] = IF p = active THEN NoFile ELSE file[p][x]
      <3>1. FileOK(file)
        BY <1>1
      <3>2. FileOK(erased) /\ \A p \in Path, y \in Domain :
              erased[p][y] = IF y = x /\ p \in {active} THEN NoFile ELSE file[p][y]
        BY <2>1, <3>1, ErasesFiles
      <3> QED BY <3>2
    <2> HIDE DEF erased
    <2>3. file'[s][x] = IF s \in hd[h].orig THEN backup[s][x] ELSE erased[s][x]
      <3>1. file' = Move(backup, erased, hd[h].orig, x)
        BY <1>5 DEF Restore, erased
      <3>2. \A p \in Path, y \in Domain :
              Move(backup, erased, hd[h].orig, x)[p][y] =
                IF y = x /\ p \in hd[h].orig THEN backup[p][x] ELSE erased[p][y]
        BY <1>1, <1>4, <2>2, MovesFiles
      <3> QED BY <2>1, <3>1, <3>2
    <2>4. s \in hd[h].orig => backup[s][x].by # "panel"
      BY <1>5 DEF StrayInv, OrigKept
    <2> QED BY <1>2, <2>1, <2>2, <2>3, <2>4, Values DEF Tidy
  <1> QED BY <1>2, <1>4, <1>6, <1>7 DEF Bare

\* Where no managed site is, there is nothing of the panel's.
LEMMA SitesBare ==
  ASSUME Base, StrayInv, NEW h \in Handler, Step(h), NEW x \in Domain
  PROVE  SiteBare(x)'
  <1>1. StructInv /\ HandlersOK /\ Moves(h) /\ Busy(h) /\ (\A g \in Handler \ {h} : hd'[g] = hd[g])
        /\ row \in [Domain -> Row] /\ (hd'[h] = NoHandling \/ (hd'[h].op = hd[h].op /\ hd'[h].d = hd[h].d))
    BY StepStays DEF Moves, Base, StructInv, HandlersOK, RowsOK
  <1> SUFFICES ASSUME row'[x].source # "managed", <<x, "stray">> \notin doubt',
                      \A g \in Handler : ~Making(hd'[g], x)
               PROVE  Bare(x)'
    BY DEF SiteBare, Sure, Making
  <1>2. Sure(x, "stray") /\ Clear(x)
    BY <1>1, StrayDoubts DEF Sure
  <1>3. CASE row[x].source # "managed" /\ \A g \in Handler : ~Making(hd[g], x)
    <2>1. Bare(x)
      BY <1>2, <1>3 DEF StrayInv, SiteBare
    <2> SUFFICES ASSUME ~Bare(x)' PROVE FALSE
      OBVIOUS
    <2>2. ~Making(hd[h], x)
      BY <1>3
    <2> QED BY <1>2, <1>3, <2>1, <2>2, BareOwner DEF Making
  <1>4. CASE row[x].source = "managed"
    <2>1. row'[x] # row[x] /\ RowChange(h, x)
      BY <1>1, <1>4, RowChanges
    <2>2. hd[h].op \notin Edits
      <3>1. hd[h].op \in Edits => EditStep(h)
        BY <1>1, StepOf
      <3> QED BY <1>1, <1>4, <3>1, EditUpdates
    <2>3. ~(row'[x] = [row[x] EXCEPT !.source = "managed", !.php = hd[h].copy.php, !.conf = None])
      BY <1>1 DEF Row
    <2>4. ~(\A a \in Aspect : ~Sure(x, a)')
      BY DEF Sure, Aspect
    <2>5. hd[h].op = "delete" /\ row'[x] = NoRow
      BY <1>4, <2>1, <2>2, <2>3, <2>4 DEF RowChange
    <2>6. DeleteRows(h)
      BY <1>1, <2>1, <2>5, StepOf DEF DeleteTeardown, DeleteDismiss, db
    <2>7. UNCHANGED disk /\ doubt' = doubt \cup (Stranded(row', hd[h].mine) \X Aspect) /\ hd[h].pc = "drop"
      BY <2>1, <2>6 DEF DeleteRows, At
    <2>8. x \in hd[h].mine
      BY <1>4, <2>5, <2>7, Values DEF Stranded, Managed, Aspect
    <2>9. Bare(x)
      BY <1>2, <2>5, <2>7, <2>8 DEF StrayInv, DeletedBare
    <2> QED BY <2>7, <2>9 DEF Bare, disk
  <1>5. CASE \E g \in Handler : Making(hd[g], x)
    <2>1. Making(hd[h], x) /\ ~Making(hd'[h], x)
      BY <1>1, <1>5
    <2>2. CASE hd[h].op = "create"
      <3>1. hd'[h].op # "create" /\ x = hd[h].d
        BY <1>1, <2>1, <2>2, Values, Constants DEF Making, Op
      <3> QED BY <1>2, <2>2, <3>1, CreateBare
    <2>3. CASE hd[h].op = "adopt"
      <3>1. x = hd[h].d /\ hd[h].pc \in {"pool", "render", "mark"} /\ hd'[h].pc \notin {"pool", "render", "mark"}
        BY <1>1, <2>1, <2>3, Values DEF Making
      <3> QED BY <1>2, <2>3, <3>1, AdoptBare
    <2> QED BY <2>1, <2>2, <2>3 DEF Making
  <1> QED BY <1>3, <1>4, <1>5

\* A step that leaves no switch under way and began in one.
LEMMA SwitchTidy ==
  ASSUME Base, StrayInv, NEW h \in Handler, Step(h), Switching(hd[h]), ~Switching(hd'[h]), NEW x \in Domain,
         row'[x].source = "managed", <<x, "stray">> \notin doubt'
  PROVE  Tidy(x)'
  <1>1. StructInv /\ HandlersOK /\ FileOK(file) /\ Clear(x) /\ Current(hd[h])
    BY StrayDoubts DEF Base, StructInv, DiskOK, CurrentInv, Sure
  <1>2. BulkStep(h) /\ hd[h].op = "switch" /\ hd[h].pc # "lock"
    BY <1>1, StepOf, LockReads DEF Switching
  <1>3. row' = row /\ hd[h].server \in Server /\ hd[h].server # active /\ active \in Server
    BY <1>1, <1>2, BulkKinds DEF Holding, db
  <1>4. ~(\E pc \in Pc \ {"idle", "lock"} : Goto(h, pc)) /\ ~(hd' = [hd EXCEPT ![h].pc = "rerender", ![h].snap = row])
    BY <1>1, <1>2, GoesOn, SnapMoves DEF Switching
  <1>5. ~All({"stray"}) /\ ~All({"pool", "stray"})
    BY DEF All
  <1>6. SwitchClean(h)
    BY <1>2, <1>4, <1>5 DEF BulkStep, SwitchSites, SwitchValidate, SwitchSwap, SwitchSave, SwitchRepool, SwitchReconcile,
       SwitchRerender, Regenerate, RegenApply, Upgrade, Revert, At, Pc
  <1>7. x \in hd[h].mine
    BY <1>1, <1>2, <1>3 DEF Current, SwitchCurrent
  <1>8. file'[hd[h].server][x] = NoFile /\ active' = active
    BY <1>1, <1>3, <1>6, <1>7, Constants DEF SwitchClean, FileOK, conf
  <1>9. Server \ {active} = {hd[h].server}
    BY <1>3 DEF Server
  <1> QED BY <1>8, <1>9, Values DEF Tidy

\* The inactive server's directory has nothing of the panel's for a managed site.
LEMMA SitesTidy ==
  ASSUME Base, StrayInv, NEW h \in Handler, Step(h), NEW x \in Domain
  PROVE  SiteTidy(x)'
  <1>1. StructInv /\ HandlersOK /\ Moves(h) /\ Busy(h) /\ (\A g \in Handler \ {h} : hd'[g] = hd[g])
        /\ row \in [Domain -> Row]
    BY StepStays DEF Moves, Base, StructInv, HandlersOK, RowsOK
  <1> SUFFICES ASSUME row'[x].source = "managed", <<x, "stray">> \notin doubt',
                      \A g \in Handler : ~Switching(hd'[g])
               PROVE  Tidy(x)'
    BY DEF SiteTidy, Sure, Switching
  <1>2. Sure(x, "stray") /\ Clear(x)
    BY <1>1, StrayDoubts DEF Sure
  <1>3. CASE \E g \in Handler : Switching(hd[g])
    <2>1. Switching(hd[h]) /\ ~Switching(hd'[h])
      BY <1>1, <1>3
    <2> QED BY <2>1, SwitchTidy
  <1>4. CASE \A g \in Handler : ~Switching(hd[g])
    <2>1. active' = active
      <3> SUFFICES ASSUME active' # active PROVE FALSE
        OBVIOUS
      <3>1. hd[h].op = "switch" /\ hd[h].pc = "lock"
        BY <1>1, <1>4, ActiveChanges DEF Switching
      <3>2. Lock(h)
        BY <1>1, <3>1, StepOf, BulkKinds
      <3>3. Enters(h)
        BY <1>1, <3>2, LockReads
      <3> QED BY <3>1, <3>3 DEF Enters, Switching
    <2>2. Tidy(x)
      <3>1. CASE row[x].source = "managed"
        BY <1>2, <1>4, <3>1 DEF StrayInv, SiteTidy
      <3>2. CASE row[x].source # "managed"
        <4>1. row'[x] # row[x] /\ RowChange(h, x)
          BY <1>1, <3>2, RowChanges
        <4>2. hd[h].op \notin Edits
          <5>1. hd[h].op \in Edits => EditStep(h)
            BY <1>1, StepOf
          <5> QED BY <1>1, <3>2, <5>1, EditUpdates
        <4>3. /\ x = hd[h].d
              /\ hd[h].op = "create" \/ (hd[h].op = "adopt" /\ hd[h].pc = "mark")
          BY <3>2, <4>1, <4>2, Values DEF RowChange
        <4> QED BY <1>2, <4>3 DEF StrayInv, MakingTidy
      <3> QED BY <3>1, <3>2
    <2> QED BY <1>2, <2>1, <2>2, TidyStays
  <1> QED BY <1>3, <1>4

\* A teardown leaves nothing.
LEMMA TeardownBare ==
  ASSUME Base, StrayInv, NEW h \in Handler, DeleteTeardown(h), NEW x \in hd[h].mine, x \in Domain,
         <<x, "stray">> \notin doubt'
  PROVE  Bare(x)'
  <1>1. StructInv /\ OverlapOK /\ FileOK(file) /\ active \in Server /\ Current(hd[h]) /\ Busy(h) /\ hd[h].op = "delete"
    BY DEF Base, StructInv, DiskOK, PanelOK, CurrentInv, DeleteTeardown, At, Busy
  <1>2. Sure(x, "stray") /\ Clear(x) /\ active' = active
    BY DEF DeleteTeardown, Sure, Clear, Aspect, KeepRest, conf
  <1>3. x \in Touched(h)
    BY <1>1, Reaches
  <1>4. Tidy(x)
    <2>1. CASE row[x].source = "managed"
      <3>1. ASSUME NEW g \in Handler, Switching(hd[g]) PROVE FALSE
        <4>1. g # h /\ hd[g].op = "switch"
          BY <1>1, <3>1 DEF Switching
        <4>2. Busy(g) /\ x \in Touched(g)
          <5>1. Busy(g)
            BY <1>1, <4>1, Working DEF Op, Locked, StructInv
          <5> QED BY <1>1, <4>1, <5>1, Reaches DEF Bulk
        <4>3. ~Clash("delete", "switch")
          BY <1>1, <1>2, <1>3, <4>1, <4>2, Alongside
        <4> QED BY <4>3 DEF Clash, Single
      <3> QED BY <1>2, <2>1, <3>1 DEF StrayInv, SiteTidy
    <2>2. CASE row[x].source # "managed"
      <3>1. ASSUME NEW g \in Handler, Making(hd[g], x) PROVE FALSE
        <4>1. g # h /\ hd[g].op \in {"create", "adopt"}
          BY <1>1, <3>1 DEF Making
        <4>2. x \in Touched(g)
          BY <1>2, <3>1, Makes
        <4>3. ~Clash("delete", hd[g].op) /\ ~Clash(hd[g].op, "delete")
          BY <1>1, <1>2, <1>3, <4>1, <4>2, Alongside
        <4>4. Clash("delete", "create") /\ Clash("delete", "adopt")
          BY DEF Clash, Single
        <4> QED BY <4>1, <4>3, <4>4
      <3>2. Bare(x)
        BY <1>2, <2>2, <3>1 DEF StrayInv, SiteBare
      <3> QED BY <3>2 DEF Bare, Tidy
    <2> QED BY <2>1, <2>2
  <1>5. pool'[x] = {} /\ ~unit'[x]
    BY DEF DeleteTeardown
  <1>6. ASSUME NEW s \in Server PROVE file'[s][x].by # "panel"
    <2>1. s \in Path /\ active \in Path
      BY <1>1, Constants
    <2>2. file'[s][x] = IF s = active THEN NoFile ELSE file[s][x]
      BY <1>1, <2>1 DEF DeleteTeardown, FileOK
    <2> QED BY <1>4, <2>2, Values DEF Tidy
  <1> QED BY <1>5, <1>6 DEF Bare

\* Nothing comes back before the rows go.
LEMMA DeletedStep ==
  ASSUME Base, StrayInv, NEW h \in Handler, Step(h), NEW g \in Handler
  PROVE  DeletedBare(hd[g])'
  <1>1. StructInv /\ HandlersOK /\ OverlapOK /\ Moves(h) /\ (g # h => hd'[g] = hd[g])
        /\ (hd'[h] = NoHandling \/ (hd'[h].op = hd[h].op /\ hd'[h].d = hd[h].d))
        /\ NoHandling.op # "delete"
    BY StepStays, Values, Constants DEF Moves, Base, StructInv, HandlersOK, Op
  <1>2. CASE g # h
    <2> SUFFICES ASSUME hd[g].op = "delete", hd[g].pc = "drop", NEW x \in hd[g].mine, <<x, "stray">> \notin doubt'
                 PROVE  Bare(x)'
      BY <1>1, <1>2 DEF StrayInv, DeletedBare, Sure, Bare
    <2>1. Busy(g)
      BY <1>1, Working DEF Op
    <2>2. x \in Touched(g)
      BY <1>1, <2>1, Reaches
    <2>3. x \in Domain
      BY <1>1, Working DEF Handling
    <2>4. Sure(x, "stray") /\ Clear(x)
      BY <1>1, StrayDoubts DEF Sure
    <2>5. Bare(x)
      BY <2>4 DEF StrayInv, DeletedBare
    <2> SUFFICES ASSUME ~Bare(x)' PROVE FALSE
      OBVIOUS
    <2>6. x \in Touched(h) /\ hd[h].op \in {"create", "switch", "regen", "upgrade", "adopt"} \cup Edits
      BY <2>3, <2>4, <2>5, BareOwner
    <2>7. ~Clash(hd[h].op, "delete") /\ ~Clash("delete", hd[h].op) /\ hd[h].op \in Op
      BY <1>1, <1>2, <2>2, <2>3, <2>4, <2>6, Alongside
    <2> DEFINE q == hd[h].op
    <2>8. q # "delete" /\ q # "scan"
      BY <2>6 DEF Edits
    <2> HIDE DEF q
    <2> QED BY <2>6, <2>7, <2>8, Clashes DEF q, Op
  <1>3. CASE g = h
    <2> SUFFICES ASSUME hd'[h].op = "delete"
                 PROVE  /\ hd'[h].pc = "forget" => hd'[h].mine = {}
                        /\ hd'[h].pc = "drop" => \A x \in hd'[h].mine : <<x, "stray">> \notin doubt' => Bare(x)'
      BY <1>3 DEF DeletedBare, Sure, Bare
    <2>1. hd[h].op = "delete" /\ ~Reply(h)
      BY <1>1, Replies
    <2>2. DeleteTeardown(h) \/ DeleteDismiss(h)
      BY <1>1, <2>1, StepOf DEF DeleteRows
    <2>3. CASE DeleteTeardown(h)
      <3>1. hd'[h].mine = hd[h].mine /\ hd'[h].pc = "drop" /\ hd[h].mine \in SUBSET Domain
        BY ZenonT(30), <1>1, <2>3, GoesOn DEF DeleteTeardown, Pc, HandlersOK, Handling
      <3> QED BY <2>3, <3>1, TeardownBare
    <2>4. CASE DeleteDismiss(h)
      <3>1. hd'[h].mine = hd[h].mine /\ hd'[h].pc = "drop" /\ hd[h].pc = "forget"
        BY <1>1, <2>4, GoesOn DEF DeleteDismiss, Pc, At
      <3>2. hd[h].mine = {}
        BY <2>1, <3>1 DEF StrayInv, DeletedBare
      <3> QED BY <3>1, <3>2
    <2> QED BY <2>2, <2>3, <2>4
  <1> QED BY <1>2, <1>3

LEMMA StepStray ==
  ASSUME Base, StrayInv, NEW h \in Handler, Step(h)
  PROVE  StrayInv'
  <1>1. \A x \in Domain : SiteBare(x)' /\ SiteTidy(x)'
    BY SitesBare, SitesTidy
  <1>2. \A g \in Handler : DeletedBare(hd[g])' /\ MakingTidy(hd[g])' /\ OrigKept(hd[g])'
    BY DeletedStep, MakingStep, OrigStep
  <1> QED BY <1>1, <1>2 DEF StrayInv

\* A request is accepted.
LEMMA AskStray ==
  ASSUME Base, StrayInv, NEW h \in Handler, Request(h)
  PROVE  StrayInv'
  <1>1. StructInv /\ HandlersOK
    BY DEF Base, StructInv
  <1>2. PICK op \in Op, d \in Domain \cup {None} : \E new \in Handling :
          Ask(h, op, d, new) /\ Opening(op, d, new)
    BY <1>1, RequestOpens
  <1>3. PICK new \in Handling : Ask(h, op, d, new) /\ Opening(op, d, new)
    BY <1>2
  <1>4. Asked(h, op, d, new) /\ doubt' = doubt \cup (Disturbed(op, d) \X Aspect)
    BY <1>1, <1>3, Asks DEF Ask
  <1>5. row' = row /\ file' = file /\ backup' = backup /\ pool' = pool /\ unit' = unit /\ active' = active
        /\ \A x : Sure(x, "stray")' => Sure(x, "stray")
    BY <1>4 DEF Asked, db, disk, conf, Sure
  <1>6. \A g \in Handler \ {h} :
          /\ hd'[g].op = hd[g].op /\ hd'[g].d = hd[g].d /\ hd'[g].pc = hd[g].pc
          /\ hd'[g].mine = hd[g].mine /\ hd'[g].orig = hd[g].orig
    BY <1>4 DEF Asked
  <1>7. hd[h].op \notin Op /\ hd'[h].op = op /\ hd'[h].d = d /\ hd'[h].pc = new.pc /\ hd'[h].mine = new.mine
    BY <1>1, <1>4, Working DEF Asked
  <1>8. ASSUME NEW x \in Domain PROVE SiteBare(x)' /\ SiteTidy(x)'
    <2>1. ~Making(hd[h], x) /\ ~Switching(hd[h])
      BY <1>7 DEF Making, Switching, Op, Locked
    <2>2. \A g \in Handler \ {h} : (Making(hd[g], x) => Making(hd'[g], x)) /\ (Switching(hd[g]) => Switching(hd'[g]))
      BY <1>6 DEF Making, Switching
    <2>3. SiteBare(x) /\ SiteTidy(x)
      BY DEF StrayInv
    <2>4. /\ (\A g \in Handler : ~Making(hd'[g], x)) => \A g \in Handler : ~Making(hd[g], x)
          /\ (\A g \in Handler : ~Switching(hd'[g])) => \A g \in Handler : ~Switching(hd[g])
      BY <2>1, <2>2
    <2>5. (Bare(x)' <=> Bare(x)) /\ (Tidy(x)' <=> Tidy(x))
      BY <1>5 DEF Bare, Tidy
    <2>6. \A g : (Making(hd[g], x)' <=> Making(hd'[g], x)) /\ (Switching(hd[g])' <=> Switching(hd'[g]))
      BY DEF Making, Switching
    <2> QED BY <1>5, <2>3, <2>4, <2>5, <2>6 DEF SiteBare, SiteTidy
  <1>9. ASSUME NEW g \in Handler \ {h}
        PROVE  DeletedBare(hd[g])' /\ MakingTidy(hd[g])' /\ OrigKept(hd[g])'
    <2>1. DeletedBare(hd[g]) /\ MakingTidy(hd[g]) /\ OrigKept(hd[g])
      BY DEF StrayInv
    <2>2. DeletedBare(hd[g])'
      BY <1>5, <1>6, <2>1 DEF DeletedBare, Bare
    <2>3. MakingTidy(hd[g])'
      BY <1>5, <1>6, <2>1 DEF MakingTidy, Tidy
    <2>4. OrigKept(hd[g])'
      BY <1>5, <1>6, <2>1 DEF OrigKept
    <2> QED BY <2>2, <2>3, <2>4
  <1>10. DeletedBare(hd[h])' /\ OrigKept(hd[h])'
    <2>1. /\ op = "delete" => new.pc # "drop" /\ (new.pc = "forget" => new.mine = {})
          /\ op = "adopt" => new.pc = "lock"
      BY <1>3 DEF Opening, Guarded
    <2> QED BY <1>7, <2>1 DEF DeletedBare, OrigKept
  <1>11. MakingTidy(hd[h])'
    <2>1. op = "adopt" => new.pc = "lock"
      BY <1>3 DEF Opening, Guarded
    <2> SUFFICES ASSUME op = "create", <<d, "stray">> \notin doubt' PROVE ~unit[d] /\ Tidy(d)
      BY <1>5, <1>7, <2>1 DEF MakingTidy, Sure, Tidy
    <2>2. d \in Domain /\ row[d].source = "none"
      BY <1>3 DEF Opening, Bulk
    <2>3. Sure(d, "stray") /\ Clear(d) /\ d \notin Disturbed(op, d)
      BY <1>4 DEF Sure, Clear, Aspect
    <2>4. ASSUME NEW g \in Handler, Making(hd[g], d) PROVE FALSE
      <3>1. d \in Touched(g)
        BY <2>2, <2>3, <2>4, Makes
      <3>2. d \in Reach(op, d)
        BY DEF Reach, Bulk
      <3>3. Clash("create", "create") /\ Clash("create", "adopt")
        BY DEF Clash, Single
      <3>4. hd[g].op \in {"create", "adopt"}
        BY <2>4 DEF Making
      <3> QED BY <2>2, <2>3, <3>1, <3>2, <3>3, <3>4 DEF Disturbed
    <2>5. Bare(d)
      BY <2>2, <2>3, <2>4 DEF StrayInv, SiteBare
    <2> QED BY <2>5 DEF Bare, Tidy
  <1> QED BY <1>8, <1>9, <1>10, <1>11 DEF StrayInv

\* The panel starts.
LEMMA StartStray ==
  ASSUME Base, StrayInv, Start
  PROVE  StrayInv'
  <1>1. StructInv /\ FileOK(file) /\ saved \in Server /\ saved \in Path /\ Server \subseteq Path
    BY Constants DEF Base, StructInv, DiskOK, PanelOK
  <1>2. ~up /\ row' = Booted /\ hd' = hd /\ active' = saved /\ pool' = pool
        /\ unit' = [x \in Domain |-> unit[x] \/ (app'[x] /\ Booted[x].source = "managed")]
    BY StartDoes
  <1>3. \A g \in Handler : hd[g] = NoHandling /\ hd[g].op \notin Op
    BY <1>1, <1>2, Values, Constants DEF StructInv, DownOK
  <1>4. PICK done \in SUBSET Served :
          /\ file' = [file EXCEPT ![saved] =
                 [d \in Domain |-> IF d \in done THEN Rendering(Booted[d]) ELSE @[d]]]
          /\ doubt' = (doubt \ (done \X {"vhost"})) \cup (Stranded(Booted, {}) \X Aspect)
               \cup (IF saved # active THEN Domain \X {"pool", "stray", "vhost"} ELSE {})
    BY StartDoes
  <1>5. ASSUME NEW x \in Domain, <<x, "stray">> \notin doubt'
        PROVE  /\ Booted[x].source # "managed" => Bare(x)'
               /\ Booted[x].source = "managed" => Tidy(x)'
    <2>1. active = saved /\ Sure(x, "stray") /\ x \notin Stranded(Booted, {})
      BY <1>4, <1>5 DEF Sure, Aspect
    <2>2. \A g \in Handler : ~Making(hd[g], x) /\ ~Switching(hd[g])
      BY <1>3 DEF Making, Switching, Op, Locked
    <2>3. (row[x].source # "managed" => Bare(x)) /\ (row[x].source = "managed" => Tidy(x))
      BY <2>1, <2>2 DEF StrayInv, SiteBare, SiteTidy
    <2>4. row[x].source = "managed" <=> Booted[x].source = "managed"
      <3>1. row[x].source = "managed" /\ Booted[x] = NoRow => x \in Stranded(Booted, {})
        BY Values DEF Stranded, Managed
      <3>2. \/ Booted[x] = NoRow \/ Booted[x] = row[x]
            \/ row[x].source = "imported" /\ Booted[x].source = "imported"
            \/ x \in Newly /\ Booted[x].source = "imported"
        BY <1>1, StartRows
      <3>3. x \in Newly => row[x].source # "managed"
        BY Values DEF Newly, Untracked
      <3> QED BY <2>1, <3>1, <3>2, <3>3, Values
    <2>5. \A s \in Server : s # saved => file'[s][x] = file[s][x]
      BY <1>1, <1>4 DEF FileOK
    <2>6. Booted[x].source # "managed" => file'[saved][x] = file[saved][x]
      <3>1. x \in done => Booted[x].source = "managed"
        BY DEF Served, Managed
      <3> QED BY <1>1, <1>4, <3>1 DEF FileOK
    <2>7. CASE Booted[x].source # "managed"
      <3>1. Bare(x) /\ unit'[x] = unit[x] /\ pool'[x] = pool[x]
        <4>1. unit[x] \in BOOLEAN
          BY <1>1 DEF StructInv, DiskOK
        <4> QED BY <1>2, <2>3, <2>4, <2>7, <4>1
      <3>2. \A s \in Server : file'[s][x] = file[s][x]
        BY <2>5, <2>6, <2>7
      <3> QED BY <2>7, <3>1, <3>2 DEF Bare
    <2>8. CASE Booted[x].source = "managed"
      <3>1. Tidy(x)
        BY <2>3, <2>4, <2>8
      <3> QED BY <1>2, <2>1, <2>5, <2>8, <3>1 DEF Tidy
    <2> QED BY <2>7, <2>8
  <1>6. \A x \in Domain : SiteBare(x)' /\ SiteTidy(x)'
    BY <1>2, <1>5 DEF SiteBare, SiteTidy, Sure
  <1> QED BY <1>2, <1>3, <1>6 DEF StrayInv, DeletedBare, MakingTidy, OrigKept, Op, Locked

LEMMA StrayStep ==
  ASSUME Base, StrayInv, [Next]_vars
  PROVE  StrayInv'
  <1>1. StructInv /\ HandlersOK /\ FileOK(file)
    BY DEF Base, StructInv, DiskOK
  <1>2. CASE Crash
    <2>1. row' = row /\ file' = file /\ pool' = pool /\ unit' = unit /\ active' = active
          /\ \A x : Sure(x, "stray")' => Sure(x, "stray")
      BY <1>2 DEF Crash, db, disk, conf, Sure
    <2>2. \A g \in Handler : hd'[g].op \notin Op
      BY <1>2, Values, Constants DEF Crash
    <2>3. ASSUME NEW x \in Domain, <<x, "stray">> \notin doubt', NEW g \in Handler
          PROVE  ~Making(hd[g], x) /\ ~Switching(hd[g])
      <3>1. x \notin Touched(g) /\ Clear(x)
        BY <1>2, <2>1, <2>3 DEF Crash, Aspect, Sure, Clear
      <3>2. Switching(hd[g]) => x \in Touched(g)
        <4>1. Switching(hd[g]) => Busy(g)
          BY <1>1, Working DEF Switching, Op, Locked
        <4> QED BY <1>1, <4>1, Reaches DEF Switching, Bulk
      <3> QED BY <3>1, <3>2, Makes
    <2>4. ASSUME NEW x \in Domain PROVE SiteBare(x)' /\ SiteTidy(x)'
      BY <2>1, <2>3 DEF StrayInv, SiteBare, SiteTidy, Bare, Tidy, Sure
    <2> QED BY <2>2, <2>4 DEF StrayInv, DeletedBare, MakingTidy, OrigKept, Op, Locked
  <1>3. CASE SaveSettings \/ (\E d \in Domain : RemoveConf(d) \/ EditPage(d)) \/ UNCHANGED vars
    <2>1. hd' = hd /\ row' = row /\ pool' = pool /\ unit' = unit /\ active' = active /\ backup' = backup
          /\ doubt \subseteq doubt'
      BY <1>3 DEF SaveSettings, EditPage, RemoveConf, Doubting, vars, db, disk, conf
    <2>2. \A x : Sure(x, "stray")' => Sure(x, "stray")
      BY <2>1 DEF Sure
    <2>3. \A s \in Server, x \in Domain : file'[s][x] = file[s][x] \/ file'[s][x] = NoFile
      <3>1. CASE file' = file
        BY <3>1
      <3>2. ASSUME NEW d \in Domain, RemoveConf(d)
            PROVE  \A s \in Server, x \in Domain : file'[s][x] = file[s][x] \/ file'[s][x] = NoFile
        <4>1. ForeignPath[d] \in Path /\ Server \subseteq Path
          BY <3>2, Constants DEF RemoveConf
        <4> QED BY <1>1, <3>2, <4>1 DEF RemoveConf, FileOK
      <3> QED BY <1>3, <3>1, <3>2 DEF SaveSettings, EditPage, vars, disk
    <2>4. ASSUME NEW x \in Domain PROVE (Bare(x) => Bare(x)') /\ (Tidy(x) => Tidy(x)')
      BY <2>1, <2>3, Values DEF Bare, Tidy
    <2>5. \A x \in Domain : SiteBare(x)' /\ SiteTidy(x)'
      BY <2>1, <2>2, <2>4 DEF StrayInv, SiteBare, SiteTidy
    <2>6. ASSUME NEW g \in Handler PROVE DeletedBare(hd[g])' /\ MakingTidy(hd[g])' /\ OrigKept(hd[g])'
      <3>1. DeletedBare(hd[g]) /\ MakingTidy(hd[g]) /\ OrigKept(hd[g])
        BY DEF StrayInv
      <3>2. DeletedBare(hd[g])'
        <4>1. hd[g].mine \in SUBSET Domain
          BY <1>1 DEF HandlersOK, Handling
        <4>2. \A x \in Domain : Bare(x) => Bare(x)'
          BY <2>4
        <4> QED BY <2>1, <2>2, <3>1, <4>1, <4>2 DEF DeletedBare
      <3>3. MakingTidy(hd[g])'
        <4>1. hd[g].op \in {"create", "adopt"} => hd[g].d \in Domain
          BY <1>1, Working DEF Op, Locked, Bulk
        <4>2. PICK x : x = hd[g].d
          OBVIOUS
        <4>3. MakingTidy(hd[g])' <=>
                ((hd[g].op = "create" \/ (hd[g].op = "adopt" /\ hd[g].pc \in {"pool", "render", "mark"})) /\ Sure(x, "stray")' =>
                   ~unit[x] /\ Tidy(x)')
          BY <2>1, <4>2 DEF MakingTidy, Sure, Tidy
        <4>4. (hd[g].op = "create" \/ (hd[g].op = "adopt" /\ hd[g].pc \in {"pool", "render", "mark"})) /\ Sure(x, "stray") =>
                ~unit[x] /\ Tidy(x)
          BY <3>1, <4>2 DEF MakingTidy
        <4> QED BY <2>2, <2>4, <4>1, <4>2, <4>3, <4>4
      <3>4. OrigKept(hd[g])'
        BY <2>1, <2>2, <3>1 DEF OrigKept
      <3> QED BY <3>2, <3>3, <3>4
    <2> QED BY <2>5, <2>6 DEF StrayInv
  <1> QED BY <1>2, <1>3, StepStray, AskStray, StartStray DEF Next

LEMMA InitStray ==
  ASSUME Init
  PROVE  StrayInv
  <1>1. \A g \in Handler : hd[g].op \notin Op
    BY Values, Constants DEF Init
  <1>2. ASSUME NEW x \in Domain
        PROVE  (row[x].source # "managed" => Bare(x)) /\ (row[x].source = "managed" => Tidy(x))
    <2>1. row[x].source = "managed" <=> x \in Live
      BY DEF Init, Imported, NoRow
    <2>2. ~unit[x] /\ active = "apache" /\ (x \notin Live => pool[x] = {})
      BY DEF Init, Home
    <2>3. ASSUME NEW s \in Server, s # "apache" \/ x \notin Live
          PROVE  file[s][x].by # "panel"
      <3>1. s \in Path
        BY Constants
      <3>2. file[s][x] = NoFile \/ file[s][x] = Original
        BY <2>3, <3>1 DEF Init, Home
      <3> QED BY <3>2, Values
    <2> QED BY <2>1, <2>2, <2>3 DEF Bare, Tidy
  <1> QED BY <1>1, <1>2 DEF StrayInv, SiteBare, SiteTidy, DeletedBare, MakingTidy, OrigKept, Op, Locked

\* When the panel is idle nothing of its own is left for a domain without a
\* managed site, neither pool nor unit nor virtual host, and the directory of the
\* server that is not used has no virtual host of a managed one: failed creations
\* and adoptions have been undone, deletions left nothing, a switch has cleared up.
THEOREM NothingIsLeft == Spec => []NoOrphans
  <1>1. Init => Base /\ StrayInv
    BY InitBase, InitStray
  <1>2. Base /\ StrayInv /\ [Next]_vars => (Base /\ StrayInv)'
    BY BaseStep, StrayStep
  <1>3. Base /\ StrayInv => NoOrphans
    <2> SUFFICES ASSUME Base, StrayInv, Idle, NEW x \in Domain, Sure(x, "stray")
                 PROVE  /\ row[x].source # "managed" => Bare(x)
                        /\ row[x].source = "managed" => Tidy(x)
      BY DEF NoOrphans, Bare, Tidy
    <2>1. \A g \in Handler : ~Making(hd[g], x) /\ ~Switching(hd[g])
      <3>1. \A g \in Handler : hd[g].op \notin Op
        BY Working DEF Idle, Base, StructInv
      <3> QED BY <3>1 DEF Making, Switching, Op, Locked
    <2> QED BY <2>1 DEF StrayInv, SiteBare, SiteTidy
  <1> QED BY <1>1, <1>2, <1>3, PTL DEF Spec
=============================================================================
