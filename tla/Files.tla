------------------------------- MODULE Files -------------------------------
(***************************************************************************)
(* The file manager: the trees below the document roots of the sites (one  *)
(* site for each account, as in Accounts).  The panel works as root, entry *)
(* by entry and without a lock, and hands what a request made to the Linux *)
(* user of the site's account when the work is done.  An account may get   *)
(* its Linux user meanwhile, and the trees of its sites then change hands. *)
(*                                                                         *)
(* Contents and permission bits are left out, and so is what an archive    *)
(* holds, until it is extracted.                                           *)
(***************************************************************************)
EXTENDS Accounts

CONSTANTS
  Entry,        \* paths below a document root, parents included, as sequences of names
  Archives,     \* what a .zip may hold, in order
  MaxBytes,     \* maxUnzipBytes
  MaxEntries    \* maxUnzipEntries

Parent(p)   == SubSeq(p, 1, Len(p) - 1)
Below(p)    == {q \in Entry : Len(q) >= Len(p) /\ SubSeq(q, 1, Len(p)) = p}
Relative    == {<<>>} \cup UNION {{SubSeq(p, i, Len(p)) : i \in 1..3} : p \in Entry}

FileOp == {"put", "copy", "zip", "unzip", "rename", "remove", "own"}

ASSUME EntryAssumption ==
  /\ None \notin FileOp
  /\ Entry \subseteq Seq(STRING)
  /\ \A p \in Entry : Len(p) \in 1..3 /\ (Len(p) > 1 => Parent(p) \in Entry)
  /\ Archives \subseteq Seq([at : Relative \ {<<>>}, dir : BOOLEAN, size : Nat])
  /\ MaxBytes \in Nat /\ MaxEntries \in Nat
  /\ {"root", "web"} \cap Login = {}

VARIABLES
  tree,     \* tree[a][p]: the entry at p below the document root of a's site
  fh,       \* requests of the file manager
  left      \* history: entries nobody will hand over any more

fvars == <<tree, fh, left>>

-----------------------------------------------------------------------------
(* Types *)

Node   == [kind : {"none", "dir", "file"}, owner : Login \cup {"root", "web"}]
NoNode == [kind |-> "none", owner |-> "root"]

FileHandling == [op : FileOp \cup {None}, pc : {"idle", "work", "hand"},
                 server : BOOLEAN,                       \* opened by an admin as the whole server
                 site : Account \cup {None}, from : Entry \cup {<<>>}, to : Entry \cup {<<>>},
                 todo : SUBSET Relative,                 \* what is still to be copied
                 archive : Archives \cup {<<>>}, at : Nat, bytes : Nat,
                 made : SUBSET Entry]                    \* what will be handed over
NoFileHandling == [op |-> None, pc |-> "idle", server |-> FALSE, site |-> None, from |-> <<>>,
                   to |-> <<>>, todo |-> {}, archive |-> <<>>, at |-> 1, bytes |-> 0, made |-> {}]

\* However large an archive says its entries are, no extraction writes more than one
\* byte past the limit.
FilesTypeOK ==
  /\ tree \in [Account -> [Entry -> Node]]
  /\ fh \in [Handler -> FileHandling] /\ \A h \in Handler : fh[h].bytes <= MaxBytes + 1
  /\ left \subseteq Account \X Entry

There(a, p)    == p \in Entry /\ tree[a][p].kind # "none"
IsDir(a, p)    == p = <<>> \/ (There(a, p) /\ tree[a][p].kind = "dir")
Children(a, p) == {q \in Entry : There(a, q) /\ Parent(q) = p}

-----------------------------------------------------------------------------
(* Requests *)

FileAt(h, op, pc) == fh[h].op = op /\ fh[h].pc = pc
FileReply(h)      == fh' = [fh EXCEPT ![h] = NoFileHandling]
Put(a, p, node)   == tree' = [tree EXCEPT ![a][p] = node]
Forsake(h, P)     == left' = left \cup ({fh[h].site} \X P)

\* openFS: the site's document root, or the whole server for an administrator.
OpenFS(h, a, new) ==
  /\ a \in sites /\ fh[h] = NoFileHandling /\ ~Busy(h) /\ ops < MaxOps /\ ops' = ops + 1
  /\ \E server \in BOOLEAN :
       fh' = [fh EXCEPT ![h] = [new EXCEPT !.site = a, !.server = server, !.pc = "work"]]
  /\ UNCHANGED <<tree, left>>

AskFile(h) ==
  \E a \in sites, p \in Entry, q \in Entry \cup {<<>>} :
    LET new == [NoFileHandling EXCEPT !.from = p, !.to = q] IN
    \/ q = <<>> /\ \E op \in {"put", "remove", "own"} : OpenFS(h, a, [new EXCEPT !.op = op])
    \/ q \in Entry \ {p} /\ OpenFS(h, a, [new EXCEPT !.op = "rename"])
    \/ /\ q \in Entry \ Below(p)
       /\ OpenFS(h, a, [new EXCEPT !.op = "copy", !.todo = {<<>>}, !.made = Below(q)])
    \/ q \in Entry \ {p} /\ Parent(q) = Parent(p) /\ OpenFS(h, a, [new EXCEPT !.op = "zip"])
    \/ /\ q = Parent(p) /\ tree[a][p].kind = "file"
       /\ \E arc \in Archives : OpenFS(h, a, [new EXCEPT !.op = "unzip", !.archive = arc])

\* chownToScope, chownTreeToScope: whose Linux user it is is looked up now, after the
\* work; errors are ignored.  In server scope nothing is handed over.
HandOver(h) ==
  LET a == fh[h].site  l == user[a].sys
      P == {p \in fh[h].made : There(a, p)}
  IN
  /\ fh[h].pc = "hand" /\ FileReply(h)
  /\ \/ /\ ~fh[h].server /\ Exists(a) /\ l \in logins
        /\ tree' = [tree EXCEPT ![a] = [p \in Entry |-> IF p \in P THEN [@[p] EXCEPT !.owner = l]
                                                        ELSE @[p]]]
        /\ left' = left \ ({a} \X P)
     \/ /\ ~fh[h].server /\ Exists(a) /\ l = None
        /\ UNCHANGED <<tree, left>>
     \/ /\ Failures \/ fh[h].server \/ ~Exists(a) \/ l \notin logins \cup {None}
        /\ Forsake(h, P) /\ UNCHANGED tree
  /\ UNCHANGED ops

\* Where a file or folder can be made.
Room(a, p) == p \in Entry /\ ~There(a, p) /\ IsDir(a, Parent(p))
Fresh(kind) == [kind |-> kind, owner |-> "root"]

\* postFileSave, postFileUpload, postFileNew, postFileMkdir.  A file that is there is
\* overwritten and keeps its owner; a write that fails leaves the file it made.
PutEntry(h) ==
  LET a == fh[h].site  p == fh[h].from IN
  /\ FileAt(h, "put", "work")
  /\ \/ /\ Room(a, p)
        /\ \E kind \in {"file", "dir"} : Put(a, p, Fresh(kind))
        /\ fh' = [fh EXCEPT ![h].pc = "hand", ![h].made = {p}] /\ UNCHANGED left
     \/ /\ There(a, p) /\ tree[a][p].kind = "file"
        /\ fh' = [fh EXCEPT ![h].pc = "hand", ![h].made = {p}] /\ UNCHANGED <<tree, left>>
     \/ /\ Failures /\ Room(a, p)
        /\ Put(a, p, Fresh("file")) /\ Forsake(h, {p}) /\ FileReply(h)
     \/ /\ ~Room(a, p) /\ FileReply(h) /\ UNCHANGED <<tree, left>>
  /\ UNCHANGED ops

\* copyRec: folders are merged into those that are there, files never overwrite; what is
\* gone since its folder was listed is skipped.  What was copied before an error stays,
\* and stays root's.
CopyEntry(h) ==
  LET a == fh[h].site IN
  /\ FileAt(h, "copy", "work")
  /\ \E q \in fh[h].todo :
       LET src == fh[h].from \o q  dst == fh[h].to \o q
           rest == fh[h].todo \ {q}
           below == {q \o <<c[Len(c)]>> : c \in Children(a, src)}
           go(more) == fh' = [fh EXCEPT ![h].todo = more, ![h].pc = IF more = {} THEN "hand" ELSE @]
       IN
       \/ /\ IsDir(a, src) /\ There(a, dst)
          /\ go(rest \cup below) /\ UNCHANGED <<tree, left>>
       \/ /\ IsDir(a, src) /\ Room(a, dst)
          /\ Put(a, dst, Fresh("dir")) /\ go(rest \cup below) /\ UNCHANGED left
       \/ /\ There(a, src) /\ ~IsDir(a, src) /\ Room(a, dst)
          /\ Put(a, dst, Fresh("file")) /\ go(rest) /\ UNCHANGED left
       \/ /\ q # <<>> /\ ~There(a, src)
          /\ go(rest) /\ UNCHANGED <<tree, left>>
       \/ /\ \/ Failures \/ ~There(a, src)
             \/ ~Room(a, dst) /\ ~(IsDir(a, src) /\ There(a, dst))
          /\ FileReply(h) /\ UNCHANGED tree
          /\ Forsake(h, {p \in fh[h].made : There(a, p) /\ tree[a][p].owner = "root"})
  /\ UNCHANGED ops

\* The archive is made beside what goes into it; unfinished it stays, root's.
ZipEntries(h) ==
  LET a == fh[h].site  z == fh[h].to IN
  /\ FileAt(h, "zip", "work")
  /\ \/ /\ Room(a, z) /\ There(a, fh[h].from)
        /\ Put(a, z, Fresh("file")) /\ fh' = [fh EXCEPT ![h].pc = "hand", ![h].made = {z}]
        /\ UNCHANGED left
     \/ /\ Room(a, z) /\ (Failures \/ ~There(a, fh[h].from))
        /\ Put(a, z, Fresh("file")) /\ Forsake(h, {z}) /\ FileReply(h)
     \/ ~Room(a, z) /\ FileReply(h) /\ UNCHANGED <<tree, left>>
  /\ UNCHANGED ops

\* Bug: every entry may use the whole limit.
QuotaEach(h, size) == IF size > MaxBytes + 1 THEN MaxBytes + 1 ELSE size

\* What is written of an entry: what remains of the limit, and one byte to tell.
Quota(h, size) == LET rest == MaxBytes - fh[h].bytes + 1 IN IF size > rest THEN rest ELSE size

\* unzipTo, one entry at a time.  Folders on the way to an entry are made, but only
\* the entry is among what is handed over.
UnzipEntry(h) ==
  LET a == fh[h].site  arc == fh[h].archive  i == fh[h].at
      e == arc[i]  target == fh[h].to \o e.at
      way == {p \in Entry : Len(p) > Len(fh[h].to) /\ target \in Below(p)
                            /\ (e.dir \/ p # target) /\ ~There(a, p)}
      blocked == \E p \in Entry : target \in Below(p) /\ p # target /\ There(a, p) /\ ~IsDir(a, p)
      fits == target \in Entry /\ ~blocked /\ IsDir(a, fh[h].to) /\ (e.dir \/ ~IsDir(a, target))
      bytes == fh[h].bytes + (IF e.dir THEN 0 ELSE Quota(h, e.size))
      grown == [p \in Entry |->
                  IF p \in way THEN Fresh("dir")
                  ELSE IF p = target /\ ~There(a, p) THEN Fresh("file") ELSE tree[a][p]]
  IN
  /\ FileAt(h, "unzip", "work")
  /\ \/ /\ i > Len(arc) \/ Len(arc) > MaxEntries
        /\ fh' = [fh EXCEPT ![h].pc = "hand"] /\ UNCHANGED <<tree, left>>
     \/ /\ i <= Len(arc) /\ Len(arc) <= MaxEntries /\ fits
        /\ tree' = [tree EXCEPT ![a] = grown] /\ Forsake(h, way \ {target})
        /\ fh' = [fh EXCEPT ![h].made = @ \cup {target}, ![h].bytes = bytes, ![h].at = i + 1,
                            ![h].pc = IF bytes > MaxBytes THEN "hand" ELSE @]
     \/ /\ i <= Len(arc) /\ Len(arc) <= MaxEntries /\ (Failures \/ ~fits)
        /\ IF fits THEN tree' = [tree EXCEPT ![a] = grown] /\ Forsake(h, (way \cup {target}) \ fh[h].made)
           ELSE UNCHANGED <<tree, left>>
        /\ fh' = [fh EXCEPT ![h].pc = "hand"]
  /\ UNCHANGED ops

\* rename(2), for postFileRename and postFileMove: what is in the making under the old
\* name is never handed over under the new one.
RenameEntry(h) ==
  LET a == fh[h].site  p == fh[h].from  q == fh[h].to
      to(x) == q \o SubSeq(x, Len(p) + 1, Len(x))
      moved == {x \in Below(p) : There(a, x)}
      fits == /\ There(a, p) /\ IsDir(a, Parent(q)) /\ q \notin Below(p)
              /\ \A x \in moved : to(x) \in Entry
              /\ There(a, q) => IsDir(a, q) = IsDir(a, p) /\ Children(a, q) = {}
      making == {x \in moved : \E g \in Handler : fh[g].site = a /\ x \in fh[g].made}
  IN
  /\ FileAt(h, "rename", "work") /\ FileReply(h)
  /\ \/ /\ fits
        /\ tree' = [tree EXCEPT ![a] =
             [x \in Entry |-> IF \E y \in moved : to(y) = x THEN @[CHOOSE y \in moved : to(y) = x]
                              ELSE IF x \in moved THEN NoNode ELSE @[x]]]
        /\ left' = (left \ ({a} \X (moved \cup {to(x) : x \in moved})))
                   \cup {<<a, to(x)>> : x \in making \cup {y \in moved : <<a, y>> \in left}}
     \/ (Failures \/ ~fits) /\ UNCHANGED <<tree, left>>
  /\ UNCHANGED ops

\* RemoveAll, for postFileDelete and postBulkDelete.
DeleteEntry(h) ==
  LET a == fh[h].site  gone == Below(fh[h].from) IN
  /\ FileAt(h, "remove", "work") /\ FileReply(h)
  /\ \/ /\ tree' = [tree EXCEPT ![a] = [x \in Entry |-> IF x \in gone THEN NoNode ELSE @[x]]]
        /\ left' = left \ ({a} \X gone)
     \/ Failures /\ UNCHANGED <<tree, left>>
  /\ UNCHANGED ops

\* chownCandidateSet: the site's Linux user and the web server's, or in server scope
\* those of all accounts and root.
Owners(h) ==
  {"web"} \cup (IF fh[h].server THEN {"root"} \cup {user[a].sys : a \in Account}
                ELSE {user[fh[h].site].sys})

ChownEntry(h) ==
  LET a == fh[h].site  p == fh[h].from IN
  /\ FileAt(h, "own", "work") /\ FileReply(h)
  /\ \/ /\ There(a, p)
        /\ \E o \in Owners(h) \cap (logins \cup {"root", "web"}) :
             /\ tree' = [tree EXCEPT ![a][p].owner = o]
             /\ left' = IF fh[h].server THEN left \cup {<<a, p>>} ELSE left \ {<<a, p>>}
     \/ UNCHANGED <<tree, left>>
  /\ UNCHANGED ops

-----------------------------------------------------------------------------
(* Beginning, and the steps *)

\* A site begins with folders and perhaps files of the panel's making, handed to the
\* Linux user if the account has one (provisionDocRoot).
FilesInit ==
  /\ \E file \in SUBSET {p \in Entry : Len(p) = 1 /\ Below(p) = {p}} :
       LET of(a, kind) == [kind |-> kind, owner |-> IF user[a].sys = None THEN "root" ELSE user[a].sys] IN
       tree = [a \in Account |-> [p \in Entry |->
         IF a \notin sites THEN NoNode
         ELSE IF p \in file THEN of(a, "file")
         ELSE IF Below(p) # {p} THEN of(a, "dir") ELSE NoNode]]
  /\ fh = [h \in Handler |-> NoFileHandling] /\ left = {}

FileStep(h) ==
  /\ \/ AskFile(h) \/ HandOver(h)
     \/ PutEntry(h) \/ CopyEntry(h) \/ ZipEntries(h) \/ UnzipEntry(h)
     \/ RenameEntry(h) \/ DeleteEntry(h) \/ ChownEntry(h)
  /\ UNCHANGED <<tables, host, locks, history, hd>>

\* Bug: the pools change hands, the trees do not.
UpgradePoolsOnly(h) == TenantUpgrade(h) /\ UNCHANGED fvars

\* upgradeOwnerSites, the files' part: the tree of each site the account has a row for
\* goes to the Linux user just recorded; errors are ignored.
FilesUpgrade(h) ==
  LET a == hd[h].who  P == {p \in Entry : There(a, p)} IN
  /\ TenantUpgrade(h) /\ UNCHANGED fh
  /\ \/ /\ a \in sites
        /\ tree' = [tree EXCEPT ![a] = [p \in Entry |-> IF p \in P THEN [@[p] EXCEPT !.owner = hd[h].login]
                                                        ELSE @[p]]]
        /\ left' = left \ ({a} \X P)
     \/ /\ a \in sites /\ Failures
        /\ left' = left \cup ({a} \X P) /\ UNCHANGED tree
     \/ a \notin sites /\ UNCHANGED <<tree, left>>

\* The process ends: what it was about to hand over stays root's.
FilesCrash ==
  LET forsaken(a, p) == \E h \in Handler :
                          \/ fh[h].site = a /\ p \in fh[h].made
                          \/ hd[h].pc = "upgrade" /\ hd[h].who = a
  IN
  /\ fh' = [h \in Handler |-> NoFileHandling]
  /\ left' = left \cup {e \in Account \X Entry : There(e[1], e[2]) /\ forsaken(e[1], e[2])}
  /\ UNCHANGED tree

-----------------------------------------------------------------------------
(* Properties *)

\* Once an account has its Linux user, what is in its sites' trees is that user's or the
\* web server's: whatever was made before, meanwhile or since, by whichever operation,
\* unless a request or the upgrade is still to hand it over, or never will (left).
FilesHandedOver ==
  \A a \in sites : user[a].sys \in logins =>
    \A p \in Entry : There(a, p) /\ tree[a][p].owner \notin {user[a].sys, "web"} =>
      \/ <<a, p>> \in left
      \/ \E g \in Handler : fh[g].site = a /\ p \in fh[g].made
      \/ \E g \in Handler : hd[g].pc = "upgrade" /\ hd[g].who = a
=============================================================================
