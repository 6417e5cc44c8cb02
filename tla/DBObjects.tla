----------------------------- MODULE DBObjects -----------------------------
(***************************************************************************)
(* MariaDB databases and users against the panel's rows about them.        *)
(* A request that makes an object writes its row first, and takes the row  *)
(* back when the server refuses; one that drops or grants talks to the     *)
(* server first.  No lock is held; the client command may fail before or   *)
(* after the server did what it was told.                                  *)
(***************************************************************************)
EXTENDS Accounts

CONSTANTS
  Database, DbUser    \* names on the server, that several accounts can produce

Object == Database \cup DbUser
DbOp   == {"make", "drop", "grant", "revoke"}

ASSUME ObjectAssumption == Database \cap DbUser = {} /\ None \notin Object \cup DbOp

VARIABLES
  rows,       \* rows[o]: the row of databases or db_users with that name
  rowIds,     \* ids given out
  links,      \* db_grants: pairs of ids
  server,     \* objects on the server
  priv,       \* pairs of names GRANTed; they outlive the database
  dh,         \* requests about objects
  doubted,    \* history: objects a deletion overlapped, or a step failed halfway on
  shadowed    \* history: privileges on a database that was dropped

dvars == <<rows, rowIds, links, server, priv, dh, doubted, shadowed>>

-----------------------------------------------------------------------------
(* Types *)

DbRow   == [id : Nat, owner : Account \cup {None}]
NoDbRow == [id |-> 0, owner |-> None]

DbHandling == [op : DbOp \cup {None}, pc : {"idle", "command", "row", "undo"},
               objects : SUBSET Object, ids : Seq(Nat)]
NoDbHandling == [op |-> None, pc |-> "idle", objects |-> {}, ids |-> <<>>]

DbTypeOK ==
  /\ rows \in [Object -> DbRow] /\ rowIds \in Nat
  /\ links \subseteq Nat \X Nat /\ server \subseteq Object /\ priv \subseteq Database \X DbUser
  /\ dh \in [Handler -> DbHandling] /\ doubted \subseteq Object /\ shadowed \subseteq priv

\* Rows go with their account, links with their rows.
Live(o)      == rows[o].owner # None /\ Exists(rows[o].owner)
LiveId(i)    == \E o \in Object : Live(o) /\ rows[o].id = i
Owned(a)     == {o \in Object : Live(o) /\ rows[o].owner = a}
Linked(d, u) == <<rows[d].id, rows[u].id>> \in links
On(o)        == {g \in Handler : o \in dh[g].objects}

-----------------------------------------------------------------------------
(* Requests *)

DbAt(h, op, pc) == dh[h].op = op /\ dh[h].pc = pc
DbGoto(h, pc)   == dh' = [dh EXCEPT ![h].pc = pc]
DbReply(h)      == dh' = [dh EXCEPT ![h] = NoDbHandling]

\* Requests that may disturb one another: any two on an object, but for grants of
\* different pairs.  (A creation that meets another's row never gets so far.)
Disturbs(op, objects, g) ==
  IF {op, dh[g].op} \subseteq {"grant", "revoke"} THEN dh[g].objects = objects
  ELSE objects \cap dh[g].objects # {}

AskDb(h, op, objects, ids) ==
  /\ dh[h] = NoDbHandling /\ ~Busy(h) /\ ops < MaxOps /\ ops' = ops + 1
  /\ dh' = [dh EXCEPT ![h] = [op |-> op, pc |-> "command", objects |-> objects, ids |-> ids]]
  /\ doubted' = IF \E g \in Handler : Disturbs(op, objects, g) THEN doubted \cup objects ELSE doubted

OnServer == UNCHANGED <<rows, rowIds, links>>
InRows   == UNCHANGED <<server, priv, shadowed>>

\* A client command: it succeeds, fails without effect, or its answer is lost.
Command(h, effect, nothing, can, done, failed) ==
  \/ can /\ effect /\ done /\ UNCHANGED doubted
  \/ (Failures \/ ~can) /\ nothing /\ failed /\ UNCHANGED doubted
  \/ Failures /\ can /\ effect /\ failed /\ doubted' = doubted \cup dh[h].objects

Drop(gone) ==
  /\ server' = server \ gone
  /\ priv' = {p \in priv : p[2] \notin gone}
  /\ shadowed' = {p \in shadowed \cup {q \in priv : q[1] \in gone} : p[2] \notin gone}

-----------------------------------------------------------------------------
(* postCreateDatabase, postCreateDBUser *)

\* The name is UNIQUE: what another row has is refused before the server is asked.
Make(h, o, a) ==
  /\ Exists(a) /\ ~Live(o)
  /\ rows' = [rows EXCEPT ![o] = [id |-> rowIds + 1, owner |-> a]] /\ rowIds' = rowIds + 1
  /\ AskDb(h, "make", {o}, <<rowIds + 1>>)
  /\ InRows /\ UNCHANGED links

\* CREATE fails when the object is there.
MakeCommand(h) ==
  /\ DbAt(h, "make", "command")
  /\ Command(h, server' = server \cup dh[h].objects, UNCHANGED server,
             dh[h].objects \cap server = {}, DbReply(h), DbGoto(h, "undo"))
  /\ OnServer /\ UNCHANGED <<ops, priv, shadowed>>

Forget(h) == rows' = [o \in Object |-> IF o \in dh[h].objects /\ rows[o].id = dh[h].ids[1]
                                       THEN NoDbRow ELSE rows[o]]

\* Bug: the row of an object the server refused is left.
MakeUndoNot(h) ==
  /\ DbAt(h, "make", "undo") /\ DbReply(h)
  /\ InRows /\ UNCHANGED <<ops, rows, rowIds, links, doubted>>

\* Only the request's own row is removed; the error is ignored.
MakeUndo(h) ==
  /\ DbAt(h, "make", "undo") /\ DbReply(h)
  /\ \/ Forget(h) /\ UNCHANGED doubted
     \/ Failures /\ UNCHANGED rows /\ doubted' = doubted \cup dh[h].objects
  /\ InRows /\ UNCHANGED <<ops, rowIds, links>>

-----------------------------------------------------------------------------
(* postDeleteDatabase, postDeleteDBUser *)

Delete(h, o) ==
  /\ Live(o) /\ AskDb(h, "drop", {o}, <<rows[o].id>>)
  /\ OnServer /\ InRows

DropCommand(h) ==
  /\ DbAt(h, "drop", "command")
  /\ Command(h, Drop(dh[h].objects), UNCHANGED <<server, priv, shadowed>>, TRUE,
             DbGoto(h, "row"), DbReply(h))
  /\ OnServer /\ UNCHANGED ops

\* By id.  A deletion that goes through alone settles what was in doubt.
DropRow(h) ==
  LET settled(o) == /\ On(o) = {h} /\ o \notin server /\ rows'[o] = NoDbRow
                    /\ \A p \in priv \ shadowed : o \notin {p[1], p[2]}
  IN
  /\ DbAt(h, "drop", "row") /\ DbReply(h)
  /\ \/ Forget(h) /\ doubted' = doubted \ {o \in dh[h].objects : settled(o)}
     \/ Failures /\ UNCHANGED rows /\ doubted' = doubted \cup dh[h].objects
  /\ InRows /\ UNCHANGED <<ops, rowIds, links>>

-----------------------------------------------------------------------------
(* grantOrRevoke *)

\* Database and user belong to one account.
AskPair(h, op, d, u) ==
  /\ Live(d) /\ Live(u) /\ rows[d].owner = rows[u].owner
  /\ AskDb(h, op, {d, u}, <<rows[d].id, rows[u].id>>)
  /\ OnServer /\ InRows

Pair(h) == CHOOSE p \in Database \X DbUser : dh[h].objects = {p[1], p[2]}

\* To a user that is gone the server refuses the grant or, in the sql_mode the panel
\* sets (no NO_AUTO_CREATE_USER), makes it again.
GrantCommand(h) ==
  LET p == Pair(h) IN
  /\ DbAt(h, "grant", "command")
  /\ \E can \in {TRUE} \cup (IF p[2] \in server THEN {} ELSE {FALSE}) :
       Command(h, server' = server \cup {p[2]} /\ priv' = priv \cup {p}, UNCHANGED <<server, priv>>,
               can, DbGoto(h, "row"), DbReply(h))
  /\ OnServer /\ UNCHANGED <<ops, shadowed>>

\* INSERT OR IGNORE; both ids must still have their row.
Grant(h) ==
  /\ DbAt(h, "grant", "row")
  /\ \/ /\ LiveId(dh[h].ids[1]) /\ LiveId(dh[h].ids[2])
        /\ links' = links \cup {<<dh[h].ids[1], dh[h].ids[2]>>} /\ DbReply(h)
     \/ /\ Failures \/ ~LiveId(dh[h].ids[1]) \/ ~LiveId(dh[h].ids[2])
        /\ UNCHANGED links /\ DbGoto(h, "undo")
  /\ InRows /\ UNCHANGED <<ops, rows, rowIds, doubted>>

\* Bug: a grant that could not be recorded stays live.
GrantUndoNot(h) ==
  /\ DbAt(h, "grant", "undo") /\ DbReply(h)
  /\ OnServer /\ InRows /\ UNCHANGED <<ops, doubted>>

\* The live grant is taken back, that of an earlier request for the pair with it.
GrantUndo(h) ==
  LET p == Pair(h) IN
  /\ DbAt(h, "grant", "undo") /\ DbReply(h)
  /\ \/ /\ priv' = priv \ {p} /\ shadowed' = shadowed \ {p}
        /\ doubted' = IF <<dh[h].ids[1], dh[h].ids[2]>> \in links THEN doubted \cup dh[h].objects
                      ELSE doubted
     \/ Failures /\ UNCHANGED <<priv, shadowed>> /\ doubted' = doubted \cup dh[h].objects
  /\ OnServer /\ UNCHANGED <<ops, server>>

\* REVOKE fails when there is no such privilege.
RevokeCommand(h) ==
  LET p == Pair(h) IN
  /\ DbAt(h, "revoke", "command")
  /\ Command(h, priv' = priv \ {p} /\ shadowed' = shadowed \ {p}, UNCHANGED <<priv, shadowed>>,
             p \in priv, DbGoto(h, "row"), DbReply(h))
  /\ OnServer /\ UNCHANGED <<ops, server>>

Revoke(h) ==
  /\ DbAt(h, "revoke", "row") /\ DbReply(h)
  /\ \/ links' = links \ {<<dh[h].ids[1], dh[h].ids[2]>>} /\ UNCHANGED doubted
     \/ Failures /\ UNCHANGED links /\ doubted' = doubted \cup dh[h].objects
  /\ InRows /\ UNCHANGED <<ops, rows, rowIds>>

-----------------------------------------------------------------------------
(* Beginning, and the steps *)

DbInit ==
  /\ rows = [o \in Object |-> NoDbRow] /\ rowIds = 0 /\ links = {}
  /\ server = {} /\ priv = {} /\ dh = [h \in Handler |-> NoDbHandling]
  /\ doubted = {} /\ shadowed = {}

DbStep(h) ==
  /\ \/ \E o \in Object : Delete(h, o) \/ \E a \in Account : Make(h, o, a)
     \/ \E d \in Database, u \in DbUser, op \in {"grant", "revoke"} : AskPair(h, op, d, u)
     \/ MakeCommand(h) \/ MakeUndo(h) \/ DropCommand(h) \/ DropRow(h)
     \/ GrantCommand(h) \/ Grant(h) \/ GrantUndo(h) \/ RevokeCommand(h) \/ Revoke(h)
  /\ UNCHANGED <<tables, host, locks, history, hd>>

\* DeleteAccount drops what the account has, as far as the server lets it.
DropOwned(h) ==
  LET own == Owned(hd[h].who) IN
  /\ DeleteObjects(h)
  /\ \E gone \in IF Failures THEN SUBSET own ELSE {own} :
       /\ Drop(gone)
       /\ doubted' = doubted \cup (own \ gone) \cup {o \in own : On(o) # {}}
  /\ OnServer /\ UNCHANGED dh

\* The rows go with the account's: requests in flight and objects made since the
\* drop lose theirs.  When the statement fails, rows stay without their objects.
DbAfterAccounts ==
  LET ending == {h \in Handler : At(h, "delete", "drop") /\ hd'[h] # hd[h]}
      own    == UNION {Owned(hd[h].who) : h \in ending}
  IN /\ doubted' = doubted \cup {o \in own : On(o) # {} \/ o \in server \/ user' = user}
     /\ OnServer /\ InRows /\ UNCHANGED dh

\* The process ends: a request goes no further, and a deletion's rows stay without
\* their objects.
DbCrash ==
  LET cut == {h \in Handler : At(h, "delete", "drop")} IN
  /\ dh' = [h \in Handler |-> NoDbHandling]
  /\ doubted' = doubted \cup (UNION {dh[h].objects : h \in Handler})
                         \cup (UNION {Owned(hd[h].who) : h \in cut})
  /\ OnServer /\ InRows

-----------------------------------------------------------------------------
(* Properties *)

\* Nobody is at work on the object, nor on deleting its owner.
Settled(o) ==
  /\ On(o) = {} /\ o \notin doubted
  /\ ~\E h \in Handler : At(h, "delete", "drop") /\ o \in Owned(hd[h].who)

\* A row stands for an object on the server and every object has its row: through
\* refused and failed commands, creations of one name at a time, and accounts
\* deleted and followed by others that produce the same names.
ObjectsBacked == \A o \in Object : Settled(o) => (Live(o) <=> o \in server)

\* The page shows a grant where the server has the privilege, and only there; but
\* for privileges that outlived a dropped database.
GrantsBacked ==
  \A d \in Database, u \in DbUser :
    Live(d) /\ Live(u) /\ Settled(d) /\ Settled(u)
      => (Linked(d, u) <=> <<d, u>> \in priv \ (IF Linked(d, u) THEN {} ELSE shadowed))
=============================================================================
