------------------------------ MODULE MCPanel ------------------------------
(***************************************************************************)
(* Panel on a small instance.  a1 is the administrator ensureAdmin made.   *)
(* "bob" and "bob2" can be derived for either name, and "eve" is a Linux   *)
(* user the panel did not make.                                            *)
(***************************************************************************)
EXTENDS Panel, TLC

CONSTANTS a1, a2, a3

Paths == {<<"d">>, <<"d", "f">>, <<"g">>}

\* A folder listed after a file in it; a file larger than the limit, and one more.
Packed(at, dir, size) == [at |-> at, dir |-> dir, size |-> size]
ArchiveSet == {<<Packed(<<"d", "f">>, FALSE, 1), Packed(<<"d">>, TRUE, 0)>>,
               <<Packed(<<"f">>, FALSE, 4), Packed(<<"g">>, FALSE, 1)>>}

CandidateNames == [n \in Name |-> <<"bob", "bob2">>]

Row(n, role, l) == [name |-> n, role |-> role, sys |-> l]
UsersTable(second) == [a \in Account |-> IF a = a1 THEN Row("bob", "admin", None)
                                    ELSE IF a = a2 THEN second ELSE NoUser]
Alone   == UsersTable(NoUser)
Two     == UsersTable(Row("bob_x", "user", None))
Admins2 == UsersTable(Row("bob_x", "admin", None))
Owner   == UsersTable(Row("bob_x", "user", "bob"))
Sharing == [UsersTable(Row("bob_x", "user", "bob")) EXCEPT ![a1].sys = "bob"]

AllTables == {Alone, Two, Admins2, Owner, Sharing}

Order(table, requests, max) == [table |-> table, sites |-> {}, ops |-> requests, max |-> max, fresh |-> FALSE]

\* Administrators who delete one another; sites whose accounts get a Linux user or
\* are deleted meanwhile; cron jobs of an account deleted and made again; cron jobs
\* of two accounts; MariaDB objects; logins of an account being deleted; the first
\* run; the assistant; the file manager, beside what gets the account its Linux user.
\* The process may end in the middle of most of these.
PanelMenus ==
  { Order(Admins2, {"create", "delete"}, 4),
    Order(Two, {"create", "delete", "site"}, 4),
    Order(Two, {"delete", "site", "crash"}, 3),
    Order(Owner, {"create", "delete", "addcron"}, 3),
    Order(Two, {"addcron", "delcron", "crash"}, 2),
    Order(Two, {"make", "drop", "grant", "revoke", "delete", "crash"}, 4),
    Order(Two, {"login", "delete"}, 3),
    [table |-> Alone, sites |-> {}, ops |-> {"login", "crash"}, max |-> 3, fresh |-> TRUE],
    Order(Alone, {"chat", "crash"}, 1),
    [Order(Two, {"addcron", "put", "unzip", "rename"}, 2) EXCEPT !.sites = {a2}],
    [Order(Owner, FileOp \cup {"crash"}, 2) EXCEPT !.sites = {a2}] }

\* Two accounts of one Linux user, each with a job.
SharedMenus == { Order(Sharing, {"addcron"}, 2) }

Handlers == Permutations(Handler)
=============================================================================
