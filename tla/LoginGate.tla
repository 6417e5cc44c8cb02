----------------------------- MODULE LoginGate -----------------------------
(***************************************************************************)
(* Getting into the panel: logins behind the failure limiter and the       *)
(* bcrypt semaphore, sessions, and the first-run set-up that holds until   *)
(* the operator has replaced the bootstrap password of the first account.  *)
(* What the process keeps (failures, the set-up flag) is lost with it; the *)
(* rows, the saved flag and the credentials file are not.                  *)
(***************************************************************************)
EXTENDS Accounts, Limiter

CONSTANTS
  First,        \* the account ensureAdmin makes
  Slots,        \* password comparisons at a time
  MaxNow        \* seconds in a behaviour

ASSUME GateAssumption ==
  /\ First \in Account /\ Slots \in Nat \ {0} /\ MaxNow \in Nat
  /\ \A t \in Tables : t[First].role = "admin"

VARIABLES
  login,      \* login and set-up requests
  sessions,   \* accounts with a session
  process,    \* "down", starting up, or "serving"
  boot,       \* the first account still has its bootstrap password
  pending,    \* cfg.SetupPending in the process
  saved,      \* setup_pending in the configuration file
  credFile,   \* initial-admin-password.txt
  unsaved     \* history: a save failed, or the process ended just before one

lvars == <<attempts, now, login, sessions, process, boot, pending, saved, credFile, unsaved>>

-----------------------------------------------------------------------------
(* Types *)

LoginRequest == [pc : {"idle", "wait", "verify", "session", "good", "bad",     \* postLogin
                       "hash", "clear", "save", "remove"},                     \* postSetup
                 ip : Ip \cup {None}, who : Account \cup {None},
                 admin : BOOLEAN]                        \* the role, as Login read it
NoLogin == [pc |-> "idle", ip |-> None, who |-> None, admin |-> FALSE]

LoginTypeOK ==
  /\ LimiterOK /\ login \in [Handler -> LoginRequest] /\ sessions \subseteq Account
  /\ process \in {"down", "file", "mark", "keep", "serving"}
  /\ {boot, pending, saved, credFile, unsaved} \subseteq BOOLEAN

LoginAt(h, pc)   == process = "serving" /\ login[h].pc = pc
LoginGoto(h, pc) == login' = [login EXCEPT ![h].pc = pc]
LoginEnd(h)      == login' = [login EXCEPT ![h] = NoLogin]
AskLogin(h, new) ==
  /\ LoginAt(h, "idle") /\ ~Busy(h) /\ ops < MaxOps /\ ops' = ops + 1
  /\ login' = [login EXCEPT ![h] = new]

SetupFlags == <<boot, pending, saved, unsaved>>

-----------------------------------------------------------------------------
(* postLogin *)

\* allow; what a locked out address asks goes no further.  The username may be
\* nobody's.
AskIn(h, i, a) ==
  /\ Allow(i)
  /\ AskLogin(h, [NoLogin EXCEPT !.pc = "wait", !.ip = i, !.who = a])
  /\ UNCHANGED <<now, sessions, process, SetupFlags, credFile>>

\* acquire: the slot is held until the verdict.
Comparing == {h \in Handler : login[h].pc \in {"verify", "session"}}
Acquire(h) ==
  /\ LoginAt(h, "wait") /\ Cardinality(Comparing) < Slots /\ LoginGoto(h, "verify")
  /\ UNCHANGED <<attempts, now, ops, sessions, process, SetupFlags, credFile>>

\* Login reads the row, compares the password and makes the session.
Verify(h) ==
  LET a == login[h].who IN
  /\ LoginAt(h, "verify")
  /\ \/ /\ a # None /\ Exists(a)
        /\ login' = [login EXCEPT ![h].pc = "session", ![h].admin = user[a].role = "admin"]
     \/ LoginGoto(h, "bad")
  /\ UNCHANGED <<attempts, now, ops, sessions, process, SetupFlags, credFile>>

\* user_id refers to a row: the account may be gone since.
CreateSession(h) ==
  LET a == login[h].who IN
  /\ LoginAt(h, "session")
  /\ \/ Exists(a) /\ sessions' = sessions \cup {a} /\ LoginGoto(h, "good")
     \/ (Failures \/ ~Exists(a)) /\ UNCHANGED sessions /\ LoginGoto(h, "bad")
  /\ UNCHANGED <<attempts, now, ops, process, SetupFlags, credFile>>

Bad(h) ==
  /\ LoginAt(h, "bad") /\ LoginEnd(h)
  /\ Fail(login[h].ip)
  /\ UNCHANGED <<now, ops, sessions, process, SetupFlags, credFile>>

\* Bug: a login forgets every address.
GoodForgetsAll(h) ==
  /\ LoginAt(h, "good") /\ LoginEnd(h)
  /\ attempts' = [i \in Ip |-> Never] /\ credFile' = FALSE
  /\ UNCHANGED <<now, ops, sessions, process, SetupFlags>>

\* success forgets the address; an administrator's login removes the file.
Good(h) ==
  /\ LoginAt(h, "good") /\ LoginEnd(h)
  /\ attempts' = [attempts EXCEPT ![login[h].ip] = Never]
  /\ credFile' \in IF ~login[h].admin THEN {credFile}
                   ELSE IF Failures THEN {FALSE, credFile} ELSE {FALSE}
  /\ UNCHANGED <<now, ops, sessions, process, SetupFlags>>

\* postLogout, and the end of a session's time.
EndSession(a) ==
  /\ a \in sessions /\ sessions' = sessions \ {a}
  /\ UNCHANGED <<attempts, now, ops, login, process, SetupFlags, credFile>>

-----------------------------------------------------------------------------
(* postSetup, by whoever has a session *)

AskSetup(h, a) ==
  /\ pending /\ a \in sessions /\ Exists(a)
  /\ AskLogin(h, [NoLogin EXCEPT !.pc = "hash", !.who = a])
  /\ UNCHANGED <<attempts, now, sessions, process, SetupFlags, credFile>>

UpdateUserCredentials(h) ==
  /\ LoginAt(h, "hash")
  /\ \/ LoginGoto(h, "clear") /\ boot' = (boot /\ login[h].who # First)
     \/ Failures /\ LoginEnd(h) /\ UNCHANGED boot
  /\ UNCHANGED <<attempts, now, ops, sessions, process, pending, saved, unsaved, credFile>>

ClearSetupPending(h) ==
  /\ LoginAt(h, "clear") /\ LoginGoto(h, "save") /\ pending' = FALSE
  /\ UNCHANGED <<attempts, now, ops, sessions, process, boot, saved, unsaved, credFile>>

\* cfg.Save writes what the process has; the error is ignored.
Save ==
  \/ saved' = pending /\ unsaved' = FALSE
  \/ Failures /\ unsaved' = TRUE /\ UNCHANGED saved

\* Bug: the wizard clears the flag in the process only.
SaveSetupNot(h) ==
  /\ LoginAt(h, "save") /\ LoginGoto(h, "remove")
  /\ UNCHANGED <<attempts, now, ops, sessions, process, SetupFlags, credFile>>

SaveSetup(h) ==
  /\ LoginAt(h, "save") /\ LoginGoto(h, "remove") /\ Save
  /\ UNCHANGED <<attempts, now, ops, sessions, process, boot, pending, credFile>>

RemoveFile(h) ==
  /\ LoginAt(h, "remove") /\ LoginEnd(h) /\ credFile' \in {FALSE} \cup (IF Failures THEN {credFile} ELSE {})
  /\ UNCHANGED <<attempts, now, ops, sessions, process, SetupFlags>>

-----------------------------------------------------------------------------
(* The process *)

\* ensureAdmin after its INSERT: the file, the flag, the save; then the server.
WriteCredentials ==
  /\ process = "file" /\ process' = "mark"
  /\ credFile' \in {TRUE} \cup (IF Failures THEN {FALSE} ELSE {})
  /\ UNCHANGED <<attempts, now, ops, login, sessions, SetupFlags>>

MarkSetupPending ==
  /\ process = "mark" /\ process' = "keep" /\ pending' = TRUE
  /\ UNCHANGED <<attempts, now, ops, login, sessions, boot, saved, unsaved, credFile>>

SavePending ==
  /\ process = "keep" /\ process' = "serving" /\ Save
  /\ UNCHANGED <<attempts, now, ops, login, sessions, boot, pending, credFile>>

\* A start finds the account there and asks nothing more.
Start ==
  /\ process = "down" /\ process' = "serving" /\ pending' = saved
  /\ UNCHANGED <<attempts, now, ops, login, sessions, boot, saved, unsaved, credFile>>

\* ensureAdmin or postSetup has changed the credentials and not yet saved the flag.
SettingUp == \/ process \in {"file", "mark", "keep"}
             \/ \E h \in Handler : login[h].pc \in {"clear", "save"}

\* The process ends, wherever its requests are.
Crash ==
  /\ process # "down" /\ process' = "down" /\ ops < MaxOps /\ ops' = ops + 1
  /\ attempts' = [i \in Ip |-> Never] /\ login' = [h \in Handler |-> NoLogin]
  /\ pending' = FALSE /\ unsaved' = (unsaved \/ SettingUp)
  /\ Interrupted /\ UNCHANGED <<now, sessions, boot, saved, credFile>>

Tick ==
  /\ now < MaxNow /\ now' = now + 1
  /\ UNCHANGED <<attempts, ops, login, sessions, process, SetupFlags, credFile>>

-----------------------------------------------------------------------------
(* Beginning, and the steps *)

\* Just after ensureAdmin's INSERT, or long after the set-up.
LoginInit ==
  /\ attempts = [i \in Ip |-> Never] /\ now = 0 /\ login = [h \in Handler |-> NoLogin]
  /\ \/ process = "file" /\ boot = TRUE /\ \A a \in Account : Exists(a) => a = First
     \/ process = "serving" /\ boot = FALSE
  /\ sessions = {}
  /\ pending = FALSE /\ saved = FALSE /\ credFile = FALSE /\ unsaved = FALSE

LoginStep(h) ==
  /\ \/ \E i \in Ip, a \in Account \cup {None} : AskIn(h, i, a)
     \/ Acquire(h) \/ Verify(h) \/ CreateSession(h) \/ Bad(h) \/ Good(h)
     \/ \E a \in Account : AskSetup(h, a)
     \/ UpdateUserCredentials(h) \/ ClearSetupPending(h) \/ SaveSetup(h) \/ RemoveFile(h)
  /\ UNCHANGED <<tables, host, locks, history, hd>>

ProcessStep ==
  /\ WriteCredentials \/ MarkSetupPending \/ SavePending \/ Start \/ Tick \/ \E a \in Account : EndSession(a)
  /\ UNCHANGED <<tables, host, locks, history, hd>>

\* Sessions go with their account.
SessionsFollow ==
  /\ sessions' = {a \in sessions : user'[a] # NoUser}
  /\ UNCHANGED <<attempts, now, login, process, SetupFlags, credFile>>

-----------------------------------------------------------------------------
(* Properties *)

\* The wizard stands in the way exactly while the first account has its bootstrap
\* password ("first login must run the setup wizard"), for a process started again too:
\* what the process has, the file and the credentials agree whenever it serves.  Not so
\* after a save that failed, or a stop between the credentials and the save (unsaved):
\* ensureAdmin finds the account at the next start and never marks the flag again.
SetupGuards == process = "serving" /\ ~unsaved /\ ~SettingUp => (pending <=> boot)

LoggedIn(i) == \E h \in Handler : login[h].pc = "good" /\ login[h].ip = i /\ login'[h].pc = "idle"

LockoutKept ==
  \A i \in Ip : Blocked(i) =>
    \/ attempts'[i] # Never /\ attempts'[i].until >= attempts[i].until
    \/ LoggedIn(i) \/ process' = "down"

\* A lockout ends early only by a valid login from its address, or with the process:
\* not by the failures of requests that were let through before it began, nor by a
\* login from elsewhere.
LockoutStands == [][LockoutKept]_<<avars, lvars>>
=============================================================================
