------------------------------- MODULE Panel -------------------------------
(***************************************************************************)
(* The panel's account side, composed: accounts and their Linux users,     *)
(* cron jobs, MariaDB objects, files, logins and the assistant.  What ties *)
(* them is the account: its deletion drops its objects, removes its Linux user  *)
(* with its crontab, and takes the rows of all the others with its own.    *)
(* A step of a component is its step here; a step of Accounts is one that  *)
(* each of the components around it takes part in.                         *)
(*                                                                         *)
(* A behaviour is given a menu: the users table it begins with, the        *)
(* requests that come and how many of them.                                *)
(***************************************************************************)
EXTENDS CronSync, DBObjects, Files, LoginGate, Transcript

CONSTANT Menus

Menu == [table : Tables, sites : SUBSET Account,
         ops : SUBSET (Request \cup DbOp \cup FileOp \cup {"login", "chat", "crash"}),
         max : 0..MaxOps, fresh : BOOLEAN]

ASSUME MenuAssumption == Menus \subseteq Menu

VARIABLE menu

pvars == <<avars, cvars, dvars, fvars, lvars, tvars, menu>>

PanelTypeOK ==
  /\ AccountsTypeOK /\ CronTypeOK /\ DbTypeOK /\ FilesTypeOK /\ LoginTypeOK
  /\ TranscriptTypeOK /\ menu \in Menus

-----------------------------------------------------------------------------

\* A request handler serves one request.
FreeOf(h, component) ==
  /\ component = "accounts" \/ ~Busy(h)
  /\ component = "objects" \/ dh[h] = NoDbHandling
  /\ component = "files" \/ fh[h] = NoFileHandling
  /\ component = "login" \/ login[h].pc = "idle"

Served == process = "serving" /\ ~pending

\* One step of an account's life and what it does to all that hangs on it.
AccountMove(h) ==
  /\ FreeOf(h, "accounts") /\ Served
  /\ \/ (AccountRequest(h) \/ AccountStep(h)) /\ CronApart /\ DbAfterAccounts /\ UNCHANGED fvars
     \/ DropOwned(h) /\ CronApart /\ UNCHANGED fvars
     \/ CronDeleteLogin(h) /\ DbAfterAccounts /\ UNCHANGED fvars
     \/ FilesUpgrade(h) /\ CronApart /\ DbAfterAccounts
  /\ SessionsFollow /\ UNCHANGED tvars

CronMove(h) ==
  /\ FreeOf(h, "accounts") /\ Served /\ CronStep(h)
  /\ UNCHANGED <<dvars, fvars, lvars, tvars>>

ObjectMove(h) ==
  /\ FreeOf(h, "objects") /\ Served /\ DbStep(h)
  /\ CronApart /\ UNCHANGED <<fvars, lvars, tvars>>

FileMove(h) ==
  /\ FreeOf(h, "files") /\ Served /\ FileStep(h)
  /\ CronApart /\ UNCHANGED <<dvars, lvars, tvars>>

LoginMove(h) ==
  /\ FreeOf(h, "login") /\ LoginStep(h)
  /\ CronApart /\ UNCHANGED <<dvars, fvars, tvars>>

ProcessMove ==
  \/ ProcessStep /\ CronApart /\ UNCHANGED <<dvars, fvars, tvars>>
  \/ Crash /\ CronCrash /\ DbCrash /\ FilesCrash /\ Restart

ChatMove ==
  /\ Converse /\ Served
  /\ CronApart /\ UNCHANGED <<avars, dvars, fvars, lvars>>

\* Only what is on the menu is ordered.
OnMenu ==
  /\ ops' <= menu.max
  /\ \A h \in Handler : {hd'[h].op, dh'[h].op, fh'[h].op} \subseteq menu.ops \cup {None}
  /\ "login" \in menu.ops \/ (now' = now /\ login' = login)
  /\ "chat" \in menu.ops \/ chats' = chats
  /\ "crash" \in menu.ops \/ process' # "down"

PanelInit ==
  /\ menu \in Menus
  /\ AccountsInit /\ user = menu.table /\ sites = menu.sites /\ CronInit /\ DbInit /\ FilesInit
  /\ LoginInit /\ (menu.fresh <=> boot) /\ TranscriptInit

PanelNext ==
  /\ \/ \E h \in Handler : AccountMove(h) \/ CronMove(h) \/ ObjectMove(h) \/ FileMove(h) \/ LoginMove(h)
     \/ ProcessMove \/ ChatMove
  /\ OnMenu
  /\ mixed' = mixed \cup Muddled
  /\ UNCHANGED menu

PanelSpec == PanelInit /\ [][PanelNext]_pvars
=============================================================================
