---------------------------- MODULE SingleFlight ----------------------------
(***************************************************************************)
(* What Service.runRepoJob promises its callers, with no goroutine, lock   *)
(* or pipeline in sight: each project has at most one request being worked *)
(* on and at most one waiting behind it, the waiting one being the most    *)
(* recent request made meanwhile.  RepoJobs implements this specification. *)
(***************************************************************************)

CONSTANTS Project,   \* the keys that are serialised
          Request,   \* what can be asked of a project
          None       \* no request

VARIABLES current,   \* current[p]: the request being worked on, or None
          waiting    \* waiting[p]: the single follow-up, or None

flightVars == <<current, waiting>>

FlightInit ==
  /\ current = [p \in Project |-> None]
  /\ waiting = [p \in Project |-> None]

\* A request starts at once on an idle project ...
StartNow(p, q) ==
  /\ current[p] = None
  /\ current' = [current EXCEPT ![p] = q]
  /\ UNCHANGED waiting

\* ... and otherwise becomes the follow-up, replacing whatever was waiting.
Wait(p, q) ==
  /\ current[p] # None
  /\ waiting' = [waiting EXCEPT ![p] = q]
  /\ UNCHANGED current

\* The end of a run starts the follow-up, if there is one.
Finish(p) ==
  /\ current[p] # None
  /\ current' = [current EXCEPT ![p] = waiting[p]]
  /\ waiting' = [waiting EXCEPT ![p] = None]

\* A restart forgets everything: jobs live in memory only.
Forget ==
  /\ current' = [p \in Project |-> None]
  /\ waiting' = [p \in Project |-> None]

FlightNext ==
  \/ \E p \in Project, q \in Request : StartNow(p, q) \/ Wait(p, q)
  \/ \E p \in Project : Finish(p)
  \/ Forget

FlightSpec == FlightInit /\ [][FlightNext]_flightVars
=============================================================================
