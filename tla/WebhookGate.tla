---------------------------- MODULE WebhookGate ----------------------------
(***************************************************************************)
(* The GitHub webhook, internal/web/handlers_hooks.go: the failure limiter *)
(* in front of it (internal/web/limiter.go), the bounded memory of delivery*)
(* ids, and the handler, whose steps other requests, the owner's changes   *)
(* to the repository and the clock interleave with.                        *)
(*                                                                         *)
(* A request is what tells the outcomes apart: its source address, the     *)
(* repository id in its URL, and whether it is bad (too large, no such id  *)
(* or a wrong signature), a push, or another event.  Of a push only the    *)
(* delivery id and the branch matter (None: no id, an unreadable payload). *)
(***************************************************************************)
EXTENDS Limiter, Sequences

CONSTANTS
  Delivery,    \* X-GitHub-Delivery ids
  Repo,        \* repository ids ever minted
  Branch,
  Conn,        \* concurrent requests
  None,
  MaxSeen,     \* deliveryCache.max
  MaxReq,      \* bound: requests
  MaxTime,     \* bound: seconds
  MaxRestart   \* bound: restarts of the panel

ASSUME GateAssumption ==
  /\ MaxSeen \in Nat \ {0}
  /\ MaxReq \in Nat /\ MaxTime \in Nat /\ MaxRestart \in Nat
  /\ None \notin Delivery \cup Repo \cup Branch \cup Ip

VARIABLES
  seen, order, \* hookSeen
  linked,      \* the project's repository row, or None
  minted,      \* repository ids handed out so far
  branch,      \* the branch the row names
  rq,          \* the requests being handled
  reqs, restarts,
  log,         \* history: deliveries admitted since the panel started
  deploys      \* history: StartDeploy calls since then, by delivery

gate   == <<attempts, seen, order>>
repo   == <<linked, minted, branch>>
ghost  == <<log, deploys>>
bounds == <<now, reqs, restarts>>
vars   == <<gate, repo, rq, bounds, ghost>>

Kind     == {"bad", "other", "push"}
Request  == [pc : {"idle", "verify", "remember", "decide"}, ip : Ip \cup {None},
             repo : Repo \cup {None}, kind : Kind, delivery : Delivery \cup {None},
             ref : Branch \cup {None}, branch : Branch \cup {None}]
NoRequest == [pc |-> "idle", ip |-> None, repo |-> None, kind |-> "bad",
              delivery |-> None, ref |-> None, branch |-> None]

\* What can arrive from address i for repository r.
Arriving(i, r, k, d, b) ==
  [pc |-> "verify", ip |-> i, repo |-> r, kind |-> k, delivery |-> d, ref |-> b,
   branch |-> None]
Incoming(i, r) ==
  {Arriving(i, r, k, None, None) : k \in {"bad", "other"}} \cup
  {Arriving(i, r, "push", d, b) : d \in Delivery \cup {None}, b \in Branch \cup {None}}

TypeOK ==
  /\ LimiterOK
  /\ seen \subseteq Delivery /\ order \in Seq(Delivery)
  /\ linked \in Repo \cup {None} /\ minted \subseteq Repo /\ branch \in Branch
  /\ rq \in [Conn -> Request]
  /\ \A c \in Conn : rq[c].pc # "idle" => rq[c].ip \in Ip
  /\ reqs \in Nat /\ restarts \in Nat
  /\ log \in Seq(Delivery) /\ deploys \in [Delivery \cup {None} -> Nat]

-----------------------------------------------------------------------------
(* deliveryCache *)

\* Bug: evicts one delivery too early.
AdmitShort(d) ==
  /\ d \notin seen
  /\ LET grown == Append(order, d)
     IN IF Len(grown) >= MaxSeen
        THEN order' = Tail(grown) /\ seen' = (seen \cup {d}) \ {Head(grown)}
        ELSE order' = grown /\ seen' = seen \cup {d}

\* Bug: evicts from the queue but not from the set.
AdmitLeak(d) ==
  /\ d \notin seen
  /\ seen' = seen \cup {d}
  /\ order' = IF Len(order) + 1 > MaxSeen THEN Tail(Append(order, d)) ELSE Append(order, d)

\* remember, when the id is new: the oldest gives way once there are too many.
Admit(d) ==
  /\ d \notin seen
  /\ LET grown == Append(order, d)
     IN IF Len(grown) > MaxSeen
        THEN order' = Tail(grown) /\ seen' = (seen \cup {d}) \ {Head(grown)}
        ELSE order' = grown /\ seen' = seen \cup {d}

-----------------------------------------------------------------------------
(* postGitHubHook *)

Done(c)    == rq' = [rq EXCEPT ![c] = NoRequest]
At(c, pc)  == rq[c].pc = pc

\* A request that the limiter lets through; one it refuses gets a 429 and
\* changes nothing.
Receive(c, i, r) ==
  /\ At(c, "idle") /\ reqs < MaxReq
  /\ Allow(i)
  /\ reqs' = reqs + 1
  /\ \E q \in Incoming(i, r) : rq' = [rq EXCEPT ![c] = q]
  /\ UNCHANGED <<seen, order, repo, now, restarts, ghost>>

\* The size limit, then the repository and the signature under its secret: every
\* rejection counts against the address.
Reject(c) ==
  /\ At(c, "verify")
  /\ rq[c].kind = "bad" \/ rq[c].repo # linked
  /\ Fail(rq[c].ip)
  /\ Done(c)
  /\ UNCHANGED <<seen, order, repo, bounds, ghost>>

\* Only a push goes further, with the branch the row has now.
Verify(c) ==
  /\ At(c, "verify")
  /\ rq[c].kind # "bad" /\ rq[c].repo = linked
  /\ \/ rq[c].kind = "other" /\ Done(c)
     \/ /\ rq[c].kind = "push"
        /\ rq' = [rq EXCEPT ![c] = [@ EXCEPT !.pc = "remember", !.branch = branch]]
  /\ UNCHANGED <<gate, repo, bounds, ghost>>

\* Bug: what remember answers is ignored.
RememberUnchecked(c) ==
  LET d == rq[c].delivery
  IN /\ At(c, "remember")
     /\ \/ d \in seen \cup {None} /\ UNCHANGED <<seen, order, log>>
        \/ d # None /\ Admit(d) /\ log' = Append(log, d)
     /\ rq' = [rq EXCEPT ![c].pc = "decide"]
     /\ UNCHANGED <<attempts, repo, bounds, deploys>>

\* A delivery seen before is acknowledged and ignored; one without an id is
\* never remembered.
Remember(c) ==
  LET d == rq[c].delivery
      goOn == rq' = [rq EXCEPT ![c].pc = "decide"]
  IN /\ At(c, "remember")
     /\ \/ d = None /\ goOn /\ UNCHANGED <<seen, order, log>>
        \/ d # None /\ Admit(d) /\ goOn /\ log' = Append(log, d)
        \/ d \in seen /\ Done(c) /\ UNCHANGED <<seen, order, log>>
     /\ UNCHANGED <<attempts, repo, bounds, deploys>>

\* An unreadable payload, a push to another branch, no repository left when
\* StartDeploy looks for the project's: nothing; otherwise a deploy is started.
Decide(c) ==
  /\ At(c, "decide")
  /\ deploys' = IF rq[c].ref = rq[c].branch /\ linked # None
                THEN [deploys EXCEPT ![rq[c].delivery] = @ + 1] ELSE deploys
  /\ Done(c)
  /\ UNCHANGED <<gate, repo, bounds, log>>

-----------------------------------------------------------------------------
(* Meanwhile *)

\* The owner unlinks the repository, links another or changes the branch.
Unlink == linked # None /\ linked' = None /\ UNCHANGED <<minted, branch>>

Link == /\ linked = None
        /\ \E r \in Repo \ minted : linked' = r /\ minted' = minted \cup {r}
        /\ branch' \in Branch

ChangeBranch == linked # None /\ branch' \in Branch /\ UNCHANGED <<linked, minted>>

Manage == /\ Unlink \/ Link \/ ChangeBranch
          /\ UNCHANGED <<gate, rq, bounds, ghost>>

Tick == /\ now < MaxTime /\ now' = now + 1
        /\ UNCHANGED <<gate, repo, rq, reqs, restarts, ghost>>

\* The limiter and the delivery ids are in memory only.
Restart ==
  /\ restarts < MaxRestart /\ restarts' = restarts + 1
  /\ attempts' = [i \in Ip |-> Never] /\ seen' = {} /\ order' = <<>>
  /\ rq' = [c \in Conn |-> NoRequest]
  /\ log' = <<>> /\ deploys' = [d \in Delivery \cup {None} |-> 0]
  /\ UNCHANGED <<repo, now, reqs>>

Init ==
  /\ attempts = [i \in Ip |-> Never] /\ seen = {} /\ order = <<>>
  /\ linked = None /\ minted = {} /\ branch \in Branch
  /\ rq = [c \in Conn |-> NoRequest]
  /\ now = 0 /\ reqs = 0 /\ restarts = 0
  /\ log = <<>> /\ deploys = [d \in Delivery \cup {None} |-> 0]

Serve(c) ==
  \/ \E i \in Ip, r \in Repo : Receive(c, i, r)
  \/ Reject(c) \/ Verify(c) \/ Remember(c) \/ Decide(c)

Next == (\E c \in Conn : Serve(c)) \/ Manage \/ Tick \/ Restart

Spec == Init /\ [][Next]_vars

-----------------------------------------------------------------------------
(* Properties *)

Recent(i) == log[Len(log) - Len(order) + i]

\* deliveryCache: the set and the queue remember the same deliveries, which are
\* the last MaxSeen ones that were admitted.
CacheExact ==
  /\ Len(order) = IF Len(log) > MaxSeen THEN MaxSeen ELSE Len(log)
  /\ \A i \in 1..Len(order) : order[i] = Recent(i)
  /\ seen = {order[i] : i \in 1..Len(order)}

\* deliveryCache.remember: however requests overlap, a delivery *id* is let through
\* again only after MaxSeen others.  Of "a captured signed delivery cannot be replayed"
\* this is the part that the code keeps: the signature covers the body and not the id,
\* so the same body under another id, or none, is another delivery.
NoReplay ==
  \A i, j \in 1..Len(log) : i < j /\ log[i] = log[j] => j - i > MaxSeen

\* postGitHubHook, from the cache to StartDeploy: since the panel started the requests
\* of one id have started no more deploys than that id was let through.  A request
\* without an id is no delivery in this sense and starts one each time.
NoReplayedDeploy ==
  \A d \in Delivery : deploys[d] <= Cardinality({i \in 1..Len(log) : log[i] = d})

\* A lockout stands until it is over, unless the panel restarts.
LockoutStands == [][Stands \/ restarts' # restarts]_vars
=============================================================================
