------------------------- MODULE WebhookGate_proofs -------------------------
(***************************************************************************)
(* Proofs about WebhookGate: its types, the window in which a delivery     *)
(* cannot be replayed, the deploys it starts, and the lockouts.             *)
(***************************************************************************)
EXTENDS WebhookGate, Limiter_proofs, FiniteSetTheorems

-----------------------------------------------------------------------------
(* Types *)

LEMMA AdmitTypes ==
  ASSUME seen \subseteq Delivery, order \in Seq(Delivery), NEW d \in Delivery, Admit(d)
  PROVE  seen' \subseteq Delivery /\ order' \in Seq(Delivery)
<1> DEFINE grown == Append(order, d)
<1>1. grown \in Seq(Delivery) /\ grown # <<>>
  OBVIOUS
<1>2. Tail(grown) \in Seq(Delivery)
  BY <1>1
<1> QED
  BY <1>1, <1>2 DEF Admit

\* Whatever arrives is a request, with its source address.
LEMMA IncomingTypes ==
  ASSUME NEW i \in Ip, NEW r \in Repo, NEW q \in Incoming(i, r)
  PROVE  q \in Request /\ q.ip = i
<1>1. CASE \E k \in {"bad", "other"} : q = Arriving(i, r, k, None, None)
  BY <1>1 DEF Arriving, Request, Kind
<1>2. CASE \E d \in Delivery \cup {None}, b \in Branch \cup {None} :
             q = Arriving(i, r, "push", d, b)
  BY <1>2 DEF Arriving, Request, Kind
<1> QED
  BY <1>1, <1>2 DEF Incoming

\* A connection goes on with q, or becomes free.
LEMMA SlotTypes ==
  ASSUME rq \in [Conn -> Request], \A b \in Conn : rq[b].pc # "idle" => rq[b].ip \in Ip,
         NEW c \in Conn, NEW q \in Request, q.pc # "idle" => q.ip \in Ip,
         rq' = [rq EXCEPT ![c] = q]
  PROVE  rq' \in [Conn -> Request] /\ \A b \in Conn : rq'[b].pc # "idle" => rq'[b].ip \in Ip
OBVIOUS

\* A request goes on, possibly noting the branch it has read.
LEMMA AdvanceTypes ==
  ASSUME NEW q \in Request, q.ip \in Ip, NEW pc \in {"remember", "decide"},
         NEW b \in Branch \cup {None}
  PROVE  /\ [q EXCEPT !.pc = pc] \in Request /\ [q EXCEPT !.pc = pc].ip = q.ip
         /\ [q EXCEPT !.pc = pc, !.branch = b] \in Request
         /\ [q EXCEPT !.pc = pc, !.branch = b].ip = q.ip
BY DEF Request

\* WebhookGate: the limiter, the delivery cache and the requests in flight keep
\* their types.
THEOREM TypeCorrect == Spec => []TypeOK
<1>1. Init => TypeOK
  BY LimiterAssumption DEF Init, TypeOK, LimiterOK, NoRequest, Request, Kind
<1>2. TypeOK /\ [Next]_vars => TypeOK'
  <2> SUFFICES ASSUME TypeOK, [Next]_vars PROVE TypeOK'
    OBVIOUS
  <2> USE DEF TypeOK
  <2>1. ASSUME NEW c \in Conn, NEW i \in Ip, NEW r \in Repo, Receive(c, i, r) PROVE TypeOK'
    <3>1. LimiterOK'
      BY <2>1, AllowTypes DEF Receive, LimiterOK
    <3>2. rq' \in [Conn -> Request] /\ \A b \in Conn : rq'[b].pc # "idle" => rq'[b].ip \in Ip
      BY <2>1, IncomingTypes DEF Receive
    <3> QED
      BY <2>1, <3>1, <3>2, GateAssumption DEF Receive, repo, ghost
  <2>2. ASSUME NEW c \in Conn, Reject(c) PROVE TypeOK'
    <3>1. LimiterOK'
      BY <2>2, FailTypes DEF Reject, At, bounds, LimiterOK
    <3> QED
      BY <2>2, <3>1 DEF Reject, Done, At, repo, bounds, ghost, NoRequest, Request, Kind
  <2>3. ASSUME NEW c \in Conn, Verify(c) PROVE TypeOK'
    <3>1. NoRequest \in Request /\ NoRequest.pc = "idle"
      BY DEF NoRequest, Request, Kind
    <3>2. rq' \in [Conn -> Request] /\ \A b \in Conn : rq'[b].pc # "idle" => rq'[b].ip \in Ip
      <4>1. rq[c] \in Request /\ rq[c].ip \in Ip
        BY <2>3 DEF Verify, At
      <4>2. CASE Done(c)
        BY <3>1, <4>2, SlotTypes DEF Done
      <4>3. CASE rq' = [rq EXCEPT ![c] = [@ EXCEPT !.pc = "remember", !.branch = branch]]
        <5> DEFINE q == [rq[c] EXCEPT !.pc = "remember", !.branch = branch]
        <5>1. q \in Request /\ q.ip \in Ip
          BY <4>1, AdvanceTypes
        <5>2. rq' = [rq EXCEPT ![c] = q]
          BY <4>3
        <5> HIDE DEF q
        <5> QED
          BY <5>1, <5>2, SlotTypes
      <4> QED
        BY <2>3, <4>2, <4>3 DEF Verify
    <3> QED
      BY <2>3, <3>2 DEF Verify, gate, repo, bounds, ghost, LimiterOK
  <2>4. ASSUME NEW c \in Conn, Remember(c) PROVE TypeOK'
    <3>1. NoRequest \in Request /\ NoRequest.pc = "idle"
      BY DEF NoRequest, Request, Kind
    <3>2. rq[c] \in Request /\ rq[c].delivery \in Delivery \cup {None}
      BY DEF Request
    <3>3. /\ seen' \subseteq Delivery /\ order' \in Seq(Delivery)
          /\ log' \in Seq(Delivery)
      <4>1. CASE rq[c].delivery # None /\ Admit(rq[c].delivery) /\ log' = Append(log, rq[c].delivery)
        BY <3>2, <4>1, AdmitTypes
      <4> QED
        BY <2>4, <4>1 DEF Remember
    <3>4. rq' \in [Conn -> Request] /\ \A b \in Conn : rq'[b].pc # "idle" => rq'[b].ip \in Ip
      <4>1. rq[c] \in Request /\ rq[c].ip \in Ip
        BY <2>4 DEF Remember, At
      <4>2. CASE Done(c)
        BY <3>1, <4>2, SlotTypes DEF Done
      <4>3. CASE rq' = [rq EXCEPT ![c].pc = "decide"]
        <5> DEFINE q == [rq[c] EXCEPT !.pc = "decide"]
        <5>1. q \in Request /\ q.ip \in Ip
          BY <4>1, AdvanceTypes
        <5>2. rq' = [rq EXCEPT ![c] = q]
          BY <4>3
        <5> HIDE DEF q
        <5> QED
          BY <5>1, <5>2, SlotTypes
      <4> QED
        BY <2>4, <4>2, <4>3 DEF Remember
    <3> QED
      BY <2>4, <3>3, <3>4 DEF Remember, repo, bounds, LimiterOK
  <2>5. ASSUME NEW c \in Conn, Decide(c) PROVE TypeOK'
    <3>1. deploys' \in [Delivery \cup {None} -> Nat]
      BY <2>5 DEF Decide, At, Request
    <3> QED
      BY <2>5, <3>1 DEF Decide, At, Done, gate, repo, bounds, NoRequest, Request, Kind, LimiterOK
  <2>6. CASE Manage
    BY <2>6 DEF Manage, Unlink, Link, ChangeBranch, gate, bounds, ghost, LimiterOK
  <2>7. CASE Tick
    BY <2>7 DEF Tick, gate, repo, ghost, LimiterOK
  <2>8. CASE Restart
    BY <2>8 DEF Restart, repo, LimiterOK, NoRequest, Request, Kind
  <2>9. CASE UNCHANGED vars
    BY <2>9 DEF vars, gate, repo, bounds, ghost, LimiterOK
  <2> QED
    BY <2>1, <2>2, <2>3, <2>4, <2>5, <2>6, <2>7, <2>8, <2>9 DEF Next, Serve
<1> QED
  BY <1>1, <1>2, PTL DEF Spec

-----------------------------------------------------------------------------
(* The delivery cache *)

\* The deliveries in the queue differ from each other.
LEMMA QueueDistinct ==
  ASSUME log \in Seq(Delivery), order \in Seq(Delivery), CacheExact, NoReplay
  PROVE  \A i, j \in 1..Len(order) : order[i] = order[j] => i = j
<1> DEFINE k == Len(order)
           L == Len(log)
<1>1. k \in Nat /\ L \in Nat /\ k <= L /\ k <= MaxSeen
  BY GateAssumption DEF CacheExact
<1>2. ASSUME NEW i \in 1..k, NEW j \in 1..k, i < j PROVE order[i] # order[j]
  <2> DEFINE a == L - k + i
             b == L - k + j
  <2> HIDE DEF k, L
  <2>1. a \in 1..L /\ b \in 1..L /\ a < b /\ b - a <= MaxSeen
    BY <1>1, <1>2, GateAssumption
  <2>2. order[i] = log[a] /\ order[j] = log[b]
    BY DEF CacheExact, Recent, k, L
  <2>3. ~(b - a > MaxSeen)
    BY <2>1, GateAssumption
  <2> HIDE DEF a, b
  <2> QED
    BY <2>1, <2>2, <2>3 DEF NoReplay, L
<1> QED
  BY <1>1, <1>2

\* The queue after a new delivery: the last MaxSeen deliveries admitted.
LEMMA AdmitExact ==
  ASSUME log \in Seq(Delivery), order \in Seq(Delivery), CacheExact, NoReplay,
         NEW d \in Delivery, Admit(d), log' = Append(log, d)
  PROVE  CacheExact'
<1> DEFINE grown == Append(order, d)
           k == Len(order)
           L == Len(log)
<1>1. /\ k \in Nat /\ L \in Nat /\ k <= L /\ k <= MaxSeen
      /\ k = IF L > MaxSeen THEN MaxSeen ELSE L
  BY GateAssumption DEF CacheExact
<1>2. /\ Len(grown) = k + 1 /\ grown[k + 1] = d
      /\ \A i \in 1..k : grown[i] = order[i]
  OBVIOUS
<1>3. Len(log') = L + 1 /\ log'[L + 1] = d /\ \A i \in 1..L : log'[i] = log[i]
  OBVIOUS
<1>4. \A i \in 1..(k + 1) : grown[i] = log'[L - k + i]
  <2>1. ASSUME NEW i \in 1..k PROVE grown[i] = log'[L - k + i]
    <3>1. L - k + i \in 1..L /\ order[i] = log[L - k + i]
      BY <1>1 DEF CacheExact, Recent
    <3> QED
      BY <1>2, <1>3, <3>1
  <2>2. L - k + (k + 1) = L + 1
    BY <1>1
  <2> QED
    BY <1>1, <1>2, <1>3, <2>1, <2>2
<1>5. seen = {order[i] : i \in 1..k} /\ d \notin seen
  BY DEF CacheExact, Admit
<1>6. CASE k + 1 > MaxSeen
  <2>1. order' = Tail(grown) /\ seen' = (seen \cup {d}) \ {Head(grown)}
    BY <1>2, <1>6 DEF Admit
  <2>2. /\ Len(order') = k /\ \A i \in 1..k : order'[i] = grown[i + 1]
        /\ Head(grown) = grown[1]
    BY <1>1, <1>2, <2>1
  <2>3. k = MaxSeen /\ L + 1 > MaxSeen /\ k >= 1
    BY <1>1, <1>6, GateAssumption
  <2>4. ASSUME NEW i \in 1..k PROVE order'[i] = log'[Len(log') - Len(order') + i]
    <3>1. i + 1 \in 1..(k + 1) /\ Len(log') - Len(order') + i = L - k + (i + 1)
      <4>1. Len(log') = L + 1 /\ Len(order') = k
        BY <1>3, <2>2
      <4> HIDE DEF k, L
      <4> QED
        BY <1>1, <4>1
    <3> QED
      BY <1>4, <2>2, <3>1
  <2>5. seen' = {order'[i] : i \in 1..k}
    <3>1. \A i \in 2..k : order[i] # order[1]
      BY <2>3, QueueDistinct
    <3>2. \A i \in 1..k : order[i] # d
      BY <1>5
    <3>3. \A x : x \in seen' <=> x = d \/ \E i \in 2..k : x = order[i]
      BY <1>2, <1>5, <2>1, <2>2, <2>3, <3>1, <3>2
    <3>4. ASSUME NEW i \in 2..k PROVE i - 1 \in 1..k /\ order'[i - 1] = order[i]
      <4>1. i - 1 \in 1..k /\ (i - 1) + 1 = i /\ i \in 1..k
        BY <1>1
      <4> QED
        BY <1>2, <2>2, <4>1
    <3>5. order'[k] = d /\ \A i \in 1..k : i # k => i + 1 \in 2..k /\ order'[i] = order[i + 1]
      BY <1>1, <1>2, <2>2, <2>3
    <3>6. k \in 1..k
      BY <1>1, <2>3
    <3> HIDE DEF k
    <3>7. \A x : x \in {order'[i] : i \in 1..k} <=> x = d \/ \E i \in 2..k : x = order[i]
      BY <3>4, <3>5, <3>6
    <3> QED
      BY <3>3, <3>7
  <2> QED
    BY <1>3, <2>2, <2>3, <2>4, <2>5 DEF CacheExact, Recent
<1>7. CASE k + 1 <= MaxSeen
  <2>1. order' = grown /\ seen' = seen \cup {d}
    BY <1>2, <1>7, GateAssumption DEF Admit
  <2>2. k = L /\ ~(L + 1 > MaxSeen)
    BY <1>1, <1>7, GateAssumption
  <2>3. ASSUME NEW i \in 1..(k + 1) PROVE order'[i] = log'[Len(log') - Len(order') + i]
    BY <1>1, <1>2, <1>3, <1>4, <2>1, <2>2
  <2>4. seen' = {order'[i] : i \in 1..(k + 1)}
    BY <1>1, <1>2, <1>5, <2>1
  <2> QED
    BY <1>2, <1>3, <2>1, <2>2, <2>3, <2>4 DEF CacheExact, Recent
<1> QED
  BY <1>6, <1>7, <1>1, GateAssumption

\* A delivery that is not in the cache was admitted at least MaxSeen others ago.
LEMMA AdmitFresh ==
  ASSUME log \in Seq(Delivery), order \in Seq(Delivery), CacheExact, NoReplay,
         NEW d \in Delivery, d \notin seen, log' = Append(log, d)
  PROVE  NoReplay'
<1> DEFINE k == Len(order)
           L == Len(log)
<1>1. /\ k \in Nat /\ L \in Nat /\ k <= L
      /\ k = IF L > MaxSeen THEN MaxSeen ELSE L
  BY GateAssumption DEF CacheExact
<1>2. Len(log') = L + 1 /\ log'[L + 1] = d /\ \A i \in 1..L : log'[i] = log[i]
  OBVIOUS
<1>3. ASSUME NEW i \in 1..L, log[i] = d PROVE L + 1 - i > MaxSeen
  <2>1. CASE i > L - k
    <3> DEFINE m == i - (L - k)
    <3>1. m \in 1..k /\ L - k + m = i
      BY <1>1, <2>1
    <3> HIDE DEF m
    <3>2. order[m] = log[i]
      BY <3>1 DEF CacheExact, Recent
    <3> QED
      BY <1>3, <3>1, <3>2 DEF CacheExact
  <2>2. CASE i <= L - k
    BY <1>1, <2>2, GateAssumption
  <2> QED
    BY <1>1, <2>1, <2>2
<1>4. ASSUME NEW i \in 1..(L + 1), NEW j \in 1..(L + 1), i < j, log'[i] = log'[j]
      PROVE  j - i > MaxSeen
  <2>1. CASE j = L + 1
    BY <1>1, <1>2, <1>3, <1>4, <2>1
  <2>2. CASE j # L + 1
    BY <1>1, <1>2, <1>4, <2>2 DEF NoReplay
  <2> QED
    BY <2>1, <2>2
<1> QED
  BY <1>2, <1>4 DEF NoReplay

\* The cache and the log of admitted deliveries, under every step.
LEMMA WindowInductive ==
  TypeOK /\ CacheExact /\ NoReplay /\ [Next]_vars => (CacheExact /\ NoReplay)'
<1> SUFFICES ASSUME TypeOK, CacheExact, NoReplay, [Next]_vars
             PROVE  CacheExact' /\ NoReplay'
  OBVIOUS
<1>1. log \in Seq(Delivery) /\ order \in Seq(Delivery)
  BY DEF TypeOK
<1>2. CASE UNCHANGED <<seen, order, log>>
  BY <1>2 DEF CacheExact, NoReplay, Recent
<1>3. ASSUME NEW c \in Conn, Remember(c) PROVE CacheExact' /\ NoReplay'
  <2>1. rq[c].delivery \in Delivery \cup {None}
    BY DEF TypeOK, Request
  <2>2. CASE UNCHANGED <<seen, order, log>>
    BY <1>2, <2>2
  <2>3. CASE /\ rq[c].delivery # None /\ Admit(rq[c].delivery)
             /\ log' = Append(log, rq[c].delivery)
    <3>1. rq[c].delivery \notin seen
      BY <2>3 DEF Admit
    <3> QED
      BY <1>1, <2>1, <2>3, <3>1, AdmitExact, AdmitFresh
  <2> QED
    BY <1>3, <2>2, <2>3 DEF Remember
<1>4. CASE Restart
  <2>1. order' = <<>> /\ log' = <<>> /\ seen' = {}
    BY <1>4 DEF Restart
  <2>2. Len(order') = 0 /\ Len(log') = 0
    BY <2>1
  <2> QED
    BY <2>1, <2>2, GateAssumption DEF CacheExact, NoReplay, Recent
<1>5. ASSUME NEW c \in Conn, Serve(c) PROVE CacheExact' /\ NoReplay'
  <2>1. ASSUME ~Remember(c) PROVE UNCHANGED <<seen, order, log>>
    BY <1>5, <2>1 DEF Serve, Receive, Reject, Verify, Decide, gate, ghost
  <2> QED
    BY <1>2, <1>3, <2>1
<1>6. CASE Manage \/ Tick \/ UNCHANGED vars
  BY <1>2, <1>6 DEF Manage, Tick, vars, gate, ghost
<1> QED
  BY <1>4, <1>5, <1>6 DEF Next

LEMMA WindowInit == Init => CacheExact /\ NoReplay
<1> SUFFICES ASSUME Init PROVE CacheExact /\ NoReplay
  OBVIOUS
<1>1. order = <<>> /\ log = <<>> /\ seen = {} /\ Len(order) = 0 /\ Len(log) = 0
  BY DEF Init
<1> QED
  BY <1>1, GateAssumption DEF CacheExact, NoReplay, Recent

\* deliveryCache.remember: the set and the queue never drift apart, and hold the
\* last MaxSeen deliveries.
THEOREM CacheIsExact == Spec => []CacheExact
BY TypeCorrect, WindowInit, WindowInductive, PTL DEF Spec

\* deliveryCache.remember: a delivery id is not let through again before MaxSeen
\* others were, however the requests overlap.
THEOREM ReplaysRefused == Spec => []NoReplay
BY TypeCorrect, WindowInit, WindowInductive, PTL DEF Spec

-----------------------------------------------------------------------------
(* Deploys *)

\* The requests about to decide on delivery d, and the times it was admitted.
Deciding(d) == {c \in Conn : rq[c].pc = "decide" /\ rq[c].delivery = d}
Admitted(d) == {i \in 1..Len(log) : log[i] = d}

\* A delivery paid for each deploy that it started or may be about to start.
Paid(d) == /\ IsFiniteSet(Deciding(d))
           /\ deploys[d] + Cardinality(Deciding(d)) <= Cardinality(Admitted(d))
DeploysPaid == \A d \in Delivery : Paid(d)

LEMMA AdmittedFinite ==
  ASSUME TypeOK, NEW d \in Delivery
  PROVE  IsFiniteSet(Admitted(d)) /\ Cardinality(Admitted(d)) \in Nat
<1>1. Len(log) \in Nat
  BY DEF TypeOK
<1>2. IsFiniteSet(1..Len(log)) /\ Admitted(d) \subseteq 1..Len(log)
  BY <1>1, FS_Interval DEF Admitted
<1> QED
  BY <1>2, FS_Subset, FS_CardinalityType

\* Admitting d adds one to the times that d was admitted, and to no other's.
LEMMA AdmittedGrows ==
  ASSUME TypeOK, NEW d \in Delivery, NEW e \in Delivery, log' = Append(log, d)
  PROVE  Cardinality(Admitted(e)') = Cardinality(Admitted(e)) + (IF e = d THEN 1 ELSE 0)
<1> DEFINE L == Len(log)
<1>1. L \in Nat /\ log \in Seq(Delivery)
  BY DEF TypeOK
<1>2. Len(log') = L + 1 /\ log'[L + 1] = d /\ \A i \in 1..L : log'[i] = log[i]
  BY <1>1
<1>3. L + 1 \notin Admitted(e)
  BY <1>1 DEF Admitted
<1>4. CASE e = d
  <2>1. Admitted(e)' = Admitted(e) \cup {L + 1}
    BY <1>1, <1>2, <1>4 DEF Admitted
  <2> QED
    BY <1>3, <1>4, <2>1, AdmittedFinite, FS_AddElement
<1>5. CASE e # d
  <2>1. Admitted(e)' = Admitted(e)
    BY <1>1, <1>2, <1>5 DEF Admitted
  <2> QED
    BY <1>5, <2>1, AdmittedFinite
<1> QED
  BY <1>4, <1>5

\* Nothing that matters to d changes.
LEMMA PaidKept ==
  ASSUME NEW d \in Delivery, Paid(d), Deciding(d)' = Deciding(d),
         UNCHANGED <<log, deploys>>
  PROVE  Paid(d)'
BY DEF Paid, Admitted

\* A connection whose request is not about to decide on d, before and after.
LEMMA DecidingKept ==
  ASSUME TypeOK, NEW d \in Delivery, NEW c \in Conn, NEW q, rq' = [rq EXCEPT ![c] = q],
         c \notin Deciding(d), ~(q.pc = "decide" /\ q.delivery = d)
  PROVE  Deciding(d)' = Deciding(d)
BY DEF Deciding, TypeOK

LEMMA RememberPaid ==
  ASSUME TypeOK, DeploysPaid, NEW c \in Conn, Remember(c)
  PROVE  DeploysPaid'
<1> SUFFICES ASSUME NEW d \in Delivery PROVE Paid(d)'
  BY DEF DeploysPaid
<1>1. Paid(d) /\ c \notin Deciding(d) /\ UNCHANGED deploys
  BY DEF DeploysPaid, Remember, At, Deciding
<1>2. rq[c] \in Request /\ rq \in [Conn -> Request]
  BY DEF TypeOK
<1> DEFINE q == [rq[c] EXCEPT !.pc = "decide"]
<1>3. q.pc = "decide" /\ q.delivery = rq[c].delivery
  BY <1>2 DEF Request
<1>4. CASE Done(c) /\ UNCHANGED log
  <2>1. Deciding(d)' = Deciding(d)
    BY <1>1, <1>4, DecidingKept DEF Done, NoRequest
  <2> QED
    BY <1>1, <1>4, <2>1, PaidKept
<1>5. ASSUME rq' = [rq EXCEPT ![c] = q], rq[c].delivery # d PROVE Deciding(d)' = Deciding(d)
  <2> HIDE DEF q
  <2> QED
    BY <1>1, <1>3, <1>5, DecidingKept
<1>6. CASE rq[c].delivery = None /\ rq' = [rq EXCEPT ![c].pc = "decide"] /\ UNCHANGED log
  <2>1. rq' = [rq EXCEPT ![c] = q] /\ rq[c].delivery # d
    BY <1>6, GateAssumption
  <2> QED
    BY <1>1, <1>5, <1>6, <2>1, PaidKept
<1>7. CASE /\ rq[c].delivery # None /\ rq' = [rq EXCEPT ![c].pc = "decide"]
           /\ log' = Append(log, rq[c].delivery)
  <2>1. rq' = [rq EXCEPT ![c] = q] /\ rq[c].delivery \in Delivery
    BY <1>2, <1>7 DEF Request
  <2> DEFINE D == Cardinality(Deciding(d))
             A == Cardinality(Admitted(d))
  <2>2. /\ IsFiniteSet(Deciding(d)) /\ D \in Nat /\ A \in Nat /\ deploys[d] \in Nat
        /\ deploys[d] + D <= A
    BY <1>1, AdmittedFinite, FS_CardinalityType DEF Paid, TypeOK
  <2>3. Cardinality(Admitted(d)') = A + (IF d = rq[c].delivery THEN 1 ELSE 0)
    BY <1>7, <2>1, AdmittedGrows
  <2>4. CASE rq[c].delivery = d
    <3>1. Deciding(d)' = Deciding(d) \cup {c}
      BY <1>2, <1>3, <2>1, <2>4 DEF Deciding
    <3>2. IsFiniteSet(Deciding(d)') /\ Cardinality(Deciding(d)') = D + 1
      BY <1>1, <2>2, <3>1, FS_AddElement
    <3> HIDE DEF D, A
    <3> QED
      BY <1>1, <2>2, <2>3, <2>4, <3>2 DEF Paid
  <2>5. CASE rq[c].delivery # d
    <3>1. Deciding(d)' = Deciding(d)
      BY <1>5, <2>1, <2>5
    <3> QED
      BY <1>1, <2>2, <2>3, <2>5, <3>1 DEF Paid
  <2> QED
    BY <2>4, <2>5
<1> QED
  BY <1>4, <1>6, <1>7 DEF Remember

LEMMA DecidePaid ==
  ASSUME TypeOK, DeploysPaid, NEW c \in Conn, Decide(c)
  PROVE  DeploysPaid'
<1> SUFFICES ASSUME NEW d \in Delivery PROVE Paid(d)'
  BY DEF DeploysPaid
<1> DEFINE D == Cardinality(Deciding(d))
           A == Cardinality(Admitted(d))
<1>1. /\ IsFiniteSet(Deciding(d)) /\ D \in Nat /\ A \in Nat /\ deploys[d] \in Nat
      /\ deploys[d] + D <= A
  BY AdmittedFinite, FS_CardinalityType DEF DeploysPaid, Paid, TypeOK
<1>2. Admitted(d)' = Admitted(d)
  BY DEF Decide, Admitted
<1>3. rq \in [Conn -> Request] /\ rq' = [rq EXCEPT ![c] = NoRequest] /\ rq[c].pc = "decide"
  BY DEF Decide, Done, At, TypeOK
<1>4. CASE rq[c].delivery = d
  <2>1. c \in Deciding(d) /\ Deciding(d)' = Deciding(d) \ {c}
    BY <1>3, <1>4 DEF Deciding, NoRequest
  <2>2. IsFiniteSet(Deciding(d)') /\ Cardinality(Deciding(d)') = D - 1
    BY <1>1, <2>1, FS_RemoveElement
  <2>3. deploys'[d] \in {deploys[d], deploys[d] + 1}
    BY <1>4 DEF Decide, TypeOK
  <2> HIDE DEF D, A
  <2> QED
    BY <1>1, <1>2, <2>2, <2>3 DEF Paid, A
<1>5. CASE rq[c].delivery # d
  <2>1. c \notin Deciding(d) /\ deploys'[d] = deploys[d]
    BY <1>5 DEF Deciding, Decide, TypeOK
  <2>2. Deciding(d)' = Deciding(d)
    BY <1>3, <2>1, DecidingKept DEF NoRequest
  <2> QED
    BY <1>1, <1>2, <2>1, <2>2 DEF Paid
<1> QED
  BY <1>4, <1>5

LEMMA PaidInductive == TypeOK /\ DeploysPaid /\ [Next]_vars => DeploysPaid'
<1> SUFFICES ASSUME TypeOK, DeploysPaid, [Next]_vars PROVE DeploysPaid'
  OBVIOUS
<1>1. ASSUME NEW c \in Conn, NEW q, rq' = [rq EXCEPT ![c] = q], rq[c].pc # "decide",
             q.pc # "decide", UNCHANGED ghost
      PROVE  DeploysPaid'
  <2> SUFFICES ASSUME NEW d \in Delivery PROVE Paid(d)'
    BY DEF DeploysPaid
  <2>1. Deciding(d)' = Deciding(d)
    BY <1>1, DecidingKept DEF Deciding
  <2> QED
    BY <1>1, <2>1, PaidKept DEF DeploysPaid, ghost
<1>2. ASSUME NEW c \in Conn, NEW i \in Ip, NEW r \in Repo, Receive(c, i, r) PROVE DeploysPaid'
  <2>1. PICK q \in Incoming(i, r) : rq' = [rq EXCEPT ![c] = q]
    BY <1>2 DEF Receive
  <2>2. q.pc # "decide"
    BY DEF Incoming, Arriving
  <2> QED
    BY <1>1, <1>2, <2>1, <2>2 DEF Receive, At
<1>3. ASSUME NEW c \in Conn, Reject(c) PROVE DeploysPaid'
  <2>1. /\ rq' = [rq EXCEPT ![c] = NoRequest] /\ NoRequest.pc # "decide"
        /\ rq[c].pc # "decide" /\ UNCHANGED ghost
    BY <1>3 DEF Reject, At, Done, NoRequest
  <2> QED
    BY <1>1, <2>1
<1>4. ASSUME NEW c \in Conn, Verify(c) PROVE DeploysPaid'
  <2> DEFINE q == [rq[c] EXCEPT !.pc = "remember", !.branch = branch]
  <2>1. rq[c].pc # "decide" /\ UNCHANGED ghost
    BY <1>4 DEF Verify, At
  <2>2. q.pc # "decide"
    BY DEF TypeOK, Request
  <2>3. Done(c) \/ rq' = [rq EXCEPT ![c] = q]
    BY <1>4 DEF Verify
  <2>4. CASE Done(c)
    <3>1. rq' = [rq EXCEPT ![c] = NoRequest] /\ NoRequest.pc # "decide"
      BY <2>4 DEF Done, NoRequest
    <3> QED
      BY <1>1, <2>1, <3>1
  <2>5. CASE rq' = [rq EXCEPT ![c] = q]
    <3> HIDE DEF q
    <3> QED
      BY <1>1, <2>1, <2>2, <2>5
  <2> QED
    BY <2>3, <2>4, <2>5
<1>5. CASE Manage \/ Tick \/ UNCHANGED vars
  <2>1. UNCHANGED <<rq, log, deploys>>
    BY <1>5 DEF Manage, Tick, vars, ghost
  <2> QED
    BY <2>1, PaidKept DEF DeploysPaid, Deciding
<1>6. CASE Restart
  <2> SUFFICES ASSUME NEW d \in Delivery PROVE Paid(d)'
    BY DEF DeploysPaid
  <2>1. Deciding(d)' = {} /\ Admitted(d)' = {} /\ deploys'[d] = 0
    <3>1. Len(<<>>) = 0 /\ 1..0 = {}
      OBVIOUS
    <3> QED
      BY <1>6, <3>1 DEF Restart, Deciding, Admitted, NoRequest
  <2> QED
    BY <2>1, FS_EmptySet DEF Paid
<1> QED
  BY <1>2, <1>3, <1>4, <1>5, <1>6, RememberPaid, DecidePaid DEF Next, Serve

LEMMA PaidInit == Init => DeploysPaid
<1> SUFFICES ASSUME Init, NEW d \in Delivery PROVE Paid(d)
  BY DEF DeploysPaid
<1>1. Deciding(d) = {} /\ Admitted(d) = {} /\ deploys[d] = 0
  <2>1. Len(<<>>) = 0 /\ 1..0 = {}
    OBVIOUS
  <2> QED
    BY <2>1 DEF Init, Deciding, Admitted, NoRequest
<1> QED
  BY <1>1, FS_EmptySet DEF Paid

\* postGitHubHook: however the requests with one delivery id overlap, they start no more
\* deploys than remember let that id through, since each deploy spends one admission.
THEOREM DeploysAdmitted == Spec => []NoReplayedDeploy
<1>1. TypeOK /\ DeploysPaid => NoReplayedDeploy
  <2> SUFFICES ASSUME TypeOK, DeploysPaid, NEW d \in Delivery
               PROVE  deploys[d] <= Cardinality(Admitted(d))
    BY DEF NoReplayedDeploy, Admitted
  <2>1. /\ Cardinality(Deciding(d)) \in Nat /\ Cardinality(Admitted(d)) \in Nat
        /\ deploys[d] \in Nat /\ deploys[d] + Cardinality(Deciding(d)) <= Cardinality(Admitted(d))
    BY AdmittedFinite, FS_CardinalityType DEF DeploysPaid, Paid, TypeOK
  <2> QED
    BY <2>1
<1> QED
  BY <1>1, TypeCorrect, PaidInit, PaidInductive, PTL DEF Spec

-----------------------------------------------------------------------------
(* Lockouts *)

LEMMA LockoutInit == Init => LockoutInv
BY DEF Init, LockoutInv

LEMMA LockoutInductive ==
  TypeOK /\ LockoutInv /\ [Next]_vars => LockoutInv' /\ (Stands \/ restarts' # restarts)
<1> SUFFICES ASSUME TypeOK, LockoutInv, [Next]_vars
             PROVE  LockoutInv' /\ (Stands \/ restarts' # restarts)
  OBVIOUS
<1>1. LimiterOK
  BY DEF TypeOK
<1>2. ASSUME UNCHANGED attempts, now' \in Nat, now' >= now PROVE LockoutInv' /\ Stands
  BY <1>1, <1>2, ClockStands
<1>3. ASSUME NEW c \in Conn, NEW i \in Ip, NEW r \in Repo, Receive(c, i, r)
      PROVE  LockoutInv' /\ Stands
  BY <1>1, <1>3, AllowStands DEF Receive
<1>4. ASSUME NEW c \in Conn, Reject(c) PROVE LockoutInv' /\ Stands
  <2>1. rq[c].ip \in Ip /\ Fail(rq[c].ip) /\ now' = now
    BY <1>4 DEF Reject, At, TypeOK, bounds
  <2> QED
    BY <1>1, <2>1, FailStands
<1>5. ASSUME NEW c \in Conn, Verify(c) \/ Remember(c) \/ Decide(c) PROVE LockoutInv' /\ Stands
  <2>1. UNCHANGED attempts /\ now' = now
    BY <1>5 DEF Verify, Remember, Decide, gate, bounds
  <2> QED
    BY <1>1, <1>2, <2>1 DEF LimiterOK
<1>6. CASE Manage \/ Tick \/ UNCHANGED vars
  <2>1. UNCHANGED attempts /\ now' \in Nat /\ now' >= now
    BY <1>1, <1>6 DEF Manage, Tick, vars, gate, bounds, LimiterOK
  <2> QED
    BY <1>2, <2>1
<1>7. CASE Restart
  BY <1>7 DEF Restart, LockoutInv, TypeOK
<1> QED
  BY <1>3, <1>4, <1>5, <1>6, <1>7 DEF Next, Serve

\* loginLimiter: a lockout is neither shortened nor forgotten before it is over,
\* whatever fails, expires or is asked meanwhile, unless the panel restarts.
THEOREM LockoutsLast == Spec => LockoutStands
BY TypeCorrect, LockoutInit, LockoutInductive, PTL DEF Spec, LockoutStands
=============================================================================
