------------------------------ MODULE Limiter ------------------------------
(***************************************************************************)
(* The per-address failure limiter of internal/web/limiter.go: how an      *)
(* address is let through, how a failure is counted, how long a lockout    *)
(* lasts and when an address is forgotten.  Each operation runs under the  *)
(* limiter's mutex, so each is one step; what happens between the decision *)
(* to let a request through and the verdict on it is up to the modules     *)
(* that extend this one.                                                   *)
(***************************************************************************)
EXTENDS Naturals, FiniteSets

CONSTANTS
  Ip,          \* source addresses
  Never,       \* an address without failures
  Threshold,   \* loginFailThreshold
  MaxShift,    \* the longest lockout is 2^MaxShift seconds
  IdleReset,   \* loginIdleReset, in seconds
  MaxTracked   \* addresses remembered before stale ones are dropped

VARIABLES
  attempts,    \* the limiter's map, Never for an address that is not in it
  now          \* the clock, in seconds

IpState == [fails : Nat \ {0}, last : Nat, until : Nat]

ASSUME LimiterAssumption ==
  /\ Threshold \in Nat \ {0} /\ MaxShift \in Nat
  /\ IdleReset \in Nat /\ MaxTracked \in Nat
  /\ Never \notin IpState

\* A lockout never outlives the memory of the failures that caused it, and never
\* gets shorter from one failure to the next.
ASSUME LockoutAssumption ==
  \A k \in 0..MaxShift :
    /\ 2 ^ k \in Nat /\ 2 ^ k <= IdleReset
    /\ \A j \in 0..k : 2 ^ j <= 2 ^ k

LimiterOK == attempts \in [Ip -> IpState \cup {Never}] /\ now \in Nat

Tracked    == {i \in Ip : attempts[i] # Never}
Blocked(i) == attempts[i] # Never /\ now < attempts[i].until
Stale(i)   == attempts[i] # Never /\ now > attempts[i].last + IdleReset

\* allow: an idle address is forgotten, even before its lockout is looked at.
Allow(i) ==
  \/ Stale(i)  /\ attempts' = [attempts EXCEPT ![i] = Never]
  \/ ~Stale(i) /\ ~Blocked(i) /\ UNCHANGED attempts

\* Bug: the shift is not capped.
LockoutUncapped(n) == 2 ^ (n - Threshold)

\* The length of the lockout the n-th failure brings, n being past the threshold.
Lockout(n) == 2 ^ (IF n - Threshold > MaxShift THEN MaxShift ELSE n - Threshold)

Fails(i) == IF attempts[i] = Never THEN 0 ELSE attempts[i].fails
Until(i) == IF attempts[i] = Never THEN 0 ELSE attempts[i].until

\* Bug: the failure that creates the entry is not counted.
FailUncounted(i) ==
  attempts' = [attempts EXCEPT ![i] = [fails |-> Fails(i), last |-> now, until |-> Until(i)]]

\* fail: count, lock out past the threshold, and when too many addresses are
\* remembered drop the stale ones.
Fail(i) ==
  LET n     == Fails(i) + 1
      entry == [fails |-> n, last |-> now,
                until |-> IF n >= Threshold THEN now + Lockout(n) ELSE Until(i)]
      full  == Cardinality(Tracked \cup {i}) > MaxTracked
  IN attempts' = [j \in Ip |-> IF j = i THEN entry
                               ELSE IF full /\ Stale(j) THEN Never ELSE attempts[j]]

\* "locked out": until it is over a lockout is neither shortened nor forgotten,
\* whatever fails, is dropped as stale or is asked meanwhile.
Stands == \A i \in Ip : Blocked(i) => attempts'[i] # Never /\ attempts'[i].until >= attempts[i].until
=============================================================================
