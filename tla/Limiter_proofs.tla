--------------------------- MODULE Limiter_proofs ---------------------------
(***************************************************************************)
(* What the limiter's operations preserve, for every threshold, longest    *)
(* lockout and idle reset the assumptions of Limiter allow, whichever      *)
(* module uses it and however its requests overlap.                        *)
(***************************************************************************)
EXTENDS Limiter, TLAPS

-----------------------------------------------------------------------------
(* Types *)

\* Lockout: a lockout past the threshold is no longer than the memory of its
\* failures, and one more failure does not shorten it.
LEMMA LockoutBounds ==
  ASSUME NEW n \in Nat, n >= Threshold
  PROVE  /\ Lockout(n) \in Nat
         /\ Lockout(n) <= IdleReset
         /\ Lockout(n) <= Lockout(n + 1)
<1> DEFINE shift(m) == IF m - Threshold > MaxShift THEN MaxShift ELSE m - Threshold
<1>1. /\ shift(n) \in 0..MaxShift /\ shift(n + 1) \in 0..MaxShift
      /\ shift(n) \in 0..shift(n + 1)
  BY LimiterAssumption
<1>2. Lockout(n) = 2 ^ shift(n) /\ Lockout(n + 1) = 2 ^ shift(n + 1)
  BY DEF Lockout
<1> HIDE DEF shift
<1> QED
  BY <1>1, <1>2, LockoutAssumption, Zenon

\* fail: an entry is always well formed, whatever the number of failures.
LEMMA FailTypes ==
  ASSUME LimiterOK, NEW i \in Ip, Fail(i)
  PROVE  attempts' \in [Ip -> IpState \cup {Never}] /\ attempts'[i] \in IpState
<1> DEFINE n == Fails(i) + 1
           u == IF n >= Threshold THEN now + Lockout(n) ELSE Until(i)
<1>1. n \in Nat \ {0} /\ Until(i) \in Nat
  BY DEF LimiterOK, Fails, Until, IpState
<1>2. u \in Nat
  BY <1>1, LockoutBounds, LimiterAssumption DEF LimiterOK
<1>3. [fails |-> n, last |-> now, until |-> u] \in IpState
  BY <1>1, <1>2 DEF LimiterOK, IpState
<1> QED
  BY <1>3 DEF Fail, LimiterOK

\* allow: forgetting an address keeps the others as they are.
LEMMA AllowTypes ==
  ASSUME LimiterOK, NEW i \in Ip, Allow(i)
  PROVE  attempts' \in [Ip -> IpState \cup {Never}]
BY DEF LimiterOK, Allow

-----------------------------------------------------------------------------
(* Lockouts *)

\* What makes lockouts stand: an address below the threshold is not locked out,
\* and a lockout is the one its last failure brought, at the latest.
EntryOK(e) ==
  /\ e.last <= now
  /\ e.fails < Threshold => e.until = 0
  /\ e.fails >= Threshold => e.until <= e.last + Lockout(e.fails)
LockoutInv == \A i \in Ip : attempts[i] # Never => EntryOK(attempts[i])

\* fail: the entry it writes is a sound one and locks out at least as long.
LEMMA FailStands ==
  ASSUME LimiterOK, LockoutInv, now' = now, NEW i \in Ip, Fail(i)
  PROVE  LockoutInv' /\ Stands
<1> DEFINE n == Fails(i) + 1
           e == [fails |-> n, last |-> now,
                 until |-> IF n >= Threshold THEN now + Lockout(n) ELSE Until(i)]
<1>1. n \in Nat \ {0} /\ now \in Nat
  BY DEF LimiterOK, Fails, IpState
<1>2. attempts' = [j \in Ip |-> IF j = i THEN e ELSE attempts'[j]]
      /\ \A j \in Ip : j # i => attempts'[j] = attempts[j] \/ (Stale(j) /\ attempts'[j] = Never)
  BY DEF Fail
<1>3. e # Never
  BY <1>2, FailTypes, LimiterAssumption
<1>4. e.last = now /\ e.fails = n /\ (n >= Threshold => e.until = now + Lockout(n))
      /\ (n < Threshold => e.until = Until(i))
  BY <1>1, LimiterAssumption
<1>5. n < Threshold => Until(i) = 0
  BY <1>1, LimiterAssumption DEF LockoutInv, EntryOK, Until, Fails, LimiterOK, IpState
<1>6. Blocked(i) => e.until >= attempts[i].until
  <2> SUFFICES ASSUME Blocked(i) PROVE e.until >= attempts[i].until
    OBVIOUS
  <2>1. /\ attempts[i] \in IpState /\ now < attempts[i].until
        /\ EntryOK(attempts[i]) /\ attempts[i].fails = n - 1
    BY DEF Blocked, LimiterOK, LockoutInv, Fails, IpState
  <2>2. n - 1 >= Threshold /\ attempts[i].until <= attempts[i].last + Lockout(n - 1)
    BY <1>1, <2>1, LimiterAssumption DEF EntryOK, IpState
  <2>3. Lockout(n - 1) \in Nat /\ Lockout(n - 1) <= Lockout((n - 1) + 1)
    BY <1>1, <2>2, LockoutBounds
  <2>4. (n - 1) + 1 = n /\ Lockout(n) \in Nat /\ n >= Threshold
    BY <1>1, <2>2, LockoutBounds, LimiterAssumption
  <2>5. e.until = now + Lockout(n)
    BY <1>4, <2>4
  <2> HIDE DEF e, n
  <2> QED
    BY <1>1, <2>1, <2>2, <2>3, <2>4, <2>5 DEF EntryOK, IpState
<1>7. ASSUME NEW j \in Ip, j # i, Blocked(j) PROVE ~Stale(j)
  <2>1. attempts[j] \in IpState /\ now < attempts[j].until /\ EntryOK(attempts[j])
    BY <1>7 DEF Blocked, LimiterOK, LockoutInv
  <2>2. attempts[j].fails >= Threshold /\ attempts[j].until <= attempts[j].last + Lockout(attempts[j].fails)
    BY <1>1, <2>1, LimiterAssumption DEF EntryOK, IpState
  <2>3. Lockout(attempts[j].fails) \in Nat /\ Lockout(attempts[j].fails) <= IdleReset
    BY <2>1, <2>2, LockoutBounds DEF IpState
  <2> QED
    BY <1>1, <2>1, <2>2, <2>3, LimiterAssumption DEF Stale, IpState
<1> HIDE DEF e, n
<1>8. LockoutInv'
  <2> SUFFICES ASSUME NEW j \in Ip, attempts'[j] # Never PROVE EntryOK(attempts[j])'
    BY DEF LockoutInv
  <2>1. CASE j = i
    <3>1. attempts'[j] = e
      BY <1>2, <2>1
    <3>2. n < Threshold \/ n >= Threshold
      BY <1>1, LimiterAssumption
    <3>3. n >= Threshold => Lockout(n) \in Nat
      BY <1>1, LockoutBounds
    <3> QED
      BY <1>1, <1>4, <1>5, <3>1, <3>2, <3>3, LimiterAssumption DEF EntryOK
  <2>2. CASE j # i
    BY <1>2, <2>2 DEF LockoutInv, EntryOK
  <2> QED
    BY <2>1, <2>2
<1>9. Stands
  BY <1>2, <1>3, <1>6, <1>7 DEF Stands, Blocked, LimiterOK, IpState
<1> QED
  BY <1>8, <1>9

\* The passing of time brings no lockout to an end before its own.
LEMMA ClockStands ==
  ASSUME LimiterOK, LockoutInv, UNCHANGED attempts, now' \in Nat, now' >= now
  PROVE  LockoutInv' /\ Stands
<1>1. Stands
  BY DEF Stands, Blocked, LimiterOK, IpState
<1>2. LockoutInv'
  BY DEF LockoutInv, EntryOK, LimiterOK, IpState
<1> QED
  BY <1>1, <1>2

\* allow: an address old enough to be forgotten is not locked out.
LEMMA AllowStands ==
  ASSUME LimiterOK, LockoutInv, now' = now, NEW i \in Ip, Allow(i)
  PROVE  LockoutInv' /\ Stands
<1>1. CASE UNCHANGED attempts
  BY <1>1, ClockStands DEF LimiterOK
<1>2. CASE Stale(i) /\ attempts' = [attempts EXCEPT ![i] = Never]
  <2>1. ~Blocked(i)
    <3> SUFFICES ASSUME Blocked(i) PROVE FALSE
      OBVIOUS
    <3>1. attempts[i] \in IpState /\ now < attempts[i].until /\ EntryOK(attempts[i])
      BY DEF Blocked, LimiterOK, LockoutInv
    <3>2. /\ attempts[i].fails >= Threshold
          /\ attempts[i].until <= attempts[i].last + Lockout(attempts[i].fails)
      BY <3>1, LimiterAssumption DEF EntryOK, IpState, LimiterOK
    <3>3. /\ Lockout(attempts[i].fails) \in Nat
          /\ Lockout(attempts[i].fails) <= IdleReset
      BY <3>1, <3>2, LockoutBounds DEF IpState
    <3> QED
      BY <1>2, <3>1, <3>2, <3>3, LimiterAssumption DEF Stale, IpState, LimiterOK
  <2>2. Stands
    BY <1>2, <2>1 DEF Stands, Blocked, LimiterOK, IpState
  <2>3. LockoutInv'
    BY <1>2 DEF LockoutInv, EntryOK, LimiterOK
  <2> QED
    BY <2>2, <2>3
<1> QED
  BY <1>1, <1>2 DEF Allow
=============================================================================
