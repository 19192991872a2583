-------------------------- MODULE CadMeteringProofs --------------------------
(* Proofs about CadMetering: types, leaked locks, the sizing of the lock     *)
(* that makes "one request in flight" true, and the count of a day's rounds. *)
EXTENDS CadMetering, FiniteSetTheorems, TLAPS

USE DEF Running

------------------------------------------------------------------------------
(* Arithmetic of attempts. *)

(* An attempt takes its share of the budget of the attempts left. *)
LEMMA TimesLess ==
    ASSUME NEW n \in Nat \ {0}, NEW p \in Nat
    PROVE  (n - 1) * p + p = n * p
  BY SMT

LEMMA TimesNat ==
    ASSUME NEW n \in Nat, NEW p \in Nat
    PROVE  n * p \in Nat
  BY SMT

LEMMA TimesMonotonic ==
    ASSUME NEW m \in Nat, NEW n \in Nat, m <= n, NEW p \in Nat
    PROVE  m * p <= n * p
  BY SMT

LEMMA AttemptTimeNat ==
    ASSUME NEW kind
    PROVE  AttemptTime(kind) \in Nat
  BY ConstantsAssumption DEF AttemptTime

LEMMA LockTtlNat == LockTtl \in Nat
  <1>1. Attempts * ProviderTimeout \in Nat
    BY TimesNat, ConstantsAssumption
  <1> QED
    BY <1>1, ConstantsAssumption DEF LockTtl

LEMMA DayNat ==
    ASSUME NEW n \in Nat
    PROVE  Day(n) \in Nat
  BY ConstantsAssumption DEF Day

------------------------------------------------------------------------------
(* Types. *)

LEMMA RunningIsAdmitted ==
    ASSUME TypeOK, NEW r \in Request, IsRunning(r)
    PROVE  request[r] \in Admitted
  BY DEF TypeOK, IsRunning, Over, Fresh

LEMMA UsedTodayNat ==
    ASSUME TypeOK, NEW w \in Wallet
    PROVE  UsedToday(w) \in Nat
  BY DEF TypeOK, UsedToday, Entry

LEMMA ChargeTyped ==
    ASSUME TypeOK, NEW w \in Wallet, Charge(w)
    PROVE  counters' \in [Wallet -> Entry] /\ disk' \in [Wallet -> Entry]
  <1>1. [day |-> Day(now), used |-> UsedToday(w) + 1] \in Entry
    BY UsedTodayNat, DayNat DEF TypeOK, Entry
  <1> QED
    BY <1>1 DEF TypeOK, Charge, Save

LEMMA RefundTyped ==
    ASSUME TypeOK, NEW w \in Wallet, Refund(w)
    PROVE  counters' \in [Wallet -> Entry] /\ disk' \in [Wallet -> Entry]
  <1>1. CASE UsedToday(w) > 0
    <2>1. counters[w].used \in Nat /\ counters[w].used > 0
      BY <1>1 DEF TypeOK, Entry, UsedToday
    <2>2. [counters[w] EXCEPT !.used = @ - 1] \in Entry
      BY <2>1 DEF TypeOK, Entry
    <2>3. counters' = [counters EXCEPT ![w] = [counters[w] EXCEPT !.used = @ - 1]]
      BY <1>1 DEF Refund, TypeOK, Entry
    <2> QED
      BY <1>1, <2>2, <2>3 DEF Refund, Save, TypeOK
  <1>2. CASE ~(UsedToday(w) > 0)
    BY <1>2 DEF Refund, TypeOK
  <1> QED
    BY <1>1, <1>2

LEMMA ReleaseTyped ==
    ASSUME TypeOK, NEW w \in Wallet, NEW r \in Request, Release(w, r)
    PROVE  locks' \in [Wallet -> Lock \cup {NoLock}]
  BY DEF TypeOK, Release

LEMMA CountedTyped ==
    ASSUME TypeOK, NEW w \in Wallet
    PROVE  Counted(w) \in Window
  <1>1. window[w] \in [count: Nat, resetAt: Nat] /\ now \in Nat
    BY DEF TypeOK, Window
  <1> QED
    BY <1>1, ConstantsAssumption DEF Counted, Window

LEMMA EndedTyped ==
    ASSUME TypeOK, NEW r \in Request, IsRunning(r), NEW back \in BOOLEAN
    PROVE  Ended(request[r].wallet, request[r].startedAt, back) \in Over
  BY RunningIsAdmitted DEF Ended, Over, Admitted

LEMMA StartTyped ==
    ASSUME TypeOK, NEW r \in Request, NEW w \in Wallet, NEW kind \in Kind,
           NEW n \in 1..Attempts, Start(r, w, kind, n), window' \in [Wallet -> Window]
    PROVE  TypeOK'
  <1>1. [stage |-> Opening(kind), wallet |-> w, kind |-> kind,
         startedAt |-> now, left |-> n, at |-> now] \in Admitted
    BY DEF Opening, Admitted, TypeOK
  <1>2. [token |-> r, startedAt |-> now] \in Lock
    BY DEF Lock, TypeOK
  <1>3. counters' \in [Wallet -> Entry] /\ disk' \in [Wallet -> Entry]
    BY ChargeTyped DEF Start
  <1> QED
    BY <1>1, <1>2, <1>3 DEF Start, TypeOK

LEMMA LimitedTyped ==
    ASSUME TypeOK, NEW r \in Request, NEW w \in Wallet, Limited(r, w)
    PROVE  TypeOK'
  <1>1. Ended(w, now, FALSE) \in Over
    BY DEF Ended, Over, TypeOK
  <1>2. counters' \in [Wallet -> Entry] /\ disk' \in [Wallet -> Entry]
    BY ChargeTyped DEF Limited
  <1>3. window' \in [Wallet -> Window]
    BY CountedTyped DEF Limited, TypeOK
  <1> QED
    BY <1>1, <1>2, <1>3 DEF Limited, TypeOK

LEMMA SettleTyped ==
    ASSUME TypeOK, NEW r \in Request, IsRunning(r), Settle(r)
    PROVE  TypeOK'
  <1>1. request' \in [Request -> Admitted \cup Over \cup {Fresh}]
    BY EndedTyped DEF Settle, TypeOK
  <1>2. request[r].wallet \in Wallet
    BY RunningIsAdmitted DEF Admitted
  <1>3. locks' \in [Wallet -> Lock \cup {NoLock}]
    BY <1>2, ReleaseTyped DEF Settle
  <1> QED
    BY <1>1, <1>3 DEF Settle, TypeOK

LEMMA UnsuitableTyped ==
    ASSUME TypeOK, NEW r \in Request, Unsuitable(r)
    PROVE  TypeOK'
  <1>1. IsRunning(r)
    BY DEF Unsuitable, IsRunning
  <1>2. request[r].wallet \in Wallet
    BY <1>1, RunningIsAdmitted DEF Admitted
  <1>3. (UsedToday(request[r].wallet) > 0) \in BOOLEAN
    OBVIOUS
  <1>4. request' \in [Request -> Admitted \cup Over \cup {Fresh}]
    BY <1>1, <1>3, EndedTyped DEF Unsuitable, TypeOK
  <1>5. locks' \in [Wallet -> Lock \cup {NoLock}]
    BY <1>2, ReleaseTyped DEF Unsuitable
  <1>6. counters' \in [Wallet -> Entry] /\ disk' \in [Wallet -> Entry]
    BY <1>2, RefundTyped DEF Unsuitable
  <1> QED
    BY <1>4, <1>5, <1>6 DEF Unsuitable, TypeOK

LEMMA GoesTyped ==
    ASSUME TypeOK, NEW r \in Request, IsRunning(r), NEW stage \in Running,
           NEW left \in 1..Attempts, NEW at \in Nat, Goes(r, stage, left, at)
    PROVE  TypeOK'
  <1>1. request[r] \in Admitted
    BY RunningIsAdmitted
  <1>2. [stage |-> stage, wallet |-> request[r].wallet,
         kind |-> request[r].kind, startedAt |-> request[r].startedAt,
         left |-> left, at |-> at] \in Admitted
    BY <1>1 DEF Admitted
  <1> QED
    BY <1>2 DEF Goes, TypeOK

LEMMA AttemptTyped ==
    ASSUME TypeOK, NEW r \in Request, IsRunning(r)
    PROVE  request[r].left \in 1..Attempts /\ request[r].at \in Nat
  BY RunningIsAdmitted DEF Admitted

LEMMA RestartTyped ==
    ASSUME TypeOK, Restart
    PROVE  TypeOK'
  <1>1. request' \in [Request -> Admitted \cup Over \cup {Fresh}]
    BY EndedTyped DEF Restart, TypeOK
  <1>2. [w \in Wallet |-> NoEntry] \in [Wallet -> Entry]
    BY DEF NoEntry, Entry
  <1>3. counters' \in [Wallet -> Entry] /\ disk' \in [Wallet -> Entry]
    BY <1>2 DEF Restart, TypeOK
  <1>4. window' \in [Wallet -> Window] /\ locks' \in [Wallet -> Lock \cup {NoLock}]
    BY DEF Restart, Window
  <1>5. forgotten' \in SUBSET Wallet
    BY DEF Restart, TypeOK
  <1> QED
    BY <1>1, <1>3, <1>4, <1>5 DEF Restart, TypeOK

LEMMA InitTyped == Init => TypeOK
  BY ConstantsAssumption
  DEF Init, TypeOK, NoEntry, Entry, Window

LEMMA TypeStep ==
    ASSUME TypeOK, [Next]_vars
    PROVE  TypeOK'
  <1>1. ASSUME NEW r \in Request, NEW w \in Wallet,
               NEW kind \in {"generate", "repair"}, Post(r, w, kind)
        PROVE  TypeOK'
    <2>1. window' \in [Wallet -> Window]
      BY <1>1, CountedTyped DEF Post, TypeOK
    <2>2. PICK n \in 1..Attempts : Start(r, w, kind, n)
      BY <1>1 DEF Post
    <2> QED
      BY <2>1, <2>2, StartTyped DEF Kind
  <1>2. ASSUME NEW r \in Request, NEW w \in Wallet, Limited(r, w)
        PROVE  TypeOK'
    BY <1>2, LimitedTyped
  <1>3. ASSUME NEW r \in Request, NEW w \in Wallet, PostTask(r, w)
        PROVE  TypeOK'
    <2>1. window' \in [Wallet -> Window]
      BY <1>3 DEF PostTask, TypeOK
    <2>2. Attempts \in 1..Attempts
      BY ConstantsAssumption
    <2> QED
      BY <1>3, <2>1, <2>2, StartTyped DEF PostTask, Kind
  <1>4. ASSUME NEW w \in Wallet, RefuseForQuota(w)
        PROVE  TypeOK'
    BY <1>4 DEF RefuseForQuota, TypeOK
  <1>5. ASSUME NEW r \in Request, Work(r)
        PROVE  TypeOK'
    <2>1. CASE Selected(r)
      BY <2>1, GoesTyped, AttemptTyped DEF Selected, IsRunning, TypeOK
    <2>2. CASE Unsuitable(r)
      BY <2>2, UnsuitableTyped
    <2>3. CASE Serve(r) \/ Fail(r)
      BY <2>3, SettleTyped DEF Serve, Fail, Calling, IsRunning
    <2>4. CASE Retry(r)
      <3>1. IsRunning(r) /\ request[r].left - 1 \in 1..Attempts
        BY <2>4, AttemptTyped, ConstantsAssumption
        DEF Retry, Calling, IsRunning
      <3> QED
        BY <2>4, <3>1, GoesTyped DEF Retry, Mode, TypeOK
    <2>5. CASE Fallback(r)
      BY <2>5, GoesTyped, AttemptTyped DEF Fallback, IsRunning
    <2> QED
      BY <1>5, <2>1, <2>2, <2>3, <2>4, <2>5 DEF Work
  <1>6. ASSUME NEW r \in Request, Cancel(r)
        PROVE  TypeOK'
    BY <1>6, SettleTyped DEF Cancel
  <1>7. CASE Tick
    BY <1>7 DEF Tick, TypeOK
  <1>8. CASE Restart
    BY <1>8, RestartTyped
  <1>9. CASE UNCHANGED vars
    BY <1>9 DEF vars, TypeOK
  <1> QED
    BY <1>1, <1>2, <1>3, <1>4, <1>5, <1>6, <1>7, <1>8, <1>9 DEF Next, Admit

(* Every variable keeps its type, for any limits and any number of wallets   *)
(* and requests.                                                             *)
THEOREM Typed == Spec => []TypeOK
  BY InitTyped, TypeStep, PTL DEF Spec

------------------------------------------------------------------------------
(* Leaked locks. *)

(* A release frees the lock of the request it is for, and no other. *)
LEMMA SettleKeepsLocks ==
    ASSUME TypeOK, NoLockIsLeaked, NEW r \in Request, IsRunning(r),
           NEW back \in BOOLEAN,
           request' = [request EXCEPT ![r] =
               Ended(request[r].wallet, request[r].startedAt, back)],
           Release(request[r].wallet, r)
    PROVE  NoLockIsLeaked'
  <1> DEFINE v == request[r].wallet
  <1>1. v \in Wallet
    BY RunningIsAdmitted DEF Admitted
  <1> SUFFICES ASSUME NEW w \in Wallet, locks'[w] # NoLock
               PROVE  /\ IsRunning(locks[w].token)'
                      /\ request'[locks'[w].token].wallet = w
                      /\ request'[locks'[w].token].startedAt = locks'[w].startedAt
    BY DEF NoLockIsLeaked, IsRunning
  <1>2. locks'[w] = locks[w] /\ locks[w] # NoLock
    BY <1>1 DEF Release, TypeOK
  <1>3. /\ IsRunning(locks[w].token)
        /\ request[locks[w].token].wallet = w
        /\ request[locks[w].token].startedAt = locks[w].startedAt
    BY <1>2 DEF NoLockIsLeaked
  <1>4. locks[w].token \in Request
    BY <1>2 DEF TypeOK, Lock
  <1>5. locks[w].token # r
    <2>1. SUFFICES ASSUME locks[w].token = r PROVE FALSE
      OBVIOUS
    <2>2. v = w
      BY <1>3, <2>1
    <2> QED
      BY <1>1, <1>2, <2>1, <2>2 DEF Release, TypeOK
  <1>6. request'[locks[w].token] = request[locks[w].token]
    BY <1>4, <1>5 DEF TypeOK
  <1> QED
    BY <1>2, <1>3, <1>6 DEF IsRunning

(* Admitting a fresh request touches the lock of its own wallet only. *)
LEMMA AdmissionKeepsLocks ==
    ASSUME TypeOK, NoLockIsLeaked, NEW r \in Request, NEW v \in Wallet,
           request[r] = Fresh, NEW q, NEW lock,
           request' = [request EXCEPT ![r] = q],
           locks' = [locks EXCEPT ![v] = lock],
           \/ lock = NoLock
           \/ /\ lock = [token |-> r, startedAt |-> now]
              /\ q.stage \in Running /\ q.wallet = v /\ q.startedAt = now
    PROVE  NoLockIsLeaked'
  <1> SUFFICES ASSUME NEW w \in Wallet, locks'[w] # NoLock
               PROVE  /\ IsRunning(locks[w].token)'
                      /\ request'[locks'[w].token].wallet = w
                      /\ request'[locks'[w].token].startedAt = locks'[w].startedAt
    BY DEF NoLockIsLeaked, IsRunning
  <1>1. CASE w = v
    <2>1. locks'[w] = lock /\ request'[r] = q
      BY <1>1 DEF TypeOK
    <2> QED
      BY <1>1, <2>1 DEF IsRunning
  <1>2. CASE w # v
    <2>1. locks'[w] = locks[w] /\ locks[w] # NoLock
      BY <1>2 DEF TypeOK
    <2>2. /\ IsRunning(locks[w].token)
          /\ request[locks[w].token].wallet = w
          /\ request[locks[w].token].startedAt = locks[w].startedAt
      BY <2>1 DEF NoLockIsLeaked
    <2>3. locks[w].token \in Request
      BY <2>1 DEF TypeOK, Lock
    <2>4. request'[locks[w].token] = request[locks[w].token]
      BY <2>2, <2>3 DEF TypeOK, IsRunning, Fresh
    <2> QED
      BY <2>1, <2>2, <2>4 DEF IsRunning
  <1> QED
    BY <1>1, <1>2

LEMMA GoesKeepsLocks ==
    ASSUME TypeOK, NoLockIsLeaked, NEW r \in Request, IsRunning(r),
           NEW stage \in Running, NEW left, NEW at, Goes(r, stage, left, at)
    PROVE  NoLockIsLeaked'
  <1>1. \A s \in Request :
            IsRunning(s) => /\ IsRunning(s)'
                            /\ request'[s].wallet = request[s].wallet
                            /\ request'[s].startedAt = request[s].startedAt
    BY DEF Goes, TypeOK, IsRunning
  <1>2. \A w \in Wallet : locks[w] # NoLock => locks[w].token \in Request
    BY DEF TypeOK, Lock
  <1> QED
    BY <1>1, <1>2 DEF Goes, NoLockIsLeaked, IsRunning

LEMMA LocksStep ==
    ASSUME TypeOK, NoLockIsLeaked, [Next]_vars
    PROVE  NoLockIsLeaked'
  <1>1. ASSUME NEW r \in Request, NEW w \in Wallet, NEW kind \in Kind,
               NEW n \in 1..Attempts, Free(r, w), Start(r, w, kind, n)
        PROVE  NoLockIsLeaked'
    <2> DEFINE q == [stage |-> Opening(kind), wallet |-> w, kind |-> kind,
                     startedAt |-> now, left |-> n, at |-> now]
    <2>1. q.stage \in Running /\ q.wallet = w /\ q.startedAt = now
      BY DEF Opening
    <2>2. /\ request[r] = Fresh
          /\ request' = [request EXCEPT ![r] = q]
          /\ locks' = [locks EXCEPT ![w] = [token |-> r, startedAt |-> now]]
      BY <1>1 DEF Free, Start
    <2> HIDE DEF q
    <2> QED
      BY <2>1, <2>2, AdmissionKeepsLocks
  <1>2. ASSUME NEW r \in Request, NEW w \in Wallet, Limited(r, w)
        PROVE  NoLockIsLeaked'
    BY <1>2, AdmissionKeepsLocks DEF Limited, Free
  <1>3. ASSUME NEW w \in Wallet, RefuseForQuota(w)
        PROVE  NoLockIsLeaked'
    <2>1. \A v \in Wallet : locks'[v] = NoLock \/ locks'[v] = locks[v]
      BY <1>3 DEF RefuseForQuota, TypeOK
    <2> QED
      BY <1>3, <2>1 DEF RefuseForQuota, NoLockIsLeaked, IsRunning
  <1>4. ASSUME NEW r \in Request, IsRunning(r), Settle(r)
        PROVE  NoLockIsLeaked'
    BY <1>4, SettleKeepsLocks DEF Settle
  <1>5. ASSUME NEW r \in Request, Work(r)
        PROVE  NoLockIsLeaked'
    <2>1. CASE Selected(r)
      BY <2>1, GoesKeepsLocks DEF Selected, IsRunning
    <2>2. CASE Unsuitable(r)
      <3>1. (UsedToday(request[r].wallet) > 0) \in BOOLEAN
        OBVIOUS
      <3>2. IsRunning(r)
        BY <2>2 DEF Unsuitable, IsRunning
      <3> QED
        BY <2>2, <3>1, <3>2, SettleKeepsLocks DEF Unsuitable
    <2>3. CASE Serve(r) \/ Fail(r)
      BY <2>3, <1>4 DEF Serve, Fail, Calling, IsRunning
    <2>4. CASE Retry(r)
      BY <2>4, GoesKeepsLocks DEF Retry, Mode, Calling, IsRunning
    <2>5. CASE Fallback(r)
      BY <2>5, GoesKeepsLocks DEF Fallback, IsRunning
    <2> QED
      BY <1>5, <2>1, <2>2, <2>3, <2>4, <2>5 DEF Work
  <1>6. CASE Tick
    BY <1>6 DEF Tick, NoLockIsLeaked, IsRunning
  <1>7. CASE Restart
    BY <1>7 DEF Restart, NoLockIsLeaked
  <1>8. CASE UNCHANGED vars
    BY <1>8 DEF vars, NoLockIsLeaked, IsRunning
  <1>9. ASSUME NEW r \in Request, NEW w \in Wallet,
               \/ \E kind \in {"generate", "repair"} : Post(r, w, kind)
               \/ PostTask(r, w)
        PROVE  NoLockIsLeaked'
    BY <1>1, <1>9, ConstantsAssumption DEF Post, PostTask, Kind
  <1> QED
    BY <1>2, <1>3, <1>4, <1>5, <1>6, <1>7, <1>8, <1>9 DEF Next, Admit, Cancel

LEMMA InitNoLocks == Init => NoLockIsLeaked
  BY DEF Init, NoLockIsLeaked

(* No lock survives its request, however the request ended: a wallet is      *)
(* never refused for a request that is over.                                 *)
THEOREM LocksAreNotLeaked == Spec => []NoLockIsLeaked
  <1>1. TypeOK /\ NoLockIsLeaked /\ [Next]_vars => (TypeOK /\ NoLockIsLeaked)'
    BY TypeStep, LocksStep
  <1> QED
    BY InitTyped, InitNoLocks, <1>1, PTL DEF Spec

------------------------------------------------------------------------------
(* A lock that still holds is freed by the end of its own request only. *)

LEMMA OwnLockStep ==
    ASSUME TypeOK, NoLockIsLeaked, [Next]_vars,
           NEW w \in Wallet, NEW r \in Request,
           Held(w), locks[w].token = r, locks'[w] # locks[w]
    PROVE  ~IsRunning(r)'
  <1>1. ASSUME NEW s \in Request, IsRunning(s), NEW back,
               request' = [request EXCEPT ![s] =
                   Ended(request[s].wallet, request[s].startedAt, back)],
               Release(request[s].wallet, s)
        PROVE  ~IsRunning(r)'
    <2>1. request[s].wallet \in Wallet
      BY <1>1, RunningIsAdmitted DEF Admitted
    <2>2. s = r
      BY <1>1, <2>1 DEF Release, TypeOK
    <2> QED
      BY <1>1, <2>2 DEF Ended, IsRunning, TypeOK
  <1>2. ASSUME NEW s \in Request, NEW v \in Wallet,
               NEW kind \in Kind, NEW n \in 1..Attempts,
               Free(s, v), Start(s, v, kind, n)
        PROVE  FALSE
    BY <1>2 DEF Free, Start, TypeOK
  <1>3. ASSUME NEW s \in Request, NEW v \in Wallet, Limited(s, v)
        PROVE  FALSE
    BY <1>3 DEF Free, Limited, TypeOK
  <1>4. ASSUME NEW v \in Wallet, RefuseForQuota(v)
        PROVE  FALSE
    BY <1>4 DEF RefuseForQuota, TypeOK
  <1>5. ASSUME NEW s \in Request, Unsuitable(s)
        PROVE  ~IsRunning(r)'
    BY <1>1, <1>5 DEF Unsuitable, IsRunning
  <1>6. ASSUME NEW s \in Request, IsRunning(s), Settle(s)
        PROVE  ~IsRunning(r)'
    BY <1>1, <1>6 DEF Settle
  <1>7. ASSUME NEW s \in Request,
               Selected(s) \/ Retry(s) \/ Fallback(s)
        PROVE  FALSE
    BY <1>7 DEF Selected, Retry, Fallback, Goes
  <1>8. CASE Restart
    BY <1>8 DEF Restart, Ended, IsRunning, TypeOK
  <1>9. CASE Tick \/ UNCHANGED vars
    BY <1>9 DEF Tick, vars
  <1>10. ASSUME NEW s \in Request, NEW v \in Wallet,
                \/ \E kind \in {"generate", "repair"} : Post(s, v, kind)
                \/ PostTask(s, v)
         PROVE  FALSE
    BY <1>2, <1>10, ConstantsAssumption DEF Post, PostTask, Kind
  <1>11. ASSUME NEW s \in Request, Serve(s) \/ Fail(s) \/ Cancel(s)
         PROVE  ~IsRunning(r)'
    BY <1>6, <1>11 DEF Serve, Fail, Cancel, Calling, IsRunning
  <1> QED
    BY <1>3, <1>4, <1>5, <1>7, <1>8, <1>9, <1>10, <1>11
    DEF Next, Admit, Work

(* A request that comes late, after its lock expired and another request     *)
(* took the slot, frees nothing when it ends.                                *)
THEOREM LateReleaseFreesNothing == Spec => OnlyItsOwnLock
  <1> DEFINE Step == \A w \in Wallet, r \in Request :
                Held(w) /\ locks[w].token = r /\ locks'[w] # locks[w] =>
                    ~IsRunning(r)'
  <1>1. TypeOK /\ NoLockIsLeaked /\ [Next]_vars => [Step]_vars
    BY OwnLockStep
  <1> QED
    BY <1>1, Typed, LocksAreNotLeaked, PTL DEF Spec, OnlyItsOwnLock

------------------------------------------------------------------------------
(* One in flight.  A running request is within the time its attempts allow   *)
(* it, so, when the lock is sized for that time, it still holds the lock.    *)

SelectionTime(kind) == IF kind = "repair" THEN 0 ELSE JevTimeout

(* Where a running request stands on the clock. *)
InTime(r) ==
    LET q == request[r] IN
    /\ q.startedAt <= now
    /\ now <= Deadline(r)
    /\ q.stage = "selecting" => q.kind # "repair" /\ q.at = q.startedAt
    /\ q.stage # "selecting" =>
          q.at + q.left * AttemptTime(q.kind)
              <= q.startedAt + SelectionTime(q.kind)
                     + Attempts * AttemptTime(q.kind)
    /\ q.stage \in {"thinking", "fallback"} =>
          q.kind = "repair" /\ RepairThinking

HoldsItsLock(r) ==
    locks[request[r].wallet] =
        [token |-> r, startedAt |-> request[r].startedAt]

FlightInv ==
    /\ TypeOK
    /\ \A r \in Request : IsRunning(r) => InTime(r) /\ HoldsItsLock(r)

(* The time left to the call in progress is part of that of the attempt. *)
LEMMA DeadlineInAttempt ==
    ASSUME TypeOK, NEW r \in Request, IsRunning(r), InTime(r),
           request[r].stage # "selecting"
    PROVE  now <= request[r].at + AttemptTime(request[r].kind)
  <1>1. request[r] \in Admitted
    BY RunningIsAdmitted
  <1> QED
    BY <1>1, ConstantsAssumption
    DEF InTime, Deadline, AttemptTime, Admitted, IsRunning, TypeOK

(* A lock sized by LockOutlivesRequests is held for as long as its request   *)
(* runs.                                                                     *)
LEMMA RunningIsHeld ==
    ASSUME TypeOK, LockOutlivesRequests, NEW r \in Request, IsRunning(r),
           InTime(r), HoldsItsLock(r)
    PROVE  Held(request[r].wallet)
  <1> DEFINE q == request[r]
             t == AttemptTime(q.kind)
  <1>1. q \in Admitted /\ now \in Nat
    BY RunningIsAdmitted DEF TypeOK
  <1>2. q.left \in Nat \ {0} /\ q.left <= Attempts /\ q.at \in Nat
        /\ q.startedAt \in Nat /\ q.kind \in Kind
    BY <1>1, ConstantsAssumption DEF Admitted
  <1>3. t \in Nat /\ q.left * t \in Nat /\ (q.left - 1) * t \in Nat
        /\ Attempts * t \in Nat /\ (q.left - 1) * t + t = q.left * t
    BY <1>2, AttemptTimeNat, TimesNat, TimesLess, ConstantsAssumption
  <1>4. SelectionTime(q.kind) + Attempts * t <= LockTtl
        /\ SelectionTime(q.kind) \in Nat
    BY <1>2, ConstantsAssumption DEF LockOutlivesRequests, SelectionTime
  <1>5. now <= q.startedAt + SelectionTime(q.kind) + Attempts * t
    <2>1. CASE q.stage = "selecting"
      BY <1>1, <1>2, <1>3, <2>1, ConstantsAssumption
      DEF InTime, Deadline, SelectionTime
    <2>2. CASE q.stage # "selecting"
      <3>1. now <= q.at + t
        BY <2>2, DeadlineInAttempt
      <3>2. q.at + q.left * t <= q.startedAt + SelectionTime(q.kind) + Attempts * t
        BY <2>2 DEF InTime
      <3> HIDE DEF q, t
      <3> QED
        BY <1>1, <1>2, <1>3, <1>4, <3>1, <3>2, ConstantsAssumption
    <2> QED
      BY <2>1, <2>2
  <1>6. now - q.startedAt <= LockTtl
    <2> HIDE DEF t
    <2> QED
      BY <1>1, <1>2, <1>3, <1>4, <1>5, LockTtlNat, ConstantsAssumption
  <1>7. locks[q.wallet] # NoLock
    BY ConstantsAssumption DEF HoldsItsLock, NoLock
  <1> QED
    BY <1>6, <1>7 DEF Held, HoldsItsLock

(* What the clock says of a request depends on its own record only. *)
LEMMA InTimeUnchanged ==
    ASSUME NEW r \in Request, InTime(r), request'[r] = request[r], now' = now
    PROVE  InTime(r)'
  BY DEF InTime, Deadline, AttemptTime

LEMMA StartInTime ==
    ASSUME TypeOK, NEW r \in Request, NEW w \in Wallet, NEW kind \in Kind,
           NEW n \in 1..Attempts, Start(r, w, kind, n)
    PROVE  InTime(r)'
  <1>1. request'[r] = [stage |-> Opening(kind), wallet |-> w, kind |-> kind,
                       startedAt |-> now, left |-> n, at |-> now]
        /\ now' = now /\ now \in Nat
    BY DEF Start, TypeOK
  <1>2. AttemptTime(kind) \in Nat /\ n \in Nat /\ n <= Attempts
    BY AttemptTimeNat, ConstantsAssumption
  <1>3. n * AttemptTime(kind) <= Attempts * AttemptTime(kind)
        /\ n * AttemptTime(kind) \in Nat
        /\ Attempts * AttemptTime(kind) \in Nat
    BY <1>2, TimesMonotonic, TimesNat, ConstantsAssumption
  <1>4. request'[r].stage # "selecting" =>
          now + n * AttemptTime(kind)
              <= now + SelectionTime(kind) + Attempts * AttemptTime(kind)
    BY <1>1, <1>3, ConstantsAssumption DEF SelectionTime
  <1>5. Opening(kind) = "selecting" <=> kind # "repair"
    BY DEF Opening
  <1>6. Opening(kind) = "thinking" => kind = "repair" /\ RepairThinking
    BY DEF Opening
  <1>7. Opening(kind) # "fallback" /\ Opening(kind) \in Running
    BY DEF Opening
  <1>8. now <= Deadline(r)'
    BY <1>1, <1>7, ConstantsAssumption DEF Deadline
  <1> QED
    BY <1>1, <1>4, <1>5, <1>6, <1>7, <1>8 DEF InTime

LEMMA SelectedInTime ==
    ASSUME TypeOK, NEW r \in Request, InTime(r), Selected(r)
    PROVE  InTime(r)'
  <1> DEFINE q == request[r]
             t == AttemptTime(q.kind)
  <1>1. q \in Admitted /\ now \in Nat
    BY RunningIsAdmitted DEF Selected, IsRunning, TypeOK
  <1>2. request'[r] = [stage |-> "plain", wallet |-> q.wallet,
                       kind |-> q.kind, startedAt |-> q.startedAt,
                       left |-> q.left, at |-> now]
        /\ now' = now
    BY DEF Selected, Goes, TypeOK
  <1>3. q.kind # "repair" /\ q.at = q.startedAt /\ q.startedAt <= now
        /\ now <= q.startedAt + JevTimeout
    BY DEF InTime, Deadline, Selected
  <1>4. q.left \in Nat /\ q.left <= Attempts /\ q.startedAt \in Nat
    BY <1>1, ConstantsAssumption DEF Admitted
  <1>5. t \in Nat /\ q.left * t <= Attempts * t
        /\ q.left * t \in Nat /\ Attempts * t \in Nat
    BY <1>4, AttemptTimeNat, TimesMonotonic, TimesNat, ConstantsAssumption
  <1>6. now + q.left * t <= q.startedAt + SelectionTime(q.kind) + Attempts * t
    <2> HIDE DEF t
    <2> QED
      BY <1>1, <1>3, <1>4, <1>5, ConstantsAssumption DEF SelectionTime
  <1>7. now <= Deadline(r)'
    BY <1>1, <1>2, ConstantsAssumption DEF Deadline
  <1> QED
    BY <1>1, <1>2, <1>3, <1>6, <1>7 DEF InTime

LEMMA RetryInTime ==
    ASSUME TypeOK, NEW r \in Request, InTime(r), Retry(r)
    PROVE  InTime(r)'
  <1> DEFINE q == request[r]
             t == AttemptTime(q.kind)
  <1>1. q \in Admitted /\ now \in Nat /\ IsRunning(r)
        /\ q.stage # "selecting" /\ q.stage \in Running
    BY RunningIsAdmitted DEF Retry, Calling, IsRunning, TypeOK
  <1>2. request'[r] = [stage |-> Mode(r), wallet |-> q.wallet,
                       kind |-> q.kind, startedAt |-> q.startedAt,
                       left |-> q.left - 1, at |-> now]
        /\ now' = now
    BY DEF Retry, Goes, TypeOK
  <1>3. q.left \in Nat \ {0} /\ q.startedAt \in Nat /\ q.at \in Nat
        /\ q.startedAt <= now /\ q.kind \in Kind
    BY <1>1, ConstantsAssumption DEF Admitted, InTime
  <1>4. t \in Nat /\ q.left * t \in Nat /\ (q.left - 1) * t \in Nat
        /\ Attempts * t \in Nat /\ (q.left - 1) * t + t = q.left * t
    <2>1. t \in Nat /\ q.left - 1 \in Nat
      BY <1>3, AttemptTimeNat
    <2> HIDE DEF q, t
    <2> QED
      BY <1>3, <2>1, TimesLess, TimesNat, ConstantsAssumption
  <1>5. now <= q.at + t
    BY <1>1, DeadlineInAttempt
  <1>6. q.at + q.left * t <= q.startedAt + SelectionTime(q.kind) + Attempts * t
    BY <1>1 DEF InTime
  <1>7. now + (q.left - 1) * t
            <= q.startedAt + SelectionTime(q.kind) + Attempts * t
    <2>1. SelectionTime(q.kind) \in Nat
      BY ConstantsAssumption DEF SelectionTime
    <2> HIDE DEF q, t
    <2> QED
      BY <1>1, <1>3, <1>4, <1>5, <1>6, <2>1
  <1>8. Mode(r) \in {"plain", "thinking"}
        /\ (Mode(r) = "thinking" => q.kind = "repair" /\ RepairThinking)
    BY <1>1 DEF Mode, InTime
  <1>9. now <= Deadline(r)'
    BY <1>1, <1>2, <1>8, ConstantsAssumption DEF Deadline
  <1> QED
    BY <1>1, <1>2, <1>3, <1>7, <1>8, <1>9 DEF InTime

LEMMA FallbackInTime ==
    ASSUME TypeOK, NEW r \in Request, InTime(r), Fallback(r)
    PROVE  InTime(r)'
  <1> DEFINE q == request[r]
  <1>1. q \in Admitted /\ now \in Nat /\ q.stage = "thinking"
    BY RunningIsAdmitted DEF Fallback, IsRunning, TypeOK
  <1>2. request'[r] = [stage |-> "fallback", wallet |-> q.wallet,
                       kind |-> q.kind, startedAt |-> q.startedAt,
                       left |-> q.left, at |-> q.at]
        /\ now' = now
    BY DEF Fallback, Goes, TypeOK
  <1>3. now <= Deadline(r)'
    BY <1>1, <1>2, ConstantsAssumption DEF Deadline, Fallback, Admitted
  <1> QED
    BY <1>1, <1>2, <1>3 DEF InTime

(* A wallet whose lock holds nothing back has nothing running. *)
LEMMA FreeHasNoneRunning ==
    ASSUME LockOutlivesRequests, FlightInv, NEW w \in Wallet, ~Held(w),
           NEW r \in Request, IsRunning(r)
    PROVE  request[r].wallet # w
  BY RunningIsHeld DEF FlightInv

(* Requests of one wallet hold one lock, so they are one request. *)
LEMMA OneHolder ==
    ASSUME FlightInv, NEW r \in Request, NEW s \in Request,
           IsRunning(r), IsRunning(s), request[r].wallet = request[s].wallet
    PROVE  r = s
  <1>1. [token |-> r, startedAt |-> request[r].startedAt]
            = [token |-> s, startedAt |-> request[s].startedAt]
    BY DEF FlightInv, HoldsItsLock
  <1> QED
    BY <1>1

(* A step that ends one request and gives back its lock leaves the others    *)
(* as they were.                                                             *)
LEMMA SettleInFlight ==
    ASSUME FlightInv, TypeOK', NEW s \in Request, IsRunning(s), NEW back,
           request' = [request EXCEPT ![s] =
               Ended(request[s].wallet, request[s].startedAt, back)],
           Release(request[s].wallet, s), now' = now
    PROVE  FlightInv'
  <1> SUFFICES ASSUME NEW r \in Request, IsRunning(r)'
               PROVE  InTime(r)' /\ HoldsItsLock(r)'
    BY DEF FlightInv
  <1>1. r # s
    BY DEF Ended, IsRunning, FlightInv, TypeOK
  <1>2. request'[r] = request[r] /\ IsRunning(r)
    BY <1>1 DEF IsRunning, FlightInv, TypeOK
  <1>3. InTime(r)'
    BY <1>2, InTimeUnchanged DEF FlightInv
  <1>4. request[r].wallet # request[s].wallet
    BY <1>1, <1>2, OneHolder
  <1>5. locks'[request[r].wallet] = locks[request[r].wallet]
    BY <1>4 DEF Release, FlightInv, TypeOK
  <1>6. HoldsItsLock(r)'
    BY <1>2, <1>5 DEF HoldsItsLock, FlightInv
  <1> QED
    BY <1>3, <1>6

(* A step of one request within its time leaves the others as they were. *)
LEMMA GoesInFlight ==
    ASSUME FlightInv, TypeOK', NEW s \in Request, IsRunning(s), NEW stage,
           NEW left, NEW at, Goes(s, stage, left, at), InTime(s)'
    PROVE  FlightInv'
  <1> SUFFICES ASSUME NEW r \in Request, IsRunning(r)'
               PROVE  InTime(r)' /\ HoldsItsLock(r)'
    BY DEF FlightInv
  <1>1. CASE r = s
    BY <1>1 DEF Goes, HoldsItsLock, FlightInv, TypeOK
  <1>2. CASE r # s
    <2>1. request'[r] = request[r] /\ IsRunning(r) /\ now' = now
      BY <1>2 DEF Goes, IsRunning, FlightInv, TypeOK
    <2>2. InTime(r)'
      BY <2>1, InTimeUnchanged DEF FlightInv
    <2>3. HoldsItsLock(r)'
      BY <2>1 DEF Goes, HoldsItsLock, FlightInv
    <2> QED
      BY <2>2, <2>3
  <1> QED
    BY <1>1, <1>2

LEMMA StartInFlight ==
    ASSUME LockOutlivesRequests, FlightInv, TypeOK', NEW s \in Request,
           NEW w \in Wallet, NEW kind \in Kind, NEW n \in 1..Attempts,
           Free(s, w), Start(s, w, kind, n)
    PROVE  FlightInv'
  <1> SUFFICES ASSUME NEW r \in Request, IsRunning(r)'
               PROVE  InTime(r)' /\ HoldsItsLock(r)'
    BY DEF FlightInv
  <1>1. CASE r = s
    <2>1. InTime(r)'
      BY <1>1, StartInTime DEF FlightInv
    <2>2. HoldsItsLock(r)'
      BY <1>1 DEF Start, HoldsItsLock, FlightInv, TypeOK
    <2> QED
      BY <2>1, <2>2
  <1>2. CASE r # s
    <2>1. request'[r] = request[r] /\ IsRunning(r) /\ now' = now
      BY <1>2 DEF Start, IsRunning, FlightInv, TypeOK
    <2>2. InTime(r)'
      BY <2>1, InTimeUnchanged DEF FlightInv
    <2>3. request[r].wallet # w
      BY <2>1, FreeHasNoneRunning DEF Free
    <2>4. HoldsItsLock(r)'
      BY <2>1, <2>3 DEF Start, HoldsItsLock, FlightInv, TypeOK
    <2> QED
      BY <2>2, <2>4
  <1> QED
    BY <1>1, <1>2

(* A refusal of a wallet that has no lock leaves the running ones alone. *)
LEMMA RefusalInFlight ==
    ASSUME LockOutlivesRequests, FlightInv, TypeOK', NEW w \in Wallet,
           ~Held(w), now' = now, locks' = [locks EXCEPT ![w] = NoLock],
           \A r \in Request :
               IsRunning(r)' => IsRunning(r) /\ request'[r] = request[r]
    PROVE  FlightInv'
  <1> SUFFICES ASSUME NEW r \in Request, IsRunning(r)'
               PROVE  InTime(r)' /\ HoldsItsLock(r)'
    BY DEF FlightInv
  <1>1. request'[r] = request[r] /\ IsRunning(r)
    OBVIOUS
  <1>2. InTime(r)'
    BY <1>1, InTimeUnchanged DEF FlightInv
  <1>3. request[r].wallet # w
    BY <1>1, FreeHasNoneRunning
  <1>4. HoldsItsLock(r)'
    BY <1>1, <1>3 DEF HoldsItsLock, FlightInv, TypeOK
  <1> QED
    BY <1>2, <1>4

(* The clock stops at the deadline of every call in progress. *)
LEMMA TickInFlight ==
    ASSUME FlightInv, TypeOK', Tick
    PROVE  FlightInv'
  <1> SUFFICES ASSUME NEW r \in Request, IsRunning(r)'
               PROVE  InTime(r)' /\ HoldsItsLock(r)'
    BY DEF FlightInv
  <1>1. request' = request /\ locks' = locks /\ now' = now + 1
        /\ IsRunning(r) /\ now < Deadline(r) /\ now \in Nat
    BY DEF Tick, IsRunning, FlightInv, TypeOK
  <1>2. Deadline(r)' = Deadline(r) /\ Deadline(r) \in Nat
    <2>1. request[r] \in Admitted
      BY <1>1, RunningIsAdmitted DEF FlightInv
    <2> QED
      BY <1>1, <2>1, ConstantsAssumption
      DEF Deadline, Admitted, IsRunning, Running
  <1>3. request[r] \in Admitted /\ InTime(r)
    BY <1>1, RunningIsAdmitted DEF FlightInv
  <1>4. now' <= Deadline(r)' /\ request[r].startedAt <= now'
    BY <1>1, <1>2, <1>3 DEF InTime, Admitted
  <1>5. InTime(r)'
    BY <1>1, <1>3, <1>4 DEF InTime, AttemptTime, SelectionTime
  <1>6. HoldsItsLock(r)'
    BY <1>1 DEF HoldsItsLock, FlightInv
  <1> QED
    BY <1>5, <1>6

LEMMA FlightStep ==
    ASSUME LockOutlivesRequests, FlightInv, [Next]_vars
    PROVE  FlightInv'
  <1>1. TypeOK /\ TypeOK'
    BY TypeStep DEF FlightInv
  <1>2. ASSUME NEW s \in Request, NEW w \in Wallet,
               NEW kind \in {"generate", "repair"}, Post(s, w, kind)
        PROVE  FlightInv'
    BY <1>1, <1>2, StartInFlight DEF Post, Kind
  <1>3. ASSUME NEW s \in Request, NEW w \in Wallet, PostTask(s, w)
        PROVE  FlightInv'
    BY <1>1, <1>3, StartInFlight, ConstantsAssumption DEF PostTask, Kind
  <1>4. ASSUME NEW s \in Request, NEW w \in Wallet, Limited(s, w)
        PROVE  FlightInv'
    <2>1. \A r \in Request :
              IsRunning(r)' => IsRunning(r) /\ request'[r] = request[r]
      BY <1>1, <1>4 DEF Limited, Ended, IsRunning, TypeOK
    <2> QED
      BY <1>1, <1>4, <2>1, RefusalInFlight DEF Limited, Free
  <1>5. ASSUME NEW w \in Wallet, RefuseForQuota(w)
        PROVE  FlightInv'
    BY <1>1, <1>5, RefusalInFlight DEF RefuseForQuota, IsRunning
  <1>6. ASSUME NEW s \in Request, Work(s)
        PROVE  FlightInv'
    <2>1. CASE Selected(s)
      <3>1. IsRunning(s) /\ InTime(s)'
        BY <1>1, <2>1, SelectedInTime DEF Selected, IsRunning, FlightInv
      <3> QED
        BY <1>1, <2>1, <3>1, GoesInFlight DEF Selected
    <2>2. CASE Unsuitable(s)
      BY <1>1, <2>2, SettleInFlight DEF Unsuitable, IsRunning
    <2>3. CASE Serve(s) \/ Fail(s)
      BY <1>1, <2>3, SettleInFlight
      DEF Serve, Fail, Settle, Calling, IsRunning
    <2>4. CASE Retry(s)
      <3>1. IsRunning(s) /\ InTime(s)'
        BY <1>1, <2>4, RetryInTime DEF Retry, Calling, IsRunning, FlightInv
      <3> QED
        BY <1>1, <2>4, <3>1, GoesInFlight DEF Retry
    <2>5. CASE Fallback(s)
      <3>1. IsRunning(s) /\ InTime(s)'
        BY <1>1, <2>5, FallbackInTime DEF Fallback, IsRunning, FlightInv
      <3> QED
        BY <1>1, <2>5, <3>1, GoesInFlight DEF Fallback
    <2> QED
      BY <1>6, <2>1, <2>2, <2>3, <2>4, <2>5 DEF Work
  <1>7. ASSUME NEW s \in Request, Cancel(s)
        PROVE  FlightInv'
    BY <1>1, <1>7, SettleInFlight DEF Cancel, Settle
  <1>8. CASE Tick
    BY <1>1, <1>8, TickInFlight
  <1>9. CASE Restart
    BY <1>1, <1>9 DEF Restart, Ended, IsRunning, FlightInv
  <1>10. CASE UNCHANGED vars
    <2>1. \A r \in Request : IsRunning(r)' => InTime(r)' /\ HoldsItsLock(r)'
      BY <1>10, InTimeUnchanged
      DEF vars, FlightInv, HoldsItsLock, IsRunning
    <2> QED
      BY <1>1, <2>1 DEF FlightInv
  <1> QED
    BY <1>2, <1>3, <1>4, <1>5, <1>6, <1>7, <1>8, <1>9, <1>10 DEF Next, Admit

LEMMA InitInFlight == Init => FlightInv
  BY InitTyped DEF FlightInv, Init, IsRunning, Fresh, Running

(* With a lock sized as cad-quota.ts:180-188 asks for, a wallet never has    *)
(* two paid requests in flight, whatever the limits of the loop.  The run    *)
(* CadMeteringOverlap shows that the shipped sizing is not of this kind.     *)
THEOREM OneAtATime ==
    ASSUME LockOutlivesRequests
    PROVE  Spec => []OneInFlight
  <1>1. FlightInv /\ [Next]_vars => FlightInv'
    BY FlightStep
  <1>2. FlightInv => OneInFlight
    BY OneHolder DEF OneInFlight
  <1> QED
    BY InitInFlight, <1>1, <1>2, PTL DEF Spec

------------------------------------------------------------------------------
(* Counted rounds. *)

LEMMA DayGrows ==
    ASSUME NEW a \in Nat, NEW b \in Nat, a <= b
    PROVE  Day(a) <= Day(b)
<1>1. DayLength \in Nat /\ DayLength > 0 /\ Day(a) \in Nat /\ Day(b) \in Nat
  BY DayNat, ConstantsAssumption
<1>2. /\ DayLength * Day(a) <= a
      /\ b < DayLength * (Day(b) + 1)
  BY <1>1, SMT DEF Day
<1>3. ASSUME Day(b) + 1 <= Day(a) PROVE FALSE
  <2>1. (Day(b) + 1) * DayLength <= Day(a) * DayLength
    BY <1>1, <1>3, TimesMonotonic
  <2>2. (Day(b) + 1) * DayLength = DayLength * (Day(b) + 1) /\ Day(a) * DayLength = DayLength * Day(a)
    BY <1>1
  <2> QED
    BY <1>1, <1>2, <2>1, <2>2
<1> QED
  BY <1>1, <1>3

(* The request counts against a wallet: it was charged, and not given back. *)
Counts(req, r, w) ==
    /\ req[r] # Fresh
    /\ req[r].wallet = w
    /\ req[r].stage \in Running \/ ~req[r].refunded

ChargedOn(req, w, day) ==
    {r \in Request : Counts(req, r, w) /\ Day(req[r].startedAt) = day}

(* The counter of a wallet is that of the last day it was charged on. *)
CountOK(req, w, entry, time) ==
    /\ entry.day <= Day(time)
    /\ \A r \in Request : Counts(req, r, w) => Day(req[r].startedAt) <= entry.day
    /\ IsFiniteSet(ChargedOn(req, w, entry.day))
    /\ entry.used = Cardinality(ChargedOn(req, w, entry.day))

(* While a request waits for its selection its lock holds, so its charge is  *)
(* the last one of its wallet.                                               *)
SelectionOK ==
    \A r \in Request : request[r].stage = "selecting" =>
        /\ request[r].at = request[r].startedAt
        /\ now <= request[r].startedAt + JevTimeout
        /\ locks[request[r].wallet] = [token |-> r, startedAt |-> request[r].startedAt]
        /\ counters[request[r].wallet].day = Day(request[r].startedAt)

CountInv ==
    /\ TypeOK
    /\ SelectionOK
    /\ \A w \in Wallet \ forgotten : CountOK(request, w, counters[w], now)

LEMMA SameCount ==
    ASSUME NEW req, NEW req1, NEW w, NEW entry, NEW a \in Nat, NEW b \in Nat, a <= b,
           entry.day \in Nat,
           \A r \in Request : Counts(req1, r, w) <=> Counts(req, r, w),
           \A r \in Request : Counts(req, r, w) => req1[r].startedAt = req[r].startedAt,
           CountOK(req, w, entry, a)
    PROVE  CountOK(req1, w, entry, b)
<1>1. ChargedOn(req1, w, entry.day) = ChargedOn(req, w, entry.day)
  BY DEF ChargedOn
<1>2. Day(a) \in Nat /\ Day(b) \in Nat /\ Day(a) <= Day(b)
  BY DayNat, DayGrows
<1> QED
  BY <1>1, <1>2 DEF CountOK

LEMMA OneMore ==
    ASSUME NEW req \in [Request -> Admitted \cup Over \cup {Fresh}], NEW w, NEW entry \in Entry,
           NEW time \in Nat, NEW r \in Request, req[r] = Fresh, NEW q,
           q # Fresh, q.wallet = w, q.startedAt = time, q.stage \in Running \/ ~q.refunded,
           CountOK(req, w, entry, time)
    PROVE  CountOK([req EXCEPT ![r] = q], w,
                   [day |-> Day(time),
                    used |-> (IF entry.day = Day(time) THEN entry.used ELSE 0) + 1], time)
<1> DEFINE req1 == [req EXCEPT ![r] = q]
           today == Day(time)
           old == ChargedOn(req, w, today)
           new == ChargedOn(req1, w, today)
           used == IF entry.day = today THEN entry.used ELSE 0
<1>1. today \in Nat /\ entry.day \in Nat
  BY DayNat DEF Entry
<1>2. req1[r] = q /\ \A s \in Request : s # r => req1[s] = req[s]
  OBVIOUS
<1>3. Counts(req1, r, w) /\ ~Counts(req, r, w)
  BY <1>2 DEF Counts
<1>4. \A s \in Request : s # r => (Counts(req1, s, w) <=> Counts(req, s, w))
  BY <1>2 DEF Counts
<1>5. new = old \cup {r} /\ r \notin old
  BY <1>2, <1>3, <1>4 DEF ChargedOn
<1>6. IsFiniteSet(old) /\ used = Cardinality(old)
  <2>1. CASE entry.day = today
    BY <2>1 DEF CountOK
  <2>2. CASE entry.day # today
    <3>1. entry.day < today
      BY <1>1, <2>2 DEF CountOK
    <3>2. \A s \in Request : Counts(req, s, w) => Day(req[s].startedAt) <= entry.day
      BY DEF CountOK
    <3>3. \A s \in Request : Counts(req, s, w) => Day(req[s].startedAt) # today
      BY <1>1, <3>1, <3>2
    <3>4. old = {}
      BY <3>3 DEF ChargedOn
    <3> QED
      BY <2>2, <3>4, FS_EmptySet
  <2> QED
    BY <2>1, <2>2
<1>7. IsFiniteSet(new) /\ Cardinality(new) = used + 1
  <2> HIDE DEF old, new, used
  <2>1. /\ IsFiniteSet(old \cup {r})
        /\ Cardinality(old \cup {r}) = Cardinality(old) + 1
    BY <1>5, <1>6, FS_AddElement
  <2> QED
    BY <1>5, <1>6, <2>1
<1>8. \A s \in Request : Counts(req1, s, w) => Day(req1[s].startedAt) <= today
  <2> SUFFICES ASSUME NEW s \in Request, Counts(req1, s, w) PROVE Day(req1[s].startedAt) <= today
    OBVIOUS
  <2>1. CASE s = r
    BY <1>1, <1>2, <2>1
  <2>2. CASE s # r
    <3>1. Counts(req, s, w) /\ req1[s] = req[s]
      BY <1>2, <1>4, <2>2
    <3>2. req[s] \in Admitted \cup Over /\ req[s].startedAt \in Nat
      BY <3>1 DEF Counts, Admitted, Over
    <3>3. Day(req[s].startedAt) \in Nat
      BY <3>2, DayNat
    <3>4. Day(req[s].startedAt) <= entry.day /\ entry.day <= today
      BY <3>1 DEF CountOK
    <3> QED
      BY <1>1, <3>1, <3>3, <3>4
  <2> QED
    BY <2>1, <2>2
<1> HIDE DEF req1, today, old, new, used
<1>9. CountOK(req1, w, [day |-> today, used |-> used + 1], time)
  BY <1>1, <1>7, <1>8 DEF CountOK, new, today
<1> QED
  BY <1>9 DEF req1, today, used

LEMMA OneLess ==
    ASSUME NEW req \in [Request -> Admitted \cup Over \cup {Fresh}], NEW w, NEW entry \in Entry,
           NEW time \in Nat, NEW r \in Request, NEW q,
           Counts(req, r, w), ~Counts([req EXCEPT ![r] = q], r, w),
           Day(req[r].startedAt) = entry.day,
           CountOK(req, w, entry, time)
    PROVE  /\ entry.used > 0
           /\ CountOK([req EXCEPT ![r] = q], w, [entry EXCEPT !.used = @ - 1], time)
<1> DEFINE req1 == [req EXCEPT ![r] = q]
           old == ChargedOn(req, w, entry.day)
           new == ChargedOn(req1, w, entry.day)
           entry1 == [entry EXCEPT !.used = @ - 1]
<1>1. entry.used \in Nat /\ entry1.day = entry.day /\ entry1.used = entry.used - 1
  BY DEF Entry
<1>2. \A s \in Request : s # r => req1[s] = req[s]
  OBVIOUS
<1>3. \A s \in Request : s # r => (Counts(req1, s, w) <=> Counts(req, s, w))
  BY <1>2 DEF Counts
<1>4. new = old \ {r} /\ r \in old
  BY <1>2, <1>3 DEF ChargedOn
<1>5. IsFiniteSet(old) /\ entry.used = Cardinality(old)
  BY DEF CountOK
<1>6. IsFiniteSet(new) /\ Cardinality(new) = entry.used - 1
  <2> HIDE DEF old, new
  <2>1. /\ IsFiniteSet(old \ {r})
        /\ Cardinality(old \ {r}) = Cardinality(old) - 1
    BY <1>4, <1>5, FS_RemoveElement
  <2> QED
    BY <1>4, <1>5, <2>1
<1>7. entry.used # 0
  BY <1>4, <1>5, FS_EmptySet
<1>8. \A s \in Request : Counts(req1, s, w) => Day(req1[s].startedAt) <= entry.day
  BY <1>2, <1>3 DEF CountOK
<1>9. entry.day <= Day(time)
  BY DEF CountOK
<1> HIDE DEF req1, old, new, entry1
<1>10. CountOK(req1, w, entry1, time)
  BY <1>1, <1>6, <1>8, <1>9 DEF CountOK, new
<1> QED
  BY <1>1, <1>7, <1>10 DEF req1, entry1

(* No lock expires while its request waits for its selection. *)
SelectionFitsLock == JevTimeout <= LockTtl

LEMMA CountsTyped ==
    ASSUME TypeOK, NEW r \in Request, NEW w, Counts(request, r, w)
    PROVE  request[r] \in Admitted \cup Over /\ request[r].startedAt \in Nat /\ w \in Wallet
  BY DEF TypeOK, Counts, Admitted, Over

LEMMA SelectingHolds ==
    ASSUME SelectionFitsLock, TypeOK, SelectionOK, NEW r \in Request,
           request[r].stage = "selecting"
    PROVE  Held(request[r].wallet) /\ request[r].wallet \in Wallet
<1>1. request[r] \in Admitted
  BY RunningIsAdmitted DEF IsRunning
<1>2. request[r].wallet \in Wallet /\ request[r].startedAt \in Nat /\ now \in Nat
  BY <1>1 DEF Admitted, TypeOK
<1>3. locks[request[r].wallet].startedAt = request[r].startedAt
      /\ locks[request[r].wallet].token = r /\ now <= request[r].startedAt + JevTimeout
  <2>1. /\ locks[request[r].wallet] = [token |-> r, startedAt |-> request[r].startedAt]
        /\ now <= request[r].startedAt + JevTimeout
    BY DEF SelectionOK
  <2> QED
    BY <2>1
<1>4. locks[request[r].wallet] # NoLock
  BY <1>3, ConstantsAssumption DEF NoLock
<1>5. now - request[r].startedAt <= LockTtl
  BY <1>2, <1>3, LockTtlNat, ConstantsAssumption DEF SelectionFitsLock
<1> QED
  BY <1>2, <1>3, <1>4, <1>5 DEF Held

(* A request is admitted, and charged, when no lock of its wallet holds. *)
LEMMA AdmissionCounts ==
    ASSUME SelectionFitsLock, CountInv, TypeOK', NEW r \in Request, NEW v \in Wallet, Free(r, v),
           NEW q, NEW lock,
           q # Fresh, q.wallet = v, q.startedAt = now,
           q.stage \in Running \/ (q.stage = "over" /\ ~q.refunded),
           q.stage = "selecting" =>
               q.at = now /\ lock = [token |-> r, startedAt |-> now],
           request' = [request EXCEPT ![r] = q], Charge(v),
           locks' = [locks EXCEPT ![v] = lock], UNCHANGED <<now, forgotten>>
    PROVE  CountInv'
<1>0. /\ TypeOK /\ now \in Nat /\ request[r] = Fresh /\ ~Held(v)
      /\ request \in [Request -> Admitted \cup Over \cup {Fresh}]
      /\ counters \in [Wallet -> Entry] /\ locks \in [Wallet -> Lock \cup {NoLock}]
      /\ forgotten \in SUBSET Wallet
  BY DEF CountInv, TypeOK, Free
<1>1. counters' = [counters EXCEPT ![v] = [day |-> Day(now), used |-> UsedToday(v) + 1]]
  BY DEF Charge
<1>2. ASSUME NEW w \in Wallet \ forgotten PROVE CountOK(request', w, counters'[w], now')
  <2>1. CountOK(request, w, counters[w], now)
    BY DEF CountInv
  <2>2. CASE w = v
    <3>1. counters'[w] = [day |-> Day(now),
                          used |-> (IF counters[w].day = Day(now) THEN counters[w].used ELSE 0) + 1]
      BY <1>0, <1>1, <2>2 DEF UsedToday
    <3>2. counters[w] \in Entry
      BY <1>0
    <3>3. q.stage \in Running \/ ~q.refunded
      OBVIOUS
    <3>4. CountOK([request EXCEPT ![r] = q], w,
                  [day |-> Day(now),
                   used |-> (IF counters[w].day = Day(now) THEN counters[w].used ELSE 0) + 1], now)
      BY <1>0, <2>1, <2>2, <3>2, <3>3, OneMore
    <3>5. request' = [request EXCEPT ![r] = q] /\ now' = now
      OBVIOUS
    <3> HIDE DEF CountOK
    <3> QED
      BY <3>1, <3>4, <3>5
  <2>3. CASE w # v
    <3>1. counters'[w] = counters[w] /\ counters[w].day \in Nat
      BY <1>0, <1>1, <2>3 DEF Entry
    <3>2. \A s \in Request : Counts(request', s, w) <=> Counts(request, s, w)
      BY <1>0, <2>3 DEF Counts
    <3>3. \A s \in Request : Counts(request, s, w) => request'[s].startedAt = request[s].startedAt
      BY <1>0, <2>3 DEF Counts
    <3>4. now \in Nat /\ now <= now
      BY <1>0
    <3> HIDE DEF CountOK, Counts
    <3>5. CountOK(request', w, counters[w], now)
      BY <2>1, <3>1, <3>2, <3>3, <3>4, SameCount
    <3> QED
      BY <3>1, <3>5
  <2> QED
    BY <2>2, <2>3
<1>3. SelectionOK'
  <2> SUFFICES ASSUME NEW s \in Request, request'[s].stage = "selecting"
               PROVE  /\ request'[s].at = request'[s].startedAt
                      /\ now' <= request'[s].startedAt + JevTimeout
                      /\ locks'[request'[s].wallet] = [token |-> s, startedAt |-> request'[s].startedAt]
                      /\ counters'[request'[s].wallet].day = Day(request'[s].startedAt)
    BY DEF SelectionOK
  <2>1. CASE s = r
    <3>1. request'[s] = q
      BY <1>0, <2>1
    <3>2. locks'[v] = lock /\ counters'[v].day = Day(now)
      BY <1>0, <1>1
    <3> QED
      BY <1>0, <2>1, <3>1, <3>2, ConstantsAssumption
  <2>2. CASE s # r
    <3>1. request'[s] = request[s] /\ request[s].stage = "selecting"
      BY <1>0, <2>2
    <3>2. SelectionOK
      BY DEF CountInv
    <3>3. Held(request[s].wallet) /\ request[s].wallet \in Wallet
      BY <1>0, <3>1, <3>2, SelectingHolds
    <3>4. request[s].wallet # v
      BY <1>0, <3>3
    <3>5. /\ locks'[request[s].wallet] = locks[request[s].wallet]
          /\ counters'[request[s].wallet] = counters[request[s].wallet]
      BY <1>0, <1>1, <3>3, <3>4
    <3> QED
      BY <3>1, <3>2, <3>5 DEF SelectionOK
  <2> QED
    BY <2>1, <2>2
<1> QED
  BY <1>0, <1>2, <1>3 DEF CountInv

LEMMA StartCounts ==
    ASSUME SelectionFitsLock, CountInv, TypeOK', NEW r \in Request, NEW w \in Wallet,
           NEW kind \in Kind, NEW n \in 1..Attempts, Free(r, w), Start(r, w, kind, n)
    PROVE  CountInv'
<1> DEFINE q == [stage |-> Opening(kind), wallet |-> w, kind |-> kind,
                 startedAt |-> now, left |-> n, at |-> now]
           lock == [token |-> r, startedAt |-> now]
<1>1. /\ request' = [request EXCEPT ![r] = q] /\ Charge(w)
      /\ locks' = [locks EXCEPT ![w] = lock] /\ UNCHANGED <<now, forgotten>>
  BY DEF Start
<1>2. q.stage \in Running /\ q.wallet = w /\ q.startedAt = now /\ q.at = now /\ q # Fresh
  BY DEF Opening, Fresh
<1>3. lock = [token |-> r, startedAt |-> now]
  OBVIOUS
<1> HIDE DEF q, lock
<1> QED
  BY <1>1, <1>2, <1>3, AdmissionCounts

LEMMA LimitedCounts ==
    ASSUME SelectionFitsLock, CountInv, TypeOK', NEW r \in Request, NEW w \in Wallet, Limited(r, w)
    PROVE  CountInv'
<1> DEFINE q == Ended(w, now, FALSE)
<1>1. /\ request' = [request EXCEPT ![r] = q] /\ Charge(w) /\ Free(r, w)
      /\ locks' = [locks EXCEPT ![w] = NoLock] /\ UNCHANGED <<now, forgotten>>
  BY DEF Limited
<1>2. q.stage = "over" /\ q.wallet = w /\ q.startedAt = now /\ ~q.refunded /\ q # Fresh
  BY DEF Ended, Fresh
<1> HIDE DEF q
<1> QED
  BY <1>1, <1>2, AdmissionCounts

(* What changes no charge, and no lock or counter of a selecting request. *)
LEMMA NothingCounted ==
    ASSUME CountInv, TypeOK', UNCHANGED <<counters, forgotten>>, now <= now',
           \A r \in Request, w \in Wallet : Counts(request', r, w) <=> Counts(request, r, w),
           \A r \in Request : request'[r].startedAt = request[r].startedAt
                              \/ \A w \in Wallet : ~Counts(request, r, w),
           SelectionOK'
    PROVE  CountInv'
<1>0. /\ TypeOK /\ now \in Nat /\ now' \in Nat /\ counters \in [Wallet -> Entry]
      /\ forgotten \in SUBSET Wallet
  BY DEF CountInv, TypeOK
<1>1. ASSUME NEW w \in Wallet \ forgotten PROVE CountOK(request', w, counters[w], now')
  <2>1. CountOK(request, w, counters[w], now) /\ counters[w].day \in Nat
    BY <1>0 DEF CountInv, Entry
  <2>2. \A r \in Request : Counts(request', r, w) <=> Counts(request, r, w)
    OBVIOUS
  <2>3. \A r \in Request : Counts(request, r, w) => request'[r].startedAt = request[r].startedAt
    OBVIOUS
  <2> QED
    BY <1>0, <2>1, <2>2, <2>3, SameCount
<1> QED
  BY <1>0, <1>1 DEF CountInv

(* A running request whose charge stands goes on or ends with it. *)
LEMMA OneKeepsCounts ==
    ASSUME CountInv, TypeOK', NEW r \in Request, IsRunning(r), NEW q,
           q.wallet = request[r].wallet, q.startedAt = request[r].startedAt,
           q.stage # "selecting", q # Fresh, q.stage \in Running \/ ~q.refunded,
           request' = [request EXCEPT ![r] = q],
           locks' = locks \/ Release(request[r].wallet, r),
           UNCHANGED <<now, counters, forgotten>>
    PROVE  CountInv'
<1>0. /\ TypeOK /\ now \in Nat /\ request \in [Request -> Admitted \cup Over \cup {Fresh}]
      /\ locks \in [Wallet -> Lock \cup {NoLock}] /\ SelectionOK
  BY DEF CountInv, TypeOK
<1>1. request[r] \in Admitted
  BY <1>0, RunningIsAdmitted
<1>2. request'[r] = q /\ \A s \in Request : s # r => request'[s] = request[s]
  BY <1>0
<1>3. \A w \in Wallet : Counts(request', r, w) <=> Counts(request, r, w)
  BY <1>1, <1>2 DEF Counts, Admitted, Fresh
<1>4. \A s \in Request, w \in Wallet : Counts(request', s, w) <=> Counts(request, s, w)
  <2> SUFFICES ASSUME NEW s \in Request, NEW w \in Wallet
               PROVE  Counts(request', s, w) <=> Counts(request, s, w)
    OBVIOUS
  <2>1. CASE s = r
    BY <1>3, <2>1
  <2>2. CASE s # r
    BY <1>2, <2>2 DEF Counts
  <2> QED
    BY <2>1, <2>2
<1>5. \A s \in Request : request'[s].startedAt = request[s].startedAt
  BY <1>2
<1>6. SelectionOK'
  <2> SUFFICES ASSUME NEW s \in Request, request'[s].stage = "selecting"
               PROVE  /\ request'[s].at = request'[s].startedAt
                      /\ now' <= request'[s].startedAt + JevTimeout
                      /\ locks'[request'[s].wallet] = [token |-> s, startedAt |-> request'[s].startedAt]
                      /\ counters'[request'[s].wallet].day = Day(request'[s].startedAt)
    BY DEF SelectionOK
  <2>1. s # r /\ request'[s] = request[s]
    BY <1>2
  <2>2. locks[request[s].wallet] = [token |-> s, startedAt |-> request[s].startedAt]
    BY <1>0, <2>1 DEF SelectionOK
  <2>3. locks[request[s].wallet].token = s
    BY <2>2
  <2>4. request[s].wallet \in Wallet
    BY <1>0, <2>1, RunningIsAdmitted DEF IsRunning, Admitted
  <2>5. locks'[request[s].wallet] = locks[request[s].wallet]
    BY <1>0, <2>1, <2>3, <2>4 DEF Release
  <2> QED
    BY <1>0, <2>1, <2>5 DEF SelectionOK
<1>7. now <= now' /\ counters' = counters /\ forgotten' = forgotten
  BY <1>0
<1> HIDE DEF Counts, SelectionOK
<1> QED
  BY <1>4, <1>5, <1>6, <1>7, NothingCounted

LEMMA SettleCounts ==
    ASSUME CountInv, TypeOK', NEW r \in Request, IsRunning(r), Settle(r)
    PROVE  CountInv'
<1> DEFINE q == Ended(request[r].wallet, request[r].startedAt, FALSE)
<1>1. /\ request' = [request EXCEPT ![r] = q] /\ Release(request[r].wallet, r)
      /\ UNCHANGED <<now, counters, forgotten>>
  BY DEF Settle
<1>2. /\ q.wallet = request[r].wallet /\ q.startedAt = request[r].startedAt
      /\ q.stage # "selecting" /\ q # Fresh /\ ~q.refunded
  BY DEF Ended, Fresh
<1> HIDE DEF q
<1> QED
  BY <1>1, <1>2, OneKeepsCounts

LEMMA GoesCounts ==
    ASSUME CountInv, TypeOK', NEW r \in Request, IsRunning(r),
           NEW stage \in Running \ {"selecting"}, NEW left, NEW at, Goes(r, stage, left, at)
    PROVE  CountInv'
<1> DEFINE q == [stage |-> stage, wallet |-> request[r].wallet, kind |-> request[r].kind,
                 startedAt |-> request[r].startedAt, left |-> left, at |-> at]
<1>1. request' = [request EXCEPT ![r] = q] /\ UNCHANGED <<now, locks, counters, forgotten>>
  BY DEF Goes
<1>2. /\ q.wallet = request[r].wallet /\ q.startedAt = request[r].startedAt
      /\ q.stage # "selecting" /\ q # Fresh /\ q.stage \in Running
  BY DEF Fresh
<1> HIDE DEF q
<1> QED
  BY <1>1, <1>2, OneKeepsCounts

(* A refusal gives the unit back only within the day it was charged on. *)
LEMMA UnsuitableCounts ==
    ASSUME SelectionFitsLock, CountInv, TypeOK', NEW r \in Request, Unsuitable(r)
    PROVE  CountInv'
<1> DEFINE v == request[r].wallet
           back == UsedToday(v) > 0
           q == Ended(v, request[r].startedAt, back)
<1>0. /\ TypeOK /\ SelectionOK /\ now \in Nat
      /\ request \in [Request -> Admitted \cup Over \cup {Fresh}]
      /\ counters \in [Wallet -> Entry] /\ locks \in [Wallet -> Lock \cup {NoLock}]
      /\ forgotten \in SUBSET Wallet
  BY DEF CountInv, TypeOK
<1>1. /\ request[r].stage = "selecting" /\ request' = [request EXCEPT ![r] = q]
      /\ Refund(v) /\ Release(v, r) /\ UNCHANGED <<now, forgotten>>
  BY DEF Unsuitable
<1>2. request[r] \in Admitted /\ v \in Wallet /\ request[r].startedAt \in Nat
  <2>1. request[r] \in Admitted
    BY <1>0, <1>1, RunningIsAdmitted DEF IsRunning
  <2> QED
    BY <2>1 DEF Admitted
<1>3. counters[v].day = Day(request[r].startedAt)
  BY <1>0, <1>1 DEF SelectionOK
<1>4. /\ q.stage = "over" /\ q.wallet = v /\ q.startedAt = request[r].startedAt
      /\ q.refunded = back /\ q # Fresh
  BY DEF Ended, Fresh
<1> HIDE DEF q
<1>5. request'[r] = q /\ \A s \in Request : s # r => request'[s] = request[s]
  BY <1>0, <1>1
<1>6. Counts(request, r, v) /\ \A w : Counts(request, r, w) => w = v
  BY <1>1 DEF Counts, Fresh
<1>7. counters' = IF back THEN [counters EXCEPT ![v] = [counters[v] EXCEPT !.used = @ - 1]]
                          ELSE counters
  BY <1>0, <1>1, <1>2 DEF Refund, Entry
<1>8. ASSUME NEW w \in Wallet \ forgotten PROVE CountOK(request', w, counters'[w], now)
  <2>1. CountOK(request, w, counters[w], now) /\ counters[w] \in Entry /\ counters[w].day \in Nat
    BY <1>0 DEF CountInv, Entry
  <2>2. CASE w = v /\ back
    <3>1. ~Counts([request EXCEPT ![r] = q], r, v)
      BY <1>4, <1>5, <1>1, <2>2 DEF Counts
    <3>2. CountOK([request EXCEPT ![r] = q], v, [counters[v] EXCEPT !.used = @ - 1], now)
      BY <1>0, <1>3, <1>6, <2>1, <2>2, <3>1, OneLess
    <3>3. counters'[v] = [counters[v] EXCEPT !.used = @ - 1]
      BY <1>0, <1>2, <1>7, <2>2
    <3> HIDE DEF CountOK, v
    <3> QED
      BY <1>1, <2>2, <3>2, <3>3
  <2>3. CASE ~(w = v /\ back)
    <3>1. counters'[w] = counters[w]
      BY <1>0, <1>7, <2>3
    <3>2. \A s \in Request : Counts(request', s, w) <=> Counts(request, s, w)
      <4> SUFFICES ASSUME NEW s \in Request
                   PROVE  Counts(request', s, w) <=> Counts(request, s, w)
        OBVIOUS
      <4>1. CASE s # r
        BY <1>5, <4>1 DEF Counts
      <4>2. CASE s = r /\ w # v
        BY <1>4, <1>5, <1>6, <4>2 DEF Counts
      <4>3. CASE s = r /\ w = v /\ ~back
        <5>1. request'[s] = q /\ ~q.refunded /\ q.wallet = w /\ q # Fresh
          BY <1>4, <1>5, <4>3
        <5>2. Counts(request', s, w)
          BY <5>1 DEF Counts
        <5> QED
          BY <1>6, <4>3, <5>2
      <4> QED
        BY <2>3, <4>1, <4>2, <4>3
    <3>3. \A s \in Request : request'[s].startedAt = request[s].startedAt
      BY <1>4, <1>5
    <3>4. now <= now
      BY <1>0
    <3> HIDE DEF CountOK, Counts
    <3>5. CountOK(request', w, counters[w], now)
      BY <1>0, <2>1, <3>2, <3>3, <3>4, SameCount
    <3> QED
      BY <3>1, <3>5
  <2> QED
    BY <2>2, <2>3
<1>9. SelectionOK'
  <2> SUFFICES ASSUME NEW s \in Request, request'[s].stage = "selecting"
               PROVE  /\ request'[s].at = request'[s].startedAt
                      /\ now' <= request'[s].startedAt + JevTimeout
                      /\ locks'[request'[s].wallet] = [token |-> s, startedAt |-> request'[s].startedAt]
                      /\ counters'[request'[s].wallet].day = Day(request'[s].startedAt)
    BY DEF SelectionOK
  <2>1. s # r /\ request'[s] = request[s]
    BY <1>4, <1>5
  <2>2. /\ locks[request[s].wallet] = [token |-> s, startedAt |-> request[s].startedAt]
        /\ locks[v] = [token |-> r, startedAt |-> request[r].startedAt]
    BY <1>0, <1>1, <2>1 DEF SelectionOK
  <2>3. locks[request[s].wallet].token = s /\ locks[v].token = r
    BY <2>2
  <2>4. request[s].wallet \in Wallet
    BY <1>0, <2>1, RunningIsAdmitted DEF IsRunning, Admitted
  <2>5. request[s].wallet # v
    BY <2>1, <2>3
  <2>6. /\ locks'[request[s].wallet] = locks[request[s].wallet]
        /\ counters'[request[s].wallet] = counters[request[s].wallet]
    BY <1>0, <1>1, <1>2, <1>7, <2>4, <2>5 DEF Release
  <2> QED
    BY <1>0, <1>1, <2>1, <2>6 DEF SelectionOK
<1> QED
  BY <1>0, <1>1, <1>8, <1>9 DEF CountInv

LEMMA RefusalCounts ==
    ASSUME SelectionFitsLock, CountInv, TypeOK', NEW w \in Wallet, RefuseForQuota(w)
    PROVE  CountInv'
<1>0. /\ TypeOK /\ SelectionOK /\ now \in Nat /\ locks \in [Wallet -> Lock \cup {NoLock}]
      /\ request' = request /\ now' = now /\ counters' = counters /\ forgotten' = forgotten
      /\ ~Held(w) /\ locks' = [locks EXCEPT ![w] = NoLock]
  BY DEF CountInv, TypeOK, RefuseForQuota
<1>1. \A s \in Request : request[s].stage = "selecting" =>
          request[s].wallet # w /\ request[s].wallet \in Wallet
  BY <1>0, SelectingHolds
<1>2. \A s \in Request : request[s].stage = "selecting" =>
          locks'[request[s].wallet] = locks[request[s].wallet]
  BY <1>0, <1>1
<1>3. SelectionOK'
  BY <1>0, <1>2 DEF SelectionOK
<1> QED
  BY <1>0, <1>3 DEF CountInv

LEMMA TickCounts ==
    ASSUME CountInv, TypeOK', Tick
    PROVE  CountInv'
<1>0. /\ TypeOK /\ SelectionOK /\ now \in Nat /\ now' = now + 1
      /\ request' = request /\ locks' = locks /\ counters' = counters /\ forgotten' = forgotten
  BY DEF CountInv, TypeOK, Tick
<1>1. ASSUME NEW s \in Request, request[s].stage = "selecting"
      PROVE  now' <= request[s].startedAt + JevTimeout
  <2>1. request[s].startedAt \in Nat
    BY <1>0, <1>1, RunningIsAdmitted DEF IsRunning, Admitted
  <2>2. now < Deadline(s) /\ request[s].at = request[s].startedAt
    BY <1>0, <1>1 DEF Tick, IsRunning, SelectionOK
  <2>3. Deadline(s) = request[s].startedAt + JevTimeout
    BY <1>1, <2>2 DEF Deadline
  <2> QED
    BY <1>0, <2>1, <2>2, <2>3, ConstantsAssumption
<1>2. SelectionOK'
  BY <1>0, <1>1 DEF SelectionOK
<1>3. now <= now'
  BY <1>0
<1>4. \A r \in Request, w \in Wallet : Counts(request', r, w) <=> Counts(request, r, w)
  BY <1>0
<1>5. \A r \in Request : request'[r].startedAt = request[r].startedAt
  BY <1>0
<1> QED
  BY <1>0, <1>2, <1>3, <1>4, <1>5, NothingCounted

(* What a restart loses is forgotten; it ends requests, it gives none back. *)
LEMMA RestartCounts ==
    ASSUME CountInv, TypeOK', Restart
    PROVE  CountInv'
<1>0. /\ TypeOK /\ now \in Nat /\ now' = now /\ counters \in [Wallet -> Entry]
      /\ request \in [Request -> Admitted \cup Over \cup {Fresh}]
      /\ forgotten' = forgotten \cup {w \in Wallet : counters'[w] # counters[w]}
  BY DEF CountInv, TypeOK, Restart
<1>1. ASSUME NEW s \in Request
      PROVE  IF IsRunning(s)
             THEN /\ request'[s].stage = "over" /\ request'[s] # Fresh
                  /\ request'[s].wallet = request[s].wallet
                  /\ request'[s].startedAt = request[s].startedAt
                  /\ ~request'[s].refunded
             ELSE request'[s] = request[s]
  <2>1. CASE IsRunning(s)
    <3> DEFINE q == Ended(request[s].wallet, request[s].startedAt, FALSE)
    <3>1. request'[s] = q
      BY <2>1 DEF Restart
    <3>2. /\ q.stage = "over" /\ q # Fresh /\ q.wallet = request[s].wallet
          /\ q.startedAt = request[s].startedAt /\ ~q.refunded
      BY DEF Ended, Fresh
    <3> HIDE DEF q
    <3> QED
      BY <2>1, <3>1, <3>2
  <2>2. CASE ~IsRunning(s)
    BY <2>2 DEF Restart
  <2> QED
    BY <2>1, <2>2
<1>2. \A s \in Request : request'[s].stage # "selecting"
  BY <1>1 DEF IsRunning
<1>3. SelectionOK'
  BY <1>2 DEF SelectionOK
<1>4. ASSUME NEW w \in Wallet \ forgotten' PROVE CountOK(request', w, counters'[w], now')
  <2>1. w \in Wallet \ forgotten /\ counters'[w] = counters[w]
    BY <1>0
  <2>2. CountOK(request, w, counters[w], now) /\ counters[w].day \in Nat
    BY <1>0, <2>1 DEF CountInv, Entry
  <2>3. \A s \in Request : Counts(request', s, w) <=> Counts(request, s, w)
    <3> SUFFICES ASSUME NEW s \in Request
                 PROVE  Counts(request', s, w) <=> Counts(request, s, w)
      OBVIOUS
    <3>1. CASE IsRunning(s)
      <4>1. /\ request'[s] # Fresh /\ request'[s].wallet = request[s].wallet
            /\ ~request'[s].refunded
        BY <1>1, <3>1
      <4>2. request[s] # Fresh /\ request[s].stage \in Running
        BY <3>1 DEF IsRunning, Fresh
      <4> QED
        BY <4>1, <4>2 DEF Counts
    <3>2. CASE ~IsRunning(s)
      BY <1>1, <3>2 DEF Counts
    <3> QED
      BY <3>1, <3>2
  <2>4. \A s \in Request : request'[s].startedAt = request[s].startedAt
    BY <1>1
  <2>5. now <= now
    BY <1>0
  <2> HIDE DEF CountOK, Counts
  <2>6. CountOK(request', w, counters[w], now)
    BY <1>0, <2>2, <2>3, <2>4, <2>5, SameCount
  <2> QED
    BY <1>0, <2>1, <2>6
<1> QED
  BY <1>3, <1>4 DEF CountInv

LEMMA CountStep ==
    ASSUME SelectionFitsLock, CountInv, [Next]_vars
    PROVE  CountInv'
<1>0. TypeOK /\ TypeOK'
  BY TypeStep DEF CountInv
<1>1. ASSUME NEW r \in Request, NEW w \in Wallet,
             NEW kind \in {"generate", "repair"}, Post(r, w, kind)
      PROVE  CountInv'
  BY <1>0, <1>1, StartCounts DEF Post, Kind
<1>2. ASSUME NEW r \in Request, NEW w \in Wallet, Limited(r, w) PROVE CountInv'
  BY <1>0, <1>2, LimitedCounts
<1>3. ASSUME NEW r \in Request, NEW w \in Wallet, PostTask(r, w) PROVE CountInv'
  BY <1>0, <1>3, StartCounts, ConstantsAssumption DEF PostTask, Kind
<1>4. ASSUME NEW w \in Wallet, RefuseForQuota(w) PROVE CountInv'
  BY <1>0, <1>4, RefusalCounts
<1>5. ASSUME NEW r \in Request, Work(r) PROVE CountInv'
  <2>1. CASE Selected(r)
    BY <1>0, <2>1, GoesCounts DEF Selected, IsRunning
  <2>2. CASE Unsuitable(r)
    BY <1>0, <2>2, UnsuitableCounts
  <2>3. CASE Serve(r) \/ Fail(r)
    BY <1>0, <2>3, SettleCounts DEF Serve, Fail, Calling, IsRunning
  <2>4. CASE Retry(r)
    <3>1. IsRunning(r) /\ Mode(r) \in Running \ {"selecting"}
      BY <2>4 DEF Retry, Calling, IsRunning, Mode
    <3> QED
      BY <1>0, <2>4, <3>1, GoesCounts DEF Retry
  <2>5. CASE Fallback(r)
    BY <1>0, <2>5, GoesCounts DEF Fallback, IsRunning
  <2> QED
    BY <1>5, <2>1, <2>2, <2>3, <2>4, <2>5 DEF Work
<1>6. ASSUME NEW r \in Request, Cancel(r) PROVE CountInv'
  BY <1>0, <1>6, SettleCounts DEF Cancel
<1>7. CASE Tick
  BY <1>0, <1>7, TickCounts
<1>8. CASE Restart
  BY <1>0, <1>8, RestartCounts
<1>9. CASE UNCHANGED vars
  BY <1>0, <1>9 DEF vars, CountInv, SelectionOK
<1> QED
  BY <1>1, <1>2, <1>3, <1>4, <1>5, <1>6, <1>7, <1>8, <1>9 DEF Next, Admit

LEMMA InitCounts == Init => CountInv
<1> SUFFICES ASSUME Init PROVE CountInv
  OBVIOUS
<1>1. TypeOK
  BY InitTyped
<1>2. SelectionOK
  BY DEF Init, SelectionOK, Fresh
<1>3. ASSUME NEW w \in Wallet PROVE CountOK(request, w, counters[w], now)
  <2>1. counters[w].day = 0 /\ counters[w].used = 0
    BY DEF Init, NoEntry
  <2>2. Day(now) \in Nat
    BY <1>1, DayNat DEF TypeOK
  <2>3. \A r \in Request : ~Counts(request, r, w)
    BY DEF Init, Counts
  <2>4. ChargedOn(request, w, 0) = {}
    BY <2>3 DEF ChargedOn
  <2> QED
    BY <2>1, <2>2, <2>3, <2>4, FS_EmptySet DEF CountOK
<1> QED
  BY <1>1, <1>2, <1>3 DEF CountInv

(* If no lock expires before the selection of its request, the counter of a  *)
(* wallet is the number of the day's charges that stand, whatever midnight,  *)
(* refund, failed save or expired lock falls between them, unless a restart  *)
(* lost a count.  cad-quota.ts: acquireCadSlot, refundCadUnit.               *)
THEOREM RoundsAreCounted ==
    ASSUME SelectionFitsLock
    PROVE  Spec => []EveryRoundIsCounted
<1>1. CountInv /\ [Next]_vars => CountInv'
  BY CountStep
<1>2. CountInv => EveryRoundIsCounted
  <2> SUFFICES ASSUME CountInv, NEW w \in Wallet \ forgotten
               PROVE  UsedToday(w) = Cardinality(ChargedToday(w))
    BY DEF EveryRoundIsCounted
  <2>1. TypeOK /\ now \in Nat /\ counters[w].day \in Nat /\ Day(now) \in Nat
    BY DayNat DEF CountInv, TypeOK, Entry
  <2>2. CountOK(request, w, counters[w], now)
    BY DEF CountInv
  <2>3. ChargedToday(w) = ChargedOn(request, w, Day(now))
    BY DEF ChargedToday, ChargedOn, Counts, IsRunning
  <2>4. CASE counters[w].day = Day(now)
    BY <2>2, <2>3, <2>4 DEF UsedToday, CountOK
  <2>5. CASE counters[w].day # Day(now)
    <3>1. counters[w].day < Day(now)
      BY <2>1, <2>2, <2>5 DEF CountOK
    <3>2. ASSUME NEW r \in Request, Counts(request, r, w), Day(request[r].startedAt) = Day(now)
          PROVE  FALSE
      BY <2>1, <2>2, <3>1, <3>2 DEF CountOK
    <3>3. ChargedToday(w) = {}
      BY <2>3, <3>2 DEF ChargedOn
    <3> QED
      BY <2>5, <3>3, FS_EmptySet DEF UsedToday
  <2> QED
    BY <2>4, <2>5
<1> QED
  BY InitCounts, <1>1, <1>2, PTL DEF Spec
=============================================================================
