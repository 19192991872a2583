---------------------------- MODULE CadMetering ----------------------------
(***************************************************************************)
(* The metering of paid CAD requests: cad-quota.ts, the admission of        *)
(* routes/cad.ts, the task route of generate-node.ts, and the generation    *)
(* loop of cad-gen as far as its duration and its outcome go.               *)
(*                                                                         *)
(* A wallet has one lock, in memory, taken and freed by token and expiring  *)
(* after a time derived from the limits of the loop; and a counter of       *)
(* requests for the UTC day, in memory and in a file.  Each action is what  *)
(* the server does between two awaits, at the time `now'.                   *)
(***************************************************************************)
EXTENDS Naturals, FiniteSets

CONSTANTS
    Wallet,
    Request,          \* identities of admitted requests, their lock tokens
    None,
    Attempts,         \* maxRepairAttempts
    ProviderTimeout,  \* of one plain call
    ThinkingTimeout,  \* of one thinking call, before the plain one
    RepairThinking,   \* whether repairs think first
    JevTimeout,
    Margin,           \* CAD_LOCK_TTL_MARGIN_MS
    DayLength,
    HourLength,
    DailyLimit,
    HourlyLimit,
    StartTimes,       \* when the server may first be looked at
    MaxTime           \* bound on the clock

ASSUME ConstantsAssumption ==
    /\ Attempts \in Nat \ {0}
    /\ ProviderTimeout \in Nat
    /\ ThinkingTimeout \in Nat
    /\ RepairThinking \in BOOLEAN
    /\ JevTimeout \in Nat
    /\ Margin \in Nat
    /\ DayLength \in Nat \ {0}
    /\ HourLength \in Nat
    /\ DailyLimit \in Nat
    /\ HourlyLimit \in Nat
    /\ StartTimes \subseteq Nat
    /\ None \notin Request

(* Mutant: the derived time leaves out the head-room. *)
LockTtlOfCalls == Attempts * ProviderTimeout

(* lockTtlFor: when a lock counts as abandoned. *)
LockTtl == Attempts * ProviderTimeout + Margin

Day(time) == time \div DayLength

VARIABLES
    now,
    locks,     \* the lock of each wallet
    counters,  \* state: the day and the count of each wallet, in memory
    disk,      \* the same in .data/cad-quota.json
    window,    \* the hourly limiter's counter of each wallet
    request,   \* what each admitted request is doing
    forgotten  \* history: counts lost by a restart after a failed save

vars == <<now, locks, counters, disk, window, request, forgotten>>

Entry == [day: Nat, used: Nat]
NoEntry == [day |-> 0, used |-> 0]
Lock == [token: Request, startedAt: Nat]
NoLock == [token |-> None, startedAt |-> 0]
Window == [count: Nat, resetAt: Nat]

Kind == {"generate", "repair", "task"}
Running == {"selecting", "plain", "thinking", "fallback"}
Fresh == [stage |-> "fresh"]
Admitted == [stage: Running, wallet: Wallet, kind: Kind,
             startedAt: Nat,    \* its admission
             left: 1..Attempts, \* attempts left, this one included
             at: Nat]           \* start of this selection or attempt
Over == [stage: {"over"}, wallet: Wallet, startedAt: Nat,
         refunded: BOOLEAN]     \* history: its unit was given back

TypeOK ==
    /\ now \in Nat
    /\ locks \in [Wallet -> Lock \cup {NoLock}]
    /\ counters \in [Wallet -> Entry]
    /\ disk \in [Wallet -> Entry]
    /\ window \in [Wallet -> Window]
    /\ request \in [Request -> Admitted \cup Over \cup {Fresh}]
    /\ forgotten \in SUBSET Wallet

Init ==
    /\ now \in StartTimes
    /\ locks = [w \in Wallet |-> NoLock]
    /\ counters = [w \in Wallet |-> NoEntry]
    /\ disk = [w \in Wallet |-> NoEntry]
    /\ window = [w \in Wallet |-> [count |-> 0, resetAt |-> 0]]
    /\ request = [r \in Request |-> Fresh]
    /\ forgotten = {}

IsRunning(r) == request[r].stage \in Running

(* The lock still refuses this wallet. *)
Held(w) == locks[w] # NoLock /\ now - locks[w].startedAt <= LockTtl

UsedToday(w) == IF counters[w].day = Day(now) THEN counters[w].used ELSE 0

------------------------------------------------------------------------------
(* The counter, the lock and the limiter. *)

(* pruneAndSave: a failed save is logged and forgotten.  Pruning drops       *)
(* entries that count for nothing any more.                                  *)
Save == disk' \in {disk, counters'}

(* Mutant: yesterday's count is carried over. *)
ChargeAnyDay(w) ==
    /\ counters' = [counters EXCEPT ![w] =
          [day |-> Day(now), used |-> counters[w].used + 1]]
    /\ Save

Charge(w) ==
    /\ counters' = [counters EXCEPT ![w] =
          [day |-> Day(now), used |-> UsedToday(w) + 1]]
    /\ Save

(* refundCadUnit: within the day of the charge, and never below zero. *)
Refund(w) ==
    IF UsedToday(w) > 0
    THEN /\ counters' = [counters EXCEPT ![w].used = @ - 1]
         /\ Save
    ELSE UNCHANGED <<counters, disk>>

(* Mutant: a release that does not look at the token. *)
ReleaseAny(w, r) == locks' = [locks EXCEPT ![w] = NoLock]

(* releaseCadSlot: a stale token frees nothing. *)
Release(w, r) ==
    locks' = IF locks[w].token = r THEN [locks EXCEPT ![w] = NoLock] ELSE locks

(* The limiter counts this request too, in a window it opens when needed. *)
Counted(w) ==
    IF window[w].resetAt <= now
    THEN [count |-> 1, resetAt |-> now + HourLength]
    ELSE [window[w] EXCEPT !.count = @ + 1]

------------------------------------------------------------------------------
(* Admission.  acquireCadSlot, the limiter and the first step of the work    *)
(* run in one go: nothing awaits in between.                                 *)

Free(r, w) ==
    /\ request[r] = Fresh
    /\ ~Held(w)
    /\ UsedToday(w) < DailyLimit

(* A repair round needs no selection: its design names its libraries. *)
Opening(kind) ==
    IF kind # "repair" THEN "selecting"
    ELSE IF RepairThinking THEN "thinking" ELSE "plain"

Start(r, w, kind, n) ==
    /\ request' = [request EXCEPT ![r] =
          [stage |-> Opening(kind), wallet |-> w, kind |-> kind,
           startedAt |-> now, left |-> n, at |-> now]]
    /\ Charge(w)
    /\ locks' = [locks EXCEPT ![w] = [token |-> r, startedAt |-> now]]
    /\ UNCHANGED <<now, forgotten>>

Ended(w, startedAt, refunded) ==
    [stage |-> "over", wallet |-> w, startedAt |-> startedAt,
     refunded |-> refunded]

(* POST /cad/generations and /cad/repairs. *)
Post(r, w, kind) ==
    /\ Free(r, w)
    /\ Counted(w).count <= HourlyLimit
    /\ window' = [window EXCEPT ![w] = Counted(w)]
    /\ \E n \in 1..Attempts : Start(r, w, kind, n)

(* POST /generations for a CAD task; its hourly limiter came before. *)
PostTask(r, w) ==
    /\ Free(r, w)
    /\ Start(r, w, "task", Attempts)
    /\ UNCHANGED window

(* Mutant: the limiter's refusal leaves the slot taken. *)
LimitedKeepsLock(r, w) ==
    /\ Free(r, w)
    /\ Counted(w).count > HourlyLimit
    /\ window' = [window EXCEPT ![w] = Counted(w)]
    /\ request' = [request EXCEPT ![r] = Ended(w, now, FALSE)]
    /\ Charge(w)
    /\ locks' = [locks EXCEPT ![w] = [token |-> r, startedAt |-> now]]
    /\ UNCHANGED <<now, forgotten>>

(* The limiter refuses after the charge, and `finally' frees the slot. *)
Limited(r, w) ==
    /\ Free(r, w)
    /\ Counted(w).count > HourlyLimit
    /\ window' = [window EXCEPT ![w] = Counted(w)]
    /\ request' = [request EXCEPT ![r] = Ended(w, now, FALSE)]
    /\ Charge(w)
    /\ locks' = [locks EXCEPT ![w] = NoLock]
    /\ UNCHANGED <<now, forgotten>>

(* A refusal for the quota drops an expired lock on its way. *)
RefuseForQuota(w) ==
    /\ locks[w] # NoLock /\ ~Held(w)
    /\ UsedToday(w) >= DailyLimit
    /\ locks' = [locks EXCEPT ![w] = NoLock]
    /\ UNCHANGED <<now, counters, disk, window, request, forgotten>>

------------------------------------------------------------------------------
(* The work. *)

Settle(r) ==
    /\ request' = [request EXCEPT ![r] = Ended(@.wallet, @.startedAt, FALSE)]
    /\ Release(request[r].wallet, r)
    /\ UNCHANGED <<now, counters, disk, window, forgotten>>

Goes(r, stage, left, at) ==
    /\ request' = [request EXCEPT ![r] =
          [stage |-> stage, wallet |-> @.wallet, kind |-> @.kind,
           startedAt |-> @.startedAt, left |-> left, at |-> at]]
    /\ UNCHANGED <<now, locks, counters, disk, window, forgotten>>

(* Jev answers, fails or times out: generation starts. *)
Selected(r) ==
    /\ request[r].stage = "selecting"
    /\ Goes(r, "plain", request[r].left, now)

(* Jev judges the request unsuitable: refused, and the unit given back. *)
Unsuitable(r) ==
    /\ request[r].stage = "selecting"
    /\ request' = [request EXCEPT
          ![r] = Ended(@.wallet, @.startedAt, UsedToday(@.wallet) > 0)]
    /\ Refund(request[r].wallet)
    /\ Release(request[r].wallet, r)
    /\ UNCHANGED <<now, window, forgotten>>

Calling(r) == request[r].stage \in {"plain", "thinking", "fallback"}

(* A design that passes every static gate. *)
Serve(r) == Calling(r) /\ Settle(r)

(* The client of this request's attempts: plain, or thinking first. *)
Mode(r) == IF request[r].stage = "plain" THEN "plain" ELSE "thinking"

(* Mutant: one attempt too many. *)
RetryOnceMore(r) ==
    /\ Calling(r)
    /\ request[r].left > 0
    /\ Goes(r, Mode(r), request[r].left - 1, now)

(* Mutant: the count of attempts starts over. *)
RetryForever(r) ==
    /\ Calling(r)
    /\ Goes(r, Mode(r),
            IF request[r].left > 1 THEN request[r].left - 1 ELSE Attempts, now)

(* A design that fails a gate, with an attempt left. *)
Retry(r) ==
    /\ Calling(r)
    /\ request[r].left > 1
    /\ Goes(r, Mode(r), request[r].left - 1, now)

(* withPlainFallback: a thinking call that times out is made once more,      *)
(* plain, within the same attempt.                                           *)
Fallback(r) ==
    /\ request[r].stage = "thinking"
    /\ now = request[r].at + ThinkingTimeout
    /\ Goes(r, "fallback", request[r].left, request[r].at)

(* The provider fails, the last attempt fails its gates, or a task is        *)
(* cancelled by DELETE, at any stage.                                        *)
Fail(r) == Calling(r) /\ Settle(r)

Cancel(r) ==
    /\ IsRunning(r)
    /\ request[r].kind = "task"
    /\ Settle(r)

(* The call in progress ends by its timeout. *)
Deadline(r) ==
    request[r].at + CASE request[r].stage = "selecting" -> JevTimeout
                      [] request[r].stage = "plain" -> ProviderTimeout
                      [] request[r].stage = "thinking" -> ThinkingTimeout
                      [] request[r].stage = "fallback" ->
                             ThinkingTimeout + ProviderTimeout

Tick ==
    /\ now < MaxTime
    /\ \A r \in Request : IsRunning(r) => now < Deadline(r)
    /\ now' = now + 1
    /\ UNCHANGED <<locks, counters, disk, window, request, forgotten>>

(* A restart: requests, locks and limiter windows die with the process; the  *)
(* counters come back from the file, or from nothing when it is unreadable.  *)
Restart ==
    /\ request' = [r \in Request |->
          IF IsRunning(r)
          THEN Ended(request[r].wallet, request[r].startedAt, FALSE)
          ELSE request[r]]
    /\ locks' = [w \in Wallet |-> NoLock]
    /\ window' = [w \in Wallet |-> [count |-> 0, resetAt |-> 0]]
    /\ counters' \in {disk, [w \in Wallet |-> NoEntry]}
    /\ disk' = counters'
    /\ forgotten' = forgotten
                    \cup {w \in Wallet : counters'[w] # counters[w]}
    /\ UNCHANGED now

Admit ==
    \E r \in Request, w \in Wallet :
        \/ \E kind \in {"generate", "repair"} : Post(r, w, kind)
        \/ Limited(r, w)
        \/ PostTask(r, w)

Work(r) ==
    \/ Selected(r) \/ Unsuitable(r)
    \/ Serve(r) \/ Retry(r) \/ Fallback(r) \/ Fail(r)

Next ==
    \/ Admit
    \/ \E w \in Wallet : RefuseForQuota(w)
    \/ \E r \in Request : Work(r) \/ Cancel(r)
    \/ Tick
    \/ Restart

Spec == Init /\ [][Next]_vars

(* Every call ends, by an answer, an error or its timer. *)
FairSpec == Spec /\ \A r \in Request : WF_vars(Work(r))

------------------------------------------------------------------------------
(* Properties. *)

(* The time one attempt of a request of this kind may take. *)
AttemptTime(kind) ==
    IF kind = "repair" /\ RepairThinking
    THEN ThinkingTimeout + ProviderTimeout
    ELSE ProviderTimeout

(* The sizing cad-quota.ts:180-188 asks for: no request outlives its lock. *)
LockOutlivesRequests ==
    \A kind \in Kind :
        (IF kind = "repair" THEN 0 ELSE JevTimeout)
            + Attempts * AttemptTime(kind) <= LockTtl

(* One paid request at a time per wallet, the guarantee the lock is for      *)
(* (cad-quota.ts:180-188), whatever expires while requests run.              *)
OneInFlight ==
    \A r, s \in Request :
        IsRunning(r) /\ IsRunning(s) /\ request[r].wallet = request[s].wallet
            => r = s

(* A lock is never left behind by the refusal, failure, cancellation or      *)
(* restart that ended its request: it would shut the wallet out until it     *)
(* expires.                                                                  *)
NoLockIsLeaked ==
    \A w \in Wallet : locks[w] # NoLock =>
        /\ IsRunning(locks[w].token)
        /\ request[locks[w].token].wallet = w
        /\ request[locks[w].token].startedAt = locks[w].startedAt

(* A request that overstayed its lock does not take away, when it ends, the  *)
(* lock of the request admitted since.                                       *)
OnlyItsOwnLock ==
    [][\A w \in Wallet, r \in Request :
          Held(w) /\ locks[w].token = r /\ locks'[w] # locks[w] =>
              ~IsRunning(r)']_vars

ChargedToday(w) ==
    {r \in Request :
        /\ request[r] # Fresh
        /\ request[r].wallet = w
        /\ Day(request[r].startedAt) = Day(now)
        /\ ~IsRunning(r) => ~request[r].refunded}

(* Unless a restart lost a count that was never saved, the counter is the    *)
(* number of the day's admitted requests that were not given back, whatever  *)
(* midnight, refund or expired lock falls between charge and refund.  With   *)
(* the check against the limit at admission, it is the daily cap.            *)
EveryRoundIsCounted ==
    \A w \in Wallet \ forgotten : UsedToday(w) = Cardinality(ChargedToday(w))

(* Every admitted request ends, so every wallet gets its slot back. *)
EveryRequestEnds ==
    \A r \in Request : IsRunning(r) ~> ~IsRunning(r)
=============================================================================
