----------------------- MODULE GenerationTasksProofs -----------------------
(* For any tasks, handlers and number of jobs: the types of GenerationTasks, *)
(* that the paid steps of a task are started once, that no job runs on at    *)
(* the provider with nobody to ask for it, and that the model a task is      *)
(* answered with is the one its plan ends with.                              *)
EXTENDS GenerationTasks, SequenceTheorems, TLAPS

JobsOf(t) == {i \in DOMAIN jobs : jobs[i].of = t}

(* The steps of a chain that are behind a task in one of them.               *)
UpTo(phase) ==
    CASE phase = "model"     -> {"model"}
      [] phase = "rig-check" -> {"rig-check"}
      [] phase = "rig"       -> {"rig-check", "rig"}
      [] phase = "retarget"  -> {"rig-check", "rig", "retarget"}

StartedUpTo(t, phase) == \A i \in JobsOf(t) : jobs[i].step \in UpTo(phase)

Advancing(r, t) == request[r].at = "advancing" /\ request[r].task = t

(* The job a task or a handler names is one of the task's.                   *)
EntryOK(t) == entries[t] # NoEntry => entries[t] \in Entry /\ entries[t].job \in JobsOf(t)

HandlerOK(r) ==
    LET q == request[r] IN
    q # Idle =>
        /\ q.task \in Tasks /\ q.job \in JobsOf(q.task)
        /\ q.at = "registering" =>
              /\ entries[q.task] = NoEntry
              /\ JobsOf(q.task) = {q.job}
              /\ \A s \in Requests : request[s].at = "registering" /\ request[s].task = q.task => s = r
        /\ q.at # "registering" => entries[q.task] # NoEntry

(* One poll of a task at a time; it has started no step beyond its phase but *)
(* the one a handler is about to move it to.                                 *)
OnePoll(t) == \A r, s \in Requests : Polling(r, t) /\ Polling(s, t) => r = s

ChainOK(t) ==
    /\ OnePoll(t)
    /\ \A r \in Requests : Advancing(r, t) => StartedUpTo(t, request[r].phase)
    /\ \A r \in Requests :
          Polling(r, t) /\ ~Advancing(r, t) => StartedUpTo(t, entries[t].phase)
    /\ t \in registry /\ (\A r \in Requests : ~Advancing(r, t)) =>
          StartedUpTo(t, entries[t].phase)

Spoilt == overlapped \cup unanswered

IInv ==
    /\ TypeOK
    /\ \A t \in Tasks : EntryOK(t)
    /\ \A r \in Requests : HandlerOK(r)
    /\ \A t \in Tasks \ Spoilt : ChainOK(t)
    /\ PaidStepsStartOnce

---------------------------------------------------------------------------
(* Handlers and jobs.                                                      *)

LEMMA JobsTyped ==
    ASSUME TypeOK
    PROVE  /\ DOMAIN jobs = 1..Len(jobs) /\ Len(jobs) \in Nat
           /\ \A i \in DOMAIN jobs : jobs[i] \in Job /\ i \in JobIds
           /\ \A t : JobsOf(t) \subseteq DOMAIN jobs
<1>1. jobs \in Seq(Job) /\ Len(jobs) <= MaxJobs
  BY DEF TypeOK
<1>2. DOMAIN jobs = 1..Len(jobs) /\ Len(jobs) \in Nat /\ \A i \in 1..Len(jobs) : jobs[i] \in Job
  BY <1>1
<1>3. \A i \in 1..Len(jobs) : i \in JobIds
  BY <1>1, <1>2, MaxJobsAssumption DEF JobIds
<1> QED
  BY <1>2, <1>3 DEF JobsOf

(* The fields of a handler's record.                                         *)
LEMMA Fields ==
    ASSUME TypeOK, NEW r \in Requests
    PROVE  LET q == request[r] IN
           /\ q = Idle <=> q.at = "idle"
           /\ q.at \in {"idle", "registering", "polled", "downloading", "advancing", "cancelling"}
           /\ q.at # "idle" => q.task \in Tasks /\ q.job \in JobIds
           /\ q.at = "registering" => q.plan \in Plans
           /\ q.at \in {"polled", "downloading"} =>
                 q.answer \in {"running", "done", "unfit", "failed", "cancelled"}
           /\ q.at = "advancing" => q.phase \in {"rig", "retarget"}
<1> DEFINE q == request[r]
<1>1. q \in Request
  BY DEF TypeOK
<1> HIDE DEF q
<1>2. CASE q \in {Idle}
  BY <1>2 DEF Idle, q
<1>3. CASE q \in [at : {"registering"}, task : Tasks, plan : Plans, job : JobIds]
  BY <1>3 DEF Idle, q
<1>4. CASE q \in [at : {"polled", "downloading"}, task : Tasks, job : JobIds,
                  answer : {"running", "done", "unfit", "failed", "cancelled"}]
  BY <1>4 DEF Idle, q
<1>5. CASE q \in [at : {"advancing"}, task : Tasks, job : JobIds, phase : {"rig", "retarget"}]
  BY <1>5 DEF Idle, q
<1>6. CASE q \in [at : {"cancelling"}, task : Tasks, job : JobIds]
  BY <1>6 DEF Idle, q
<1> QED
  BY <1>1, <1>2, <1>3, <1>4, <1>5, <1>6 DEF Request

(* A job is started: the sequence has one more, for its task.                *)
LEMMA StartedJob ==
    ASSUME TypeOK, NEW t \in Tasks, NEW step \in Steps, NEW on \in JobIds \cup {NoJob},
           CanStart, jobs' = Started(t, step, on)
    PROVE  /\ jobs' \in Seq(Job) /\ Len(jobs') <= MaxJobs
           /\ NextJob \in JobIds /\ NextJob \notin DOMAIN jobs
           /\ DOMAIN jobs' = DOMAIN jobs \cup {NextJob}
           /\ \A i \in DOMAIN jobs : jobs'[i] = jobs[i] /\ i < NextJob
           /\ jobs'[NextJob].of = t /\ jobs'[NextJob].step = step
           /\ JobsOf(t)' = JobsOf(t) \cup {NextJob}
           /\ \A s : s # t => JobsOf(s)' = JobsOf(s)
<1> DEFINE new == [of |-> t, step |-> step, on |-> on, state |-> "running"]
<1>1. new \in Job
  BY DEF Job
<1>2. jobs \in Seq(Job) /\ Len(jobs) \in Nat /\ Len(jobs) < MaxJobs /\ DOMAIN jobs = 1..Len(jobs)
  BY DEF TypeOK, CanStart
<1>3. jobs' = Append(jobs, new)
  BY DEF Started
<1>4. new.of = t /\ new.step = step
  OBVIOUS
<1> HIDE DEF new
<1>5. /\ jobs' \in Seq(Job) /\ Len(jobs') = Len(jobs) + 1
      /\ \A i \in 1..Len(jobs) : jobs'[i] = jobs[i]
      /\ jobs'[Len(jobs) + 1] = new
  BY <1>1, <1>2, <1>3, AppendProperties
<1>6. DOMAIN jobs' = 1..(Len(jobs) + 1)
  BY <1>5, LenProperties
<1>7. /\ NextJob \in JobIds /\ NextJob \notin DOMAIN jobs
      /\ DOMAIN jobs' = DOMAIN jobs \cup {NextJob}
      /\ \A i \in DOMAIN jobs : jobs'[i] = jobs[i] /\ i < NextJob
      /\ jobs'[NextJob] = new
  BY <1>2, <1>5, <1>6, MaxJobsAssumption DEF NextJob, JobIds
<1>8. Len(jobs') <= MaxJobs
  BY <1>2, <1>5, MaxJobsAssumption
<1> HIDE DEF NextJob
<1>9. \A s : JobsOf(s)' = {i \in DOMAIN jobs \cup {NextJob} : jobs'[i].of = s}
  BY <1>7 DEF JobsOf
<1>10. JobsOf(t)' = JobsOf(t) \cup {NextJob} /\ \A s : s # t => JobsOf(s)' = JobsOf(s)
  BY <1>4, <1>7, <1>9 DEF JobsOf
<1> QED
  BY <1>4, <1>5, <1>7, <1>8, <1>10

(* Nothing of a job changes but its state.                                   *)
JobsAlike ==
    /\ jobs' \in Seq(Job) /\ Len(jobs') <= MaxJobs
    /\ DOMAIN jobs' = DOMAIN jobs
    /\ \A i \in DOMAIN jobs : jobs'[i].of = jobs[i].of /\ jobs'[i].step = jobs[i].step
    /\ \A t : JobsOf(t)' = JobsOf(t)

LEMMA SameJobs == ASSUME TypeOK, UNCHANGED jobs PROVE JobsAlike
  BY DEF TypeOK, JobsAlike, JobsOf

LEMMA JobEnded ==
    ASSUME TypeOK, NEW j \in DOMAIN jobs,
           NEW state \in {"done", "unfit", "failed", "cancelled"},
           jobs' = [jobs EXCEPT ![j].state = state]
    PROVE  JobsAlike
<1>1. jobs \in [1..Len(jobs) -> Job] /\ Len(jobs) \in Nat /\ Len(jobs) <= MaxJobs
  BY DEF TypeOK
<1>2. [jobs[j] EXCEPT !.state = state] \in Job
  BY <1>1 DEF Job
<1>3. jobs' = [jobs EXCEPT ![j] = [jobs[j] EXCEPT !.state = state]]
  OBVIOUS
<1>4. jobs' \in [1..Len(jobs) -> Job]
  BY <1>1, <1>2, <1>3
<1>5. jobs' \in Seq(Job) /\ Len(jobs') = Len(jobs) /\ DOMAIN jobs' = DOMAIN jobs
  BY <1>1, <1>4
<1>6. \A i \in DOMAIN jobs : jobs'[i].of = jobs[i].of /\ jobs'[i].step = jobs[i].step
  BY <1>1, <1>3 DEF Job
<1>7. \A t : JobsOf(t)' = JobsOf(t)
  BY <1>5, <1>6 DEF JobsOf
<1> QED
  BY <1>1, <1>5, <1>6, <1>7 DEF JobsAlike

---------------------------------------------------------------------------
(* The steps that start nothing: handlers end, tasks leave the registry.   *)

(* What a step leaves of a chain that has not been spoilt.                 *)
LEMMA ChainStays ==
    ASSUME JobsAlike, NEW t \in Tasks, ChainOK(t),
           t \in registry' => t \in registry,
           entries'[t].phase = entries[t].phase,
           \A r \in Requests : Polling(r, t)' =>
               /\ Polling(r, t)
               /\ Advancing(r, t)' <=> Advancing(r, t)
               /\ Advancing(r, t) => request'[r].phase = request[r].phase,
           t \in registry' => \A r \in Requests : Advancing(r, t) => Advancing(r, t)'
    PROVE  ChainOK(t)'
<1>1. JobsOf(t)' = JobsOf(t) /\ \A i \in JobsOf(t) : jobs'[i].step = jobs[i].step
  BY DEF JobsAlike, JobsOf
<1>2. \A phase : (\A i \in JobsOf(t) : jobs[i].step \in UpTo(phase)) =>
                     \A i \in JobsOf(t)' : jobs'[i].step \in UpTo(phase)
  BY <1>1
<1>3. OnePoll(t)'
  BY DEF ChainOK, OnePoll
<1>4. \A r \in Requests : Advancing(r, t)' => StartedUpTo(t, request[r].phase)'
  <2> SUFFICES ASSUME NEW r \in Requests, Advancing(r, t)'
               PROVE  StartedUpTo(t, request[r].phase)'
    OBVIOUS
  <2>1. Polling(r, t)'
    BY DEF Advancing, Polling
  <2>2. Advancing(r, t) /\ request'[r].phase = request[r].phase
    BY <2>1
  <2>3. StartedUpTo(t, request[r].phase)
    BY <2>2 DEF ChainOK
  <2> QED
    BY <1>2, <2>2, <2>3 DEF StartedUpTo
<1>5. \A r \in Requests :
          Polling(r, t)' /\ ~Advancing(r, t)' => StartedUpTo(t, entries[t].phase)'
  BY <1>2 DEF ChainOK, StartedUpTo
<1>6. t \in registry' /\ (\A r \in Requests : ~Advancing(r, t)') =>
          StartedUpTo(t, entries[t].phase)'
  BY <1>2 DEF ChainOK, StartedUpTo
<1> QED
  BY <1>3, <1>4, <1>5, <1>6 DEF ChainOK

LEMMA PaidStays ==
    ASSUME PaidStepsStartOnce, JobsAlike, Spoilt \subseteq Spoilt'
    PROVE  PaidStepsStartOnce'
  BY DEF PaidStepsStartOnce, JobsAlike, Spoilt

(* The handler moves within its request, or ends it.                       *)
Stays(r) ==
    \/ request'[r] = request[r]
    \/ request'[r] = Idle
    \/ /\ request[r].at = "polled" /\ request'[r].at = "downloading"
       /\ request'[r].task = request[r].task /\ request'[r].job = request[r].job

EntryStays(t) ==
    /\ entries'[t] = NoEntry <=> entries[t] = NoEntry
    /\ entries'[t].job = entries[t].job /\ entries'[t].phase = entries[t].phase

LEMMA HandlersStay ==
    ASSUME IInv, JobsAlike, TypeOK',
           \A t \in Tasks : EntryStays(t),
           \A r \in Requests : Stays(r)
    PROVE  \A r \in Requests : HandlerOK(r)'
<1> SUFFICES ASSUME NEW r \in Requests, request'[r] # Idle PROVE HandlerOK(r)'
  BY DEF HandlerOK
<1> DEFINE q == request[r]
<1>1. q # Idle
  BY Fields DEF IInv, Stays, Idle
<1>2. HandlerOK(r) /\ q.task \in Tasks /\ q.job \in JobsOf(q.task)
  BY <1>1 DEF IInv, HandlerOK
<1>3. /\ request'[r].task = q.task /\ request'[r].job = q.job
      /\ request'[r].at = "registering" <=> q.at = "registering"
  BY DEF Stays
<1> HIDE DEF q
<1>4. /\ \A t : JobsOf(t)' = JobsOf(t)
      /\ entries'[q.task] = NoEntry <=> entries[q.task] = NoEntry
  BY <1>2 DEF JobsAlike, EntryStays
<1>5. \A s \in Requests : request'[s].at = "registering" =>
          request[s].at = "registering" /\ request'[s].task = request[s].task
  BY DEF Stays, Idle
<1> QED
  BY <1>1, <1>2, <1>3, <1>4, <1>5 DEF HandlerOK, q

LEMMA PlainStep ==
    ASSUME IInv, JobsAlike, TypeOK',
           \A t \in Tasks : EntryStays(t),
           \A r \in Requests : Stays(r),
           registry' \subseteq registry, Spoilt \subseteq Spoilt',
           \A r \in Requests : request[r].at = "advancing" /\ request'[r] # request[r] =>
               request[r].task \in Spoilt' \/ registry' = {}
    PROVE  IInv'
<1>1. \A t \in Tasks : EntryOK(t)'
  BY DEF IInv, EntryOK, EntryStays, JobsAlike, TypeOK
<1>2. \A r \in Requests : HandlerOK(r)'
  BY HandlersStay
<1>3. \A t \in Tasks \ Spoilt' : ChainOK(t)'
  <2> SUFFICES ASSUME NEW t \in Tasks \ Spoilt' PROVE ChainOK(t)'
    OBVIOUS
  <2>1. ChainOK(t)
    BY DEF IInv
  <2>2. \A r \in Requests : Polling(r, t)' =>
            /\ Polling(r, t)
            /\ Advancing(r, t)' <=> Advancing(r, t)
            /\ Advancing(r, t) => request'[r].phase = request[r].phase
    BY DEF Stays, Idle, Polling, Advancing
  <2>3. t \in registry' => \A r \in Requests : Advancing(r, t) => Advancing(r, t)'
    BY DEF Advancing
  <2> QED
    BY <2>1, <2>2, <2>3, ChainStays DEF EntryStays
<1>4. PaidStepsStartOnce'
  BY PaidStays DEF IInv
<1> QED
  BY <1>1, <1>2, <1>3, <1>4 DEF IInv

(* A handler ends.                                                         *)
LEMMA EndStep ==
    ASSUME IInv, JobsAlike, NEW r \in Requests, Reply(r),
           UNCHANGED <<entries, overlapped, served>>,
           registry' \subseteq registry,
           raced' \subseteq Tasks, lost' \subseteq Tasks, unanswered' \subseteq Tasks,
           unanswered \subseteq unanswered',
           request[r].at = "advancing" => request[r].task \in unanswered'
    PROVE  IInv'
<1>1. TypeOK'
  <2>1. request' \in [Requests -> Request]
    BY DEF IInv, TypeOK, Reply, Request
  <2> QED
    BY <2>1 DEF IInv, TypeOK, JobsAlike
<1>2. \A s \in Requests : Stays(s)
  BY DEF IInv, TypeOK, Reply, Stays
<1>3. \A t \in Tasks : EntryStays(t)
  BY DEF EntryStays
<1>4. \A s \in Requests : request[s].at = "advancing" /\ request'[s] # request[s] =>
          request[s].task \in Spoilt'
  BY DEF IInv, TypeOK, Reply, Spoilt
<1> QED
  BY <1>1, <1>2, <1>3, <1>4, PlainStep DEF Spoilt

LEMMA EvictTyped ==
    ASSUME TypeOK, NEW t \in Tasks, NEW r, Evict(t, r)
    PROVE  registry' = registry \ {t} /\ raced' \subseteq Tasks
  BY DEF TypeOK, Evict

LEMMA AnswerLostInv ==
    ASSUME IInv, NEW r \in Requests, AnswerLost(r) PROVE IInv'
<1>1. request[r].task \in Tasks /\ JobsAlike /\ TypeOK
  BY Fields, SameJobs DEF AnswerLost, IInv
<1> QED
  BY <1>1, EndStep DEF AnswerLost, TypeOK

LEMMA PollFailsInv ==
    ASSUME IInv, NEW r \in Requests, NEW terminal \in BOOLEAN, PollFails(r, terminal)
    PROVE  IInv'
<1>1. /\ request[r].at \in {"polled", "downloading"}
      /\ JobsAlike /\ TypeOK
  BY SameJobs DEF PollFails, IInv
<1>2. request[r].task \in Tasks
  BY <1>1, Fields
<1>3. registry' \subseteq registry /\ raced' \subseteq Tasks /\ lost' \subseteq Tasks
  BY <1>1, <1>2, EvictTyped DEF PollFails, TypeOK
<1> QED
  BY <1>1, <1>3, EndStep DEF PollFails, TypeOK

LEMMA ReportInv ==
    ASSUME IInv, NEW r \in Requests,
           ReportProgress(r) \/ ReportFailure(r) \/ RigCheckStop(r)
    PROVE  IInv'
<1>1. /\ request[r].at = "polled" /\ Reply(r) /\ JobsAlike /\ TypeOK
      /\ UNCHANGED <<entries, jobs, overlapped, lost, unanswered, served>>
  BY SameJobs DEF ReportProgress, ReportFailure, RigCheckStop, IInv
<1>2. request[r].task \in Tasks
  BY <1>1, Fields
<1>3. UNCHANGED <<registry, raced>> \/ Evict(request[r].task, r)
  BY DEF ReportProgress, ReportFailure, RigCheckStop
<1>4. registry' \subseteq registry /\ raced' \subseteq Tasks
  BY <1>1, <1>2, <1>3, EvictTyped DEF TypeOK
<1> QED
  BY <1>1, <1>4, EndStep DEF TypeOK

LEMMA CancelUpstreamInv ==
    ASSUME IInv, NEW r \in Requests, NEW accepted, CancelUpstream(r, accepted)
    PROVE  IInv'
<1> DEFINE q == request[r]
<1>1. TypeOK /\ q.at = "cancelling" /\ Reply(r)
  BY DEF CancelUpstream, IInv
<1>2. q # Idle /\ q.task \in Tasks
  BY <1>1, Fields
<1>3. q.job \in DOMAIN jobs
  BY <1>2 DEF IInv, HandlerOK, JobsOf
<1>4. JobsAlike
  <2>1. UNCHANGED jobs \/ jobs' = [jobs EXCEPT ![q.job].state = "cancelled"]
    BY DEF CancelUpstream
  <2> QED
    BY <1>1, <1>3, <2>1, SameJobs, JobEnded
<1>5. lost' \subseteq Tasks
  BY <1>1, <1>2 DEF CancelUpstream, TypeOK
<1> QED
  BY <1>1, <1>4, <1>5, EndStep DEF CancelUpstream, TypeOK

LEMMA DownloadInv ==
    ASSUME IInv, NEW r \in Requests, Download(r) PROVE IInv'
<1> DEFINE q == request[r]
<1>1. /\ TypeOK /\ JobsAlike /\ q.at = "polled" /\ q \in Request
      /\ UNCHANGED <<entries, registry, jobs, overlapped, raced, lost, unanswered, served>>
  BY SameJobs DEF Download, IInv, TypeOK
<1>2. CASE request' = [request EXCEPT ![r] = Idle]
  BY <1>1, <1>2, EndStep DEF Reply, TypeOK
<1>3. CASE request' = [request EXCEPT ![r] = [q EXCEPT !.at = "downloading"]]
  <2> DEFINE new == [q EXCEPT !.at = "downloading"]
  <2>1. q \in [at : {"polled", "downloading"}, task : Tasks, job : JobIds,
               answer : {"running", "done", "unfit", "failed", "cancelled"}]
    BY <1>1 DEF Request, Idle
  <2>2. new \in Request /\ new.at = "downloading" /\ new.task = q.task /\ new.job = q.job
    BY <2>1 DEF Request
  <2>3. request' = [request EXCEPT ![r] = new]
    BY <1>3
  <2> HIDE DEF new
  <2>4. TypeOK'
    BY <1>1, <2>2, <2>3 DEF TypeOK
  <2>5. \A s \in Requests : Stays(s)
    BY <1>1, <2>2, <2>3 DEF Stays, TypeOK
  <2>6. \A s \in Requests : request[s].at = "advancing" => request'[s] = request[s]
    BY <1>1, <2>3 DEF TypeOK
  <2>7. \A t \in Tasks : EntryStays(t)
    BY <1>1 DEF EntryStays
  <2> QED
    BY <1>1, <2>4, <2>5, <2>6, <2>7, PlainStep DEF Spoilt
<1> QED
  BY <1>2, <1>3 DEF Download

LEMMA CompleteInv ==
    ASSUME IInv, NEW r \in Requests, Complete(r) PROVE IInv'
<1> DEFINE q == request[r]
           t == q.task
<1>1. TypeOK /\ JobsAlike /\ q.at = "downloading"
  BY SameJobs DEF Complete, IInv
<1>2. t \in Tasks /\ q.job \in JobIds /\ q # Idle
  BY <1>1, Fields
<1>3. entries[t] # NoEntry /\ entries[t] \in Entry
  BY <1>1, <1>2 DEF IInv, HandlerOK, EntryOK
<1> DEFINE e == [entries[t] EXCEPT !.status = "complete"]
<1>4. /\ e \in Entry /\ e # NoEntry
      /\ e.job = entries[t].job /\ e.phase = entries[t].phase
  BY <1>3 DEF Entry, NoEntry
<1>5. entries' = entries \/ entries' = [entries EXCEPT ![t] = e]
  BY DEF Complete
<1>6. served' \in [Tasks -> SUBSET JobIds]
  BY <1>1, <1>2 DEF Complete, TypeOK
<1> HIDE DEF e, t
<1>7. entries' \in [Tasks -> Entry \cup {NoEntry}] /\ \A s \in Tasks : EntryStays(s)
  BY <1>1, <1>2, <1>3, <1>4, <1>5 DEF TypeOK, EntryStays
<1>8. request' \in [Requests -> Request]
  BY <1>1 DEF Complete, Reply, TypeOK, Request
<1>9. TypeOK'
  BY <1>1, <1>6, <1>7, <1>8 DEF TypeOK, JobsAlike, Complete, EntryStays
<1>10. \A s \in Requests : Stays(s) /\ (request[s].at = "advancing" => request'[s] = request[s])
  BY <1>1 DEF Complete, Reply, Stays, TypeOK
<1> QED
  BY <1>1, <1>7, <1>9, <1>10, PlainStep DEF Complete, Spoilt

LEMMA ExpireInv ==
    ASSUME IInv, NEW t \in Tasks, Expire(t) PROVE IInv'
<1>1. TypeOK /\ JobsAlike
  BY SameJobs DEF Expire, IInv
<1>2. TypeOK'
  BY <1>1 DEF Expire, TypeOK
<1>3. (\A s \in Requests : Stays(s)) /\ \A s \in Tasks : EntryStays(s)
  BY DEF Expire, Stays, EntryStays
<1> QED
  BY <1>1, <1>2, <1>3, PlainStep DEF Expire, Spoilt

LEMMA RestartInv ==
    ASSUME IInv, Restart PROVE IInv'
<1>1. TypeOK /\ JobsAlike
  BY SameJobs DEF Restart, IInv
<1>2. lost' \subseteq Tasks
  BY <1>1, Fields DEF Restart, TypeOK
<1>3. TypeOK'
  BY <1>1, <1>2 DEF Restart, TypeOK, Request
<1>4. (\A s \in Requests : Stays(s)) /\ \A s \in Tasks : EntryStays(s)
  BY DEF Restart, Stays, EntryStays
<1> QED
  BY <1>1, <1>3, <1>4, PlainStep DEF Restart, Spoilt

LEMMA JobEndsInv ==
    ASSUME IInv, NEW j \in JobIds, NEW state \in {"done", "unfit", "failed"}, JobEnds(j, state)
    PROVE  IInv'
<1>1. TypeOK /\ j \in DOMAIN jobs
  BY JobsTyped DEF JobEnds, IInv
<1>2. JobsAlike
  BY <1>1, JobEnded DEF JobEnds
<1>3. TypeOK'
  BY <1>1, <1>2 DEF JobEnds, TypeOK, JobsAlike
<1>4. (\A s \in Requests : Stays(s)) /\ \A s \in Tasks : EntryStays(s)
  BY DEF JobEnds, Stays, EntryStays
<1> QED
  BY <1>2, <1>3, <1>4, PlainStep DEF JobEnds, Spoilt

---------------------------------------------------------------------------
(* The steps that take up a task.                                          *)
LEMMA TakenUp ==
    ASSUME IInv, UNCHANGED <<entries, jobs>>, NEW r \in Requests, NEW t \in Tasks,
           entries[t] # NoEntry, NEW q \in Request,
           q.at \in {"polled", "cancelling"}, q.task = t, q.job = entries[t].job,
           request' = [request EXCEPT ![r] = q]
    PROVE  /\ \A x \in Tasks : EntryOK(x)'
           /\ \A s \in Requests : HandlerOK(s)'
<1>1. \A x : JobsOf(x)' = JobsOf(x)
  BY DEF JobsOf
<1>2. \A x \in Tasks : EntryOK(x)'
  BY <1>1 DEF IInv, EntryOK
<1>3. request'[r] = q /\ \A s \in Requests \ {r} : request'[s] = request[s]
  BY DEF IInv, TypeOK
<1>4. entries[t].job \in JobsOf(t)
  BY DEF IInv, EntryOK
<1>5. \A s \in Requests : HandlerOK(s)'
  <2> SUFFICES ASSUME NEW s \in Requests PROVE HandlerOK(s)'
    OBVIOUS
  <2>1. CASE s = r
    BY <1>1, <1>3, <1>4, <2>1 DEF HandlerOK
  <2>2. CASE s # r
    <3>1. HandlerOK(s) /\ request'[s] = request[s]
      BY <1>3, <2>2 DEF IInv
    <3>2. \A x \in Requests : request'[x].at = "registering" => request'[x] = request[x]
      BY <1>3
    <3> QED
      BY <1>1, <3>1, <3>2 DEF HandlerOK
  <2> QED
    BY <2>1, <2>2
<1> QED
  BY <1>2, <1>5 DEF IInv

LEMMA CancelInv ==
    ASSUME IInv, NEW r \in Requests, NEW t \in Tasks, Cancel(r, t) PROVE IInv'
<1> DEFINE q == [at |-> "cancelling", task |-> t, job |-> entries[t].job]
<1>1. /\ TypeOK /\ JobsAlike /\ t \in registry /\ request[r] = Idle
      /\ request' = [request EXCEPT ![r] = q]
      /\ UNCHANGED <<entries, jobs, overlapped, lost, unanswered, served>>
  BY SameJobs DEF Cancel, IsRunning, IInv
<1>2. entries[t] # NoEntry /\ entries[t] \in Entry
  BY <1>1 DEF IInv, EntryOK, TypeOK
<1>3. q \in Request /\ q.at = "cancelling" /\ q.task = t /\ q.job = entries[t].job
  BY <1>2 DEF Request, Entry
<1> HIDE DEF q
<1>4. registry' \subseteq registry /\ raced' \subseteq Tasks
  BY <1>1, EvictTyped DEF Cancel
<1>5. TypeOK'
  BY <1>1, <1>3, <1>4 DEF TypeOK
<1>6. /\ \A x \in Tasks : EntryOK(x)'
      /\ \A s \in Requests : HandlerOK(s)'
  BY <1>1, <1>2, <1>3, TakenUp
<1>7. request'[r] = q /\ \A s \in Requests \ {r} : request'[s] = request[s]
  BY <1>1 DEF TypeOK
<1>8. \A x \in Tasks \ Spoilt' : ChainOK(x)'
  <2> SUFFICES ASSUME NEW x \in Tasks \ Spoilt' PROVE ChainOK(x)'
    OBVIOUS
  <2>1. ChainOK(x)
    BY <1>1 DEF IInv, Spoilt
  <2>2. \A s \in Requests : Polling(s, x)' => Polling(s, x) /\ request'[s] = request[s]
    BY <1>3, <1>7 DEF Polling
  <2>3. \A s \in Requests : Advancing(s, x) => request'[s] = request[s]
    BY <1>1, <1>7 DEF Advancing, Idle
  <2> QED
    BY <1>1, <1>4, <2>1, <2>2, <2>3, ChainStays DEF Advancing
<1>9. PaidStepsStartOnce'
  BY <1>1, PaidStays DEF IInv, Spoilt
<1> QED
  BY <1>5, <1>6, <1>8, <1>9 DEF IInv

(* The poll of a task that no other poll overlaps sees the phase its chain   *)
(* has come to.                                                              *)
LEMMA PollInv ==
    ASSUME IInv, NEW r \in Requests, NEW t \in Tasks, Poll(r, t) PROVE IInv'
<1> DEFINE q == [at |-> "polled", task |-> t, job |-> entries[t].job,
                 answer |-> jobs[entries[t].job].state]
<1>1. /\ TypeOK /\ JobsAlike /\ t \in registry /\ request[r] = Idle
      /\ request' = [request EXCEPT ![r] = q]
      /\ UNCHANGED <<entries, registry, jobs, raced, lost, unanswered, served>>
  BY SameJobs DEF Poll, IsRunning, IInv
<1>2. entries[t] # NoEntry /\ entries[t] \in Entry /\ entries[t].job \in JobsOf(t)
  BY <1>1 DEF IInv, EntryOK, TypeOK
<1>3. jobs[entries[t].job] \in Job
  BY <1>1, <1>2, JobsTyped
<1>4. q \in Request /\ q.at = "polled" /\ q.task = t /\ q.job = entries[t].job
  <2>1. jobs[entries[t].job].state \in {"running", "done", "unfit", "failed", "cancelled"}
    BY <1>3 DEF Job
  <2>2. entries[t].job \in JobIds
    BY <1>2 DEF Entry
  <2> QED
    BY <2>1, <2>2 DEF Request
<1> HIDE DEF q
<1>5. overlapped' \subseteq Tasks /\ overlapped \subseteq overlapped'
  BY <1>1 DEF Poll, TypeOK
<1>6. TypeOK'
  BY <1>1, <1>4, <1>5 DEF TypeOK
<1>7. /\ \A x \in Tasks : EntryOK(x)'
      /\ \A s \in Requests : HandlerOK(s)'
  BY <1>1, <1>2, <1>4, TakenUp
<1>8. request'[r] = q /\ \A s \in Requests \ {r} : request'[s] = request[s]
  BY <1>1 DEF TypeOK
<1>9. \A x \in Tasks \ Spoilt' : ChainOK(x)'
  <2> SUFFICES ASSUME NEW x \in Tasks \ Spoilt' PROVE ChainOK(x)'
    OBVIOUS
  <2>1. ChainOK(x)
    BY <1>1, <1>5 DEF IInv, Spoilt
  <2>2. CASE x # t
    <3>1. \A s \in Requests : Polling(s, x)' => Polling(s, x) /\ request'[s] = request[s]
      BY <1>4, <1>8, <2>2 DEF Polling
    <3>2. \A s \in Requests : Advancing(s, x) => request'[s] = request[s]
      BY <1>1, <1>8 DEF Advancing, Idle
    <3> QED
      BY <1>1, <2>1, <3>1, <3>2, ChainStays DEF Advancing
  <2>3. CASE x = t
    <3>1. \A s \in Requests : ~Polling(s, t)
      BY <2>3 DEF Poll, Spoilt
    <3>2. \A s \in Requests : Polling(s, t)' => s = r
      BY <1>8, <3>1 DEF Polling
    <3>3. \A s \in Requests : ~Advancing(s, t) /\ ~Advancing(s, t)'
      BY <1>4, <1>8, <3>1 DEF Advancing, Polling
    <3>4. StartedUpTo(t, entries[t].phase)
      BY <1>1, <2>1, <2>3, <3>3 DEF ChainOK
    <3>5. StartedUpTo(t, entries[t].phase)'
      BY <1>1, <3>4 DEF StartedUpTo, JobsOf
    <3> QED
      BY <2>3, <3>2, <3>3, <3>5 DEF ChainOK, OnePoll
  <2> QED
    BY <2>2, <2>3
<1>10. PaidStepsStartOnce'
  BY <1>1, <1>5, PaidStays DEF IInv, Spoilt
<1> QED
  BY <1>6, <1>7, <1>9, <1>10 DEF IInv

---------------------------------------------------------------------------
(* The steps that change an entry.                                         *)
LEMMA Untouched ==
    ASSUME IInv, JobsAlike, NEW t \in Tasks, NEW x \in Tasks \ Spoilt', x # t,
           Spoilt \subseteq Spoilt', entries'[x] = entries[x],
           x \in registry' => x \in registry,
           NEW r \in Requests, request[r].task = t, request'[r] = Idle,
           \A s \in Requests \ {r} : request'[s] = request[s]
    PROVE  ChainOK(x)'
<1>1. ChainOK(x)
  BY DEF IInv
<1>2. \A s \in Requests : Polling(s, x)' => Polling(s, x) /\ request'[s] = request[s]
  BY DEF Polling, Idle
<1>3. \A s \in Requests : Advancing(s, x) => request'[s] = request[s]
  BY DEF Advancing
<1> QED
  BY <1>1, <1>2, <1>3, ChainStays DEF Advancing

LEMMA RegisterTaskInv ==
    ASSUME IInv, NEW r \in Requests, RegisterTask(r) PROVE IInv'
<1> DEFINE q == request[r]
           t == q.task
           e == [plan |-> q.plan, phase |-> jobs[q.job].step, job |-> q.job, status |-> "running"]
<1>1. /\ TypeOK /\ JobsAlike /\ q.at = "registering"
      /\ entries' = [entries EXCEPT ![t] = e]
      /\ registry' = registry \cup {t}
      /\ request' = [request EXCEPT ![r] = Idle]
      /\ UNCHANGED <<jobs, overlapped, raced, lost, unanswered, served>>
  BY SameJobs DEF RegisterTask, Reply, IInv
<1>2. q # Idle /\ t \in Tasks /\ q.job \in JobIds /\ q.plan \in Plans
  BY <1>1, Fields
<1>3. /\ entries[t] = NoEntry /\ JobsOf(t) = {q.job}
      /\ \A s \in Requests : request[s].at = "registering" /\ request[s].task = t => s = r
  BY <1>1, <1>2 DEF IInv, HandlerOK
<1>4. jobs[q.job] \in Job /\ jobs[q.job].step \in Steps
  <2>1. q.job \in DOMAIN jobs
    BY <1>3 DEF JobsOf
  <2> QED
    BY <1>1, <2>1, JobsTyped DEF Job
<1>5. e \in Entry /\ e # NoEntry /\ e.job = q.job /\ e.phase = jobs[q.job].step
  <2>1. e \in Entry
    BY <1>2, <1>4 DEF Entry, Steps
  <2>2. e.status # NoEntry.status
    BY DEF NoEntry
  <2> QED
    BY <2>1, <2>2
<1> HIDE DEF e
<1>6. entries'[t] = e /\ \A x \in Tasks \ {t} : entries'[x] = entries[x]
  BY <1>1, <1>2 DEF TypeOK
<1>7. request'[r] = Idle /\ \A s \in Requests \ {r} : request'[s] = request[s]
  BY <1>1 DEF TypeOK
<1>8. TypeOK'
  <2>1. entries' \in [Tasks -> Entry \cup {NoEntry}] /\ request' \in [Requests -> Request]
    BY <1>1, <1>5 DEF TypeOK, Request
  <2>2. registry' \subseteq {x \in Tasks : entries'[x] # NoEntry}
    BY <1>1, <1>2, <1>5, <1>6 DEF TypeOK
  <2> QED
    BY <1>1, <2>1, <2>2 DEF TypeOK
<1> HIDE DEF t
<1>9. \A x : JobsOf(x)' = JobsOf(x)
  BY <1>1 DEF JobsOf
<1>10. \A x \in Tasks : EntryOK(x)'
  BY <1>2, <1>3, <1>5, <1>6, <1>9 DEF IInv, EntryOK
<1>11. \A s \in Requests \ {r} : request[s] # Idle => request[s].task # t /\ HandlerOK(s)
  BY <1>3 DEF IInv, HandlerOK
<1>12. \A s \in Requests : HandlerOK(s)'
  <2> SUFFICES ASSUME NEW s \in Requests, request'[s] # Idle PROVE HandlerOK(s)'
    BY DEF HandlerOK
  <2>1. s # r /\ request'[s] = request[s] /\ HandlerOK(s) /\ request[s].task # t
    BY <1>7, <1>11
  <2>2. \A x \in Requests : request'[x].at = "registering" => request'[x] = request[x]
    BY <1>7 DEF Idle
  <2>3. request[s].task \in Tasks /\ entries'[request[s].task] = entries[request[s].task]
    BY <1>6, <2>1 DEF HandlerOK
  <2> QED
    BY <1>9, <2>1, <2>2, <2>3 DEF HandlerOK
<1>13. \A x \in Tasks \ Spoilt' : ChainOK(x)'
  <2> SUFFICES ASSUME NEW x \in Tasks \ Spoilt' PROVE ChainOK(x)'
    OBVIOUS
  <2>1. CASE x # t
    <3>1. /\ entries'[x] = entries[x] /\ (x \in registry' => x \in registry)
          /\ request[r].task = t /\ Spoilt \subseteq Spoilt'
      BY <1>1, <1>6, <2>1 DEF t, Spoilt
    <3> QED
      BY <1>1, <1>2, <1>7, <2>1, <3>1, Untouched
  <2>2. CASE x = t
    <3>1. \A s \in Requests : ~Polling(s, x)' /\ ~Advancing(s, x)'
      BY <1>7, <1>11, <2>2 DEF Polling, Advancing, Idle
    <3>2. jobs[q.job].step \in UpTo(jobs[q.job].step)
      BY <1>4 DEF Steps, UpTo
    <3>3. StartedUpTo(x, entries[x].phase)'
      BY <1>1, <1>3, <1>5, <1>6, <1>9, <2>2, <3>2 DEF StartedUpTo
    <3> QED
      BY <3>1, <3>3 DEF ChainOK, OnePoll
  <2> QED
    BY <2>1, <2>2
<1>14. PaidStepsStartOnce'
  BY <1>1, PaidStays DEF IInv, Spoilt
<1> QED
  BY <1>8, <1>10, <1>12, <1>13, <1>14 DEF IInv

LEMMA AdvanceInv ==
    ASSUME IInv, NEW r \in Requests, Advance(r) PROVE IInv'
<1> DEFINE q == request[r]
           t == q.task
           e == [entries[t] EXCEPT !.job = q.job, !.phase = q.phase]
<1>1. /\ TypeOK /\ JobsAlike /\ q.at = "advancing"
      /\ entries' = IF t \in registry
                    THEN [entries EXCEPT ![t].job = q.job, ![t].phase = q.phase] ELSE entries
      /\ request' = [request EXCEPT ![r] = Idle]
      /\ UNCHANGED <<registry, jobs, overlapped, raced, lost, unanswered, served>>
  BY SameJobs DEF Advance, UpdateTaskEntry, Reply, IInv
<1>2. q # Idle /\ t \in Tasks /\ q.job \in JobIds /\ q.phase \in {"rig", "retarget"}
  BY <1>1, Fields
<1>3. entries[t] # NoEntry /\ entries[t] \in Entry /\ q.job \in JobsOf(t)
  BY <1>1, <1>2 DEF IInv, HandlerOK, EntryOK
<1>4. e \in Entry /\ e # NoEntry /\ e.job = q.job /\ e.phase = q.phase
  BY <1>2, <1>3 DEF Entry, Steps, NoEntry
<1>5. entries' = IF t \in registry THEN [entries EXCEPT ![t] = e] ELSE entries
  BY <1>1, <1>2 DEF TypeOK
<1> HIDE DEF e
<1>6. /\ entries'[t] = IF t \in registry THEN e ELSE entries[t]
      /\ \A x \in Tasks \ {t} : entries'[x] = entries[x]
  BY <1>1, <1>2, <1>5 DEF TypeOK
<1>7. request'[r] = Idle /\ \A s \in Requests \ {r} : request'[s] = request[s]
  BY <1>1 DEF TypeOK
<1>8. TypeOK'
  <2>1. entries' \in [Tasks -> Entry \cup {NoEntry}] /\ request' \in [Requests -> Request]
    BY <1>1, <1>4, <1>5 DEF TypeOK, Request
  <2>2. registry' \subseteq {x \in Tasks : entries'[x] # NoEntry}
    BY <1>1, <1>4, <1>6 DEF TypeOK
  <2> QED
    BY <1>1, <2>1, <2>2 DEF TypeOK
<1>9. r \in Requests /\ request[r].task = t /\ Advancing(r, t)
  BY <1>1 DEF Advancing
<1> HIDE DEF t
<1>10. \A x : JobsOf(x)' = JobsOf(x)
  BY <1>1 DEF JobsOf
<1>11. \A x \in Tasks : EntryOK(x)'
  BY <1>3, <1>4, <1>6, <1>10 DEF IInv, EntryOK
<1>12. \A s \in Requests : HandlerOK(s)'
  <2> SUFFICES ASSUME NEW s \in Requests, request'[s] # Idle PROVE HandlerOK(s)'
    BY DEF HandlerOK
  <2>1. s # r /\ request'[s] = request[s] /\ HandlerOK(s)
    BY <1>7 DEF IInv
  <2>2. \A x \in Requests : request'[x].at = "registering" => request'[x] = request[x]
    BY <1>7 DEF Idle
  <2>3. entries'[request[s].task] = NoEntry <=> entries[request[s].task] = NoEntry
    BY <1>3, <1>4, <1>6, <2>1 DEF HandlerOK
  <2> QED
    BY <1>10, <2>1, <2>2, <2>3 DEF HandlerOK
<1>13. \A x \in Tasks \ Spoilt' : ChainOK(x)'
  <2> SUFFICES ASSUME NEW x \in Tasks \ Spoilt' PROVE ChainOK(x)'
    OBVIOUS
  <2>1. CASE x # t
    <3>1. entries'[x] = entries[x] /\ Spoilt \subseteq Spoilt' /\ registry' = registry
      BY <1>1, <1>6, <2>1 DEF Spoilt
    <3> QED
      BY <1>1, <1>2, <1>7, <1>9, <2>1, <3>1, Untouched
  <2>2. CASE x = t
    <3>1. ChainOK(t)
      BY <1>1, <2>2 DEF IInv, Spoilt
    <3>2. \A s \in Requests : ~Polling(s, x)' /\ ~Advancing(s, x)'
      <4>1. \A s \in Requests \ {r} : ~Polling(s, x)
        BY <1>9, <2>2, <3>1 DEF ChainOK, OnePoll, Polling, Advancing
      <4> QED
        BY <1>7, <4>1 DEF Polling, Advancing, Idle
    <3>3. StartedUpTo(t, q.phase)
      BY <1>9, <3>1 DEF ChainOK
    <3>4. x \in registry' => StartedUpTo(x, entries[x].phase)'
      BY <1>1, <1>4, <1>6, <1>10, <2>2, <3>3 DEF StartedUpTo
    <3> QED
      BY <3>2, <3>4 DEF ChainOK, OnePoll
  <2> QED
    BY <2>1, <2>2
<1>14. PaidStepsStartOnce'
  BY <1>1, PaidStays DEF IInv, Spoilt
<1> QED
  BY <1>8, <1>11, <1>12, <1>13, <1>14 DEF IInv

---------------------------------------------------------------------------
(* The steps that start a job.                                             *)
Fresh(t, step) == \A i \in JobsOf(t) : jobs[i].step # step

LEMMA PaidOnce ==
    ASSUME IInv, NEW t \in Tasks, NEW step \in Steps, NEW on \in JobIds \cup {NoJob},
           CanStart, jobs' = Started(t, step, on),
           UNCHANGED <<overlapped, unanswered>>,
           t \notin Spoilt => Fresh(t, step)
    PROVE  PaidStepsStartOnce'
<1>1. /\ DOMAIN jobs' = DOMAIN jobs \cup {NextJob} /\ NextJob \notin DOMAIN jobs
      /\ \A i \in DOMAIN jobs : jobs'[i] = jobs[i] /\ i < NextJob
      /\ jobs'[NextJob].of = t /\ jobs'[NextJob].step = step
  BY StartedJob DEF IInv
<1>2. DOMAIN jobs \subseteq Nat /\ NextJob \in Nat
  BY JobsTyped DEF IInv, NextJob
<1> HIDE DEF NextJob
<1> SUFFICES ASSUME NEW i \in DOMAIN jobs', NEW j \in DOMAIN jobs',
                    i < j, jobs'[i].of = jobs'[j].of, jobs'[i].step = jobs'[j].step
             PROVE  jobs'[i].of \in Spoilt
  BY DEF PaidStepsStartOnce, Spoilt
<1>3. i \in DOMAIN jobs
  BY <1>1, <1>2
<1>4. CASE j \in DOMAIN jobs
  BY <1>1, <1>3, <1>4 DEF IInv, PaidStepsStartOnce, Spoilt
<1>5. CASE j = NextJob
  <2>1. jobs[i].of = t /\ jobs[i].step = step
    BY <1>1, <1>3, <1>5
  <2> QED
    BY <1>1, <1>3, <2>1 DEF Fresh, JobsOf
<1> QED
  BY <1>1, <1>4, <1>5

(* The other tasks' chains when one handler starts a job for a task.       *)
LEMMA OthersStay ==
    ASSUME IInv, NEW t \in Tasks, NEW x \in Tasks \ Spoilt, x # t,
           UNCHANGED <<entries, registry>>,
           JobsOf(x)' = JobsOf(x), \A i \in JobsOf(x) : jobs'[i] = jobs[i],
           NEW r \in Requests, request[r].at = "idle" \/ request[r].task = t,
           request'[r].task = t, \A s \in Requests \ {r} : request'[s] = request[s]
    PROVE  ChainOK(x)'
<1>1. ChainOK(x)
  BY DEF IInv
<1>2. \A s \in Requests : /\ Polling(s, x)' => s # r /\ Polling(s, x)
                          /\ Advancing(s, x)' => s # r /\ Advancing(s, x)
                          /\ Advancing(s, x) => s # r /\ Advancing(s, x)'
  BY DEF Polling, Advancing
<1>3. \A phase : (\A i \in JobsOf(x) : jobs[i].step \in UpTo(phase)) =>
                     \A i \in JobsOf(x)' : jobs'[i].step \in UpTo(phase)
  OBVIOUS
<1>4. OnePoll(x)'
  BY <1>1, <1>2 DEF ChainOK, OnePoll
<1>5. \A s \in Requests : Advancing(s, x)' => StartedUpTo(x, request[s].phase)'
  BY <1>1, <1>2, <1>3 DEF ChainOK, StartedUpTo
<1>6. \A s \in Requests : Polling(s, x)' /\ ~Advancing(s, x)' => StartedUpTo(x, entries[x].phase)'
  BY <1>1, <1>2, <1>3 DEF ChainOK, StartedUpTo
<1>7. x \in registry' /\ (\A s \in Requests : ~Advancing(s, x)') => StartedUpTo(x, entries[x].phase)'
  BY <1>1, <1>2, <1>3 DEF ChainOK, StartedUpTo
<1> QED
  BY <1>4, <1>5, <1>6, <1>7 DEF ChainOK

Before(phase) == IF phase = "rig" THEN "rig-check" ELSE "rig"

(* A poll starts the step after its phase.                                 *)
LEMMA NextStepInv ==
    ASSUME IInv, NEW r \in Requests, NEW t \in Tasks, request[r].task = t,
           request[r].at = "polled",
           NEW step \in {"rig", "retarget"}, entries[t].phase = Before(step),
           NEW on \in JobIds \cup {NoJob}, CanStart, jobs' = Started(t, step, on),
           request' = [request EXCEPT ![r] =
               [at |-> "advancing", task |-> t, job |-> NextJob, phase |-> step]],
           UNCHANGED <<entries, registry, overlapped, raced, lost, unanswered, served>>
    PROVE  IInv'
<1> DEFINE q == [at |-> "advancing", task |-> t, job |-> NextJob, phase |-> step]
<1>1. /\ jobs' \in Seq(Job) /\ Len(jobs') <= MaxJobs
      /\ NextJob \in JobIds /\ NextJob \notin DOMAIN jobs
      /\ \A i \in DOMAIN jobs : jobs'[i] = jobs[i]
      /\ jobs'[NextJob].step = step
      /\ JobsOf(t)' = JobsOf(t) \cup {NextJob}
      /\ \A x : x # t => JobsOf(x)' = JobsOf(x)
  BY StartedJob DEF IInv, Steps
<1> HIDE DEF NextJob
<1>2. TypeOK /\ request[r] # Idle /\ entries[t] # NoEntry
  BY Fields DEF IInv, HandlerOK
<1>3. /\ q \in Request /\ q.at = "advancing" /\ q.task = t /\ q.job = NextJob /\ q.phase = step
      /\ request' = [request EXCEPT ![r] = q]
  BY <1>1 DEF Request
<1> HIDE DEF q
<1>4. request'[r] = q /\ \A s \in Requests \ {r} : request'[s] = request[s]
  BY <1>2, <1>3 DEF TypeOK
<1>5. TypeOK'
  BY <1>1, <1>2, <1>3 DEF TypeOK
<1>6. \A x \in Tasks : JobsOf(x) \subseteq JobsOf(x)'
  BY <1>1
<1>7. \A x \in Tasks : EntryOK(x)'
  BY <1>6 DEF IInv, EntryOK
<1>8. \A s \in Requests : HandlerOK(s)'
  <2> SUFFICES ASSUME NEW s \in Requests, request'[s] # Idle PROVE HandlerOK(s)'
    BY DEF HandlerOK
  <2>1. CASE s = r
    BY <1>1, <1>2, <1>3, <1>4, <2>1 DEF HandlerOK
  <2>2. CASE s # r
    <3>1. HandlerOK(s) /\ request'[s] = request[s]
      BY <1>4, <2>2 DEF IInv
    <3>2. \A x \in Requests : request'[x].at = "registering" => request'[x] = request[x]
      BY <1>3, <1>4
    <3>3. request[s].at = "registering" => request[s].task # t
      BY <1>2, <3>1 DEF HandlerOK, Idle
    <3>4. request[s].task \in Tasks /\ request[s].job \in JobsOf(request[s].task)'
      BY <1>6, <3>1 DEF HandlerOK
    <3>5. request[s].at = "registering" => JobsOf(request[s].task)' = JobsOf(request[s].task)
      BY <1>1, <3>3
    <3> QED
      BY <3>1, <3>2, <3>4, <3>5 DEF HandlerOK
  <2> QED
    BY <2>1, <2>2
<1>9. t \notin Spoilt => ChainOK(t) /\ StartedUpTo(t, Before(step))
  <2>1. Polling(r, t) /\ ~Advancing(r, t)
    BY DEF Polling, Advancing
  <2> QED
    BY <2>1 DEF IInv, ChainOK
<1>10. t \notin Spoilt => Fresh(t, step)
  <2>1. step \notin UpTo(Before(step))
    BY DEF UpTo, Before
  <2> QED
    BY <1>9, <2>1 DEF Fresh, StartedUpTo
<1>11. \A x \in Tasks \ Spoilt' : ChainOK(x)'
  <2> SUFFICES ASSUME NEW x \in Tasks \ Spoilt' PROVE ChainOK(x)'
    OBVIOUS
  <2>0. x \in Tasks \ Spoilt
    BY DEF Spoilt
  <2>1. CASE x # t
    <3>1. JobsOf(x)' = JobsOf(x) /\ \A i \in JobsOf(x) : jobs'[i] = jobs[i]
      BY <1>1, <2>1 DEF JobsOf
    <3>2. request'[r].task = t
      BY <1>3, <1>4
    <3> QED
      BY <1>4, <2>0, <2>1, <3>1, <3>2, OthersStay
  <2>2. CASE x = t
    <3>1. ChainOK(t) /\ StartedUpTo(t, Before(step))
      BY <1>9, <2>0, <2>2
    <3>2. \A s \in Requests : Polling(s, t) => s = r
      BY <3>1 DEF ChainOK, OnePoll, Polling
    <3>3. \A s \in Requests : Polling(s, t)' => s = r
      BY <1>4, <3>2 DEF Polling
    <3>4. Advancing(r, t)' /\ \A s \in Requests : Advancing(s, t)' => s = r
      BY <1>3, <1>4, <3>3 DEF Advancing, Polling
    <3>5. \A i \in JobsOf(t) \cup {NextJob} : jobs'[i].step \in UpTo(step)
      <4>1. UpTo(Before(step)) \subseteq UpTo(step) /\ step \in UpTo(step)
        BY DEF UpTo, Before
      <4>2. \A i \in JobsOf(t) : jobs'[i].step \in UpTo(Before(step))
        BY <1>1, <3>1 DEF StartedUpTo, JobsOf
      <4> QED
        BY <1>1, <4>1, <4>2
    <3>6. StartedUpTo(t, request[r].phase)'
      BY <1>1, <1>3, <1>4, <3>5 DEF StartedUpTo
    <3> QED
      BY <2>2, <3>3, <3>4, <3>6 DEF ChainOK, OnePoll
  <2> QED
    BY <2>1, <2>2
<1>12. PaidStepsStartOnce'
  BY <1>10, PaidOnce DEF Steps
<1> QED
  BY <1>5, <1>7, <1>8, <1>11, <1>12 DEF IInv

LEMMA AdvanceChainInv ==
    ASSUME IInv, NEW r \in Requests, StartRig(r) \/ StartRetarget(r)
    PROVE  IInv'
<1> DEFINE t == request[r].task
<1>1. request[r].at = "polled" /\ TypeOK
  BY DEF StartRig, StartRetarget, IInv
<1>2. t \in Tasks /\ request[r] # Idle
  BY <1>1, Fields
<1>3. entries[t] # NoEntry /\ entries[t] \in Entry
  BY <1>1, <1>2 DEF IInv, HandlerOK, EntryOK
<1>4. entries[t].job \in JobIds \cup {NoJob} /\ NoJob \in JobIds \cup {NoJob}
  BY <1>3 DEF Entry
<1>5. PICK u \in Tasks : u = request[r].task
  BY <1>2
<1>6. CASE StartRig(r)
  <2>1. /\ entries[u].phase = Before("rig") /\ CanStart /\ jobs' = Started(u, "rig", NoJob)
        /\ request' = [request EXCEPT ![r] =
               [at |-> "advancing", task |-> u, job |-> NextJob, phase |-> "rig"]]
        /\ UNCHANGED <<entries, registry, overlapped, raced, lost, unanswered, served>>
    BY <1>5, <1>6 DEF StartRig, Before
  <2> QED
    BY <1>1, <1>4, <1>5, <2>1, NextStepInv
<1>7. CASE StartRetarget(r)
  <2>1. /\ entries[u].phase = Before("retarget") /\ CanStart
        /\ jobs' = Started(u, "retarget", entries[u].job)
        /\ request' = [request EXCEPT ![r] =
               [at |-> "advancing", task |-> u, job |-> NextJob, phase |-> "retarget"]]
        /\ UNCHANGED <<entries, registry, overlapped, raced, lost, unanswered, served>>
    BY <1>5, <1>7 DEF StartRetarget, Before
  <2> QED
    BY <1>1, <1>4, <1>5, <2>1, NextStepInv
<1> QED
  BY <1>6, <1>7

(* A POST starts the first job of a task nobody has heard of.              *)
LEMMA NewTaskInv ==
    ASSUME IInv, NEW r \in Requests, NEW t \in Tasks, request[r] = Idle, IsNew(t),
           NEW plan \in Plans, NEW step \in Steps,
           NEW on \in JobIds \cup {NoJob}, CanStart, jobs' = Started(t, step, on),
           request' = [request EXCEPT ![r] =
               [at |-> "registering", task |-> t, plan |-> plan, job |-> NextJob]],
           UNCHANGED <<entries, registry, overlapped, raced, lost, unanswered, served>>
    PROVE  IInv'
<1> DEFINE q == [at |-> "registering", task |-> t, plan |-> plan, job |-> NextJob]
<1>1. /\ jobs' \in Seq(Job) /\ Len(jobs') <= MaxJobs
      /\ NextJob \in JobIds /\ NextJob \notin DOMAIN jobs
      /\ \A i \in DOMAIN jobs : jobs'[i] = jobs[i]
      /\ JobsOf(t)' = JobsOf(t) \cup {NextJob}
      /\ \A x : x # t => JobsOf(x)' = JobsOf(x)
  BY StartedJob DEF IInv
<1> HIDE DEF NextJob
<1>2. /\ JobsOf(t) = {} /\ entries[t] = NoEntry /\ t \notin registry
      /\ \A s \in Requests : request[s] # Idle => request[s].task # t
  <2>1. JobsOf(t) = {}
    BY DEF IsNew, JobsOf
  <2>2. entries[t] = NoEntry
    BY <2>1 DEF IInv, EntryOK
  <2> QED
    BY <2>1, <2>2 DEF IInv, TypeOK, HandlerOK
<1>3. /\ q \in Request /\ q.at = "registering" /\ q.task = t /\ q.job = NextJob
      /\ request' = [request EXCEPT ![r] = q]
  BY <1>1 DEF Request
<1> HIDE DEF q
<1>4. request'[r] = q /\ \A s \in Requests \ {r} : request'[s] = request[s]
  BY <1>3 DEF IInv, TypeOK
<1>5. TypeOK'
  BY <1>1, <1>3 DEF IInv, TypeOK
<1>6. \A x \in Tasks : EntryOK(x)'
  BY <1>1, <1>2 DEF IInv, EntryOK
<1>7. \A s \in Requests : request[s].at \notin {"idle"} => request[s] # Idle
  BY DEF Idle
<1>8. \A s \in Requests : HandlerOK(s)'
  <2> SUFFICES ASSUME NEW s \in Requests, request'[s] # Idle PROVE HandlerOK(s)'
    BY DEF HandlerOK
  <2>1. \A x \in Requests \ {r} : request'[x].at = "registering" => request'[x].task # t
    BY <1>2, <1>4, <1>7
  <2>2. CASE s = r
    <3>1. /\ request'[s].task = t /\ request'[s].job = NextJob /\ request'[s].at = "registering"
          /\ JobsOf(t)' = {NextJob} /\ entries'[t] = NoEntry
      BY <1>1, <1>2, <1>3, <1>4, <2>2
    <3> QED
      BY <2>1, <2>2, <3>1 DEF HandlerOK
  <2>3. CASE s # r
    <3>1. HandlerOK(s) /\ request'[s] = request[s] /\ request[s].task # t
      BY <1>2, <1>4, <2>3 DEF IInv
    <3>2. \A x \in Requests :
              request'[x].at = "registering" /\ request'[x].task # t => request'[x] = request[x]
      BY <1>3, <1>4
    <3>3. \A x : x # t => JobsOf(x)' = JobsOf(x)
      BY <1>1
    <3> QED
      BY <3>1, <3>2, <3>3 DEF HandlerOK
  <2> QED
    BY <2>2, <2>3
<1>9. \A x \in Tasks \ Spoilt' : ChainOK(x)'
  <2> SUFFICES ASSUME NEW x \in Tasks \ Spoilt' PROVE ChainOK(x)'
    OBVIOUS
  <2>0. x \in Tasks \ Spoilt
    BY DEF Spoilt
  <2>1. CASE x # t
    <3>1. JobsOf(x)' = JobsOf(x) /\ \A i \in JobsOf(x) : jobs'[i] = jobs[i]
      BY <1>1, <2>1 DEF JobsOf
    <3>2. request'[r].task = t /\ request[r].at = "idle"
      BY <1>3, <1>4 DEF Idle
    <3> QED
      BY <1>4, <2>0, <2>1, <3>1, <3>2, OthersStay
  <2>2. CASE x = t
    <3>1. \A s \in Requests : ~Polling(s, t)' /\ ~Advancing(s, t)'
      BY <1>2, <1>3, <1>4, <1>7 DEF Polling, Advancing
    <3> QED
      BY <1>2, <2>2, <3>1 DEF ChainOK, OnePoll
  <2> QED
    BY <2>1, <2>2
<1>10. PaidStepsStartOnce'
  <2>1. Fresh(t, step)
    BY <1>2 DEF Fresh
  <2> QED
    BY <2>1, PaidOnce
<1> QED
  BY <1>5, <1>6, <1>8, <1>9, <1>10 DEF IInv

LEMMA PostInv ==
    ASSUME IInv, NEW r \in Requests, NEW t \in Tasks, NEW plan \in Plans, Post(r, t, plan)
    PROVE  IInv'
<1>1. FirstStep(plan) \in Steps
  BY DEF FirstStep, Steps
<1> QED
  BY <1>1, NewTaskInv DEF Post

LEMMA PostRetargetInv ==
    ASSUME IInv, NEW r \in Requests, NEW t \in Tasks, NEW source \in Tasks,
           PostRetarget(r, t, source)
    PROVE  IInv'
<1>1. source \in registry
  BY DEF PostRetarget, IsComplete
<1>2. entries[source].job \in JobIds
  BY <1>1 DEF IInv, TypeOK, Entry
<1> QED
  BY <1>2, NewTaskInv DEF PostRetarget, Steps, Plans

---------------------------------------------------------------------------
LEMMA InitInv == Init => IInv
<1> SUFFICES ASSUME Init PROVE IInv
  OBVIOUS
<1>1. jobs \in Seq(Job) /\ Len(jobs) = 0 /\ DOMAIN jobs = {}
  BY DEF Init
<1>2. TypeOK
  BY <1>1, MaxJobsAssumption DEF Init, TypeOK, Request
<1>3. /\ \A t \in Tasks : EntryOK(t)
      /\ \A r \in Requests : HandlerOK(r)
  BY DEF Init, EntryOK, HandlerOK
<1>4. \A t \in Tasks : ChainOK(t)
  BY DEF Init, ChainOK, OnePoll, Polling, Advancing, Idle
<1>5. PaidStepsStartOnce
  BY <1>1 DEF PaidStepsStartOnce
<1> QED
  BY <1>2, <1>3, <1>4, <1>5 DEF IInv

LEMMA StepInv == IInv /\ [Next]_vars => IInv'
<1> SUFFICES ASSUME IInv, [Next]_vars PROVE IInv'
  OBVIOUS
<1>1. ASSUME NEW r \in Requests, NEW t \in Tasks, NEW plan \in Plans, Post(r, t, plan)
      PROVE  IInv'
  BY <1>1, PostInv
<1>2. ASSUME NEW r \in Requests, NEW t \in Tasks, NEW source \in Tasks,
             PostRetarget(r, t, source)
      PROVE  IInv'
  BY <1>2, PostRetargetInv
<1>3. ASSUME NEW r \in Requests, RegisterTask(r) \/ AnswerLost(r) \/ Advance(r) PROVE IInv'
  BY <1>3, RegisterTaskInv, AnswerLostInv, AdvanceInv
<1>4. ASSUME NEW r \in Requests, NEW t \in Tasks, Poll(r, t) \/ Cancel(r, t) PROVE IInv'
  BY <1>4, PollInv, CancelInv
<1>5. ASSUME NEW r \in Requests, NEW b \in BOOLEAN, PollFails(r, b) \/ CancelUpstream(r, b)
      PROVE  IInv'
  BY <1>5, PollFailsInv, CancelUpstreamInv
<1>6. ASSUME NEW r \in Requests, ReportProgress(r) \/ ReportFailure(r) \/ RigCheckStop(r)
      PROVE  IInv'
  BY <1>6, ReportInv
<1>7. ASSUME NEW r \in Requests, StartRig(r) \/ StartRetarget(r) PROVE IInv'
  BY <1>7, AdvanceChainInv
<1>8. ASSUME NEW r \in Requests, Download(r) \/ Complete(r) PROVE IInv'
  BY <1>8, DownloadInv, CompleteInv
<1>9. ASSUME NEW t \in Tasks, Expire(t) PROVE IInv'
  BY <1>9, ExpireInv
<1>10. CASE Restart
  BY <1>10, RestartInv
<1>11. ASSUME NEW j \in JobIds, NEW state \in {"done", "unfit", "failed"}, JobEnds(j, state)
       PROVE  IInv'
  BY <1>11, JobEndsInv
<1>12. CASE UNCHANGED vars
  <2>1. TypeOK' /\ JobsAlike
    BY <1>12, SameJobs DEF IInv, TypeOK, vars
  <2>2. (\A r \in Requests : Stays(r)) /\ \A t \in Tasks : EntryStays(t)
    BY <1>12 DEF Stays, EntryStays, vars
  <2> QED
    BY <1>12, <2>1, <2>2, PlainStep DEF vars, Spoilt
<1> QED
  BY <1>1, <1>2, <1>3, <1>4, <1>5, <1>6, <1>7, <1>8, <1>9, <1>10, <1>11, <1>12 DEF Next

LEMMA Invariant == Spec => []IInv
  BY InitInv, StepInv, PTL DEF Spec

(* The variables keep their types, and a task in the registry has an entry,  *)
(* for any number of tasks and of handlers at once.  generation-tasks.ts.    *)
THEOREM Typed == Spec => []TypeOK
<1>1. IInv => TypeOK
  BY DEF IInv
<1> QED
  BY <1>1, Invariant, PTL

(* For any number of handlers, and whatever polls, stops, expiries and       *)
(* restarts come between their awaits, no step of a chain is paid for twice, *)
(* but where two polls of the task overlapped or an answer was lost.         *)
(* generate-node.ts: advanceAnimateChain.                                    *)
THEOREM StepsArePaidOnce == Spec => []PaidStepsStartOnce
<1>1. IInv => PaidStepsStartOnce
  BY DEF IInv
<1> QED
  BY <1>1, Invariant, PTL

---------------------------------------------------------------------------
(* Who follows a task's jobs, when nothing has excused it from being followed. *)

Excused == lost \cup unanswered \cup raced \cup overlapped

Asking(r, t) == request[r].at \in {"polled", "downloading"} /\ request[r].task = t

(* A final answer is the state of the job it is about.                     *)
AnswerOK(r) ==
    request[r].at = "polled" /\ request[r].answer # "running" =>
        jobs[request[r].job].state # "running"

(* A handler polls the job its task's entry names, of a task that is in the  *)
(* registry; when it moves the entry on, that job has ended.                 *)
FollowedOK(t) ==
    /\ \A r \in Requests : Polling(r, t) => t \in registry
    /\ \A r \in Requests : Asking(r, t) => request[r].job = entries[t].job
    /\ \A r \in Requests : Advancing(r, t) => jobs[entries[t].job].state # "running"
    /\ \A j \in JobsOf(t) : jobs[j].state = "running" => IsFollowed(j)

FInv ==
    /\ \A r \in Requests : AnswerOK(r)
    /\ \A t \in Tasks \ Excused : FollowedOK(t)

(* No job starts to run again.                                             *)
JobsStop == \A i \in DOMAIN jobs : jobs'[i].state = "running" => jobs[i].state = "running"

OfTask(r, t) == request[r] # Idle /\ request[r].task = t

(* Those who follow a job of a task are its entry and its handlers.        *)
LEMMA Followers ==
    ASSUME IInv, NEW t \in Tasks, NEW j \in JobsOf(t)
    PROVE  IsFollowed(j) <=> \/ t \in registry /\ entries[t].job = j
                             \/ \E r \in Requests : OfTask(r, t) /\ request[r].job = j
<1>1. \A x \in registry : entries[x].job = j => x = t
  BY DEF IInv, TypeOK, EntryOK, JobsOf
<1>2. \A r \in Requests : request[r] # Idle /\ request[r].job = j => request[r].task = t
  BY DEF IInv, HandlerOK, JobsOf
<1> QED
  BY <1>1, <1>2 DEF IsFollowed, OfTask

LEMMA PollsHaveEntries ==
    ASSUME IInv, NEW t \in Tasks, NEW r \in Requests, Polling(r, t)
    PROVE  OfTask(r, t) /\ entries[t].job \in JobsOf(t) /\ request[r].job \in JobsOf(t)
<1>1. request[r] # Idle /\ request[r].task = t
  BY DEF Polling, Idle
<1>2. entries[t] # NoEntry /\ request[r].job \in JobsOf(t)
  BY <1>1 DEF IInv, HandlerOK, Polling
<1> QED
  BY <1>1, <1>2 DEF IInv, EntryOK, OfTask

LEMMA AskersPoll ==
    ASSUME NEW t, NEW r \in Requests
    PROVE  Polling(r, t) <=> Asking(r, t) \/ Advancing(r, t)
  BY DEF Polling, Asking, Advancing

LEMMA AnswersStay ==
    ASSUME IInv, FInv, JobsStop,
           \A s \in Requests : request'[s] = request[s] \/ request'[s].at # "polled"
    PROVE  \A s \in Requests : AnswerOK(s)'
<1> SUFFICES ASSUME NEW s \in Requests, request'[s] = request[s] PROVE AnswerOK(s)'
  BY DEF AnswerOK
<1>1. request[s].at = "polled" => request[s].job \in DOMAIN jobs
  BY DEF IInv, HandlerOK, JobsOf, Idle
<1> QED
  BY <1>1 DEF FInv, AnswerOK, JobsStop

(* A step of other tasks' handlers.                                        *)
LEMMA OtherTask ==
    ASSUME IInv, IInv', FInv, JobsStop, NEW t \in Tasks \ Excused,
           JobsOf(t)' = JobsOf(t), t \in registry' <=> t \in registry,
           entries'[t].job = entries[t].job,
           \A s \in Requests : request'[s] = request[s] \/ (~OfTask(s, t) /\ ~OfTask(s, t)')
    PROVE  FollowedOK(t)'
<1>1. FollowedOK(t)
  BY DEF FInv
<1>2. \A s \in Requests : Polling(s, t)' => Polling(s, t) /\ request'[s] = request[s]
  BY DEF Polling, OfTask, Idle
<1>3. \A s \in Requests : Asking(s, t)' => Asking(s, t) /\ request'[s] = request[s]
  BY <1>2 DEF Polling, Asking
<1>4. \A s \in Requests : Advancing(s, t)' => Advancing(s, t)
  BY <1>2 DEF Polling, Advancing
<1>5. \A s \in Requests : Advancing(s, t)' => jobs'[entries'[t].job].state # "running"
  <2> SUFFICES ASSUME NEW s \in Requests, Advancing(s, t)
               PROVE  jobs'[entries[t].job].state # "running"
    BY <1>4
  <2>1. entries[t].job \in DOMAIN jobs
    BY PollsHaveEntries, AskersPoll DEF JobsOf
  <2> QED
    BY <1>1, <2>1 DEF FollowedOK, JobsStop
<1>6. \A j \in JobsOf(t) : jobs'[j].state = "running" => IsFollowed(j)'
  <2> SUFFICES ASSUME NEW j \in JobsOf(t), jobs'[j].state = "running" PROVE IsFollowed(j)'
    OBVIOUS
  <2>1. IsFollowed(j)
    BY <1>1 DEF FollowedOK, JobsStop, JobsOf
  <2>2. \/ t \in registry /\ entries[t].job = j
        \/ \E r \in Requests : OfTask(r, t) /\ request[r].job = j
    BY <2>1, Followers
  <2> QED
    BY <2>2 DEF OfTask, IsFollowed
<1> QED
  BY <1>1, <1>2, <1>3, <1>5, <1>6 DEF FollowedOK

(* The end of a handler, for its own task: the task stays in the registry,   *)
(* or leaves it with no other poll of it and its job ended.                  *)
LEMMA OwnEnd ==
    ASSUME IInv, IInv', FInv, JobsStop, NEW t \in Tasks \ Excused,
           NEW r \in Requests, OfTask(r, t), Reply(r), JobsOf(t)' = JobsOf(t),
           entries'[t].job = entries[t].job,
           \/ t \in registry' <=> t \in registry
           \/ /\ \A s \in Requests \ {r} : ~Polling(s, t)
              /\ jobs'[entries[t].job].state # "running",
           jobs'[request[r].job].state = "running" =>
               t \in registry' /\ entries[t].job = request[r].job
    PROVE  FollowedOK(t)'
<1>1. FollowedOK(t)
  BY DEF FInv
<1>2. request'[r] = Idle /\ \A s \in Requests \ {r} : request'[s] = request[s]
  BY DEF Reply, IInv, TypeOK
<1>3. \A s \in Requests : /\ Polling(s, t)' => s # r /\ Polling(s, t)
                          /\ Asking(s, t)' => s # r /\ Asking(s, t)
                          /\ Advancing(s, t)' => s # r /\ Advancing(s, t)
  BY <1>2 DEF Polling, Asking, Advancing, Idle
<1>4. \A s \in Requests : Polling(s, t)' => t \in registry'
  BY <1>1, <1>3 DEF FollowedOK
<1>5. \A s \in Requests : Asking(s, t)' => request'[s].job = entries'[t].job
  BY <1>1, <1>2, <1>3 DEF FollowedOK
<1>6. \A s \in Requests : Advancing(s, t)' => jobs'[entries'[t].job].state # "running"
  <2> SUFFICES ASSUME NEW s \in Requests, Advancing(s, t)
               PROVE  jobs'[entries[t].job].state # "running"
    BY <1>3
  <2>1. entries[t].job \in DOMAIN jobs
    BY PollsHaveEntries, AskersPoll DEF JobsOf
  <2> QED
    BY <1>1, <2>1 DEF FollowedOK, JobsStop
<1>7. \A j \in JobsOf(t) : jobs'[j].state = "running" => IsFollowed(j)'
  <2> SUFFICES ASSUME NEW j \in JobsOf(t), jobs'[j].state = "running" PROVE IsFollowed(j)'
    OBVIOUS
  <2>1. IsFollowed(j)
    BY <1>1 DEF FollowedOK, JobsStop, JobsOf
  <2>2. \/ t \in registry /\ entries[t].job = j
        \/ \E s \in Requests : OfTask(s, t) /\ request[s].job = j
    BY <2>1, Followers
  <2>3. CASE t \in registry /\ entries[t].job = j
    BY <2>3 DEF IsFollowed
  <2>4. CASE \E s \in Requests : s # r /\ OfTask(s, t) /\ request[s].job = j
    BY <1>2, <2>4 DEF OfTask, IsFollowed
  <2>5. CASE request[r].job = j
    BY <2>5 DEF IsFollowed
  <2> QED
    BY <2>2, <2>3, <2>4, <2>5
<1> QED
  BY <1>4, <1>5, <1>6, <1>7 DEF FollowedOK

(* A step that ends a handler keeps every task followed.                   *)
LEMMA EndFollowed ==
    ASSUME IInv, IInv', FInv, JobsStop, NEW r \in Requests, request[r] # Idle, Reply(r),
           Excused \subseteq Excused', \A x : JobsOf(x)' = JobsOf(x),
           \A x \in Tasks : entries'[x].job = entries[x].job,
           registry' = registry \/ registry' = registry \ {request[r].task},
           request[r].task \in Excused' \/
               /\ \/ registry' = registry
                  \/ /\ \A s \in Requests \ {r} : ~Polling(s, request[r].task)
                     /\ jobs'[entries[request[r].task].job].state # "running"
               /\ jobs'[request[r].job].state = "running" =>
                     /\ request[r].task \in registry'
                     /\ entries[request[r].task].job = request[r].job
    PROVE  FInv'
<1>1. request'[r] = Idle /\ \A s \in Requests \ {r} : request'[s] = request[s]
  BY DEF Reply, IInv, TypeOK
<1>2. \A s \in Requests : AnswerOK(s)'
  BY <1>1, AnswersStay DEF Idle
<1>3. \A t \in Tasks \ Excused' : FollowedOK(t)'
  <2> SUFFICES ASSUME NEW t \in Tasks \ Excused' PROVE FollowedOK(t)'
    OBVIOUS
  <2>1. CASE request[r].task = t
    BY <2>1, OwnEnd DEF OfTask
  <2>2. CASE request[r].task # t
    <3>1. \A s \in Requests : request'[s] = request[s] \/ (~OfTask(s, t) /\ ~OfTask(s, t)')
      BY <1>1, <2>2 DEF OfTask
    <3>2. t \in registry' <=> t \in registry
      BY <2>2
    <3> QED
      BY <3>1, <3>2, OtherTask
  <2> QED
    BY <2>1, <2>2
<1> QED
  BY <1>2, <1>3 DEF FInv

LEMMA SameStop == ASSUME UNCHANGED jobs PROVE JobsStop
  BY DEF JobsStop

(* A poll that ends and leaves its task in the registry.                   *)
LEMMA KeptFollowed ==
    ASSUME IInv, IInv', FInv, NEW r \in Requests,
           request[r].at \in {"polled", "downloading"}, Reply(r),
           UNCHANGED <<registry, jobs>>, Excused \subseteq Excused',
           \A x \in Tasks : entries'[x].job = entries[x].job
    PROVE  FInv'
<1> DEFINE t == request[r].task
<1>1. t \in Tasks /\ request[r] # Idle /\ Asking(r, t) /\ Polling(r, t)
  BY Fields DEF IInv, Idle, Asking, Polling
<1>2. t \in Excused' \/ (t \in registry' /\ entries[t].job = request[r].job)
  BY <1>1 DEF FInv, FollowedOK
<1>3. JobsStop /\ \A x : JobsOf(x)' = JobsOf(x)
  BY SameStop DEF JobsOf
<1> HIDE DEF t
<1>4. request[r].task = t
  BY DEF t
<1> QED
  BY <1>1, <1>2, <1>3, <1>4, EndFollowed

(* A poll that forgets its task, whose job has ended.                      *)
LEMMA FinalFollowed ==
    ASSUME IInv, IInv', FInv, NEW r \in Requests,
           request[r].at = "polled", request[r].answer # "running", Reply(r),
           Evict(request[r].task, r),
           UNCHANGED <<entries, jobs, overlapped, lost, unanswered>>
    PROVE  FInv'
<1> DEFINE t == request[r].task
<1>1. t \in Tasks /\ request[r] # Idle /\ Asking(r, t) /\ Polling(r, t)
  BY Fields DEF IInv, Idle, Asking, Polling
<1>2. jobs[request[r].job].state # "running"
  BY DEF FInv, AnswerOK
<1>3. Excused \subseteq Excused' /\ registry' = registry \ {t}
  BY DEF Excused, Evict
<1>4. t \in Excused' \/ \A s \in Requests \ {r} : ~Polling(s, t)
  BY DEF Excused, Evict
<1>5. t \in Excused' \/ entries[t].job = request[r].job
  BY <1>1, <1>3 DEF FInv, FollowedOK
<1>6. JobsStop /\ \A x : JobsOf(x)' = JobsOf(x)
  BY SameStop DEF JobsOf
<1> HIDE DEF t
<1>7. request[r].task = t
  BY DEF t
<1> QED
  BY <1>1, <1>2, <1>3, <1>4, <1>5, <1>6, <1>7, EndFollowed

LEMMA AnswerLostFollowed ==
    ASSUME IInv, IInv', FInv, NEW r \in Requests, AnswerLost(r) PROVE FInv'
<1>1. request[r] # Idle /\ request[r].task \in Excused' /\ Excused \subseteq Excused'
  BY DEF AnswerLost, Idle, Excused
<1>2. JobsStop /\ \A x : JobsOf(x)' = JobsOf(x)
  BY SameStop DEF JobsOf, AnswerLost
<1> QED
  BY <1>1, <1>2, EndFollowed DEF AnswerLost

LEMMA PollFailsFollowed ==
    ASSUME IInv, IInv', FInv, NEW r \in Requests, NEW terminal \in BOOLEAN,
           PollFails(r, terminal)
    PROVE  FInv'
<1>1. CASE terminal
  <2>1. request[r] # Idle /\ request[r].task \in Excused' /\ Excused \subseteq Excused'
    BY <1>1 DEF PollFails, Evict, Idle, Excused
  <2>2. JobsStop /\ \A x : JobsOf(x)' = JobsOf(x)
    BY SameStop DEF JobsOf, PollFails
  <2>3. registry' = registry \ {request[r].task}
    BY <1>1 DEF PollFails, Evict
  <2> QED
    BY <2>1, <2>2, <2>3, EndFollowed DEF PollFails
<1>2. CASE ~terminal
  <2>1. Excused \subseteq Excused'
    BY <1>2 DEF PollFails, Excused
  <2> QED
    BY <1>2, <2>1, KeptFollowed DEF PollFails
<1> QED
  BY <1>1, <1>2

LEMMA ReportProgressFollowed ==
    ASSUME IInv, IInv', FInv, NEW r \in Requests, ReportProgress(r) PROVE FInv'
  BY KeptFollowed DEF ReportProgress, Excused

LEMMA ReportFailureFollowed ==
    ASSUME IInv, IInv', FInv, NEW r \in Requests, ReportFailure(r) PROVE FInv'
  BY FinalFollowed DEF ReportFailure

LEMMA RigCheckStopFollowed ==
    ASSUME IInv, IInv', FInv, NEW r \in Requests, RigCheckStop(r) PROVE FInv'
  BY FinalFollowed DEF RigCheckStop

LEMMA CompleteFollowed ==
    ASSUME IInv, IInv', FInv, NEW r \in Requests, Complete(r) PROVE FInv'
<1>1. \A x \in Tasks : entries'[x].job = entries[x].job
  <2>1. entries \in [Tasks -> Entry \cup {NoEntry}] /\ registry \subseteq {t \in Tasks : entries[t] # NoEntry}
    BY DEF IInv, TypeOK
  <2>2. \A x \in registry : entries[x] \in Entry
    BY <2>1
  <2> QED
    BY <2>1, <2>2 DEF Complete, Entry
<1>2. Excused \subseteq Excused'
  BY DEF Complete, Excused
<1> QED
  BY <1>1, <1>2, KeptFollowed DEF Complete

LEMMA StateSet ==
    ASSUME TypeOK, NEW j \in DOMAIN jobs,
           NEW state \in {"done", "unfit", "failed", "cancelled"},
           jobs' = [jobs EXCEPT ![j].state = state]
    PROVE  JobsStop /\ jobs'[j].state = state
<1>1. jobs \in [1..Len(jobs) -> Job]
  BY DEF TypeOK
<1>2. jobs' = [jobs EXCEPT ![j] = [jobs[j] EXCEPT !.state = state]]
  OBVIOUS
<1>3. jobs'[j].state = state /\ \A i \in DOMAIN jobs \ {j} : jobs'[i] = jobs[i]
  BY <1>1, <1>2 DEF Job
<1> QED
  BY <1>3 DEF JobsStop

LEMMA CancelUpstreamFollowed ==
    ASSUME IInv, IInv', FInv, NEW r \in Requests, NEW accepted \in BOOLEAN,
           CancelUpstream(r, accepted)
    PROVE  FInv'
<1> DEFINE t == request[r].task
<1>1. /\ request[r] # Idle /\ request[r].job \in DOMAIN jobs /\ TypeOK
      /\ Reply(r) /\ UNCHANGED <<entries, registry, overlapped, raced, unanswered>>
  BY DEF CancelUpstream, Idle, IInv, HandlerOK, JobsOf
<1>2. CASE accepted /\ jobs[request[r].job].state = "running"
  <2>1. jobs' = [jobs EXCEPT ![request[r].job].state = "cancelled"] /\ lost' = lost
    BY <1>2 DEF CancelUpstream
  <2>2. JobsStop /\ jobs'[request[r].job].state = "cancelled" /\ JobsAlike
    BY <1>1, <2>1, StateSet, JobEnded
  <2>3. Excused \subseteq Excused' /\ \A x : JobsOf(x)' = JobsOf(x)
    BY <1>1, <2>1, <2>2 DEF Excused, JobsAlike
  <2> QED
    BY <1>1, <2>2, <2>3, EndFollowed
<1>3. CASE ~(accepted /\ jobs[request[r].job].state = "running")
  <2>1. lost' = lost \cup {t} /\ jobs' = jobs
    BY <1>3 DEF CancelUpstream
  <2>2. JobsStop /\ \A x : JobsOf(x)' = JobsOf(x)
    BY <2>1, SameStop DEF JobsOf
  <2>3. Excused \subseteq Excused' /\ t \in Excused'
    BY <1>1, <2>1 DEF Excused
  <2> QED
    BY <1>1, <2>2, <2>3, EndFollowed
<1> QED
  BY <1>2, <1>3

LEMMA DownloadFollowed ==
    ASSUME IInv, IInv', FInv, NEW r \in Requests, Download(r) PROVE FInv'
<1> DEFINE q == request[r]
           t == q.task
<1>1. Excused' = Excused /\ UNCHANGED <<entries, registry, jobs>> /\ JobsStop
  BY SameStop DEF Download, Excused
<1>2. t \in Tasks /\ q.at = "polled"
  BY Fields DEF IInv, Download
<1>3. CASE jobs[q.job].step = "rig-check"
  BY <1>1, <1>2, <1>3, KeptFollowed DEF Download, Reply
<1>4. CASE jobs[q.job].step # "rig-check"
  <2>1. request' = [request EXCEPT ![r] = [q EXCEPT !.at = "downloading"]]
    BY <1>4 DEF Download
  <2>2. q \in [at : {"polled", "downloading"}, task : Tasks, job : JobIds,
               answer : {"running", "done", "unfit", "failed", "cancelled"}]
    BY <1>2 DEF IInv, TypeOK, Request, Idle
  <2>3. /\ request'[r].at = "downloading" /\ request'[r].task = t /\ request'[r].job = q.job
        /\ request'[r] # Idle
        /\ \A s \in Requests \ {r} : request'[s] = request[s]
    BY <2>1, <2>2 DEF IInv, TypeOK, Idle
  <2> HIDE DEF q, t
  <2>4. request[r] = q /\ request[r].task = t
    BY DEF q, t
  <2>5. \A s \in Requests : AnswerOK(s)'
    BY <1>1, <2>3, AnswersStay
  <2>6. ASSUME NEW x \in Tasks \ Excused PROVE FollowedOK(x)'
    <3>1. JobsOf(x)' = JobsOf(x)
      BY <1>1 DEF JobsOf
    <3>2. CASE x # t
      BY <1>1, <2>3, <2>4, <3>1, <3>2, OtherTask DEF OfTask
    <3>3. CASE x = t
      <4>1. FollowedOK(x)
        BY DEF FInv
      <4>2. \A s \in Requests :
               /\ Polling(s, x)' => Polling(s, x)
               /\ Asking(s, x)' => Asking(s, x) /\ request'[s].job = request[s].job
               /\ Advancing(s, x)' => Advancing(s, x)
        BY <1>2, <2>3, <2>4, <3>3 DEF Polling, Asking, Advancing
      <4>3. \A j : IsFollowed(j) => IsFollowed(j)'
        BY <1>1, <2>3, <2>4 DEF IsFollowed
      <4>4. \A s \in Requests : Advancing(s, x)' => jobs'[entries'[x].job].state # "running"
        BY <1>1, <4>1, <4>2 DEF FollowedOK
      <4> QED
        BY <1>1, <3>1, <4>1, <4>2, <4>3, <4>4 DEF FollowedOK
    <3> QED
      BY <3>2, <3>3
  <2> QED
    BY <1>1, <2>5, <2>6 DEF FInv
<1> QED
  BY <1>3, <1>4

LEMMA JobEndsFollowed ==
    ASSUME IInv, IInv', FInv, NEW j \in JobIds, NEW state \in {"done", "unfit", "failed"},
           JobEnds(j, state)
    PROVE  FInv'
<1>1. /\ TypeOK /\ j \in DOMAIN jobs
      /\ jobs' = [jobs EXCEPT ![j].state = state]
      /\ UNCHANGED <<entries, registry, request>>
  BY JobsTyped DEF IInv, JobEnds
<1>2. JobsStop /\ JobsAlike
  BY <1>1, StateSet, JobEnded
<1>3. Excused' = Excused
  BY DEF JobEnds, Excused
<1>4. \A s \in Requests : AnswerOK(s)'
  BY <1>1, <1>2, AnswersStay
<1>5. \A t \in Tasks \ Excused : FollowedOK(t)'
  BY <1>1, <1>2, OtherTask DEF JobsAlike
<1> QED
  BY <1>3, <1>4, <1>5 DEF FInv

LEMMA StutterFollowed ==
    ASSUME IInv, IInv', FInv, UNCHANGED vars PROVE FInv'
<1>1. JobsStop /\ \A x : JobsOf(x)' = JobsOf(x)
  BY SameStop DEF vars, JobsOf
<1>2. Excused' = Excused
  BY DEF vars, Excused
<1>3. \A s \in Requests : AnswerOK(s)'
  BY <1>1, AnswersStay DEF vars
<1>4. \A t \in Tasks \ Excused : FollowedOK(t)'
  BY <1>1, OtherTask DEF vars
<1> QED
  BY <1>2, <1>3, <1>4 DEF FInv

LEMMA ExpireFollowed ==
    ASSUME IInv, IInv', FInv, NEW t \in Tasks, Expire(t) PROVE FInv'
<1>1. JobsStop /\ \A x : JobsOf(x)' = JobsOf(x)
  BY SameStop DEF Expire, JobsOf
<1>2. Excused' = Excused \cup {t}
  BY DEF Expire, Excused
<1>3. \A s \in Requests : AnswerOK(s)'
  BY <1>1, AnswersStay DEF Expire
<1>4. \A x \in Tasks \ (Excused \cup {t}) : FollowedOK(x)'
  BY <1>1, OtherTask DEF Expire
<1> QED
  BY <1>2, <1>3, <1>4 DEF FInv

LEMMA RestartFollowed ==
    ASSUME IInv, FInv, Restart PROVE FInv'
<1>1. \A r \in Requests : request'[r] = Idle
  BY DEF Restart
<1>2. \A r \in Requests : AnswerOK(r)'
  BY <1>1 DEF AnswerOK, Idle
<1>3. ASSUME NEW t \in Tasks \ Excused' PROVE FollowedOK(t)'
  <2>1. t \notin Excused /\ t \notin registry /\ \A r \in Requests : ~OfTask(r, t)
    BY DEF Restart, Excused, OfTask
  <2>2. \A r \in Requests : ~Polling(r, t)' /\ ~Asking(r, t)' /\ ~Advancing(r, t)'
    BY <1>1 DEF Polling, Asking, Advancing, Idle
  <2>3. \A j \in JobsOf(t) : ~IsFollowed(j)
    BY <2>1, Followers
  <2>4. \A j \in JobsOf(t) : jobs[j].state # "running"
    BY <2>1, <2>3 DEF FInv, FollowedOK
  <2>5. jobs' = jobs /\ JobsOf(t)' = JobsOf(t)
    BY DEF Restart, JobsOf
  <2> QED
    BY <2>2, <2>4, <2>5 DEF FollowedOK
<1> QED
  BY <1>2, <1>3 DEF FInv

LEMMA PollFollowed ==
    ASSUME IInv, IInv', FInv, NEW r \in Requests, NEW t \in Tasks, Poll(r, t)
    PROVE  FInv'
<1> DEFINE q == [at |-> "polled", task |-> t, job |-> entries[t].job,
                 answer |-> jobs[entries[t].job].state]
<1>1. /\ request[r] = Idle /\ t \in registry
      /\ request' = [request EXCEPT ![r] = q]
      /\ UNCHANGED <<entries, registry, jobs, raced, lost, unanswered>>
  BY DEF Poll, IsRunning
<1>2. request'[r] = q /\ \A s \in Requests \ {r} : request'[s] = request[s]
  BY <1>1 DEF IInv, TypeOK
<1>3. /\ q.at = "polled" /\ q.task = t /\ q.job = entries[t].job
      /\ q.answer = jobs[entries[t].job].state
  OBVIOUS
<1> HIDE DEF q
<1>4. Excused \subseteq Excused'
  BY DEF Poll, Excused
<1>5. JobsStop /\ \A x : JobsOf(x)' = JobsOf(x)
  BY <1>1, SameStop DEF JobsOf
<1>6. \A s \in Requests : AnswerOK(s)'
  <2>1. AnswerOK(r)'
    BY <1>1, <1>2, <1>3 DEF AnswerOK
  <2>2. \A s \in Requests \ {r} : AnswerOK(s)'
    BY <1>1, <1>2 DEF FInv, AnswerOK
  <2> QED
    BY <2>1, <2>2
<1>7. ASSUME NEW x \in Tasks \ Excused' PROVE FollowedOK(x)'
  <2>1. CASE x # t
    <3>1. \A s \in Requests : request'[s] = request[s] \/ (~OfTask(s, x) /\ ~OfTask(s, x)')
      BY <1>1, <1>2, <1>3, <2>1 DEF OfTask
    <3> QED
      BY <1>1, <1>4, <1>5, <3>1, OtherTask
  <2>2. CASE x = t
    <3>1. \A s \in Requests : ~Polling(s, t)
      BY <2>2 DEF Poll, Excused
    <3>2. \A s \in Requests : Polling(s, t)' => s = r
      BY <1>2, <3>1 DEF Polling
    <3>3. \A s \in Requests : /\ Asking(s, t)' => s = r
                              /\ ~Advancing(s, t)'
      BY <1>2, <1>3, <3>2 DEF Polling, Asking, Advancing
    <3>4. FollowedOK(t)
      BY <1>4, <2>2 DEF FInv
    <3>5. \A j : IsFollowed(j) => IsFollowed(j)'
      BY <1>1, <1>2 DEF IsFollowed
    <3> QED
      BY <1>1, <1>2, <1>3, <1>5, <2>2, <3>2, <3>3, <3>4, <3>5 DEF FollowedOK
  <2> QED
    BY <2>1, <2>2
<1> QED
  BY <1>6, <1>7 DEF FInv

LEMMA CancelFollowed ==
    ASSUME IInv, IInv', FInv, NEW r \in Requests, NEW t \in Tasks, Cancel(r, t)
    PROVE  FInv'
<1> DEFINE q == [at |-> "cancelling", task |-> t, job |-> entries[t].job]
<1>1. /\ request[r] = Idle /\ t \in registry
      /\ request' = [request EXCEPT ![r] = q]
      /\ UNCHANGED <<entries, jobs, overlapped, lost, unanswered>>
      /\ registry' = registry \ {t}
  BY DEF Cancel, IsRunning, Evict
<1>2. request'[r] = q /\ \A s \in Requests \ {r} : request'[s] = request[s]
  BY <1>1 DEF IInv, TypeOK
<1>3. q.at = "cancelling" /\ q.task = t /\ q.job = entries[t].job /\ q # Idle
  BY DEF Idle
<1> HIDE DEF q
<1>4. Excused \subseteq Excused'
  BY DEF Cancel, Evict, Excused
<1>5. JobsStop /\ \A x : JobsOf(x)' = JobsOf(x)
  BY <1>1, SameStop DEF JobsOf
<1>6. \A s \in Requests : AnswerOK(s)'
  BY <1>2, <1>3, <1>5, AnswersStay
<1>7. ASSUME NEW x \in Tasks \ Excused' PROVE FollowedOK(x)'
  <2>1. CASE x # t
    <3>1. \A s \in Requests : request'[s] = request[s] \/ (~OfTask(s, x) /\ ~OfTask(s, x)')
      BY <1>1, <1>2, <1>3, <2>1 DEF OfTask
    <3> QED
      BY <1>1, <1>4, <1>5, <2>1, <3>1, OtherTask
  <2>2. CASE x = t
    <3>1. \A s \in Requests \ {r} : ~Polling(s, t)
      BY <2>2 DEF Cancel, Evict, Excused
    <3>2. \A s \in Requests : ~Polling(s, t)'
      BY <1>2, <1>3, <3>1 DEF Polling
    <3>3. \A s \in Requests : ~Asking(s, t)' /\ ~Advancing(s, t)'
      BY <3>2 DEF Polling, Asking, Advancing
    <3>4. ASSUME NEW j \in JobsOf(t), jobs[j].state = "running" PROVE IsFollowed(j)'
      <4>1. \/ entries[t].job = j
            \/ \E s \in Requests : OfTask(s, t) /\ request[s].job = j
        BY <1>4, <2>2, <3>4, Followers DEF FInv, FollowedOK
      <4>2. CASE entries[t].job = j
        BY <1>2, <1>3, <4>2 DEF IsFollowed
      <4>3. CASE \E s \in Requests : OfTask(s, t) /\ request[s].job = j
        BY <1>1, <1>2, <4>3 DEF OfTask, IsFollowed
      <4> QED
        BY <4>1, <4>2, <4>3
    <3> QED
      BY <1>1, <1>5, <2>2, <3>2, <3>3, <3>4 DEF FollowedOK
  <2> QED
    BY <2>1, <2>2
<1> QED
  BY <1>6, <1>7 DEF FInv

LEMMA RegisterTaskFollowed ==
    ASSUME IInv, IInv', FInv, NEW r \in Requests, RegisterTask(r) PROVE FInv'
<1> DEFINE t == request[r].task
           e == [plan |-> request[r].plan, phase |-> jobs[request[r].job].step,
                 job |-> request[r].job, status |-> "running"]
<1>1. /\ t \in Tasks /\ request[r] # Idle /\ request[r].at = "registering"
      /\ entries' = [entries EXCEPT ![t] = e]
      /\ registry' = registry \cup {t} /\ Reply(r)
      /\ UNCHANGED <<jobs, overlapped, raced, lost, unanswered>>
  BY Fields DEF RegisterTask, IInv, Idle
<1>2. entries'[t].job = request[r].job /\ \A x \in Tasks \ {t} : entries'[x] = entries[x]
  BY <1>1 DEF IInv, TypeOK
<1> HIDE DEF t, e
<1>3. request[r].task = t
  BY DEF t
<1>4. request'[r] = Idle /\ \A s \in Requests \ {r} : request'[s] = request[s]
  BY <1>1 DEF Reply, IInv, TypeOK
<1>5. JobsOf(t) = {request[r].job} /\ \A s \in Requests \ {r} : ~OfTask(s, t)
  BY <1>1, <1>3 DEF IInv, HandlerOK, OfTask
<1>6. Excused' = Excused /\ JobsStop /\ \A x : JobsOf(x)' = JobsOf(x)
  BY <1>1, SameStop DEF JobsOf, Excused
<1>7. \A s \in Requests : AnswerOK(s)'
  BY <1>4, <1>6, AnswersStay DEF Idle
<1>8. ASSUME NEW x \in Tasks \ Excused PROVE FollowedOK(x)'
  <2>1. CASE x # t
    <3>1. \A s \in Requests : request'[s] = request[s] \/ (~OfTask(s, x) /\ ~OfTask(s, x)')
      BY <1>3, <1>4, <2>1 DEF OfTask
    <3>2. entries'[x].job = entries[x].job /\ (x \in registry' <=> x \in registry)
      BY <1>1, <1>2, <2>1
    <3> QED
      BY <1>6, <3>1, <3>2, OtherTask
  <2>2. CASE x = t
    <3>1. \A s \in Requests : ~OfTask(s, x)'
      BY <1>4, <1>5, <2>2 DEF OfTask
    <3>2. \A s \in Requests : ~Polling(s, x)' /\ ~Asking(s, x)' /\ ~Advancing(s, x)'
      BY <3>1 DEF OfTask, Polling, Asking, Advancing, Idle
    <3>3. \A j \in JobsOf(x) : IsFollowed(j)'
      BY <1>1, <1>2, <1>5, <2>2 DEF IsFollowed
    <3> QED
      BY <1>6, <3>2, <3>3 DEF FollowedOK
  <2> QED
    BY <2>1, <2>2
<1> QED
  BY <1>6, <1>7, <1>8 DEF FInv

(* A POST's handler follows the first job of its task.                     *)
LEMMA NewTaskFollowed ==
    ASSUME IInv, IInv', FInv, NEW r \in Requests, NEW t \in Tasks, request[r] = Idle,
           IsNew(t), NEW plan \in Plans, NEW step \in Steps,
           NEW on \in JobIds \cup {NoJob}, CanStart, jobs' = Started(t, step, on),
           request' = [request EXCEPT ![r] =
               [at |-> "registering", task |-> t, plan |-> plan, job |-> NextJob]],
           UNCHANGED <<entries, registry, overlapped, raced, lost, unanswered, served>>
    PROVE  FInv'
<1> DEFINE q == [at |-> "registering", task |-> t, plan |-> plan, job |-> NextJob]
<1>1. /\ \A i \in DOMAIN jobs : jobs'[i] = jobs[i]
      /\ JobsOf(t)' = JobsOf(t) \cup {NextJob}
      /\ \A x : x # t => JobsOf(x)' = JobsOf(x)
  BY StartedJob DEF IInv
<1> HIDE DEF NextJob
<1>2. request'[r] = q /\ \A s \in Requests \ {r} : request'[s] = request[s]
  BY DEF IInv, TypeOK
<1>3. q.at = "registering" /\ q.task = t /\ q.job = NextJob /\ q # Idle
  BY DEF Idle
<1> HIDE DEF q
<1>4. JobsOf(t) = {} /\ \A s \in Requests : ~OfTask(s, t)
  <2>1. JobsOf(t) = {}
    BY DEF IsNew, JobsOf
  <2> QED
    BY <2>1 DEF IInv, HandlerOK, OfTask
<1>5. JobsStop /\ Excused' = Excused
  BY <1>1 DEF JobsStop, Excused
<1>6. \A s \in Requests : AnswerOK(s)'
  BY <1>2, <1>3, <1>5, AnswersStay
<1>7. ASSUME NEW x \in Tasks \ Excused PROVE FollowedOK(x)'
  <2>1. CASE x # t
    <3>1. \A s \in Requests : request'[s] = request[s] \/ (~OfTask(s, x) /\ ~OfTask(s, x)')
      BY <1>2, <1>3, <2>1 DEF OfTask
    <3> QED
      BY <1>1, <1>5, <2>1, <3>1, OtherTask
  <2>2. CASE x = t
    <3>1. \A s \in Requests : ~Polling(s, t)'
      BY <1>2, <1>3, <1>4 DEF OfTask, Polling, Idle
    <3>2. \A s \in Requests : ~Asking(s, t)' /\ ~Advancing(s, t)'
      BY <3>1 DEF Polling, Asking, Advancing
    <3>3. \A j \in JobsOf(t)' : IsFollowed(j)'
      BY <1>1, <1>2, <1>3, <1>4 DEF IsFollowed
    <3> QED
      BY <2>2, <3>1, <3>2, <3>3 DEF FollowedOK
  <2> QED
    BY <2>1, <2>2
<1> QED
  BY <1>5, <1>6, <1>7 DEF FInv

LEMMA PostFollowed ==
    ASSUME IInv, IInv', FInv, NEW r \in Requests, NEW t \in Tasks, NEW plan \in Plans,
           Post(r, t, plan)
    PROVE  FInv'
<1>1. FirstStep(plan) \in Steps
  BY DEF FirstStep, Steps
<1> QED
  BY <1>1, NewTaskFollowed DEF Post

LEMMA PostRetargetFollowed ==
    ASSUME IInv, IInv', FInv, NEW r \in Requests, NEW t \in Tasks, NEW source \in Tasks,
           PostRetarget(r, t, source)
    PROVE  FInv'
<1>1. source \in registry
  BY DEF PostRetarget, IsComplete
<1>2. entries[source].job \in JobIds
  BY <1>1 DEF IInv, TypeOK, Entry
<1> QED
  BY <1>2, NewTaskFollowed DEF PostRetarget, Steps, Plans

(* The handler that starts the next step follows its job; the entry names a *)
(* job that has ended.                                                      *)
LEMMA NextStepFollowed ==
    ASSUME IInv, IInv', FInv, NEW r \in Requests, NEW t \in Tasks, request[r].task = t,
           request[r].at = "polled", request[r].answer # "running",
           NEW step \in {"rig", "retarget"},
           NEW on \in JobIds \cup {NoJob}, CanStart, jobs' = Started(t, step, on),
           request' = [request EXCEPT ![r] =
               [at |-> "advancing", task |-> t, job |-> NextJob, phase |-> step]],
           UNCHANGED <<entries, registry, overlapped, raced, lost, unanswered, served>>
    PROVE  FInv'
<1> DEFINE q == [at |-> "advancing", task |-> t, job |-> NextJob, phase |-> step]
<1>1. /\ \A i \in DOMAIN jobs : jobs'[i] = jobs[i]
      /\ JobsOf(t)' = JobsOf(t) \cup {NextJob}
      /\ \A x : x # t => JobsOf(x)' = JobsOf(x)
  BY StartedJob DEF IInv, Steps
<1> HIDE DEF NextJob
<1>2. request'[r] = q /\ \A s \in Requests \ {r} : request'[s] = request[s]
  BY DEF IInv, TypeOK
<1>3. q.at = "advancing" /\ q.task = t /\ q.job = NextJob /\ q # Idle
  BY DEF Idle
<1> HIDE DEF q
<1>4. JobsStop /\ Excused' = Excused
  BY <1>1 DEF JobsStop, Excused
<1>5. \A s \in Requests : AnswerOK(s)'
  BY <1>2, <1>3, <1>4, AnswersStay
<1>6. ASSUME NEW x \in Tasks \ Excused PROVE FollowedOK(x)'
  <2>1. CASE x # t
    <3>1. \A s \in Requests : request'[s] = request[s] \/ (~OfTask(s, x) /\ ~OfTask(s, x)')
      BY <1>2, <1>3, <2>1 DEF OfTask
    <3> QED
      BY <1>1, <1>4, <2>1, <3>1, OtherTask
  <2>2. CASE x = t
    <3>1. FollowedOK(t) /\ Asking(r, t) /\ Polling(r, t)
      BY <2>2 DEF FInv, Asking, Polling
    <3>2. t \in registry /\ request[r].job = entries[t].job
      BY <3>1 DEF FollowedOK
    <3>3. jobs[entries[t].job].state # "running" /\ entries[t].job \in JobsOf(t)
      BY <3>1, <3>2, PollsHaveEntries DEF FInv, AnswerOK
    <3>4. jobs'[entries[t].job].state # "running"
      BY <1>1, <3>3 DEF JobsOf
    <3>5. \A s \in Requests : Asking(s, t)' => request'[s].job = entries[t].job
      BY <1>2, <1>3, <3>1 DEF FollowedOK, Asking
    <3>6. ASSUME NEW j \in JobsOf(t)', jobs'[j].state = "running" PROVE IsFollowed(j)'
      <4>1. CASE j = NextJob
        BY <1>2, <1>3, <4>1 DEF IsFollowed
      <4>2. CASE j \in JobsOf(t)
        <5>1. jobs[j].state = "running"
          BY <1>1, <3>6, <4>2 DEF JobsOf
        <5>2. IsFollowed(j) /\ entries[t].job # j
          BY <3>1, <3>3, <4>2, <5>1 DEF FollowedOK
        <5>3. PICK s \in Requests : OfTask(s, t) /\ request[s].job = j
          BY <4>2, <5>2, Followers
        <5>4. s # r
          BY <3>2, <5>2, <5>3
        <5> QED
          BY <1>2, <5>3, <5>4 DEF OfTask, IsFollowed
      <4> QED
        BY <1>1, <4>1, <4>2
    <3> QED
      BY <2>2, <3>2, <3>4, <3>5, <3>6 DEF FollowedOK
  <2> QED
    BY <2>1, <2>2
<1> QED
  BY <1>4, <1>5, <1>6 DEF FInv

LEMMA AdvanceChainFollowed ==
    ASSUME IInv, IInv', FInv, NEW r \in Requests, StartRig(r) \/ StartRetarget(r)
    PROVE  FInv'
<1>1. request[r].at = "polled" /\ request[r].answer # "running"
  BY DEF StartRig, StartRetarget
<1>2. request[r].task \in Tasks /\ request[r] # Idle
  BY <1>1, Fields DEF IInv
<1>3. PICK u \in Tasks : u = request[r].task
  BY <1>2
<1>4. entries[u].job \in JobIds \cup {NoJob} /\ NoJob \in JobIds \cup {NoJob}
  BY <1>1, <1>2, <1>3 DEF IInv, HandlerOK, EntryOK, Entry
<1>5. CASE StartRig(r)
  <2>1. /\ CanStart /\ jobs' = Started(u, "rig", NoJob)
        /\ request' = [request EXCEPT ![r] =
               [at |-> "advancing", task |-> u, job |-> NextJob, phase |-> "rig"]]
        /\ UNCHANGED <<entries, registry, overlapped, raced, lost, unanswered, served>>
    BY <1>3, <1>5 DEF StartRig
  <2> QED
    BY <1>1, <1>3, <1>4, <2>1, NextStepFollowed
<1>6. CASE StartRetarget(r)
  <2>1. /\ CanStart /\ jobs' = Started(u, "retarget", entries[u].job)
        /\ request' = [request EXCEPT ![r] =
               [at |-> "advancing", task |-> u, job |-> NextJob, phase |-> "retarget"]]
        /\ UNCHANGED <<entries, registry, overlapped, raced, lost, unanswered, served>>
    BY <1>3, <1>6 DEF StartRetarget
  <2> QED
    BY <1>1, <1>3, <1>4, <2>1, NextStepFollowed
<1> QED
  BY <1>5, <1>6

(* The entry takes over the job its handler followed.                      *)
LEMMA AdvanceFollowed ==
    ASSUME IInv, IInv', FInv, NEW r \in Requests, Advance(r) PROVE FInv'
<1>1. /\ request[r].at = "advancing" /\ request[r] # Idle /\ Reply(r)
      /\ UpdateTaskEntry(request[r].task, request[r].job, request[r].phase)
      /\ UNCHANGED <<registry, jobs, overlapped, raced, lost, unanswered>>
  BY DEF Advance, Idle
<1>2. PICK t \in Tasks : t = request[r].task
  BY <1>1, Fields DEF IInv, Idle
<1>3. PICK j : j = request[r].job
  OBVIOUS
<1>4. request'[r] = Idle /\ \A s \in Requests \ {r} : request'[s] = request[s]
  BY <1>1 DEF Reply, IInv, TypeOK
<1>5. /\ \A x \in Tasks \ {t} : entries'[x] = entries[x]
      /\ t \in registry => entries'[t].job = j
  <2>1. entries \in [Tasks -> Entry \cup {NoEntry}] /\ entries[t] # NoEntry
    BY <1>1, <1>2 DEF IInv, TypeOK, HandlerOK
  <2>2. entries[t] \in Entry
    BY <2>1
  <2> QED
    BY <1>1, <1>2, <1>3, <2>1, <2>2 DEF UpdateTaskEntry, Entry
<1>6. JobsStop /\ Excused' = Excused /\ \A x : JobsOf(x)' = JobsOf(x)
  BY <1>1, SameStop DEF JobsOf, Excused
<1>7. \A s \in Requests : AnswerOK(s)'
  BY <1>4, <1>6, AnswersStay DEF Idle
<1>8. ASSUME NEW x \in Tasks \ Excused PROVE FollowedOK(x)'
  <2>1. CASE x # t
    <3>1. \A s \in Requests : request'[s] = request[s] \/ (~OfTask(s, x) /\ ~OfTask(s, x)')
      BY <1>2, <1>4, <2>1 DEF OfTask
    <3> QED
      BY <1>1, <1>5, <1>6, <2>1, <3>1, OtherTask
  <2>2. CASE x = t
    <3>1. FollowedOK(t) /\ Advancing(r, t) /\ Polling(r, t)
      BY <1>1, <1>2, <2>2 DEF FInv, Advancing, Polling
    <3>2. t \in registry /\ jobs[entries[t].job].state # "running"
      BY <3>1 DEF FollowedOK
    <3>3. \A s \in Requests : Polling(s, t) => s = r
      BY <2>2, <3>1 DEF IInv, ChainOK, OnePoll, Excused, Spoilt
    <3>4. \A s \in Requests : ~Polling(s, t)'
      BY <1>4, <3>3 DEF Polling, Idle
    <3>5. \A s \in Requests : ~Asking(s, t)' /\ ~Advancing(s, t)'
      BY <3>4 DEF Polling, Asking, Advancing
    <3>6. ASSUME NEW i \in JobsOf(t), jobs[i].state = "running" PROVE IsFollowed(i)'
      <4>1. PICK s \in Requests : OfTask(s, t) /\ request[s].job = i
        BY <3>1, <3>2, <3>6, Followers DEF FollowedOK
      <4>2. CASE s = r
        BY <1>1, <1>3, <1>5, <3>2, <4>1, <4>2 DEF IsFollowed
      <4>3. CASE s # r
        BY <1>4, <4>1, <4>3 DEF OfTask, IsFollowed
      <4> QED
        BY <4>2, <4>3
    <3> QED
      BY <1>1, <1>6, <2>2, <3>4, <3>5, <3>6 DEF FollowedOK
  <2> QED
    BY <2>1, <2>2
<1> QED
  BY <1>6, <1>7, <1>8 DEF FInv

LEMMA InitFollowed == Init => FInv
<1> SUFFICES ASSUME Init PROVE FInv
  OBVIOUS
<1>1. jobs = <<>> /\ \A r \in Requests : request[r] = Idle
  BY DEF Init
<1>2. \A r \in Requests : AnswerOK(r)
  BY <1>1 DEF AnswerOK, Idle
<1>3. \A t \in Tasks : FollowedOK(t)
  BY <1>1 DEF FollowedOK, Polling, Asking, Advancing, Idle, JobsOf
<1> QED
  BY <1>2, <1>3 DEF FInv

LEMMA StepFollowed == IInv /\ IInv' /\ FInv /\ [Next]_vars => FInv'
<1> SUFFICES ASSUME IInv, IInv', FInv, [Next]_vars PROVE FInv'
  OBVIOUS
<1>1. ASSUME NEW r \in Requests, NEW t \in Tasks, NEW plan \in Plans, Post(r, t, plan)
      PROVE  FInv'
  BY <1>1, PostFollowed
<1>2. ASSUME NEW r \in Requests, NEW t \in Tasks, NEW source \in Tasks,
             PostRetarget(r, t, source)
      PROVE  FInv'
  BY <1>2, PostRetargetFollowed
<1>3. ASSUME NEW r \in Requests, RegisterTask(r) \/ AnswerLost(r) \/ Advance(r) PROVE FInv'
  BY <1>3, RegisterTaskFollowed, AnswerLostFollowed, AdvanceFollowed
<1>4. ASSUME NEW r \in Requests, NEW t \in Tasks, Poll(r, t) \/ Cancel(r, t) PROVE FInv'
  BY <1>4, PollFollowed, CancelFollowed
<1>5. ASSUME NEW r \in Requests, NEW b \in BOOLEAN, PollFails(r, b) \/ CancelUpstream(r, b)
      PROVE  FInv'
  BY <1>5, PollFailsFollowed, CancelUpstreamFollowed
<1>6. ASSUME NEW r \in Requests, ReportProgress(r) \/ ReportFailure(r) \/ RigCheckStop(r)
      PROVE  FInv'
  BY <1>6, ReportProgressFollowed, ReportFailureFollowed, RigCheckStopFollowed
<1>7. ASSUME NEW r \in Requests, StartRig(r) \/ StartRetarget(r) PROVE FInv'
  BY <1>7, AdvanceChainFollowed
<1>8. ASSUME NEW r \in Requests, Download(r) \/ Complete(r) PROVE FInv'
  BY <1>8, DownloadFollowed, CompleteFollowed
<1>9. ASSUME NEW t \in Tasks, Expire(t) PROVE FInv'
  BY <1>9, ExpireFollowed
<1>10. CASE Restart
  BY <1>10, RestartFollowed
<1>11. ASSUME NEW j \in JobIds, NEW state \in {"done", "unfit", "failed"}, JobEnds(j, state)
       PROVE  FInv'
  BY <1>11, JobEndsFollowed
<1>12. CASE UNCHANGED vars
  BY <1>12, StutterFollowed
<1> QED
  BY <1>1, <1>2, <1>3, <1>4, <1>5, <1>6, <1>7, <1>8, <1>9, <1>10, <1>11, <1>12 DEF Next

(* For any number of tasks and of handlers, no job runs on at the provider   *)
(* that no poll can reach and no handler holds, but where the task expired,  *)
(* was given up, restarted or not cancelled, where an answer was lost, where *)
(* it was stopped during one of its polls, or where two polls overlapped.    *)
(* generate-node.ts: the POST and DELETE handlers, advanceAnimateChain.      *)
THEOREM JobsAreFollowed == Spec => []NoJobIsAbandoned
<1>1. IInv /\ FInv => NoJobIsAbandoned
  <2> SUFFICES ASSUME IInv, FInv, NEW j \in DOMAIN jobs, jobs[j].state = "running"
               PROVE  IsFollowed(j) \/ jobs[j].of \in Excused
    BY DEF NoJobIsAbandoned, Excused
  <2>1. jobs[j].of \in Tasks
    BY JobsTyped DEF IInv, Job
  <2> QED
    BY <2>1 DEF FInv, FollowedOK, JobsOf
<1> QED
  BY <1>1, Invariant, InitFollowed, StepFollowed, PTL DEF Spec

---------------------------------------------------------------------------
(* The model a task is answered with.                                      *)
StepsOf(plan) ==
    CASE plan = "model"   -> {"model"}
      [] plan = "probe"   -> {"rig-check"}
      [] plan = "rigOnly" -> {"rig-check", "rig"}
      [] plan = "animate" -> {"rig-check", "rig", "retarget"}

(* An entry is in a step of its plan, the step of the job it names ...       *)
EntryInPlan(t) ==
    entries[t] # NoEntry =>
        /\ jobs[entries[t].job].step = entries[t].phase
        /\ entries[t].phase \in StepsOf(entries[t].plan)

(* ... as is a handler that will move it; a handler that has seen a job end  *)
(* knows how it ended.                                                       *)
HandlerInPlan(r) ==
    LET q == request[r] IN
    /\ q.at = "registering" => jobs[q.job].step \in StepsOf(q.plan)
    /\ q.at = "advancing" =>
          jobs[q.job].step = q.phase /\ q.phase \in StepsOf(entries[q.task].plan)
    /\ q.at = "polled" /\ q.answer # "running" => jobs[q.job].state = q.answer
    /\ q.at = "downloading" => jobs[q.job].state = "done"

(* Only a rig check finds a model unfit, and a bake is on a finished rig.  *)
OnSkeleton(j) ==
    /\ jobs[j].state = "unfit" => jobs[j].step = "rig-check"
    /\ jobs[j].on # NoJob =>
          LET rig == jobs[jobs[j].on] IN
          /\ jobs[j].on \in DOMAIN jobs
          /\ rig.of \notin overlapped => rig.state = "done" /\ rig.step = "rig"

(* One poll at a time reads the entry it was begun for, and after the last   *)
(* of them nobody moves it.                                                  *)
PolledAlone(t) ==
    /\ OnePoll(t)
    /\ \A r \in Requests : Asking(r, t) => request[r].job = entries[t].job
    /\ \A r \in Requests :
          request[r].at = "downloading" /\ request[r].task = t => IsTerminal(entries[t])
    /\ entries[t].status = "complete" =>
          jobs[entries[t].job].state = "done" /\ \A r \in Requests : ~Polling(r, t)

LastStep(plan) ==
    CASE plan = "model"   -> "model"
      [] plan = "rigOnly" -> "rig"
      [] OTHER            -> "retarget"

ServedLast(t) ==
    \A j \in served[t] :
        /\ j \in DOMAIN jobs /\ entries[t] # NoEntry
        /\ jobs[j].state = "done" /\ jobs[j].step = LastStep(entries[t].plan)

MInv ==
    /\ \A t \in Tasks : EntryInPlan(t)
    /\ \A r \in Requests : HandlerInPlan(r)
    /\ \A j \in DOMAIN jobs : OnSkeleton(j)
    /\ \A t \in Tasks \ overlapped : PolledAlone(t) /\ ServedLast(t)

(* A job that has ended stays as it is, and an entry keeps its plan.       *)
JobsGoOn ==
    /\ DOMAIN jobs \subseteq DOMAIN jobs'
    /\ \A i \in DOMAIN jobs :
          /\ jobs'[i].of = jobs[i].of /\ jobs'[i].step = jobs[i].step /\ jobs'[i].on = jobs[i].on
          /\ jobs[i].state # "running" => jobs'[i].state = jobs[i].state

PlansStay ==
    \A t \in Tasks : entries[t] # NoEntry =>
        entries'[t] # NoEntry /\ entries'[t].plan = entries[t].plan

LEMMA SameGoOn == ASSUME UNCHANGED jobs PROVE JobsGoOn
  BY DEF JobsGoOn

LEMMA EndGoesOn ==
    ASSUME TypeOK, NEW j \in DOMAIN jobs, jobs[j].state = "running",
           NEW state \in {"done", "unfit", "failed", "cancelled"},
           jobs' = [jobs EXCEPT ![j].state = state]
    PROVE  /\ JobsGoOn /\ DOMAIN jobs' = DOMAIN jobs
           /\ jobs'[j].state = state
           /\ \A i \in DOMAIN jobs \ {j} : jobs'[i] = jobs[i]
<1>1. jobs \in [1..Len(jobs) -> Job] /\ DOMAIN jobs = 1..Len(jobs)
  BY DEF TypeOK
<1>2. jobs' = [jobs EXCEPT ![j] = [jobs[j] EXCEPT !.state = state]]
  OBVIOUS
<1>3. /\ DOMAIN jobs' = DOMAIN jobs
      /\ jobs'[j] = [jobs[j] EXCEPT !.state = state]
      /\ \A i \in DOMAIN jobs \ {j} : jobs'[i] = jobs[i]
  BY <1>1, <1>2
<1>4. jobs[j] \in Job
  BY <1>1
<1>5. /\ jobs'[j].state = state /\ jobs'[j].of = jobs[j].of
      /\ jobs'[j].step = jobs[j].step /\ jobs'[j].on = jobs[j].on
  BY <1>3, <1>4 DEF Job
<1> QED
  BY <1>3, <1>5 DEF JobsGoOn

LEMMA StartGoesOn ==
    ASSUME TypeOK, NEW t \in Tasks, NEW step \in Steps, NEW on \in JobIds \cup {NoJob},
           CanStart, jobs' = Started(t, step, on)
    PROVE  /\ JobsGoOn
           /\ DOMAIN jobs' = DOMAIN jobs \cup {NextJob} /\ NextJob \notin DOMAIN jobs
           /\ \A i \in DOMAIN jobs : jobs'[i] = jobs[i]
           /\ jobs'[NextJob] = [of |-> t, step |-> step, on |-> on, state |-> "running"]
<1>1. /\ DOMAIN jobs' = DOMAIN jobs \cup {NextJob} /\ NextJob \notin DOMAIN jobs
      /\ \A i \in DOMAIN jobs : jobs'[i] = jobs[i]
  BY StartedJob
<1>2. jobs'[NextJob] = [of |-> t, step |-> step, on |-> on, state |-> "running"]
  <2> DEFINE new == [of |-> t, step |-> step, on |-> on, state |-> "running"]
  <2>1. new \in Job /\ jobs \in Seq(Job)
    BY DEF Job, TypeOK
  <2>2. jobs' = Append(jobs, new)
    BY DEF Started
  <2> HIDE DEF new
  <2>3. jobs'[Len(jobs) + 1] = new
    BY <2>1, <2>2, AppendProperties
  <2> QED
    BY <2>3 DEF NextJob, new
<1> QED
  BY <1>1, <1>2 DEF JobsGoOn

---------------------------------------------------------------------------
(* What each part of the invariant needs of a step.                        *)
LEMMA NamedJobs ==
    ASSUME IInv
    PROVE  /\ \A t \in Tasks : entries[t] # NoEntry =>
                 entries[t].job \in DOMAIN jobs /\ jobs[entries[t].job].of = t
           /\ \A r \in Requests : request[r].at # "idle" =>
                 /\ request[r].task \in Tasks /\ request[r].job \in DOMAIN jobs
                 /\ jobs[request[r].job].of = request[r].task
                 /\ request[r].at # "registering" => entries[request[r].task] # NoEntry
           /\ \A r \in Requests : request[r].at = "registering" =>
                 entries[request[r].task] = NoEntry
<1>1. \A r \in Requests : request[r].at # "idle" => request[r] # Idle
  BY DEF Idle
<1> QED
  BY <1>1 DEF IInv, EntryOK, HandlerOK, JobsOf

LEMMA EntriesStayInPlan ==
    ASSUME IInv, MInv, JobsGoOn, NEW t \in Tasks,
           entries'[t] = NoEntry \/
               /\ entries[t] # NoEntry
               /\ entries'[t].plan = entries[t].plan
               /\ entries'[t].job = entries[t].job /\ entries'[t].phase = entries[t].phase
    PROVE  EntryInPlan(t)'
<1>1. EntryInPlan(t)
  BY DEF MInv
<1> QED
  BY <1>1, NamedJobs DEF EntryInPlan, JobsGoOn

LEMMA HandlersStayInPlan ==
    ASSUME IInv, MInv, JobsGoOn, PlansStay, NEW r \in Requests,
           request'[r] = request[r] \/ request'[r].at \in {"idle", "cancelling"}
    PROVE  HandlerInPlan(r)'
<1>1. HandlerInPlan(r)
  BY DEF MInv
<1>2. CASE request'[r] = request[r]
  <2>1. request[r].at # "idle" =>
            /\ request[r].job \in DOMAIN jobs
            /\ request[r].at # "registering" => entries'[request[r].task].plan = entries[request[r].task].plan
    BY NamedJobs DEF PlansStay
  <2>2. request[r].at # "idle" =>
            /\ jobs'[request[r].job].step = jobs[request[r].job].step
            /\ jobs[request[r].job].state # "running" =>
                  jobs'[request[r].job].state = jobs[request[r].job].state
    BY <2>1 DEF JobsGoOn
  <2> QED
    BY <1>1, <1>2, <2>1, <2>2 DEF HandlerInPlan
<1>3. CASE request'[r].at \in {"idle", "cancelling"}
  BY <1>3 DEF HandlerInPlan
<1> QED
  BY <1>2, <1>3

LEMMA SkeletonStays ==
    ASSUME MInv, JobsGoOn, overlapped \subseteq overlapped', NEW j \in DOMAIN jobs,
           jobs'[j].state = "unfit" => jobs'[j].state = jobs[j].state \/ jobs[j].step = "rig-check"
    PROVE  OnSkeleton(j)'
<1>1. OnSkeleton(j)
  BY DEF MInv
<1>2. /\ jobs'[j].of = jobs[j].of /\ jobs'[j].step = jobs[j].step /\ jobs'[j].on = jobs[j].on
      /\ DOMAIN jobs \subseteq DOMAIN jobs'
  BY DEF JobsGoOn
<1>3. jobs'[j].state = "unfit" => jobs'[j].step = "rig-check"
  BY <1>1, <1>2 DEF OnSkeleton
<1>4. ASSUME jobs[j].on # NoJob
      PROVE  /\ jobs[j].on \in DOMAIN jobs'
             /\ jobs'[jobs[j].on].of \notin overlapped' =>
                   jobs'[jobs[j].on].state = "done" /\ jobs'[jobs[j].on].step = "rig"
  <2>1. jobs[j].on \in DOMAIN jobs
    BY <1>1, <1>4 DEF OnSkeleton
  <2>2. jobs[jobs[j].on].of \notin overlapped =>
            jobs[jobs[j].on].state = "done" /\ jobs[jobs[j].on].step = "rig"
    BY <1>1, <1>4 DEF OnSkeleton
  <2> QED
    BY <2>1, <2>2 DEF JobsGoOn
<1> QED
  BY <1>2, <1>3, <1>4 DEF OnSkeleton

(* A step of other tasks, or one that takes polls of the task away.        *)
LEMMA StaysPolledAlone ==
    ASSUME IInv, MInv, JobsGoOn, NEW t \in Tasks \ overlapped, entries'[t] = entries[t],
           \A s \in Requests : Polling(s, t)' =>
               /\ Polling(s, t)
               /\ Asking(s, t)' => Asking(s, t) /\ request'[s].job = request[s].job
               /\ request'[s].at = "downloading" =>
                     request[s].at = "downloading" \/ IsTerminal(entries[t])
    PROVE  PolledAlone(t)'
<1>1. PolledAlone(t)
  BY DEF MInv
<1>2. OnePoll(t)'
  BY <1>1 DEF PolledAlone, OnePoll
<1>3. \A s \in Requests : Asking(s, t)' => Polling(s, t)'
  BY DEF Asking, Polling
<1>4. \A s \in Requests : Asking(s, t)' => request'[s].job = entries'[t].job
  BY <1>1, <1>3 DEF PolledAlone
<1>5. \A s \in Requests :
          request'[s].at = "downloading" /\ request'[s].task = t => IsTerminal(entries'[t])
  <2> SUFFICES ASSUME NEW s \in Requests, request'[s].at = "downloading", request'[s].task = t
               PROVE  IsTerminal(entries[t])
    OBVIOUS
  <2>1. Polling(s, t)' /\ Polling(s, t)
    BY DEF Polling
  <2>2. request[s].task = t
    BY <2>1 DEF Polling
  <2> QED
    BY <1>1, <2>1, <2>2 DEF PolledAlone
<1>6. entries'[t].status = "complete" =>
          jobs'[entries'[t].job].state = "done" /\ \A s \in Requests : ~Polling(s, t)'
  <2> SUFFICES ASSUME entries[t].status = "complete"
               PROVE  jobs'[entries[t].job].state = "done" /\ \A s \in Requests : ~Polling(s, t)'
    OBVIOUS
  <2>1. jobs[entries[t].job].state = "done" /\ \A s \in Requests : ~Polling(s, t)
    BY <1>1 DEF PolledAlone
  <2>2. entries[t] # NoEntry
    BY DEF NoEntry
  <2>3. entries[t].job \in DOMAIN jobs
    BY <2>2, NamedJobs
  <2> QED
    BY <2>1, <2>3 DEF JobsGoOn
<1> QED
  BY <1>2, <1>4, <1>5, <1>6 DEF PolledAlone

LEMMA StaysServed ==
    ASSUME MInv, JobsGoOn, PlansStay, NEW t \in Tasks \ overlapped,
           NEW j \in served[t]
    PROVE  /\ j \in DOMAIN jobs' /\ entries'[t] # NoEntry
           /\ jobs'[j].state = "done" /\ jobs'[j].step = LastStep(entries'[t].plan)
<1>1. /\ j \in DOMAIN jobs /\ entries[t] # NoEntry
      /\ jobs[j].state = "done" /\ jobs[j].step = LastStep(entries[t].plan)
  BY DEF MInv, ServedLast
<1> QED
  BY <1>1 DEF JobsGoOn, PlansStay

(* The steps that leave the entries: handlers end, or go on to what is no    *)
(* longer an answer of the provider.                                         *)
Moved(s) ==
    \/ request'[s] = request[s]
    \/ request'[s].at \in {"idle", "cancelling"}
    \/ request'[s].at = "registering"
    \/ request'[s].at = "advancing" /\ request[s].at = "polled" /\ request'[s].task = request[s].task

LEMMA EntriesStayed == ASSUME UNCHANGED entries PROVE PlansStay
  BY DEF PlansStay

LEMMA MovedModel ==
    ASSUME IInv, MInv, JobsGoOn, UNCHANGED <<entries, served>>, overlapped \subseteq overlapped',
           \A s \in Requests : Moved(s),
           \A s \in Requests : HandlerInPlan(s)',
           \A j \in DOMAIN jobs' : OnSkeleton(j)'
    PROVE  MInv'
<1>1. PlansStay
  BY EntriesStayed
<1>2. \A t \in Tasks : EntryInPlan(t)'
  BY EntriesStayInPlan
<1>3. ASSUME NEW t \in Tasks \ overlapped' PROVE PolledAlone(t)'
  <2>1. \A s \in Requests : Polling(s, t)' =>
               /\ Polling(s, t)
               /\ Asking(s, t)' => Asking(s, t) /\ request'[s].job = request[s].job
               /\ request'[s].at = "downloading" =>
                     request[s].at = "downloading" \/ IsTerminal(entries[t])
    BY DEF Moved, Polling, Asking
  <2>2. t \in Tasks \ overlapped
    BY <1>3
  <2> QED
    BY <2>1, <2>2, StaysPolledAlone
<1>4. ASSUME NEW t \in Tasks \ overlapped' PROVE ServedLast(t)'
  BY <1>1, <1>4, StaysServed DEF ServedLast
<1> QED
  BY <1>2, <1>3, <1>4 DEF MInv

LEMMA SkeletonsStay ==
    ASSUME MInv, JobsGoOn, overlapped \subseteq overlapped', UNCHANGED jobs
    PROVE  \A j \in DOMAIN jobs' : OnSkeleton(j)'
  BY SkeletonStays

(* A handler ends or is stopped, and the jobs are left alone.              *)
LEMMA EndModel ==
    ASSUME IInv, MInv, UNCHANGED <<entries, served, jobs>>, overlapped \subseteq overlapped',
           \A s \in Requests : request'[s] = request[s] \/ request'[s].at \in {"idle", "cancelling"}
    PROVE  MInv'
<1>1. JobsGoOn /\ PlansStay
  BY SameGoOn, EntriesStayed
<1>2. \A s \in Requests : Moved(s) /\ HandlerInPlan(s)'
  BY <1>1, HandlersStayInPlan DEF Moved
<1> QED
  BY <1>1, <1>2, SkeletonsStay, MovedModel

LEMMA ReplyEnds ==
    ASSUME TypeOK, NEW r \in Requests, Reply(r)
    PROVE  /\ request'[r] = Idle /\ request'[r].at = "idle"
           /\ \A s \in Requests \ {r} : request'[s] = request[s]
  BY DEF TypeOK, Reply, Idle

LEMMA ReplyModel ==
    ASSUME IInv, MInv, NEW r \in Requests, Reply(r), UNCHANGED <<entries, served, jobs, overlapped>>
    PROVE  MInv'
  BY ReplyEnds, EndModel DEF IInv

LEMMA EndsModel ==
    ASSUME IInv, MInv, NEW r \in Requests,
           \/ AnswerLost(r) \/ ReportProgress(r) \/ ReportFailure(r) \/ RigCheckStop(r)
           \/ \E terminal \in BOOLEAN : PollFails(r, terminal)
    PROVE  MInv'
  BY ReplyModel DEF AnswerLost, ReportProgress, ReportFailure, RigCheckStop, PollFails

LEMMA StopModel ==
    ASSUME IInv, MInv,
           \/ \E r \in Requests, t \in Tasks : Cancel(r, t)
           \/ \E t \in Tasks : Expire(t)
           \/ Restart
           \/ UNCHANGED vars
    PROVE  MInv'
<1>1. ASSUME NEW r \in Requests, NEW t \in Tasks, Cancel(r, t) PROVE MInv'
  <2>1. /\ request'[r].at = "cancelling"
        /\ \A s \in Requests \ {r} : request'[s] = request[s]
        /\ UNCHANGED <<entries, served, jobs, overlapped>>
    BY <1>1 DEF Cancel, IInv, TypeOK
  <2> QED
    BY <2>1, EndModel
<1>2. ASSUME NEW t \in Tasks, Expire(t) PROVE MInv'
  BY <1>2, EndModel DEF Expire
<1>3. CASE Restart
  BY <1>3, EndModel DEF Restart, Idle
<1>4. CASE UNCHANGED vars
  BY <1>4, EndModel DEF vars
<1> QED
  BY <1>1, <1>2, <1>3, <1>4

(* A job ends.                                                             *)
LEMMA EndedModel ==
    ASSUME IInv, MInv, UNCHANGED <<entries, served, overlapped>>,
           \A s \in Requests : request'[s] = request[s] \/ request'[s].at \in {"idle", "cancelling"},
           NEW j \in DOMAIN jobs, jobs[j].state = "running",
           NEW state \in {"done", "unfit", "failed", "cancelled"},
           state = "unfit" => jobs[j].step = "rig-check",
           jobs' = [jobs EXCEPT ![j].state = state]
    PROVE  MInv'
<1>1. /\ JobsGoOn /\ DOMAIN jobs' = DOMAIN jobs
      /\ jobs'[j].state = state
      /\ \A i \in DOMAIN jobs \ {j} : jobs'[i] = jobs[i]
  BY EndGoesOn DEF IInv
<1>2. \A i \in DOMAIN jobs : jobs'[i].state = "unfit" =>
          jobs'[i].state = jobs[i].state \/ jobs[i].step = "rig-check"
  BY <1>1
<1>3. \A i \in DOMAIN jobs' : OnSkeleton(i)'
  BY <1>1, <1>2, SkeletonStays
<1>4. PlansStay
  BY EntriesStayed
<1>5. \A s \in Requests : Moved(s) /\ HandlerInPlan(s)'
  BY <1>1, <1>4, HandlersStayInPlan DEF Moved
<1> QED
  BY <1>1, <1>3, <1>5, MovedModel

LEMMA JobEndsModel ==
    ASSUME IInv, MInv, NEW j \in JobIds, NEW state \in {"done", "unfit", "failed"}, JobEnds(j, state)
    PROVE  MInv'
<1>1. j \in DOMAIN jobs
  BY JobsTyped DEF JobEnds, IInv
<1> QED
  BY <1>1, EndedModel DEF JobEnds

LEMMA CancelUpstreamModel ==
    ASSUME IInv, MInv, NEW r \in Requests, NEW accepted \in BOOLEAN, CancelUpstream(r, accepted)
    PROVE  MInv'
<1>1. Reply(r) /\ UNCHANGED <<entries, served, overlapped>>
  BY DEF CancelUpstream
<1>2. \A s \in Requests : request'[s] = request[s] \/ request'[s].at \in {"idle", "cancelling"}
  BY <1>1, ReplyEnds DEF IInv
<1>3. CASE UNCHANGED jobs
  BY <1>1, <1>3, ReplyModel
<1>4. CASE jobs[request[r].job].state = "running" /\ jobs' = [jobs EXCEPT ![request[r].job].state = "cancelled"]
  <2>1. request[r].job \in DOMAIN jobs
    BY NamedJobs DEF CancelUpstream
  <2> QED
    BY <1>1, <1>2, <1>4, <2>1, EndedModel
<1> QED
  BY <1>3, <1>4 DEF CancelUpstream

(* The answer is the model, if the plan has no further step.               *)
LEMMA DownloadModel ==
    ASSUME IInv, MInv, NEW r \in Requests, Download(r) PROVE MInv'
<1>1. /\ UNCHANGED <<entries, served, jobs, overlapped>> /\ TypeOK
      /\ request[r].at = "polled" /\ request[r].answer \in {"done", "unfit"}
      /\ IsTerminal(entries[request[r].task])
  BY DEF Download, IInv
<1>2. CASE request' = [request EXCEPT ![r] = Idle]
  BY <1>1, <1>2, ReplyModel DEF Reply
<1>3. CASE /\ jobs[request[r].job].step # "rig-check"
           /\ request' = [request EXCEPT ![r] = [request[r] EXCEPT !.at = "downloading"]]
  <2>1. JobsGoOn /\ PlansStay
    BY <1>1, SameGoOn, EntriesStayed
  <2>2. /\ request'[r].at = "downloading" /\ request'[r].task = request[r].task
        /\ request'[r].job = request[r].job
        /\ \A s \in Requests \ {r} : request'[s] = request[s]
    <3>1. request[r] \in [at : {"polled", "downloading"}, task : Tasks, job : JobIds,
                          answer : {"running", "done", "unfit", "failed", "cancelled"}]
      BY <1>1 DEF TypeOK, Request, Idle
    <3>2. request'[r] = [request[r] EXCEPT !.at = "downloading"]
      BY <1>1, <1>3 DEF TypeOK
    <3>3. \A s \in Requests \ {r} : request'[s] = request[s]
      BY <1>1, <1>3 DEF TypeOK
    <3> QED
      BY <3>1, <3>2, <3>3
  <2>3. jobs[request[r].job].state = "done"
    <3>1. jobs[request[r].job].state = request[r].answer
      BY <1>1 DEF MInv, HandlerInPlan
    <3>2. OnSkeleton(request[r].job)
      BY <1>1, NamedJobs DEF MInv
    <3> QED
      BY <1>1, <1>3, <3>1, <3>2 DEF OnSkeleton
  <2>4. \A s \in Requests : HandlerInPlan(s)'
    <3>1. HandlerInPlan(r)'
      BY <1>1, <2>2, <2>3 DEF HandlerInPlan
    <3>2. \A s \in Requests \ {r} : HandlerInPlan(s)'
      BY <2>1, <2>2, HandlersStayInPlan
    <3> QED
      BY <3>1, <3>2
  <2>5. \A t \in Tasks : EntryInPlan(t)'
    BY <1>1, <2>1, EntriesStayInPlan
  <2>6. \A j \in DOMAIN jobs' : OnSkeleton(j)'
    BY <1>1, <2>1, SkeletonsStay
  <2>7. ASSUME NEW t \in Tasks \ overlapped' PROVE PolledAlone(t)' /\ ServedLast(t)'
    <3>1. t \in Tasks \ overlapped /\ entries'[t] = entries[t] /\ served'[t] = served[t]
      BY <1>1, <2>7
    <3>2. \A s \in Requests : Polling(s, t)' =>
               /\ Polling(s, t)
               /\ Asking(s, t)' => Asking(s, t) /\ request'[s].job = request[s].job
               /\ request'[s].at = "downloading" =>
                     request[s].at = "downloading" \/ IsTerminal(entries[t])
      BY <1>1, <2>2 DEF Polling, Asking
    <3>3. PolledAlone(t)'
      BY <2>1, <3>1, <3>2, StaysPolledAlone
    <3>4. ServedLast(t)'
      BY <2>1, <3>1, StaysServed DEF ServedLast
    <3> QED
      BY <3>3, <3>4
  <2> QED
    BY <2>4, <2>5, <2>6, <2>7 DEF MInv
<1> QED
  BY <1>2, <1>3 DEF Download

(* The steps that start a job.                                             *)
LEMMA StartedSkeleton ==
    ASSUME IInv, MInv, UNCHANGED overlapped, NEW t \in Tasks, NEW step \in Steps,
           NEW on \in JobIds \cup {NoJob}, CanStart, jobs' = Started(t, step, on),
           on # NoJob => /\ on \in DOMAIN jobs
                         /\ jobs[on].of \notin overlapped => jobs[on].state = "done" /\ jobs[on].step = "rig"
    PROVE  /\ JobsGoOn /\ jobs'[NextJob].step = step
           /\ \A j \in DOMAIN jobs' : OnSkeleton(j)'
<1>1. /\ JobsGoOn
      /\ DOMAIN jobs' = DOMAIN jobs \cup {NextJob} /\ NextJob \notin DOMAIN jobs
      /\ \A i \in DOMAIN jobs : jobs'[i] = jobs[i]
      /\ jobs'[NextJob] = [of |-> t, step |-> step, on |-> on, state |-> "running"]
  BY StartGoesOn DEF IInv
<1>2. PICK n : n = NextJob
  OBVIOUS
<1> HIDE DEF NextJob
<1>3. jobs'[n].step = step /\ jobs'[n].on = on /\ jobs'[n].state = "running"
  BY <1>1, <1>2
<1>4. \A j \in DOMAIN jobs : OnSkeleton(j)'
  BY <1>1, SkeletonStays
<1>5. OnSkeleton(n)'
  <2>1. on # NoJob => on \in DOMAIN jobs' /\ jobs'[on] = jobs[on]
    BY <1>1
  <2> QED
    BY <1>3, <2>1 DEF OnSkeleton
<1>6. \A j \in DOMAIN jobs' : OnSkeleton(j)'
  BY <1>1, <1>2, <1>4, <1>5
<1> QED
  BY <1>1, <1>2, <1>3, <1>6

(* The job an entry names, if the poll that read it was alone.             *)
LEMMA AskedJob ==
    ASSUME MInv, NEW r \in Requests, NEW t \in Tasks \ overlapped,
           request[r].at \in {"polled", "downloading"}, request[r].task = t
    PROVE  request[r].job = entries[t].job
  BY DEF MInv, PolledAlone, Asking

LEMMA StartModel ==
    ASSUME IInv, MInv, NEW r \in Requests, NEW t \in Tasks, NEW step \in Steps,
           NEW on \in JobIds \cup {NoJob}, CanStart, jobs' = Started(t, step, on),
           on # NoJob => /\ on \in DOMAIN jobs
                         /\ jobs[on].of \notin overlapped => jobs[on].state = "done" /\ jobs[on].step = "rig",
           UNCHANGED <<entries, served, overlapped>>,
           \A s \in Requests \ {r} : request'[s] = request[s],
           request'[r].job = NextJob,
           \/ request'[r].at = "registering" /\ step \in StepsOf(request'[r].plan)
           \/ /\ request[r].at = "polled" /\ request[r].task = t
              /\ request'[r].at = "advancing" /\ request'[r].task = t /\ request'[r].phase = step
              /\ step \in StepsOf(entries[t].plan)
    PROVE  MInv'
<1>1. /\ JobsGoOn /\ jobs'[NextJob].step = step
      /\ \A j \in DOMAIN jobs' : OnSkeleton(j)'
  BY StartedSkeleton
<1>2. PlansStay
  BY EntriesStayed
<1>3. HandlerInPlan(r)'
  BY <1>1 DEF HandlerInPlan
<1>4. \A s \in Requests \ {r} : HandlerInPlan(s)'
  BY <1>1, <1>2, HandlersStayInPlan
<1>5. \A s \in Requests : Moved(s)
  BY DEF Moved
<1> QED
  BY <1>1, <1>3, <1>4, <1>5, MovedModel

LEMMA PostModel ==
    ASSUME IInv, MInv, NEW r \in Requests, NEW t \in Tasks, NEW plan \in Plans, Post(r, t, plan)
    PROVE  MInv'
<1>1. FirstStep(plan) \in Steps /\ FirstStep(plan) \in StepsOf(plan)
  BY DEF FirstStep, Steps, StepsOf, Plans
<1>2. /\ request'[r].job = NextJob /\ request'[r].at = "registering" /\ request'[r].plan = plan
      /\ \A s \in Requests \ {r} : request'[s] = request[s]
  BY DEF Post, IInv, TypeOK
<1> QED
  BY <1>1, <1>2, StartModel DEF Post

LEMMA PostRetargetModel ==
    ASSUME IInv, MInv, NEW r \in Requests, NEW t \in Tasks, NEW source \in Tasks,
           PostRetarget(r, t, source)
    PROVE  MInv'
<1>1. source \in registry /\ entries[source].status = "complete" /\ entries[source].phase = "rig"
  BY DEF PostRetarget, IsComplete
<1> DEFINE on == entries[source].job
<1>2. entries[source] # NoEntry /\ on \in JobIds /\ on \in DOMAIN jobs /\ jobs[on].of = source
  BY <1>1, NamedJobs DEF IInv, TypeOK, Entry
<1>3. jobs[on].step = "rig"
  BY <1>1, <1>2 DEF MInv, EntryInPlan
<1>4. source \notin overlapped => jobs[on].state = "done"
  BY <1>1 DEF MInv, PolledAlone
<1>5. jobs' = Started(t, "retarget", on)
  BY DEF PostRetarget
<1> HIDE DEF on
<1>6. "retarget" \in Steps /\ "retarget" \in StepsOf("animate")
  BY DEF Steps, StepsOf
<1>7. /\ request'[r].job = NextJob /\ request'[r].at = "registering" /\ request'[r].plan = "animate"
      /\ \A s \in Requests \ {r} : request'[s] = request[s]
  BY DEF PostRetarget, IInv, TypeOK
<1> QED
  BY <1>2, <1>3, <1>4, <1>5, <1>6, <1>7, StartModel DEF PostRetarget

(* A poll goes on only where the plan of the task does.                    *)
LEMMA Continues ==
    ASSUME IInv, MInv, NEW t \in Tasks, entries[t] # NoEntry, ~IsTerminal(entries[t])
    PROVE  /\ entries[t].phase = "rig-check" /\ entries[t].plan # "probe" =>
                  "rig" \in StepsOf(entries[t].plan)
           /\ entries[t].phase = "rig" => "retarget" \in StepsOf(entries[t].plan)
<1>1. entries[t].plan \in Plans /\ entries[t].phase \in StepsOf(entries[t].plan)
  BY DEF IInv, EntryOK, Entry, MInv, EntryInPlan
<1> QED
  BY <1>1 DEF Plans, StepsOf, IsTerminal

LEMMA StartRigModel ==
    ASSUME IInv, MInv, NEW r \in Requests, StartRig(r) PROVE MInv'
<1>1. PICK t \in Tasks : t = request[r].task /\ entries[t] # NoEntry
  BY NamedJobs DEF StartRig
<1>2. "rig" \in Steps /\ "rig" \in StepsOf(entries[t].plan)
  BY <1>1, Continues DEF StartRig, Steps
<1>3. /\ request'[r].job = NextJob /\ request'[r].at = "advancing"
      /\ request'[r].phase = "rig" /\ request'[r].task = t
      /\ \A s \in Requests \ {r} : request'[s] = request[s]
  BY <1>1 DEF StartRig, IInv, TypeOK
<1>4. jobs' = Started(t, "rig", NoJob) /\ NoJob \in JobIds \cup {NoJob}
  BY <1>1 DEF StartRig
<1> QED
  BY <1>1, <1>2, <1>3, <1>4, StartModel DEF StartRig

LEMMA StartRetargetModel ==
    ASSUME IInv, MInv, NEW r \in Requests, StartRetarget(r) PROVE MInv'
<1>1. PICK t \in Tasks : t = request[r].task /\ entries[t] # NoEntry
  BY NamedJobs DEF StartRetarget
<1>2. "retarget" \in Steps /\ "retarget" \in StepsOf(entries[t].plan)
  BY <1>1, Continues DEF StartRetarget, Steps
<1>3. /\ request'[r].job = NextJob /\ request'[r].at = "advancing"
      /\ request'[r].phase = "retarget" /\ request'[r].task = t
      /\ \A s \in Requests \ {r} : request'[s] = request[s]
  BY <1>1 DEF StartRetarget, IInv, TypeOK
<1> DEFINE on == entries[t].job
<1>4. jobs' = Started(t, "retarget", on)
  BY <1>1 DEF StartRetarget
<1>5. on \in JobIds /\ on \in DOMAIN jobs /\ jobs[on].of = t
  BY <1>1, NamedJobs DEF IInv, EntryOK, Entry
<1>6. jobs[on].step = "rig"
  BY <1>1 DEF MInv, EntryInPlan, StartRetarget
<1>7. t \notin overlapped => jobs[on].state = "done"
  <2> SUFFICES ASSUME t \notin overlapped PROVE jobs[on].state = "done"
    OBVIOUS
  <2>1. request[r].at = "polled" /\ request[r].answer \in {"done", "unfit"}
    BY DEF StartRetarget
  <2>2. request[r].job = on
    BY <1>1, <2>1, AskedJob
  <2>3. jobs[on].state = request[r].answer
    BY <2>1, <2>2 DEF MInv, HandlerInPlan
  <2>4. OnSkeleton(on)
    BY <1>5 DEF MInv
  <2> QED
    BY <1>6, <2>1, <2>3, <2>4 DEF OnSkeleton
<1> HIDE DEF on
<1> QED
  BY <1>1, <1>2, <1>3, <1>4, <1>5, <1>6, <1>7, StartModel DEF StartRetarget

---------------------------------------------------------------------------
(* The steps that change an entry, and the poll.                           *)

(* The tasks a handler's step is not about.                                *)
LEMMA OthersModel ==
    ASSUME IInv, MInv, JobsGoOn, PlansStay, NEW t \in Tasks \ overlapped,
           entries'[t] = entries[t], served'[t] = served[t],
           NEW r \in Requests, request'[r].at = "idle" \/ request'[r].task # t,
           \A s \in Requests \ {r} : request'[s] = request[s]
    PROVE  PolledAlone(t)' /\ ServedLast(t)'
<1>1. \A s \in Requests : Polling(s, t)' => s # r
  BY DEF Polling
<1>2. \A s \in Requests : Polling(s, t)' =>
               /\ Polling(s, t)
               /\ Asking(s, t)' => Asking(s, t) /\ request'[s].job = request[s].job
               /\ request'[s].at = "downloading" =>
                     request[s].at = "downloading" \/ IsTerminal(entries[t])
  BY <1>1 DEF Polling, Asking
<1>3. PolledAlone(t)'
  BY <1>2, StaysPolledAlone
<1> QED
  BY <1>3, StaysServed DEF ServedLast

LEMMA PollModel ==
    ASSUME IInv, MInv, NEW r \in Requests, NEW t \in Tasks, Poll(r, t) PROVE MInv'
<1>1. /\ TypeOK /\ t \in registry /\ entries[t].status = "running" /\ request[r] = Idle
      /\ UNCHANGED <<entries, served, jobs>> /\ overlapped \subseteq overlapped'
  BY DEF Poll, IsRunning, IInv
<1>2. /\ request'[r].at = "polled" /\ request'[r].task = t /\ request'[r].job = entries[t].job
      /\ request'[r].answer = jobs[entries[t].job].state
      /\ \A s \in Requests \ {r} : request'[s] = request[s]
  BY DEF Poll, IInv, TypeOK
<1>3. JobsGoOn /\ PlansStay
  BY <1>1, SameGoOn, EntriesStayed
<1>4. HandlerInPlan(r)'
  BY <1>1, <1>2 DEF HandlerInPlan
<1>5. \A s \in Requests \ {r} : HandlerInPlan(s)'
  BY <1>2, <1>3, HandlersStayInPlan
<1>6. \A x \in Tasks : EntryInPlan(x)'
  BY <1>1, <1>3, EntriesStayInPlan
<1>7. \A j \in DOMAIN jobs' : OnSkeleton(j)'
  BY <1>1, <1>3, SkeletonsStay
<1>8. ASSUME NEW x \in Tasks \ overlapped', x # t PROVE PolledAlone(x)' /\ ServedLast(x)'
  <2>1. x \in Tasks \ overlapped /\ entries'[x] = entries[x] /\ served'[x] = served[x]
    BY <1>1, <1>8
  <2> QED
    BY <1>2, <1>3, <1>8, <2>1, OthersModel
<1>9. ASSUME t \notin overlapped' PROVE PolledAlone(t)' /\ ServedLast(t)'
  <2>1. t \in Tasks \ overlapped /\ \A s \in Requests : ~Polling(s, t)
    BY <1>1, <1>9 DEF Poll
  <2>2. \A s \in Requests : Polling(s, t)' => s = r
    BY <1>2, <2>1 DEF Polling
  <2>3. \A s \in Requests : Asking(s, t)' => s = r
    BY <2>2 DEF Asking, Polling
  <2>4. \A s \in Requests : request'[s].at = "downloading" => request'[s].task # t
    BY <1>2, <2>1 DEF Polling
  <2>5. PolledAlone(t)'
    BY <1>1, <1>2, <2>2, <2>3, <2>4 DEF PolledAlone, OnePoll
  <2>6. ServedLast(t)'
    BY <1>1, <1>3, <2>1, StaysServed DEF ServedLast
  <2> QED
    BY <2>5, <2>6
<1> QED
  BY <1>4, <1>5, <1>6, <1>7, <1>8, <1>9 DEF MInv

LEMMA RegisterTaskModel ==
    ASSUME IInv, MInv, NEW r \in Requests, RegisterTask(r) PROVE MInv'
<1>1. PICK t \in Tasks : t = request[r].task
  BY NamedJobs DEF RegisterTask
<1> DEFINE q == request[r]
           e == [plan |-> q.plan, phase |-> jobs[q.job].step, job |-> q.job, status |-> "running"]
<1>2. /\ TypeOK /\ q.at = "registering" /\ Reply(r)
      /\ entries' = [entries EXCEPT ![t] = e]
      /\ UNCHANGED <<jobs, overlapped, served>>
  BY <1>1 DEF RegisterTask, IInv
<1>3. entries'[t] = e /\ \A x \in Tasks \ {t} : entries'[x] = entries[x]
  BY <1>2 DEF TypeOK
<1>4. /\ entries[t] = NoEntry /\ q.job \in DOMAIN jobs
      /\ \A s \in Requests : request[s].at # "idle" /\ request[s].task = t => request[s].at = "registering"
  BY <1>1, <1>2, NamedJobs
<1>5. JobsGoOn /\ PlansStay
  BY <1>2, <1>3, <1>4, SameGoOn DEF PlansStay
<1>6. /\ request'[r].at = "idle" /\ \A s \in Requests \ {r} : request'[s] = request[s]
  BY <1>2, ReplyEnds
<1>7. \A s \in Requests : HandlerInPlan(s)'
  BY <1>5, <1>6, HandlersStayInPlan
<1>8. EntryInPlan(t)'
  BY <1>2, <1>3 DEF MInv, HandlerInPlan, EntryInPlan
<1>9. \A x \in Tasks \ {t} : EntryInPlan(x)'
  BY <1>3, <1>5, EntriesStayInPlan
<1>10. \A j \in DOMAIN jobs' : OnSkeleton(j)'
  BY <1>2, <1>5, SkeletonsStay
<1>11. ASSUME NEW x \in Tasks \ overlapped', x # t PROVE PolledAlone(x)' /\ ServedLast(x)'
  <2>1. x \in Tasks \ overlapped /\ entries'[x] = entries[x] /\ served'[x] = served[x]
    BY <1>2, <1>3, <1>11
  <2> QED
    BY <1>5, <1>6, <2>1, OthersModel
<1>12. ASSUME t \notin overlapped' PROVE PolledAlone(t)' /\ ServedLast(t)'
  <2>1. \A s \in Requests : request'[s].at # "idle" /\ request'[s].task = t => request'[s].at = "registering"
    BY <1>4, <1>6
  <2>2. \A s \in Requests : ~Polling(s, t)' /\ ~Asking(s, t)'
    BY <2>1 DEF Polling, Asking
  <2>3. PolledAlone(t)'
    BY <1>3, <2>1, <2>2 DEF PolledAlone, OnePoll
  <2>4. t \in Tasks \ overlapped /\ served'[t] = served[t]
    BY <1>2, <1>12
  <2>5. ServedLast(t)'
    BY <1>5, <2>4, StaysServed DEF ServedLast
  <2> QED
    BY <2>3, <2>5
<1> QED
  BY <1>7, <1>8, <1>9, <1>10, <1>11, <1>12 DEF MInv

LEMMA AdvanceModel ==
    ASSUME IInv, MInv, NEW r \in Requests, Advance(r) PROVE MInv'
<1>1. PICK t \in Tasks : t = request[r].task /\ entries[t] # NoEntry
  BY NamedJobs DEF Advance
<1> DEFINE q == request[r]
<1>2. /\ TypeOK /\ q.at = "advancing" /\ Reply(r) /\ UpdateTaskEntry(t, q.job, q.phase)
      /\ UNCHANGED <<registry, jobs, overlapped, served>>
  BY <1>1 DEF Advance, IInv
<1>3. CASE t \notin registry
  <2>1. UNCHANGED entries
    BY <1>2, <1>3 DEF UpdateTaskEntry
  <2> QED
    BY <1>2, <2>1, ReplyModel
<1>4. CASE t \in registry
  <2>1. entries[t] \in Entry
    BY <1>1 DEF IInv, EntryOK
  <2>2. entries' = [entries EXCEPT ![t] = [entries[t] EXCEPT !.job = q.job, !.phase = q.phase]]
    BY <1>2, <1>4 DEF UpdateTaskEntry
  <2>3. /\ entries'[t] = [entries[t] EXCEPT !.job = q.job, !.phase = q.phase]
        /\ \A x \in Tasks \ {t} : entries'[x] = entries[x]
    BY <1>2, <2>2 DEF TypeOK
  <2>4. /\ entries'[t].job = q.job /\ entries'[t].phase = q.phase
        /\ entries'[t].plan = entries[t].plan /\ entries'[t].status = entries[t].status
    BY <2>1, <2>3 DEF Entry
  <2>5. entries'[t] # NoEntry
    BY <2>1, <2>4 DEF Entry, NoEntry, Plans
  <2>6. JobsGoOn /\ PlansStay
    BY <1>2, <2>3, <2>4, <2>5, SameGoOn DEF PlansStay
  <2>7. /\ request'[r].at = "idle" /\ \A s \in Requests \ {r} : request'[s] = request[s]
    BY <1>2, ReplyEnds
  <2>8. \A s \in Requests : HandlerInPlan(s)'
    BY <2>6, <2>7, HandlersStayInPlan
  <2>9. EntryInPlan(t)'
    BY <1>1, <1>2, <2>4 DEF MInv, HandlerInPlan, EntryInPlan
  <2>10. \A x \in Tasks \ {t} : EntryInPlan(x)'
    BY <2>3, <2>6, EntriesStayInPlan
  <2>11. \A j \in DOMAIN jobs' : OnSkeleton(j)'
    BY <1>2, <2>6, SkeletonsStay
  <2>12. ASSUME NEW x \in Tasks \ overlapped', x # t PROVE PolledAlone(x)' /\ ServedLast(x)'
    <3>1. x \in Tasks \ overlapped /\ entries'[x] = entries[x] /\ served'[x] = served[x]
      BY <1>2, <2>3, <2>12
    <3> QED
      BY <2>6, <2>7, <3>1, OthersModel
  <2>13. ASSUME t \notin overlapped' PROVE PolledAlone(t)' /\ ServedLast(t)'
    <3>1. t \in Tasks \ overlapped /\ served'[t] = served[t]
      BY <1>2, <2>13
    <3>2. PolledAlone(t) /\ Polling(r, t)
      BY <1>1, <1>2, <3>1 DEF MInv, Polling
    <3>3. \A s \in Requests \ {r} : ~Polling(s, t)
      BY <3>2 DEF PolledAlone, OnePoll
    <3>4. entries'[t].status # "complete"
      BY <2>4, <3>2 DEF PolledAlone
    <3>5. \A s \in Requests : ~Polling(s, t)'
      BY <2>7, <3>3 DEF Polling
    <3>6. \A s \in Requests : ~Asking(s, t)' /\ ~(request'[s].at = "downloading" /\ request'[s].task = t)
      BY <3>5 DEF Polling, Asking
    <3>7. PolledAlone(t)'
      BY <3>4, <3>5, <3>6 DEF PolledAlone, OnePoll
    <3>8. ServedLast(t)'
      BY <2>6, <3>1, StaysServed DEF ServedLast
    <3> QED
      BY <3>7, <3>8
  <2> QED
    BY <2>8, <2>9, <2>10, <2>11, <2>12, <2>13 DEF MInv
<1> QED
  BY <1>3, <1>4

LEMMA CompleteModel ==
    ASSUME IInv, MInv, NEW r \in Requests, Complete(r) PROVE MInv'
<1>1. PICK t \in Tasks : t = request[r].task /\ entries[t] # NoEntry /\ request[r].job \in DOMAIN jobs
  BY NamedJobs DEF Complete
<1> DEFINE q == request[r]
<1>2. /\ TypeOK /\ q.at = "downloading" /\ Reply(r)
      /\ entries' = IF t \in registry THEN [entries EXCEPT ![t].status = "complete"] ELSE entries
      /\ served' = [served EXCEPT ![t] = @ \cup {q.job}]
      /\ UNCHANGED <<jobs, overlapped>>
  BY <1>1 DEF Complete, IInv
<1>3. entries[t] \in Entry
  BY <1>1 DEF IInv, EntryOK
<1>4. /\ entries'[t] = IF t \in registry THEN [entries[t] EXCEPT !.status = "complete"] ELSE entries[t]
      /\ \A x \in Tasks \ {t} : entries'[x] = entries[x]
  BY <1>2 DEF TypeOK
<1>5. /\ entries'[t].job = entries[t].job /\ entries'[t].phase = entries[t].phase
      /\ entries'[t].plan = entries[t].plan
  BY <1>3, <1>4 DEF Entry
<1>6. entries'[t] # NoEntry
  BY <1>3, <1>5 DEF Entry, NoEntry, Plans
<1>7. JobsGoOn /\ PlansStay
  BY <1>2, <1>4, <1>5, <1>6, SameGoOn DEF PlansStay
<1>8. /\ request'[r].at = "idle" /\ \A s \in Requests \ {r} : request'[s] = request[s]
  BY <1>2, ReplyEnds
<1>9. \A s \in Requests : HandlerInPlan(s)'
  BY <1>7, <1>8, HandlersStayInPlan
<1>10. \A x \in Tasks : EntryInPlan(x)'
  <2>1. EntryInPlan(t)'
    BY <1>1, <1>5, <1>7, EntriesStayInPlan
  <2>2. \A x \in Tasks \ {t} : EntryInPlan(x)'
    BY <1>4, <1>7, EntriesStayInPlan
  <2> QED
    BY <2>1, <2>2
<1>11. \A j \in DOMAIN jobs' : OnSkeleton(j)'
  BY <1>2, <1>7, SkeletonsStay
<1>12. served'[t] = served[t] \cup {q.job} /\ \A x \in Tasks \ {t} : served'[x] = served[x]
  BY <1>2 DEF TypeOK
<1>13. ASSUME NEW x \in Tasks \ overlapped', x # t PROVE PolledAlone(x)' /\ ServedLast(x)'
  <2>1. x \in Tasks \ overlapped /\ entries'[x] = entries[x] /\ served'[x] = served[x]
    BY <1>2, <1>4, <1>12, <1>13
  <2> QED
    BY <1>7, <1>8, <2>1, OthersModel
<1>14. ASSUME t \notin overlapped' PROVE PolledAlone(t)' /\ ServedLast(t)'
  <2>1. t \in Tasks \ overlapped
    BY <1>2, <1>14
  <2>2. PolledAlone(t) /\ Polling(r, t) /\ q.job = entries[t].job /\ IsTerminal(entries[t])
    BY <1>1, <1>2, <2>1, AskedJob DEF MInv, Polling, PolledAlone
  <2>3. \A s \in Requests \ {r} : ~Polling(s, t)
    BY <2>2 DEF PolledAlone, OnePoll
  <2>4. \A s \in Requests : ~Polling(s, t)'
    BY <1>8, <2>3 DEF Polling
  <2>5. \A s \in Requests : ~Asking(s, t)' /\ ~(request'[s].at = "downloading" /\ request'[s].task = t)
    BY <2>4 DEF Polling, Asking
  <2>6. jobs[q.job].state = "done"
    BY <1>2 DEF MInv, HandlerInPlan
  <2>7. PolledAlone(t)'
    BY <1>2, <1>5, <2>2, <2>4, <2>5, <2>6 DEF PolledAlone, OnePoll
  <2>8. jobs[q.job].step = LastStep(entries[t].plan)
    <3>1. /\ entries[t].plan \in Plans /\ jobs[q.job].step = entries[t].phase
          /\ entries[t].phase \in StepsOf(entries[t].plan)
      BY <1>1, <1>3, <2>2 DEF Entry, MInv, EntryInPlan
    <3> QED
      BY <2>2, <3>1 DEF Plans, StepsOf, LastStep, IsTerminal
  <2>9. ASSUME NEW j \in served'[t]
        PROVE  /\ j \in DOMAIN jobs' /\ entries'[t] # NoEntry
               /\ jobs'[j].state = "done" /\ jobs'[j].step = LastStep(entries'[t].plan)
    <3>1. CASE j \in served[t]
      BY <1>7, <2>1, <3>1, StaysServed
    <3>2. CASE j = q.job
      BY <1>1, <1>2, <1>5, <1>6, <2>6, <2>8, <3>2
    <3> QED
      BY <1>12, <3>1, <3>2
  <2>10. ServedLast(t)'
    BY <2>9 DEF ServedLast
  <2> QED
    BY <2>7, <2>10
<1> QED
  BY <1>9, <1>10, <1>11, <1>13, <1>14 DEF MInv

---------------------------------------------------------------------------
LEMMA InitModel == Init => MInv
<1> SUFFICES ASSUME Init PROVE MInv
  OBVIOUS
<1>1. /\ jobs = <<>> /\ (\A r \in Requests : request[r] = Idle)
      /\ \A t \in Tasks : entries[t] = NoEntry /\ served[t] = {}
  BY DEF Init
<1>2. /\ \A t \in Tasks : EntryInPlan(t)
      /\ \A r \in Requests : HandlerInPlan(r)
  BY <1>1 DEF EntryInPlan, HandlerInPlan, Idle
<1>3. \A j \in DOMAIN jobs : OnSkeleton(j)
  <2>1. DOMAIN jobs = {}
    BY <1>1
  <2> QED
    BY <2>1
<1>4. \A t \in Tasks : PolledAlone(t) /\ ServedLast(t)
  <2>1. \A r \in Requests : request[r].at = "idle"
    BY <1>1 DEF Idle
  <2>2. \A t \in Tasks : entries[t].status = "none"
    <3>1. NoEntry.status = "none"
      BY DEF NoEntry
    <3>2. \A t \in Tasks : entries[t] = NoEntry
      BY <1>1
    <3> QED
      BY <3>1, <3>2
  <2>3. \A t \in Tasks, r \in Requests : ~Polling(r, t) /\ ~Asking(r, t)
    BY <2>1 DEF Polling, Asking
  <2>4. \A t \in Tasks : PolledAlone(t)
    BY <2>1, <2>2, <2>3 DEF PolledAlone, OnePoll
  <2> QED
    BY <1>1, <2>4 DEF ServedLast
<1> QED
  BY <1>2, <1>3, <1>4 DEF MInv

LEMMA StepModel == IInv /\ MInv /\ [Next]_vars => MInv'
<1> SUFFICES ASSUME IInv, MInv, [Next]_vars PROVE MInv'
  OBVIOUS
<1>1. ASSUME NEW r \in Requests, NEW t \in Tasks, NEW plan \in Plans, Post(r, t, plan)
      PROVE  MInv'
  BY <1>1, PostModel
<1>2. ASSUME NEW r \in Requests, NEW t \in Tasks, NEW source \in Tasks,
             PostRetarget(r, t, source)
      PROVE  MInv'
  BY <1>2, PostRetargetModel
<1>3. ASSUME NEW r \in Requests, RegisterTask(r) \/ AnswerLost(r) \/ Advance(r) PROVE MInv'
  BY <1>3, RegisterTaskModel, EndsModel, AdvanceModel
<1>4. ASSUME NEW r \in Requests, NEW t \in Tasks, Poll(r, t) \/ Cancel(r, t) PROVE MInv'
  BY <1>4, PollModel, StopModel
<1>5. ASSUME NEW r \in Requests, NEW b \in BOOLEAN, PollFails(r, b) \/ CancelUpstream(r, b)
      PROVE  MInv'
  BY <1>5, EndsModel, CancelUpstreamModel
<1>6. ASSUME NEW r \in Requests, ReportProgress(r) \/ ReportFailure(r) \/ RigCheckStop(r)
      PROVE  MInv'
  BY <1>6, EndsModel
<1>7. ASSUME NEW r \in Requests, StartRig(r) \/ StartRetarget(r) PROVE MInv'
  BY <1>7, StartRigModel, StartRetargetModel
<1>8. ASSUME NEW r \in Requests, Download(r) \/ Complete(r) PROVE MInv'
  BY <1>8, DownloadModel, CompleteModel
<1>9. ASSUME NEW t \in Tasks, Expire(t) PROVE MInv'
  BY <1>9, StopModel
<1>10. CASE Restart \/ UNCHANGED vars
  BY <1>10, StopModel
<1>11. ASSUME NEW j \in JobIds, NEW state \in {"done", "unfit", "failed"}, JobEnds(j, state)
       PROVE  MInv'
  BY <1>11, JobEndsModel
<1> QED
  BY <1>1, <1>2, <1>3, <1>4, <1>5, <1>6, <1>7, <1>8, <1>9, <1>10, <1>11 DEF Next

(* For any number of tasks and of handlers, the client is given the model of *)
(* the last step of its plan, finished, and baked on a finished skeleton,    *)
(* but where polls overlapped and one of them read its answer about a job    *)
(* against the phase of the next.  generate-node.ts: completePollSuccess,    *)
(* completeTask, tryRetargetOnly.                                            *)
THEOREM ModelsAreOfTheLastStep == Spec => []ModelIsOfTheLastStep
<1>1. MInv => ModelIsOfTheLastStep
  <2> SUFFICES ASSUME MInv, NEW t \in Tasks \ overlapped, NEW j \in served[t]
               PROVE  /\ jobs[j].state = "done"
                      /\ jobs[j].step = LastStep(entries[t].plan)
                      /\ LET rig == jobs[jobs[j].on] IN
                         jobs[j].on # NoJob /\ rig.of \notin overlapped =>
                             rig.state = "done" /\ rig.step = "rig"
    BY DEF ModelIsOfTheLastStep, LastStep
  <2>1. j \in DOMAIN jobs /\ jobs[j].state = "done" /\ jobs[j].step = LastStep(entries[t].plan)
    BY DEF MInv, ServedLast
  <2> QED
    BY <2>1 DEF MInv, OnSkeleton
<1> QED
  BY <1>1, Invariant, InitModel, StepModel, PTL DEF Spec

=============================================================================
