-------------------------- MODULE GenerationTasks --------------------------
(***************************************************************************)
(* The asynchronous generation tasks of the backend (generate-node.ts,     *)
(* generation-tasks.ts) and the jobs they stand for at the model provider. *)
(*                                                                         *)
(* A POST starts a job at the provider and registers a task in the memory  *)
(* of the server; the client polls the task with GET until it ends and may *)
(* stop it with DELETE.  An animate task is a chain of jobs: the poll that *)
(* sees one of them finished starts the next.  Every handler waits for the *)
(* provider in the middle, and the polls, the stop and the expiry of one   *)
(* task interleave there.  A handler keeps a reference to the task's entry *)
(* across its awaits: it reads the entry as it is after them.              *)
(***************************************************************************)
EXTENDS Naturals, Sequences

CONSTANTS
    Tasks,      \* public task ids
    Requests,   \* handlers that may be running at once
    MaxJobs     \* bound: jobs started at the provider

ASSUME MaxJobsAssumption == MaxJobs \in Nat

VARIABLES
    entries,    \* the entry object of a task, NoEntry before its POST
    registry,   \* the tasks the registry's map holds
    jobs,       \* the provider's jobs, in the order they were started
    request,    \* what each handler is doing
    overlapped, \* history: tasks one of whose polls began during another
    raced,      \* history: tasks that left the registry during one of their polls
    lost,       \* history: tasks that expired, were given up on an error, or restarted
    unanswered, \* history: tasks for which the provider's answer to a start was lost
    served      \* history: the jobs whose model a task was answered with

vars == <<entries, registry, jobs, request, overlapped, raced, lost, unanswered, served>>

JobIds == 1 .. MaxJobs
NoJob == 0

\* What a POST asks for.  "model" is any task of a single job: text, image,
\* multiview, retopology, split, retexture, and the in-process CAD task.
Plans == {"model", "probe", "rigOnly", "animate"}

Steps == {"model", "rig-check", "rig", "retarget"}

NoEntry == [plan |-> "none", phase |-> "none", job |-> NoJob, status |-> "none"]

Entry == [plan : Plans, phase : Steps, job : JobIds, status : {"running", "complete"}]

\* "unfit" is a finished rig check of a model that cannot be rigged, or whose
\* skeleton does not take the presets asked for.
Job == [of : Tasks, step : Steps, on : JobIds \cup {NoJob},
        state : {"running", "done", "unfit", "failed", "cancelled"}]

Idle == [at |-> "idle"]

Request ==
    {Idle}
    \cup [at : {"registering"}, task : Tasks, plan : Plans, job : JobIds]
    \cup [at : {"polled", "downloading"}, task : Tasks, job : JobIds, answer : {"running", "done", "unfit", "failed", "cancelled"}]
    \cup [at : {"advancing"}, task : Tasks, job : JobIds, phase : {"rig", "retarget"}]
    \cup [at : {"cancelling"}, task : Tasks, job : JobIds]

Init ==
    /\ entries = [t \in Tasks |-> NoEntry]
    /\ registry = {}
    /\ jobs = <<>>
    /\ request = [r \in Requests |-> Idle]
    /\ overlapped = {}
    /\ raced = {}
    /\ lost = {}
    /\ unanswered = {}
    /\ served = [t \in Tasks |-> {}]

---------------------------------------------------------------------------
(* The registry.                                                           *)

\* getTask: what a poll and a stop look up.
IsRunning(t) == t \in registry /\ entries[t].status = "running"

\* getCompletedTask: the source of the retarget-only shortcut.
IsComplete(t) == t \in registry /\ entries[t].status = "complete"

(* Mutant: the entry takes the new job and keeps its phase. *)
UpdateTaskEntryJobOnly(t, job, phase) ==
    entries' = IF t \in registry THEN [entries EXCEPT ![t].job = job] ELSE entries

\* updateTaskEntry: the patch goes nowhere when the task was evicted meanwhile.
UpdateTaskEntry(t, job, phase) ==
    entries' = IF t \in registry
               THEN [entries EXCEPT ![t].job = job, ![t].phase = phase]
               ELSE entries

Polling(r, t) == request[r].at \in {"polled", "advancing", "downloading"} /\ request[r].task = t

\* evictTask, by request r (or by none of them).
Evict(t, r) ==
    /\ registry' = registry \ {t}
    /\ raced' = IF \E q \in Requests \ {r} : Polling(q, t) THEN raced \cup {t} ELSE raced

FirstStep(plan) == IF plan = "model" THEN "model" ELSE "rig-check"

(* Mutant: every chain ends with its rig. *)
IsTerminalAtRig(e) == e.plan = "model" \/ e.phase \in {"rig", "retarget"}

\* chainTerminal in completePollSuccess.
IsTerminal(e) ==
    \/ e.plan = "model"
    \/ e.phase = "retarget"
    \/ e.plan = "rigOnly" /\ e.phase = "rig"

\* The provider starts a job when a handler asks for it.
Started(t, step, on) == Append(jobs, [of |-> t, step |-> step, on |-> on, state |-> "running"])
NextJob == Len(jobs) + 1
CanStart == Len(jobs) < MaxJobs

\* randomUUID: no two POSTs are given the same public id.
IsNew(t) == \A j \in DOMAIN jobs : jobs[j].of # t

Reply(r) == request' = [request EXCEPT ![r] = Idle]

---------------------------------------------------------------------------
(* POST /generations.                                                      *)

\* startFreshGeneration and startSourceFollowUp: the job is started, and the
\* task registered only once the provider has answered.
Post(r, t, plan) ==
    /\ request[r] = Idle
    /\ IsNew(t)
    /\ CanStart
    /\ jobs' = Started(t, FirstStep(plan), NoJob)
    /\ request' = [request EXCEPT ![r] = [at |-> "registering", task |-> t, plan |-> plan, job |-> NextJob]]
    /\ UNCHANGED <<entries, registry, overlapped, raced, lost, unanswered, served>>

\* tryRetargetOnly: the skeleton of a finished rig-only task is used again.
PostRetarget(r, t, source) ==
    /\ request[r] = Idle
    /\ IsNew(t)
    /\ IsComplete(source)
    /\ entries[source].phase = "rig"
    /\ CanStart
    /\ jobs' = Started(t, "retarget", entries[source].job)
    /\ request' = [request EXCEPT ![r] = [at |-> "registering", task |-> t, plan |-> "animate", job |-> NextJob]]
    /\ UNCHANGED <<entries, registry, overlapped, raced, lost, unanswered, served>>

(* Mutant: the entry is registered without its phase. *)
RegisterTaskNoPhase(r) ==
    LET q == request[r] IN
    /\ q.at = "registering"
    /\ entries' = [entries EXCEPT ![q.task] =
                     [plan |-> q.plan, phase |-> "none", job |-> q.job, status |-> "running"]]
    /\ registry' = registry \cup {q.task}
    /\ Reply(r)
    /\ UNCHANGED <<jobs, overlapped, raced, lost, unanswered, served>>

\* registerTask: the phase of a new entry is the step of its job.
RegisterTask(r) ==
    LET q == request[r] IN
    /\ q.at = "registering"
    /\ entries' = [entries EXCEPT ![q.task] =
                     [plan |-> q.plan, phase |-> jobs[q.job].step, job |-> q.job, status |-> "running"]]
    /\ registry' = registry \cup {q.task}
    /\ Reply(r)
    /\ UNCHANGED <<jobs, overlapped, raced, lost, unanswered, served>>

\* The provider has started the job, and its answer does not arrive: the
\* handler ends with an error, before or after the task was registered.
AnswerLost(r) ==
    /\ request[r].at \in {"registering", "advancing"}
    /\ unanswered' = unanswered \cup {request[r].task}
    /\ Reply(r)
    /\ UNCHANGED <<entries, registry, jobs, overlapped, raced, lost, served>>

---------------------------------------------------------------------------
(* GET /generations/:taskId.                                               *)

\* getTask, then the provider is asked for the job the entry names.
Poll(r, t) ==
    /\ request[r] = Idle
    /\ IsRunning(t)
    /\ LET job == entries[t].job IN
       request' = [request EXCEPT ![r] = [at |-> "polled", task |-> t, job |-> job, answer |-> jobs[job].state]]
    /\ overlapped' = IF \E q \in Requests : Polling(q, t) THEN overlapped \cup {t} ELSE overlapped
    /\ UNCHANGED <<entries, registry, jobs, raced, lost, unanswered, served>>

\* A call to the provider fails.  An authentication or credit error evicts
\* the task; any other, and a failed download, leaves it for the next poll.
PollFails(r, terminal) ==
    LET t == request[r].task IN
    /\ request[r].at \in IF terminal THEN {"polled"} ELSE {"polled", "downloading"}
    /\ Reply(r)
    /\ IF terminal
       THEN Evict(t, r) /\ lost' = lost \cup {t}
       ELSE UNCHANGED <<registry, raced, lost>>
    /\ UNCHANGED <<entries, jobs, overlapped, unanswered, served>>

\* buildProgressBody.
ReportProgress(r) ==
    /\ request[r].at = "polled"
    /\ request[r].answer = "running"
    /\ Reply(r)
    /\ UNCHANGED <<entries, registry, jobs, overlapped, raced, lost, unanswered, served>>

\* respondToTaskFailure.
ReportFailure(r) ==
    /\ request[r].at = "polled"
    /\ request[r].answer \in {"failed", "cancelled"}
    /\ Evict(request[r].task, r)
    /\ Reply(r)
    /\ UNCHANGED <<entries, jobs, overlapped, lost, unanswered, served>>

\* rigCheckStop: a probe is answered, an unfit model refused, before the paid
\* rig step.
RigCheckStop(r) ==
    LET t == request[r].task IN
    /\ request[r].at = "polled"
    /\ request[r].answer \in {"done", "unfit"}
    /\ ~IsTerminal(entries[t])
    /\ entries[t].phase = "rig-check"
    /\ entries[t].plan = "probe" \/ request[r].answer = "unfit"
    /\ Evict(t, r)
    /\ Reply(r)
    /\ UNCHANGED <<entries, jobs, overlapped, lost, unanswered, served>>

\* advanceFromRigCheck: the rig step is started on the source.
StartRig(r) ==
    LET t == request[r].task IN
    /\ request[r].at = "polled"
    /\ request[r].answer = "done"
    /\ ~IsTerminal(entries[t])
    /\ entries[t].phase = "rig-check"
    /\ entries[t].plan # "probe"
    /\ CanStart
    /\ jobs' = Started(t, "rig", NoJob)
    /\ request' = [request EXCEPT ![r] = [at |-> "advancing", task |-> t, job |-> NextJob, phase |-> "rig"]]
    /\ UNCHANGED <<entries, registry, overlapped, raced, lost, unanswered, served>>

\* advanceAnimateChain, in phase "rig": the animations are baked on the job
\* the entry names now.
StartRetarget(r) ==
    LET t == request[r].task IN
    /\ request[r].at = "polled"
    /\ request[r].answer \in {"done", "unfit"}
    /\ ~IsTerminal(entries[t])
    /\ entries[t].phase = "rig"
    /\ CanStart
    /\ jobs' = Started(t, "retarget", entries[t].job)
    /\ request' = [request EXCEPT ![r] = [at |-> "advancing", task |-> t, job |-> NextJob, phase |-> "retarget"]]
    /\ UNCHANGED <<entries, registry, overlapped, raced, lost, unanswered, served>>

\* The new job's id comes back and the entry moves on to it.
Advance(r) ==
    LET q == request[r] IN
    /\ q.at = "advancing"
    /\ UpdateTaskEntry(q.task, q.job, q.phase)
    /\ Reply(r)
    /\ UNCHANGED <<registry, jobs, overlapped, raced, lost, unanswered, served>>

\* completeTask: a result without a model, such as a rig check's, is an error.
Download(r) ==
    LET q == request[r] IN
    /\ q.at = "polled"
    /\ q.answer \in {"done", "unfit"}
    /\ IsTerminal(entries[q.task])
    /\ request' = [request EXCEPT ![r] = IF jobs[q.job].step = "rig-check" THEN Idle
                                         ELSE [q EXCEPT !.at = "downloading"]]
    /\ UNCHANGED <<entries, registry, jobs, overlapped, raced, lost, unanswered, served>>

\* markTaskComplete, and the answer with the model.
Complete(r) ==
    LET q == request[r] IN
    /\ q.at = "downloading"
    /\ entries' = IF q.task \in registry THEN [entries EXCEPT ![q.task].status = "complete"] ELSE entries
    /\ served' = [served EXCEPT ![q.task] = @ \cup {q.job}]
    /\ Reply(r)
    /\ UNCHANGED <<registry, jobs, overlapped, raced, lost, unanswered>>

---------------------------------------------------------------------------
(* DELETE /generations/:taskId, expiry, restart, and the provider.         *)

(* Mutant: the task is forgotten and the provider is not told. *)
CancelLocally(r, t) ==
    /\ request[r] = Idle
    /\ IsRunning(t)
    /\ Evict(t, r)
    /\ UNCHANGED <<entries, jobs, request, overlapped, lost, unanswered, served>>

\* The task is evicted before the provider is asked to cancel.
Cancel(r, t) ==
    /\ request[r] = Idle
    /\ IsRunning(t)
    /\ Evict(t, r)
    /\ request' = [request EXCEPT ![r] = [at |-> "cancelling", task |-> t, job |-> entries[t].job]]
    /\ UNCHANGED <<entries, jobs, overlapped, lost, unanswered, served>>

\* The provider takes the cancellation, or does not know it.
CancelUpstream(r, accepted) ==
    LET q == request[r] IN
    /\ q.at = "cancelling"
    /\ IF accepted /\ jobs[q.job].state = "running"
       THEN jobs' = [jobs EXCEPT ![q.job].state = "cancelled"] /\ UNCHANGED lost
       ELSE lost' = lost \cup {q.task} /\ UNCHANGED jobs
    /\ Reply(r)
    /\ UNCHANGED <<entries, registry, overlapped, raced, unanswered, served>>

\* An hour after it was registered, or completed, a task is gone.
Expire(t) ==
    /\ t \in registry
    /\ registry' = registry \ {t}
    /\ lost' = lost \cup {t}
    /\ UNCHANGED <<entries, jobs, request, overlapped, raced, unanswered, served>>

\* The tasks and the handlers live in memory; the jobs do not, but for a CAD
\* task's, which JobEnds may end.
Restart ==
    /\ registry' = {}
    /\ request' = [r \in Requests |-> Idle]
    /\ lost' = lost \cup registry \cup {request[r].task : r \in {q \in Requests : request[q] # Idle}}
    /\ UNCHANGED <<entries, jobs, overlapped, raced, unanswered, served>>

\* External: a job ends at the provider.
JobEnds(j, state) ==
    /\ j \in 1 .. Len(jobs)
    /\ jobs[j].state = "running"
    /\ state = "unfit" => jobs[j].step = "rig-check"
    /\ jobs' = [jobs EXCEPT ![j].state = state]
    /\ UNCHANGED <<entries, registry, request, overlapped, raced, lost, unanswered, served>>

Next ==
    \/ \E r \in Requests, t \in Tasks, plan \in Plans : Post(r, t, plan)
    \/ \E r \in Requests, t, source \in Tasks : PostRetarget(r, t, source)
    \/ \E r \in Requests : RegisterTask(r)
    \/ \E r \in Requests : AnswerLost(r)
    \/ \E r \in Requests, t \in Tasks : Poll(r, t)
    \/ \E r \in Requests, terminal \in BOOLEAN : PollFails(r, terminal)
    \/ \E r \in Requests : ReportProgress(r)
    \/ \E r \in Requests : ReportFailure(r)
    \/ \E r \in Requests : RigCheckStop(r)
    \/ \E r \in Requests : StartRig(r)
    \/ \E r \in Requests : StartRetarget(r)
    \/ \E r \in Requests : Advance(r)
    \/ \E r \in Requests : Download(r)
    \/ \E r \in Requests : Complete(r)
    \/ \E r \in Requests, t \in Tasks : Cancel(r, t)
    \/ \E r \in Requests, accepted \in BOOLEAN : CancelUpstream(r, accepted)
    \/ \E t \in Tasks : Expire(t)
    \/ Restart
    \/ \E j \in JobIds, state \in {"done", "unfit", "failed"} : JobEnds(j, state)

Spec == Init /\ [][Next]_vars

---------------------------------------------------------------------------
(* Properties.                                                             *)

\* Everything has its type, and a task in the registry has an entry.
TypeOK ==
    /\ entries \in [Tasks -> Entry \cup {NoEntry}]
    /\ registry \subseteq {t \in Tasks : entries[t] # NoEntry}
    /\ jobs \in Seq(Job) /\ Len(jobs) <= MaxJobs
    /\ request \in [Requests -> Request]
    /\ overlapped \subseteq Tasks
    /\ raced \subseteq Tasks
    /\ lost \subseteq Tasks
    /\ unanswered \subseteq Tasks
    /\ served \in [Tasks -> SUBSET JobIds]

\* The rig and the bake of one task, which cost credits, are started once,
\* unless two polls of the task overlapped, when both may see the finished step
\* before either has moved the entry on (advanceAnimateChain), or the answer to
\* a start was lost, when the next poll starts the step again.
PaidStepsStartOnce ==
    \A i, j \in DOMAIN jobs :
        i < j /\ jobs[i].of = jobs[j].of /\ jobs[i].step = jobs[j].step =>
            jobs[i].of \in overlapped \cup unanswered

\* What the client is given is the last model of its chain, finished, and it
\* was baked on a finished skeleton, unless two polls of the task, or of the
\* task whose skeleton it uses, overlapped: the later one then reads its answer
\* about one job against the phase of the next (completePollSuccess reads the
\* entry after the await).
ModelIsOfTheLastStep ==
    \A t \in Tasks \ overlapped : \A j \in served[t] :
        /\ jobs[j].state = "done"
        /\ jobs[j].step = (CASE entries[t].plan = "model" -> "model"
                             [] entries[t].plan = "rigOnly" -> "rig"
                             [] OTHER -> "retarget")
        /\ LET rig == jobs[jobs[j].on] IN
           jobs[j].on # NoJob /\ rig.of \notin overlapped => rig.state = "done" /\ rig.step = "rig"

\* A job somebody can still reach: its task is polled for it, or a handler
\* holds it.
IsFollowed(j) ==
    \/ \E t \in registry : entries[t].job = j
    \/ \E r \in Requests : request[r] # Idle /\ request[r].job = j

\* No job runs on at the provider that nobody will ever ask for or cancel,
\* except where the task expired, was given up, restarted or could not be
\* cancelled, where the answer to a start was lost, where it was stopped during
\* one of its polls, or where two polls overlapped.
NoJobIsAbandoned ==
    \A j \in DOMAIN jobs :
        jobs[j].state = "running" => IsFollowed(j) \/ jobs[j].of \in lost \cup unanswered \cup raced \cup overlapped

=============================================================================
