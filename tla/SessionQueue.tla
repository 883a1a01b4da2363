----------------------------- MODULE SessionQueue -----------------------------
(***************************************************************************)
(* SessionQueue of src/internal/execution/session-queue.ts: the promise    *)
(* chain that lets one command at a time onto a DrayOS CLI session.        *)
(*                                                                         *)
(* The queue has no loop and no lock: it is a chain of promise reactions,  *)
(* and what it does is decided by the order in which JavaScript runs them. *)
(* The model keeps that order. `jobs' is the FIFO of promise jobs          *)
(* (microtasks); each job below is one reaction the code registers:        *)
(*                                                                         *)
(*   run      the reaction of #tail that calls run() for a command         *)
(*   adopt    `settled' adopts the promise run() returned                  *)
(*   settle   that promise has settled, so `settled' settles with it       *)
(*   tail     the new #tail is fulfilled, whatever the outcome             *)
(*   cleanup  the .finally() that removes the abort listener               *)
(*                                                                         *)
(* Callers may enqueue, abort and close between any two jobs. The task is  *)
(* whatever the caller passes: it settles when it likes, or never.         *)
(***************************************************************************)
EXTENDS Naturals, Sequences

CONSTANTS
    Commands,   \* the calls of enqueue(), one element per call
    Signals,    \* the callers' AbortSignals
    NoSignal,   \* a call that passes no externalSignal
    SignalOf,   \* the externalSignal each call passes; calls may share one
    Results     \* what a task's promise may settle with

ASSUME SignalAssumption ==
    /\ NoSignal \notin Signals
    /\ SignalOf \in [Commands -> Signals \cup {NoSignal}]

VARIABLES
    closed,     \* #closed
    signalled,  \* the AbortSignals that have been aborted
    accepted,   \* the calls linked into the #tail chain, oldest first
    released,   \* how many links of that chain are fulfilled
    listening,  \* the calls whose forwardAbort listener is registered
    aborted,    \* the calls whose own controller is aborted
    adopted,    \* the calls whose `settled' waits on a pending task promise
    stage,      \* how far each call has got
    outcome,    \* what each call settles, or was refused, with
    jobs        \* the promise job queue

queueVars == <<closed, signalled, accepted, released, listening, aborted,
               adopted, stage, outcome, jobs>>

-----------------------------------------------------------------------------
Stages == {"new", "refused", "queued", "skipped", "running", "finished",
           "settled"}

QueueJobs == {"run", "adopt", "settle", "tail", "cleanup"}

AnyQueueJob == [kind : QueueJobs, cmd : Commands]

Job(kind, c) == [kind |-> kind, cmd |-> c]

\* The job at the head of the job queue is of this kind, for this call.
Runs(kind, c) == jobs # <<>> /\ Head(jobs) = Job(kind, c)

\* The call has an outcome and its caller can see it.
Answered(c) == stage[c] \in {"refused", "settled"}

QueueInit ==
    /\ closed = FALSE
    /\ signalled = {}
    /\ accepted = <<>>
    /\ released = 0
    /\ listening = {}
    /\ aborted = {}
    /\ adopted = {}
    /\ stage = [c \in Commands |-> "new"]
    /\ outcome = [c \in Commands |-> "none"]
    /\ jobs = <<>>

-----------------------------------------------------------------------------
(* Callers *)

\* A call that never enters the chain: its promise is rejected on the spot.
Refuse(c, why) ==
    /\ stage[c] = "new"
    /\ stage' = [stage EXCEPT ![c] = "refused"]
    /\ outcome' = [outcome EXCEPT ![c] = why]
    /\ UNCHANGED <<closed, signalled, accepted, released, listening, aborted,
                   adopted, jobs>>

\* Mutant of Accept: run() hangs on a promise that is already fulfilled, because
\* #tail was never moved on.
AcceptUnchained(c) ==
    /\ stage[c] = "new"
    /\ stage' = [stage EXCEPT ![c] = "queued"]
    /\ accepted' = Append(accepted, c)
    /\ listening' = listening \cup {c}
    /\ jobs' = Append(jobs, Job("run", c))
    /\ UNCHANGED <<closed, signalled, released, aborted, adopted, outcome>>

\* Mutant of Accept: the abort listener is registered only when the turn comes.
AcceptDeaf(c) ==
    /\ stage[c] = "new"
    /\ stage' = [stage EXCEPT ![c] = "queued"]
    /\ accepted' = Append(accepted, c)
    /\ jobs' = IF released = Len(accepted) THEN Append(jobs, Job("run", c))
                                           ELSE jobs
    /\ UNCHANGED <<closed, signalled, released, listening, aborted, adopted,
                   outcome>>

\* tail.then(run, run): with #tail already fulfilled the reaction is a job at
\* once, otherwise it waits for the tail job of the previous call.
Accept(c) ==
    /\ stage[c] = "new"
    /\ stage' = [stage EXCEPT ![c] = "queued"]
    /\ accepted' = Append(accepted, c)
    /\ listening' = IF SignalOf[c] = NoSignal THEN listening
                                             ELSE listening \cup {c}
    /\ jobs' = IF released = Len(accepted) THEN Append(jobs, Job("run", c))
                                           ELSE jobs
    /\ UNCHANGED <<closed, signalled, released, aborted, adopted, outcome>>

Enqueue(c) ==
    \/ closed /\ Refuse(c, "closed")
    \/ ~closed /\ SignalOf[c] \in signalled /\ Refuse(c, "aborted")
    \/ ~closed /\ SignalOf[c] \notin signalled /\ Accept(c)

\* An AbortSignal fires once; every forwardAbort registered on it runs in that
\* very call, and is registered no more ({ once: true }).
ListenersOf(s) == {c \in listening : SignalOf[c] = s}

SignalFires(s) ==
    /\ s \notin signalled
    /\ signalled' = signalled \cup {s}
    /\ aborted' = aborted \cup ListenersOf(s)
    /\ listening' = listening \ ListenersOf(s)
    /\ UNCHANGED <<closed, accepted, released, adopted, stage, outcome>>

Abort(s) == SignalFires(s) /\ UNCHANGED jobs

Close ==
    /\ closed' = TRUE
    /\ UNCHANGED <<signalled, accepted, released, listening, aborted, adopted,
                   stage, outcome, jobs>>

-----------------------------------------------------------------------------
(* Promise jobs *)

\* run() of an aborted call: a rejected promise, and the task is never called.
SkipJob(c) ==
    /\ Runs("run", c)
    /\ c \in aborted
    /\ stage' = [stage EXCEPT ![c] = "skipped"]
    /\ outcome' = [outcome EXCEPT ![c] = "aborted"]
    /\ jobs' = Append(Tail(jobs), Job("adopt", c))
    /\ UNCHANGED <<closed, signalled, accepted, released, listening, aborted,
                   adopted>>

\* Mutant of StartJob: run() does not look at its controller.
StartJobUnchecked(c) ==
    /\ Runs("run", c)
    /\ stage' = [stage EXCEPT ![c] = "running"]
    /\ jobs' = Append(Tail(jobs), Job("adopt", c))
    /\ UNCHANGED <<closed, signalled, accepted, released, listening, aborted,
                   adopted, outcome>>

\* run() of a live call: the task starts and its promise is pending.
StartJob(c) ==
    /\ Runs("run", c)
    /\ c \notin aborted
    /\ stage' = [stage EXCEPT ![c] = "running"]
    /\ jobs' = Append(Tail(jobs), Job("adopt", c))
    /\ UNCHANGED <<closed, signalled, accepted, released, listening, aborted,
                   adopted, outcome>>

\* run() of a live call whose task promise is settled when it is returned.
FinishAtOnceJob(c, r) ==
    /\ Runs("run", c)
    /\ c \notin aborted
    /\ stage' = [stage EXCEPT ![c] = "finished"]
    /\ outcome' = [outcome EXCEPT ![c] = r]
    /\ jobs' = Append(Tail(jobs), Job("adopt", c))
    /\ UNCHANGED <<closed, signalled, accepted, released, listening, aborted,
                   adopted>>

AdoptJob(c) ==
    /\ Runs("adopt", c)
    /\ IF stage[c] = "running"
       THEN /\ adopted' = adopted \cup {c}
            /\ jobs' = Tail(jobs)
       ELSE /\ jobs' = Append(Tail(jobs), Job("settle", c))
            /\ UNCHANGED adopted
    /\ UNCHANGED <<closed, signalled, accepted, released, listening, aborted,
                   stage, outcome>>

\* Mutant of SettleJob: the reaction of #tail is registered twice.
SettleJobTwice(c) ==
    /\ Runs("settle", c)
    /\ stage' = [stage EXCEPT ![c] = "settled"]
    /\ jobs' = Tail(jobs) \o <<Job("tail", c), Job("tail", c), Job("cleanup", c)>>
    /\ UNCHANGED <<closed, signalled, accepted, released, listening, aborted,
                   adopted, outcome>>

SettleJob(c) ==
    /\ Runs("settle", c)
    /\ stage' = [stage EXCEPT ![c] = "settled"]
    /\ jobs' = Tail(jobs) \o <<Job("tail", c), Job("cleanup", c)>>
    /\ UNCHANGED <<closed, signalled, accepted, released, listening, aborted,
                   adopted, outcome>>

\* Mutant of TailJob: no rejection handler keeps the chain alive.
TailJobOnSuccess(c) ==
    /\ Runs("tail", c)
    /\ released' = IF outcome[c] = "done" THEN released + 1 ELSE released
    /\ jobs' = IF outcome[c] = "done" /\ released' < Len(accepted)
               THEN Append(Tail(jobs), Job("run", accepted[released' + 1]))
               ELSE Tail(jobs)
    /\ UNCHANGED <<closed, signalled, accepted, listening, aborted, adopted,
                   stage, outcome>>

\* #tail is fulfilled: the run reaction of the next call in the chain, if any,
\* becomes a job.
TailJob(c) ==
    /\ Runs("tail", c)
    /\ released' = released + 1
    /\ jobs' = IF released' < Len(accepted)
               THEN Append(Tail(jobs), Job("run", accepted[released' + 1]))
               ELSE Tail(jobs)
    /\ UNCHANGED <<closed, signalled, accepted, listening, aborted, adopted,
                   stage, outcome>>

\* Mutant of CleanupJob: .then() in place of .finally().
CleanupJobOnSuccess(c) ==
    /\ Runs("cleanup", c)
    /\ listening' = IF outcome[c] = "done" THEN listening \ {c} ELSE listening
    /\ jobs' = Tail(jobs)
    /\ UNCHANGED <<closed, signalled, accepted, released, aborted, adopted,
                   stage, outcome>>

CleanupJob(c) ==
    /\ Runs("cleanup", c)
    /\ listening' = listening \ {c}
    /\ jobs' = Tail(jobs)
    /\ UNCHANGED <<closed, signalled, accepted, released, aborted, adopted,
                   stage, outcome>>

\* The jobs that belong to the queue alone, whatever the task is.
QueueJob(c) ==
    SkipJob(c) \/ AdoptJob(c) \/ SettleJob(c) \/ TailJob(c) \/ CleanupJob(c)

-----------------------------------------------------------------------------
(* The task, as the queue sees it *)

\* The reaction that fires when the task promise settles.
SettleReaction(c) == IF c \in adopted THEN <<Job("settle", c)>> ELSE <<>>

\* The task promise settles; the task may have closed the queue on its way.
TaskSettles(c, r) ==
    /\ stage[c] = "running"
    /\ stage' = [stage EXCEPT ![c] = "finished"]
    /\ outcome' = [outcome EXCEPT ![c] = r]
    /\ jobs' = jobs \o SettleReaction(c)
    /\ closed' \in {closed, TRUE}
    /\ UNCHANGED <<signalled, accepted, released, listening, aborted, adopted>>

-----------------------------------------------------------------------------
QueueNext ==
    \/ Close
    \/ \E s \in Signals : Abort(s)
    \/ \E c \in Commands :
          \/ Enqueue(c)
          \/ StartJob(c)
          \/ QueueJob(c)
          \/ \E r \in Results : FinishAtOnceJob(c, r) \/ TaskSettles(c, r)

QueueSpec == QueueInit /\ [][QueueNext]_queueVars

\* The JavaScript engine runs every promise job; nothing is assumed of callers.
JobFairness == \A c \in Commands : WF_queueVars(StartJob(c) \/ QueueJob(c))

\* The liveness of the chain rests on tasks that settle.
TaskFairness ==
    \A c \in Commands : WF_queueVars(\E r \in Results : TaskSettles(c, r))

FairQueueSpec == QueueSpec /\ JobFairness /\ TaskFairness

-----------------------------------------------------------------------------
(* What the queue promises *)

\* Every variable has its type, and the chain counter never runs past the chain.
QueueTypeOK ==
    /\ closed \in BOOLEAN
    /\ signalled \subseteq Signals
    /\ accepted \in Seq(Commands)
    /\ released \in Nat
    /\ released <= Len(accepted)
    /\ listening \subseteq Commands
    /\ aborted \subseteq Commands
    /\ adopted \subseteq Commands
    /\ stage \in [Commands -> Stages]
    /\ outcome \in [Commands -> Results \cup {"none", "closed", "aborted"}]
    /\ jobs \in Seq(AnyQueueJob)

\* "Items run strictly one at a time, in enqueue order": a call has its turn
\* (is run, or skipped) only when every call accepted before it has settled.
\* The code has no counter and no lock to say so, only which promise each
\* reaction hangs on.
OneAtATimeInOrder ==
    \A i, j \in 1..Len(accepted) :
        /\ i < j
        /\ stage[accepted[j]] # "queued"
        => stage[accepted[i]] = "settled"

\* No lost wake-up: while an accepted call waits, its task is not what it waits
\* for, or some promise job is still to run. A chain whose next run() nobody
\* holds would leave every later caller waiting for ever.
NeverStalls ==
    (\E c \in Commands : stage[c] \in {"queued", "skipped", "finished"})
    => \/ jobs # <<>>
       \/ \E d \in Commands : stage[d] = "running"

\* "if the signal aborts before the item's turn arrives, the item is skipped
\* without ever invoking its task", however many calls share the signal.
AbortedBeforeTurnNeverStarts ==
    [][\A c \in Commands :
          SignalOf[c] \in signalled /\ stage[c] = "queued"
          => stage'[c] \in {"queued", "skipped"}]_queueVars

\* Once the promise jobs have run, no settled call is still listening to a
\* caller's signal: a long-lived shared AbortSignal does not collect listeners.
NoListenerLeft ==
    jobs = <<>> => \A c \in listening : stage[c] # "settled"

\* "Items already accepted by enqueue() before close() was called still run to
\* completion": closed or not, every accepted call settles if the tasks do.
AcceptedSettles ==
    \A c \in Commands : stage[c] = "queued" ~> stage[c] = "settled"

-----------------------------------------------------------------------------
(* Why it does: the invariant that the steps keep *)

\* Whatever is not cleanup is the one job that carries the chain forward.
Carries(k) == jobs[k].kind # "cleanup"

\* The chain: distinct calls, settled up to `released', untouched beyond the
\* call whose turn it is.
ChainOK ==
    /\ \A i, j \in 1..Len(accepted) : accepted[i] = accepted[j] => i = j
    /\ \A i \in 1..Len(accepted) : stage[accepted[i]] \notin {"new", "refused"}
    /\ \A c \in Commands :
          stage[c] \notin {"new", "refused"}
          => \E i \in 1..Len(accepted) : accepted[i] = c
    /\ \A i \in 1..Len(accepted) :
          /\ i <= released => stage[accepted[i]] = "settled"
          /\ i > released + 1 => stage[accepted[i]] = "queued"
    /\ \A c \in adopted : stage[c] \in {"running", "finished", "settled"}

\* The stage a call is in when one of its jobs is waiting to run.
JobMatches(j) ==
    CASE j.kind = "run" -> stage[j.cmd] = "queued"
      [] j.kind = "adopt" -> /\ stage[j.cmd] \in {"skipped", "running", "finished"}
                             /\ j.cmd \notin adopted
      [] j.kind = "settle" -> stage[j.cmd] \in {"skipped", "finished"}
      [] j.kind \in {"tail", "cleanup"} -> stage[j.cmd] = "settled"

\* The token: while a call has its turn, exactly one promise job carries the
\* chain, or its task is running and `settled' is waiting for it.
TokenOK ==
    /\ \A k \in 1..Len(jobs) : JobMatches(jobs[k])
    /\ \A k \in 1..Len(jobs) :
          Carries(k) => /\ released < Len(accepted)
                        /\ jobs[k].cmd = accepted[released + 1]
    /\ \A k, l \in 1..Len(jobs) : Carries(k) /\ Carries(l) => k = l
    /\ released < Len(accepted) =>
          \/ \E k \in 1..Len(jobs) : Carries(k)
          \/ /\ stage[accepted[released + 1]] = "running"
             /\ accepted[released + 1] \in adopted

\* A queued call hears its signal until it has heard it.
SignalsOK ==
    \A c \in Commands :
        stage[c] = "queued" /\ SignalOf[c] \in Signals
        => IF SignalOf[c] \in signalled THEN c \in aborted ELSE c \in listening

\* The inductive invariant of the queue: the chain is in order, one token moves
\* along it, and no queued call is deaf to its signal.
QueueInv == QueueTypeOK /\ ChainOK /\ TokenOK /\ SignalsOK

-----------------------------------------------------------------------------
(* The queue implements the serial line of SerialSession. *)

StatusOf(s) ==
    CASE s = "new" -> "idle"
      [] s \in {"queued", "skipped"} -> "waiting"
      [] s \in {"running", "finished"} -> "served"
      [] s \in {"settled", "refused"} -> "answered"

LineStatus == [c \in Commands |-> StatusOf(stage[c])]

\* How many calls have left the line. The call whose turn it is leaves it when
\* it settles, one promise job before `released' says so.
Gone == IF released < Len(accepted) /\ stage[accepted[released + 1]] = "settled"
        THEN released + 1 ELSE released

Line == INSTANCE SerialSession
            WITH line <- SubSeq(accepted, Gone + 1, Len(accepted)),
                 status <- LineStatus

\* Callers see a first-come first-served line with a single server.
ImplementsLine == Line!LineSpec
=============================================================================
