------------------------- MODULE CommandRunnerProofs -------------------------
(***************************************************************************)
(* Proofs about CommandRunner, for any number of commands and signals, any *)
(* transport and any ceiling: the inductive invariant RunnerInv, and from  *)
(* it what callers are told, which timers are armed, and, of a transport   *)
(* that does not resolve when it is aborted, that every answer goes to the *)
(* command it belongs to. Then that CommandRunner implements SessionQueue: *)
(* with the jobs of #executeFramed filtered out of the promise job queue,  *)
(* every step of the runner is a step of the queue, or none. What is       *)
(* proved of the queue is then a fact about the runner, and the line it    *)
(* offers is that of SerialSession.                                        *)
(***************************************************************************)
EXTENDS CommandRunner, SessionQueueProofs, WellFoundedInduction

-----------------------------------------------------------------------------
(* The invariant *)

AnyRunnerJob == [kind : QueueJobs \cup RunnerJobs, cmd : Commands]

\* The command whose turn it is.
HasTurn(c) == released < Len(accepted) /\ c = accepted[released + 1]

\* The state a command is in when one of its jobs is waiting to run.
JobFits(j) ==
    /\ j.kind = "run" => stage[j.cmd] = "queued"
    /\ j.kind = "adopt" => /\ stage[j.cmd] \in {"skipped", "running", "finished"}
                           /\ j.cmd \notin adopted
    /\ j.kind = "settle" => stage[j.cmd] \in {"skipped", "finished"}
    /\ j.kind \in {"tail", "cleanup"} => stage[j.cmd] = "settled"
    /\ j.kind = "react" => stage[j.cmd] = "running" /\ race[j.cmd] # "none"
    /\ j.kind = "step" => /\ stage[j.cmd] = "running" /\ race[j.cmd] # "none"
                          /\ j.cmd \in adopted /\ Streaming
    /\ j.kind = "resume" => /\ stage[j.cmd] = "running"
                            /\ race[j.cmd] \notin {"none", "chunk"}
                            /\ j.cmd \in adopted /\ j.cmd \notin idling
    /\ j.kind = "close" => stage[j.cmd] \in {"running", "finished"}

\* The jobs that carry a command forward.
Forward(j) == j.kind \notin {"cleanup", "close"}

\* Only one job carries a command forward, but for a race decided before its
\* promise was adopted; a close runs before the command can settle.
JobsOK(s) ==
    /\ \A k \in 1..Len(s) : JobFits(s[k])
    /\ \A k \in 1..Len(s) : s[k].kind # "cleanup" => HasTurn(s[k].cmd)
    /\ \A k, l \in 1..Len(s) :
          k < l /\ Forward(s[k]) /\ Forward(s[l])
          => s[k].kind = "adopt" /\ s[l].kind = "react"
    /\ \A k \in 1..Len(s) :
          s[k].kind = "close"
          => \E l \in 1..Len(s) : k < l /\ s[l].kind \in {"resume", "settle"}

\* A task that is running has been adopted or will be, and a race that is decided
\* has a job that acts on it.
PendingOK(s) ==
    \A c \in Commands : Running(c) =>
        /\ c \in adopted \/ Among(s, Job("adopt", c))
        /\ \/ race[c] = "none"
           \/ \E kind \in {"react", "step", "resume"} : Among(s, Job(kind, c))

\* One of the three timeouts an exchange can meet: its own deadline, one of the
\* transport, or one its caller aborted it with.
TimeoutMet(c) ==
    \/ reason[c] = "timeout"
    \/ race[c] = "transport_timeout"
    \/ SignalOf[c] \in signalled \cap TimeoutSignals

\* What each exchange has seen, and what its caller is told of it.
ExchangeOK(c) ==
    /\ stage[c] \in {"new", "refused", "queued", "skipped"} =>
          race[c] = "none" /\ bytes[c] = 0 /\ got[c] = {}
    /\ stage[c] \in {"new", "queued", "running"} => outcome[c] = "none"
    /\ c \in timers \cup idling => Running(c)
    /\ ~Streaming => c \notin idling /\ race[c] # "chunk"
    /\ race[c] = "none" => reason[c] = "none"
    /\ race[c] = "chunk" => reason[c] \in {"none", "abort"}
    /\ race[c] = "timeout" => reason[c] = "timeout"
    /\ race[c] = "abort" \/ reason[c] = "abort" => c \in aborted
    /\ c \in aborted => SignalOf[c] \in signalled
    /\ outcome[c] = "timeout" => TimeoutMet(c)
    /\ outcome[c] = "aborted" => SignalOf[c] \in signalled
    /\ bytes[c] > MaxOutputBytes =>
          /\ outcome[c] # "ok"
          /\ closed \/ (Running(c) /\ race[c] \in {"answer", "chunk"})

OnWire(c) == wire = <<c>>

\* What an exchange has on the wire: unless a close of the session is under way
\* it is running, and told apart from one that was answered.
WireOK(c) ==
    /\ got[c] \subseteq {c}
    /\ OnWire(c) =>
          /\ stage[c] \in {"running", "finished"}
          /\ stage[c] = "finished" \/ race[c] = "limit"
             => Among(jobs, Job("close", c))
          /\ Running(c) /\ race[c] = "error" => reason[c] \in {"timeout", "abort"}
          /\ Running(c) => race[c] # "answer"
    /\ reason[c] = "timeout" =>
          /\ Running(c) => race[c] \in {"timeout", "error", "transport_timeout"}
          /\ ~Running(c) => outcome[c] = "timeout"

\* One command at most is on the wire.
SessionOK ==
    /\ wire = <<>> \/ \E c \in Commands : OnWire(c)
    /\ \A c \in Commands : WireOK(c)

\* A transport that does not resolve a call because its signal was aborted.
Polite == "resolve" \notin AbortReplies

\* The inductive invariant of the runner.
RunnerInv ==
    /\ RunnerTypeOK
    /\ ChainOK
    /\ JobsOK(jobs)
    /\ PendingOK(jobs)
    /\ \A c \in Commands : ExchangeOK(c)
    /\ Polite => SessionOK

-----------------------------------------------------------------------------
(* The job queue *)

\* A job that runs was the first; the others move up one place.
LEMMA PoppedJob ==
    ASSUME jobs \in Seq(AnyRunnerJob), NEW kind, NEW c, Runs(kind, c)
    PROVE  /\ Len(jobs) \in Nat \ {0}
           /\ jobs[1] = Job(kind, c)
           /\ Tail(jobs) \in Seq(AnyRunnerJob)
           /\ Len(Tail(jobs)) = Len(jobs) - 1
           /\ \A k \in 1..Len(jobs) - 1 : Tail(jobs)[k] = jobs[k + 1]
BY HeadTailProperties, EmptySeq DEF Runs

LEMMA JobTypes ==
    \A kind \in QueueJobs \cup RunnerJobs, c \in Commands : Job(kind, c) \in AnyRunnerJob
BY DEF Job, AnyRunnerJob

\* A job that is scheduled is there, and so is every job that was.
LEMMA Scheduled ==
    ASSUME NEW s \in Seq(AnyRunnerJob), NEW t \in Seq(AnyRunnerJob)
    PROVE  \A job : Among(s \o t, job) <=> Among(s, job) \/ Among(t, job)
<1>1. /\ Len(s) \in Nat /\ Len(t) \in Nat
      /\ Len(s \o t) = Len(s) + Len(t)
      /\ \A i \in 1..Len(s) + Len(t) :
            (s \o t)[i] = IF i <= Len(s) THEN s[i] ELSE t[i - Len(s)]
      BY ConcatProperties, LenProperties
<1>2. \A i \in 1..Len(s) : (s \o t)[i] = s[i] /\ i \in 1..Len(s \o t)
      BY <1>1
<1>3. \A i \in 1..Len(t) : /\ (s \o t)[Len(s) + i] = t[i]
                           /\ Len(s) + i \in 1..Len(s \o t)
      BY <1>1
<1>4. \A i \in 1..Len(s \o t) :
         \/ i \in 1..Len(s) /\ (s \o t)[i] = s[i]
         \/ i - Len(s) \in 1..Len(t) /\ (s \o t)[i] = t[i - Len(s)]
      BY <1>1
<1> HIDE DEF Among
<1> SUFFICES ASSUME NEW job
             PROVE  Among(s \o t, job) <=> Among(s, job) \/ Among(t, job)
    OBVIOUS
<1>5. Among(s, job) => Among(s \o t, job)
      BY <1>2 DEF Among
<1>6. Among(t, job) => Among(s \o t, job)
      BY <1>3 DEF Among
<1>7. Among(s \o t, job) => Among(s, job) \/ Among(t, job)
      BY <1>4 DEF Among
<1> QED BY <1>5, <1>6, <1>7

\* A job stays scheduled when another runs, and none appears.
LEMMA OthersStay ==
    ASSUME jobs \in Seq(AnyRunnerJob), NEW kind, NEW c, Runs(kind, c), NEW job
    PROVE  /\ Among(Tail(jobs), job) => Among(jobs, job)
           /\ Among(jobs, job) /\ job # Job(kind, c) => Among(Tail(jobs), job)
<1>1. /\ Len(jobs) \in Nat \ {0}
      /\ jobs[1] = Job(kind, c)
      /\ Len(Tail(jobs)) = Len(jobs) - 1
      /\ \A k \in 1..Len(jobs) - 1 : Tail(jobs)[k] = jobs[k + 1]
      BY PoppedJob
<1>2. ASSUME NEW k \in 1..Len(Tail(jobs)), Tail(jobs)[k] = job
      PROVE  Among(jobs, job)
      <2>1. k + 1 \in 1..Len(jobs) /\ jobs[k + 1] = job
            BY <1>1, <1>2
      <2> QED BY <2>1 DEF Among
<1>3. ASSUME NEW k \in 1..Len(jobs), jobs[k] = job, job # Job(kind, c)
      PROVE  Among(Tail(jobs), job)
      <2>1. k # 1
            BY <1>1, <1>3
      <2>2. k - 1 \in 1..Len(Tail(jobs)) /\ Tail(jobs)[k - 1] = job
            BY <1>1, <1>3, <2>1
      <2> QED BY <2>2 DEF Among
<1> QED BY <1>2, <1>3 DEF Among

\* Nothing waits but the removal of listeners.
Quiet(s) == \A k \in 1..Len(s) : s[k].kind = "cleanup" /\ stage[s[k].cmd] = "settled"

\* A forward job at the head has the turn, and nothing else waits, unless it is
\* the adoption of a task whose race may be decided already.
LEMMA HeadHasTurn ==
    ASSUME jobs \in Seq(AnyRunnerJob), JobsOK(jobs), NEW c \in Commands,
           NEW kind \in (QueueJobs \cup RunnerJobs) \ {"cleanup", "close"},
           Runs(kind, c)
    PROVE  /\ HasTurn(c)
           /\ JobFits(Job(kind, c))
           /\ Tail(jobs) \in Seq(AnyRunnerJob)
           /\ kind # "adopt" \/ ~Running(c) => Quiet(Tail(jobs))
           /\ \A k \in 1..Len(Tail(jobs)) : Tail(jobs)[k].kind \in {"cleanup", "react"}
<1>1. /\ Len(jobs) \in Nat \ {0}
      /\ jobs[1] = Job(kind, c)
      /\ Tail(jobs) \in Seq(AnyRunnerJob)
      /\ Len(Tail(jobs)) = Len(jobs) - 1
      /\ \A k \in 1..Len(jobs) - 1 : Tail(jobs)[k] = jobs[k + 1]
      BY PoppedJob
<1>2. /\ jobs[1].kind = kind /\ jobs[1].cmd = c /\ 1 \in 1..Len(jobs)
      /\ Forward(jobs[1])
      BY <1>1 DEF Job, Forward
<1>3. HasTurn(c) /\ JobFits(Job(kind, c))
      BY <1>1, <1>2 DEF JobsOK
<1>4. ASSUME NEW k \in 1..Len(jobs), k # 1
      PROVE  /\ JobFits(jobs[k])
             /\ jobs[k].kind \in {"cleanup", "react"}
             /\ kind # "adopt" \/ ~Running(c) => jobs[k].kind = "cleanup"
      <2>1. 1 < k
            BY <1>1, <1>4
      <2>2. Forward(jobs[k]) => kind = "adopt" /\ jobs[k].kind = "react"
            BY <1>2, <2>1 DEF JobsOK
      <2>3. jobs[k].kind # "close"
            <3> SUFFICES ASSUME jobs[k].kind = "close"
                         PROVE  FALSE
                OBVIOUS
            <3>1. PICK l \in 1..Len(jobs) : k < l /\ jobs[l].kind \in {"resume", "settle"}
                  BY DEF JobsOK
            <3>2. 1 < l /\ Forward(jobs[l])
                  BY <1>1, <2>1, <3>1 DEF Forward
            <3> QED BY <1>2, <3>1, <3>2 DEF JobsOK
      <2>4. JobFits(jobs[k])
            BY DEF JobsOK
      <2>5. jobs[k].kind = "react" => jobs[k].cmd = c
            BY <1>3 DEF JobsOK, HasTurn
      <2>6. jobs[k].kind = "react" => Running(c)
            BY <2>4, <2>5 DEF JobFits, Running
      <2> QED BY <2>2, <2>3, <2>4, <2>6 DEF Forward
<1>5. ASSUME NEW k \in 1..Len(Tail(jobs))
      PROVE  /\ Tail(jobs)[k].kind \in {"cleanup", "react"}
             /\ kind # "adopt" \/ ~Running(c)
                => /\ Tail(jobs)[k].kind = "cleanup"
                   /\ stage[Tail(jobs)[k].cmd] = "settled"
      <2>1. k + 1 \in 1..Len(jobs) /\ k + 1 # 1 /\ Tail(jobs)[k] = jobs[k + 1]
            BY <1>1
      <2>2. JobFits(jobs[k + 1]) /\ jobs[k + 1].kind = "cleanup"
            => stage[jobs[k + 1].cmd] = "settled"
            BY DEF JobFits
      <2> QED BY <1>4, <2>1, <2>2
<1> QED BY <1>1, <1>3, <1>5 DEF Quiet

\* The jobs behind the first are in order if they were.
LEMMA RestOK ==
    ASSUME jobs \in Seq(AnyRunnerJob), JobsOK(jobs), NEW kind, NEW c, Runs(kind, c)
    PROVE  JobsOK(Tail(jobs))
<1>1. /\ Len(jobs) \in Nat \ {0}
      /\ Len(Tail(jobs)) = Len(jobs) - 1
      /\ \A k \in 1..Len(jobs) - 1 : Tail(jobs)[k] = jobs[k + 1]
      BY PoppedJob
<1>2. ASSUME NEW k \in 1..Len(Tail(jobs))
      PROVE  k + 1 \in 1..Len(jobs) /\ Tail(jobs)[k] = jobs[k + 1]
      BY <1>1
<1>3. \A k \in 1..Len(Tail(jobs)) : JobFits(Tail(jobs)[k])
      BY <1>2 DEF JobsOK
<1>4. \A k \in 1..Len(Tail(jobs)) :
         Tail(jobs)[k].kind # "cleanup" => HasTurn(Tail(jobs)[k].cmd)
      BY <1>2 DEF JobsOK
<1>5. ASSUME NEW k \in 1..Len(Tail(jobs)), NEW l \in 1..Len(Tail(jobs)), k < l,
             Forward(Tail(jobs)[k]), Forward(Tail(jobs)[l])
      PROVE  Tail(jobs)[k].kind = "adopt" /\ Tail(jobs)[l].kind = "react"
      <2>1. k + 1 < l + 1
            BY <1>5
      <2> QED BY <1>2, <1>5, <2>1 DEF JobsOK
<1>6. ASSUME NEW k \in 1..Len(Tail(jobs)), Tail(jobs)[k].kind = "close"
      PROVE  \E l \in 1..Len(Tail(jobs)) :
                k < l /\ Tail(jobs)[l].kind \in {"resume", "settle"}
      <2>1. PICK m \in 1..Len(jobs) : k + 1 < m /\ jobs[m].kind \in {"resume", "settle"}
            BY <1>2, <1>6 DEF JobsOK
      <2>2. m - 1 \in 1..Len(Tail(jobs)) /\ k < m - 1
            BY <1>1, <2>1
      <2>3. Tail(jobs)[m - 1] = jobs[m]
            BY <1>1, <2>1, <2>2
      <2> QED BY <2>1, <2>2, <2>3
<1> QED BY <1>3, <1>4, <1>5, <1>6 DEF JobsOK

\* Jobs that still fit are still in order.
LEMMA JobsKept ==
    ASSUME NEW s \in Seq(AnyRunnerJob), JobsOK(s), jobs' = s,
           \A j \in AnyRunnerJob :
              Among(s, j) /\ JobFits(j) /\ (j.kind # "cleanup" => HasTurn(j.cmd))
              => JobFits(j)' /\ (j.kind # "cleanup" => HasTurn(j.cmd)')
    PROVE  JobsOK(jobs)'
<1>1. \A k \in 1..Len(s) : s[k] \in AnyRunnerJob
      BY ElementOfSeq
<1>2. ASSUME NEW k \in 1..Len(s)
      PROVE  JobFits(jobs[k])' /\ (jobs'[k].kind # "cleanup" => HasTurn(jobs[k].cmd)')
      <2>1. PICK j \in AnyRunnerJob : j = s[k]
            BY <1>1
      <2>2. JobFits(j)' /\ (j.kind # "cleanup" => HasTurn(j.cmd)')
            BY <2>1 DEF JobsOK, Among
      <2> QED BY <2>1, <2>2 DEF JobFits, HasTurn
<1> QED BY <1>2 DEF JobsOK, Forward

\* The jobs of the command whose turn it is take the place of the one that ran.
LEMMA Handed ==
    ASSUME NEW rest \in Seq(AnyRunnerJob), NEW t \in Seq(AnyRunnerJob),
           \A k \in 1..Len(rest) : /\ rest[k].kind = "cleanup"
                                   /\ stage'[rest[k].cmd] = "settled",
           jobs' = rest \o t,
           JobsOK(t)'
    PROVE  JobsOK(jobs)' /\ jobs' \in Seq(AnyRunnerJob)
<1>1. /\ Len(rest) \in Nat /\ Len(t) \in Nat
      /\ Len(jobs') = Len(rest) + Len(t)
      /\ \A i \in 1..Len(rest) + Len(t) :
            jobs'[i] = IF i <= Len(rest) THEN rest[i] ELSE t[i - Len(rest)]
      /\ jobs' \in Seq(AnyRunnerJob)
      BY ConcatProperties, LenProperties
<1>2. ASSUME NEW i \in 1..Len(jobs')
      PROVE  \/ /\ i <= Len(rest)
                /\ jobs'[i].kind = "cleanup"
                /\ stage'[jobs'[i].cmd] = "settled"
             \/ /\ i > Len(rest)
                /\ i - Len(rest) \in 1..Len(t)
                /\ jobs'[i] = t[i - Len(rest)]
      BY <1>1
<1>3. ASSUME NEW i \in 1..Len(jobs')
      PROVE  JobFits(jobs[i])' /\ (jobs'[i].kind # "cleanup" => HasTurn(jobs[i].cmd)')
      <2>1. CASE jobs'[i].kind = "cleanup" /\ stage'[jobs'[i].cmd] = "settled"
            BY <2>1 DEF JobFits
      <2>2. CASE i - Len(rest) \in 1..Len(t) /\ jobs'[i] = t[i - Len(rest)]
            BY <2>2 DEF JobsOK, JobFits, HasTurn
      <2> QED BY <1>2, <2>1, <2>2
<1>4. ASSUME NEW i \in 1..Len(jobs'), NEW j \in 1..Len(jobs'), i < j,
             Forward(jobs'[i]), Forward(jobs'[j])
      PROVE  jobs'[i].kind = "adopt" /\ jobs'[j].kind = "react"
      <2>1. /\ i - Len(rest) \in 1..Len(t) /\ jobs'[i] = t[i - Len(rest)]
            /\ j - Len(rest) \in 1..Len(t) /\ jobs'[j] = t[j - Len(rest)]
            /\ i - Len(rest) < j - Len(rest)
            BY <1>1, <1>2, <1>4 DEF Forward
      <2>2. \A k, l \in 1..Len(t) :
               k < l /\ t[k].kind \notin {"cleanup", "close"}
                     /\ t[l].kind \notin {"cleanup", "close"}
               => t[k].kind = "adopt" /\ t[l].kind = "react"
            BY DEF JobsOK, Forward
      <2>3. /\ t[i - Len(rest)].kind \notin {"cleanup", "close"}
            /\ t[j - Len(rest)].kind \notin {"cleanup", "close"}
            BY <1>4, <2>1 DEF Forward
      <2> QED BY <2>1, <2>2, <2>3
<1>5. ASSUME NEW i \in 1..Len(jobs'), jobs'[i].kind = "close"
      PROVE  \E j \in 1..Len(jobs') : i < j /\ jobs'[j].kind \in {"resume", "settle"}
      <2>1. i > Len(rest) /\ i - Len(rest) \in 1..Len(t) /\ jobs'[i] = t[i - Len(rest)]
            BY <1>2, <1>5
      <2>2. PICK l \in 1..Len(t) : i - Len(rest) < l /\ t[l].kind \in {"resume", "settle"}
            BY <1>5, <2>1 DEF JobsOK
      <2>3. /\ l + Len(rest) \in 1..Len(jobs') /\ i < l + Len(rest)
            /\ jobs'[l + Len(rest)] = t[l]
            BY <1>1, <2>1, <2>2
      <2> QED BY <2>2, <2>3
<1> QED BY <1>1, <1>3, <1>4, <1>5 DEF JobsOK, Forward

\* A single forward job is in order.
LEMMA OneJob ==
    ASSUME NEW kind \in (QueueJobs \cup RunnerJobs) \ {"cleanup", "close"},
           NEW c \in Commands, JobFits(Job(kind, c))', HasTurn(c)'
    PROVE  JobsOK(<<Job(kind, c)>>)' /\ <<Job(kind, c)>> \in Seq(AnyRunnerJob)
<1> DEFINE t == <<Job(kind, c)>>
<1>1. Len(t) = 1 /\ t[1] = Job(kind, c) /\ t \in Seq(AnyRunnerJob)
      BY JobTypes
<1>2. t[1].kind = kind /\ t[1].cmd = c
      BY <1>1 DEF Job
<1> HIDE DEF t
<1>3. \A k \in 1..Len(t) : k = 1
      BY <1>1
<1>4. JobsOK(t)'
      <2>1. \A k \in 1..Len(t) : JobFits(t[k])' /\ HasTurn(t[k].cmd)' /\ t[k].kind # "close"
            BY <1>1, <1>2, <1>3
      <2>2. \A k, l \in 1..Len(t) : ~(k < l)
            BY <1>3
      <2> QED BY <2>1, <2>2 DEF JobsOK
<1> QED BY <1>1, <1>4 DEF t

-----------------------------------------------------------------------------
(* The turn *)

\* The part of the invariant that is about the chain and its jobs.
CoreInv == RunnerTypeOK /\ ChainOK /\ JobsOK(jobs) /\ PendingOK(jobs)

LEMMA CoreTypes ==
    ASSUME RunnerTypeOK
    PROVE  ChainTypes /\ jobs \in Seq(AnyRunnerJob) /\ Len(accepted) \in Nat
BY LenProperties DEF RunnerTypeOK, ChainTypes, AnyRunnerJob

\* A command that has left the queue without settling has the turn.
LEMMA ActiveHasTurn ==
    ASSUME CoreInv, NEW c \in Commands, stage[c] \in {"skipped", "running", "finished"}
    PROVE  HasTurn(c)
<1>1. ChainTypes /\ ChainOK /\ Len(accepted) \in Nat
      BY CoreTypes DEF CoreInv
<1>2. PICK i \in 1..Len(accepted) : accepted[i] = c
      BY <1>1 DEF ChainOK
<1>3. i = released + 1
      BY <1>1, <1>2 DEF ChainOK, ChainTypes
<1> QED BY <1>1, <1>2, <1>3 DEF HasTurn, ChainTypes

\* The command whose turn it is, and the forward job that runs for it.
LEMMA HeadInTurn ==
    ASSUME CoreInv, NEW c \in Commands,
           NEW kind \in (QueueJobs \cup RunnerJobs) \ {"cleanup", "close"},
           Runs(kind, c)
    PROVE  /\ HasTurn(c)
           /\ JobFits(Job(kind, c))
           /\ \A d \in Commands :
                 stage[d] \in {"skipped", "running", "finished"} => d = c
           /\ \A job : Among(Tail(jobs), job) => job.kind \in {"cleanup", "react"}
<1>1. HasTurn(c) /\ JobFits(Job(kind, c))
      BY HeadHasTurn, CoreTypes DEF CoreInv
<1>2. \A d \in Commands : stage[d] \in {"skipped", "running", "finished"} => d = c
      BY <1>1, ActiveHasTurn DEF HasTurn
<1>3. \A k \in 1..Len(Tail(jobs)) : Tail(jobs)[k].kind \in {"cleanup", "react"}
      BY HeadHasTurn, CoreTypes DEF CoreInv
<1> QED BY <1>1, <1>2, <1>3 DEF Among

\* What the job at the head does, said by the jobs t it leaves behind.
LEMMA JobsNext ==
    ASSUME CoreInv, NEW c \in Commands,
           NEW kind \in (QueueJobs \cup RunnerJobs) \ {"cleanup", "close"},
           Runs(kind, c), kind # "adopt" \/ ~Running(c),
           NEW t \in Seq(AnyRunnerJob), jobs' = Tail(jobs) \o t, JobsOK(t)',
           \A d \in Commands : d # c => stage'[d] = stage[d],
           stage[c] = "settled" => stage'[c] = "settled",
           stage'[c] = "running" =>
              /\ c \in adopted' \/ Among(t, Job("adopt", c))
              /\ \/ race'[c] = "none"
                 \/ \E next \in {"react", "step", "resume"} : Among(t, Job(next, c))
    PROVE  JobsOK(jobs)' /\ PendingOK(jobs)' /\ jobs' \in Seq(AnyRunnerJob)
<1>1. /\ HasTurn(c) /\ Quiet(Tail(jobs))
      /\ Tail(jobs) \in Seq(AnyRunnerJob)
      BY HeadHasTurn, CoreTypes DEF CoreInv
<1>2. ASSUME NEW k \in 1..Len(Tail(jobs))
      PROVE  /\ Tail(jobs)[k].kind = "cleanup"
             /\ stage'[Tail(jobs)[k].cmd] = "settled"
      <2>1. Tail(jobs)[k] \in AnyRunnerJob
            BY <1>1, ElementOfSeq
      <2>2. Tail(jobs)[k].cmd \in Commands
            BY <2>1 DEF AnyRunnerJob
      <2> QED BY <1>1, <2>2 DEF Quiet
<1>3. JobsOK(jobs)' /\ jobs' \in Seq(AnyRunnerJob)
      BY <1>1, <1>2, Handed
<1>4. \A d \in Commands : stage'[d] = "running" => d = c
      BY HeadInTurn
<1>5. \A job : Among(t, job) => Among(jobs', job)
      BY <1>1, Scheduled
<1>6. PendingOK(jobs)'
      <2> SUFFICES ASSUME stage'[c] = "running"
                   PROVE  /\ c \in adopted' \/ Among(jobs', Job("adopt", c))
                          /\ \/ race'[c] = "none"
                             \/ \E next \in {"react", "step", "resume"} :
                                   Among(jobs', Job(next, c))
          BY <1>4 DEF PendingOK, Running, Among, Job
      <2> QED BY <1>5
<1> QED BY <1>3, <1>6

\* One forward job takes the place of another.
LEMMA JobsNextOne ==
    ASSUME CoreInv, NEW c \in Commands,
           NEW kind \in (QueueJobs \cup RunnerJobs) \ {"cleanup", "close"},
           Runs(kind, c), kind # "adopt" \/ ~Running(c),
           NEW next \in (QueueJobs \cup RunnerJobs) \ {"cleanup", "close"},
           NEW d \in Commands,
           jobs' = Append(Tail(jobs), Job(next, d)),
           JobFits(Job(next, d))', HasTurn(d)',
           \A e \in Commands : e # c => stage'[e] = stage[e],
           stage[c] = "settled" => stage'[c] = "settled",
           stage'[c] = "running" =>
              /\ d = c
              /\ c \in adopted' \/ next = "adopt"
              /\ race'[c] = "none" \/ next \in {"react", "step", "resume"}
    PROVE  JobsOK(jobs)' /\ PendingOK(jobs)' /\ jobs' \in Seq(AnyRunnerJob)
<1> DEFINE t == <<Job(next, d)>>
<1>1. JobsOK(t)' /\ t \in Seq(AnyRunnerJob)
      BY OneJob
<1>2. Tail(jobs) \in Seq(AnyRunnerJob) /\ Job(next, d) \in AnyRunnerJob
      BY PoppedJob, CoreTypes, JobTypes DEF CoreInv
<1>3. jobs' = Tail(jobs) \o t
      BY <1>2, AppendIsConcat
<1>4. Among(t, Job(next, d))
      BY DEF Among
<1> HIDE DEF t
<1> QED BY <1>1, <1>3, <1>4, JobsNext

\* A step that leaves the chain and the jobs alone.
LEMMA JobsStill ==
    ASSUME CoreInv,
           UNCHANGED <<accepted, released, adopted, stage, race, jobs>>,
           idling' \subseteq idling
    PROVE  ChainOK' /\ JobsOK(jobs)' /\ PendingOK(jobs)'
<1>1. ChainOK'
      BY DEF CoreInv, ChainOK
<1>2. JobsOK(jobs)'
      BY JobsKept, CoreTypes DEF CoreInv, JobFits, HasTurn
<1>3. PendingOK(jobs)'
      BY DEF CoreInv, PendingOK, Running, Among, Job
<1> QED BY <1>1, <1>2, <1>3

\* A job that carries no command forward has run.
LEMMA JobsFewer ==
    ASSUME CoreInv, NEW c \in Commands, NEW kind \in {"cleanup", "close"},
           Runs(kind, c), jobs' = Tail(jobs),
           UNCHANGED <<accepted, released, adopted, stage, race, idling>>
    PROVE  /\ ChainOK' /\ JobsOK(jobs)' /\ PendingOK(jobs)'
           /\ jobs' \in Seq(AnyRunnerJob)
<1>1. ChainOK'
      BY DEF CoreInv, ChainOK
<1>2. Tail(jobs) \in Seq(AnyRunnerJob) /\ JobsOK(Tail(jobs))
      BY PoppedJob, RestOK, CoreTypes DEF CoreInv
<1>3. JobsOK(jobs)'
      BY <1>2, JobsKept DEF JobFits, HasTurn
<1>4. ASSUME NEW d \in Commands, NEW next \in {"adopt", "react", "step", "resume"},
             Among(jobs, Job(next, d))
      PROVE  Among(Tail(jobs), Job(next, d))
      BY <1>4, OthersStay, CoreTypes DEF CoreInv, Job
<1>5. PendingOK(jobs)'
      <2> SUFFICES ASSUME NEW d \in Commands, Running(d)
                   PROVE  /\ d \in adopted \/ Among(Tail(jobs), Job("adopt", d))
                          /\ \/ race[d] = "none"
                             \/ \E next \in {"react", "step", "resume"} :
                                   Among(Tail(jobs), Job(next, d))
          BY DEF PendingOK, Running, Among, Job
      <2>1. /\ d \in adopted \/ Among(jobs, Job("adopt", d))
            /\ \/ race[d] = "none"
               \/ \E next \in {"react", "step", "resume"} : Among(jobs, Job(next, d))
            BY DEF CoreInv, PendingOK
      <2> QED BY <1>4, <2>1
<1> QED BY <1>1, <1>2, <1>3, <1>5

\* The race of a running command is decided: the job that reacts goes last.
LEMMA JobsReact ==
    ASSUME CoreInv, NEW c \in Commands, Running(c), race[c] = "none",
           NEW x \in Races \ {"none"}, race' = [race EXCEPT ![c] = x],
           jobs' = Append(jobs, Job("react", c)),
           UNCHANGED <<accepted, released, adopted, stage>>,
           idling' \subseteq idling
    PROVE  /\ ChainOK' /\ JobsOK(jobs)' /\ PendingOK(jobs)'
           /\ jobs' \in Seq(AnyRunnerJob)
<1>1. ChainOK'
      BY DEF CoreInv, ChainOK
<1>2. /\ jobs \in Seq(AnyRunnerJob) /\ Len(jobs) \in Nat
      /\ Job("react", c) \in AnyRunnerJob
      BY CoreTypes, JobTypes, LenProperties DEF CoreInv, RunnerJobs
<1>3. /\ Len(jobs') = Len(jobs) + 1
      /\ \A k \in 1..Len(jobs) : jobs'[k] = jobs[k]
      /\ jobs'[Len(jobs) + 1] = Job("react", c)
      /\ jobs' \in Seq(AnyRunnerJob)
      BY <1>2, AppendProperties
<1>4. HasTurn(c) /\ race'[c] = x
      BY ActiveHasTurn DEF Running, CoreInv, RunnerTypeOK
<1>5. \A d \in Commands : d # c => race'[d] = race[d]
      BY DEF CoreInv, RunnerTypeOK
<1>6. ASSUME NEW k \in 1..Len(jobs)
      PROVE  jobs[k].kind \in {"cleanup", "adopt"}
      <2>0. jobs[k] \in AnyRunnerJob
            BY <1>2, ElementOfSeq
      <2>1. /\ jobs[k].kind \in QueueJobs \cup RunnerJobs
            /\ JobFits(jobs[k])
            /\ jobs[k].kind # "cleanup" => jobs[k].cmd = c
            BY <1>4, <2>0 DEF CoreInv, JobsOK, HasTurn, AnyRunnerJob
      <2>2. jobs[k].kind \in {"cleanup", "adopt", "close"}
            BY <2>1 DEF JobFits, QueueJobs, RunnerJobs, Running
      <2>3. jobs[k].kind # "close"
            <3> SUFFICES ASSUME jobs[k].kind = "close"
                         PROVE  FALSE
                OBVIOUS
            <3>1. PICK l \in 1..Len(jobs) : jobs[l].kind \in {"resume", "settle"}
                  BY DEF CoreInv, JobsOK
            <3>2. JobFits(jobs[l]) /\ jobs[l].cmd = c
                  BY <1>4, <3>1 DEF CoreInv, JobsOK, HasTurn
            <3> QED BY <3>1, <3>2 DEF JobFits, Running
      <2> QED BY <2>2, <2>3
<1>7. \A k \in 1..Len(jobs') : k \in 1..Len(jobs) \/ k = Len(jobs) + 1
      BY <1>2, <1>3
<1>8. ASSUME NEW k \in 1..Len(jobs')
      PROVE  JobFits(jobs[k])' /\ (jobs'[k].kind # "cleanup" => HasTurn(jobs[k].cmd)')
      <2>1. CASE k \in 1..Len(jobs)
            BY <1>3, <1>6, <2>1 DEF CoreInv, JobsOK, JobFits, HasTurn
      <2>2. CASE k = Len(jobs) + 1
            BY <1>3, <1>4, <2>2 DEF JobFits, HasTurn, Job, Running
      <2> QED BY <1>7, <2>1, <2>2
<1>9. ASSUME NEW k \in 1..Len(jobs'), NEW l \in 1..Len(jobs'), k < l,
             Forward(jobs'[k]), Forward(jobs'[l])
      PROVE  jobs'[k].kind = "adopt" /\ jobs'[l].kind = "react"
      <2>1. k \in 1..Len(jobs) /\ jobs'[k].kind = "adopt"
            BY <1>2, <1>3, <1>6, <1>7, <1>9 DEF Forward
      <2>2. l \notin 1..Len(jobs)
            <3> SUFFICES ASSUME l \in 1..Len(jobs)
                         PROVE  FALSE
                OBVIOUS
            <3>1. jobs[l].kind = "react"
                  BY <1>3, <1>9, <2>1 DEF CoreInv, JobsOK, Forward
            <3> QED BY <1>6, <3>1
      <2> QED BY <1>3, <1>7, <2>1, <2>2 DEF Job
<1>10. \A k \in 1..Len(jobs') : jobs'[k].kind # "close"
       BY <1>3, <1>6, <1>7 DEF Job
<1>11. JobsOK(jobs)'
       BY <1>8, <1>9, <1>10 DEF JobsOK, Forward
<1>12. Among(jobs', Job("react", c))
       BY <1>2, <1>3 DEF Among
<1>13. \A job : Among(jobs, job) => Among(jobs', job)
       BY <1>2, <1>3 DEF Among
<1>14. PendingOK(jobs)'
       <2> SUFFICES ASSUME NEW d \in Commands, Running(d)
                    PROVE  /\ d \in adopted \/ Among(jobs', Job("adopt", d))
                           /\ \/ race'[d] = "none"
                              \/ \E next \in {"react", "step", "resume"} :
                                    Among(jobs', Job(next, d))
           BY DEF PendingOK, Running, Among, Job
       <2>1. d \in adopted \/ Among(jobs', Job("adopt", d))
             BY <1>13 DEF CoreInv, PendingOK
       <2>2. CASE d = c
             BY <1>12, <2>1, <2>2
       <2>3. CASE d # c
             BY <1>5, <1>13, <2>1, <2>3 DEF CoreInv, PendingOK
       <2> QED BY <2>2, <2>3
<1> QED BY <1>1, <1>3, <1>11, <1>14

-----------------------------------------------------------------------------
(* The steps keep the turn *)

\* A call is refused, or becomes the last link of the chain.
LEMMA SubmitCore == ASSUME CoreInv, NEW c \in Commands, Submit(c) PROVE CoreInv'
<1>1. /\ ChainTypes /\ ChainOK /\ jobs \in Seq(AnyRunnerJob)
      /\ Len(accepted) \in Nat /\ RunnerTypeOK
      BY CoreTypes DEF CoreInv
<1>2. stage[c] = "new" /\ UNCHANGED <<released, adopted, race, idling>>
      BY DEF Submit, Enqueue, Refuse, Accept, exchangeVars
<1>3. ASSUME NEW j \in AnyRunnerJob, JobFits(j)
      PROVE  j.cmd # c
      BY <1>2, <1>3 DEF JobFits, AnyRunnerJob, QueueJobs, RunnerJobs
<1>4. ASSUME NEW why \in {"closed", "aborted", "invalid"}, Refuse(c, why)
      PROVE  CoreInv'
      <2>1. /\ stage' = [stage EXCEPT ![c] = "refused"]
            /\ UNCHANGED <<accepted, released, adopted, jobs>>
            BY <1>4 DEF Refuse
      <2>2. ChainOK'
            BY <1>1, <1>2, <2>1, ChainRefused
      <2>3. \A d \in Commands : d # c => stage'[d] = stage[d]
            BY <1>1, <2>1 DEF ChainTypes
      <2>4. JobsOK(jobs)'
            <3>1. ASSUME NEW j \in AnyRunnerJob, JobFits(j),
                         j.kind # "cleanup" => HasTurn(j.cmd)
                  PROVE  JobFits(j)' /\ (j.kind # "cleanup" => HasTurn(j.cmd)')
                  <4>1. j.cmd \in Commands /\ j.cmd # c
                        BY <1>3, <3>1 DEF AnyRunnerJob
                  <4> QED BY <1>2, <2>1, <2>3, <3>1, <4>1 DEF JobFits, HasTurn
            <3> QED BY <1>1, <2>1, <3>1, JobsKept DEF CoreInv
      <2>5. PendingOK(jobs)'
            <3>1. stage'[c] = "refused"
                  BY <1>1, <2>1 DEF ChainTypes
            <3>2. \A d \in Commands : Running(d)' => Running(d)
                  BY <2>3, <3>1 DEF Running
            <3> QED BY <1>2, <2>1, <3>2 DEF CoreInv, PendingOK, Running, Among, Job
      <2>6. RunnerTypeOK'
            BY <1>1, <1>4 DEF Refuse, Submit, RunnerTypeOK, RunnerResults, Stages,
                              exchangeVars, sessionVars
      <2> QED BY <2>2, <2>4, <2>5, <2>6 DEF CoreInv
<1>5. CASE Accept(c)
      <2>1. /\ stage' = [stage EXCEPT ![c] = "queued"]
            /\ accepted' = Append(accepted, c)
            /\ jobs' = IF released = Len(accepted) THEN Append(jobs, Job("run", c))
                                                   ELSE jobs
            BY <1>5 DEF Accept
      <2>2. /\ ChainOK'
            /\ Len(accepted') = Len(accepted) + 1
            /\ \A i \in 1..Len(accepted) : accepted'[i] = accepted[i]
            /\ accepted'[Len(accepted) + 1] = c
            BY <1>1, <1>2, <2>1, ChainAccepted
      <2>3. stage'[c] = "queued" /\ \A d \in Commands : d # c => stage'[d] = stage[d]
            BY <1>1, <2>1 DEF ChainTypes
      <2>4. ASSUME NEW d \in Commands, Running(d)'
            PROVE  Running(d)
            BY <2>3, <2>4 DEF Running
      <2>5. accepted' \in Seq(Commands) /\ released' \in 0..Len(accepted')
            BY <1>1, <1>2, <2>1, <2>2, AppendProperties DEF ChainTypes
      <2>6. CASE released = Len(accepted)
            <3>1. /\ Job("run", c) \in AnyRunnerJob
                  /\ jobs' = jobs \o <<Job("run", c)>>
                  BY <1>1, <2>1, <2>6, JobTypes, AppendIsConcat DEF QueueJobs
            <3>2. JobFits(Job("run", c))' /\ HasTurn(c)'
                  BY <1>1, <1>2, <2>2, <2>3, <2>6 DEF JobFits, HasTurn, Job
            <3>3. /\ JobsOK(<<Job("run", c)>>)'
                  /\ <<Job("run", c)>> \in Seq(AnyRunnerJob)
                  BY <3>2, OneJob DEF QueueJobs
            <3>4. ASSUME NEW k \in 1..Len(jobs)
                  PROVE  jobs[k].kind = "cleanup" /\ stage'[jobs[k].cmd] = "settled"
                  <4>1. jobs[k] \in AnyRunnerJob
                        BY <1>1, ElementOfSeq
                  <4>2. JobFits(jobs[k]) /\ jobs[k].kind = "cleanup"
                        BY <1>1, <2>6 DEF CoreInv, JobsOK, HasTurn
                  <4>3. jobs[k].cmd \in Commands \ {c}
                        BY <1>3, <4>1, <4>2 DEF AnyRunnerJob
                  <4> QED BY <2>3, <4>2, <4>3 DEF JobFits
            <3>5. JobsOK(jobs)' /\ jobs' \in Seq(AnyRunnerJob)
                  BY <1>1, <3>1, <3>3, <3>4, Handed
            <3>6. \A job : Among(jobs, job) => Among(jobs', job)
                  BY <1>1, <3>1, <3>3, Scheduled
            <3>7. PendingOK(jobs)'
                  <4> SUFFICES ASSUME NEW d \in Commands, Running(d)
                               PROVE  /\ d \in adopted \/ Among(jobs', Job("adopt", d))
                                      /\ \/ race[d] = "none"
                                         \/ \E next \in {"react", "step", "resume"} :
                                               Among(jobs', Job(next, d))
                      BY <1>2, <2>4 DEF PendingOK, Running, Among, Job
                  <4> QED BY <3>6 DEF CoreInv, PendingOK
            <3>8. RunnerTypeOK'
                  BY <1>1, <1>5, <2>5, <3>5
                     DEF Accept, Submit, RunnerTypeOK, RunnerResults, Stages,
                         exchangeVars, sessionVars, AnyRunnerJob
            <3> QED BY <2>2, <3>5, <3>7, <3>8 DEF CoreInv
      <2>7. CASE released # Len(accepted)
            <3>1. jobs' = jobs
                  BY <2>1, <2>7
            <3>2. JobsOK(jobs)'
                  <4>1. ASSUME NEW j \in AnyRunnerJob, JobFits(j),
                               j.kind # "cleanup" => HasTurn(j.cmd)
                        PROVE  JobFits(j)' /\ (j.kind # "cleanup" => HasTurn(j.cmd)')
                        <5>1. j.cmd \in Commands /\ j.cmd # c
                              BY <1>3, <4>1 DEF AnyRunnerJob
                        <5>2. JobFits(j)'
                              BY <1>2, <2>3, <4>1, <5>1 DEF JobFits
                        <5>3. j.kind # "cleanup" => HasTurn(j.cmd)'
                              BY <1>1, <1>2, <2>2, <4>1 DEF HasTurn, ChainTypes
                        <5> QED BY <5>2, <5>3
                  <4> QED BY <1>1, <3>1, <4>1, JobsKept DEF CoreInv
            <3>3. PendingOK(jobs)'
                  BY <1>2, <2>4, <3>1 DEF CoreInv, PendingOK, Running, Among, Job
            <3>4. RunnerTypeOK'
                  BY <1>1, <1>5, <2>5, <3>1
                     DEF Accept, Submit, RunnerTypeOK, RunnerResults, Stages,
                         exchangeVars, sessionVars
            <3> QED BY <2>2, <3>2, <3>3, <3>4 DEF CoreInv
      <2> QED BY <2>6, <2>7
<1> QED BY <1>4, <1>5 DEF Submit, Enqueue

\* An exchange that is stopped reacts, unless its race was decided already.
LEMMA StopCore ==
    ASSUME CoreInv, NEW c \in Commands, Running(c), NEW why \in {"timeout", "abort"},
           NEW reply \in AbortReplies, StopExchange(c, why, reply),
           UNCHANGED <<accepted, released, adopted, stage>>, idling' \subseteq idling
    PROVE  /\ ChainOK' /\ JobsOK(jobs)' /\ PendingOK(jobs)'
           /\ jobs' \in Seq(AnyRunnerJob)
           /\ race' \in [Commands -> Races] /\ reason' \in [Commands -> Reasons]
<1>1. /\ race \in [Commands -> Races] /\ reason \in [Commands -> Reasons]
      /\ jobs \in Seq(AnyRunnerJob)
      BY CoreTypes DEF CoreInv, RunnerTypeOK
<1>2. reason' \in [Commands -> Reasons]
      BY <1>1 DEF StopExchange, Reasons
<1>3. CASE race[c] = "none"
      <2>1. PICK x \in {why, "error", "transport_timeout", "answer"} :
               race' = [race EXCEPT ![c] = x] /\ jobs' = Append(jobs, Job("react", c))
            BY <1>1, <1>3, RunnerAssumption DEF StopExchange
      <2>2. x \in Races \ {"none"}
            BY <2>1 DEF Races
      <2>3. race' \in [Commands -> Races]
            BY <1>1, <2>1, <2>2
      <2> QED BY <1>2, <1>3, <2>1, <2>2, <2>3, JobsReact
<1>4. CASE race[c] # "none"
      <2>1. race' = race /\ jobs' = jobs
            BY <1>1, <1>4 DEF StopExchange
      <2> QED BY <1>1, <1>2, <2>1, JobsStill
<1> QED BY <1>3, <1>4

\* The race is offered an outcome by the transport.
LEMMA OfferCore ==
    ASSUME CoreInv, NEW c \in Commands, Running(c), NEW what \in Races \ {"none"},
           Offer(c, what),
           UNCHANGED <<accepted, released, adopted, stage, idling>>
    PROVE  /\ ChainOK' /\ JobsOK(jobs)' /\ PendingOK(jobs)'
           /\ jobs' \in Seq(AnyRunnerJob)
           /\ race' \in [Commands -> Races]
<1>1. race \in [Commands -> Races] /\ jobs \in Seq(AnyRunnerJob)
      BY CoreTypes DEF CoreInv, RunnerTypeOK
<1>2. CASE race[c] = "none"
      <2>1. /\ race' = [race EXCEPT ![c] = what]
            /\ jobs' = Append(jobs, Job("react", c))
            BY <1>2 DEF Offer
      <2>2. race' \in [Commands -> Races]
            BY <1>1, <2>1
      <2> QED BY <1>2, <2>1, <2>2, JobsReact
<1>3. CASE race[c] # "none"
      <2>1. race' = race /\ jobs' = jobs
            BY <1>3 DEF Offer
      <2> QED BY <1>1, <2>1, JobsStill
<1> QED BY <1>2, <1>3

\* Whatever is left of the wire, commands are on it.
LEMMA WireShrinks ==
    ASSUME wire \in Seq(Commands), NEW c
    PROVE  /\ c \in ToSet(wire) => wire # <<>> /\ Head(wire) \in Commands
           /\ wire # <<>> => Tail(wire) \in Seq(Commands)
           /\ c \in ToSet(wire) => Front(wire) \in Seq(Commands)
           /\ WireWithout(c) \in Seq(Commands)
<1>1. Len(wire) \in Nat /\ DOMAIN wire = 1..Len(wire)
      BY LenProperties
<1>2. c \in ToSet(wire) => wire # <<>>
      BY <1>1 DEF ToSet
<1>3. wire # <<>> => Head(wire) \in Commands /\ Tail(wire) \in Seq(Commands)
      BY HeadTailProperties
<1>4. c \in ToSet(wire) => Front(wire) \in Seq(Commands)
      BY <1>1, SubSeqProperties, ElementOfSeq DEF Front
<1>5. WireWithout(c) \in Seq(Commands)
      BY <1>4 DEF WireWithout
<1> QED BY <1>2, <1>3, <1>4, <1>5

\* What happens around the runner: callers, its owner, the transport, the router
\* and the timers.
LEMMA OutsideCore ==
    ASSUME CoreInv, \A c \in timers \cup idling : Running(c),
           \/ CloseRunner \/ SessionDrops \/ Reconnects
           \/ \E s \in Signals : AbortWaiting(s)
           \/ \E s \in Signals, c \in Commands : AbortRunning(s, c)
           \/ \E c \in Commands : \/ Answers(c) \/ YieldsChunk(c) \/ Fails(c)
                                  \/ DeadlineFires(c) \/ IdleFires(c)
    PROVE  CoreInv'
<1>1. RunnerTypeOK /\ ChainTypes
      BY CoreTypes DEF CoreInv
<1>2. CASE CloseRunner \/ SessionDrops \/ Reconnects
      <2>1. UNCHANGED <<accepted, released, adopted, stage, race, jobs, idling>>
            BY <1>2 DEF CloseRunner, Close, CloseSession, SessionDrops, Reconnects,
                        queueVars, exchangeVars
      <2>2. wire' \in Seq(Commands)
            BY <1>1, <1>2, EmptySeq
               DEF RunnerTypeOK, CloseRunner, CloseSession, SessionDrops, Reconnects
      <2>3. RunnerTypeOK'
            BY <1>1, <1>2, <2>2
               DEF RunnerTypeOK, CloseRunner, Close, CloseSession, SessionDrops,
                   Reconnects, queueVars, exchangeVars
      <2> QED BY <2>1, <2>3, JobsStill DEF CoreInv
<1>3. ASSUME NEW s \in Signals, AbortWaiting(s)
      PROVE  CoreInv'
      <2>1. UNCHANGED <<accepted, released, adopted, stage, race, jobs, idling>>
            BY <1>3 DEF AbortWaiting, Abort, SignalFires, exchangeVars
      <2>2. RunnerTypeOK'
            BY <1>1, <1>3
               DEF RunnerTypeOK, AbortWaiting, Abort, SignalFires, ListenersOf,
                   exchangeVars, sessionVars
      <2> QED BY <2>1, <2>2, JobsStill DEF CoreInv
<1>4. ASSUME NEW s \in Signals, NEW c \in Commands, AbortRunning(s, c)
      PROVE  CoreInv'
      <2>1. UNCHANGED <<accepted, released, adopted, stage, idling>> /\ Running(c)
            BY <1>4 DEF AbortRunning, SignalFires
      <2>2. PICK reply \in AbortReplies : StopExchange(c, "abort", reply)
            BY <1>4 DEF AbortRunning
      <2>3. /\ ChainOK' /\ JobsOK(jobs)' /\ PendingOK(jobs)'
            /\ jobs' \in Seq(AnyRunnerJob)
            /\ race' \in [Commands -> Races] /\ reason' \in [Commands -> Reasons]
            BY <2>1, <2>2, StopCore
      <2>4. RunnerTypeOK'
            BY <1>1, <1>4, <2>3
               DEF RunnerTypeOK, AbortRunning, SignalFires, ListenersOf,
                   AnyRunnerJob, sessionVars
      <2> QED BY <2>3, <2>4 DEF CoreInv
<1>5. ASSUME NEW c \in Commands, NEW what \in {"answer", "chunk", "error", "transport_timeout"},
             \/ what = "answer" /\ Answers(c)
             \/ what = "chunk" /\ YieldsChunk(c)
             \/ what \in {"error", "transport_timeout"} /\ Fails(c) /\ Offer(c, what)
      PROVE  CoreInv'
      <2>1. /\ UNCHANGED <<accepted, released, adopted, stage, idling>>
            /\ Running(c) /\ Offer(c, what) /\ what \in Races \ {"none"}
            BY <1>5 DEF Answers, YieldsChunk, Fails, Connected, Races
      <2>2. /\ ChainOK' /\ JobsOK(jobs)' /\ PendingOK(jobs)'
            /\ jobs' \in Seq(AnyRunnerJob)
            /\ race' \in [Commands -> Races]
            BY <2>1, OfferCore
      <2>3. wire' \in Seq(Commands)
            BY <1>1, <1>5, WireShrinks
               DEF RunnerTypeOK, Answers, YieldsChunk, Fails, Connected, sessionVars
      <2>4. got' \in [Commands -> SUBSET Commands] /\ bytes' \in [Commands -> Nat]
            <3>1. Connected(c) => Head(wire) \in Commands
                  BY <1>1, WireShrinks DEF RunnerTypeOK, Connected
            <3>2. ASSUME NEW n \in Nat, Receive(c, n), Head(wire) \in Commands
                  PROVE  /\ got' \in [Commands -> SUBSET Commands]
                         /\ bytes' \in [Commands -> Nat]
                  <4>1. /\ got \in [Commands -> SUBSET Commands]
                        /\ bytes \in [Commands -> Nat]
                        BY <1>1 DEF RunnerTypeOK
                  <4>2. got' = got \/ got' = [got EXCEPT ![c] = @ \cup {Head(wire)}]
                        BY <3>2 DEF Receive
                  <4>3. bytes' = bytes \/ bytes' = [bytes EXCEPT ![c] = @ + n]
                        BY <3>2 DEF Receive
                  <4>4. got' \in [Commands -> SUBSET Commands]
                        BY <3>2, <4>1, <4>2
                  <4>5. bytes' \in [Commands -> Nat]
                        BY <4>1, <4>3
                  <4> QED BY <4>4, <4>5
            <3>3. CASE Answers(c) \/ YieldsChunk(c)
                  <4>1. PICK n \in Nat : Receive(c, n)
                        BY <3>3, RunnerAssumption DEF Answers, YieldsChunk
                  <4>2. Connected(c)
                        BY <3>3 DEF Answers, YieldsChunk
                  <4> QED BY <3>1, <3>2, <4>1, <4>2
            <3>4. CASE Fails(c)
                  BY <1>1, <3>4 DEF RunnerTypeOK, Fails
            <3> QED BY <1>5, <3>3, <3>4
      <2>5. RunnerTypeOK'
            BY <1>1, <1>5, <2>2, <2>3, <2>4
               DEF RunnerTypeOK, Answers, YieldsChunk, Fails, AnyRunnerJob, sessionVars
      <2> QED BY <2>2, <2>5 DEF CoreInv
<1>6. ASSUME NEW c \in Commands, DeadlineFires(c) \/ IdleFires(c)
      PROVE  CoreInv'
      <2>1. /\ UNCHANGED <<accepted, released, adopted, stage>>
            /\ idling' \subseteq idling /\ Running(c)
            BY <1>6 DEF DeadlineFires, IdleFires
      <2>2. PICK reply \in AbortReplies : StopExchange(c, "timeout", reply)
            BY <1>6 DEF DeadlineFires, IdleFires
      <2>3. /\ ChainOK' /\ JobsOK(jobs)' /\ PendingOK(jobs)'
            /\ jobs' \in Seq(AnyRunnerJob)
            /\ race' \in [Commands -> Races] /\ reason' \in [Commands -> Reasons]
            BY <2>1, <2>2, StopCore
      <2>4. RunnerTypeOK'
            BY <1>1, <1>6, <2>3
               DEF RunnerTypeOK, DeadlineFires, IdleFires, AnyRunnerJob, sessionVars
      <2> QED BY <2>3, <2>4 DEF CoreInv
<1>7. ASSUME NEW c \in Commands, Answers(c) \/ YieldsChunk(c) \/ Fails(c)
      PROVE  CoreInv'
      <2>1. CASE Answers(c)
            BY <1>5, <2>1
      <2>2. CASE YieldsChunk(c)
            BY <1>5, <2>2
      <2>3. CASE Fails(c)
            <3>1. PICK what \in {"error", "transport_timeout"} : Offer(c, what)
                  BY <2>3 DEF Fails
            <3> QED BY <1>5, <2>3, <3>1
      <2> QED BY <1>7, <2>1, <2>2, <2>3
<1> QED BY <1>2, <1>3, <1>4, <1>6, <1>7

\* run() takes the command off the queue, one way or another.
LEMMA RunCore ==
    ASSUME CoreInv, NEW c \in Commands, Runs("run", c), race[c] = "none",
           NEW st \in {"skipped", "running", "finished"},
           stage' = [stage EXCEPT ![c] = st],
           jobs' = Append(Tail(jobs), Job("adopt", c)),
           UNCHANGED <<accepted, released, adopted, race>>
    PROVE  /\ ChainOK' /\ JobsOK(jobs)' /\ PendingOK(jobs)'
           /\ jobs' \in Seq(AnyRunnerJob)
<1>1. ChainTypes /\ ChainOK
      BY CoreTypes DEF CoreInv
<1>2. /\ "run" \in (QueueJobs \cup RunnerJobs) \ {"cleanup", "close"}
      /\ "adopt" \in (QueueJobs \cup RunnerJobs) \ {"cleanup", "close"}
      BY DEF QueueJobs
<1>3. HasTurn(c) /\ JobFits(Job("run", c))
      BY <1>2, HeadInTurn
<1>4. c \notin adopted
      BY <1>1, <1>3 DEF JobFits, Job, ChainOK
<1>5. ChainOK' /\ \A d \in Commands : d # c => stage'[d] = stage[d]
      BY <1>1, <1>3, <1>4, ChainMoves DEF HasTurn
<1>6. stage'[c] = st
      BY <1>1 DEF ChainTypes
<1>7. JobFits(Job("adopt", c))' /\ HasTurn(c)'
      BY <1>3, <1>4, <1>6 DEF JobFits, Job, HasTurn
<1>8. stage[c] = "queued"
      BY <1>3 DEF JobFits, Job
<1> QED BY <1>2, <1>5, <1>7, <1>8, JobsNextOne

\* `settled' adopts the promise of the task.
LEMMA AdoptCore ==
    ASSUME CoreInv, NEW c \in Commands, AdoptJob(c), UNCHANGED <<race, idling>>
    PROVE  /\ ChainOK' /\ JobsOK(jobs)' /\ PendingOK(jobs)'
           /\ jobs' \in Seq(AnyRunnerJob)
<1>1. /\ ChainTypes /\ ChainOK /\ jobs \in Seq(AnyRunnerJob) /\ Runs("adopt", c)
      /\ UNCHANGED <<accepted, released, stage>>
      BY CoreTypes DEF CoreInv, AdoptJob
<1>2. /\ "adopt" \in (QueueJobs \cup RunnerJobs) \ {"cleanup", "close"}
      /\ "settle" \in (QueueJobs \cup RunnerJobs) \ {"cleanup", "close"}
      BY DEF QueueJobs
<1>3. /\ HasTurn(c) /\ JobFits(Job("adopt", c))
      /\ \A d \in Commands : Running(d) => d = c
      /\ \A job : Among(Tail(jobs), job) => job.kind \in {"cleanup", "react"}
      BY <1>1, <1>2, HeadInTurn DEF Running
<1>4. CASE Running(c)
      <2>1. adopted' = adopted \cup {c} /\ jobs' = Tail(jobs)
            BY <1>4 DEF AdoptJob, Running
      <2>2. ChainOK'
            BY <1>1, <1>4, <2>1 DEF ChainOK, Running
      <2>3. Tail(jobs) \in Seq(AnyRunnerJob) /\ JobsOK(Tail(jobs))
            BY <1>1, PoppedJob, RestOK DEF CoreInv
      <2>4. JobsOK(jobs)'
            <3>1. ASSUME NEW j \in AnyRunnerJob, Among(Tail(jobs), j), JobFits(j),
                         j.kind # "cleanup" => HasTurn(j.cmd)
                  PROVE  JobFits(j)' /\ (j.kind # "cleanup" => HasTurn(j.cmd)')
                  <4>1. j.kind \in {"cleanup", "react"}
                        BY <1>3, <3>1
                  <4> QED BY <1>1, <3>1, <4>1 DEF JobFits, HasTurn
            <3> QED BY <2>1, <2>3, <3>1, JobsKept
      <2>5. PendingOK(jobs)'
            <3> SUFFICES \/ race[c] = "none"
                         \/ \E next \in {"react", "step", "resume"} :
                               Among(Tail(jobs), Job(next, c))
                BY <1>1, <1>3, <2>1 DEF PendingOK, Running, Among, Job
            <3>1. \/ race[c] = "none"
                  \/ \E next \in {"react", "step", "resume"} : Among(jobs, Job(next, c))
                  BY <1>4 DEF CoreInv, PendingOK
            <3>2. ASSUME NEW next \in {"react", "step", "resume"}, Among(jobs, Job(next, c))
                  PROVE  Among(Tail(jobs), Job(next, c))
                  BY <1>1, <3>2, OthersStay DEF Job
            <3> QED BY <3>1, <3>2
      <2> QED BY <2>1, <2>2, <2>3, <2>4, <2>5
<1>5. CASE ~Running(c)
      <2>1. adopted' = adopted /\ jobs' = Append(Tail(jobs), Job("settle", c))
            BY <1>5 DEF AdoptJob, Running
      <2>2. ChainOK'
            BY <1>1, <2>1 DEF ChainOK
      <2>3. JobFits(Job("settle", c))' /\ HasTurn(c)'
            BY <1>1, <1>3, <1>5 DEF JobFits, Job, HasTurn, Running
      <2>4. stage'[c] # "running"
            BY <1>1, <1>5 DEF Running
      <2> QED BY <1>1, <1>2, <1>5, <2>1, <2>2, <2>3, <2>4, JobsNextOne
<1> QED BY <1>4, <1>5

LEMMA SettleCore ==
    ASSUME CoreInv, NEW c \in Commands, SettleJob(c), UNCHANGED <<race, idling>>
    PROVE  /\ ChainOK' /\ JobsOK(jobs)' /\ PendingOK(jobs)'
           /\ jobs' \in Seq(AnyRunnerJob)
<1> DEFINE t == <<Job("tail", c), Job("cleanup", c)>>
<1>1. /\ ChainTypes /\ ChainOK /\ Runs("settle", c)
      /\ stage' = [stage EXCEPT ![c] = "settled"]
      /\ jobs' = Tail(jobs) \o t
      /\ UNCHANGED <<accepted, released, adopted>>
      BY CoreTypes DEF CoreInv, SettleJob
<1>2. "settle" \in (QueueJobs \cup RunnerJobs) \ {"cleanup", "close"}
      BY DEF QueueJobs
<1>3. HasTurn(c)
      BY <1>1, <1>2, HeadInTurn
<1>4. ChainOK' /\ \A d \in Commands : d # c => stage'[d] = stage[d]
      BY <1>1, <1>3, ChainMoves DEF HasTurn
<1>5. stage'[c] = "settled" /\ HasTurn(c)'
      BY <1>1, <1>3 DEF ChainTypes, HasTurn
<1>6. /\ t \in Seq(AnyRunnerJob) /\ Len(t) = 2
      /\ t[1] = Job("tail", c) /\ t[2] = Job("cleanup", c)
      BY JobTypes DEF QueueJobs
<1> HIDE DEF t
<1>7. \A k \in 1..Len(t) : k = 1 \/ k = 2
      BY <1>6
<1>8. JobsOK(t)'
      BY <1>5, <1>6, <1>7 DEF JobsOK, JobFits, HasTurn, Forward, Job
<1> QED BY <1>1, <1>2, <1>4, <1>5, <1>6, <1>8, JobsNext

\* The next call in the chain gets its turn.
LEMMA TailCore ==
    ASSUME CoreInv, NEW c \in Commands, TailJob(c), UNCHANGED <<race, idling>>
    PROVE  /\ ChainOK' /\ JobsOK(jobs)' /\ PendingOK(jobs)'
           /\ jobs' \in Seq(AnyRunnerJob) /\ released' \in 0..Len(accepted)
<1>1. /\ ChainTypes /\ ChainOK /\ Runs("tail", c) /\ Len(accepted) \in Nat
      /\ released' = released + 1
      /\ UNCHANGED <<accepted, adopted, stage>>
      BY CoreTypes DEF CoreInv, TailJob
<1>2. /\ "tail" \in (QueueJobs \cup RunnerJobs) \ {"cleanup", "close"}
      /\ "run" \in (QueueJobs \cup RunnerJobs) \ {"cleanup", "close"}
      BY DEF QueueJobs
<1>3. HasTurn(c) /\ stage[c] = "settled"
      BY <1>1, <1>2, HeadInTurn DEF JobFits, Job
<1>4. /\ ChainOK' /\ ChainTypes'
      /\ released' < Len(accepted) =>
            /\ accepted[released' + 1] \in Commands
            /\ stage[accepted[released' + 1]] = "queued"
      BY <1>1, <1>3, ChainReleased DEF HasTurn
<1>5. released' \in 0..Len(accepted)
      BY <1>1, <1>4 DEF ChainTypes
<1>6. CASE released' < Len(accepted)
      <2>1. PICK d \in Commands : d = accepted[released' + 1] /\ stage[d] = "queued"
            BY <1>4, <1>6
      <2>2. jobs' = Append(Tail(jobs), Job("run", d))
            BY <1>6, <2>1 DEF TailJob
      <2>3. JobFits(Job("run", d))' /\ HasTurn(d)'
            BY <1>1, <1>6, <2>1 DEF JobFits, Job, HasTurn
      <2> QED BY <1>1, <1>2, <1>3, <1>4, <1>5, <2>2, <2>3, JobsNextOne
<1>7. CASE ~(released' < Len(accepted))
      <2>1. Tail(jobs) \in Seq(AnyRunnerJob)
            BY <1>1, PoppedJob, CoreTypes DEF CoreInv
      <2>2. jobs' = Tail(jobs) \o <<>> /\ <<>> \in Seq(AnyRunnerJob)
            BY <1>7, <2>1, ConcatEmptySeq, EmptySeq DEF TailJob
      <2>3. JobsOK(<<>>)'
            BY DEF JobsOK
      <2> QED BY <1>1, <1>2, <1>3, <1>4, <1>5, <2>2, <2>3, JobsNext
<1> QED BY <1>6, <1>7

\* The end of #executeFramed: closes, if any, before the task is seen to settle.
LEMMA EndsCore ==
    ASSUME CoreInv, NEW c \in Commands, Runs("resume", c), NEW r \in RunnerResults,
           NEW closes \in {<<>>, <<Job("close", c)>>, <<Job("close", c), Job("close", c)>>},
           Ends(c, r, closes)
    PROVE  /\ ChainOK' /\ JobsOK(jobs)' /\ PendingOK(jobs)'
           /\ jobs' \in Seq(AnyRunnerJob)
           /\ closes # <<>> => Among(jobs', Job("close", c))
<1> DEFINE t == closes \o <<Job("settle", c)>>
<1>1. /\ ChainTypes /\ ChainOK
      /\ stage' = [stage EXCEPT ![c] = "finished"]
      /\ UNCHANGED <<accepted, released, adopted>>
      BY CoreTypes DEF CoreInv, Ends
<1>2. "resume" \in (QueueJobs \cup RunnerJobs) \ {"cleanup", "close"}
      BY DEF RunnerJobs
<1>3. HasTurn(c) /\ c \in adopted
      BY <1>2, HeadInTurn DEF JobFits, Job
<1>4. ChainOK' /\ \A d \in Commands : d # c => stage'[d] = stage[d]
      BY <1>1, <1>3, ChainMoves DEF HasTurn
<1>5. stage'[c] = "finished" /\ HasTurn(c)'
      BY <1>1, <1>3 DEF ChainTypes, HasTurn
<1>6. /\ closes \in Seq(AnyRunnerJob) /\ Len(closes) \in 0..2
      /\ \A k \in 1..Len(closes) : closes[k] = Job("close", c)
      <2>0. PICK j \in AnyRunnerJob : j = Job("close", c)
            BY JobTypes DEF RunnerJobs
      <2>1. CASE closes = <<>>
            BY <2>1, EmptySeq
      <2>2. CASE closes = <<j>>
            BY <2>0, <2>2
      <2>3. CASE closes = <<j, j>>
            <3>1. \A k \in 1..2 : k = 1 \/ k = 2
                  OBVIOUS
            <3> QED BY <2>0, <2>3, <3>1
      <2> QED BY <2>0, <2>1, <2>2, <2>3
<1>7. /\ <<Job("settle", c)>> \in Seq(AnyRunnerJob) /\ Len(<<Job("settle", c)>>) = 1
      /\ <<Job("settle", c)>>[1] = Job("settle", c)
      BY JobTypes DEF QueueJobs
<1>8. /\ t \in Seq(AnyRunnerJob) /\ Len(t) = Len(closes) + 1
      /\ \A k \in 1..Len(closes) : t[k] = Job("close", c)
      /\ t[Len(closes) + 1] = Job("settle", c)
      BY <1>6, <1>7, ConcatProperties
<1>9. jobs' = Tail(jobs) \o t
      <2>1. Tail(jobs) \in Seq(AnyRunnerJob)
            BY PoppedJob, CoreTypes DEF CoreInv
      <2>2. jobs' = (Tail(jobs) \o closes) \o <<Job("settle", c)>>
            BY <1>3 DEF Ends, SettleReaction
      <2> QED BY <1>6, <1>7, <2>1, <2>2, ConcatAssociative
<1> HIDE DEF t
<1>10. JobsOK(t)'
       <2>1. \A k \in 1..Len(t) : k \in 1..Len(closes) \/ k = Len(closes) + 1
             BY <1>6, <1>8
       <2>2. \A k \in 1..Len(t) : JobFits(t[k])' /\ HasTurn(t[k].cmd)'
             BY <1>5, <1>8, <2>1 DEF JobFits, HasTurn, Job
       <2>3. \A k \in 1..Len(t) : Forward(t[k])' => k = Len(closes) + 1
             BY <1>8, <2>1 DEF Forward, Job
       <2>4. ASSUME NEW k \in 1..Len(t), t[k].kind = "close"
             PROVE  \E l \in 1..Len(t) : k < l /\ t[l].kind \in {"resume", "settle"}
             <3>1. k < Len(closes) + 1 /\ Len(closes) + 1 \in 1..Len(t)
                   BY <1>6, <1>8, <2>1, <2>4 DEF Job
             <3> QED BY <1>8, <3>1 DEF Job
       <2>5. \A k, l \in 1..Len(t) : ~(k < l /\ Forward(t[k])' /\ Forward(t[l])')
             BY <1>6, <2>3
       <2> QED BY <2>2, <2>4, <2>5 DEF JobsOK
<1>11. JobsOK(jobs)' /\ PendingOK(jobs)' /\ jobs' \in Seq(AnyRunnerJob)
       <2>1. stage[c] = "running"
             BY <1>2, HeadInTurn DEF JobFits, Job
       <2> QED BY <1>2, <1>4, <1>5, <1>8, <1>9, <1>10, <2>1, JobsNext
<1>12. ASSUME closes # <<>>
       PROVE  Among(jobs', Job("close", c))
       <2>1. 1 \in 1..Len(closes)
             BY <1>12
       <2>2. Among(t, Job("close", c))
             BY <1>6, <1>8, <2>1 DEF Among
       <2>3. Tail(jobs) \in Seq(AnyRunnerJob)
             BY PoppedJob, CoreTypes DEF CoreInv
       <2> QED BY <1>8, <1>9, <2>2, <2>3, Scheduled
<1> QED BY <1>4, <1>11, <1>12

\* The three ways #executeFramed and #collectStream go on.
LEMMA ReactCore ==
    ASSUME CoreInv, NEW c \in Commands, ExchangeOK(c), ReactJob(c)
    PROVE  /\ ChainOK' /\ JobsOK(jobs)' /\ PendingOK(jobs)'
           /\ jobs' \in Seq(AnyRunnerJob)
<1> DEFINE next == IF Streaming THEN "step" ELSE "resume"
<1>1. /\ Runs("react", c) /\ jobs' = Append(Tail(jobs), Job(next, c))
      /\ UNCHANGED <<accepted, released, adopted, stage, race, idling>>
      BY DEF ReactJob, exchangeVars
<1>2. /\ "react" \in (QueueJobs \cup RunnerJobs) \ {"cleanup", "close"}
      /\ next \in (QueueJobs \cup RunnerJobs) \ {"cleanup", "close"}
      BY DEF RunnerJobs
<1>3. /\ HasTurn(c) /\ Running(c) /\ race[c] # "none"
      /\ \A job : Among(Tail(jobs), job) => job.kind \in {"cleanup", "react"}
      BY <1>1, <1>2, HeadInTurn DEF JobFits, Job, Running
<1>4. c \in adopted
      <2> SUFFICES ASSUME Among(jobs, Job("adopt", c))
                   PROVE  FALSE
          BY <1>3 DEF CoreInv, PendingOK
      <2>1. Among(Tail(jobs), Job("adopt", c))
            BY <1>1, OthersStay, CoreTypes DEF CoreInv, Job
      <2> QED BY <1>3, <2>1 DEF Job
<1>5. JobFits(Job(next, c))' /\ HasTurn(c)'
      BY <1>1, <1>3, <1>4 DEF JobFits, HasTurn, Job, Running, ExchangeOK
<1>6. ChainOK'
      BY <1>1 DEF CoreInv, ChainOK
<1> HIDE DEF next
<1>7. next \in {"react", "step", "resume"}
      BY DEF next
<1> QED BY <1>1, <1>2, <1>3, <1>4, <1>5, <1>6, <1>7, JobsNextOne DEF Running

\* #collectStream goes on: with another race, or not at all.
LEMMA StepCore ==
    ASSUME CoreInv, NEW c \in Commands,
           NextChunk(c) \/ ChunkOverLimit(c) \/ StreamEnds(c)
    PROVE  /\ ChainOK' /\ JobsOK(jobs)' /\ PendingOK(jobs)'
           /\ jobs' \in Seq(AnyRunnerJob)
           /\ ChunkOverLimit(c) => Among(jobs', Job("close", c))
<1>1. /\ Runs("step", c) /\ race \in [Commands -> Races]
      /\ UNCHANGED <<accepted, released, adopted, stage>>
      BY DEF NextChunk, ChunkOverLimit, StreamEnds, CoreInv, RunnerTypeOK
<1>2. /\ "step" \in (QueueJobs \cup RunnerJobs) \ {"cleanup", "close"}
      /\ "react" \in (QueueJobs \cup RunnerJobs) \ {"cleanup", "close"}
      /\ "resume" \in (QueueJobs \cup RunnerJobs) \ {"cleanup", "close"}
      BY DEF RunnerJobs
<1>3. /\ HasTurn(c) /\ stage[c] = "running" /\ race[c] # "none" /\ c \in adopted
      BY <1>1, <1>2, HeadInTurn DEF JobFits, Job
<1>4. Tail(jobs) \in Seq(AnyRunnerJob) /\ HasTurn(c)' /\ ChainOK'
      BY <1>1, <1>3, PoppedJob, CoreTypes DEF CoreInv, HasTurn, ChainOK
<1>5. CASE NextChunk(c) /\ race'[c] = "none"
      <2>1. jobs' = Tail(jobs) \o <<>> /\ <<>> \in Seq(AnyRunnerJob)
            BY <1>1, <1>4, <1>5, ConcatEmptySeq, EmptySeq DEF NextChunk
      <2>2. JobsOK(<<>>)'
            BY DEF JobsOK
      <2> QED BY <1>1, <1>2, <1>3, <1>4, <1>5, <2>1, <2>2, JobsNext
              DEF NextChunk, ChunkOverLimit
<1>6. CASE NextChunk(c) /\ race'[c] # "none"
      <2>1. jobs' = Append(Tail(jobs), Job("react", c))
            BY <1>1, <1>6 DEF NextChunk
      <2>2. JobFits(Job("react", c))'
            BY <1>1, <1>3, <1>6 DEF JobFits, Job
      <2> QED BY <1>1, <1>2, <1>3, <1>4, <1>6, <2>1, <2>2, JobsNextOne
              DEF NextChunk, ChunkOverLimit
<1>7. CASE StreamEnds(c)
      <2>1. /\ jobs' = Append(Tail(jobs), Job("resume", c))
            /\ race' = race /\ race[c] # "chunk" /\ c \notin idling'
            BY <1>7 DEF StreamEnds
      <2>2. JobFits(Job("resume", c))'
            BY <1>1, <1>3, <2>1 DEF JobFits, Job
      <2> QED BY <1>1, <1>2, <1>3, <1>4, <1>7, <2>1, <2>2, JobsNextOne
              DEF StreamEnds, ChunkOverLimit
<1>8. CASE ChunkOverLimit(c)
      <2> DEFINE t == <<Job("close", c), Job("resume", c)>>
      <2>1. jobs' = Tail(jobs) \o t /\ race'[c] = "limit" /\ c \notin idling'
            BY <1>1, <1>8 DEF ChunkOverLimit
      <2>2. /\ t \in Seq(AnyRunnerJob) /\ Len(t) = 2
            /\ t[1] = Job("close", c) /\ t[2] = Job("resume", c)
            BY JobTypes DEF RunnerJobs
      <2> HIDE DEF t
      <2>3. \A k \in 1..Len(t) : k = 1 \/ k = 2
            BY <2>2
      <2>4. JobFits(Job("close", c))' /\ JobFits(Job("resume", c))'
            BY <1>1, <1>3, <2>1 DEF JobFits, Job
      <2>5. JobsOK(t)'
            BY <1>4, <2>2, <2>3, <2>4 DEF JobsOK, JobFits, HasTurn, Forward, Job
      <2>6. Among(t, Job("close", c)) /\ Among(t, Job("resume", c))
            BY <2>2 DEF Among
      <2>7. Among(jobs', Job("close", c))
            BY <1>4, <2>1, <2>2, <2>6, Scheduled
      <2> QED BY <1>1, <1>2, <1>3, <1>4, <2>1, <2>2, <2>5, <2>6, <2>7, JobsNext
<1> QED BY <1>5, <1>6, <1>7, <1>8

\* What the catch block makes of a race that is lost.
LEMMA VerdictOf ==
    ASSUME NEW c \in Commands,
           NEW thrown \in {"error", "transport_timeout", "timeout", "abort", "limit"},
           NEW why, thrown = "abort" => c \in aborted
    PROVE  /\ Verdict(c, thrown, why) \in RunnerResults \ {"ok", "session_closed"}
           /\ Verdict(c, thrown, why) = "timeout"
              <=> IsTimeout(c, thrown) \/ IsTimeout(c, why)
           /\ Verdict(c, thrown, why) = "aborted" =>  c \in aborted
           /\ c \in aborted => Verdict(c, thrown, why) \in {"timeout", "aborted"}
           /\ CatchClose(c, Verdict(c, thrown, why)) =
                 IF Verdict(c, thrown, why) \in {"timeout", "aborted"}
                 THEN <<Job("close", c)>> ELSE <<>>
<1> DEFINE verdict == Verdict(c, thrown, why)
           timeout == IsTimeout(c, thrown) \/ IsTimeout(c, why)
<1>1. CASE timeout
      <2>1. verdict = "timeout"
            BY <1>1 DEF Verdict
      <2> QED BY <1>1, <2>1 DEF CatchClose, RunnerResults
<1>2. CASE ~timeout /\ c \in aborted
      <2>1. verdict = "aborted"
            BY <1>2 DEF Verdict
      <2> QED BY <1>2, <2>1 DEF CatchClose, RunnerResults
<1>3. CASE ~timeout /\ c \notin aborted
      <2>1. verdict = thrown /\ thrown \in {"error", "limit"}
            BY <1>3 DEF Verdict, IsTimeout
      <2> QED BY <1>3, <2>1 DEF CatchClose, RunnerResults
<1> QED BY <1>1, <1>2, <1>3

\* The closes that #failOnOutputLimit and the catch block ask for.
LEMMA TwoCloses ==
    ASSUME NEW c \in Commands, NEW verdict
    PROVE  <<Job("close", c)>> \o CatchClose(c, verdict) \in
              {<<Job("close", c)>>, <<Job("close", c), Job("close", c)>>}
<1>1. Job("close", c) \in AnyRunnerJob
      BY JobTypes DEF RunnerJobs
<1> DEFINE one == <<Job("close", c)>>
<1>2. one \in Seq(AnyRunnerJob)
      BY <1>1
<1>3. one \o one = <<Job("close", c), Job("close", c)>>
      <2> SUFFICES ASSUME NEW j \in AnyRunnerJob
                   PROVE  <<j>> \o <<j>> = <<j, j>>
          BY <1>1
      <2>1. /\ <<j>> \in Seq(AnyRunnerJob) /\ <<j, j>> \in Seq(AnyRunnerJob)
            /\ Len(<<j>>) = 1 /\ Len(<<j, j>>) = 2
            /\ <<j, j>>[1] = j /\ <<j, j>>[2] = j
            OBVIOUS
      <2>2. /\ <<j>> \o <<j>> \in Seq(AnyRunnerJob) /\ Len(<<j>> \o <<j>>) = 2
            /\ \A k \in 1..2 : (<<j>> \o <<j>>)[k] = j
            BY <2>1, ConcatProperties
      <2>3. \A k \in 1..2 : <<j, j>>[k] = j
            BY <2>1
      <2> QED BY <2>1, <2>2, <2>3, SeqEqual
<1>4. one \o <<>> = one
      BY <1>2, ConcatEmptySeq
<1> QED BY <1>3, <1>4 DEF CatchClose

\* The three ways #executeFramed ends.
LEMMA ResumeEnds ==
    ASSUME CoreInv, NEW c \in Commands, ExchangeOK(c),
           Fulfils(c) \/ AnswerOverLimit(c) \/ Throws(c)
    PROVE  /\ Runs("resume", c) /\ race[c] \in {"answer", "error", "transport_timeout", "timeout", "abort",
                                  "limit"}
           /\ \E r \in RunnerResults,
                 closes \in {<<>>, <<Job("close", c)>>,
                             <<Job("close", c), Job("close", c)>>} : Ends(c, r, closes)
<1>1. Runs("resume", c)
      BY DEF Fulfils, AnswerOverLimit, Throws
<1>2. race[c] \in {"answer", "error", "transport_timeout", "timeout", "abort",
                                  "limit"}
      <2>1. "resume" \in (QueueJobs \cup RunnerJobs) \ {"cleanup", "close"}
            BY DEF RunnerJobs
      <2>2. race[c] \notin {"none", "chunk"}
            BY <1>1, <2>1, HeadInTurn DEF JobFits, Job
      <2> QED BY <2>2 DEF CoreInv, RunnerTypeOK, Races
<1>3. CASE Fulfils(c)
      BY <1>1, <1>2, <1>3 DEF Fulfils, RunnerResults
<1>4. CASE AnswerOverLimit(c)
      <2> DEFINE verdict == Verdict(c, "limit", LimitReason(c))
      <2>1. verdict \in RunnerResults
            BY VerdictOf
      <2>2. Ends(c, verdict, <<Job("close", c)>> \o CatchClose(c, verdict))
            BY <1>4 DEF AnswerOverLimit
      <2> QED BY <1>1, <1>2, <2>1, <2>2, TwoCloses
<1>5. CASE Throws(c)
      <2> DEFINE verdict == Verdict(c, race[c], reason[c])
      <2>1. verdict \in RunnerResults /\ CatchClose(c, verdict) \in {<<>>, <<Job("close", c)>>}
            BY <1>2, <1>5, VerdictOf DEF Throws, ExchangeOK
      <2>2. Ends(c, verdict, CatchClose(c, verdict))
            BY <1>5 DEF Throws
      <2> QED BY <1>1, <1>2, <2>1, <2>2
<1> QED BY <1>3, <1>4, <1>5

\* Every promise job keeps the chain, the jobs and the types.
LEMMA PromiseCore ==
    ASSUME CoreInv, \A d \in Commands : ExchangeOK(d), NEW c \in Commands, PromiseJob(c)
    PROVE  CoreInv'
<1>1. RunnerTypeOK /\ Len(accepted) \in Nat
      BY CoreTypes DEF CoreInv
<1>2. Runs("run", c) => race[c] = "none"
      <2>1. "run" \in (QueueJobs \cup RunnerJobs) \ {"cleanup", "close"}
            BY DEF QueueJobs
      <2>2. Runs("run", c) => stage[c] = "queued"
            BY <2>1, HeadInTurn DEF JobFits, Job
      <2> QED BY <2>2 DEF ExchangeOK
<1>3. ASSUME NEW st \in {"skipped", "running", "finished"}, NEW r \in RunnerResults,
             Runs("run", c),
             stage' = [stage EXCEPT ![c] = st],
             outcome' \in {outcome, [outcome EXCEPT ![c] = r]},
             jobs' = Append(Tail(jobs), Job("adopt", c)),
             UNCHANGED <<closed, signalled, accepted, released, listening, aborted,
                         adopted, race, reason, bytes, got, open>>,
             timers' \subseteq Commands, idling' \subseteq Commands,
             wire' \in Seq(Commands)
      PROVE  CoreInv'
      <2>1. /\ ChainOK' /\ JobsOK(jobs)' /\ PendingOK(jobs)'
            /\ jobs' \in Seq(AnyRunnerJob)
            BY <1>2, <1>3, RunCore
      <2>2. RunnerTypeOK'
            BY <1>1, <1>3, <2>1 DEF RunnerTypeOK, AnyRunnerJob, Stages
      <2> QED BY <2>1, <2>2 DEF CoreInv
<1>4. CASE SkipJob(c) /\ UNCHANGED <<exchangeVars, sessionVars>>
      BY <1>1, <1>3, <1>4
         DEF SkipJob, exchangeVars, sessionVars, RunnerTypeOK, RunnerResults
<1>5. CASE RefuseToSend(c)
      BY <1>1, <1>3, <1>5
         DEF RefuseToSend, FinishAtOnceJob, exchangeVars, sessionVars, RunnerTypeOK,
             RunnerResults
<1>6. CASE Send(c)
      <2>1. wire' \in Seq(Commands)
            BY <1>1, <1>6, AppendProperties DEF Send, RunnerTypeOK
      <2> QED BY <1>1, <1>3, <1>6, <2>1 DEF Send, StartJob, RunnerTypeOK, RunnerResults
<1>7. CASE AdoptJob(c) /\ UNCHANGED <<exchangeVars, sessionVars>>
      <2>1. /\ ChainOK' /\ JobsOK(jobs)' /\ PendingOK(jobs)'
            /\ jobs' \in Seq(AnyRunnerJob)
            BY <1>7, AdoptCore DEF exchangeVars
      <2>2. adopted' \subseteq Commands
            BY <1>1, <1>7 DEF AdoptJob, RunnerTypeOK
      <2>3. RunnerTypeOK'
            BY <1>1, <1>7, <2>1, <2>2
               DEF AdoptJob, exchangeVars, sessionVars, RunnerTypeOK, AnyRunnerJob
      <2> QED BY <2>1, <2>3 DEF CoreInv
<1>8. CASE SettleJob(c) /\ UNCHANGED <<exchangeVars, sessionVars>>
      <2>1. /\ ChainOK' /\ JobsOK(jobs)' /\ PendingOK(jobs)'
            /\ jobs' \in Seq(AnyRunnerJob)
            BY <1>8, SettleCore DEF exchangeVars
      <2>2. RunnerTypeOK'
            BY <1>1, <1>8, <2>1 DEF SettleJob, exchangeVars, sessionVars, RunnerTypeOK,
                                    AnyRunnerJob, Stages
      <2> QED BY <2>1, <2>2 DEF CoreInv
<1>9. CASE TailJob(c) /\ UNCHANGED <<exchangeVars, sessionVars>>
      <2>1. /\ ChainOK' /\ JobsOK(jobs)' /\ PendingOK(jobs)'
            /\ jobs' \in Seq(AnyRunnerJob) /\ released' \in 0..Len(accepted)
            BY <1>9, TailCore DEF exchangeVars
      <2>2. RunnerTypeOK'
            BY <1>1, <1>9, <2>1
               DEF TailJob, exchangeVars, sessionVars, RunnerTypeOK, AnyRunnerJob
      <2> QED BY <2>1, <2>2 DEF CoreInv
<1>10. CASE CleanupJob(c) /\ UNCHANGED <<exchangeVars, sessionVars>>
      <2>1. /\ ChainOK' /\ JobsOK(jobs)' /\ PendingOK(jobs)'
            /\ jobs' \in Seq(AnyRunnerJob)
            BY <1>10, JobsFewer DEF CleanupJob, exchangeVars
      <2>2. RunnerTypeOK'
            BY <1>1, <1>10, <2>1
               DEF CleanupJob, exchangeVars, sessionVars, RunnerTypeOK, AnyRunnerJob
      <2> QED BY <2>1, <2>2 DEF CoreInv
<1>11. CASE CloseJob(c)
      <2>1. /\ ChainOK' /\ JobsOK(jobs)' /\ PendingOK(jobs)'
            /\ jobs' \in Seq(AnyRunnerJob)
            BY <1>11, JobsFewer DEF CloseJob, exchangeVars
      <2>2. wire' \in Seq(Commands)
            BY <1>11, EmptySeq DEF CloseJob, CloseSession
      <2>3. RunnerTypeOK'
            BY <1>1, <1>11, <2>1, <2>2
               DEF CloseJob, CloseSession, exchangeVars, RunnerTypeOK, AnyRunnerJob
      <2> QED BY <2>1, <2>3 DEF CoreInv
<1>12. CASE ReactJob(c)
      <2>1. /\ ChainOK' /\ JobsOK(jobs)' /\ PendingOK(jobs)'
            /\ jobs' \in Seq(AnyRunnerJob)
            BY <1>12, ReactCore
      <2>2. RunnerTypeOK'
            BY <1>1, <1>12, <2>1
               DEF ReactJob, exchangeVars, sessionVars, RunnerTypeOK, AnyRunnerJob
      <2> QED BY <2>1, <2>2 DEF CoreInv
<1>13. CASE NextChunk(c) \/ ChunkOverLimit(c) \/ StreamEnds(c)
      <2>1. /\ ChainOK' /\ JobsOK(jobs)' /\ PendingOK(jobs)'
            /\ jobs' \in Seq(AnyRunnerJob)
            BY <1>13, StepCore
      <2>2. bytes' \in [Commands -> Nat]
            <3>1. bytes' = bytes \/ \E n \in Nat : bytes' = [bytes EXCEPT ![c] = @ + n]
                  BY <1>13, RunnerAssumption DEF NextChunk, ChunkOverLimit, StreamEnds
            <3>2. bytes \in [Commands -> Nat]
                  BY <1>1 DEF RunnerTypeOK
            <3>3. ASSUME NEW n \in Nat, bytes' = [bytes EXCEPT ![c] = @ + n]
                  PROVE  bytes' \in [Commands -> Nat]
                  BY <3>2, <3>3
            <3> QED BY <3>1, <3>2, <3>3
      <2>3. race' \in [Commands -> Races] /\ reason' \in [Commands -> Reasons]
            BY <1>1, <1>13 DEF NextChunk, ChunkOverLimit, StreamEnds, RunnerTypeOK,
                               LimitReason, Races, Reasons
      <2>4. wire' \in Seq(Commands)
            <3>1. wire' \in {wire, WireWithout(c)}
                  BY <1>13 DEF NextChunk, ChunkOverLimit, StreamEnds, sessionVars
            <3> QED BY <1>1, <3>1, WireShrinks DEF RunnerTypeOK
      <2>5. RunnerTypeOK'
            BY <1>1, <1>13, <2>1, <2>2, <2>3, <2>4
               DEF NextChunk, ChunkOverLimit, StreamEnds, RunnerTypeOK, AnyRunnerJob,
                   sessionVars
      <2> QED BY <2>1, <2>5 DEF CoreInv
<1>14. CASE Fulfils(c) \/ AnswerOverLimit(c) \/ Throws(c)
      <2>1. PICK r \in RunnerResults,
                 closes \in {<<>>, <<Job("close", c)>>,
                             <<Job("close", c), Job("close", c)>>} :
               Runs("resume", c) /\ Ends(c, r, closes)
            BY <1>14, ResumeEnds
      <2>2. /\ ChainOK' /\ JobsOK(jobs)' /\ PendingOK(jobs)'
            /\ jobs' \in Seq(AnyRunnerJob)
            BY <2>1, EndsCore
      <2>3. reason' \in [Commands -> Reasons] /\ closed' \in BOOLEAN
            BY <1>1, <1>14 DEF Fulfils, AnswerOverLimit, Throws, RunnerTypeOK,
                               LimitReason, Reasons
      <2>4. RunnerTypeOK'
            BY <1>1, <2>1, <2>2, <2>3
               DEF Ends, RunnerTypeOK, AnyRunnerJob, Stages, sessionVars
      <2> QED BY <2>2, <2>4 DEF CoreInv
<1> QED
    BY <1>4, <1>5, <1>6, <1>7, <1>8, <1>9, <1>10, <1>11, <1>12, <1>13, <1>14
    DEF PromiseJob, QueueJob

-----------------------------------------------------------------------------
(* What an exchange has seen, and what its caller is told *)

\* Signals, aborts and the closing of the queue are for good, and a command is
\* aborted by its own signal only.
Forgets ==
    /\ signalled \subseteq signalled'
    /\ aborted \subseteq aborted'
    /\ \A d \in aborted' : d \in aborted \/ SignalOf[d] \in signalled'
    /\ closed => closed'

LEMMA NothingForgotten == ASSUME RunnerTypeOK, RunnerNext PROVE Forgets
<1>1. RunnerTypeOK
      OBVIOUS
<1>2. CASE UNCHANGED <<signalled, aborted>> /\ (closed => closed')
      BY <1>2 DEF Forgets
<1>3. ASSUME NEW s \in Signals, SignalFires(s)
      PROVE  Forgets
      BY <1>1, <1>3 DEF Forgets, SignalFires, ListenersOf
<1>4. ASSUME NEW s \in Signals, AbortWaiting(s) \/ \E c \in Commands : AbortRunning(s, c)
      PROVE  Forgets
      BY <1>3, <1>4 DEF AbortWaiting, AbortRunning, Abort
<1>5. CASE CloseRunner \/ SessionDrops \/ Reconnects
      BY <1>2, <1>5 DEF CloseRunner, Close, SessionDrops, Reconnects, queueVars
<1>6. ASSUME NEW c \in Commands,
             \/ Submit(c) \/ Answers(c) \/ YieldsChunk(c) \/ Fails(c)
             \/ DeadlineFires(c) \/ IdleFires(c)
      PROVE  Forgets
      BY <1>2, <1>6 DEF Submit, Enqueue, Refuse, Accept, Answers, YieldsChunk, Fails,
                        DeadlineFires, IdleFires
<1>7. ASSUME NEW c \in Commands, PromiseJob(c)
      PROVE  Forgets
      <2>1. CASE QueueJob(c) \/ RefuseToSend(c) \/ Send(c)
            BY <1>2, <2>1
               DEF QueueJob, SkipJob, AdoptJob, SettleJob, TailJob, CleanupJob,
                   RefuseToSend, FinishAtOnceJob, Send, StartJob
      <2>2. CASE ReactJob(c) \/ NextChunk(c) \/ ChunkOverLimit(c) \/ StreamEnds(c)
                 \/ CloseJob(c)
            BY <1>2, <2>2
               DEF ReactJob, NextChunk, ChunkOverLimit, StreamEnds, CloseJob
      <2>3. CASE Fulfils(c) \/ AnswerOverLimit(c) \/ Throws(c)
            BY <1>2, <2>3 DEF Fulfils, AnswerOverLimit, Throws, Ends
      <2> QED BY <1>7, <2>1, <2>2, <2>3 DEF PromiseJob
<1> QED BY <1>4, <1>5, <1>6, <1>7 DEF RunnerNext, Environment

\* An exchange a step does not touch, but for timers that are disarmed.
LEMMA ExchangeKept ==
    ASSUME Forgets, NEW d \in Commands, ExchangeOK(d),
           stage'[d] = stage[d], outcome'[d] = outcome[d], race'[d] = race[d],
           reason'[d] = reason[d], bytes'[d] = bytes[d], got'[d] = got[d],
           d \in timers' => d \in timers, d \in idling' => d \in idling
    PROVE  ExchangeOK(d)'
<1>1. TimeoutMet(d) => TimeoutMet(d)'
      BY DEF Forgets, TimeoutMet
<1> QED BY <1>1 DEF Forgets, ExchangeOK, Running

\* An exchange that is stopped knows why.
LEMMA ExchangeStopped ==
    ASSUME RunnerTypeOK, Forgets, NEW c \in Commands, Running(c), ExchangeOK(c),
           NEW why \in {"timeout", "abort"}, NEW reply \in AbortReplies,
           StopExchange(c, why, reply),
           why = "timeout" => race[c] = "none",
           why = "abort" => c \in aborted',
           timers' \subseteq timers, idling' \subseteq idling,
           UNCHANGED <<stage, outcome, bytes, got>>
    PROVE  \A d \in Commands : ExchangeOK(d) => ExchangeOK(d)'
<1>1. race \in [Commands -> Races] /\ reason \in [Commands -> Reasons]
      BY DEF RunnerTypeOK
<1>2. /\ reason'[c] = IF reason[c] = "none" THEN why ELSE reason[c]
      /\ race[c] # "none" => race'[c] = race[c]
      /\ race[c] = "none" => race'[c] \in {why, "error", "transport_timeout", "answer"}
      /\ \A d \in Commands \ {c} : race'[d] = race[d] /\ reason'[d] = reason[d]
      BY <1>1, RunnerAssumption DEF StopExchange
<1>3. ExchangeOK(c)'
      BY <1>2 DEF Forgets, ExchangeOK, Running
<1>4. \A d \in Commands \ {c} : ExchangeOK(d) => ExchangeOK(d)'
      BY <1>2, ExchangeKept
<1> QED BY <1>3, <1>4

\* The transport's doings in the exchange of c.
LEMMA ExchangeOffered ==
    ASSUME RunnerTypeOK, Forgets, NEW c \in Commands, ExchangeOK(c),
           Answers(c) \/ YieldsChunk(c) \/ Fails(c)
    PROVE  \A d \in Commands : ExchangeOK(d) => ExchangeOK(d)'
<1>1. /\ race \in [Commands -> Races] /\ got \in [Commands -> SUBSET Commands]
      /\ bytes \in [Commands -> Nat]
      BY DEF RunnerTypeOK
<1>2. /\ UNCHANGED <<stage, outcome, reason, timers, idling>>
      /\ Running(c)
      BY DEF Answers, YieldsChunk, Fails, Connected
<1>3. ASSUME NEW what, Offer(c, what)
      PROVE  /\ \A d \in Commands \ {c} : race'[d] = race[d]
             /\ race'[c] = IF race[c] = "none" THEN what ELSE race[c]
      BY <1>1, <1>3 DEF Offer
<1>4. ASSUME NEW n, Receive(c, n)
      PROVE  /\ \A d \in Commands \ {c} : got'[d] = got[d] /\ bytes'[d] = bytes[d]
             /\ race[c] # "none" => got'[c] = got[c] /\ bytes'[c] = bytes[c]
      BY <1>1, <1>4 DEF Receive
<1>5. /\ \A d \in Commands \ {c} :
            race'[d] = race[d] /\ got'[d] = got[d] /\ bytes'[d] = bytes[d]
      /\ race[c] # "none" => race'[c] = race[c] /\ bytes'[c] = bytes[c]
      /\ race[c] = "none" =>
            \/ race'[c] = "answer"
            \/ race'[c] = "chunk" /\ Streaming
            \/ race'[c] \in {"error", "transport_timeout"} /\ bytes'[c] = bytes[c]
      BY <1>3, <1>4 DEF Answers, YieldsChunk, Fails
<1>6. ExchangeOK(c)'
      BY <1>2, <1>5 DEF Forgets, ExchangeOK, Running
<1>7. \A d \in Commands \ {c} : ExchangeOK(d) => ExchangeOK(d)'
      BY <1>2, <1>5, ExchangeKept
<1> QED BY <1>6, <1>7

\* A call that is refused is told why; one that is accepted has seen nothing yet.
LEMMA ExchangeSubmitted ==
    ASSUME RunnerTypeOK, Forgets, NEW c \in Commands, ExchangeOK(c), Submit(c)
    PROVE  \A d \in Commands : ExchangeOK(d) => ExchangeOK(d)'
<1>1. stage \in [Commands -> Stages] /\ DOMAIN outcome = Commands
      BY DEF RunnerTypeOK
<1>2. /\ stage[c] = "new" /\ UNCHANGED <<race, reason, timers, idling, bytes, got>>
      /\ stage'[c] \in {"queued", "refused"}
      /\ \A d \in Commands \ {c} : stage'[d] = stage[d] /\ outcome'[d] = outcome[d]
      BY <1>1 DEF Submit, Enqueue, Refuse, Accept, exchangeVars
<1>3. \/ stage'[c] = "queued" /\ outcome'[c] = outcome[c]
      \/ stage'[c] = "refused" /\ outcome'[c] \in {"closed", "invalid"}
      \/ /\ stage'[c] = "refused" /\ outcome'[c] = "aborted"
         /\ SignalOf[c] \in signalled
      BY <1>1 DEF Submit, Enqueue, Refuse, Accept
<1>4. race[c] = "none" /\ bytes[c] = 0 /\ got[c] = {} /\ outcome[c] = "none"
      BY <1>2 DEF ExchangeOK
<1>5. ExchangeOK(c)'
      BY <1>2, <1>3, <1>4, RunnerAssumption DEF Forgets, ExchangeOK, Running
<1>6. \A d \in Commands \ {c} : ExchangeOK(d) => ExchangeOK(d)'
      BY <1>2, ExchangeKept
<1> QED BY <1>5, <1>6

\* run() of the command: skipped, refused by the transport, or sent.
LEMMA ExchangeStarted ==
    ASSUME CoreInv, Forgets, NEW c \in Commands, ExchangeOK(c),
           \/ SkipJob(c) /\ UNCHANGED <<exchangeVars, sessionVars>>
           \/ RefuseToSend(c) \/ Send(c)
    PROVE  \A d \in Commands : ExchangeOK(d) => ExchangeOK(d)'
<1>1. stage \in [Commands -> Stages] /\ DOMAIN outcome = Commands
      BY DEF CoreInv, RunnerTypeOK
<1>2. "run" \in (QueueJobs \cup RunnerJobs) \ {"cleanup", "close"}
      BY DEF QueueJobs
<1>3. Runs("run", c)
      BY DEF SkipJob, RefuseToSend, FinishAtOnceJob, Send, StartJob
<1>4. stage[c] = "queued"
      BY <1>2, <1>3, HeadInTurn DEF JobFits, Job
<1>5. /\ UNCHANGED <<race, reason, bytes, got>>
      /\ \A d \in Commands \ {c} : /\ stage'[d] = stage[d] /\ outcome'[d] = outcome[d]
                                   /\ d \in timers' => d \in timers
                                   /\ d \in idling' => d \in idling
      BY <1>1 DEF SkipJob, RefuseToSend, FinishAtOnceJob, Send, StartJob, exchangeVars
<1>6. \/ /\ stage'[c] = "skipped" /\ outcome'[c] = "aborted" /\ c \in aborted
         /\ timers' = timers /\ idling' = idling
      \/ /\ stage'[c] = "finished" /\ outcome'[c] \in {"error", "session_closed"}
         /\ timers' = timers /\ idling' = idling
      \/ /\ stage'[c] = "running" /\ outcome'[c] = outcome[c]
         /\ Streaming \/ idling' = idling
      BY <1>1 DEF SkipJob, RefuseToSend, FinishAtOnceJob, Send, StartJob, exchangeVars
<1>7. race[c] = "none" /\ bytes[c] = 0 /\ got[c] = {} /\ outcome[c] = "none"
      BY <1>4 DEF ExchangeOK
<1>8. c \notin timers /\ c \notin idling
      BY <1>4 DEF ExchangeOK, Running
<1>9. ExchangeOK(c)'
      BY <1>4, <1>5, <1>6, <1>7, <1>8, RunnerAssumption DEF Forgets, ExchangeOK, Running
<1>10. \A d \in Commands \ {c} : ExchangeOK(d) => ExchangeOK(d)'
       BY <1>5, ExchangeKept
<1> QED BY <1>9, <1>10

\* #collectStream goes on.
LEMMA ExchangeStreams ==
    ASSUME CoreInv, Forgets, NEW c \in Commands, ExchangeOK(c),
           NextChunk(c) \/ ChunkOverLimit(c) \/ StreamEnds(c)
    PROVE  \A d \in Commands : ExchangeOK(d) => ExchangeOK(d)'
<1>1. /\ race \in [Commands -> Races] /\ reason \in [Commands -> Reasons]
      /\ bytes \in [Commands -> Nat]
      BY DEF CoreInv, RunnerTypeOK
<1>2. "step" \in (QueueJobs \cup RunnerJobs) \ {"cleanup", "close"}
      BY DEF RunnerJobs
<1>3. Runs("step", c)
      BY DEF NextChunk, ChunkOverLimit, StreamEnds
<1>4. Running(c) /\ Streaming
      BY <1>2, <1>3, HeadInTurn DEF JobFits, Job, Running
<1>5. /\ UNCHANGED <<stage, outcome, got, timers, aborted>>
      /\ \A d \in Commands \ {c} : /\ race'[d] = race[d] /\ reason'[d] = reason[d]
                                   /\ bytes'[d] = bytes[d]
                                   /\ d \in idling' => d \in idling
      BY <1>1 DEF NextChunk, ChunkOverLimit, StreamEnds
<1>6. ASSUME NextChunk(c) PROVE ExchangeOK(c)'
      <2>1. race[c] = "chunk" /\ bytes[c] <= MaxOutputBytes /\ reason' = reason
            BY <1>6 DEF NextChunk
      <2>2. \/ c \notin aborted /\ race'[c] = "none" /\ bytes' = bytes
            \/ /\ c \in aborted /\ bytes' = bytes
               /\ race'[c] \in {"abort", "answer", "error", "transport_timeout"}
            \/ c \in aborted /\ race' = race
            BY <1>1, <1>6 DEF NextChunk
      <2>3. bytes[c] \in Nat /\ MaxOutputBytes \in Nat
            BY <1>1, RunnerAssumption
      <2>4. outcome'[c] = "none"
            BY <1>4, <1>5 DEF ExchangeOK, Running
      <2> QED BY <1>4, <1>5, <2>1, <2>2, <2>3, <2>4 DEF Forgets, ExchangeOK, Running
<1>7. ASSUME ChunkOverLimit(c) PROVE ExchangeOK(c)'
      <2>1. /\ race[c] = "chunk" /\ race'[c] = "limit" /\ closed' = TRUE
            /\ reason'[c] = LimitReason(c) /\ idling' = idling \ {c} /\ bytes' = bytes
            BY <1>1, <1>7 DEF ChunkOverLimit
      <2>2. outcome'[c] = "none"
            BY <1>4, <1>5 DEF ExchangeOK, Running
      <2> QED BY <1>4, <1>5, <2>1, <2>2 DEF Forgets, ExchangeOK, Running, LimitReason
<1>8. ASSUME StreamEnds(c) PROVE ExchangeOK(c)'
      <2>1. UNCHANGED <<race, reason, bytes>> /\ idling' = idling \ {c}
            BY <1>8 DEF StreamEnds
      <2> QED BY <1>5, <2>1, ExchangeKept
<1>9. ExchangeOK(c)'
      BY <1>6, <1>7, <1>8
<1>10. \A d \in Commands \ {c} : ExchangeOK(d) => ExchangeOK(d)'
       BY <1>5, ExchangeKept
<1> QED BY <1>9, <1>10

\* What isTimeout recognises is a timeout the exchange has met.
LEMMA ReasonIsTimeout ==
    ASSUME Forgets, NEW c \in Commands, ExchangeOK(c), race' = race,
           reason[c] \in Reasons, reason'[c] \in {reason[c], LimitReason(c)},
           NEW error \in {"limit", race[c], reason[c], LimitReason(c)},
           IsTimeout(c, error)
    PROVE  TimeoutMet(c)'
<1>1. error # "limit"
      BY DEF IsTimeout
<1>2. error \in {race[c], reason[c]}
      BY <1>1 DEF LimitReason
<1>3. CASE error = "timeout"
      <2>1. reason[c] = "timeout"
            BY <1>2, <1>3 DEF ExchangeOK
      <2> QED BY <2>1 DEF TimeoutMet, LimitReason
<1>4. CASE error = "transport_timeout"
      BY <1>2, <1>4 DEF TimeoutMet, Reasons
<1>5. CASE error = "abort" /\ SignalOf[c] \in TimeoutSignals
      BY <1>2, <1>5 DEF TimeoutMet, ExchangeOK, Forgets
<1> QED BY <1>3, <1>4, <1>5 DEF IsTimeout

\* The end of an exchange, and what decided its outcome.
LEMMA ExchangeEnds ==
    ASSUME CoreInv, Forgets, NEW c \in Commands, ExchangeOK(c),
           Fulfils(c) \/ AnswerOverLimit(c) \/ Throws(c)
    PROVE  /\ \A d \in Commands : ExchangeOK(d) => ExchangeOK(d)'
           /\ \A d \in Commands \ {c} : /\ stage'[d] = stage[d] /\ outcome'[d] = outcome[d]
                                        /\ reason'[d] = reason[d]
           /\ Running(c) /\ c \in adopted /\ stage'[c] = "finished"
           /\ race[c] # "answer" /\ reason[c] = "timeout" => outcome'[c] = "timeout"
           /\ reason'[c] = "timeout" => reason[c] = "timeout"
<1>1. /\ stage \in [Commands -> Stages] /\ DOMAIN outcome = Commands
      /\ reason \in [Commands -> Reasons] /\ bytes \in [Commands -> Nat]
      BY DEF CoreInv, RunnerTypeOK
<1>2. "resume" \in (QueueJobs \cup RunnerJobs) \ {"cleanup", "close"}
      BY DEF RunnerJobs
<1>3. Runs("resume", c) /\ race[c] \in {"answer", "error", "transport_timeout", "timeout", "abort",
                                  "limit"}
      BY ResumeEnds
<1>4. Running(c) /\ c \notin idling /\ c \in adopted
      BY <1>2, <1>3, HeadInTurn DEF JobFits, Job, Running
<1>5. PICK r \in RunnerResults :
         /\ \E closes : Ends(c, r, closes)
         /\ \/ /\ Fulfils(c) /\ r = "ok" /\ race[c] = "answer"
               /\ bytes[c] <= MaxOutputBytes /\ reason' = reason
            \/ /\ AnswerOverLimit(c) /\ race[c] = "answer" /\ closed'
               /\ r = Verdict(c, "limit", LimitReason(c))
               /\ reason' = [reason EXCEPT ![c] = LimitReason(c)]
            \/ /\ Throws(c) /\ race[c] # "answer" /\ reason' = reason
               /\ r = Verdict(c, race[c], reason[c])
      <2>1. CASE Fulfils(c)
            BY <1>1, <2>1, RunnerAssumption DEF Fulfils, Oversized, RunnerResults
      <2>2. CASE AnswerOverLimit(c)
            BY <2>2, VerdictOf DEF AnswerOverLimit, Oversized
      <2>3. CASE Throws(c)
            <3>1. race[c] \in {"error", "transport_timeout", "timeout", "abort", "limit"}
                  BY <1>3, <2>3 DEF Throws
            <3>2. Verdict(c, race[c], reason[c]) \in RunnerResults
                  BY <3>1, VerdictOf DEF ExchangeOK
            <3> QED BY <2>3, <3>2 DEF Throws
      <2> QED BY <2>1, <2>2, <2>3
<1>6. /\ stage'[c] = "finished" /\ outcome'[c] = r
      /\ timers' = timers \ {c} /\ UNCHANGED <<race, idling, bytes, got>>
      /\ \A d \in Commands \ {c} : stage'[d] = stage[d] /\ outcome'[d] = outcome[d]
      BY <1>1, <1>5 DEF Ends
<1>7. /\ \A d \in Commands \ {c} : reason'[d] = reason[d]
      /\ reason'[c] = reason[c] \/ (reason[c] = "none" /\ reason'[c] = "limit")
      BY <1>1, <1>5 DEF LimitReason
<1>8. ExchangeOK(c)' /\ (race[c] # "answer" /\ reason[c] = "timeout" => r = "timeout")
      <2>1. CASE Fulfils(c)
            <3>1. r = "ok" /\ race[c] = "answer" /\ bytes[c] <= MaxOutputBytes /\ reason' = reason
                  BY <1>5, <2>1 DEF Fulfils, AnswerOverLimit, Throws, Oversized
            <3>2. bytes[c] \in Nat /\ MaxOutputBytes \in Nat
                  BY <1>1, RunnerAssumption
            <3> QED BY <1>4, <1>6, <3>1, <3>2 DEF Forgets, ExchangeOK, Running
      <2>2. CASE AnswerOverLimit(c)
            <3>1. /\ race[c] = "answer" /\ closed' /\ reason'[c] = LimitReason(c)
                  /\ r = Verdict(c, "limit", LimitReason(c))
                  BY <1>1, <2>2, <1>5 DEF Fulfils, AnswerOverLimit, Throws, Oversized
            <3>2. /\ r # "ok"
                  /\ r = "timeout" <=> IsTimeout(c, "limit") \/ IsTimeout(c, LimitReason(c))
                  /\ r = "aborted" => c \in aborted
                  BY <3>1, VerdictOf
            <3>3. r = "timeout" => TimeoutMet(c)'
                  BY <1>1, <1>4, <1>6, <3>1, <3>2, ReasonIsTimeout
            <3>4. reason'[c] = "abort" => reason[c] = "abort"
                  BY <3>1 DEF LimitReason
            <3> QED BY <1>4, <1>6, <1>7, <3>1, <3>2, <3>3, <3>4
                    DEF Forgets, ExchangeOK, Running
      <2>3. CASE Throws(c)
            <3>1. /\ race[c] \in {"error", "transport_timeout", "timeout", "abort", "limit"}
                  /\ reason' = reason /\ r = Verdict(c, race[c], reason[c])
                  BY <1>3, <1>5, <2>3 DEF Fulfils, AnswerOverLimit, Throws, Oversized
            <3>2. race[c] = "abort" => c \in aborted
                  BY DEF ExchangeOK
            <3>3. /\ r # "ok"
                  /\ r = "timeout" <=> IsTimeout(c, race[c]) \/ IsTimeout(c, reason[c])
                  /\ r = "aborted" => c \in aborted
                  BY <3>1, <3>2, VerdictOf
            <3>4. (r = "timeout" => TimeoutMet(c)') /\ (reason[c] = "timeout" => r = "timeout")
                  BY <1>1, <1>6, <3>1, <3>3, ReasonIsTimeout DEF IsTimeout
            <3> QED BY <1>4, <1>6, <3>1, <3>3, <3>4 DEF Forgets, ExchangeOK, Running
      <2> QED BY <2>1, <2>2, <2>3
<1>9. \A d \in Commands \ {c} : ExchangeOK(d) => ExchangeOK(d)'
      BY <1>6, <1>7, ExchangeKept
<1> QED BY <1>4, <1>6, <1>7, <1>8, <1>9

\* A job at the head of an empty queue: there is none, so a race that an armed
\* timer can still win is open.
LEMMA TimedRaceOpen ==
    ASSUME CoreInv, NEW c \in Commands, Running(c), jobs = <<>>
    PROVE  race[c] = "none"
<1>1. \A job : ~Among(jobs, job)
      BY DEF Among
<1> QED BY <1>1 DEF CoreInv, PendingOK

\* Every step keeps what is known of every exchange.
LEMMA ExchangeStep ==
    ASSUME CoreInv, \A d \in Commands : ExchangeOK(d), RunnerNext
    PROVE  \A d \in Commands : ExchangeOK(d)'
<1>1. RunnerTypeOK /\ Forgets /\ ChainTypes
      BY NothingForgotten, CoreTypes DEF CoreInv
<1>2. CASE \/ CloseRunner \/ SessionDrops \/ Reconnects
           \/ \E s \in Signals : AbortWaiting(s)
      <2>1. UNCHANGED <<stage, outcome, race, reason, bytes, got, timers, idling>>
            BY <1>2 DEF CloseRunner, Close, SessionDrops, Reconnects, AbortWaiting,
                        Abort, SignalFires, queueVars, exchangeVars
      <2> QED BY <1>1, <2>1, ExchangeKept
<1>3. ASSUME NEW s \in Signals, NEW c \in Commands, AbortRunning(s, c)
      PROVE  \A d \in Commands : ExchangeOK(d)'
      <2>1. PICK reply \in AbortReplies : StopExchange(c, "abort", reply)
            BY <1>3 DEF AbortRunning
      <2>2. /\ Running(c) /\ c \in aborted'
            /\ UNCHANGED <<stage, outcome, bytes, got, timers, idling>>
            BY <1>3 DEF AbortRunning, SignalFires
      <2> QED BY <1>1, <2>1, <2>2, ExchangeStopped
<1>4. ASSUME NEW c \in Commands, DeadlineFires(c) \/ IdleFires(c)
      PROVE  \A d \in Commands : ExchangeOK(d)'
      <2>1. PICK reply \in AbortReplies : StopExchange(c, "timeout", reply)
            BY <1>4 DEF DeadlineFires, IdleFires
      <2>2. /\ Running(c) /\ jobs = <<>> /\ timers' \subseteq timers
            /\ idling' \subseteq idling /\ UNCHANGED <<stage, outcome, bytes, got>>
            BY <1>4 DEF DeadlineFires, IdleFires, ExchangeOK
      <2> QED BY <1>1, <2>1, <2>2, TimedRaceOpen, ExchangeStopped
<1>5. ASSUME NEW c \in Commands, Submit(c)
      PROVE  \A d \in Commands : ExchangeOK(d)'
      BY <1>1, <1>5, ExchangeSubmitted
<1>6. ASSUME NEW c \in Commands, Answers(c) \/ YieldsChunk(c) \/ Fails(c)
      PROVE  \A d \in Commands : ExchangeOK(d)'
      BY <1>1, <1>6, ExchangeOffered
<1>7. ASSUME NEW c \in Commands, PromiseJob(c)
      PROVE  \A d \in Commands : ExchangeOK(d)'
      <2>1. CASE \/ (AdoptJob(c) \/ TailJob(c) \/ CleanupJob(c))
                    /\ UNCHANGED <<exchangeVars, sessionVars>>
                 \/ ReactJob(c) \/ CloseJob(c)
            <3>1. UNCHANGED <<stage, outcome, race, reason, bytes, got, timers, idling>>
                  BY <2>1 DEF AdoptJob, TailJob, CleanupJob, ReactJob, CloseJob,
                              exchangeVars
            <3> QED BY <1>1, <3>1, ExchangeKept
      <2>2. CASE SettleJob(c) /\ UNCHANGED <<exchangeVars, sessionVars>>
            <3>1. /\ Runs("settle", c) /\ stage' = [stage EXCEPT ![c] = "settled"]
                  /\ UNCHANGED <<outcome, race, reason, bytes, got, timers, idling>>
                  BY <2>2 DEF SettleJob, exchangeVars
            <3>2. "settle" \in (QueueJobs \cup RunnerJobs) \ {"cleanup", "close"}
                  BY DEF QueueJobs
            <3>3. stage[c] \in {"skipped", "finished"}
                  BY <3>1, <3>2, HeadInTurn DEF JobFits, Job
            <3>4. stage'[c] = "settled" /\ \A d \in Commands \ {c} : stage'[d] = stage[d]
                  BY <1>1, <3>1 DEF ChainTypes
            <3>5. ExchangeOK(c)'
                  BY <1>1, <3>1, <3>3, <3>4 DEF Forgets, ExchangeOK, Running, TimeoutMet
            <3>6. \A d \in Commands \ {c} : ExchangeOK(d)'
                  BY <1>1, <3>1, <3>4, ExchangeKept
            <3> QED BY <3>5, <3>6
      <2>3. CASE \/ SkipJob(c) /\ UNCHANGED <<exchangeVars, sessionVars>>
                 \/ RefuseToSend(c) \/ Send(c)
            BY <1>1, <2>3, ExchangeStarted
      <2>4. CASE NextChunk(c) \/ ChunkOverLimit(c) \/ StreamEnds(c)
            BY <1>1, <2>4, ExchangeStreams
      <2>5. CASE Fulfils(c) \/ AnswerOverLimit(c) \/ Throws(c)
            BY <1>1, <2>5, ExchangeEnds
      <2> QED BY <1>7, <2>1, <2>2, <2>3, <2>4, <2>5 DEF PromiseJob, QueueJob
<1> QED BY <1>2, <1>3, <1>4, <1>5, <1>6, <1>7 DEF RunnerNext, Environment

-----------------------------------------------------------------------------
(* What is on the wire *)

\* A wire with one command on it.
LEMMA SingleWire ==
    ASSUME NEW c \in Commands, OnWire(c)
    PROVE  /\ ToSet(wire) = {c} /\ Head(wire) = c /\ WireWithout(c) = <<>>
           /\ Tail(wire) = <<>> /\ Front(wire) = <<>> /\ wire # <<>>
           /\ \A d \in Commands : OnWire(d) => d = c
<1>1. /\ wire = <<c>> /\ Len(wire) = 1 /\ wire[1] = c /\ wire \in Seq(Commands)
      /\ DOMAIN wire = 1..1
      BY DEF OnWire
<1>2. ToSet(wire) = {c}
      BY <1>1 DEF ToSet
<1>3. Head(wire) = c /\ Tail(wire) = <<>> /\ wire # <<>>
      BY <1>1
<1>4. Front(wire) = <<>>
      BY <1>1 DEF Front
<1>5. \A d \in Commands : OnWire(d) => d = c
      BY <1>1 DEF OnWire
<1>6. WireWithout(c) = <<>>
      BY <1>2, <1>4 DEF WireWithout
<1> QED BY <1>2, <1>3, <1>4, <1>5, <1>6

\* Without the output of c, the wire is empty or was without it before.
LEMMA WireEmptied ==
    ASSUME SessionOK, NEW c \in Commands
    PROVE  /\ c \in ToSet(wire) => OnWire(c)
           /\ WireWithout(c) = <<>> \/ (WireWithout(c) = wire /\ ~OnWire(c))
<1>1. c \notin ToSet(<<>>)
      BY DEF ToSet
<1>2. c \in ToSet(wire) => OnWire(c)
      BY <1>1, SingleWire DEF SessionOK
<1> QED BY <1>2, SingleWire DEF WireWithout

\* The close of a session stays scheduled while other jobs run or are scheduled.
LEMMA CloseStays ==
    ASSUME jobs \in Seq(AnyRunnerJob), NEW kind, kind # "close", NEW c,
           Runs(kind, c), NEW t \in Seq(AnyRunnerJob), jobs' = Tail(jobs) \o t, NEW d
    PROVE  Among(jobs, Job("close", d)) => Among(jobs', Job("close", d))
<1>1. Tail(jobs) \in Seq(AnyRunnerJob)
      BY PoppedJob
<1>2. Job("close", d) # Job(kind, c)
      BY DEF Job
<1>3. Among(jobs, Job("close", d)) => Among(Tail(jobs), Job("close", d))
      BY <1>2, OthersStay
<1> QED BY <1>1, <1>3, Scheduled

LEMMA CloseStaysPopped ==
    ASSUME jobs \in Seq(AnyRunnerJob), NEW kind, kind # "close", NEW c,
           Runs(kind, c), NEW d,
           \/ jobs' = Tail(jobs)
           \/ \E job \in AnyRunnerJob : jobs' = Append(Tail(jobs), job)
    PROVE  Among(jobs, Job("close", d)) => Among(jobs', Job("close", d))
<1>1. Tail(jobs) \in Seq(AnyRunnerJob)
      BY PoppedJob
<1>2. CASE jobs' = Tail(jobs)
      BY <1>1, <1>2, CloseStays, ConcatEmptySeq, EmptySeq
<1>3. ASSUME NEW job \in AnyRunnerJob, jobs' = Append(Tail(jobs), job)
      PROVE  Among(jobs, Job("close", d)) => Among(jobs', Job("close", d))
      <2>1. <<job>> \in Seq(AnyRunnerJob) /\ jobs' = Tail(jobs) \o <<job>>
            BY <1>1, <1>3, AppendIsConcat
      <2> QED BY <2>1, CloseStays
<1> QED BY <1>2, <1>3

LEMMA CloseStaysAdded ==
    ASSUME jobs \in Seq(AnyRunnerJob), NEW d,
           jobs' = jobs \/ \E job \in AnyRunnerJob : jobs' = Append(jobs, job)
    PROVE  Among(jobs, Job("close", d)) => Among(jobs', Job("close", d))
<1>1. ASSUME NEW job \in AnyRunnerJob, jobs' = Append(jobs, job)
      PROVE  Among(jobs, Job("close", d)) => Among(jobs', Job("close", d))
      <2>1. <<job>> \in Seq(AnyRunnerJob) /\ jobs' = jobs \o <<job>>
            BY <1>1, AppendIsConcat
      <2> QED BY <2>1, Scheduled
<1> QED BY <1>1

\* An exchange a step does not touch.
LEMMA WireKept ==
    ASSUME NEW d \in Commands, WireOK(d),
           stage'[d] = stage[d], outcome'[d] = outcome[d], race'[d] = race[d],
           reason'[d] = reason[d], got'[d] = got[d],
           OnWire(d)' => OnWire(d),
           OnWire(d)' /\ Among(jobs, Job("close", d)) => Among(jobs', Job("close", d))
    PROVE  WireOK(d)'
<1>1. Running(d)' <=> Running(d)
      BY DEF Running
<1>2. Among(jobs, Job("close", d))' <=> Among(jobs', Job("close", d))
      BY DEF Among, Job
<1> QED BY <1>1, <1>2 DEF WireOK

\* The jobs that leave the exchanges alone, and the owner of the session.
LEMMA WireOutside ==
    ASSUME CoreInv, SessionOK,
           \/ CloseRunner \/ SessionDrops \/ Reconnects
           \/ \E s \in Signals : AbortWaiting(s)
           \/ \E c \in Commands :
                 \/ (AdoptJob(c) \/ TailJob(c) \/ CleanupJob(c))
                    /\ UNCHANGED <<exchangeVars, sessionVars>>
                 \/ ReactJob(c) \/ StreamEnds(c) \/ CloseJob(c)
    PROVE  SessionOK'
<1>1. jobs \in Seq(AnyRunnerJob) /\ accepted \in Seq(Commands)
      BY CoreTypes DEF CoreInv, RunnerTypeOK
<1>2. ASSUME UNCHANGED <<stage, outcome, race, reason, got>>,
             wire' \in {wire, <<>>},
             \A d \in Commands : wire' = wire /\ Among(jobs, Job("close", d))
                                 => Among(jobs', Job("close", d))
      PROVE  SessionOK'
      <2>1. \A d \in Commands : OnWire(d)' => OnWire(d) /\ wire' = wire
            BY <1>2 DEF OnWire
      <2>2. \A d \in Commands : OnWire(d) /\ wire' = wire => OnWire(d)'
            BY DEF OnWire
      <2>3. wire' = <<>> \/ \E d \in Commands : OnWire(d)'
            BY <1>2, <2>2 DEF SessionOK
      <2>4. \A d \in Commands : WireOK(d)'
            BY <1>2, <2>1, WireKept DEF SessionOK
      <2> QED BY <2>3, <2>4 DEF SessionOK
<1>3. CASE \/ CloseRunner \/ SessionDrops \/ Reconnects
           \/ \E s \in Signals : AbortWaiting(s)
      BY <1>2, <1>3
         DEF CloseRunner, Close, CloseSession, SessionDrops, Reconnects, AbortWaiting,
             Abort, SignalFires, queueVars, exchangeVars, sessionVars
<1>4. ASSUME NEW c \in Commands, CloseJob(c)
      PROVE  SessionOK'
      <2>1. wire' = <<>> /\ UNCHANGED <<stage, outcome, race, reason, got>>
            BY <1>4 DEF CloseJob, CloseSession, exchangeVars
      <2>2. \A d \in Commands : ~OnWire(d)'
            BY <2>1 DEF OnWire
      <2>3. \A d \in Commands : WireOK(d)'
            BY <2>1, <2>2, WireKept DEF SessionOK
      <2> QED BY <2>1, <2>3 DEF SessionOK
<1>5. ASSUME NEW c \in Commands,
             \/ (AdoptJob(c) \/ TailJob(c) \/ CleanupJob(c))
                /\ UNCHANGED <<exchangeVars, sessionVars>>
             \/ ReactJob(c) \/ StreamEnds(c)
      PROVE  SessionOK'
      <2>1. /\ wire' = wire /\ UNCHANGED <<stage, outcome, race, reason, got>>
            BY <1>5 DEF AdoptJob, TailJob, CleanupJob, ReactJob, StreamEnds,
                        exchangeVars, sessionVars
      <2>2. \E kind \in {"adopt", "tail", "cleanup", "react", "step"} : Runs(kind, c)
            BY <1>5 DEF AdoptJob, TailJob, CleanupJob, ReactJob, StreamEnds
      <2>3. \/ jobs' = Tail(jobs)
            \/ \E job \in AnyRunnerJob : jobs' = Append(Tail(jobs), job)
            <3>1. /\ Job("settle", c) \in AnyRunnerJob /\ Job("step", c) \in AnyRunnerJob
                  /\ Job("resume", c) \in AnyRunnerJob
                  BY JobTypes DEF QueueJobs, RunnerJobs
            <3>2. CASE AdoptJob(c) \/ CleanupJob(c)
                  BY <3>1, <3>2 DEF AdoptJob, CleanupJob
            <3>3. CASE ReactJob(c) \/ StreamEnds(c)
                  BY <3>1, <3>3 DEF ReactJob, StreamEnds
            <3>4. CASE TailJob(c)
                  <4>1. Runs("tail", c) /\ released' = released + 1
                        BY <3>4 DEF TailJob
                  <4>2. ASSUME released' < Len(accepted)
                        PROVE  Job("run", accepted[released' + 1]) \in AnyRunnerJob
                        <5>1. released' + 1 \in 1..Len(accepted)
                              BY <1>1, <4>1, <4>2, LenProperties DEF CoreInv, RunnerTypeOK
                        <5>2. accepted[released' + 1] \in Commands
                              BY <1>1, <5>1, ElementOfSeq
                        <5> QED BY <5>2, JobTypes DEF QueueJobs
                  <4> QED BY <3>4, <4>2 DEF TailJob
            <3> QED BY <1>5, <3>2, <3>3, <3>4
      <2> QED BY <1>1, <1>2, <2>1, <2>2, <2>3, CloseStaysPopped
<1> QED BY <1>3, <1>4, <1>5

\* A caller that submits a command puts nothing on the wire.
LEMMA WireSubmitted ==
    ASSUME CoreInv, SessionOK, NEW c \in Commands, ExchangeOK(c), Submit(c)
    PROVE  SessionOK'
<1>1. jobs \in Seq(AnyRunnerJob) /\ Job("run", c) \in AnyRunnerJob /\ ChainTypes
      /\ DOMAIN outcome = Commands
      BY CoreTypes, JobTypes DEF CoreInv, RunnerTypeOK, QueueJobs
<1>2. /\ stage[c] = "new" /\ UNCHANGED <<race, reason, got, wire>>
      /\ stage'[c] \in {"queued", "refused"}
      /\ \A d \in Commands \ {c} : stage'[d] = stage[d] /\ outcome'[d] = outcome[d]
      /\ jobs' = jobs \/ jobs' = Append(jobs, Job("run", c))
      BY <1>1 DEF Submit, Enqueue, Refuse, Accept, exchangeVars, sessionVars, ChainTypes
<1>3. \A d \in Commands : Among(jobs, Job("close", d)) => Among(jobs', Job("close", d))
      BY <1>1, <1>2, CloseStaysAdded
<1>4. \A d \in Commands : OnWire(d)' <=> OnWire(d)
      BY <1>2 DEF OnWire
<1>5. reason[c] = "none" /\ ~OnWire(c)
      BY <1>2 DEF ExchangeOK, SessionOK, WireOK
<1>6. WireOK(c)'
      BY <1>2, <1>4, <1>5 DEF SessionOK, WireOK
<1>7. \A d \in Commands \ {c} : WireOK(d)'
      BY <1>2, <1>3, <1>4, WireKept DEF SessionOK
<1>8. wire' = <<>> \/ \E d \in Commands : OnWire(d)'
      BY <1>2, <1>4 DEF SessionOK
<1> QED BY <1>6, <1>7, <1>8 DEF SessionOK

\* A polite transport that is told to stop does not claim to have an answer.
LEMMA WireStopped ==
    ASSUME CoreInv, SessionOK, Polite, NEW c \in Commands, Running(c), ExchangeOK(c),
           NEW why \in {"timeout", "abort"}, NEW reply \in AbortReplies,
           StopExchange(c, why, reply), why = "timeout" => race[c] = "none",
           UNCHANGED <<stage, outcome, got, wire>>
    PROVE  SessionOK'
<1>1. /\ race \in [Commands -> Races] /\ reason \in [Commands -> Reasons]
      /\ jobs \in Seq(AnyRunnerJob) /\ Job("react", c) \in AnyRunnerJob
      BY CoreTypes, JobTypes DEF CoreInv, RunnerTypeOK, RunnerJobs
<1>2. /\ reason'[c] = IF reason[c] = "none" THEN why ELSE reason[c]
      /\ race[c] # "none" => race'[c] = race[c]
      /\ race[c] = "none" => race'[c] \in {why, "error", "transport_timeout"}
      /\ \A d \in Commands \ {c} : race'[d] = race[d] /\ reason'[d] = reason[d]
      BY <1>1, RunnerAssumption DEF StopExchange, Polite
<1>3. jobs' = jobs \/ jobs' = Append(jobs, Job("react", c))
      BY DEF StopExchange
<1>4. \A d \in Commands : Among(jobs, Job("close", d)) => Among(jobs', Job("close", d))
      BY <1>1, <1>3, CloseStaysAdded
<1>5. \A d \in Commands : OnWire(d)' <=> OnWire(d)
      BY DEF OnWire
<1>6. WireOK(c)'
      <2>1. race[c] = "none" => reason[c] = "none"
            BY DEF ExchangeOK
      <2>2. stage'[c] = "running" /\ Running(c)' /\ got'[c] \subseteq {c}
            BY DEF Running, SessionOK, WireOK
      <2>3. reason'[c] = "timeout" => race'[c] \in {"timeout", "error", "transport_timeout"}
            BY <1>2, <2>1 DEF SessionOK, WireOK
      <2>4. ASSUME OnWire(c)
            PROVE  /\ race'[c] = "error" => reason'[c] \in {"timeout", "abort"}
                   /\ race'[c] # "answer"
                   /\ race'[c] = "limit" => Among(jobs', Job("close", c))
            BY <1>2, <1>4, <2>1, <2>4 DEF SessionOK, WireOK
      <2>5. Among(jobs, Job("close", c))' <=> Among(jobs', Job("close", c))
            BY DEF Among, Job
      <2> QED BY <1>5, <2>2, <2>3, <2>4, <2>5 DEF WireOK
<1>7. \A d \in Commands \ {c} : WireOK(d)'
      BY <1>2, <1>4, <1>5, WireKept DEF SessionOK
<1>8. wire' = <<>> \/ \E d \in Commands : OnWire(d)'
      BY <1>5 DEF SessionOK
<1> QED BY <1>6, <1>7, <1>8 DEF SessionOK

\* What comes off the wire is the command's own.
LEMMA WireOffered ==
    ASSUME CoreInv, SessionOK, NEW c \in Commands, ExchangeOK(c),
           Answers(c) \/ YieldsChunk(c) \/ Fails(c)
    PROVE  SessionOK'
<1>1. /\ race \in [Commands -> Races] /\ got \in [Commands -> SUBSET Commands]
      /\ jobs \in Seq(AnyRunnerJob) /\ Job("react", c) \in AnyRunnerJob
      BY CoreTypes, JobTypes DEF CoreInv, RunnerTypeOK, RunnerJobs
<1>2. Running(c) /\ UNCHANGED <<stage, outcome, reason>>
      BY DEF Answers, YieldsChunk, Fails, Connected
<1>3. c \in ToSet(wire) => OnWire(c)
      BY WireEmptied
<1>4. ASSUME NEW what, Offer(c, what)
      PROVE  /\ \A d \in Commands \ {c} : race'[d] = race[d]
             /\ race'[c] = IF race[c] = "none" THEN what ELSE race[c]
             /\ jobs' = jobs \/ jobs' = Append(jobs, Job("react", c))
      BY <1>1, <1>4 DEF Offer
<1>5. /\ \A d \in Commands \ {c} : race'[d] = race[d]
      /\ race[c] # "none" => race'[c] = race[c]
      /\ race[c] = "none" => race'[c] \in {"answer", "chunk", "error", "transport_timeout"}
      /\ jobs' = jobs \/ jobs' = Append(jobs, Job("react", c))
      BY <1>4 DEF Answers, YieldsChunk, Fails
<1>6. ASSUME NEW n, Receive(c, n), OnWire(c)
      PROVE  (\A d \in Commands \ {c} : got'[d] = got[d]) /\ got'[c] \subseteq {c}
      <2>1. Head(wire) = c /\ got[c] \subseteq {c}
            BY <1>6, SingleWire DEF SessionOK, WireOK
      <2> QED BY <1>1, <1>6, <2>1 DEF Receive
<1>7. (\A d \in Commands \ {c} : got'[d] = got[d]) /\ got'[c] \subseteq {c}
      BY <1>3, <1>6 DEF Answers, YieldsChunk, Fails, Connected, SessionOK, WireOK
<1>8. wire' = <<>> \/ (wire' = wire /\ (OnWire(c) =>
                                         race'[c] \in {"chunk", "transport_timeout"}))
      <2>1. CASE Answers(c)
            BY <1>3, <2>1, SingleWire DEF Answers, Connected
      <2>2. CASE YieldsChunk(c)
            BY <1>4, <2>2 DEF YieldsChunk, sessionVars
      <2>3. CASE Fails(c) /\ wire' = WireWithout(c)
            BY <2>3, WireEmptied
      <2>4. CASE Fails(c) /\ wire' = wire /\ Offer(c, "transport_timeout")
            BY <1>4, <2>4 DEF Fails
      <2> QED BY <2>1, <2>2, <2>3, <2>4 DEF Fails
<1>9. \A d \in Commands : Among(jobs, Job("close", d)) => Among(jobs', Job("close", d))
      BY <1>1, <1>5, CloseStaysAdded
<1>10. \A d \in Commands : OnWire(d)' => OnWire(d) /\ wire' = wire
       BY <1>8 DEF OnWire
<1>11. WireOK(c)'
       <2>1. race[c] = "none" => reason[c] = "none"
             BY DEF ExchangeOK
       <2>2. Running(c)' /\ stage'[c] = "running"
             BY <1>2 DEF Running
       <2>3. reason'[c] = "timeout" => race'[c] \in {"timeout", "error", "transport_timeout"}
             BY <1>2, <1>5, <2>1 DEF SessionOK, WireOK
       <2>4. OnWire(c)' => race'[c] \in {"chunk", "transport_timeout"}
             BY <1>8, <1>10 DEF OnWire
       <2> QED BY <1>7, <2>2, <2>3, <2>4 DEF WireOK
<1>12. \A d \in Commands \ {c} : WireOK(d)'
       BY <1>2, <1>5, <1>7, <1>9, <1>10, WireKept DEF SessionOK
<1>13. wire' = <<>> \/ \E d \in Commands : OnWire(d)'
       BY <1>8 DEF SessionOK, OnWire
<1> QED BY <1>11, <1>12, <1>13 DEF SessionOK

\* Nothing of an earlier command is left when the next one goes out.
LEMMA WireStarted ==
    ASSUME CoreInv, SessionOK, NEW c \in Commands, ExchangeOK(c),
           \/ SkipJob(c) /\ UNCHANGED <<exchangeVars, sessionVars>>
           \/ RefuseToSend(c) \/ Send(c)
    PROVE  SessionOK'
<1>1. stage \in [Commands -> Stages] /\ DOMAIN outcome = Commands /\ wire \in Seq(Commands)
      BY DEF CoreInv, RunnerTypeOK
<1>2. "run" \in (QueueJobs \cup RunnerJobs) \ {"cleanup", "close"}
      BY DEF QueueJobs
<1>3. Runs("run", c)
      BY DEF SkipJob, RefuseToSend, FinishAtOnceJob, Send, StartJob
<1>4. /\ stage[c] = "queued"
      /\ \A d \in Commands : stage[d] \in {"running", "finished"} => d = c
      BY <1>2, <1>3, HeadInTurn DEF JobFits, Job
<1>5. wire = <<>>
      BY <1>4 DEF SessionOK, WireOK
<1>6. race[c] = "none" /\ reason[c] = "none"
      BY <1>4 DEF ExchangeOK
<1>7. /\ UNCHANGED <<race, reason, got>>
      /\ \A d \in Commands \ {c} : stage'[d] = stage[d] /\ outcome'[d] = outcome[d]
      BY <1>1 DEF SkipJob, RefuseToSend, FinishAtOnceJob, Send, StartJob, exchangeVars
<1>8. wire' = <<>> \/ (wire' = <<c>> /\ stage'[c] = "running")
      <2>1. Append(<<>>, c) = <<c>>
            OBVIOUS
      <2> QED BY <1>1, <1>5, <2>1
              DEF SkipJob, RefuseToSend, FinishAtOnceJob, Send, StartJob, sessionVars
<1>9. \A d \in Commands \ {c} : ~OnWire(d)'
      <2>1. \A d \in Commands \ {c} : <<d>> # <<c>> /\ <<d>> # <<>>
            OBVIOUS
      <2> QED BY <1>8, <2>1 DEF OnWire
<1>10. OnWire(c)' => stage'[c] = "running"
       BY <1>8 DEF OnWire
<1>11. WireOK(c)'
       BY <1>6, <1>7, <1>10 DEF SessionOK, WireOK
<1>12. \A d \in Commands \ {c} : WireOK(d)'
       BY <1>7, <1>9, WireKept DEF SessionOK
<1>13. wire' = <<>> \/ \E d \in Commands : OnWire(d)'
       BY <1>8 DEF OnWire
<1> QED BY <1>11, <1>12, <1>13 DEF SessionOK

\* A command settles off the wire: its close, if it needed one, has run.
LEMMA WireSettled ==
    ASSUME CoreInv, SessionOK, NEW c \in Commands,
           SettleJob(c) /\ UNCHANGED <<exchangeVars, sessionVars>>
    PROVE  SessionOK'
<1>1. /\ Runs("settle", c) /\ stage' = [stage EXCEPT ![c] = "settled"]
      /\ UNCHANGED <<outcome, race, reason, got, wire>>
      /\ jobs \in Seq(AnyRunnerJob) /\ ChainTypes
      BY CoreTypes DEF CoreInv, SettleJob, exchangeVars, sessionVars
<1>2. "settle" \in (QueueJobs \cup RunnerJobs) \ {"cleanup", "close"}
      BY DEF QueueJobs
<1>3. /\ stage[c] \in {"skipped", "finished"}
      /\ \A d \in Commands : stage[d] \in {"running", "finished"} => d = c
      /\ \A job : Among(Tail(jobs), job) => job.kind \in {"cleanup", "react"}
      BY <1>1, <1>2, HeadInTurn DEF JobFits, Job
<1>4. ~Among(jobs, Job("close", c))
      <2>1. Job("close", c) # Job("settle", c)
            BY DEF Job
      <2>2. ~Among(Tail(jobs), Job("close", c))
            BY <1>3 DEF Job
      <2> QED BY <1>1, <2>1, <2>2, OthersStay
<1>5. wire = <<>> /\ \A d \in Commands : ~OnWire(d)'
      <2>1. ~OnWire(c)
            BY <1>3, <1>4 DEF SessionOK, WireOK
      <2>2. \A d \in Commands : ~OnWire(d)
            BY <1>3, <2>1 DEF SessionOK, WireOK
      <2> QED BY <1>1, <2>2 DEF SessionOK, OnWire
<1>6. stage'[c] = "settled" /\ \A d \in Commands \ {c} : stage'[d] = stage[d]
      BY <1>1 DEF ChainTypes
<1>7. WireOK(c)'
      BY <1>1, <1>3, <1>5, <1>6 DEF SessionOK, WireOK, Running
<1>8. \A d \in Commands \ {c} : WireOK(d)'
      BY <1>1, <1>5, <1>6, WireKept DEF SessionOK
<1> QED BY <1>1, <1>5, <1>7, <1>8 DEF SessionOK

\* #collectStream goes on, or stops and asks for a close.
LEMMA WireStreams ==
    ASSUME CoreInv, SessionOK, NEW c \in Commands,
           NextChunk(c) \/ ChunkOverLimit(c)
    PROVE  SessionOK'
<1>1. /\ race \in [Commands -> Races] /\ reason \in [Commands -> Reasons]
      /\ jobs \in Seq(AnyRunnerJob) /\ Job("react", c) \in AnyRunnerJob
      BY CoreTypes, JobTypes DEF CoreInv, RunnerTypeOK, RunnerJobs
<1>2. "step" \in (QueueJobs \cup RunnerJobs) \ {"cleanup", "close"}
      BY DEF RunnerJobs
<1>3. Runs("step", c) /\ race[c] = "chunk"
      BY DEF NextChunk, ChunkOverLimit
<1>4. /\ Running(c)
      /\ \A d \in Commands : stage[d] \in {"running", "finished"} => d = c
      BY <1>2, <1>3, HeadInTurn DEF JobFits, Job, Running
<1>5. /\ UNCHANGED <<stage, outcome, got>>
      /\ \A d \in Commands \ {c} : race'[d] = race[d] /\ reason'[d] = reason[d]
      BY <1>1 DEF NextChunk, ChunkOverLimit, sessionVars
<1>6. \A d \in Commands : OnWire(d)' => OnWire(d) /\ wire' = wire
      <2>1. wire' \in {wire, <<>>}
            <3>1. wire' \in {wire, WireWithout(c)}
                  BY DEF NextChunk, ChunkOverLimit, sessionVars
            <3> QED BY <3>1, WireEmptied
      <2> QED BY <2>1 DEF OnWire
<1>7. reason[c] # "timeout"
      BY <1>3, <1>4 DEF SessionOK, WireOK
<1>8. /\ reason'[c] # "timeout"
      /\ OnWire(c)' => \/ race'[c] \in {"none", "abort", "chunk", "transport_timeout"}
                       \/ race'[c] = "limit" /\ Among(jobs', Job("close", c))
      <2>1. CASE NextChunk(c)
            <3>1. reason' = reason
                  BY <2>1 DEF NextChunk
            <3>2. \/ race'[c] \in {"none", "abort", "chunk", "transport_timeout"}
                  \/ wire' = WireWithout(c)
                  BY <1>1, <1>3, <2>1 DEF NextChunk
            <3>3. wire' = WireWithout(c) => ~OnWire(c)'
                  BY <1>6, WireEmptied DEF OnWire
            <3> QED BY <1>7, <3>1, <3>2, <3>3
      <2>2. CASE ChunkOverLimit(c)
            <3>1. Among(jobs', Job("close", c))
                  BY <2>2, StepCore
            <3> QED BY <1>1, <1>7, <2>2, <3>1 DEF ChunkOverLimit, LimitReason
      <2> QED BY <2>1, <2>2
<1>9. WireOK(c)'
      <2>1. Running(c)' /\ stage'[c] = "running"
            BY <1>4, <1>5 DEF Running
      <2>2. Among(jobs, Job("close", c))' <=> Among(jobs', Job("close", c))
            BY DEF Among, Job
      <2> QED BY <1>5, <1>8, <2>1, <2>2 DEF SessionOK, WireOK
<1>10. \A d \in Commands \ {c} : ~OnWire(d)'
       BY <1>4, <1>6 DEF SessionOK, WireOK
<1>11. \A d \in Commands \ {c} : WireOK(d)'
       BY <1>5, <1>6, <1>10, WireKept DEF SessionOK
<1>12. wire' = <<>> \/ \E d \in Commands : OnWire(d)'
       <2>1. wire' \in {wire, WireWithout(c)}
             BY DEF NextChunk, ChunkOverLimit, sessionVars
       <2>2. CASE wire' = wire
             <3>1. \A d \in Commands : OnWire(d) => OnWire(d)'
                   BY <2>2 DEF OnWire
             <3> QED BY <2>2, <3>1 DEF SessionOK
       <2>3. CASE wire' # wire
             BY <2>1, <2>3, WireEmptied
       <2> QED BY <2>2, <2>3
<1> QED BY <1>9, <1>11, <1>12 DEF SessionOK

\* An exchange that ends with its output on the wire has a close scheduled.
LEMMA WireEnds ==
    ASSUME CoreInv, SessionOK, Forgets, NEW c \in Commands, ExchangeOK(c),
           Fulfils(c) \/ AnswerOverLimit(c) \/ Throws(c)
    PROVE  SessionOK'
<1>1. /\ Running(c) /\ stage'[c] = "finished"
      /\ \A d \in Commands \ {c} : /\ stage'[d] = stage[d] /\ outcome'[d] = outcome[d]
                                   /\ reason'[d] = reason[d]
      /\ race[c] # "answer" /\ reason[c] = "timeout" => outcome'[c] = "timeout"
      /\ reason'[c] = "timeout" => reason[c] = "timeout"
      BY ExchangeEnds
<1>2. /\ Runs("resume", c)
      /\ race[c] \in {"answer", "error", "transport_timeout", "timeout", "abort",
                                  "limit"}
      BY ResumeEnds
<1>3. "resume" \in (QueueJobs \cup RunnerJobs) \ {"cleanup", "close"}
      BY DEF RunnerJobs
<1>4. /\ \A d \in Commands : stage[d] \in {"running", "finished"} => d = c
      /\ \A job : Among(Tail(jobs), job) => job.kind \in {"cleanup", "react"}
      BY <1>2, <1>3, HeadInTurn
<1>5. UNCHANGED <<race, got, wire>>
      BY DEF Fulfils, AnswerOverLimit, Throws, Ends, sessionVars
<1>6. \A d \in Commands : OnWire(d)' <=> OnWire(d)
      BY <1>5 DEF OnWire
<1>7. ASSUME OnWire(c)
      PROVE  Among(jobs', Job("close", c))
      <2>1. race[c] # "answer" /\ (race[c] = "error" => reason[c] \in {"timeout", "abort"})
            BY <1>1, <1>7 DEF SessionOK, WireOK
      <2>2. race[c] # "limit"
            <3>1. Job("close", c) # Job("resume", c) /\ jobs \in Seq(AnyRunnerJob)
                  BY CoreTypes DEF CoreInv, Job
            <3>2. ~Among(Tail(jobs), Job("close", c))
                  BY <1>4 DEF Job
            <3>3. ~Among(jobs, Job("close", c))
                  BY <1>2, <3>1, <3>2, OthersStay
            <3> QED BY <1>7, <3>3 DEF SessionOK, WireOK
      <2>3. Throws(c)
            BY <2>1 DEF Fulfils, AnswerOverLimit, Oversized
      <2> DEFINE verdict == Verdict(c, race[c], reason[c])
      <2>4. race[c] = "abort" \/ reason[c] = "abort" => c \in aborted
            BY DEF ExchangeOK
      <2>5. /\ verdict \in RunnerResults /\ verdict \in {"timeout", "aborted"}
            /\ CatchClose(c, verdict) = <<Job("close", c)>>
            BY <1>2, <2>1, <2>2, <2>4, VerdictOf DEF IsTimeout
      <2>6. Ends(c, verdict, <<Job("close", c)>>)
            BY <2>3, <2>5 DEF Throws
      <2>7. <<Job("close", c)>> # <<>>
            OBVIOUS
      <2> HIDE DEF verdict
      <2> QED BY <1>2, <2>5, <2>6, <2>7, EndsCore
<1>8. WireOK(c)'
      <2>1. ~Running(c)'
            BY <1>1 DEF Running
      <2>2. Among(jobs, Job("close", c))' <=> Among(jobs', Job("close", c))
            BY DEF Among, Job
      <2>3. reason'[c] = "timeout" => outcome'[c] = "timeout"
            BY <1>1 DEF SessionOK, WireOK
      <2> QED BY <1>1, <1>5, <1>6, <1>7, <2>1, <2>2, <2>3 DEF SessionOK, WireOK
<1>9. \A d \in Commands \ {c} : ~OnWire(d)'
      BY <1>4, <1>6 DEF SessionOK, WireOK
<1>10. \A d \in Commands \ {c} : WireOK(d)'
       BY <1>1, <1>5, <1>9, WireKept DEF SessionOK
<1>11. wire' = <<>> \/ \E d \in Commands : OnWire(d)'
       BY <1>5, <1>6 DEF SessionOK
<1> QED BY <1>8, <1>10, <1>11 DEF SessionOK

\* Every step keeps the wire and its command together.
LEMMA SessionStep ==
    ASSUME CoreInv, \A d \in Commands : ExchangeOK(d), Polite, SessionOK, RunnerNext
    PROVE  SessionOK'
<1>1. Forgets
      BY NothingForgotten DEF CoreInv
<1>2. CASE \/ CloseRunner \/ SessionDrops \/ Reconnects
           \/ \E s \in Signals : AbortWaiting(s)
      BY <1>2, WireOutside
<1>3. ASSUME NEW s \in Signals, NEW c \in Commands, AbortRunning(s, c)
      PROVE  SessionOK'
      <2>1. PICK reply \in AbortReplies : StopExchange(c, "abort", reply)
            BY <1>3 DEF AbortRunning
      <2>2. Running(c) /\ UNCHANGED <<stage, outcome, got, wire>>
            BY <1>3 DEF AbortRunning, SignalFires, sessionVars
      <2> QED BY <2>1, <2>2, WireStopped
<1>4. ASSUME NEW c \in Commands, DeadlineFires(c) \/ IdleFires(c)
      PROVE  SessionOK'
      <2>1. PICK reply \in AbortReplies : StopExchange(c, "timeout", reply)
            BY <1>4 DEF DeadlineFires, IdleFires
      <2>2. Running(c) /\ jobs = <<>> /\ UNCHANGED <<stage, outcome, got, wire>>
            BY <1>4 DEF DeadlineFires, IdleFires, ExchangeOK, sessionVars
      <2> QED BY <2>1, <2>2, TimedRaceOpen, WireStopped
<1>5. ASSUME NEW c \in Commands, Submit(c)
      PROVE  SessionOK'
      BY <1>5, WireSubmitted
<1>6. ASSUME NEW c \in Commands, Answers(c) \/ YieldsChunk(c) \/ Fails(c)
      PROVE  SessionOK'
      BY <1>6, WireOffered
<1>7. ASSUME NEW c \in Commands, PromiseJob(c)
      PROVE  SessionOK'
      <2>1. CASE \/ (AdoptJob(c) \/ TailJob(c) \/ CleanupJob(c))
                    /\ UNCHANGED <<exchangeVars, sessionVars>>
                 \/ ReactJob(c) \/ StreamEnds(c) \/ CloseJob(c)
            BY <2>1, WireOutside
      <2>2. CASE \/ SkipJob(c) /\ UNCHANGED <<exchangeVars, sessionVars>>
                 \/ RefuseToSend(c) \/ Send(c)
            BY <2>2, WireStarted
      <2>3. CASE SettleJob(c) /\ UNCHANGED <<exchangeVars, sessionVars>>
            BY <2>3, WireSettled
      <2>4. CASE NextChunk(c) \/ ChunkOverLimit(c)
            BY <2>4, WireStreams
      <2>5. CASE Fulfils(c) \/ AnswerOverLimit(c) \/ Throws(c)
            BY <1>1, <2>5, WireEnds
      <2> QED BY <1>7, <2>1, <2>2, <2>3, <2>4, <2>5 DEF PromiseJob, QueueJob
<1> QED BY <1>2, <1>3, <1>4, <1>5, <1>6, <1>7 DEF RunnerNext, Environment

-----------------------------------------------------------------------------
(* The runner keeps its invariant *)

LEMMA RunnerStarts == ASSUME RunnerInit PROVE RunnerInv
<1>1. jobs = <<>> /\ accepted = <<>> /\ wire = <<>>
      /\ Len(jobs) = 0 /\ Len(accepted) = 0
      BY DEF RunnerInit, QueueInit
<1>2. RunnerTypeOK
      <2>1. /\ stage \in [Commands -> Stages]
            /\ outcome \in [Commands -> RunnerResults \cup {"none", "closed", "invalid"}]
            /\ race \in [Commands -> Races] /\ reason \in [Commands -> Reasons]
            BY DEF RunnerInit, QueueInit, Stages, Races, Reasons
      <2>2. bytes \in [Commands -> Nat]
            BY DEF RunnerInit
      <2>3. got \in [Commands -> SUBSET Commands]
            BY DEF RunnerInit
      <2>4. /\ accepted \in Seq(Commands) /\ wire \in Seq(Commands)
            /\ jobs \in Seq([kind : QueueJobs \cup RunnerJobs, cmd : Commands])
            BY <1>1, EmptySeq
      <2>5. released \in 0..Len(accepted)
            BY <1>1 DEF RunnerInit, QueueInit
      <2>6. /\ closed \in BOOLEAN /\ signalled \subseteq Signals
            /\ listening \subseteq Commands /\ aborted \subseteq Commands
            /\ adopted \subseteq Commands /\ timers \subseteq Commands
            /\ idling \subseteq Commands /\ open \in BOOLEAN
            BY DEF RunnerInit, QueueInit
      <2> QED BY <2>1, <2>2, <2>3, <2>4, <2>5, <2>6 DEF RunnerTypeOK
<1>3. ChainOK /\ JobsOK(jobs)
      BY <1>1 DEF RunnerInit, QueueInit, ChainOK, JobsOK
<1>4. PendingOK(jobs)
      BY DEF RunnerInit, QueueInit, PendingOK, Running
<1>5. \A c \in Commands : ExchangeOK(c)
      <2> SUFFICES ASSUME NEW c \in Commands PROVE ExchangeOK(c)
          OBVIOUS
      <2>1. /\ stage[c] = "new" /\ outcome[c] = "none" /\ race[c] = "none"
            /\ reason[c] = "none" /\ bytes[c] = 0 /\ got[c] = {}
            /\ c \notin timers /\ c \notin idling /\ c \notin aborted
            BY DEF RunnerInit, QueueInit
      <2> QED BY <2>1, RunnerAssumption DEF ExchangeOK
<1>6. SessionOK
      <2>1. \A c \in Commands : ~OnWire(c)
            BY <1>1 DEF OnWire
      <2> QED BY <1>1, <2>1 DEF RunnerInit, QueueInit, SessionOK, WireOK
<1> QED BY <1>2, <1>3, <1>4, <1>5, <1>6 DEF RunnerInv

\* The chain, its jobs and the types survive every step.
LEMMA CoreStep ==
    ASSUME CoreInv, \A d \in Commands : ExchangeOK(d), RunnerNext
    PROVE  CoreInv'
<1>1. \A d \in timers \cup idling : Running(d)
      BY DEF ExchangeOK, CoreInv, RunnerTypeOK
<1> QED BY <1>1, SubmitCore, OutsideCore, PromiseCore DEF RunnerNext, Environment

LEMMA RunnerSteps == ASSUME RunnerInv, [RunnerNext]_runnerVars PROVE RunnerInv'
<1>1. CoreInv /\ (\A d \in Commands : ExchangeOK(d)) /\ (Polite => SessionOK)
      BY DEF RunnerInv, CoreInv
<1>2. CASE RunnerNext
      <2>1. CoreInv' /\ \A d \in Commands : ExchangeOK(d)'
            BY <1>1, <1>2, CoreStep, ExchangeStep
      <2>2. Polite => SessionOK'
            BY <1>1, <1>2, SessionStep
      <2> QED BY <2>1, <2>2 DEF RunnerInv, CoreInv, Polite
<1>3. CASE UNCHANGED runnerVars
      <2>1. UNCHANGED <<closed, signalled, accepted, released, listening, aborted,
                        adopted, stage, outcome, jobs, race, reason, timers, idling,
                        bytes, got, open, wire>>
            BY <1>3 DEF runnerVars, queueVars, exchangeVars, sessionVars
      <2>2. RunnerTypeOK' /\ ChainOK' /\ JobsOK(jobs)' /\ PendingOK(jobs)'
            BY <1>1, <2>1, JobsStill DEF CoreInv, RunnerTypeOK
      <2>3. \A d \in Commands : ExchangeOK(d)'
            BY <1>1, <2>1 DEF ExchangeOK, Running, TimeoutMet
      <2>4. Polite => SessionOK'
            <3>1. \A d \in Commands : OnWire(d)' <=> OnWire(d)
                  BY <2>1 DEF OnWire
            <3>2. SessionOK => \A d \in Commands : WireOK(d)'
                  BY <2>1, <3>1, WireKept DEF SessionOK
            <3> QED BY <1>1, <2>1, <3>1, <3>2 DEF SessionOK
      <2> QED BY <2>2, <2>3, <2>4 DEF RunnerInv, Polite
<1> QED BY <1>2, <1>3

\* Whatever callers, the transport, the router and the timers do, in any order,
\* the runner stays in the states RunnerInv describes.
THEOREM RunnerInvariance == RunnerSpec => []RunnerInv
<1>1. RunnerInit => RunnerInv
      BY RunnerStarts
<1>2. RunnerInv /\ [RunnerNext]_runnerVars => RunnerInv'
      BY RunnerSteps
<1> QED BY <1>1, <1>2, PTL DEF RunnerSpec

-----------------------------------------------------------------------------
(* What the runner promises, for every value of the constants *)

\* Every variable of #executeFramed, its queue and its session has its type.
THEOREM RunnerTypes == RunnerSpec => []RunnerTypeOK
<1>1. RunnerInv => RunnerTypeOK
      BY DEF RunnerInv
<1> QED BY <1>1, RunnerInvariance, PTL

\* The job of #invalidateSession runs while the command it was scheduled for
\* still has the turn: no other command's session is closed under it.
THEOREM ClosesSpare == RunnerSpec => []CloseSparesOthers
<1>1. RunnerInv => CloseSparesOthers
      <2> SUFFICES ASSUME RunnerInv, jobs # <<>>, Head(jobs).kind = "close",
                          NEW d \in Commands, Running(d)
                   PROVE  d = Head(jobs).cmd
          BY DEF CloseSparesOthers
      <2>1. CoreInv /\ jobs \in Seq(AnyRunnerJob)
            BY CoreTypes DEF RunnerInv, CoreInv
      <2>2. 1 \in 1..Len(jobs) /\ jobs[1] = Head(jobs)
            BY <2>1, HeadTailProperties, EmptySeq
      <2>3. HasTurn(Head(jobs).cmd)
            BY <2>2 DEF RunnerInv, JobsOK
      <2>4. HasTurn(d)
            BY <2>1, ActiveHasTurn DEF Running
      <2> QED BY <2>3, <2>4 DEF HasTurn
<1> QED BY <1>1, RunnerInvariance, PTL

\* What the catch block of #executeFramed reports is true: a timeout only after a
\* deadline, an abort only after the caller's, and never an oversized response.
THEOREM VerdictsTrue == RunnerSpec => []VerdictIsTrue
<1>1. RunnerInv => VerdictIsTrue
      BY DEF RunnerInv, VerdictIsTrue, ExchangeOK, TimeoutMet, Answered, Running
<1> QED BY <1>1, RunnerInvariance, PTL

\* The finally of #executeFramed and that of #collectStream disarm every deadline
\* with the exchange it belongs to.
THEOREM TimersCleared == RunnerSpec => []NoTimerLeft
<1>1. RunnerInv => NoTimerLeft
      BY DEF RunnerInv, NoTimerLeft, RunnerTypeOK, ExchangeOK
<1> QED BY <1>1, RunnerInvariance, PTL

\* Of a transport that does not resolve a call it was told to abort, a deadline
\* that passed on the wire is what the caller is told.
THEOREM TimeoutsAreHard == ASSUME Polite PROVE RunnerSpec => []TimeoutIsHard
<1>1. RunnerInv => TimeoutIsHard
      BY DEF RunnerInv, SessionOK, WireOK, TimeoutIsHard, Answered, Running
<1> QED BY <1>1, RunnerInvariance, PTL

\* Of such a transport, a command is handed its own output and nobody else's,
\* however many exchanges were abandoned on the sessions before.
THEOREM AnswersAreOwn == ASSUME Polite PROVE RunnerSpec => []AnswerIsOwn
<1>1. RunnerInv => AnswerIsOwn
      BY DEF RunnerInv, SessionOK, WireOK, AnswerIsOwn
<1> QED BY <1>1, RunnerInvariance, PTL

\* Of such a transport, the close nobody awaits has taken the command's output
\* off the wire by the time its caller sees the outcome.
THEOREM AnsweredLeftTheWire ==
    ASSUME Polite PROVE RunnerSpec => []AnsweredIsOffTheWire
<1>1. RunnerInv => AnsweredIsOffTheWire
      <2> SUFFICES ASSUME RunnerInv, NEW c \in Commands, Answered(c), c \in ToSet(wire)
                   PROVE  FALSE
          BY DEF AnsweredIsOffTheWire
      <2>1. c \notin ToSet(<<>>)
            BY DEF ToSet
      <2>2. SessionOK /\ OnWire(c)
            BY <2>1, SingleWire DEF RunnerInv, SessionOK
      <2> QED BY <2>2 DEF SessionOK, WireOK, Answered
<1> QED BY <1>1, RunnerInvariance, PTL

-----------------------------------------------------------------------------
(* The queue's own jobs among the promise jobs *)

\* Induction over the naturals, about a set instead of a predicate.
LEMMA SetInduction ==
    ASSUME NEW T \in SUBSET Nat, 0 \in T, \A n \in T : n + 1 \in T
    PROVE  T = Nat
<1> DEFINE U == Nat \ T
<1> SUFFICES ASSUME U # {}
             PROVE  FALSE
    OBVIOUS
<1>1. PICK x \in U : \A y \in U : ~ (<<y, x>> \in OpToRel(<, Nat))
      <2>1. U \subseteq Nat
            OBVIOUS
      <2> HIDE DEF U
      <2> QED BY <2>1, NatLessThanWellFounded, WFMin
<1>2. x # 0 /\ x \in Nat
      OBVIOUS
<1>3. x - 1 \in Nat /\ x - 1 < x /\ (x - 1) + 1 = x
      BY <1>2
<1>4. <<x - 1, x>> \in OpToRel(<, Nat)
      BY <1>2, <1>3 DEF OpToRel
<1>5. x - 1 \notin U
      BY <1>1, <1>4
<1> QED BY <1>2, <1>3, <1>5

\* f filters the first n of s.
Filters(f, s, n) ==
    f = [m \in 0..n |-> IF m = 0 THEN <<>>
                        ELSE IF IsQueueJob(s[m]) THEN Append(f[m - 1], s[m])
                        ELSE f[m - 1]]

\* Every sequence has a filtering of its first k elements.
LEMMA FilterExists ==
    ASSUME NEW s, NEW k \in Nat PROVE \E f : Filters(f, s, k)
<1> DEFINE T == {n \in Nat : \E f : Filters(f, s, n)}
<1>1. 0 \in T
      <2> DEFINE f == [m \in 0..0 |-> <<>>]
      <2>1. \A m \in 0..0 : m = 0
            OBVIOUS
      <2>2. Filters(f, s, 0)
            BY <2>1 DEF Filters
      <2> QED BY <2>2
<1>2. ASSUME NEW n \in T
      PROVE  n + 1 \in T
      <2>1. PICK f : Filters(f, s, n)
            OBVIOUS
      <2>2. n \in Nat
            OBVIOUS
      <2> DEFINE g == [m \in 0..n + 1 |->
                         IF m = 0 THEN <<>>
                         ELSE IF IsQueueJob(s[m]) THEN Append(f[m - 1], s[m])
                         ELSE f[m - 1]]
      <2>3. \A m \in 1..n + 1 : m - 1 \in 0..n /\ m - 1 \in 0..n + 1 /\ m \in 0..n + 1
            BY <2>2
      <2>4. \A m \in 0..n : g[m] = f[m]
            <3>1. \A m \in 0..n : m \in 0..n + 1
                  BY <2>2
            <3> QED BY <2>1, <3>1 DEF Filters
      <2>5. \A m \in 1..n + 1 : g[m - 1] = f[m - 1]
            BY <2>3, <2>4
      <2>6. \A m \in 0..n + 1 : m # 0 => m \in 1..n + 1
            BY <2>2
      <2>7. Filters(g, s, n + 1)
            BY <2>5, <2>6 DEF Filters
      <2> HIDE DEF g
      <2> QED BY <2>2, <2>7
<1>3. T = Nat
      <2> HIDE DEF T
      <2>1. T \in SUBSET Nat
            BY DEF T
      <2> QED BY <1>1, <1>2, <2>1, SetInduction
<1> QED BY <1>3

\* Sequences that agree up to n are filtered alike up to n.
LEMMA FilterAgrees ==
    ASSUME NEW s, NEW t, NEW k \in Nat, NEW l \in Nat, NEW n \in Nat,
           n <= k, n <= l, \A m \in 1..n : s[m] = t[m],
           NEW f, NEW g, Filters(f, s, k), Filters(g, t, l)
    PROVE  f[n] = g[n]
<1> DEFINE T == {m \in Nat : m <= n => f[m] = g[m]}
<1>1. 0 \in T
      BY DEF Filters
<1>2. ASSUME NEW m \in T
      PROVE  m + 1 \in T
      <2>1. m \in Nat /\ m + 1 \in Nat /\ (m + 1) - 1 = m /\ m + 1 # 0
            OBVIOUS
      <2>2. CASE m + 1 <= n
            <3>1. m + 1 \in 0..k /\ m + 1 \in 0..l /\ s[m + 1] = t[m + 1] /\ m <= n
                  BY <2>1, <2>2
            <3>2. f[m] = g[m]
                  BY <3>1
            <3>3. f[m + 1] = IF IsQueueJob(s[m + 1]) THEN Append(f[m], s[m + 1]) ELSE f[m]
                  BY <2>1, <3>1 DEF Filters
            <3>4. g[m + 1] = IF IsQueueJob(t[m + 1]) THEN Append(g[m], t[m + 1]) ELSE g[m]
                  BY <2>1, <3>1 DEF Filters
            <3> QED BY <2>1, <3>1, <3>2, <3>3, <3>4
      <2> QED BY <2>1, <2>2
<1>3. T = Nat
      <2> HIDE DEF T
      <2>1. T \in SUBSET Nat
            BY DEF T
      <2> QED BY <1>1, <1>2, <2>1, SetInduction
<1> QED BY <1>3

\* QueuePart is the last value of the function that filters the whole sequence.
LEMMA PartIsFiltered ==
    ASSUME NEW s, Len(s) \in Nat
    PROVE  \E f : Filters(f, s, Len(s)) /\ QueuePart(s) = f[Len(s)]
<1> DEFINE f == CHOOSE f : Filters(f, s, Len(s))
<1>1. Filters(f, s, Len(s))
      BY FilterExists
<1>2. QueuePart(s) = f[Len(s)]
      BY DEF QueuePart, Filters
<1> QED BY <1>1, <1>2

\* One more job: it is the queue's own or it is not.
LEMMA PartOfAppend ==
    ASSUME NEW s \in Seq(AnyRunnerJob), NEW j \in AnyRunnerJob
    PROVE  QueuePart(Append(s, j)) =
              IF IsQueueJob(j) THEN Append(QueuePart(s), j) ELSE QueuePart(s)
<1>1. PICK t : t = Append(s, j)
      OBVIOUS
<1>2. PICK n \in Nat : n = Len(s)
      BY LenProperties
<1>3. /\ Len(t) = n + 1 /\ n + 1 \in Nat /\ n <= n /\ n <= n + 1
      /\ \A m \in 1..n : t[m] = s[m]
      /\ t[n + 1] = j
      BY <1>1, <1>2, AppendProperties
<1>4. PICK f : Filters(f, s, n) /\ QueuePart(s) = f[n]
      BY <1>2, PartIsFiltered
<1>5. PICK g : Filters(g, t, n + 1) /\ QueuePart(t) = g[n + 1]
      BY <1>3, PartIsFiltered
<1>6. g[n] = f[n]
      <2>1. \A m \in 1..n : s[m] = t[m]
            BY <1>3
      <2>2. f[n] = g[n]
            BY <1>3, <1>4, <1>5, <2>1, FilterAgrees
      <2> QED BY <2>2
<1>7. g[n + 1] = IF IsQueueJob(t[n + 1]) THEN Append(g[n], t[n + 1]) ELSE g[n]
      <2>1. n + 1 \in 0..n + 1 /\ n + 1 # 0 /\ (n + 1) - 1 = n
            OBVIOUS
      <2> QED BY <1>5, <2>1 DEF Filters
<1> QED BY <1>1, <1>3, <1>4, <1>5, <1>6, <1>7

\* No jobs, none of the queue.
LEMMA PartOfNone == QueuePart(<<>>) = <<>>
<1>1. Len(<<>>) = 0
      OBVIOUS
<1>2. PICK f : Filters(f, <<>>, 0) /\ QueuePart(<<>>) = f[0]
      BY <1>1, PartIsFiltered
<1> QED BY <1>2 DEF Filters

\* It holds the queue's own jobs only.
LEMMA PartType ==
    ASSUME NEW s \in Seq(AnyRunnerJob)
    PROVE  QueuePart(s) \in Seq(AnyQueueJob)
<1>1. Len(s) \in Nat /\ \A m \in 1..Len(s) : s[m] \in AnyRunnerJob
      BY LenProperties, ElementOfSeq
<1>2. PICK f : Filters(f, s, Len(s)) /\ QueuePart(s) = f[Len(s)]
      BY <1>1, PartIsFiltered
<1> DEFINE T == {m \in Nat : m <= Len(s) => f[m] \in Seq(AnyQueueJob)}
<1>3. 0 \in T
      BY <1>1, <1>2 DEF Filters
<1>4. ASSUME NEW m \in T
      PROVE  m + 1 \in T
      <2>1. m \in Nat /\ m + 1 \in Nat /\ (m + 1) - 1 = m /\ m + 1 # 0
            OBVIOUS
      <2>2. CASE m + 1 <= Len(s)
            <3>1. m + 1 \in 0..Len(s) /\ m + 1 \in 1..Len(s) /\ m <= Len(s)
                  BY <1>1, <2>1, <2>2
            <3>2. f[m] \in Seq(AnyQueueJob)
                  BY <3>1
            <3>3. f[m + 1] = IF IsQueueJob(s[m + 1]) THEN Append(f[m], s[m + 1]) ELSE f[m]
                  BY <1>2, <2>1, <3>1 DEF Filters
            <3>4. s[m + 1] \in AnyRunnerJob
                  BY <1>1, <3>1
            <3>5. IsQueueJob(s[m + 1]) => s[m + 1] \in AnyQueueJob
                  BY <3>4 DEF IsQueueJob, AnyRunnerJob, AnyQueueJob
            <3>6. f[m + 1] \in Seq(AnyQueueJob)
                  BY <3>2, <3>3, <3>5, AppendProperties
            <3> QED BY <2>1, <3>6
      <2> QED BY <2>1, <2>2
<1>5. T = Nat
      <2> HIDE DEF T
      <2>1. T \in SUBSET Nat
            BY DEF T
      <2> QED BY <1>3, <1>4, <2>1, SetInduction
<1> QED BY <1>1, <1>2, <1>5

\* What is filtered in two pieces is filtered in one.
LEMMA PartOfConcat ==
    ASSUME NEW s \in Seq(AnyRunnerJob), NEW u \in Seq(AnyRunnerJob)
    PROVE  QueuePart(s \o u) = QueuePart(s) \o QueuePart(u)
<1> DEFINE T == {n \in Nat : \A t \in Seq(AnyRunnerJob) :
                    Len(t) = n => QueuePart(s \o t) = QueuePart(s) \o QueuePart(t)}
<1>1. 0 \in T
      <2> SUFFICES ASSUME NEW t \in Seq(AnyRunnerJob), Len(t) = 0
                   PROVE  QueuePart(s \o t) = QueuePart(s) \o QueuePart(t)
          OBVIOUS
      <2>1. t = <<>>
            BY EmptySeq
      <2>2. s \o t = s /\ QueuePart(s) \o <<>> = QueuePart(s)
            BY <2>1, PartType, ConcatEmptySeq
      <2> QED BY <2>1, <2>2, PartOfNone
<1>2. ASSUME NEW n \in T
      PROVE  n + 1 \in T
      <2>1. n \in Nat /\ n + 1 \in Nat /\ n + 1 # 0
            OBVIOUS
      <2>2. ASSUME NEW t \in Seq(AnyRunnerJob), Len(t) = n + 1
            PROVE  QueuePart(s \o t) = QueuePart(s) \o QueuePart(t)
            <3>1. t # <<>>
                  BY <2>1, <2>2
            <3>2. PICK r \in Seq(AnyRunnerJob), j \in AnyRunnerJob : t = Append(r, j)
                  BY <3>1, SequenceEmptyOrAppend
            <3>3. Len(r) = n
                  BY <2>1, <2>2, <3>2, AppendProperties, LenProperties
            <3>4. QueuePart(s \o r) = QueuePart(s) \o QueuePart(r)
                  BY <3>3
            <3> HIDE DEF T
            <3>5. s \o t = Append(s \o r, j) /\ s \o r \in Seq(AnyRunnerJob)
                  BY <3>2, ConcatProperties
            <3>6. /\ QueuePart(s) \in Seq(AnyQueueJob) /\ QueuePart(r) \in Seq(AnyQueueJob)
                  /\ IsQueueJob(j) => j \in AnyQueueJob
                  BY PartType DEF IsQueueJob, AnyRunnerJob, AnyQueueJob
            <3>7. CASE IsQueueJob(j)
                  <4>1. QueuePart(t) = Append(QueuePart(r), j)
                        BY <3>2, <3>7, PartOfAppend
                  <4>2. QueuePart(s \o t) = Append(QueuePart(s) \o QueuePart(r), j)
                        BY <3>4, <3>5, <3>7, PartOfAppend
                  <4> QED BY <3>6, <3>7, <4>1, <4>2
            <3>8. CASE ~IsQueueJob(j)
                  BY <3>2, <3>4, <3>5, <3>8, PartOfAppend
            <3> QED BY <3>7, <3>8
      <2> QED BY <2>1, <2>2
<1>3. T = Nat
      <2> HIDE DEF T
      <2>1. T \in SUBSET Nat
            BY DEF T
      <2> QED BY <1>1, <1>2, <2>1, SetInduction
<1>4. Len(u) \in Nat
      BY LenProperties
<1> QED BY <1>3, <1>4

\* A single job is kept if it is the queue's own.
LEMMA PartOfOne ==
    ASSUME NEW j \in AnyRunnerJob
    PROVE  QueuePart(<<j>>) = IF IsQueueJob(j) THEN <<j>> ELSE <<>>
<1>1. <<j>> = Append(<<>>, j) /\ <<>> \in Seq(AnyRunnerJob)
      OBVIOUS
<1> QED BY <1>1, PartOfAppend, PartOfNone

\* The job at the head leaves both queues, or leaves unseen.
LEMMA PartOfTail ==
    ASSUME jobs \in Seq(AnyRunnerJob), NEW kind, NEW c, Runs(kind, c),
           Job(kind, c) \in AnyRunnerJob
    PROVE  /\ IsQueueJob(Job(kind, c)) =>
                 /\ QueuePart(jobs) # <<>>
                 /\ Head(QueuePart(jobs)) = Job(kind, c)
                 /\ Tail(QueuePart(jobs)) = QueuePart(Tail(jobs))
           /\ ~IsQueueJob(Job(kind, c)) => QueuePart(Tail(jobs)) = QueuePart(jobs)
<1> DEFINE j == Job(kind, c)
<1>1. Tail(jobs) \in Seq(AnyRunnerJob) /\ jobs = <<j>> \o Tail(jobs) /\ <<j>> \in Seq(AnyRunnerJob)
      BY DEF Runs
<1>2. QueuePart(Tail(jobs)) \in Seq(AnyQueueJob)
      BY <1>1, PartType
<1> HIDE DEF j
<1>3. QueuePart(jobs) = (IF IsQueueJob(j) THEN <<j>> ELSE <<>>) \o QueuePart(Tail(jobs))
      <2>1. QueuePart(<<j>> \o Tail(jobs)) = QueuePart(<<j>>) \o QueuePart(Tail(jobs))
            BY <1>1, PartOfConcat
      <2>2. QueuePart(<<j>>) = IF IsQueueJob(j) THEN <<j>> ELSE <<>>
            BY PartOfOne DEF j
      <2> QED BY <1>1, <2>1, <2>2
<1>4. IsQueueJob(j) => j \in AnyQueueJob
      BY DEF IsQueueJob, AnyRunnerJob, AnyQueueJob, j
<1>5. CASE IsQueueJob(j)
      <2>1. QueuePart(jobs) = <<j>> \o QueuePart(Tail(jobs))
            BY <1>3, <1>5
      <2> HIDE DEF j
      <2>2. /\ <<j>> \o QueuePart(Tail(jobs)) # <<>>
            /\ Head(<<j>> \o QueuePart(Tail(jobs))) = j
            /\ Tail(<<j>> \o QueuePart(Tail(jobs))) = QueuePart(Tail(jobs))
            BY <1>2, <1>4, <1>5
      <2> QED BY <1>5, <2>1, <2>2 DEF j
<1>6. CASE ~IsQueueJob(j)
      <2>1. <<>> \o QueuePart(Tail(jobs)) = QueuePart(Tail(jobs))
            BY <1>2, ConcatEmptySeq
      <2> QED BY <1>3, <1>6, <2>1 DEF j
<1> QED BY <1>5, <1>6 DEF j

-----------------------------------------------------------------------------
(* The stages and outcomes the queue has seen *)

\* Only a call that is turned away before the queue is asked ends "invalid".
InvalidOK == \A c \in Commands : outcome[c] = "invalid" => stage[c] = "refused"

\* Every step of the runner keeps this, and is a step of the queue or none.
QueueSees == InvalidOK' /\ (Queue!QueueNext \/ UNCHANGED Queue!queueVars)

\* Nothing the queue has seen changes unless a stage or an outcome does.
LEMMA SeenSame ==
    ASSUME InvalidOK, UNCHANGED <<stage, outcome>>
    PROVE  InvalidOK' /\ SeenStage' = SeenStage /\ SeenOutcome' = SeenOutcome
<1>1. InvalidOK'
      BY DEF InvalidOK
<1>2. SeenStage' = SeenStage
      BY DEF SeenStage, Seen
<1>3. SeenOutcome' = SeenOutcome
      BY DEF SeenOutcome, Seen
<1> QED BY <1>1, <1>2, <1>3

\* A call that is under way moves on, and may get an outcome on the way.
LEMMA SeenMoves ==
    ASSUME RunnerTypeOK, InvalidOK, NEW c \in Commands, stage[c] # "refused",
           NEW st, stage' = [stage EXCEPT ![c] = st],
           NEW r, r # "invalid", outcome' = [outcome EXCEPT ![c] = r]
    PROVE  /\ InvalidOK'
           /\ SeenStage[c] = stage[c]
           /\ SeenStage' = [SeenStage EXCEPT ![c] = st]
           /\ SeenOutcome' = [SeenOutcome EXCEPT ![c] = r]
<1>1. /\ stage' = [d \in Commands |-> IF d = c THEN st ELSE stage[d]]
      /\ outcome' = [d \in Commands |-> IF d = c THEN r ELSE outcome[d]]
      BY DEF RunnerTypeOK
<1>2. outcome[c] # "invalid"
      BY DEF InvalidOK
<1>3. InvalidOK'
      BY <1>1 DEF InvalidOK
<1>4. SeenStage[c] = stage[c]
      BY <1>2 DEF SeenStage, Seen
<1>5. SeenStage' = [SeenStage EXCEPT ![c] = st]
      BY <1>1, <1>2 DEF SeenStage, Seen
<1>6. SeenOutcome' = [SeenOutcome EXCEPT ![c] = r]
      BY <1>1, <1>2 DEF SeenOutcome, Seen
<1> QED BY <1>3, <1>4, <1>5, <1>6

\* A call under way moves on without an outcome.
LEMMA SeenAdvances ==
    ASSUME RunnerTypeOK, InvalidOK, NEW c \in Commands, stage[c] # "refused",
           NEW st, stage' = [stage EXCEPT ![c] = st], UNCHANGED outcome
    PROVE  /\ InvalidOK'
           /\ SeenStage[c] = stage[c]
           /\ SeenStage' = [SeenStage EXCEPT ![c] = st]
           /\ SeenOutcome' = SeenOutcome
<1>1. stage' = [d \in Commands |-> IF d = c THEN st ELSE stage[d]]
      BY DEF RunnerTypeOK
<1>2. outcome[c] # "invalid"
      BY DEF InvalidOK
<1>3. InvalidOK'
      BY <1>1, <1>2 DEF InvalidOK
<1>4. SeenStage[c] = stage[c]
      BY <1>2 DEF SeenStage, Seen
<1>5. SeenStage' = [SeenStage EXCEPT ![c] = st]
      BY <1>1, <1>2 DEF SeenStage, Seen
<1>6. SeenOutcome' = SeenOutcome
      BY DEF SeenOutcome, Seen
<1> QED BY <1>3, <1>4, <1>5, <1>6

\* The job at the head, if it is the queue's own, is the queue's head too.
LEMMA HeadOfPart ==
    ASSUME RunnerTypeOK, NEW kind \in QueueJobs, NEW c \in Commands, Runs(kind, c)
    PROVE  /\ Queue!Runs(kind, c)
           /\ Tail(QueuePart(jobs)) = QueuePart(Tail(jobs))
           /\ Tail(jobs) \in Seq(AnyRunnerJob)
<1>1. Job(kind, c) \in AnyRunnerJob /\ IsQueueJob(Job(kind, c))
      BY JobTypes DEF IsQueueJob, Job
<1>2. jobs \in Seq(AnyRunnerJob)
      BY CoreTypes
<1>3. Tail(jobs) \in Seq(AnyRunnerJob)
      BY <1>2, PoppedJob
<1> QED BY <1>1, <1>2, <1>3, PartOfTail DEF Queue!Runs, Queue!Job, Job

\* A job of the runner's own leaves, and arrives, unseen.
LEMMA OwnJobUnseen ==
    ASSUME RunnerTypeOK, NEW kind \in RunnerJobs, NEW c \in Commands, Runs(kind, c)
    PROVE  /\ QueuePart(Tail(jobs)) = QueuePart(jobs)
           /\ Tail(jobs) \in Seq(AnyRunnerJob)
<1>1. Job(kind, c) \in AnyRunnerJob /\ ~IsQueueJob(Job(kind, c))
      BY JobTypes DEF IsQueueJob, Job, QueueJobs, RunnerJobs
<1>2. jobs \in Seq(AnyRunnerJob)
      BY CoreTypes
<1> QED BY <1>1, <1>2, PartOfTail, PoppedJob

\* A job that is scheduled is scheduled in the queue too, if it is its own.
LEMMA PartGrows ==
    ASSUME NEW s \in Seq(AnyRunnerJob), NEW c \in Commands,
           NEW kind \in QueueJobs \cup RunnerJobs
    PROVE  QueuePart(Append(s, Job(kind, c))) =
              IF kind \in QueueJobs THEN Append(QueuePart(s), Job(kind, c))
              ELSE QueuePart(s)
<1>1. Job(kind, c) \in AnyRunnerJob /\ (IsQueueJob(Job(kind, c)) <=> kind \in QueueJobs)
      BY JobTypes DEF IsQueueJob, Job
<1> QED BY <1>1, PartOfAppend

-----------------------------------------------------------------------------
(* The steps *)

\* What the queue does not see.
LEMMA Unnoticed ==
    ASSUME InvalidOK, QueuePart(jobs') = QueuePart(jobs),
           UNCHANGED <<closed, signalled, accepted, released, listening, aborted,
                       adopted, stage, outcome>>
    PROVE  QueueSees
<1>1. InvalidOK' /\ SeenStage' = SeenStage /\ SeenOutcome' = SeenOutcome
      BY SeenSame
<1> QED BY <1>1 DEF QueueSees, Queue!queueVars

\* A submitted call is turned away by #dispatch, or is the queue's to judge.
LEMMA SubmitSeen ==
    ASSUME RunnerTypeOK, InvalidOK, NEW c \in Commands, ExchangeOK(c), Submit(c)
    PROVE  QueueSees
<1>1. stage[c] = "new"
      BY DEF Submit, Enqueue, Refuse, Accept
<1>2. CASE Refuse(c, "invalid")
      <2>1. /\ stage' = [d \in Commands |-> IF d = c THEN "refused" ELSE stage[d]]
            /\ outcome' = [d \in Commands |-> IF d = c THEN "invalid" ELSE outcome[d]]
            /\ UNCHANGED <<closed, signalled, accepted, released, listening, aborted,
                           adopted, jobs>>
            BY <1>2 DEF Refuse, RunnerTypeOK
      <2>2. InvalidOK'
            BY <2>1 DEF InvalidOK
      <2>3. outcome[c] = "none"
            BY <1>1 DEF ExchangeOK
      <2>4. SeenStage' = SeenStage
            BY <1>1, <2>1, <2>3 DEF SeenStage, Seen
      <2>5. SeenOutcome' = SeenOutcome
            BY <2>1, <2>3 DEF SeenOutcome, Seen
      <2> QED BY <2>1, <2>2, <2>4, <2>5 DEF QueueSees, Queue!queueVars
<1>3. CASE Enqueue(c)
      <2>1. ASSUME NEW why \in {"closed", "aborted"}, Refuse(c, why)
            PROVE  InvalidOK' /\ Queue!Refuse(c, why)
            <3>1. /\ InvalidOK' /\ SeenStage[c] = "new"
                  /\ SeenStage' = [SeenStage EXCEPT ![c] = "refused"]
                  /\ SeenOutcome' = [SeenOutcome EXCEPT ![c] = why]
                  BY <1>1, <2>1, SeenMoves DEF Refuse
            <3> QED BY <2>1, <3>1 DEF Refuse, Queue!Refuse
      <2>2. ASSUME Accept(c)
            PROVE  InvalidOK' /\ Queue!Accept(c)
            <3>1. /\ InvalidOK' /\ SeenStage[c] = "new"
                  /\ SeenStage' = [SeenStage EXCEPT ![c] = "queued"]
                  /\ SeenOutcome' = SeenOutcome
                  BY <1>1, <2>2, SeenAdvances DEF Accept
            <3>2. QueuePart(Append(jobs, Job("run", c))) =
                     Append(QueuePart(jobs), Job("run", c))
                  BY CoreTypes, PartGrows DEF QueueJobs
            <3> QED BY <2>2, <3>1, <3>2 DEF Accept, Queue!Accept, Queue!Job, Job
      <2> QED BY <1>3, <2>1, <2>2
              DEF Enqueue, QueueSees, Queue!QueueNext, Queue!Enqueue
<1> QED BY <1>2, <1>3 DEF Submit

\* Jobs of the queue are its own.
LEMMA QueueJobSeen ==
    ASSUME CoreInv, InvalidOK, NEW c \in Commands, QueueJob(c)
    PROVE  QueueSees
<1>0. RunnerTypeOK
      BY DEF CoreInv
<1> DEFINE kinds == (QueueJobs \cup RunnerJobs) \ {"cleanup", "close"}
<1>1. {"run", "adopt", "settle", "tail"} \subseteq kinds /\ "cleanup" \in QueueJobs
      /\ {"run", "adopt", "settle", "tail"} \subseteq QueueJobs
      BY DEF QueueJobs
<1> SUFFICES InvalidOK' /\ Queue!QueueJob(c)
    BY DEF QueueSees, Queue!QueueNext
<1>2. CASE SkipJob(c)
      <2>1. /\ Queue!Runs("run", c) /\ Tail(QueuePart(jobs)) = QueuePart(Tail(jobs))
            /\ Tail(jobs) \in Seq(AnyRunnerJob)
            BY <1>0, <1>1, <1>2, HeadOfPart DEF SkipJob
      <2>2. stage[c] = "queued"
            BY <1>1, <1>2, HeadInTurn DEF SkipJob, JobFits, Job
      <2>3. /\ InvalidOK'
            /\ SeenStage' = [SeenStage EXCEPT ![c] = "skipped"]
            /\ SeenOutcome' = [SeenOutcome EXCEPT ![c] = "aborted"]
            BY <1>0, <1>2, <2>2, SeenMoves DEF SkipJob
      <2>4. QueuePart(jobs') = Append(Tail(QueuePart(jobs)), Job("adopt", c))
            BY <1>1, <1>2, <2>1, PartGrows DEF SkipJob
      <2> QED BY <1>2, <2>1, <2>3, <2>4
              DEF SkipJob, Queue!QueueJob, Queue!SkipJob, Queue!Job, Job
<1>3. CASE AdoptJob(c)
      <2>1. /\ Queue!Runs("adopt", c) /\ Tail(QueuePart(jobs)) = QueuePart(Tail(jobs))
            /\ Tail(jobs) \in Seq(AnyRunnerJob)
            BY <1>0, <1>1, <1>3, HeadOfPart DEF AdoptJob
      <2>2. stage[c] \in {"skipped", "running", "finished"}
            BY <1>1, <1>3, HeadInTurn DEF AdoptJob, JobFits, Job
      <2>3. InvalidOK' /\ SeenStage' = SeenStage /\ SeenOutcome' = SeenOutcome
            BY <1>3, SeenSame DEF AdoptJob
      <2>4. SeenStage[c] = stage[c]
            BY <2>2 DEF InvalidOK, SeenStage, Seen
      <2>5. QueuePart(Append(Tail(jobs), Job("settle", c))) =
               Append(Tail(QueuePart(jobs)), Job("settle", c))
            BY <1>1, <2>1, PartGrows
      <2>6. IF SeenStage[c] = "running"
            THEN /\ adopted' = adopted \cup {c}
                 /\ QueuePart(jobs') = Tail(QueuePart(jobs))
            ELSE /\ QueuePart(jobs') = Append(Tail(QueuePart(jobs)), Job("settle", c))
                 /\ UNCHANGED adopted
            BY <1>3, <2>1, <2>4, <2>5 DEF AdoptJob
      <2> QED BY <1>3, <2>1, <2>3, <2>6
              DEF AdoptJob, Queue!QueueJob, Queue!AdoptJob, Queue!Job, Job
<1>4. CASE SettleJob(c)
      <2>1. /\ Queue!Runs("settle", c) /\ Tail(QueuePart(jobs)) = QueuePart(Tail(jobs))
            /\ Tail(jobs) \in Seq(AnyRunnerJob)
            BY <1>0, <1>1, <1>4, HeadOfPart DEF SettleJob
      <2>2. stage[c] \in {"skipped", "finished"}
            BY <1>1, <1>4, HeadInTurn DEF SettleJob, JobFits, Job
      <2>3. /\ InvalidOK'
            /\ SeenStage' = [SeenStage EXCEPT ![c] = "settled"]
            /\ SeenOutcome' = SeenOutcome
            BY <1>0, <1>4, <2>2, SeenAdvances DEF SettleJob
      <2>4. QueuePart(jobs') =
               Tail(QueuePart(jobs)) \o <<Job("tail", c), Job("cleanup", c)>>
            <3>1. Job("tail", c) \in AnyRunnerJob /\ Job("cleanup", c) \in AnyRunnerJob
                  BY <1>1, JobTypes
            <3>2. /\ <<Job("tail", c), Job("cleanup", c)>> \in Seq(AnyRunnerJob)
                  /\ <<Job("tail", c)>> \in Seq(AnyRunnerJob)
                  /\ <<Job("tail", c), Job("cleanup", c)>> =
                        Append(<<Job("tail", c)>>, Job("cleanup", c))
                  BY <3>1
            <3>3. QueuePart(<<Job("tail", c)>>) = <<Job("tail", c)>>
                  BY <1>1, <3>1, PartOfOne DEF IsQueueJob, Job
            <3>4. QueuePart(<<Job("tail", c), Job("cleanup", c)>>) =
                     <<Job("tail", c), Job("cleanup", c)>>
                  <4>1. QueuePart(Append(<<Job("tail", c)>>, Job("cleanup", c))) =
                           Append(QueuePart(<<Job("tail", c)>>), Job("cleanup", c))
                        BY <1>1, <3>2, PartGrows
                  <4> QED BY <3>2, <3>3, <4>1
            <3> QED BY <1>4, <2>1, <3>2, <3>4, PartOfConcat DEF SettleJob
      <2> QED BY <1>4, <2>1, <2>3, <2>4
              DEF SettleJob, Queue!QueueJob, Queue!SettleJob, Queue!Job, Job
<1>5. CASE TailJob(c)
      <2>1. /\ Queue!Runs("tail", c) /\ Tail(QueuePart(jobs)) = QueuePart(Tail(jobs))
            /\ Tail(jobs) \in Seq(AnyRunnerJob)
            BY <1>0, <1>1, <1>5, HeadOfPart DEF TailJob
      <2>2. InvalidOK' /\ SeenStage' = SeenStage /\ SeenOutcome' = SeenOutcome
            BY <1>5, SeenSame DEF TailJob
      <2>3. ASSUME released' < Len(accepted)
            PROVE  QueuePart(Append(Tail(jobs), Job("run", accepted[released' + 1]))) =
                      Append(Tail(QueuePart(jobs)), Job("run", accepted[released' + 1]))
            <3>1. accepted[released' + 1] \in Commands
                  BY <1>0, <1>5, <2>3, CoreTypes, ElementOfSeq DEF TailJob, RunnerTypeOK
            <3> QED BY <1>1, <2>1, <3>1, PartGrows
      <2>4. QueuePart(jobs') =
               IF released' < Len(accepted)
               THEN Append(Tail(QueuePart(jobs)), Job("run", accepted[released' + 1]))
               ELSE Tail(QueuePart(jobs))
            BY <1>5, <2>1, <2>3 DEF TailJob
      <2> QED BY <1>5, <2>1, <2>2, <2>4
              DEF TailJob, Queue!QueueJob, Queue!TailJob, Queue!Job, Job
<1>6. CASE CleanupJob(c)
      <2>1. /\ Queue!Runs("cleanup", c) /\ Tail(QueuePart(jobs)) = QueuePart(Tail(jobs))
            BY <1>0, <1>1, <1>6, HeadOfPart DEF CleanupJob
      <2>2. InvalidOK' /\ SeenStage' = SeenStage /\ SeenOutcome' = SeenOutcome
            BY <1>6, SeenSame DEF CleanupJob
      <2> QED BY <1>6, <2>1, <2>2 DEF CleanupJob, Queue!QueueJob, Queue!CleanupJob
<1> QED BY <1>2, <1>3, <1>4, <1>5, <1>6 DEF QueueJob

\* The turn comes: the task starts, or is refused on the spot.
LEMMA RunSeen ==
    ASSUME CoreInv, InvalidOK, NEW c \in Commands, RefuseToSend(c) \/ Send(c)
    PROVE  QueueSees
<1>0. RunnerTypeOK
      BY DEF CoreInv
<1>1. Runs("run", c)
      BY DEF RefuseToSend, Send, FinishAtOnceJob, StartJob
<1>2. /\ Queue!Runs("run", c) /\ Tail(QueuePart(jobs)) = QueuePart(Tail(jobs))
      /\ Tail(jobs) \in Seq(AnyRunnerJob)
      BY <1>0, <1>1, HeadOfPart DEF QueueJobs
<1>3. stage[c] = "queued"
      BY <1>1, HeadInTurn DEF QueueJobs, JobFits, Job
<1>4. QueuePart(Append(Tail(jobs), Job("adopt", c))) =
         Append(Tail(QueuePart(jobs)), Job("adopt", c))
      BY <1>2, PartGrows DEF QueueJobs
<1>5. CASE Send(c)
      <2>1. StartJob(c)
            BY <1>5 DEF Send
      <2>2. /\ InvalidOK'
            /\ SeenStage' = [SeenStage EXCEPT ![c] = "running"]
            /\ SeenOutcome' = SeenOutcome
            BY <1>0, <1>3, <2>1, SeenAdvances DEF StartJob
      <2>3. Queue!StartJob(c)
            BY <1>2, <1>4, <2>1, <2>2 DEF StartJob, Queue!StartJob, Queue!Job, Job
      <2> QED BY <2>2, <2>3 DEF QueueSees, Queue!QueueNext
<1>6. CASE RefuseToSend(c)
      <2>1. PICK r \in {"error", "session_closed"} : FinishAtOnceJob(c, r)
            BY <1>6 DEF RefuseToSend
      <2>2. /\ InvalidOK'
            /\ SeenStage' = [SeenStage EXCEPT ![c] = "finished"]
            /\ SeenOutcome' = [SeenOutcome EXCEPT ![c] = r]
            BY <1>0, <1>3, <2>1, SeenMoves DEF FinishAtOnceJob
      <2>3. Queue!FinishAtOnceJob(c, r) /\ r \in RunnerResults
            BY <1>2, <1>4, <2>1, <2>2
               DEF FinishAtOnceJob, Queue!FinishAtOnceJob, Queue!Job, Job, RunnerResults
      <2> QED BY <2>2, <2>3 DEF QueueSees, Queue!QueueNext
<1> QED BY <1>5, <1>6

\* The closes asked for are not the queue's jobs.
LEMMA ClosesUnseen ==
    ASSUME NEW c \in Commands,
           NEW closes \in {<<>>, <<Job("close", c)>>,
                           <<Job("close", c), Job("close", c)>>}
    PROVE  closes \in Seq(AnyRunnerJob) /\ QueuePart(closes) = <<>>
<1>1. Job("close", c) \in AnyRunnerJob /\ ~IsQueueJob(Job("close", c))
      /\ "close" \in RunnerJobs /\ "close" \notin QueueJobs
      BY JobTypes DEF RunnerJobs, QueueJobs, IsQueueJob, Job
<1>2. /\ <<Job("close", c)>> \in Seq(AnyRunnerJob)
      /\ <<Job("close", c), Job("close", c)>> \in Seq(AnyRunnerJob)
      /\ <<Job("close", c), Job("close", c)>> =
            Append(<<Job("close", c)>>, Job("close", c))
      BY <1>1
<1>3. QueuePart(<<Job("close", c)>>) = <<>>
      BY <1>1, PartOfOne
<1>4. QueuePart(Append(<<Job("close", c)>>, Job("close", c))) = <<>>
      BY <1>1, <1>2, <1>3, PartGrows
<1>5. <<>> \in Seq(AnyRunnerJob) /\ QueuePart(<<>>) = <<>>
      BY PartOfNone
<1>6. CASE closes = <<>>
      BY <1>5, <1>6
<1>7. CASE closes = <<Job("close", c)>>
      BY <1>2, <1>3, <1>7
<1>8. CASE closes = <<Job("close", c), Job("close", c)>>
      BY <1>2, <1>4, <1>8
<1> QED BY <1>6, <1>7, <1>8

\* The end of #executeFramed is the task's promise that settles.
LEMMA EndsSeen ==
    ASSUME CoreInv, InvalidOK, NEW c \in Commands, ExchangeOK(c),
           Fulfils(c) \/ AnswerOverLimit(c) \/ Throws(c)
    PROVE  QueueSees
<1>0. RunnerTypeOK
      BY DEF CoreInv
<1>1. Runs("resume", c)
      BY ResumeEnds
<1>2. PICK r \in RunnerResults,
           closes \in {<<>>, <<Job("close", c)>>, <<Job("close", c), Job("close", c)>>} :
              Ends(c, r, closes)
      BY ResumeEnds
<1>3. closed' \in {closed, TRUE}
      BY DEF Fulfils, AnswerOverLimit, Throws
<1>4. stage[c] = "running" /\ c \in adopted
      BY <1>1, HeadInTurn DEF RunnerJobs, JobFits, Job
<1>5. QueuePart(Tail(jobs)) = QueuePart(jobs) /\ Tail(jobs) \in Seq(AnyRunnerJob)
      BY <1>0, <1>1, OwnJobUnseen DEF RunnerJobs
<1>6. /\ InvalidOK' /\ SeenStage[c] = "running"
      /\ SeenStage' = [SeenStage EXCEPT ![c] = "finished"]
      /\ SeenOutcome' = [SeenOutcome EXCEPT ![c] = r]
      <2>1. r # "invalid"
            BY DEF RunnerResults
      <2> QED BY <1>0, <1>2, <1>4, <2>1, SeenMoves DEF Ends
<1>7. QueuePart(jobs') = QueuePart(jobs) \o <<Job("settle", c)>>
      <2>1. jobs' = (Tail(jobs) \o closes) \o <<Job("settle", c)>>
            BY <1>2, <1>4 DEF Ends, SettleReaction
      <2>2. closes \in Seq(AnyRunnerJob) /\ QueuePart(closes) = <<>>
            BY ClosesUnseen
      <2>3. /\ <<Job("settle", c)>> \in Seq(AnyRunnerJob)
            /\ QueuePart(<<Job("settle", c)>>) = <<Job("settle", c)>>
            <3>1. Job("settle", c) \in AnyRunnerJob /\ IsQueueJob(Job("settle", c))
                  BY JobTypes DEF QueueJobs, IsQueueJob, Job
            <3>2. <<Job("settle", c)>> \in Seq(AnyRunnerJob)
                  BY <3>1
            <3> QED BY <3>1, <3>2, PartOfOne
      <2>4. QueuePart(Tail(jobs) \o closes) = QueuePart(jobs)
            <3>1. QueuePart(Tail(jobs) \o closes) = QueuePart(jobs) \o <<>>
                  BY <1>5, <2>2, PartOfConcat
            <3>2. QueuePart(jobs) \in Seq(AnyQueueJob)
                  BY <1>0, CoreTypes, PartType
            <3> QED BY <3>1, <3>2, ConcatEmptySeq
      <2>5. Tail(jobs) \o closes \in Seq(AnyRunnerJob)
            BY <1>5, <2>2, ConcatProperties
      <2> QED BY <2>1, <2>3, <2>4, <2>5, PartOfConcat
<1>8. Queue!TaskSettles(c, r)
      BY <1>2, <1>3, <1>4, <1>6, <1>7
         DEF Ends, Queue!TaskSettles, Queue!SettleReaction, Queue!Job, Job
<1> QED BY <1>6, <1>8 DEF QueueSees, Queue!QueueNext

\* What callers do besides submitting: aborts and the owner's close.
LEMMA CallersSeen ==
    ASSUME RunnerTypeOK, InvalidOK,
           \/ CloseRunner
           \/ \E s \in Signals : AbortWaiting(s) \/ \E c \in Commands : AbortRunning(s, c)
    PROVE  QueueSees
<1>1. CASE CloseRunner
      <2>1. InvalidOK' /\ SeenStage' = SeenStage /\ SeenOutcome' = SeenOutcome
            BY <1>1, SeenSame DEF CloseRunner, Close
      <2>2. QueuePart(jobs') = QueuePart(jobs)
            BY <1>1 DEF CloseRunner, Close
      <2>3. Queue!Close
            BY <1>1, <2>1, <2>2 DEF CloseRunner, Close, Queue!Close
      <2> QED BY <2>1, <2>3 DEF QueueSees, Queue!QueueNext
<1>2. ASSUME NEW s \in Signals, SignalFires(s), QueuePart(jobs') = QueuePart(jobs)
      PROVE  QueueSees
      <2>1. InvalidOK' /\ SeenStage' = SeenStage /\ SeenOutcome' = SeenOutcome
            BY <1>2, SeenSame DEF SignalFires
      <2>2. Queue!Abort(s)
            BY <1>2, <2>1
               DEF SignalFires, ListenersOf, Queue!Abort, Queue!SignalFires,
                   Queue!ListenersOf
      <2> QED BY <2>1, <2>2 DEF QueueSees, Queue!QueueNext
<1>3. ASSUME NEW s \in Signals, AbortWaiting(s)
      PROVE  QueueSees
      <2>1. SignalFires(s) /\ jobs' = jobs
            BY <1>3 DEF AbortWaiting, Abort
      <2> QED BY <1>2, <2>1
<1>4. ASSUME NEW s \in Signals, NEW c \in Commands, AbortRunning(s, c)
      PROVE  QueueSees
      <2>1. SignalFires(s) /\ jobs' \in {jobs, Append(jobs, Job("react", c))}
            BY <1>4 DEF AbortRunning, StopExchange
      <2>2. QueuePart(Append(jobs, Job("react", c))) = QueuePart(jobs)
            BY CoreTypes, PartGrows DEF QueueJobs, RunnerJobs
      <2> QED BY <1>2, <2>1, <2>2
<1> QED BY <1>1, <1>3, <1>4

\* The transport, the router and the timers: at most a react job is added.
LEMMA OutsideUnseen ==
    ASSUME RunnerTypeOK, InvalidOK,
           \/ SessionDrops \/ Reconnects
           \/ \E c \in Commands : \/ Answers(c) \/ YieldsChunk(c) \/ Fails(c)
                                  \/ DeadlineFires(c) \/ IdleFires(c)
    PROVE  QueueSees
<1>1. CASE SessionDrops \/ Reconnects
      <2>1. /\ QueuePart(jobs') = QueuePart(jobs)
            /\ UNCHANGED <<closed, signalled, accepted, released, listening, aborted,
                           adopted, stage, outcome>>
            BY <1>1 DEF SessionDrops, Reconnects, queueVars
      <2> QED BY <2>1, Unnoticed
<1>2. ASSUME NEW c \in Commands, \/ Answers(c) \/ YieldsChunk(c) \/ Fails(c)
                                 \/ DeadlineFires(c) \/ IdleFires(c)
      PROVE  QueueSees
      <2>1. /\ jobs' \in {jobs, Append(jobs, Job("react", c))}
            /\ UNCHANGED <<closed, signalled, accepted, released, listening, aborted,
                           adopted, stage, outcome>>
            BY <1>2 DEF Answers, YieldsChunk, Fails, Offer, DeadlineFires, IdleFires,
                        StopExchange
      <2>2. QueuePart(Append(jobs, Job("react", c))) = QueuePart(jobs)
            BY CoreTypes, PartGrows DEF QueueJobs, RunnerJobs
      <2> QED BY <2>1, <2>2, Unnoticed
<1> QED BY <1>1, <1>2

\* The jobs of #executeFramed that neither settle it nor close the queue.
LEMMA ExchangeUnseen ==
    ASSUME RunnerTypeOK, InvalidOK, NEW c \in Commands,
           ReactJob(c) \/ NextChunk(c) \/ StreamEnds(c) \/ CloseJob(c)
    PROVE  QueueSees
<1>1. /\ UNCHANGED <<closed, signalled, accepted, released, listening, aborted,
                     adopted, stage, outcome>>
      /\ \E kind \in RunnerJobs : Runs(kind, c)
      /\ \/ jobs' = Tail(jobs)
         \/ \E kind \in {"react", "step", "resume"} :
               jobs' = Append(Tail(jobs), Job(kind, c))
      <2>1. CASE ReactJob(c)
            BY <2>1 DEF ReactJob, RunnerJobs
      <2>2. CASE NextChunk(c)
            BY <2>2 DEF NextChunk, RunnerJobs
      <2>3. CASE StreamEnds(c)
            BY <2>3 DEF StreamEnds, RunnerJobs
      <2>4. CASE CloseJob(c)
            BY <2>4 DEF CloseJob, RunnerJobs
      <2> QED BY <2>1, <2>2, <2>3, <2>4
<1>2. QueuePart(Tail(jobs)) = QueuePart(jobs) /\ Tail(jobs) \in Seq(AnyRunnerJob)
      BY <1>1, OwnJobUnseen
<1>3. ASSUME NEW kind \in {"react", "step", "resume"}
      PROVE  QueuePart(Append(Tail(jobs), Job(kind, c))) = QueuePart(jobs)
      BY <1>2, PartGrows DEF QueueJobs, RunnerJobs
<1> QED BY <1>1, <1>2, <1>3, Unnoticed

\* #failOnOutputLimit in the middle of a stream closes the queue.
LEMMA OverLimitSeen ==
    ASSUME RunnerTypeOK, InvalidOK, NEW c \in Commands, ChunkOverLimit(c)
    PROVE  QueueSees
<1>1. QueuePart(Tail(jobs)) = QueuePart(jobs) /\ Tail(jobs) \in Seq(AnyRunnerJob)
      BY OwnJobUnseen DEF ChunkOverLimit, RunnerJobs
<1>2. jobs' = Append(Append(Tail(jobs), Job("close", c)), Job("resume", c))
      <2>1. Tail(jobs) \o <<Job("close", c), Job("resume", c)>> =
               Append(Append(Tail(jobs), Job("close", c)), Job("resume", c))
            BY <1>1, JobTypes DEF RunnerJobs
      <2> QED BY <2>1 DEF ChunkOverLimit
<1>3. Append(Tail(jobs), Job("close", c)) \in Seq(AnyRunnerJob)
      BY <1>1, JobTypes, AppendProperties DEF RunnerJobs
<1>4. QueuePart(Append(Tail(jobs), Job("close", c))) = QueuePart(jobs)
      BY <1>1, PartGrows DEF QueueJobs, RunnerJobs
<1>5. QueuePart(jobs') = QueuePart(jobs)
      <2>1. PICK t \in Seq(AnyRunnerJob) : t = Append(Tail(jobs), Job("close", c))
            BY <1>3
      <2>2. QueuePart(Append(t, Job("resume", c))) = QueuePart(t)
            BY PartGrows DEF QueueJobs, RunnerJobs
      <2> QED BY <1>2, <1>4, <2>1, <2>2
<1>6. InvalidOK' /\ SeenStage' = SeenStage /\ SeenOutcome' = SeenOutcome
      BY SeenSame DEF ChunkOverLimit
<1>7. Queue!Close
      BY <1>5, <1>6 DEF ChunkOverLimit, Queue!Close
<1> QED BY <1>6, <1>7 DEF QueueSees, Queue!QueueNext

\* Every step of the runner is a step of its queue, or none.
LEMMA StepIsQueueStep ==
    ASSUME RunnerInv, InvalidOK, [RunnerNext]_runnerVars
    PROVE  QueueSees
<1>1. CoreInv /\ RunnerTypeOK /\ \A c \in Commands : ExchangeOK(c)
      BY DEF RunnerInv, CoreInv
<1>2. CASE Environment
      <2>1. \A c \in Commands : Submit(c) => QueueSees
            BY <1>1, SubmitSeen
      <2> QED BY <1>1, <1>2, <2>1, CallersSeen, OutsideUnseen DEF Environment
<1>3. ASSUME NEW c \in Commands, PromiseJob(c)
      PROVE  QueueSees
      <2>1. QueueJob(c) => QueueSees
            BY <1>1, QueueJobSeen
      <2>2. RefuseToSend(c) \/ Send(c) => QueueSees
            BY <1>1, RunSeen
      <2>3. ReactJob(c) \/ NextChunk(c) \/ StreamEnds(c) \/ CloseJob(c) => QueueSees
            BY <1>1, ExchangeUnseen
      <2>4. ChunkOverLimit(c) => QueueSees
            BY <1>1, OverLimitSeen
      <2>5. Fulfils(c) \/ AnswerOverLimit(c) \/ Throws(c) => QueueSees
            BY <1>1, EndsSeen
      <2> QED BY <1>3, <2>1, <2>2, <2>3, <2>4, <2>5 DEF PromiseJob
<1>4. ASSUME NEW c \in Commands, DeadlineFires(c) \/ IdleFires(c)
      PROVE  QueueSees
      BY <1>1, <1>4, OutsideUnseen
<1>5. CASE UNCHANGED runnerVars
      <2>1. /\ QueuePart(jobs') = QueuePart(jobs)
            /\ UNCHANGED <<closed, signalled, accepted, released, listening, aborted,
                           adopted, stage, outcome>>
            BY <1>5 DEF runnerVars, queueVars
      <2> QED BY <2>1, Unnoticed
<1> QED BY <1>2, <1>3, <1>4, <1>5 DEF RunnerNext

\* The runner drives its queue as SessionQueue specifies: with its own jobs left
\* out of the promise job queue, and the calls #dispatch refuses unseen, every
\* step of it is a step of the queue or none. What is proved of the queue, the
\* order of the calls above all, therefore holds of the runner's commands.
THEOREM RunnerImplementsQueue == RunnerSpec => ImplementsQueue
<1>1. RunnerInit => Queue!QueueInit /\ InvalidOK
      <2> SUFFICES ASSUME RunnerInit PROVE Queue!QueueInit /\ InvalidOK
          OBVIOUS
      <2>1. QueueInit
            BY DEF RunnerInit
      <2>2. InvalidOK
            BY <2>1 DEF QueueInit, InvalidOK
      <2>3. SeenStage = [c \in Commands |-> "new"]
            BY <2>1 DEF QueueInit, SeenStage, Seen
      <2>4. SeenOutcome = [c \in Commands |-> "none"]
            BY <2>1 DEF QueueInit, SeenOutcome, Seen
      <2>5. QueuePart(jobs) = <<>>
            BY <2>1, PartOfNone DEF QueueInit
      <2> QED BY <2>1, <2>2, <2>3, <2>4, <2>5 DEF QueueInit, Queue!QueueInit
<1>2. RunnerInv /\ InvalidOK /\ [RunnerNext]_runnerVars
      => InvalidOK' /\ [Queue!QueueNext]_(Queue!queueVars)
      BY StepIsQueueStep DEF QueueSees
<1> QED BY <1>1, <1>2, RunnerInvariance, PTL
        DEF RunnerSpec, ImplementsQueue, Queue!QueueSpec

-----------------------------------------------------------------------------
(* What is proved of the queue, read in the runner *)

\* The proofs about SessionQueue, of the queue the runner drives.
Chain == INSTANCE SessionQueueProofs
            WITH Results <- RunnerResults,
                 jobs    <- QueuePart(jobs),
                 stage   <- SeenStage,
                 outcome <- SeenOutcome

\* The runner's queue is that queue.
LEMMA RunnerDrivesChain == RunnerSpec => Chain!QueueSpec
<1>1. Queue!QueueInit => Chain!QueueInit
      BY DEF Queue!QueueInit, Chain!QueueInit
<1>2. UNCHANGED Queue!queueVars => UNCHANGED Chain!queueVars
      BY DEF Queue!queueVars, Chain!queueVars
<1>3. Queue!QueueNext => Chain!QueueNext
      BY DEF Queue!QueueNext, Chain!QueueNext,
             Queue!Enqueue, Chain!Enqueue, Queue!Refuse, Chain!Refuse,
             Queue!Accept, Chain!Accept, Queue!Close, Chain!Close, Queue!Abort,
             Chain!Abort, Queue!SignalFires, Chain!SignalFires,
             Queue!ListenersOf, Chain!ListenersOf, Queue!StartJob,
             Chain!StartJob, Queue!QueueJob, Chain!QueueJob, Queue!SkipJob,
             Chain!SkipJob, Queue!AdoptJob, Chain!AdoptJob, Queue!SettleJob,
             Chain!SettleJob, Queue!TailJob, Chain!TailJob, Queue!CleanupJob,
             Chain!CleanupJob, Queue!FinishAtOnceJob, Chain!FinishAtOnceJob,
             Queue!TaskSettles, Chain!TaskSettles, Queue!SettleReaction,
             Chain!SettleReaction, Queue!Runs, Chain!Runs, Queue!Job,
             Chain!Job
<1>4. [Queue!QueueNext]_(Queue!queueVars) => [Chain!QueueNext]_(Chain!queueVars)
      BY <1>2, <1>3
<1> QED BY <1>1, <1>4, RunnerImplementsQueue, PTL
        DEF ImplementsQueue, Queue!QueueSpec, Chain!QueueSpec

\* A call the queue has accepted, and not only #dispatch, is seen as it is.
LEMMA SeenAsItIs ==
    ASSUME InvalidOK, NEW c \in Commands
    PROVE  /\ stage[c] # "refused" => SeenStage[c] = stage[c]
           /\ SeenStage[c] # "new" => SeenStage[c] = stage[c]
BY DEF InvalidOK, SeenStage, Seen

\* In no state of the runner is an "invalid" call anything but refused.
LEMMA OnlyRefusedAreInvalid == RunnerSpec => []InvalidOK
<1>1. RunnerInit => InvalidOK
      BY DEF RunnerInit, QueueInit, InvalidOK
<1>2. RunnerInv /\ InvalidOK /\ [RunnerNext]_runnerVars => InvalidOK'
      BY StepIsQueueStep DEF QueueSees
<1> QED BY <1>1, <1>2, RunnerInvariance, PTL DEF RunnerSpec

\* Which commands end "invalid" changes by a refusal of #dispatch only.
LEMMA InvalidKept ==
    ASSUME RunnerInv, InvalidOK, RunnerNext
    PROVE  \/ \E c \in Commands : Refuse(c, "invalid")
           \/ \A d \in Commands : outcome'[d] = "invalid" <=> outcome[d] = "invalid"
<1> DEFINE Kept == \A d \in Commands : outcome'[d] = "invalid" <=> outcome[d] = "invalid"
<1>0. CoreInv /\ RunnerTypeOK /\ \A c \in Commands : ExchangeOK(c)
      BY DEF RunnerInv, CoreInv
<1>1. ASSUME NEW c \in Commands, stage[c] # "refused", NEW r, r # "invalid",
             outcome' = [outcome EXCEPT ![c] = r]
      PROVE  Kept
      BY <1>0, <1>1 DEF RunnerTypeOK, InvalidOK
<1>2. CASE UNCHANGED outcome
      BY <1>2
<1>3. ASSUME NEW c \in Commands, Submit(c), ~Refuse(c, "invalid")
      PROVE  Kept
      <2>1. CASE Accept(c)
            BY <1>2, <2>1 DEF Accept
      <2>2. ASSUME NEW why \in {"closed", "aborted"}, Refuse(c, why)
            PROVE  Kept
            BY <1>1, <2>2 DEF Refuse
      <2> QED BY <1>3, <2>1, <2>2 DEF Submit, Enqueue
<1>4. ASSUME NEW c \in Commands, Runs("run", c)
      PROVE  stage[c] # "refused"
      BY <1>0, <1>4, HeadInTurn DEF QueueJobs, JobFits, Job
<1>5. ASSUME NEW c \in Commands, Fulfils(c) \/ AnswerOverLimit(c) \/ Throws(c)
      PROVE  Kept
      <2>1. PICK r \in RunnerResults,
                 closes \in {<<>>, <<Job("close", c)>>, <<Job("close", c), Job("close", c)>>} :
                    Ends(c, r, closes)
            BY <1>0, <1>5, ResumeEnds
      <2>2. Runs("resume", c)
            BY <1>0, <1>5, ResumeEnds
      <2>3. stage[c] = "running"
            BY <1>0, <2>2, HeadInTurn DEF RunnerJobs, JobFits, Job
      <2>4. r # "invalid"
            BY DEF RunnerResults
      <2> QED BY <1>1, <2>1, <2>3, <2>4 DEF Ends
<1>6. ASSUME NEW c \in Commands, PromiseJob(c)
      PROVE  Kept
      <2>1. CASE SkipJob(c)
            BY <1>1, <1>4, <2>1 DEF SkipJob
      <2>2. CASE RefuseToSend(c)
            <3>1. PICK r \in {"error", "session_closed"} : FinishAtOnceJob(c, r)
                  BY <2>2 DEF RefuseToSend
            <3> QED BY <1>1, <1>4, <3>1 DEF FinishAtOnceJob
      <2>3. CASE AdoptJob(c) \/ SettleJob(c) \/ TailJob(c) \/ CleanupJob(c)
            BY <1>2, <2>3 DEF AdoptJob, SettleJob, TailJob, CleanupJob
      <2>4. CASE Send(c) \/ ReactJob(c) \/ NextChunk(c) \/ ChunkOverLimit(c)
                 \/ StreamEnds(c) \/ CloseJob(c)
            BY <1>2, <2>4 DEF Send, StartJob, ReactJob, NextChunk, ChunkOverLimit,
                              StreamEnds, CloseJob
      <2> QED BY <1>5, <1>6, <2>1, <2>2, <2>3, <2>4 DEF PromiseJob, QueueJob
<1>7. ASSUME NEW c \in Commands, \/ Answers(c) \/ YieldsChunk(c) \/ Fails(c)
                                 \/ DeadlineFires(c) \/ IdleFires(c)
      PROVE  Kept
      BY <1>2, <1>7 DEF Answers, YieldsChunk, Fails, DeadlineFires, IdleFires
<1>8. CASE \/ CloseRunner \/ SessionDrops \/ Reconnects
           \/ \E s \in Signals : AbortWaiting(s) \/ \E c \in Commands : AbortRunning(s, c)
      BY <1>2, <1>8 DEF CloseRunner, Close, SessionDrops, Reconnects, queueVars,
                        AbortWaiting, Abort, AbortRunning, SignalFires
<1> QED BY <1>3, <1>6, <1>7, <1>8 DEF RunnerNext, Environment

\* What the line of the queue and the line of the runner have in common.
LinesAgree ==
    /\ Chain!Waiting = Waiting
    /\ LineStatus = [d \in Commands |-> StatusOf(stage[d])]
    /\ Chain!LineStatus = [d \in Commands |-> IF Seen(d) THEN LineStatus[d] ELSE "idle"]
    /\ \A d \in Commands : ~Seen(d) => LineStatus[d] = "answered"

\* The same commands wait in both; those refused by #dispatch are idle in one.
LEMMA TwoLines == RunnerTypeOK /\ InvalidOK => LinesAgree
<1> SUFFICES ASSUME RunnerTypeOK, InvalidOK PROVE LinesAgree
    OBVIOUS
<1>1. LineStatus = [d \in Commands |-> StatusOf(stage[d])]
      BY DEF LineStatus
<1>2. Chain!LineStatus = [d \in Commands |-> StatusOf(SeenStage[d])]
      BY DEF Chain!LineStatus, Chain!StatusOf, StatusOf
<1>3. ASSUME NEW d \in Commands
      PROVE  /\ StatusOf(SeenStage[d]) = IF Seen(d) THEN LineStatus[d] ELSE "idle"
             /\ ~Seen(d) => LineStatus[d] = "answered"
      BY Statuses, <1>1 DEF SeenStage, Seen, InvalidOK
<1>4. Chain!LineStatus = [d \in Commands |-> IF Seen(d) THEN LineStatus[d] ELSE "idle"]
      BY <1>2, <1>3
<1>5. Chain!Gone = Gone
      <2>1. released < Len(accepted) => accepted[released + 1] \in Commands
            BY LenProperties, ElementOfSeq DEF RunnerTypeOK
      <2>2. released < Len(accepted) =>
               (SeenStage[accepted[released + 1]] = "settled"
                <=> stage[accepted[released + 1]] = "settled")
            BY <2>1, SeenAsItIs
      <2> QED BY <2>2 DEF Chain!Gone, Gone
<1>6. Chain!Waiting = Waiting
      BY <1>5 DEF Chain!Waiting, Waiting
<1> QED BY <1>1, <1>3, <1>4, <1>6 DEF LinesAgree

\* A step of the queue's line is the same step of the runner's; a refusal of
\* #dispatch, which the queue's line does not see, turns a command away.
LEMMA StepOfBoth ==
    ASSUME RunnerInv, RunnerInv', InvalidOK, InvalidOK', [RunnerNext]_runnerVars,
           [Chain!Line!LineNext]_(Chain!Line!lineVars)
    PROVE  [Line!LineNext]_(Line!lineVars)
<1>1. LinesAgree
      BY TwoLines DEF RunnerInv
<1>2. LinesAgree'
      <2>1. RunnerTypeOK' /\ InvalidOK' => LinesAgree'
            BY TwoLines, PTL
      <2> QED BY <2>1 DEF RunnerInv
<1>3. CASE UNCHANGED runnerVars
      <2>1. Gone' = Gone /\ LineStatus' = LineStatus /\ accepted' = accepted
            BY <1>3 DEF runnerVars, queueVars, Gone, LineStatus
      <2> QED BY <2>1 DEF Line!lineVars
<1>4. ASSUME NEW c \in Commands, Refuse(c, "invalid")
      PROVE  Line!TurnAway(c)
      <2>1. /\ stage[c] = "new" /\ stage' = [d \in Commands |-> IF d = c THEN "refused" ELSE stage[d]]
            /\ UNCHANGED <<accepted, released>>
            BY <1>4 DEF Refuse, RunnerInv, RunnerTypeOK
      <2>2. LineStatus[c] = "idle" /\ LineStatus' = [LineStatus EXCEPT ![c] = "answered"]
            <3>1. LineStatus[c] = "idle"
                  BY <1>1, <2>1, Statuses DEF LinesAgree
            <3>2. LineStatus' = [d \in Commands |-> IF d = c THEN "answered" ELSE LineStatus[d]]
                  <4>1. \A d \in Commands : StatusOf(stage'[d]) =
                           IF d = c THEN "answered" ELSE LineStatus[d]
                        BY <1>1, <2>1, Statuses DEF LinesAgree
                  <4>2. LineStatus' = [d \in Commands |-> StatusOf(stage'[d])]
                        BY DEF LineStatus
                  <4> QED BY <4>1, <4>2
            <3> QED BY <1>1, <3>1, <3>2 DEF LinesAgree
      <2>3. Gone' = Gone
            <3>1. released < Len(accepted) => accepted[released + 1] \in Commands
                  BY LenProperties, ElementOfSeq DEF RunnerInv, RunnerTypeOK
            <3> QED BY <2>1, <3>1 DEF Gone
      <2> QED BY <2>1, <2>2, <2>3 DEF Line!TurnAway
<1>5. ASSUME \A d \in Commands : outcome'[d] = "invalid" <=> outcome[d] = "invalid"
      PROVE  [Line!LineNext]_(Line!lineVars)
      <2>1. \A d \in Commands : Seen(d)' <=> Seen(d)
            BY <1>5 DEF Seen
      <2>2. PICK w, w1, l, l1, q, q1 :
               /\ w = Waiting /\ w1 = Waiting' /\ l = LineStatus /\ l1 = LineStatus'
               /\ q = Chain!LineStatus /\ q1 = Chain!LineStatus'
            OBVIOUS
      <2>3. /\ l = [d \in Commands |-> l[d]] /\ l1 = [d \in Commands |-> l1[d]]
            /\ q = [d \in Commands |-> IF Seen(d) THEN l[d] ELSE "idle"]
            /\ q1 = [d \in Commands |-> IF Seen(d) THEN l1[d] ELSE "idle"]
            /\ \A d \in Commands : ~Seen(d) => l[d] = "answered" /\ l1[d] = "answered"
            BY <1>1, <1>2, <2>1, <2>2 DEF LinesAgree
      <2>4. ASSUME q1 = q PROVE l1 = l
            <3>1. \A d \in Commands : l1[d] = l[d]
                  BY <2>3, <2>4
            <3> QED BY <2>3, <3>1
      <2>5. ASSUME NEW c \in Commands, NEW p, p # "idle", q1 = [q EXCEPT ![c] = p]
            PROVE  l[c] = q[c] /\ l1 = [l EXCEPT ![c] = p]
            <3>1. Seen(c) /\ q1[c] = p /\ l1[c] = p /\ l[c] = q[c]
                  BY <2>3, <2>5
            <3>2. \A d \in Commands : d # c => l1[d] = l[d]
                  BY <2>3, <2>5
            <3>3. \A d \in Commands : l1[d] = IF d = c THEN p ELSE l[d]
                  BY <3>1, <3>2
            <3> QED BY <2>3, <3>1, <3>3
      <2>6. Chain!Waiting = w /\ Chain!Waiting' = w1
            BY <1>1, <1>2, <2>2 DEF LinesAgree
      <2>7. CASE UNCHANGED Chain!Line!lineVars
            <3>1. w1 = w /\ q1 = q
                  BY <2>2, <2>6, <2>7 DEF Chain!Line!lineVars, Chain!Waiting
            <3> QED BY <2>2, <2>4, <3>1 DEF Line!lineVars, Waiting
      <2>8. ASSUME NEW c \in Commands,
                   \/ Chain!Line!LetIn(c) \/ Chain!Line!TurnAway(c) \/ Chain!Line!Serve(c)
                   \/ Chain!Line!GiveUp(c) \/ Chain!Line!Answer(c)
            PROVE  Line!LineNext
            <3>1. CASE Chain!Line!LetIn(c)
                  <4>1. /\ q[c] = "idle" /\ q1 = [q EXCEPT ![c] = "waiting"]
                        /\ w1 = Append(w, c)
                        BY <2>2, <2>6, <3>1 DEF Chain!Line!LetIn, Chain!Waiting
                  <4>2. l[c] = "idle" /\ l1 = [l EXCEPT ![c] = "waiting"]
                        BY <2>5, <4>1
                  <4>3. Line!LetIn(c)
                        BY <2>2, <4>1, <4>2 DEF Line!LetIn, Waiting
                  <4> QED BY <4>3 DEF Line!LineNext
            <3>2. CASE Chain!Line!TurnAway(c)
                  <4>1. /\ q[c] = "idle" /\ q1 = [q EXCEPT ![c] = "answered"] /\ w1 = w
                        BY <2>2, <2>6, <3>2 DEF Chain!Line!TurnAway, Chain!Waiting
                  <4>2. l[c] = "idle" /\ l1 = [l EXCEPT ![c] = "answered"]
                        BY <2>5, <4>1
                  <4>3. Line!TurnAway(c)
                        BY <2>2, <4>1, <4>2 DEF Line!TurnAway, Waiting
                  <4> QED BY <4>3 DEF Line!LineNext
            <3>3. CASE Chain!Line!Serve(c)
                  <4>1. /\ w # <<>> /\ Head(w) = c /\ q[c] = "waiting"
                        /\ q1 = [q EXCEPT ![c] = "served"] /\ w1 = w
                        BY <2>2, <2>6, <3>3
                           DEF Chain!Line!Serve, Chain!Line!AtHead, Chain!Waiting
                  <4>2. l[c] = "waiting" /\ l1 = [l EXCEPT ![c] = "served"]
                        BY <2>5, <4>1
                  <4>3. Line!Serve(c)
                        BY <2>2, <4>1, <4>2 DEF Line!Serve, Line!AtHead, Waiting
                  <4> QED BY <4>3 DEF Line!LineNext
            <3>4. CASE Chain!Line!GiveUp(c)
                  <4>1. /\ w # <<>> /\ Head(w) = c /\ q[c] = "waiting"
                        /\ q1 = [q EXCEPT ![c] = "answered"] /\ w1 = Tail(w)
                        BY <2>2, <2>6, <3>4
                           DEF Chain!Line!GiveUp, Chain!Line!AtHead, Chain!Waiting
                  <4>2. l[c] = "waiting" /\ l1 = [l EXCEPT ![c] = "answered"]
                        BY <2>5, <4>1
                  <4>3. Line!GiveUp(c)
                        BY <2>2, <4>1, <4>2 DEF Line!GiveUp, Line!AtHead, Waiting
                  <4> QED BY <4>3 DEF Line!LineNext
            <3>5. CASE Chain!Line!Answer(c)
                  <4>1. /\ w # <<>> /\ Head(w) = c /\ q[c] = "served"
                        /\ q1 = [q EXCEPT ![c] = "answered"] /\ w1 = Tail(w)
                        BY <2>2, <2>6, <3>5
                           DEF Chain!Line!Answer, Chain!Line!AtHead, Chain!Waiting
                  <4>2. l[c] = "served" /\ l1 = [l EXCEPT ![c] = "answered"]
                        BY <2>5, <4>1
                  <4>3. Line!Answer(c)
                        BY <2>2, <4>1, <4>2 DEF Line!Answer, Line!AtHead, Waiting
                  <4> QED BY <4>3 DEF Line!LineNext
            <3> QED BY <2>8, <3>1, <3>2, <3>3, <3>4, <3>5
      <2> QED BY <2>7, <2>8 DEF Chain!Line!LineNext
<1>6. ASSUME NEW c \in Commands, Refuse(c, "invalid")
      PROVE  Line!LineNext
      BY <1>4, <1>6 DEF Line!LineNext
<1> QED BY <1>3, <1>5, <1>6, InvalidKept

\* The runner's callers see a first-come first-served line with a single server:
\* #executeFramed is the task, no second one starts before it has settled, and a
\* command #dispatch refuses is turned away at the door.
THEOREM RunnerIsSerial == RunnerSpec => ImplementsLine
<1>1. Chain!QueueSpec => [][Chain!Line!LineNext]_(Chain!Line!lineVars)
      BY Chain!LineImplemented, SignalAssumption, PTL
         DEF Chain!ImplementsLine, Chain!Line!LineSpec
<1>2. RunnerInit => Line!LineInit
      <2> SUFFICES ASSUME RunnerInit PROVE Line!LineInit
          OBVIOUS
      <2>1. accepted = <<>> /\ released = 0 /\ stage = [c \in Commands |-> "new"]
            BY DEF RunnerInit, QueueInit
      <2>2. Gone = 0
            BY <2>1 DEF Gone
      <2>3. Waiting = <<>>
            BY <2>1, <2>2, SubSeqEmpty DEF Waiting
      <2>4. LineStatus = [c \in Commands |-> "idle"]
            BY <2>1, Statuses DEF LineStatus
      <2> QED BY <2>3, <2>4 DEF Line!LineInit, Waiting
<1> QED BY <1>1, <1>2, StepOfBoth, RunnerDrivesChain, RunnerInvariance,
           OnlyRefusedAreInvalid, PTL
        DEF RunnerSpec, ImplementsLine, Line!LineSpec

\* Commands of the runner have their turn one at a time, in the order they were
\* accepted in, whatever their exchanges do.
THEOREM RunnerKeepsOrder == RunnerSpec => []OneAtATimeInOrder
<1>1. RunnerInv /\ InvalidOK /\ Chain!OneAtATimeInOrder => OneAtATimeInOrder
      <2> SUFFICES ASSUME RunnerInv, InvalidOK, Chain!OneAtATimeInOrder,
                          NEW i \in 1..Len(accepted), NEW j \in 1..Len(accepted),
                          i < j, stage[accepted[j]] # "queued"
                   PROVE  stage[accepted[i]] = "settled"
          BY DEF OneAtATimeInOrder
      <2>1. accepted[i] \in Commands /\ accepted[j] \in Commands
            BY ElementOfSeq DEF RunnerInv, RunnerTypeOK
      <2>2. SeenStage[accepted[j]] # "queued"
            BY <2>1, SeenAsItIs
      <2>3. SeenStage[accepted[i]] = "settled"
            BY <2>2 DEF Chain!OneAtATimeInOrder
      <2> QED BY <2>1, <2>3, SeenAsItIs
<1>2. Chain!QueueSpec => []Chain!OneAtATimeInOrder
      BY Chain!Order, SignalAssumption
<1> QED BY <1>1, <1>2, RunnerDrivesChain, RunnerInvariance, OnlyRefusedAreInvalid, PTL

\* No command of the runner waits for a job that is lost: a command runs, or some
\* job of the runner or of its queue is still to.
THEOREM RunnerNeverStalls == RunnerSpec => []NeverStalls
<1>1. InvalidOK /\ Chain!NeverStalls => NeverStalls
      <2> SUFFICES ASSUME InvalidOK, Chain!NeverStalls, NEW c \in Commands,
                          stage[c] \in {"queued", "skipped", "finished"},
                          jobs = <<>>
                   PROVE  \E d \in Commands : stage[d] = "running"
          BY DEF NeverStalls
      <2>1. SeenStage[c] \in {"queued", "skipped", "finished"}
            BY SeenAsItIs
      <2>2. QueuePart(jobs) = <<>>
            BY PartOfNone
      <2>3. PICK d \in Commands : SeenStage[d] = "running"
            BY <2>1, <2>2 DEF Chain!NeverStalls
      <2> QED BY <2>3, SeenAsItIs
<1>2. Chain!QueueSpec => []Chain!NeverStalls
      BY Chain!NoLostWakeUp, SignalAssumption
<1> QED BY <1>1, <1>2, RunnerDrivesChain, OnlyRefusedAreInvalid, PTL

\* A command whose signal has aborted while it was queued never goes on the wire.
THEOREM RunnerSkipsAborted == RunnerSpec => AbortedBeforeTurnNeverStarts
<1> DEFINE Deaf(c) == SignalOf[c] \in signalled /\ stage[c] = "queued"
           Kept == \A c \in Commands :
                      Deaf(c) => stage'[c] \in {"queued", "skipped"}
           Heard(c) == SignalOf[c] \in signalled /\ SeenStage[c] = "queued"
           KeptInChain == \A c \in Commands :
                             Heard(c) => SeenStage'[c] \in {"queued", "skipped"}
<1>1. InvalidOK /\ InvalidOK' /\ [KeptInChain]_(Chain!queueVars) => [Kept]_queueVars
      <2> SUFFICES ASSUME InvalidOK, InvalidOK', [KeptInChain]_(Chain!queueVars),
                          NEW c \in Commands, Deaf(c)
                   PROVE  stage'[c] \in {"queued", "skipped"}
          OBVIOUS
      <2>1. Heard(c)
            BY SeenAsItIs
      <2>2. SeenStage'[c] \in {"queued", "skipped"}
            BY <2>1 DEF Chain!queueVars
      <2>3. SeenStage'[c] = IF outcome'[c] # "invalid" THEN stage'[c] ELSE "new"
            BY DEF SeenStage, Seen
      <2> QED BY <2>2, <2>3
<1>2. Chain!QueueSpec => [][KeptInChain]_(Chain!queueVars)
      BY Chain!AbortedNeverStarts, SignalAssumption
         DEF Chain!AbortedBeforeTurnNeverStarts
<1>3. RunnerSpec => [][Kept]_queueVars
      <2> HIDE DEF Kept, KeptInChain
      <2> QED BY <1>1, <1>2, RunnerDrivesChain, OnlyRefusedAreInvalid, PTL
<1> QED BY <1>3 DEF AbortedBeforeTurnNeverStarts

\* Once all jobs have run, no command that is done listens to a caller's signal.
THEOREM RunnerLeavesNoListener == RunnerSpec => []NoListenerLeft
<1>1. RunnerInv /\ InvalidOK /\ Chain!NoListenerLeft => NoListenerLeft
      <2> SUFFICES ASSUME RunnerInv, InvalidOK, Chain!NoListenerLeft, jobs = <<>>,
                          NEW c \in listening
                   PROVE  stage[c] # "settled"
          BY DEF NoListenerLeft
      <2>1. c \in Commands
            BY DEF RunnerInv, RunnerTypeOK
      <2>2. SeenStage[c] # "settled"
            BY PartOfNone DEF Chain!NoListenerLeft
      <2> QED BY <2>1, <2>2, SeenAsItIs
<1>2. Chain!QueueSpec => []Chain!NoListenerLeft
      BY Chain!ListenersRemoved, SignalAssumption
<1> QED BY <1>1, <1>2, RunnerDrivesChain, RunnerInvariance, OnlyRefusedAreInvalid, PTL
===============================================================================
