-------------------------- MODULE SessionQueueProofs --------------------------
(***************************************************************************)
(* Proofs about SessionQueue, for any number of calls and signals: the     *)
(* inductive invariant QueueInv, and from it the order, the absence of     *)
(* lost wake-ups, the treatment of calls aborted before their turn, and    *)
(* that the queue implements the line of SerialSession.                    *)
(***************************************************************************)
EXTENDS SessionQueue, SequenceTheorems, TLAPS

-----------------------------------------------------------------------------
(* The job queue *)

\* A job that runs was the first; the others move up one place.
LEMMA Popped ==
    ASSUME jobs \in Seq(AnyQueueJob), NEW kind, NEW c, Runs(kind, c)
    PROVE  /\ Len(jobs) \in Nat \ {0}
           /\ jobs[1] = Job(kind, c)
           /\ Tail(jobs) \in Seq(AnyQueueJob)
           /\ Len(Tail(jobs)) = Len(jobs) - 1
           /\ \A k \in 1..Len(jobs) - 1 : Tail(jobs)[k] = jobs[k + 1]
BY HeadTailProperties, EmptySeq DEF Runs

\* A job that is scheduled goes last.
LEMMA Pushed ==
    ASSUME NEW s \in Seq(AnyQueueJob), NEW j \in AnyQueueJob
    PROVE  /\ Append(s, j) \in Seq(AnyQueueJob)
           /\ Len(Append(s, j)) = Len(s) + 1
           /\ \A k \in 1..Len(s) : Append(s, j)[k] = s[k]
           /\ Append(s, j)[Len(s) + 1] = j
BY AppendProperties

\* Two jobs scheduled in one go are scheduled one after the other.
LEMMA PushedTwo ==
    ASSUME NEW s \in Seq(AnyQueueJob), NEW i \in AnyQueueJob, NEW j \in AnyQueueJob
    PROVE  s \o <<i, j>> = Append(Append(s, i), j)
<1> DEFINE two == <<i, j>>
           sum == s \o two
           app == Append(Append(s, i), j)
<1>1. two \in Seq(AnyQueueJob) /\ Len(two) = 2 /\ two[1] = i /\ two[2] = j
      OBVIOUS
<1>2. /\ sum \in Seq(AnyQueueJob)
      /\ Len(sum) = Len(s) + 2
      /\ \A k \in 1..Len(s) + 2 :
            sum[k] = IF k <= Len(s) THEN s[k] ELSE two[k - Len(s)]
      BY <1>1, ConcatProperties
<1>3. /\ app \in Seq(AnyQueueJob)
      /\ Len(app) = Len(s) + 2
      /\ \A k \in 1..Len(s) : app[k] = s[k]
      /\ app[Len(s) + 1] = i
      /\ app[Len(s) + 2] = j
      BY Pushed, LenProperties
<1>4. ASSUME NEW k \in 1..Len(sum)
      PROVE  sum[k] = app[k]
      <2>1. Len(s) \in Nat
            BY LenProperties
      <2>2. CASE k <= Len(s)
            BY <1>2, <1>3, <2>1, <2>2
      <2>3. CASE k = Len(s) + 1
            BY <1>1, <1>2, <1>3, <2>1, <2>3
      <2>4. CASE k = Len(s) + 2
            BY <1>1, <1>2, <1>3, <2>1, <2>4
      <2> QED BY <1>2, <2>1, <2>2, <2>3, <2>4
<1> QED BY <1>2, <1>3, <1>4, SeqEqual

\* The job that settles a call is scheduled, or nothing is.
LEMMA SettlePushed ==
    ASSUME NEW s \in Seq(AnyQueueJob), NEW c \in Commands
    PROVE  s \o SettleReaction(c) =
              IF c \in adopted THEN Append(s, Job("settle", c)) ELSE s
<1>1. CASE c \in adopted
      <2> DEFINE j == Job("settle", c)
      <2>1. j \in AnyQueueJob
            BY DEF Job, AnyQueueJob, QueueJobs
      <2>2. s \o <<j>> = Append(s, j)
            BY <2>1, AppendIsConcat
      <2> QED BY <1>1, <2>2 DEF SettleReaction
<1>2. CASE c \notin adopted
      BY <1>2, ConcatEmptySeq DEF SettleReaction
<1> QED BY <1>1, <1>2

-----------------------------------------------------------------------------
(* Types *)

\* The jobs the queue schedules are jobs.
LEMMA JobType == \A kind \in QueueJobs, c \in Commands : Job(kind, c) \in AnyQueueJob
BY DEF Job, AnyQueueJob

\* The state before any call satisfies the invariant.
LEMMA InitInv == QueueInit => QueueInv
<1> SUFFICES ASSUME QueueInit
             PROVE  QueueInv
    OBVIOUS
<1> USE DEF QueueInit
<1>1. QueueTypeOK
      <2>1. accepted \in Seq(Commands) /\ jobs \in Seq(AnyQueueJob)
            BY EmptySeq
      <2>2. released \in Nat /\ released <= Len(accepted)
            OBVIOUS
      <2> QED BY <2>1, <2>2 DEF QueueTypeOK, Stages
<1>2. ChainOK
      BY DEF ChainOK
<1>3. TokenOK
      BY DEF TokenOK
<1>4. SignalsOK
      BY DEF SignalsOK
<1> QED BY <1>1, <1>2, <1>3, <1>4 DEF QueueInv

\* A step keeps the types. That `released' stays within the chain is a fact
\* about the token: a tail job is there only while a call has its turn.
LEMMA TypeStep == QueueInv /\ [QueueNext]_queueVars => QueueTypeOK'
<1> SUFFICES ASSUME QueueInv, [QueueNext]_queueVars
             PROVE  QueueTypeOK'
    OBVIOUS
<1>0. QueueTypeOK
      BY DEF QueueInv
<1> USE DEF QueueTypeOK, Stages
<1>1. CASE Close
      BY <1>0, <1>1 DEF Close
<1>2. ASSUME NEW s \in Signals, Abort(s)
      PROVE  QueueTypeOK'
      BY <1>0, <1>2 DEF Abort, SignalFires, ListenersOf
<1>3. ASSUME NEW c \in Commands, Enqueue(c)
      PROVE  QueueTypeOK'
      <2>1. ASSUME NEW why \in {"closed", "aborted"}, Refuse(c, why)
            PROVE  QueueTypeOK'
            BY <1>0, <2>1 DEF Refuse
      <2>2. CASE Accept(c)
            <3>1. accepted' \in Seq(Commands) /\ released' <= Len(accepted')
                  BY <1>0, <2>2, AppendProperties, LenProperties DEF Accept
            <3>2. jobs' \in Seq(AnyQueueJob)
                  BY <1>0, <2>2, JobType, Pushed DEF Accept, QueueJobs
            <3> QED BY <1>0, <2>2, <3>1, <3>2 DEF Accept
      <2> QED BY <1>3, <2>1, <2>2 DEF Enqueue
<1>4. ASSUME NEW c \in Commands, StartJob(c)
      PROVE  QueueTypeOK'
      <2>1. jobs' \in Seq(AnyQueueJob)
            BY <1>0, <1>4, JobType, Popped, Pushed DEF StartJob, QueueJobs
      <2> QED BY <1>0, <1>4, <2>1 DEF StartJob
<1>5. ASSUME NEW c \in Commands, SkipJob(c)
      PROVE  QueueTypeOK'
      <2>1. jobs' \in Seq(AnyQueueJob)
            BY <1>0, <1>5, JobType, Popped, Pushed DEF SkipJob, QueueJobs
      <2> QED BY <1>0, <1>5, <2>1 DEF SkipJob
<1>6. ASSUME NEW c \in Commands, AdoptJob(c)
      PROVE  QueueTypeOK'
      <2>1. jobs' \in Seq(AnyQueueJob)
            <3>1. Tail(jobs) \in Seq(AnyQueueJob)
                  BY <1>0, <1>6, Popped DEF AdoptJob
            <3>2. Append(Tail(jobs), Job("settle", c)) \in Seq(AnyQueueJob)
                  BY <3>1, JobType, Pushed DEF QueueJobs
            <3> QED BY <1>6, <3>1, <3>2 DEF AdoptJob
      <2>2. adopted' \subseteq Commands
            BY <1>0, <1>6 DEF AdoptJob
      <2> QED BY <1>0, <1>6, <2>1, <2>2 DEF AdoptJob
<1>7. ASSUME NEW c \in Commands, SettleJob(c)
      PROVE  QueueTypeOK'
      <2>1. Job("tail", c) \in AnyQueueJob /\ Job("cleanup", c) \in AnyQueueJob
            BY JobType DEF QueueJobs
      <2>2. jobs' = Append(Append(Tail(jobs), Job("tail", c)), Job("cleanup", c))
            BY <1>0, <1>7, <2>1, Popped, PushedTwo DEF SettleJob
      <2>3. jobs' \in Seq(AnyQueueJob)
            BY <1>0, <1>7, <2>1, <2>2, Popped, Pushed DEF SettleJob
      <2> QED BY <1>0, <1>7, <2>3 DEF SettleJob
<1>8. ASSUME NEW c \in Commands, TailJob(c)
      PROVE  QueueTypeOK'
      <2>1. jobs[1] = Job("tail", c) /\ 1 \in 1..Len(jobs)
            BY <1>0, <1>8, Popped DEF TailJob
      <2>2. released < Len(accepted)
            BY <2>1 DEF QueueInv, TokenOK, Carries, Job
      <2>3. released' \in Nat /\ released' <= Len(accepted')
            BY <1>0, <1>8, <2>2, LenProperties DEF TailJob
      <2>4. released' < Len(accepted) => accepted[released' + 1] \in Commands
            BY <1>0, <2>3, ElementOfSeq, LenProperties
      <2>5. jobs' \in Seq(AnyQueueJob)
            BY <1>0, <1>8, <2>4, JobType, Popped, Pushed DEF TailJob, QueueJobs
      <2> QED BY <1>0, <1>8, <2>3, <2>5 DEF TailJob
<1>9. ASSUME NEW c \in Commands, CleanupJob(c)
      PROVE  QueueTypeOK'
      BY <1>0, <1>9, Popped DEF CleanupJob
<1>10. ASSUME NEW c \in Commands, NEW r \in Results, FinishAtOnceJob(c, r)
       PROVE  QueueTypeOK'
       <2>1. jobs' \in Seq(AnyQueueJob)
             BY <1>0, <1>10, JobType, Popped, Pushed DEF FinishAtOnceJob, QueueJobs
       <2> QED BY <1>0, <1>10, <2>1 DEF FinishAtOnceJob
<1>11. ASSUME NEW c \in Commands, NEW r \in Results, TaskSettles(c, r)
       PROVE  QueueTypeOK'
       <2>1. jobs' = IF c \in adopted THEN Append(jobs, Job("settle", c)) ELSE jobs
             BY <1>0, <1>11, SettlePushed DEF TaskSettles
       <2>2. Append(jobs, Job("settle", c)) \in Seq(AnyQueueJob)
             BY <1>0, JobType, Pushed DEF QueueJobs
       <2>3. jobs' \in Seq(AnyQueueJob)
             BY <1>0, <2>1, <2>2
       <2> QED BY <1>0, <1>11, <2>3 DEF TaskSettles
<1>12. CASE UNCHANGED queueVars
       BY <1>0, <1>12 DEF queueVars
<1> QED
    BY <1>1, <1>2, <1>3, <1>4, <1>5, <1>6, <1>7, <1>8, <1>9, <1>10, <1>11, <1>12
    DEF QueueNext, QueueJob

-----------------------------------------------------------------------------
(* The token *)

\* A job that carries the chain belongs to the call whose turn it is, and every
\* other job is the cleanup of a settled call.
LEMMA Turn ==
    ASSUME QueueInv, NEW kind \in QueueJobs \ {"cleanup"}, NEW c \in Commands,
           Runs(kind, c)
    PROVE  /\ released < Len(accepted)
           /\ c = accepted[released + 1]
           /\ JobMatches(Job(kind, c))
           /\ Tail(jobs) \in Seq(AnyQueueJob)
           /\ \A k \in 1..Len(Tail(jobs)) :
                 /\ Tail(jobs)[k].kind = "cleanup"
                 /\ stage[Tail(jobs)[k].cmd] = "settled"
<1>1. /\ Len(jobs) \in Nat \ {0}
      /\ jobs[1] = Job(kind, c)
      /\ Tail(jobs) \in Seq(AnyQueueJob)
      /\ Len(Tail(jobs)) = Len(jobs) - 1
      /\ \A k \in 1..Len(jobs) - 1 : Tail(jobs)[k] = jobs[k + 1]
      BY Popped DEF QueueInv, QueueTypeOK
<1>2. 1 \in 1..Len(jobs) /\ Carries(1)
      BY <1>1 DEF Carries, Job
<1>3. /\ released < Len(accepted)
      /\ c = accepted[released + 1]
      /\ JobMatches(Job(kind, c))
      BY <1>1, <1>2 DEF QueueInv, TokenOK, Job
<1>4. ASSUME NEW k \in 1..Len(jobs), k # 1
      PROVE  jobs[k].kind = "cleanup" /\ stage[jobs[k].cmd] = "settled"
      <2>1. jobs[k].kind = "cleanup"
            BY <1>2, <1>4 DEF QueueInv, TokenOK, Carries
      <2>2. JobMatches(jobs[k])
            BY DEF QueueInv, TokenOK
      <2> QED BY <2>1, <2>2 DEF JobMatches
<1> QED BY <1>1, <1>3, <1>4

\* The token is handed over: the call whose turn it is gets one job.
LEMMA TokenHanded ==
    ASSUME NEW rest \in Seq(AnyQueueJob),
           \A k \in 1..Len(rest) : /\ rest[k].kind = "cleanup"
                                   /\ stage'[rest[k].cmd] = "settled",
           NEW kind \in QueueJobs \ {"cleanup"}, NEW c \in Commands,
           jobs' = Append(rest, Job(kind, c)),
           JobMatches(Job(kind, c))',
           released' < Len(accepted'),
           c = accepted'[released' + 1]
    PROVE  TokenOK'
<1>1. /\ Len(rest) \in Nat
      /\ Len(jobs') = Len(rest) + 1
      /\ \A k \in 1..Len(rest) : jobs'[k] = rest[k]
      /\ jobs'[Len(rest) + 1] = Job(kind, c)
      BY JobType, Pushed, LenProperties
<1>2. \A k \in 1..Len(jobs') : k = Len(rest) + 1 \/ k \in 1..Len(rest)
      BY <1>1
<1>3. ASSUME NEW k \in 1..Len(rest)
      PROVE  ~Carries(k)' /\ JobMatches(jobs[k])'
      <2>1. jobs'[k].kind = "cleanup" /\ stage'[jobs'[k].cmd] = "settled"
            BY <1>1
      <2>2. ~Carries(k)'
            BY <2>1 DEF Carries
      <2>3. JobMatches(jobs[k])'
            BY <2>1 DEF JobMatches
      <2> QED BY <2>2, <2>3
<1>4. Carries(Len(rest) + 1)'
      BY <1>1 DEF Carries, Job
<1>5. \A k \in 1..Len(jobs') : JobMatches(jobs[k])'
      BY <1>1, <1>2, <1>3
<1>6. \A k \in 1..Len(jobs') : Carries(k)' => k = Len(rest) + 1
      BY <1>2, <1>3
<1>7. jobs'[Len(rest) + 1].cmd = accepted'[released' + 1]
      BY <1>1 DEF Job
<1>8. Len(rest) + 1 \in 1..Len(jobs')
      BY <1>1
<1> QED BY <1>4, <1>5, <1>6, <1>7, <1>8 DEF TokenOK

\* The token is parked: no job carries the chain, because nobody has the turn or
\* because a running task has it.
LEMMA TokenParked ==
    ASSUME \A k \in 1..Len(jobs') : /\ jobs'[k].kind = "cleanup"
                                    /\ stage'[jobs'[k].cmd] = "settled",
           released' < Len(accepted')
           => /\ stage'[accepted'[released' + 1]] = "running"
              /\ accepted'[released' + 1] \in adopted'
    PROVE  TokenOK'
BY DEF TokenOK, Carries, JobMatches

-----------------------------------------------------------------------------
(* The steps *)

\* A step that leaves the jobs and the calls they are for alone keeps the token.
LEMMA TokenKept ==
    ASSUME TokenOK, jobs' = jobs, released' = released, adopted' = adopted,
           Len(accepted') = Len(accepted),
           released < Len(accepted)
           => /\ accepted'[released + 1] = accepted[released + 1]
              /\ stage'[accepted[released + 1]] = stage[accepted[released + 1]],
           \A k \in 1..Len(jobs) : stage'[jobs[k].cmd] = stage[jobs[k].cmd]
    PROVE  TokenOK'
<1>1. ASSUME NEW k \in 1..Len(jobs)
      PROVE  JobMatches(jobs[k])'
      <2>1. JobMatches(jobs[k])
            BY DEF TokenOK
      <2> QED BY <2>1 DEF JobMatches
<1>2. \A k \in 1..Len(jobs) : Carries(k)' <=> Carries(k)
      BY DEF Carries
<1> QED BY <1>1, <1>2 DEF TokenOK

\* A step that changes nothing but `closed' and the outcomes, or fires a signal.
LEMMA QuietStep ==
    ASSUME QueueInv,
           UNCHANGED <<accepted, released, adopted, stage, jobs>>,
           \/ UNCHANGED <<signalled, listening, aborted>>
           \/ \E s \in Signals : SignalFires(s)
    PROVE  ChainOK' /\ TokenOK' /\ SignalsOK'
<1>1. ChainOK'
      BY DEF QueueInv, ChainOK
<1>2. TokenOK'
      BY TokenKept DEF QueueInv
<1>3. SignalsOK'
      <2>1. CASE UNCHANGED <<signalled, listening, aborted>>
            BY <2>1 DEF QueueInv, SignalsOK
      <2>2. ASSUME NEW s \in Signals, SignalFires(s)
            PROVE  SignalsOK'
            BY <2>2 DEF QueueInv, SignalsOK, SignalFires, ListenersOf
      <2> QED BY <2>1, <2>2
<1> QED BY <1>1, <1>2, <1>3

\* What the chain is made of.
ChainTypes ==
    /\ stage \in [Commands -> Stages]
    /\ accepted \in Seq(Commands)
    /\ released \in Nat
    /\ released <= Len(accepted)
    /\ adopted \subseteq Commands

\* A refused call is not on the chain.
LEMMA ChainRefused ==
    ASSUME ChainTypes, ChainOK, NEW c \in Commands, stage[c] = "new",
           stage' = [stage EXCEPT ![c] = "refused"],
           UNCHANGED <<accepted, released, adopted>>
    PROVE  ChainOK' /\ \A i \in 1..Len(accepted) : accepted[i] # c
<1>1. \A d \in Commands : d # c => stage'[d] = stage[d]
      BY DEF ChainTypes
<1>2. \A i \in 1..Len(accepted) : accepted[i] # c /\ accepted[i] \in Commands
      BY ElementOfSeq DEF ChainTypes, ChainOK
<1> QED BY <1>1, <1>2 DEF ChainTypes, ChainOK

\* An accepted call is its last link.
LEMMA ChainAccepted ==
    ASSUME ChainTypes, ChainOK, NEW c \in Commands, stage[c] = "new",
           stage' = [stage EXCEPT ![c] = "queued"],
           accepted' = Append(accepted, c),
           UNCHANGED <<released, adopted>>
    PROVE  /\ ChainOK'
           /\ \A i \in 1..Len(accepted) : accepted[i] # c
           /\ Len(accepted') = Len(accepted) + 1
           /\ \A i \in 1..Len(accepted) : accepted'[i] = accepted[i]
           /\ accepted'[Len(accepted) + 1] = c
<1>1. /\ Len(accepted) \in Nat
      /\ Len(accepted') = Len(accepted) + 1
      /\ \A i \in 1..Len(accepted) : accepted'[i] = accepted[i]
      /\ accepted'[Len(accepted) + 1] = c
      BY AppendProperties, LenProperties DEF ChainTypes
<1>2. stage'[c] = "queued" /\ \A d \in Commands : d # c => stage'[d] = stage[d]
      BY DEF ChainTypes
<1>3. \A i \in 1..Len(accepted) : accepted[i] # c /\ accepted[i] \in Commands
      BY ElementOfSeq DEF ChainTypes, ChainOK
<1>4. \A i, j \in 1..Len(accepted') : accepted'[i] = accepted'[j] => i = j
      BY <1>1, <1>3 DEF ChainOK
<1>5. \A i \in 1..Len(accepted') : stage'[accepted'[i]] \notin {"new", "refused"}
      BY <1>1, <1>2, <1>3 DEF ChainOK
<1>6. ASSUME NEW d \in Commands, stage'[d] \notin {"new", "refused"}
      PROVE  \E i \in 1..Len(accepted') : accepted'[i] = d
      BY <1>1, <1>2, <1>6 DEF ChainOK
<1>7. ASSUME NEW i \in 1..Len(accepted')
      PROVE  /\ i <= released' => stage'[accepted'[i]] = "settled"
             /\ i > released' + 1 => stage'[accepted'[i]] = "queued"
      BY <1>1, <1>2, <1>3 DEF ChainOK, ChainTypes
<1>8. \A d \in adopted' : stage'[d] \in {"running", "finished", "settled"}
      BY <1>2 DEF ChainTypes, ChainOK
<1>9. ChainOK'
      BY <1>4, <1>5, <1>6, <1>7, <1>8 DEF ChainOK
<1> QED BY <1>1, <1>3, <1>9

\* Another link is fulfilled once its call has settled.
LEMMA ChainReleased ==
    ASSUME ChainTypes, ChainOK, released < Len(accepted),
           stage[accepted[released + 1]] = "settled",
           released' = released + 1,
           UNCHANGED <<accepted, adopted, stage>>
    PROVE  /\ ChainOK' /\ ChainTypes'
           /\ released' < Len(accepted) =>
                 /\ accepted[released' + 1] \in Commands
                 /\ stage[accepted[released' + 1]] = "queued"
<1>1. released \in Nat /\ Len(accepted) \in Nat /\ accepted \in Seq(Commands)
      BY LenProperties DEF ChainTypes
<1>2. ASSUME NEW i \in 1..Len(accepted)
      PROVE  /\ i <= released' => stage[accepted[i]] = "settled"
             /\ i > released' + 1 => stage[accepted[i]] = "queued"
      BY <1>1 DEF ChainOK
<1>3. ChainOK'
      BY <1>2 DEF ChainOK
<1>4. ChainTypes'
      BY <1>1 DEF ChainTypes
<1>5. released' < Len(accepted) =>
         /\ released' + 1 \in 1..Len(accepted)
         /\ released' + 1 > released + 1
      BY <1>1
<1>6. released' < Len(accepted) =>
         /\ accepted[released' + 1] \in Commands
         /\ stage[accepted[released' + 1]] = "queued"
      BY <1>1, <1>5, ElementOfSeq DEF ChainOK
<1> QED BY <1>3, <1>4, <1>6

LEMMA RefuseStep ==
    ASSUME QueueInv, NEW c \in Commands, NEW why, Refuse(c, why)
    PROVE  ChainOK' /\ TokenOK' /\ SignalsOK'
<1>1. /\ stage[c] = "new"
      /\ stage' = [stage EXCEPT ![c] = "refused"]
      /\ stage \in [Commands -> Stages]
      BY DEF Refuse, QueueInv, QueueTypeOK
<1>2. \A d \in Commands : d # c => stage'[d] = stage[d]
      BY <1>1
<1>3. ChainOK' /\ \A i \in 1..Len(accepted) : accepted[i] # c
      BY <1>1, ChainRefused DEF Refuse, QueueInv, QueueTypeOK, ChainTypes
<1>4. \A i \in 1..Len(accepted) : accepted[i] # c /\ accepted[i] \in Commands
      BY <1>3, ElementOfSeq DEF QueueInv, QueueTypeOK
<1>5. \A k \in 1..Len(jobs) : jobs[k].cmd # c /\ jobs[k].cmd \in Commands
      <2> SUFFICES ASSUME NEW k \in 1..Len(jobs)
                   PROVE  jobs[k].cmd # c /\ jobs[k].cmd \in Commands
          OBVIOUS
      <2>1. jobs[k] \in AnyQueueJob
            BY ElementOfSeq DEF QueueInv, QueueTypeOK
      <2>2. JobMatches(jobs[k])
            BY DEF QueueInv, TokenOK
      <2> QED BY <1>1, <2>1, <2>2 DEF JobMatches, AnyQueueJob, QueueJobs
<1>6. TokenOK'
      <2>1. released < Len(accepted) => released + 1 \in 1..Len(accepted)
            BY LenProperties DEF QueueInv, QueueTypeOK
      <2> QED BY <1>2, <1>4, <1>5, <2>1, TokenKept DEF QueueInv, Refuse
<1>7. SignalsOK'
      BY <1>1, <1>2 DEF QueueInv, SignalsOK, Refuse
<1> QED BY <1>3, <1>6, <1>7

LEMMA AcceptStep ==
    ASSUME QueueInv, NEW c \in Commands, Accept(c), SignalOf[c] \notin signalled
    PROVE  ChainOK' /\ TokenOK' /\ SignalsOK'
<1>1. /\ stage[c] = "new"
      /\ stage' = [stage EXCEPT ![c] = "queued"]
      /\ stage \in [Commands -> Stages]
      /\ released' = released /\ adopted' = adopted
      /\ accepted' = Append(accepted, c)
      /\ accepted \in Seq(Commands)
      /\ released \in Nat /\ released <= Len(accepted)
      BY DEF Accept, QueueInv, QueueTypeOK
<1>2. /\ ChainOK'
      /\ \A i \in 1..Len(accepted) : accepted[i] # c
      /\ Len(accepted') = Len(accepted) + 1
      /\ \A i \in 1..Len(accepted) : accepted'[i] = accepted[i]
      /\ accepted'[Len(accepted) + 1] = c
      BY <1>1, ChainAccepted DEF QueueInv, QueueTypeOK, ChainTypes
<1>3. \A d \in Commands : d # c => stage'[d] = stage[d]
      BY <1>1
<1>4. \A i \in 1..Len(accepted) : accepted[i] # c /\ accepted[i] \in Commands
      BY <1>1, <1>2, ElementOfSeq
<1>5. ChainOK' /\ Len(accepted) \in Nat
      BY <1>1, <1>2, LenProperties
<1>6. ASSUME NEW k \in 1..Len(jobs)
      PROVE  jobs[k].cmd # c /\ jobs[k].cmd \in Commands
      <2>1. jobs[k] \in AnyQueueJob
            BY ElementOfSeq DEF QueueInv, QueueTypeOK
      <2>2. JobMatches(jobs[k])
            BY DEF QueueInv, TokenOK
      <2> QED BY <1>1, <2>1, <2>2 DEF JobMatches, AnyQueueJob, QueueJobs
<1>7. TokenOK'
      <2>1. CASE released = Len(accepted)
            <3>1. \A k \in 1..Len(jobs) : jobs[k].kind = "cleanup"
                  BY <1>5, <2>1 DEF QueueInv, TokenOK, Carries
            <3>2. ASSUME NEW k \in 1..Len(jobs)
                  PROVE  stage'[jobs[k].cmd] = "settled"
                  <4>1. JobMatches(jobs[k])
                        BY DEF QueueInv, TokenOK
                  <4>2. stage[jobs[k].cmd] = "settled"
                        BY <3>1, <4>1 DEF JobMatches
                  <4> QED BY <1>3, <1>6, <4>2
            <3>3. jobs' = Append(jobs, Job("run", c))
                  BY <2>1 DEF Accept
            <3>4. JobMatches(Job("run", c))'
                  BY <1>1 DEF JobMatches, Job
            <3>5. released' < Len(accepted') /\ c = accepted'[released' + 1]
                  BY <1>1, <1>2, <1>5, <2>1
            <3>6. jobs \in Seq(AnyQueueJob) /\ "run" \in QueueJobs \ {"cleanup"}
                  BY DEF QueueInv, QueueTypeOK, QueueJobs
            <3> QED BY <3>1, <3>2, <3>3, <3>4, <3>5, <3>6, TokenHanded
      <2>2. CASE released # Len(accepted)
            <3>1. jobs' = jobs /\ released < Len(accepted)
                  BY <1>1, <1>5, <2>2 DEF Accept
            <3>2. /\ accepted'[released' + 1] = accepted[released + 1]
                  /\ accepted[released + 1] # c
                  /\ accepted[released + 1] \in Commands
                  BY <1>1, <1>2, <1>4, <1>5, <3>1
            <3>3. ASSUME NEW k \in 1..Len(jobs)
                  PROVE  JobMatches(jobs[k])'
                  <4>1. JobMatches(jobs[k])
                        BY DEF QueueInv, TokenOK
                  <4>2. stage'[jobs[k].cmd] = stage[jobs[k].cmd]
                        BY <1>3, <1>6
                  <4> QED BY <1>1, <3>1, <4>1, <4>2 DEF JobMatches
            <3>4. stage'[accepted'[released' + 1]] = stage[accepted[released + 1]]
                  BY <1>3, <3>2
            <3> QED BY <1>1, <1>2, <1>5, <3>1, <3>2, <3>3, <3>4
                    DEF QueueInv, TokenOK, Carries
      <2> QED BY <2>1, <2>2
<1>8. SignalsOK'
      BY <1>1, <1>3, SignalAssumption DEF QueueInv, SignalsOK, Accept
<1> QED BY <1>5, <1>7, <1>8

\* The stage of the call whose turn it is changes, and no other call's.
LEMMA ChainMoves ==
    ASSUME ChainTypes, ChainOK, NEW c \in Commands, released < Len(accepted),
           c = accepted[released + 1],
           NEW st \in {"skipped", "running", "finished", "settled"},
           stage' = [stage EXCEPT ![c] = st],
           adopted' = adopted, c \in adopted => st \in {"running", "finished", "settled"},
           UNCHANGED <<accepted, released>>
    PROVE  ChainOK' /\ \A d \in Commands : d # c => stage'[d] = stage[d]
<1>1. /\ stage \in [Commands -> Stages]
      /\ accepted \in Seq(Commands)
      /\ released \in Nat
      /\ adopted \subseteq Commands
      /\ Len(accepted) \in Nat
      BY LenProperties DEF ChainTypes
<1>2. stage'[c] = st /\ \A d \in Commands : d # c => stage'[d] = stage[d]
      BY <1>1
<1>3. \A i \in 1..Len(accepted) : accepted[i] \in Commands
      BY <1>1, ElementOfSeq
<1>4. \A i \in 1..Len(accepted) : i # released + 1 => accepted[i] # c
      BY <1>1 DEF ChainOK
<1>5. \A d \in Commands :
         stage'[d] \notin {"new", "refused"}
         => \E i \in 1..Len(accepted) : accepted[i] = d
      BY <1>1, <1>2 DEF ChainOK
<1>6. \A i \in 1..Len(accepted) : stage'[accepted[i]] \notin {"new", "refused"}
      BY <1>2, <1>3 DEF ChainOK
<1>7. \A i \in 1..Len(accepted) :
         /\ i <= released => stage'[accepted[i]] = "settled"
         /\ i > released + 1 => stage'[accepted[i]] = "queued"
      BY <1>1, <1>2, <1>3, <1>4 DEF ChainOK
<1>8. \A d \in adopted : stage'[d] \in {"running", "finished", "settled"}
      BY <1>1, <1>2 DEF ChainOK
<1> QED BY <1>2, <1>5, <1>6, <1>7, <1>8 DEF ChainOK

\* run() takes the call off the queue, one way or another.
LEMMA RunStep ==
    ASSUME QueueInv, NEW c \in Commands, Runs("run", c),
           NEW st \in {"skipped", "running", "finished"},
           stage' = [stage EXCEPT ![c] = st],
           jobs' = Append(Tail(jobs), Job("adopt", c)),
           UNCHANGED <<signalled, accepted, released, listening, aborted, adopted>>
    PROVE  ChainOK' /\ TokenOK' /\ SignalsOK'
<1>1. /\ released < Len(accepted)
      /\ c = accepted[released + 1]
      /\ JobMatches(Job("run", c))
      /\ Tail(jobs) \in Seq(AnyQueueJob)
      /\ \A k \in 1..Len(Tail(jobs)) :
            /\ Tail(jobs)[k].kind = "cleanup"
            /\ stage[Tail(jobs)[k].cmd] = "settled"
      BY Turn DEF QueueJobs
<1>2. stage[c] = "queued" /\ c \notin adopted
      BY <1>1 DEF JobMatches, Job, QueueInv, ChainOK
<1>3. ChainOK' /\ \A d \in Commands : d # c => stage'[d] = stage[d]
      BY <1>1, <1>2, ChainMoves DEF QueueInv, QueueTypeOK, ChainTypes
<1>4. stage'[c] = st
      BY DEF QueueInv, QueueTypeOK
<1>5. ASSUME NEW k \in 1..Len(Tail(jobs))
      PROVE  stage'[Tail(jobs)[k].cmd] = "settled"
      <2>1. Tail(jobs)[k] \in AnyQueueJob
            BY <1>1, ElementOfSeq
      <2> QED BY <1>1, <1>2, <1>3, <2>1 DEF AnyQueueJob
<1>6. JobMatches(Job("adopt", c))'
      BY <1>2, <1>4 DEF JobMatches, Job
<1>7. TokenOK'
      <2>1. "adopt" \in QueueJobs \ {"cleanup"}
            BY DEF QueueJobs
      <2> QED BY <1>1, <1>5, <1>6, <2>1, TokenHanded
<1>8. SignalsOK'
      BY <1>3, <1>4 DEF QueueInv, SignalsOK
<1> QED BY <1>3, <1>7, <1>8

LEMMA AdoptStep ==
    ASSUME QueueInv, NEW c \in Commands, AdoptJob(c)
    PROVE  ChainOK' /\ TokenOK' /\ SignalsOK'
<1>1. /\ released < Len(accepted)
      /\ c = accepted[released + 1]
      /\ JobMatches(Job("adopt", c))
      /\ Tail(jobs) \in Seq(AnyQueueJob)
      /\ \A k \in 1..Len(Tail(jobs)) :
            /\ Tail(jobs)[k].kind = "cleanup"
            /\ stage[Tail(jobs)[k].cmd] = "settled"
      BY Turn DEF QueueJobs, AdoptJob
<1>2. stage[c] \in {"skipped", "running", "finished"}
      BY <1>1 DEF JobMatches, Job
<1>3. UNCHANGED <<signalled, accepted, released, listening, aborted, stage>>
      BY DEF AdoptJob
<1>4. SignalsOK'
      BY <1>3 DEF QueueInv, SignalsOK
<1>5. CASE stage[c] = "running"
      <2>1. adopted' = adopted \cup {c} /\ jobs' = Tail(jobs)
            BY <1>5 DEF AdoptJob
      <2>2. ChainOK'
            BY <1>3, <1>5, <2>1 DEF QueueInv, ChainOK
      <2>3. TokenOK'
            BY <1>1, <1>3, <1>5, <2>1, TokenParked
      <2> QED BY <1>4, <2>2, <2>3
<1>6. CASE stage[c] # "running"
      <2>1. adopted' = adopted /\ jobs' = Append(Tail(jobs), Job("settle", c))
            BY <1>6 DEF AdoptJob
      <2>2. ChainOK'
            BY <1>3, <2>1 DEF QueueInv, ChainOK
      <2>3. JobMatches(Job("settle", c))'
            BY <1>2, <1>3, <1>6 DEF JobMatches, Job
      <2>4. "settle" \in QueueJobs \ {"cleanup"}
            BY DEF QueueJobs
      <2>5. TokenOK'
            BY <1>1, <1>3, <2>1, <2>3, <2>4, TokenHanded
      <2> QED BY <1>4, <2>2, <2>5
<1> QED BY <1>5, <1>6

LEMMA SettleStep ==
    ASSUME QueueInv, NEW c \in Commands, SettleJob(c)
    PROVE  ChainOK' /\ TokenOK' /\ SignalsOK'
<1> DEFINE rest == Tail(jobs)
           next == Append(rest, Job("tail", c))
           done == Job("cleanup", c)
<1>1. /\ released < Len(accepted)
      /\ c = accepted[released + 1]
      /\ JobMatches(Job("settle", c))
      /\ rest \in Seq(AnyQueueJob)
      /\ \A k \in 1..Len(rest) : /\ rest[k].kind = "cleanup"
                                 /\ stage[rest[k].cmd] = "settled"
      BY Turn DEF QueueJobs, SettleJob
<1>2. stage[c] \in {"skipped", "finished"}
      BY <1>1 DEF JobMatches, Job
<1>3. UNCHANGED <<signalled, accepted, released, listening, aborted, adopted>>
      BY DEF SettleJob
<1>4. ChainOK' /\ \A d \in Commands : d # c => stage'[d] = stage[d]
      BY <1>1, <1>3, ChainMoves
         DEF SettleJob, QueueInv, QueueTypeOK, ChainTypes
<1>5. stage'[c] = "settled"
      BY DEF SettleJob, QueueInv, QueueTypeOK
<1>6. Job("tail", c) \in AnyQueueJob /\ done \in AnyQueueJob
      BY JobType DEF QueueJobs
<1>7. jobs' = Append(next, done)
      BY <1>1, <1>6, PushedTwo DEF SettleJob
<1> HIDE DEF rest, done
<1>8. /\ Len(rest) \in Nat
      /\ next \in Seq(AnyQueueJob)
      /\ Len(next) = Len(rest) + 1
      /\ \A k \in 1..Len(rest) : next[k] = rest[k]
      /\ next[Len(rest) + 1] = Job("tail", c)
      BY <1>1, <1>6, Pushed, LenProperties
<1> HIDE DEF next
<1>9. /\ Len(jobs') = Len(rest) + 2
      /\ \A k \in 1..Len(rest) + 1 : jobs'[k] = next[k]
      /\ jobs'[Len(rest) + 2] = done
      BY <1>6, <1>7, <1>8, Pushed
<1>10. /\ \A k \in 1..Len(rest) : jobs'[k] = rest[k]
       /\ jobs'[Len(rest) + 1] = Job("tail", c)
       BY <1>8, <1>9
<1>11. ASSUME NEW k \in 1..Len(jobs')
       PROVE  k \in 1..Len(rest) \/ k = Len(rest) + 1 \/ k = Len(rest) + 2
       BY <1>8, <1>9
<1>12. ASSUME NEW k \in 1..Len(rest)
       PROVE  jobs'[k].kind = "cleanup" /\ stage'[jobs'[k].cmd] = "settled"
       <2>1. rest[k] \in AnyQueueJob
             BY <1>1, ElementOfSeq
       <2> QED BY <1>1, <1>2, <1>4, <1>10, <2>1 DEF AnyQueueJob
<1>13. /\ jobs'[Len(rest) + 2].kind = "cleanup"
       /\ jobs'[Len(rest) + 2].cmd = c
       /\ jobs'[Len(rest) + 1].kind = "tail"
       /\ jobs'[Len(rest) + 1].cmd = c
       BY <1>9, <1>10 DEF Job, done
<1>14. \A k \in 1..Len(jobs') : JobMatches(jobs[k])'
       BY <1>5, <1>11, <1>12, <1>13 DEF JobMatches
<1>15. \A k \in 1..Len(jobs') : Carries(k)' <=> k = Len(rest) + 1
       BY <1>8, <1>11, <1>12, <1>13 DEF Carries
<1>16. Len(rest) + 1 \in 1..Len(jobs')
       BY <1>8, <1>9
<1>17. TokenOK'
       BY <1>1, <1>3, <1>13, <1>14, <1>15, <1>16 DEF TokenOK
<1>18. SignalsOK'
       BY <1>3, <1>4, <1>5 DEF QueueInv, SignalsOK
<1> QED BY <1>4, <1>17, <1>18

LEMMA TailStep ==
    ASSUME QueueInv, NEW c \in Commands, TailJob(c)
    PROVE  ChainOK' /\ TokenOK' /\ SignalsOK'
<1>1. /\ released < Len(accepted)
      /\ c = accepted[released + 1]
      /\ JobMatches(Job("tail", c))
      /\ Tail(jobs) \in Seq(AnyQueueJob)
      /\ \A k \in 1..Len(Tail(jobs)) :
            /\ Tail(jobs)[k].kind = "cleanup"
            /\ stage[Tail(jobs)[k].cmd] = "settled"
      BY Turn DEF QueueJobs, TailJob
<1>2. stage[c] = "settled"
      BY <1>1 DEF JobMatches, Job
<1>3. /\ UNCHANGED <<signalled, accepted, listening, aborted, adopted, stage>>
      /\ released' = released + 1
      /\ released \in Nat
      /\ accepted \in Seq(Commands)
      /\ Len(accepted) \in Nat
      BY LenProperties DEF TailJob, QueueInv, QueueTypeOK
<1>4. /\ ChainOK'
      /\ released' < Len(accepted) =>
            /\ accepted[released' + 1] \in Commands
            /\ stage[accepted[released' + 1]] = "queued"
      BY <1>1, <1>2, <1>3, ChainReleased DEF QueueInv, QueueTypeOK, ChainTypes
<1>5. CASE released' < Len(accepted)
      <2>0. PICK d : d = accepted[released' + 1]
            OBVIOUS
      <2>1. /\ jobs' = Append(Tail(jobs), Job("run", d))
            /\ d \in Commands /\ stage[d] = "queued"
            BY <1>3, <1>4, <1>5, <2>0 DEF TailJob
      <2>2. JobMatches(Job("run", d))'
            BY <1>3, <2>1 DEF JobMatches, Job
      <2>3. "run" \in QueueJobs \ {"cleanup"}
            BY DEF QueueJobs
      <2>4. d = accepted'[released' + 1]
            BY <1>3, <2>0
      <2>5. TokenOK'
            BY <1>1, <1>3, <1>5, <2>1, <2>2, <2>3, <2>4, TokenHanded
      <2> QED BY <1>3, <1>4, <2>5 DEF QueueInv, SignalsOK
<1>6. CASE ~(released' < Len(accepted))
      <2>1. jobs' = Tail(jobs)
            BY <1>6 DEF TailJob
      <2>2. TokenOK'
            BY <1>1, <1>3, <1>6, <2>1, TokenParked
      <2> QED BY <1>3, <1>4, <2>2 DEF QueueInv, SignalsOK
<1> QED BY <1>5, <1>6

LEMMA CleanupStep ==
    ASSUME QueueInv, NEW c \in Commands, CleanupJob(c)
    PROVE  ChainOK' /\ TokenOK' /\ SignalsOK'
<1>1. /\ Len(jobs) \in Nat \ {0}
      /\ jobs[1] = Job("cleanup", c)
      /\ Len(Tail(jobs)) = Len(jobs) - 1
      /\ \A k \in 1..Len(jobs) - 1 : Tail(jobs)[k] = jobs[k + 1]
      BY Popped DEF QueueInv, QueueTypeOK, CleanupJob
<1>2. /\ UNCHANGED <<signalled, accepted, released, aborted, adopted, stage>>
      /\ listening' = listening \ {c}
      /\ jobs' = Tail(jobs)
      BY DEF CleanupJob
<1>3. ~Carries(1) /\ stage[c] = "settled"
      <2>1. JobMatches(jobs[1])
            BY <1>1 DEF QueueInv, TokenOK
      <2> QED BY <1>1, <2>1 DEF Carries, JobMatches, Job
<1>4. ChainOK'
      BY <1>2 DEF QueueInv, ChainOK
<1>5. ASSUME NEW k \in 1..Len(jobs')
      PROVE  /\ k + 1 \in 1..Len(jobs)
             /\ jobs'[k] = jobs[k + 1]
             /\ Carries(k)' <=> Carries(k + 1)
      BY <1>1, <1>2 DEF Carries
<1>6. ASSUME NEW k \in 1..Len(jobs')
      PROVE  JobMatches(jobs[k])'
      <2>1. JobMatches(jobs[k + 1])
            BY <1>5 DEF QueueInv, TokenOK
      <2> QED BY <1>2, <1>5, <2>1 DEF JobMatches
<1>7. (\E k \in 1..Len(jobs) : Carries(k)) => \E k \in 1..Len(jobs') : Carries(k)'
      <2> SUFFICES ASSUME NEW k \in 1..Len(jobs), Carries(k)
                   PROVE  \E l \in 1..Len(jobs') : Carries(l)'
          OBVIOUS
      <2>1. k # 1
            BY <1>3
      <2>2. k - 1 \in 1..Len(jobs') /\ (k - 1) + 1 = k
            BY <1>1, <1>2, <2>1
      <2>3. Carries(k - 1)'
            BY <1>5, <2>2
      <2> QED BY <2>2, <2>3
<1>8. \A k, l \in 1..Len(jobs') : Carries(k)' /\ Carries(l)' => k = l
      <2> SUFFICES ASSUME NEW k \in 1..Len(jobs'), NEW l \in 1..Len(jobs'),
                          Carries(k)', Carries(l)'
                   PROVE  k = l
          OBVIOUS
      <2>1. k + 1 = l + 1
            BY <1>5 DEF QueueInv, TokenOK
      <2> QED BY <2>1
<1>9. TokenOK'
      BY <1>2, <1>5, <1>6, <1>7, <1>8 DEF QueueInv, TokenOK
<1>10. SignalsOK'
       BY <1>2, <1>3 DEF QueueInv, SignalsOK
<1> QED BY <1>4, <1>9, <1>10

LEMMA TaskStep ==
    ASSUME QueueInv, NEW c \in Commands, NEW r, TaskSettles(c, r)
    PROVE  ChainOK' /\ TokenOK' /\ SignalsOK'
<1>1. /\ stage[c] = "running"
      /\ stage' = [stage EXCEPT ![c] = "finished"]
      /\ UNCHANGED <<signalled, accepted, released, listening, aborted, adopted>>
      /\ jobs' = IF c \in adopted THEN Append(jobs, Job("settle", c)) ELSE jobs
      /\ jobs \in Seq(AnyQueueJob)
      /\ Len(accepted) \in Nat /\ released \in Nat
      BY SettlePushed, LenProperties DEF TaskSettles, QueueInv, QueueTypeOK
<1>2. released < Len(accepted) /\ c = accepted[released + 1]
      <2>1. PICK i \in 1..Len(accepted) : accepted[i] = c
            BY <1>1 DEF QueueInv, ChainOK
      <2>2. i = released + 1
            BY <1>1, <2>1 DEF QueueInv, ChainOK
      <2> QED BY <1>1, <2>1, <2>2
<1>3. ChainOK' /\ \A d \in Commands : d # c => stage'[d] = stage[d]
      BY <1>1, <1>2, ChainMoves DEF QueueInv, QueueTypeOK, ChainTypes
<1>4. stage'[c] = "finished"
      BY <1>1 DEF QueueInv, QueueTypeOK
<1>5. SignalsOK'
      BY <1>1, <1>3, <1>4 DEF QueueInv, SignalsOK
<1>6. ASSUME NEW k \in 1..Len(jobs)
      PROVE  /\ jobs[k].kind \in QueueJobs
             /\ jobs[k].cmd \in Commands
             /\ JobMatches(jobs[k])
      <2>1. jobs[k] \in AnyQueueJob
            BY <1>1, ElementOfSeq
      <2> QED BY <2>1 DEF AnyQueueJob, QueueInv, TokenOK
<1>7. CASE c \in adopted
      <2>1. ASSUME NEW k \in 1..Len(jobs)
            PROVE  jobs[k].kind = "cleanup" /\ stage'[jobs[k].cmd] = "settled"
            <3>1. ~Carries(k)
                  <4> SUFFICES ASSUME Carries(k)
                               PROVE  FALSE
                      OBVIOUS
                  <4>1. jobs[k].cmd = c
                        BY <1>2 DEF QueueInv, TokenOK
                  <4> QED BY <1>1, <1>6, <1>7, <4>1
                          DEF JobMatches, Carries, QueueJobs
            <3>2. stage[jobs[k].cmd] = "settled"
                  BY <1>6, <3>1 DEF JobMatches, Carries
            <3> QED BY <1>1, <1>3, <1>6, <3>1, <3>2 DEF Carries
      <2>2. jobs' = Append(jobs, Job("settle", c))
            BY <1>1, <1>7
      <2>3. JobMatches(Job("settle", c))'
            BY <1>4 DEF JobMatches, Job
      <2>4. "settle" \in QueueJobs \ {"cleanup"}
            BY DEF QueueJobs
      <2>5. released' < Len(accepted') /\ c = accepted'[released' + 1]
            BY <1>1, <1>2
      <2>6. TokenOK'
            BY <1>1, <2>1, <2>2, <2>3, <2>4, <2>5, TokenHanded
      <2> QED BY <1>3, <1>5, <2>6
<1>8. CASE c \notin adopted
      <2>1. jobs' = jobs
            BY <1>1, <1>8
      <2>2. \E k \in 1..Len(jobs) : Carries(k)
            BY <1>2, <1>8 DEF QueueInv, TokenOK
      <2>3. ASSUME NEW k \in 1..Len(jobs)
            PROVE  JobMatches(jobs[k])'
            <3>1. CASE jobs[k].cmd = c
                  <4>1. jobs[k].kind = "adopt"
                        BY <1>1, <1>6, <3>1 DEF JobMatches, QueueJobs
                  <4> QED BY <1>1, <1>4, <1>8, <2>1, <3>1, <4>1 DEF JobMatches
            <3>2. CASE jobs[k].cmd # c
                  <4>1. stage'[jobs[k].cmd] = stage[jobs[k].cmd]
                        BY <1>3, <1>6, <3>2
                  <4> QED BY <1>1, <1>6, <2>1, <4>1 DEF JobMatches
            <3> QED BY <3>1, <3>2
      <2>4. TokenOK'
            BY <1>1, <2>1, <2>2, <2>3 DEF QueueInv, TokenOK, Carries
      <2> QED BY <1>3, <1>5, <2>4
<1> QED BY <1>7, <1>8

-----------------------------------------------------------------------------
(* The theorems *)

\* Every step keeps the invariant.
LEMMA InvStep == QueueInv /\ [QueueNext]_queueVars => QueueInv'
<1> SUFFICES ASSUME QueueInv, [QueueNext]_queueVars
             PROVE  ChainOK' /\ TokenOK' /\ SignalsOK'
    BY TypeStep DEF QueueInv
<1>1. CASE Close
      BY <1>1, QuietStep DEF Close
<1>2. ASSUME NEW s \in Signals, Abort(s)
      PROVE  ChainOK' /\ TokenOK' /\ SignalsOK'
      BY <1>2, QuietStep DEF Abort, SignalFires
<1>3. ASSUME NEW c \in Commands, Enqueue(c)
      PROVE  ChainOK' /\ TokenOK' /\ SignalsOK'
      BY <1>3, RefuseStep, AcceptStep DEF Enqueue
<1>4. ASSUME NEW c \in Commands, StartJob(c)
      PROVE  ChainOK' /\ TokenOK' /\ SignalsOK'
      BY <1>4, RunStep DEF StartJob
<1>5. ASSUME NEW c \in Commands, SkipJob(c)
      PROVE  ChainOK' /\ TokenOK' /\ SignalsOK'
      BY <1>5, RunStep DEF SkipJob
<1>6. ASSUME NEW c \in Commands, NEW r \in Results, FinishAtOnceJob(c, r)
      PROVE  ChainOK' /\ TokenOK' /\ SignalsOK'
      BY <1>6, RunStep DEF FinishAtOnceJob
<1>7. CASE UNCHANGED queueVars
      BY <1>7, QuietStep DEF queueVars
<1> QED
    BY <1>1, <1>2, <1>3, <1>4, <1>5, <1>6, <1>7, AdoptStep, SettleStep,
       TailStep, CleanupStep, TaskStep
    DEF QueueNext, QueueJob

\* The chain is in order, one token moves along it and no queued call is deaf to
\* its signal, in every state of every queue.
THEOREM Invariance == QueueSpec => []QueueInv
<1>1. QueueInit => QueueInv
      BY InitInv
<1>2. QueueInv /\ [QueueNext]_queueVars => QueueInv'
      BY InvStep
<1> QED BY <1>1, <1>2, PTL DEF QueueSpec

\* Type correctness of the queue.
THEOREM TypeCorrect == QueueSpec => []QueueTypeOK
<1>1. QueueInv => QueueTypeOK
      BY DEF QueueInv
<1> QED BY <1>1, Invariance, PTL

\* Items run strictly one at a time, in enqueue order.
THEOREM Order == QueueSpec => []OneAtATimeInOrder
<1>1. QueueInv => OneAtATimeInOrder
      <2> SUFFICES ASSUME QueueInv, NEW i \in 1..Len(accepted),
                          NEW j \in 1..Len(accepted), i < j,
                          stage[accepted[j]] # "queued"
                   PROVE  stage[accepted[i]] = "settled"
          BY DEF OneAtATimeInOrder
      <2>1. j <= released + 1
            BY DEF QueueInv, QueueTypeOK, ChainOK
      <2>2. i <= released
            BY <2>1 DEF QueueInv, QueueTypeOK
      <2> QED BY <2>2 DEF QueueInv, ChainOK
<1> QED BY <1>1, Invariance, PTL

\* No lost wake-up: a call that waits is waiting for a job or for a task.
THEOREM NoLostWakeUp == QueueSpec => []NeverStalls
<1>1. QueueInv => NeverStalls
      <2> SUFFICES ASSUME QueueInv, NEW c \in Commands,
                          stage[c] \in {"queued", "skipped", "finished"}
                   PROVE  \/ jobs # <<>>
                          \/ \E d \in Commands : stage[d] = "running"
          BY DEF NeverStalls
      <2>1. /\ released \in Nat
            /\ Len(accepted) \in Nat
            /\ accepted \in Seq(Commands)
            BY LenProperties DEF QueueInv, QueueTypeOK
      <2>2. PICK i \in 1..Len(accepted) : accepted[i] = c
            BY DEF QueueInv, ChainOK
      <2>3. released < Len(accepted) /\ released + 1 \in 1..Len(accepted)
            BY <2>1, <2>2 DEF QueueInv, ChainOK
      <2>4. CASE \E k \in 1..Len(jobs) : Carries(k)
            BY <2>4
      <2>5. CASE stage[accepted[released + 1]] = "running"
            BY <2>1, <2>3, <2>5, ElementOfSeq
      <2> QED BY <2>3, <2>4, <2>5 DEF QueueInv, TokenOK
<1> QED BY <1>1, Invariance, PTL

\* A call whose signal aborted while it was queued is never started.
THEOREM AbortedNeverStarts == QueueSpec => AbortedBeforeTurnNeverStarts
<1> DEFINE Deaf(c) == SignalOf[c] \in signalled /\ stage[c] = "queued"
           Kept == \A c \in Commands :
                      Deaf(c) => stage'[c] \in {"queued", "skipped"}
<1>1. QueueInv /\ [QueueNext]_queueVars => [Kept]_queueVars
      <2> SUFFICES ASSUME QueueInv, [QueueNext]_queueVars,
                          NEW c \in Commands, Deaf(c)
                   PROVE  stage'[c] \in {"queued", "skipped"}
          OBVIOUS
      <2>1. c \in aborted
            BY DEF QueueInv, QueueTypeOK, SignalsOK
      <2>2. stage \in [Commands -> Stages]
            BY DEF QueueInv, QueueTypeOK
      <2>3. ~(\E k : Runs("settle", c))
            <3> SUFFICES ASSUME Runs("settle", c)
                         PROVE  FALSE
                OBVIOUS
            <3>1. JobMatches(Job("settle", c))
                  BY Turn DEF QueueJobs
            <3> QED BY <3>1 DEF JobMatches, Job
      <2>4. ASSUME NEW d \in Commands, d # c, NEW st,
                   stage' = [stage EXCEPT ![d] = st]
            PROVE  stage'[c] = "queued"
            BY <2>2, <2>4
      <2>5. CASE UNCHANGED stage
            BY <2>5
      <2>6. ASSUME NEW d \in Commands, NEW why, Refuse(d, why)
            PROVE  stage'[c] = "queued"
            BY <2>4, <2>6 DEF Refuse
      <2>7. ASSUME NEW d \in Commands, Accept(d)
            PROVE  stage'[c] = "queued"
            BY <2>4, <2>7 DEF Accept
      <2>8. ASSUME NEW d \in Commands, SkipJob(d)
            PROVE  stage'[c] \in {"queued", "skipped"}
            BY <2>2, <2>4, <2>8 DEF SkipJob
      <2>9. ASSUME NEW d \in Commands, StartJob(d)
            PROVE  stage'[c] = "queued"
            BY <2>1, <2>4, <2>9 DEF StartJob
      <2>10. ASSUME NEW d \in Commands, NEW r, FinishAtOnceJob(d, r)
             PROVE  stage'[c] = "queued"
             BY <2>1, <2>4, <2>10 DEF FinishAtOnceJob
      <2>11. ASSUME NEW d \in Commands, SettleJob(d)
             PROVE  stage'[c] = "queued"
             BY <2>3, <2>4, <2>11 DEF SettleJob
      <2>12. ASSUME NEW d \in Commands, NEW r, TaskSettles(d, r)
             PROVE  stage'[c] = "queued"
             BY <2>4, <2>12 DEF TaskSettles
      <2> QED
          BY <2>5, <2>6, <2>7, <2>8, <2>9, <2>10, <2>11, <2>12
          DEF QueueNext, QueueJob, Enqueue, Close, Abort, SignalFires, AdoptJob,
              TailJob, CleanupJob, queueVars
<1> QED BY <1>1, Invariance, PTL DEF QueueSpec, AbortedBeforeTurnNeverStarts

-----------------------------------------------------------------------------
(* Listeners *)

Among(s, job) == \E k \in 1..Len(s) : s[k] = job

\* A job stays where it is when another is scheduled, which is then there too.
LEMMA AmongMore ==
    ASSUME NEW s \in Seq(AnyQueueJob), NEW j \in AnyQueueJob
    PROVE  /\ Among(Append(s, j), j)
           /\ \A job : Among(s, job) => Among(Append(s, j), job)
<1>1. Len(s) \in Nat
      BY LenProperties
<1> QED BY <1>1, Pushed DEF Among

\* A job stays scheduled when another runs.
LEMMA AmongOthers ==
    ASSUME jobs \in Seq(AnyQueueJob), NEW kind, NEW c, Runs(kind, c),
           NEW job, job # Job(kind, c), Among(jobs, job)
    PROVE  Among(Tail(jobs), job)
<1>1. PICK k \in 1..Len(jobs) : jobs[k] = job
      BY DEF Among
<1>2. /\ Len(jobs) \in Nat \ {0} /\ jobs[1] # job
      /\ Len(Tail(jobs)) = Len(jobs) - 1
      /\ \A l \in 1..Len(jobs) - 1 : Tail(jobs)[l] = jobs[l + 1]
      BY Popped
<1>3. k - 1 \in 1..Len(Tail(jobs)) /\ Tail(jobs)[k - 1] = job
      BY <1>1, <1>2
<1> QED BY <1>3 DEF Among

Cleanup(c) == Job("cleanup", c)

\* A settled call that still listens has its cleanup ahead of it.
CleanupAwaits ==
    \A c \in listening : stage[c] = "settled" => Among(jobs, Cleanup(c))

\* Steps that run a job other than a cleanup, and schedule at most one.
LEMMA AwaitsWhenRun ==
    ASSUME QueueInv, CleanupAwaits,
           NEW kind \in QueueJobs \ {"cleanup"}, NEW c, Runs(kind, c),
           \/ jobs' = Tail(jobs)
           \/ \E j \in AnyQueueJob : jobs' = Append(Tail(jobs), j),
           listening' = listening,
           \A d \in listening : stage'[d] = "settled" => stage[d] = "settled"
    PROVE  CleanupAwaits'
<1> SUFFICES ASSUME NEW d \in listening, stage'[d] = "settled"
             PROVE  Among(jobs', Cleanup(d))
    BY DEF CleanupAwaits
<1>1. jobs \in Seq(AnyQueueJob)
      BY DEF QueueInv, QueueTypeOK
<1>2. Cleanup(d) # Job(kind, c)
      BY DEF Cleanup, Job
<1>3. Among(jobs, Cleanup(d))
      BY DEF CleanupAwaits
<1>4. Among(Tail(jobs), Cleanup(d)) /\ Tail(jobs) \in Seq(AnyQueueJob)
      BY <1>1, <1>2, <1>3, AmongOthers, Popped
<1> QED BY <1>4, AmongMore

\* Steps that run no job, and schedule at most one.
LEMMA AwaitsWhenIdle ==
    ASSUME QueueInv, CleanupAwaits,
           \/ jobs' = jobs
           \/ \E j \in AnyQueueJob : jobs' = Append(jobs, j),
           \A d \in listening' : stage'[d] = "settled"
                                 => d \in listening /\ stage[d] = "settled"
    PROVE  CleanupAwaits'
<1> SUFFICES ASSUME NEW d \in listening', stage'[d] = "settled"
             PROVE  Among(jobs', Cleanup(d))
    BY DEF CleanupAwaits
<1>1. jobs \in Seq(AnyQueueJob)
      BY DEF QueueInv, QueueTypeOK
<1>2. Among(jobs, Cleanup(d))
      BY DEF CleanupAwaits
<1> QED BY <1>1, <1>2, AmongMore

\* A call that settles has its cleanup scheduled.
LEMMA AwaitsOnceSettled ==
    ASSUME QueueInv, CleanupAwaits, NEW c \in Commands, SettleJob(c)
    PROVE  CleanupAwaits'
<1>1. jobs \in Seq(AnyQueueJob) /\ stage \in [Commands -> Stages]
      BY DEF QueueInv, QueueTypeOK
<1>2. /\ Job("tail", c) \in AnyQueueJob /\ Cleanup(c) \in AnyQueueJob
      /\ Tail(jobs) \in Seq(AnyQueueJob)
      BY <1>1, JobType, Popped DEF QueueJobs, SettleJob, Cleanup
<1>3. jobs' = Append(Append(Tail(jobs), Job("tail", c)), Cleanup(c))
      BY <1>2, PushedTwo DEF SettleJob, Cleanup
<1>4. Append(Tail(jobs), Job("tail", c)) \in Seq(AnyQueueJob)
      BY <1>2, Pushed
<1> SUFFICES ASSUME NEW d \in listening, stage'[d] = "settled"
             PROVE  Among(jobs', Cleanup(d))
    BY DEF CleanupAwaits, SettleJob
<1>5. CASE d = c
      BY <1>2, <1>3, <1>4, <1>5, AmongMore
<1>6. CASE d # c
      <2>1. stage[d] = "settled"
            BY <1>1, <1>6 DEF SettleJob, QueueInv, QueueTypeOK
      <2>2. Among(jobs, Cleanup(d)) /\ Cleanup(d) # Job("settle", c)
            BY <2>1 DEF CleanupAwaits, Cleanup, Job
      <2>3. Among(Tail(jobs), Cleanup(d))
            BY <1>1, <2>2, AmongOthers DEF SettleJob
      <2> QED BY <1>2, <1>3, <1>4, <2>3, AmongMore
<1> QED BY <1>5, <1>6

\* A cleanup takes its own call off the listeners, and no other's cleanup away.
LEMMA AwaitsAfterCleanup ==
    ASSUME QueueInv, CleanupAwaits, NEW c \in Commands, CleanupJob(c)
    PROVE  CleanupAwaits'
<1>1. /\ jobs \in Seq(AnyQueueJob) /\ jobs' = Tail(jobs)
      /\ listening' = listening \ {c} /\ stage' = stage
      /\ Runs("cleanup", c)
      BY DEF QueueInv, QueueTypeOK, CleanupJob
<1> SUFFICES ASSUME NEW d \in listening, d # c, stage[d] = "settled"
             PROVE  Among(jobs', Cleanup(d))
    BY <1>1 DEF CleanupAwaits
<1>2. Among(jobs, Cleanup(d)) /\ Cleanup(d) # Job("cleanup", c)
      BY DEF CleanupAwaits, Cleanup, Job
<1> QED BY <1>1, <1>2, AmongOthers

\* The turn of a call: what its jobs do to its stage.
LEMMA AwaitsInTurn ==
    ASSUME QueueInv, CleanupAwaits, NEW c \in Commands, NEW r,
           \/ StartJob(c) \/ SkipJob(c) \/ FinishAtOnceJob(c, r)
           \/ AdoptJob(c) \/ TailJob(c)
    PROVE  CleanupAwaits'
<1>1. /\ Job("adopt", c) \in AnyQueueJob /\ Job("settle", c) \in AnyQueueJob
      /\ stage \in [Commands -> Stages] /\ listening \subseteq Commands
      BY JobType DEF QueueJobs, QueueInv, QueueTypeOK
<1>2. CASE StartJob(c) \/ SkipJob(c) \/ FinishAtOnceJob(c, r)
      <2>1. /\ Runs("run", c) /\ jobs' = Append(Tail(jobs), Job("adopt", c))
            /\ listening' = listening
            /\ \E st \in {"running", "skipped", "finished"} :
                  stage' = [stage EXCEPT ![c] = st]
            BY <1>2 DEF StartJob, SkipJob, FinishAtOnceJob
      <2>2. \A d \in listening : stage'[d] = "settled" => stage[d] = "settled"
            BY <1>1, <2>1
      <2>3. "run" \in QueueJobs \ {"cleanup"}
            BY DEF QueueJobs
      <2> QED BY <1>1, <2>1, <2>2, <2>3, AwaitsWhenRun
<1>3. CASE AdoptJob(c)
      <2>1. "adopt" \in QueueJobs \ {"cleanup"}
            BY DEF QueueJobs
      <2> QED BY <1>1, <1>3, <2>1, AwaitsWhenRun DEF AdoptJob
<1>4. CASE TailJob(c)
      <2>1. "tail" \in QueueJobs \ {"cleanup"}
            BY DEF QueueJobs
      <2>2. released' < Len(accepted)
            => Job("run", accepted[released' + 1]) \in AnyQueueJob
            <3> SUFFICES ASSUME released' < Len(accepted)
                         PROVE  accepted[released' + 1] \in Commands
                BY JobType DEF QueueJobs
            <3>1. released' + 1 \in 1..Len(accepted)
                  BY <1>4, LenProperties DEF TailJob, QueueInv, QueueTypeOK
            <3> QED BY <3>1, ElementOfSeq DEF QueueInv, QueueTypeOK
      <2>3. \/ jobs' = Tail(jobs)
            \/ \E j \in AnyQueueJob : jobs' = Append(Tail(jobs), j)
            BY <1>4, <2>2 DEF TailJob
      <2> QED BY <1>4, <2>1, <2>3, AwaitsWhenRun DEF TailJob
<1> QED BY <1>2, <1>3, <1>4

\* No step leaves a settled call listening for good.
LEMMA AwaitsStep ==
    QueueInv /\ CleanupAwaits /\ [QueueNext]_queueVars => CleanupAwaits'
<1> SUFFICES ASSUME QueueInv, CleanupAwaits, [QueueNext]_queueVars
             PROVE  CleanupAwaits'
    OBVIOUS
<1>1. stage \in [Commands -> Stages] /\ jobs \in Seq(AnyQueueJob)
      BY DEF QueueInv, QueueTypeOK
<1>2. CASE Close \/ (\E s \in Signals : Abort(s)) \/ UNCHANGED queueVars
      BY <1>2, AwaitsWhenIdle DEF Close, Abort, SignalFires, queueVars
<1>3. ASSUME NEW c \in Commands, NEW why, Refuse(c, why)
      PROVE  CleanupAwaits'
      BY <1>1, <1>3, AwaitsWhenIdle DEF Refuse, QueueInv, QueueTypeOK
<1>4. ASSUME NEW c \in Commands, Accept(c)
      PROVE  CleanupAwaits'
      <2>1. Job("run", c) \in AnyQueueJob
            BY JobType DEF QueueJobs
      <2>2. \A d \in listening' : stage'[d] = "settled"
                                  => d \in listening /\ stage[d] = "settled"
            BY <1>1, <1>4 DEF Accept, QueueInv, QueueTypeOK
      <2>3. \/ jobs' = jobs
            \/ \E j \in AnyQueueJob : jobs' = Append(jobs, j)
            BY <1>4, <2>1 DEF Accept
      <2> QED BY <2>2, <2>3, AwaitsWhenIdle
<1>5. ASSUME NEW c \in Commands, NEW r, TaskSettles(c, r)
      PROVE  CleanupAwaits'
      <2>1. Job("settle", c) \in AnyQueueJob
            BY JobType DEF QueueJobs
      <2>2. jobs' = IF c \in adopted THEN Append(jobs, Job("settle", c)) ELSE jobs
            BY <1>1, <1>5, SettlePushed DEF TaskSettles
      <2> QED BY <1>1, <1>5, <2>1, <2>2, AwaitsWhenIdle
              DEF TaskSettles, QueueInv, QueueTypeOK
<1> QED BY <1>2, <1>3, <1>4, <1>5, AwaitsInTurn, AwaitsOnceSettled,
           AwaitsAfterCleanup
        DEF QueueNext, QueueJob, Enqueue

\* Once the promise jobs have run, no settled call listens to a signal.
THEOREM ListenersRemoved == QueueSpec => []NoListenerLeft
<1>1. QueueInit => CleanupAwaits
      BY DEF QueueInit, CleanupAwaits
<1>2. CleanupAwaits => NoListenerLeft
      BY EmptySeq DEF CleanupAwaits, NoListenerLeft, Among
<1> QED BY <1>1, <1>2, AwaitsStep, Invariance, PTL DEF QueueSpec

-----------------------------------------------------------------------------
(* The line of SerialSession: with the promise jobs out of sight, every step *)
(* of the chain is a step of the line, or none                               *)

\* The calls that stand in the line, as ImplementsLine maps them.
Waiting == SubSeq(accepted, Gone + 1, Len(accepted))

\* The line is the part of the chain that has not settled.
LEMMA TheLine ==
    ASSUME QueueInv
    PROVE  /\ Gone \in Nat /\ Len(accepted) \in Nat /\ Gone <= Len(accepted)
           /\ Waiting \in Seq(Commands)
           /\ Len(Waiting) = Len(accepted) - Gone
           /\ \A i \in 1..Len(accepted) - Gone : Waiting[i] = accepted[Gone + i]
<1>1. /\ accepted \in Seq(Commands) /\ Len(accepted) \in Nat
      /\ released \in Nat /\ released <= Len(accepted)
      BY LenProperties DEF QueueInv, QueueTypeOK
<1>2. Gone \in Nat /\ Gone <= Len(accepted)
      BY <1>1 DEF Gone
<1>3. \A i \in Gone + 1..Len(accepted) : accepted[i] \in Commands
      BY <1>1, <1>2, ElementOfSeq
<1>4. /\ Waiting \in Seq(Commands)
      /\ Len(Waiting) = IF Gone + 1 <= Len(accepted)
                        THEN Len(accepted) - (Gone + 1) + 1 ELSE 0
      /\ \A i \in 1..Len(accepted) - (Gone + 1) + 1 :
            Waiting[i] = accepted[(Gone + 1) + i - 1]
      <2>1. Gone + 1 \in Int /\ Len(accepted) \in Int
            BY <1>1, <1>2
      <2> HIDE DEF Gone
      <2> QED BY <1>3, <2>1, SubSeqProperties DEF Waiting
<1> QED BY <1>1, <1>2, <1>4

\* Nobody leaves the line while the chain stands and the turn does not settle.
LEMMA NobodyLeaves ==
    ASSUME QueueInv, UNCHANGED <<accepted, released>>,
           \A c \in Commands : stage'[c] = "settled" <=> stage[c] = "settled"
    PROVE  Gone' = Gone /\ Waiting' = Waiting
<1>1. released < Len(accepted) => accepted[released + 1] \in Commands
      BY LenProperties, ElementOfSeq DEF QueueInv, QueueTypeOK
<1> QED BY <1>1 DEF Gone, Waiting

\* What the stages look like from the line.
LEMMA Statuses ==
    /\ StatusOf("new") = "idle"
    /\ StatusOf("queued") = "waiting" /\ StatusOf("skipped") = "waiting"
    /\ StatusOf("running") = "served" /\ StatusOf("finished") = "served"
    /\ StatusOf("settled") = "answered" /\ StatusOf("refused") = "answered"
BY DEF StatusOf

\* A call that moves from one stage to another moves in the line, or does not.
LEMMA StatusMoves ==
    ASSUME QueueInv, NEW c \in Commands, NEW st, NEW p, StatusOf(st) = p,
           stage' = [stage EXCEPT ![c] = st]
    PROVE  /\ LineStatus[c] = StatusOf(stage[c])
           /\ LineStatus' = [LineStatus EXCEPT ![c] = p]
           /\ stage'[c] = st
           /\ \A d \in Commands : d # c => stage'[d] = stage[d]
<1>1. stage \in [Commands -> Stages]
      BY DEF QueueInv, QueueTypeOK
<1>2. stage'[c] = st /\ \A d \in Commands : d # c => stage'[d] = stage[d]
      BY <1>1
<1>3. LineStatus' = [d \in Commands |-> StatusOf(stage'[d])]
      BY DEF LineStatus
<1>4. LineStatus[c] = StatusOf(stage[c])
      BY DEF LineStatus
<1>5. [LineStatus EXCEPT ![c] = p]
      = [d \in Commands |-> IF d = c THEN p ELSE LineStatus[d]]
      BY DEF LineStatus
<1>6. \A d \in Commands : StatusOf(stage'[d]) = IF d = c THEN p ELSE LineStatus[d]
      BY <1>2 DEF LineStatus
<1>7. LineStatus' = [LineStatus EXCEPT ![c] = p]
      BY <1>3, <1>5, <1>6
<1> QED BY <1>2, <1>4, <1>7

\* A step of the chain that the line does not see.
Unseen == UNCHANGED <<Waiting, LineStatus>>

\* A refused call is turned away at the door.
LEMMA RefuseIsTurnAway ==
    ASSUME QueueInv, NEW c \in Commands, NEW why, Refuse(c, why)
    PROVE  Line!TurnAway(c)
<1>1. stage[c] = "new" /\ stage' = [stage EXCEPT ![c] = "refused"]
      BY DEF Refuse
<1>2. /\ stage'[c] = "refused" /\ \A d \in Commands : d # c => stage'[d] = stage[d]
      /\ LineStatus' = [LineStatus EXCEPT ![c] = "answered"]
      /\ LineStatus[c] = StatusOf(stage[c])
      <2>1. StatusOf("refused") = "answered"
            BY Statuses
      <2> QED BY <1>1, <2>1, StatusMoves
<1>3. LineStatus[c] = "idle"
      BY <1>1, <1>2, Statuses
<1>4. Waiting' = Waiting
      BY <1>1, <1>2, NobodyLeaves DEF Refuse
<1> QED BY <1>2, <1>3, <1>4 DEF Line!TurnAway, Waiting

\* An accepted call is let in behind the others.
LEMMA AcceptIsLetIn ==
    ASSUME QueueInv, QueueInv', NEW c \in Commands, Accept(c)
    PROVE  Line!LetIn(c)
<1>1. /\ stage[c] = "new" /\ stage' = [stage EXCEPT ![c] = "queued"]
      /\ accepted' = Append(accepted, c) /\ released' = released
      BY DEF Accept
<1>2. /\ stage'[c] = "queued" /\ \A d \in Commands : d # c => stage'[d] = stage[d]
      /\ LineStatus' = [LineStatus EXCEPT ![c] = "waiting"]
      /\ LineStatus[c] = StatusOf(stage[c])
      <2>1. StatusOf("queued") = "waiting"
            BY Statuses
      <2> QED BY <1>1, <2>1, StatusMoves
<1>3. LineStatus[c] = "idle"
      BY <1>1, <1>2, Statuses
<1>4. /\ accepted \in Seq(Commands) /\ Len(accepted) \in Nat
      /\ released \in Nat /\ released <= Len(accepted)
      /\ Len(accepted') = Len(accepted) + 1
      /\ \A i \in 1..Len(accepted) : accepted'[i] = accepted[i]
      /\ accepted'[Len(accepted) + 1] = c
      BY <1>1, AppendProperties, LenProperties DEF QueueInv, QueueTypeOK
<1>5. Gone' = Gone
      <2>1. CASE released = Len(accepted)
            BY <1>1, <1>2, <1>4, <2>1 DEF Gone
      <2>2. CASE released < Len(accepted)
            <3>1. /\ accepted'[released + 1] = accepted[released + 1]
                  /\ accepted[released + 1] \in Commands
                  BY <1>4, <2>2, ElementOfSeq
            <3>2. stage'[accepted[released + 1]] = "settled"
                  <=> stage[accepted[released + 1]] = "settled"
                  BY <1>1, <1>2, <3>1
            <3> QED BY <1>1, <1>4, <2>2, <3>1, <3>2 DEF Gone
      <2> QED BY <1>4, <2>1, <2>2
<1>6. Waiting' = Append(Waiting, c)
      <2>1. /\ Gone \in Nat /\ Gone <= Len(accepted)
            /\ Waiting \in Seq(Commands) /\ Len(Waiting) = Len(accepted) - Gone
            /\ \A i \in 1..Len(accepted) - Gone : Waiting[i] = accepted[Gone + i]
            BY TheLine
      <2>2. /\ Waiting' \in Seq(Commands) /\ Len(Waiting') = Len(accepted') - Gone'
            /\ \A i \in 1..Len(accepted') - Gone' : Waiting'[i] = accepted'[Gone' + i]
            <3>1. QueueInv' => /\ (Waiting \in Seq(Commands))'
                               /\ (Len(Waiting) = Len(accepted) - Gone)'
                               /\ (\A i \in 1..Len(accepted) - Gone :
                                      Waiting[i] = accepted[Gone + i])'
                  BY TheLine, PTL
            <3> QED BY <3>1
      <2>3. /\ Append(Waiting, c) \in Seq(Commands)
            /\ Len(Append(Waiting, c)) = Len(Waiting) + 1
            /\ \A i \in 1..Len(Waiting) : Append(Waiting, c)[i] = Waiting[i]
            /\ Append(Waiting, c)[Len(Waiting) + 1] = c
            BY <2>1, AppendProperties
      <2> HIDE DEF Waiting, Gone
      <2>4. ASSUME NEW i \in 1..Len(Waiting')
            PROVE  Waiting'[i] = Append(Waiting, c)[i]
            <3>1. CASE i = Len(Waiting) + 1
                  BY <1>4, <1>5, <2>1, <2>2, <2>3, <3>1
            <3>2. CASE i # Len(Waiting) + 1
                  <4>1. i \in 1..Len(Waiting) /\ Gone + i \in 1..Len(accepted)
                        BY <1>4, <1>5, <2>1, <2>2, <3>2
                  <4> QED BY <1>4, <1>5, <2>1, <2>2, <2>3, <4>1
            <3> QED BY <3>1, <3>2
      <2>5. Len(Waiting') = Len(Append(Waiting, c))
            BY <1>4, <1>5, <2>1, <2>2, <2>3
      <2> QED BY <2>2, <2>3, <2>4, <2>5, SeqEqual
<1> QED BY <1>2, <1>3, <1>6 DEF Line!LetIn, Waiting

\* The call whose turn it is, and is not settled, stands at the head of the line.
LEMMA TurnIsAtHead ==
    ASSUME QueueInv, NEW c \in Commands, released < Len(accepted),
           c = accepted[released + 1], stage[c] # "settled"
    PROVE  /\ Gone = released
           /\ Line!AtHead(c)
           /\ Tail(Waiting) = SubSeq(accepted, released + 2, Len(accepted))
<1>1. /\ accepted \in Seq(Commands) /\ Len(accepted) \in Nat /\ released \in Nat
      BY LenProperties DEF QueueInv, QueueTypeOK
<1>2. Gone = released
      BY DEF Gone
<1>3. Waiting # <<>>
      BY <1>1, <1>2, TheLine
<1>4. /\ released + 1 \in 1..Len(accepted)
      /\ Len(accepted) \in released + 1..Len(accepted)
      BY <1>1
<1>5. /\ Head(SubSeq(accepted, released + 1, Len(accepted))) = accepted[released + 1]
      /\ Tail(SubSeq(accepted, released + 1, Len(accepted)))
            = SubSeq(accepted, (released + 1) + 1, Len(accepted))
      BY <1>1, <1>4, HeadTailOfSubSeq
<1>6. (released + 1) + 1 = released + 2
      BY <1>1
<1> QED BY <1>2, <1>3, <1>5, <1>6 DEF Line!AtHead, Waiting

\* The task of the head of the line starts, and may be done at once.
LEMMA RunIsServe ==
    ASSUME QueueInv, NEW c \in Commands, Runs("run", c),
           NEW st \in {"running", "finished"}, stage' = [stage EXCEPT ![c] = st],
           UNCHANGED <<accepted, released>>
    PROVE  Line!Serve(c)
<1>1. /\ released < Len(accepted) /\ c = accepted[released + 1]
      /\ JobMatches(Job("run", c))
      BY Turn DEF QueueJobs
<1>2. stage[c] = "queued"
      BY <1>1 DEF JobMatches, Job
<1>3. Line!AtHead(c)
      BY <1>1, <1>2, TurnIsAtHead
<1>4. /\ stage'[c] = st /\ \A d \in Commands : d # c => stage'[d] = stage[d]
      /\ LineStatus' = [LineStatus EXCEPT ![c] = "served"]
      /\ LineStatus[c] = StatusOf(stage[c])
      <2>1. StatusOf(st) = "served"
            BY Statuses
      <2> QED BY <2>1, StatusMoves
<1>5. LineStatus[c] = "waiting"
      BY <1>2, <1>4, Statuses
<1>6. Waiting' = Waiting
      BY <1>2, <1>4, NobodyLeaves
<1> QED BY <1>2, <1>3, <1>4, <1>5, <1>6 DEF Line!Serve, Waiting

\* A call that settles leaves the line: without having been served if skipped.
LEMMA SettleIsAnswer ==
    ASSUME QueueInv, NEW c \in Commands, SettleJob(c)
    PROVE  Line!GiveUp(c) \/ Line!Answer(c)
<1>1. /\ released < Len(accepted) /\ c = accepted[released + 1]
      /\ JobMatches(Job("settle", c))
      BY Turn DEF QueueJobs, SettleJob
<1>2. stage[c] \in {"skipped", "finished"}
      BY <1>1 DEF JobMatches, Job
<1>3. /\ Gone = released /\ Line!AtHead(c)
      /\ Tail(Waiting) = SubSeq(accepted, released + 2, Len(accepted))
      BY <1>1, <1>2, TurnIsAtHead
<1>4. /\ stage' = [stage EXCEPT ![c] = "settled"]
      /\ UNCHANGED <<accepted, released>> /\ released \in Nat
      BY DEF SettleJob, QueueInv, QueueTypeOK
<1>5. /\ stage'[c] = "settled" /\ \A d \in Commands : d # c => stage'[d] = stage[d]
      /\ LineStatus' = [LineStatus EXCEPT ![c] = "answered"]
      /\ LineStatus[c] = StatusOf(stage[c])
      <2>1. StatusOf("settled") = "answered"
            BY Statuses
      <2> QED BY <1>4, <2>1, StatusMoves
<1>6. LineStatus[c] \in {"waiting", "served"}
      BY <1>2, <1>5, Statuses
<1>7. Gone' = released + 1
      BY <1>1, <1>4, <1>5 DEF Gone
<1>8. Waiting' = Tail(Waiting)
      BY <1>3, <1>4, <1>7 DEF Waiting
<1> QED BY <1>3, <1>5, <1>6, <1>8
        DEF Line!GiveUp, Line!Answer, Waiting

\* The chain moves on from a settled call, which has left the line already.
LEMMA TailIsUnseen ==
    ASSUME QueueInv, NEW c \in Commands, TailJob(c)
    PROVE  Unseen
<1>1. /\ released < Len(accepted) /\ c = accepted[released + 1]
      /\ JobMatches(Job("tail", c))
      BY Turn DEF QueueJobs, TailJob
<1>2. stage[c] = "settled"
      BY <1>1 DEF JobMatches, Job
<1>3. /\ released' = released + 1 /\ UNCHANGED <<accepted, stage>>
      /\ released \in Nat /\ Len(accepted) \in Nat
      BY LenProperties DEF TailJob, QueueInv, QueueTypeOK
<1>4. Gone = released + 1
      BY <1>1, <1>2 DEF Gone
<1>5. released' < Len(accepted) => stage[accepted[released' + 1]] = "queued"
      BY <1>3 DEF QueueInv, ChainOK
<1>6. Gone' = released + 1
      BY <1>3, <1>5 DEF Gone
<1> QED BY <1>3, <1>4, <1>6 DEF Unseen, Waiting, LineStatus

\* A stage that looks the same from outside, and does not end in the line.
LEMMA MoveIsUnseen ==
    ASSUME QueueInv, NEW c \in Commands, UNCHANGED <<accepted, released>>,
           \/ stage[c] = "queued" /\ stage' = [stage EXCEPT ![c] = "skipped"]
           \/ stage[c] = "running" /\ stage' = [stage EXCEPT ![c] = "finished"]
           \/ UNCHANGED stage
    PROVE  Unseen
<1>1. stage \in [Commands -> Stages]
      BY DEF QueueInv, QueueTypeOK
<1>2. /\ \A d \in Commands : d # c => stage'[d] = stage[d]
      /\ stage'[c] = "settled" <=> stage[c] = "settled"
      /\ StatusOf(stage'[c]) = StatusOf(stage[c])
      BY <1>1, Statuses
<1>3. LineStatus' = LineStatus
      BY <1>2 DEF LineStatus
<1>4. \A d \in Commands : stage'[d] = "settled" <=> stage[d] = "settled"
      BY <1>2
<1> QED BY <1>3, <1>4, NobodyLeaves DEF Unseen

\* Every step of the queue is a step of the line, or none.
LEMMA StepIsLineStep ==
    QueueInv /\ QueueInv' /\ [QueueNext]_queueVars
    => Unseen \/ Line!LineNext
<1> SUFFICES ASSUME QueueInv, QueueInv', [QueueNext]_queueVars
             PROVE  Unseen \/ Line!LineNext
    OBVIOUS
<1>1. ASSUME UNCHANGED <<accepted, released, stage>>
      PROVE  Unseen
      BY <1>1 DEF Unseen, Waiting, Gone, LineStatus
<1>2. ASSUME NEW c \in Commands, Enqueue(c)
      PROVE  Line!LineNext
      BY <1>2, RefuseIsTurnAway, AcceptIsLetIn DEF Enqueue, Line!LineNext
<1>3. ASSUME NEW c \in Commands, StartJob(c)
      PROVE  Line!LineNext
      BY <1>3, RunIsServe DEF StartJob, Line!LineNext
<1>4. ASSUME NEW c \in Commands, NEW r, FinishAtOnceJob(c, r)
      PROVE  Line!LineNext
      BY <1>4, RunIsServe DEF FinishAtOnceJob, Line!LineNext
<1>5. ASSUME NEW c \in Commands, SkipJob(c)
      PROVE  Unseen
      <2>1. JobMatches(Job("run", c))
            BY <1>5, Turn DEF QueueJobs, SkipJob
      <2>2. stage[c] = "queued"
            BY <2>1 DEF JobMatches, Job
      <2> QED BY <1>5, <2>2, MoveIsUnseen DEF SkipJob
<1>6. ASSUME NEW c \in Commands, SettleJob(c)
      PROVE  Line!LineNext
      BY <1>6, SettleIsAnswer DEF Line!LineNext
<1>7. ASSUME NEW c \in Commands, AdoptJob(c) \/ CleanupJob(c)
      PROVE  Unseen
      BY <1>7, MoveIsUnseen DEF AdoptJob, CleanupJob
<1>8. ASSUME NEW c \in Commands, NEW r, TaskSettles(c, r)
      PROVE  Unseen
      BY <1>8, MoveIsUnseen DEF TaskSettles
<1> QED BY <1>1, <1>2, <1>3, <1>4, <1>5, <1>6, <1>7, <1>8, TailIsUnseen
        DEF QueueNext, QueueJob, Close, Abort, SignalFires, queueVars

\* Callers see a first-come first-served line with a single server.
THEOREM LineImplemented == QueueSpec => ImplementsLine
<1>1. QueueInit => Line!LineInit
      <2> SUFFICES ASSUME QueueInit PROVE Line!LineInit
          OBVIOUS
      <2>1. accepted = <<>> /\ released = 0 /\ stage = [c \in Commands |-> "new"]
            BY DEF QueueInit
      <2>2. Gone = 0
            BY <2>1 DEF Gone
      <2>3. Waiting = <<>>
            BY <2>1, <2>2, SubSeqEmpty DEF Waiting
      <2>4. LineStatus = [c \in Commands |-> "idle"]
            BY <2>1, Statuses DEF LineStatus
      <2> QED BY <2>3, <2>4 DEF Line!LineInit, Waiting
<1>2. QueueInv /\ QueueInv' /\ [QueueNext]_queueVars
      => [Line!LineNext]_(Line!lineVars)
      BY StepIsLineStep DEF Unseen, Line!lineVars, Waiting
<1> QED BY <1>1, <1>2, Invariance, PTL
        DEF QueueSpec, ImplementsLine, Line!LineSpec
===============================================================================
