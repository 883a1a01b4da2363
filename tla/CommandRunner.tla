---------------------------- MODULE CommandRunner ----------------------------
(***************************************************************************)
(* DefaultCommandRunner of src/internal/execution/default-runner.ts on its *)
(* SessionQueue, over a Transport the SDK does not own.                    *)
(*                                                                         *)
(* The task the queue runs is #executeFramed: check isOpen, send (or       *)
(* stream) one frame, race the transport against the command deadline, the *)
(* idle deadline and the caller's abort, and on the way out decide what    *)
(* the caller is told and whether the session can still be trusted. Every  *)
(* await is a promise job, in the same FIFO as the jobs of the queue:      *)
(*                                                                         *)
(*   react    the race of #executeFramed or #collectStream is decided      *)
(*   step     #collectStream goes on after its await                       *)
(*   resume   #executeFramed goes on after its await                       *)
(*   close    #invalidateSession's deferred call of Transport.close        *)
(*                                                                         *)
(* The transport and the router behind it are external and act between any *)
(* two jobs: `wire' holds the commands of the present session whose output *)
(* the router has not delivered in full, oldest first, and the router      *)
(* answers them in that order whoever is waiting. Timers fire only when no *)
(* promise job is left, as the event loop has it.                          *)
(***************************************************************************)
EXTENDS SessionQueue, SequencesExt

CONSTANTS
    Streaming,       \* TRUE if the transport implements stream()
    MaxOutputBytes,  \* limits.maxOutputBytes
    Sizes,           \* sizes of an answer, or of one streamed chunk
    AbortReplies,    \* how the transport treats the abort of its signal
    TimeoutSignals   \* signals whose abort reason is an execution_timeout error

ASSUME RunnerAssumption ==
    /\ Streaming \in BOOLEAN
    /\ MaxOutputBytes \in Nat \ {0}
    /\ Sizes \subseteq Nat
    /\ AbortReplies \subseteq {"ignore", "reject", "time_out", "resolve"}
    /\ TimeoutSignals \subseteq Signals

VARIABLES
    race,     \* what the await of each exchange settled with, "none" if pending
    reason,   \* controller.signal.reason of each exchange
    timers,   \* the commands whose command deadline is armed
    idling,   \* the commands whose idle deadline is armed
    bytes,    \* bytes received for each command
    got,      \* the commands whose output each exchange has received
    open,     \* Transport.isOpen
    wire      \* commands of this session whose output is still to come

exchangeVars == <<race, reason, timers, idling, bytes, got>>
sessionVars == <<open, wire>>
runnerVars == <<queueVars, exchangeVars, sessionVars>>

-----------------------------------------------------------------------------
\* "timeout" is the error of a deadline of the runner, "transport_timeout" an
\* execution_timeout error of the transport's own.
Races == {"none", "chunk", "answer", "error", "transport_timeout", "timeout",
          "abort", "limit"}
Reasons == {"none", "timeout", "abort", "limit"}
RunnerResults == {"ok", "error", "timeout", "aborted", "limit",
                  "session_closed"}
RunnerJobs == {"react", "step", "resume", "close"}

Running(c) == stage[c] = "running"

RunnerInit ==
    /\ QueueInit
    /\ race = [c \in Commands |-> "none"]
    /\ reason = [c \in Commands |-> "none"]
    /\ timers = {}
    /\ idling = {}
    /\ bytes = [c \in Commands |-> 0]
    /\ got = [c \in Commands |-> {}]
    /\ open = TRUE
    /\ wire = <<>>

-----------------------------------------------------------------------------
(* Callers *)

\* #dispatch: framing, limits and size are checked before the queue is asked.
Submit(c) ==
    /\ Enqueue(c) \/ Refuse(c, "invalid")
    /\ UNCHANGED <<exchangeVars, sessionVars>>

\* Mutant of StopExchange: the exchange is aborted, but its race is left to the
\* transport.
StopExchangePolitely(c, why, reply) ==
    /\ reason' = [reason EXCEPT ![c] = IF @ = "none" THEN why ELSE @]
    /\ IF race[c] = "none" /\ reply \in {"reject", "time_out"}
       THEN /\ race' = [race EXCEPT ![c] = IF reply = "reject" THEN "error"
                                           ELSE "transport_timeout"]
            /\ jobs' = Append(jobs, Job("react", c))
       ELSE UNCHANGED <<race, jobs>>

\* Aborting the controller of an exchange: only the first reason is kept. The
\* transport's own listener is called first, so a transport that settles its
\* promise there is ahead of the deadline or abort that is rejected next.
StopExchange(c, why, reply) ==
    /\ reason' = [reason EXCEPT ![c] = IF @ = "none" THEN why ELSE @]
    /\ race' = [race EXCEPT ![c] =
                  IF @ # "none" THEN @
                  ELSE CASE reply = "ignore" -> why
                         [] reply = "reject" -> "error"
                         [] reply = "time_out" -> "transport_timeout"
                         [] reply = "resolve" -> "answer"]
    /\ jobs' = IF race[c] = "none" THEN Append(jobs, Job("react", c)) ELSE jobs

\* A caller aborts while none of the signal's commands is on the wire.
AbortWaiting(s) ==
    /\ \A c \in ListenersOf(s) : ~Running(c)
    /\ Abort(s)
    /\ UNCHANGED <<exchangeVars, sessionVars>>

\* A caller aborts the command on the wire, and whatever else shares the signal.
AbortRunning(s, c) ==
    /\ c \in ListenersOf(s)
    /\ Running(c)
    /\ SignalFires(s)
    /\ \E reply \in AbortReplies : StopExchange(c, "abort", reply)
    /\ UNCHANGED <<timers, idling, bytes, got, sessionVars>>

\* Transport.close: the session is gone, and its pending output with it.
CloseSession ==
    /\ open' = FALSE
    /\ wire' = <<>>

\* CommandRunner.close, called by the owner of the client at any moment.
CloseRunner ==
    /\ Close
    /\ CloseSession
    /\ UNCHANGED exchangeVars

-----------------------------------------------------------------------------
(* The transport and the router *)

\* The race of c is decided by the transport, unless it already was.
Offer(c, what) ==
    IF race[c] = "none"
    THEN /\ race' = [race EXCEPT ![c] = what]
         /\ jobs' = Append(jobs, Job("react", c))
    ELSE UNCHANGED <<race, jobs>>

\* Output arrives for the command that waits, from the oldest one on the wire.
Receive(c, n) ==
    IF race[c] = "none"
    THEN /\ got' = [got EXCEPT ![c] = @ \cup {Head(wire)}]
         /\ bytes' = [bytes EXCEPT ![c] = @ + n]
    ELSE UNCHANGED <<got, bytes>>

\* The wire once the output of c, the last command sent, is no longer to come.
WireWithout(c) == IF c \in ToSet(wire) THEN Front(wire) ELSE wire

\* The session delivers to the exchange of c, which has a share in it.
Connected(c) == Running(c) /\ c \in ToSet(wire)

\* The prompt returns: send() fulfils, or stream() is done. The answer may come
\* too late for a race the deadline has won.
Answers(c) ==
    /\ Connected(c)
    /\ \E n \in IF Streaming THEN {0} ELSE Sizes : Receive(c, n)
    /\ Offer(c, "answer")
    /\ wire' = Tail(wire)
    /\ UNCHANGED <<closed, signalled, accepted, released, listening, aborted,
                   adopted, stage, outcome, reason, timers, idling, open>>

\* stream() yields one chunk.
YieldsChunk(c) ==
    /\ Streaming
    /\ Connected(c)
    /\ race[c] = "none"
    /\ \E n \in Sizes : Receive(c, n)
    /\ Offer(c, "chunk")
    /\ UNCHANGED <<closed, signalled, accepted, released, listening, aborted,
                   adopted, stage, outcome, reason, timers, idling,
                   sessionVars>>

\* The transport gives up on the command by itself. With an error of its own it
\* drops the output; with an execution_timeout it need not, as the runner then
\* gives the session up.
Fails(c) ==
    /\ Running(c)
    /\ race[c] = "none"
    /\ \/ Offer(c, "error") /\ wire' = WireWithout(c)
       \/ Offer(c, "transport_timeout") /\ UNCHANGED wire
    /\ UNCHANGED <<closed, signalled, accepted, released, listening, aborted,
                   adopted, stage, outcome, reason, timers, idling, bytes, got,
                   open>>

SessionDrops ==
    /\ open
    /\ CloseSession
    /\ UNCHANGED <<queueVars, exchangeVars>>

Reconnects ==
    /\ ~open
    /\ open' = TRUE
    /\ UNCHANGED <<queueVars, exchangeVars, wire>>

-----------------------------------------------------------------------------
(* Timers: macrotasks, so no promise job is left when one fires *)

DeadlineFires(c) ==
    /\ jobs = <<>>
    /\ c \in timers
    /\ timers' = timers \ {c}
    /\ \E reply \in AbortReplies : StopExchange(c, "timeout", reply)
    /\ UNCHANGED <<closed, signalled, accepted, released, listening, aborted,
                   adopted, stage, outcome, idling, bytes, got, sessionVars>>

IdleFires(c) ==
    /\ jobs = <<>>
    /\ c \in idling
    /\ idling' = idling \ {c}
    /\ \E reply \in AbortReplies : StopExchange(c, "timeout", reply)
    /\ UNCHANGED <<closed, signalled, accepted, released, listening, aborted,
                   adopted, stage, outcome, timers, bytes, got, sessionVars>>

-----------------------------------------------------------------------------
(* #executeFramed and #collectStream *)

\* #executeFramed finds the session closed, or send() throws on the spot.
RefuseToSend(c) ==
    /\ IF open THEN FinishAtOnceJob(c, "error")
               ELSE FinishAtOnceJob(c, "session_closed")
    /\ UNCHANGED <<exchangeVars, sessionVars>>

\* The frame goes out and the race begins.
Send(c) ==
    /\ open
    /\ StartJob(c)
    /\ wire' = Append(wire, c)
    /\ timers' = timers \cup {c}
    /\ idling' = IF Streaming THEN idling \cup {c} ELSE idling
    /\ UNCHANGED <<race, reason, bytes, got, open>>

\* The await is over one job after the race; who goes on depends on the form.
ReactJob(c) ==
    /\ Runs("react", c)
    /\ jobs' = Append(Tail(jobs), Job(IF Streaming THEN "step" ELSE "resume", c))
    /\ UNCHANGED <<closed, signalled, accepted, released, listening, aborted,
                   adopted, stage, outcome, exchangeVars, sessionVars>>

\* A chunk within the ceiling: loop. If the caller aborted meanwhile, the next
\* race is lost to that abort, or won by what the iterator holds already: a
\* chunk, maybe an empty one, the end of the stream, or an error.
NextChunk(c) ==
    /\ Runs("step", c)
    /\ race[c] = "chunk"
    /\ bytes[c] <= MaxOutputBytes
    /\ idling' = idling \cup {c}
    /\ \/ /\ c \notin aborted
          /\ race' = [race EXCEPT ![c] = "none"]
          /\ jobs' = Tail(jobs)
          /\ UNCHANGED <<bytes, wire>>
       \/ /\ c \in aborted
          /\ jobs' = Append(Tail(jobs), Job("react", c))
          /\ \E n \in Sizes : bytes' = [bytes EXCEPT ![c] = @ + n]
          /\ UNCHANGED <<race, wire>>
       \/ /\ c \in aborted
          /\ jobs' = Append(Tail(jobs), Job("react", c))
          /\ \E what \in {"abort", "answer", "error", "transport_timeout"} :
                /\ race' = [race EXCEPT ![c] = what]
                /\ wire' = IF what \in {"answer", "error"} THEN WireWithout(c) ELSE wire
          /\ UNCHANGED bytes
    /\ UNCHANGED <<closed, signalled, accepted, released, listening, aborted,
                   adopted, stage, outcome, reason, timers, got, open>>

\* #failOnOutputLimit: abort the exchange, close the queue, schedule the close.
LimitReason(c) == IF reason[c] = "none" THEN "limit" ELSE reason[c]

\* Mutant of ChunkOverLimit: the queue is left open.
ChunkOverLimitLeavesQueue(c) ==
    /\ Runs("step", c)
    /\ race[c] = "chunk"
    /\ bytes[c] > MaxOutputBytes
    /\ idling' = idling \ {c}
    /\ race' = [race EXCEPT ![c] = "limit"]
    /\ reason' = [reason EXCEPT ![c] = LimitReason(c)]
    /\ jobs' = Tail(jobs) \o <<Job("close", c), Job("resume", c)>>
    /\ UNCHANGED <<closed, signalled, accepted, released, listening, aborted,
                   adopted, stage, outcome, timers, bytes, got, sessionVars>>

\* The first chunk over the ceiling stops #collectStream.
ChunkOverLimit(c) ==
    /\ Runs("step", c)
    /\ race[c] = "chunk"
    /\ bytes[c] > MaxOutputBytes
    /\ idling' = idling \ {c}
    /\ race' = [race EXCEPT ![c] = "limit"]
    /\ reason' = [reason EXCEPT ![c] = LimitReason(c)]
    /\ closed' = TRUE
    /\ jobs' = Tail(jobs) \o <<Job("close", c), Job("resume", c)>>
    /\ UNCHANGED <<signalled, accepted, released, listening, aborted, adopted,
                   stage, outcome, timers, bytes, got, sessionVars>>

\* Mutant of StreamEnds: the idle deadline is not cleared.
StreamEndsIdling(c) ==
    /\ Runs("step", c)
    /\ race[c] # "chunk"
    /\ jobs' = Append(Tail(jobs), Job("resume", c))
    /\ UNCHANGED <<closed, signalled, accepted, released, listening, aborted,
                   adopted, stage, outcome, exchangeVars, sessionVars>>

\* #collectStream returns, or throws what the race rejected with.
StreamEnds(c) ==
    /\ Runs("step", c)
    /\ race[c] # "chunk"
    /\ idling' = idling \ {c}
    /\ jobs' = Append(Tail(jobs), Job("resume", c))
    /\ UNCHANGED <<closed, signalled, accepted, released, listening, aborted,
                   adopted, stage, outcome, race, reason, timers, bytes, got,
                   sessionVars>>

\* Mutant of Ends: the closes are scheduled once the caller has been told.
EndsThenCloses(c, r, closes) ==
    /\ stage' = [stage EXCEPT ![c] = "finished"]
    /\ outcome' = [outcome EXCEPT ![c] = r]
    /\ timers' = timers \ {c}
    /\ jobs' = Tail(jobs) \o SettleReaction(c) \o closes
    /\ UNCHANGED <<signalled, accepted, released, listening, aborted, adopted,
                   race, idling, bytes, got, sessionVars>>

\* Mutant of Ends: no finally clears the deadline.
EndsTimed(c, r, closes) ==
    /\ stage' = [stage EXCEPT ![c] = "finished"]
    /\ outcome' = [outcome EXCEPT ![c] = r]
    /\ jobs' = Tail(jobs) \o closes \o SettleReaction(c)
    /\ UNCHANGED <<signalled, accepted, released, listening, aborted, adopted,
                   race, timers, idling, bytes, got, sessionVars>>

\* Mutant of Ends: the queue does not learn that the task has settled.
EndsSilently(c, r, closes) ==
    /\ stage' = [stage EXCEPT ![c] = "finished"]
    /\ outcome' = [outcome EXCEPT ![c] = r]
    /\ timers' = timers \ {c}
    /\ jobs' = Tail(jobs) \o closes
    /\ UNCHANGED <<signalled, accepted, released, listening, aborted, adopted,
                   race, idling, bytes, got, sessionVars>>

\* The end of #executeFramed: its promise settles, after the closes it asked
\* for were scheduled, and finally clears the deadline.
Ends(c, r, closes) ==
    /\ stage' = [stage EXCEPT ![c] = "finished"]
    /\ outcome' = [outcome EXCEPT ![c] = r]
    /\ timers' = timers \ {c}
    /\ jobs' = Tail(jobs) \o closes \o SettleReaction(c)
    /\ UNCHANGED <<signalled, accepted, released, listening, aborted, adopted,
                   race, idling, bytes, got, sessionVars>>

\* isTimeout: the error of a deadline, the transport's own execution_timeout, or
\* the one the caller of c gave as the reason of its abort.
IsTimeout(c, error) ==
    \/ error \in {"timeout", "transport_timeout"}
    \/ error = "abort" /\ SignalOf[c] \in TimeoutSignals

\* Mutant of Verdict: the transport's own error hides the deadline that caused it.
VerdictOfError(c, thrown, why) ==
    CASE IsTimeout(c, thrown) -> "timeout"
      [] ~IsTimeout(c, thrown) /\ c \in aborted -> "aborted"
      [] OTHER -> thrown

\* The catch block: a timeout outranks an abort, which outranks the error.
Verdict(c, thrown, why) ==
    LET timeout == IsTimeout(c, thrown) \/ IsTimeout(c, why)
    IN  CASE timeout -> "timeout"
          [] ~timeout /\ c \in aborted -> "aborted"
          [] OTHER -> thrown

\* Mutant of CatchClose: an aborted exchange leaves the session open.
CatchCloseOnTimeout(c, verdict) ==
    IF verdict = "timeout" THEN <<Job("close", c)>> ELSE <<>>

\* The catch block gives the session up on a timeout and on an abort only.
CatchClose(c, verdict) ==
    IF verdict \in {"timeout", "aborted"} THEN <<Job("close", c)>> ELSE <<>>

Oversized(c) == race[c] = "answer" /\ bytes[c] > MaxOutputBytes

Fulfils(c) ==
    /\ Runs("resume", c)
    /\ race[c] = "answer"
    /\ ~Oversized(c)
    /\ Ends(c, "ok", <<>>)
    /\ UNCHANGED <<closed, reason>>

\* Mutant of AnswerOverLimit: the queue is left open.
AnswerOverLimitLeavesQueue(c) ==
    /\ Runs("resume", c)
    /\ Oversized(c)
    /\ reason' = [reason EXCEPT ![c] = LimitReason(c)]
    /\ LET verdict == Verdict(c, "limit", LimitReason(c))
       IN  Ends(c, verdict, <<Job("close", c)>> \o CatchClose(c, verdict))
    /\ UNCHANGED closed

AnswerOverLimit(c) ==
    /\ Runs("resume", c)
    /\ Oversized(c)
    /\ reason' = [reason EXCEPT ![c] = LimitReason(c)]
    /\ closed' = TRUE
    /\ LET verdict == Verdict(c, "limit", LimitReason(c))
       IN  Ends(c, verdict, <<Job("close", c)>> \o CatchClose(c, verdict))

Throws(c) ==
    /\ Runs("resume", c)
    /\ race[c] # "answer"
    /\ LET verdict == Verdict(c, race[c], reason[c])
       IN  Ends(c, verdict, CatchClose(c, verdict))
    /\ UNCHANGED <<closed, reason>>

\* #invalidateSession's job: Transport.close, whose promise nobody awaits.
CloseJob(c) ==
    /\ Runs("close", c)
    /\ jobs' = Tail(jobs)
    /\ CloseSession
    /\ UNCHANGED <<closed, signalled, accepted, released, listening, aborted,
                   adopted, stage, outcome, exchangeVars>>

\* Every promise job of the runner and of its queue.
PromiseJob(c) ==
    \/ QueueJob(c) /\ UNCHANGED <<exchangeVars, sessionVars>>
    \/ RefuseToSend(c)
    \/ Send(c)
    \/ ReactJob(c)
    \/ NextChunk(c)
    \/ ChunkOverLimit(c)
    \/ StreamEnds(c)
    \/ Fulfils(c)
    \/ AnswerOverLimit(c)
    \/ Throws(c)
    \/ CloseJob(c)

-----------------------------------------------------------------------------
Environment ==
    \/ CloseRunner
    \/ SessionDrops
    \/ Reconnects
    \/ \E s \in Signals : AbortWaiting(s)
    \/ \E s \in Signals, c \in Commands : AbortRunning(s, c)
    \/ \E c \in Commands :
          Submit(c) \/ Answers(c) \/ YieldsChunk(c) \/ Fails(c)

RunnerNext ==
    \/ Environment
    \/ \E c \in Commands : PromiseJob(c) \/ DeadlineFires(c) \/ IdleFires(c)

RunnerSpec == RunnerInit /\ [][RunnerNext]_runnerVars

\* The abort of the caller settles a race of #collectStream.
AbortOvertakes(c) == NextChunk(c) /\ race'[c] = "abort"

\* The engine runs every promise job, and a timer that stays armed fires however
\* often chunks keep the event loop busy. A stream may hold chunks buffered, but
\* not for ever: sooner or later an abort overtakes them. Nothing else is assumed
\* of the transport, and nothing of the router or of the idle deadline.
RunnerFairness ==
    \A c \in Commands :
        /\ WF_runnerVars(PromiseJob(c))
        /\ SF_runnerVars(AbortOvertakes(c))
        /\ SF_runnerVars(DeadlineFires(c))

FairRunnerSpec == RunnerSpec /\ RunnerFairness

-----------------------------------------------------------------------------
(* What the runner promises *)

\* Every variable has its type; the job queue holds the jobs of both parts.
RunnerTypeOK ==
    /\ closed \in BOOLEAN
    /\ signalled \subseteq Signals
    /\ accepted \in Seq(Commands)
    /\ released \in 0..Len(accepted)
    /\ listening \subseteq Commands
    /\ aborted \subseteq Commands
    /\ adopted \subseteq Commands
    /\ stage \in [Commands -> Stages]
    /\ outcome \in [Commands -> RunnerResults \cup {"none", "closed", "invalid"}]
    /\ jobs \in Seq([kind : QueueJobs \cup RunnerJobs, cmd : Commands])
    /\ race \in [Commands -> Races]
    /\ reason \in [Commands -> Reasons]
    /\ timers \subseteq Commands
    /\ idling \subseteq Commands
    /\ bytes \in [Commands -> Nat]
    /\ got \in [Commands -> SUBSET Commands]
    /\ open \in BOOLEAN
    /\ wire \in Seq(Commands)

\* A fulfilled command carries its own output and no other's: "the abandoned
\* command's output ... would corrupt the next exchange". The router answers in
\* order, so one command left behind on a session shifts every later answer.
AnswerIsOwn ==
    \A c \in Commands : outcome[c] = "ok" => got[c] \subseteq {c}

\* By the time a caller sees how its command ended, nothing of that command can
\* still arrive: the session it was abandoned on has been closed before the
\* rejection is delivered, although nobody awaits that close.
AnsweredIsOffTheWire ==
    \A c \in Commands : Answered(c) => c \notin ToSet(wire)

\* The close scheduled for one command never lands on the session of another:
\* it runs before the next command is sent, even when two are scheduled.
CloseSparesOthers ==
    (jobs # <<>> /\ Head(jobs).kind = "close")
    => \A d \in Commands : Running(d) => d = Head(jobs).cmd

\* "Timeouts are hard": a command whose deadline passed while it was on the wire
\* is reported as timed out, whatever the transport does with its signal.
TimeoutIsHard ==
    \A c \in Commands :
        reason[c] = "timeout" /\ Answered(c) => outcome[c] = "timeout"

\* The caller is told the truth: a timeout only if a deadline of this command
\* fired, the transport reported one of its own, or the caller itself aborted
\* with one; an abort only if its own signal fired; and an oversized response is
\* never delivered and leaves the runner closed for good.
VerdictIsTrue ==
    \A c \in Commands : Answered(c) =>
        /\ outcome[c] = "timeout" => \/ reason[c] = "timeout"
                                    \/ race[c] = "transport_timeout"
                                    \/ SignalOf[c] \in signalled \cap TimeoutSignals
        /\ outcome[c] = "aborted" => SignalOf[c] \in signalled
        /\ bytes[c] > MaxOutputBytes => closed /\ outcome[c] # "ok"

\* A deadline outlives its exchange neither armed nor firing: once the jobs have
\* run, timers are armed for the command on the wire alone.
NoTimerLeft ==
    jobs = <<>> => \A c \in timers \cup idling : Running(c)

\* "Queued commands never wait on a hung exchange": every accepted command ends,
\* on fair jobs and timers alone, however the transport behaves.
AcceptedEnds ==
    \A c \in Commands : stage[c] = "queued" ~> stage[c] = "settled"

-----------------------------------------------------------------------------
(* The runner drives its queue as SessionQueue specifies. *)

IsQueueJob(j) == j.kind \in QueueJobs

\* The queue's own jobs among s, in the order they have there.
QueuePart(s) ==
    LET part[n \in 0..Len(s)] ==
            IF n = 0 THEN <<>>
            ELSE IF IsQueueJob(s[n]) THEN Append(part[n - 1], s[n])
            ELSE part[n - 1]
    IN  part[Len(s)]

\* A command refused by #dispatch never reaches the queue.
Seen(c) == outcome[c] # "invalid"

SeenStage == [c \in Commands |-> IF Seen(c) THEN stage[c] ELSE "new"]
SeenOutcome == [c \in Commands |-> IF Seen(c) THEN outcome[c] ELSE "none"]

Queue == INSTANCE SessionQueue
            WITH Results <- RunnerResults,
                 jobs    <- QueuePart(jobs),
                 stage   <- SeenStage,
                 outcome <- SeenOutcome

\* With its own jobs left out of the promise job queue, every step of the runner
\* is a step of the queue, or none.
ImplementsQueue == Queue!QueueSpec
===============================================================================
