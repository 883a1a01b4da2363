------------------------------ MODULE Invocation ------------------------------
(***************************************************************************)
(* A typed call: Vigor3912SClient.invoke (src/client.ts), runOperation     *)
(* (internal/execution/run-operation.ts) and detectCliRejection            *)
(* (internal/execution/cli-outcome.ts), next to raw execute() calls on the *)
(* same session.                                                           *)
(*                                                                         *)
(* The runner is the serial line it implements (SerialSession). An         *)
(* operation is the frames it builds; they are sent one after the other,   *)
(* each only when the exchange before it has been judged, and between two  *)
(* of them the line is anybody's. An exchange is what detectCliRejection   *)
(* tells apart: whether stderr has text, and the kind of each stdout line. *)
(***************************************************************************)
EXTENDS SerialSession, SequencesExt

CONSTANTS
    Calls,       \* the calls of invoke()
    WithRunner,  \* the calls on a client that was built with a runner
    Canonical,   \* the calls whose descriptor is the registry's own
    BadInput,    \* the calls whose schema check, or builder, refuses the input
    FramesOf,    \* the commands each call's builder returns
    Rejecting,   \* line kinds that match one of REJECTION_PATTERNS
    Accepting,   \* all other line kinds: data, acknowledgements
    Exchanges    \* the exchanges a transport may resolve with

FramesIn(i) == ToSet(FramesOf[i])

ASSUME InvocationAssumption ==
    /\ WithRunner \subseteq Calls
    /\ Canonical \subseteq Calls
    /\ BadInput \subseteq Calls
    /\ FramesOf \in [Calls -> Seq(Commands)]
    /\ \A i \in Calls : IsInjective(FramesOf[i])
    /\ \A i, j \in Calls : i # j => FramesIn(i) \cap FramesIn(j) = {}
    /\ Rejecting \cap Accepting = {}
    /\ Exchanges \subseteq [stderr : BOOLEAN, lines : Seq(Rejecting \cup Accepting)]

VARIABLES
    heard,   \* the exchange each command resolved with
    failed,  \* the commands the runner rejected
    next,    \* how many frames of each call have been submitted
    kept,    \* the commands whose exchanges each call will parse
    told     \* how each call ended

callVars == <<heard, failed, next, kept, told>>
invocationVars == <<callVars, lineVars>>

Silence == [stderr |-> FALSE, lines |-> <<>>]

Outcomes == {"pending", "not_implemented", "forged", "invalid_input",
             "runner_error", "command_rejected", "parsed", "parse_error"}

InvocationInit ==
    /\ LineInit
    /\ heard = [c \in Commands |-> Silence]
    /\ failed = {}
    /\ next = [i \in Calls |-> 0]
    /\ kept = [i \in Calls |-> <<>>]
    /\ told = [i \in Calls |-> "pending"]

-----------------------------------------------------------------------------
(* detectCliRejection *)

\* Mutant of Rejection: only the last line is looked at.
RejectionOfLast(exchange) ==
    CASE exchange.stderr -> "stderr"
      [] /\ ~exchange.stderr
         /\ exchange.lines # <<>>
         /\ Last(exchange.lines) \in Rejecting -> "stdout"
      [] OTHER -> "none"

\* Where the reason of a rejection was found: text on stderr, or else a stdout
\* line that matches a pattern.
Rejection(exchange) ==
    CASE exchange.stderr -> "stderr"
      [] /\ ~exchange.stderr
         /\ \E l \in ToSet(exchange.lines) : l \in Rejecting -> "stdout"
      [] OTHER -> "none"

-----------------------------------------------------------------------------
(* invoke and runOperation *)

\* The call ends before or between commands.
Settle(i, outcome) ==
    /\ told' = [told EXCEPT ![i] = outcome]
    /\ UNCHANGED <<heard, failed, next, kept, lineVars>>

\* The next frame goes to the runner, which lets it in or rejects it at once
\* (framing, limits, a closed queue, an aborted signal).
Submit(i) ==
    LET c == FramesOf[i][next[i] + 1]
    IN  /\ next' = [next EXCEPT ![i] = @ + 1]
        /\ \/ LetIn(c) /\ UNCHANGED failed
           \/ TurnAway(c) /\ failed' = failed \cup {c}

Unstarted(i) == told[i] = "pending" /\ next[i] = 0

\* The call is refused before any command exists, in the order of the checks.
Refuse(i) ==
    /\ Unstarted(i)
    /\ \/ i \notin WithRunner /\ Settle(i, "not_implemented")
       \/ i \in WithRunner \ Canonical /\ Settle(i, "forged")
       \/ /\ i \in WithRunner \cap Canonical
          /\ i \in BadInput \/ FramesOf[i] = <<>>
          /\ Settle(i, "invalid_input")

\* Mutant of Start: any descriptor with a known shape is run.
StartForged(i) ==
    /\ Unstarted(i)
    /\ i \in WithRunner \ BadInput
    /\ FramesOf[i] # <<>>
    /\ Submit(i)
    /\ UNCHANGED <<heard, kept, told>>

Start(i) ==
    /\ Unstarted(i)
    /\ i \in WithRunner \cap Canonical
    /\ i \notin BadInput
    /\ FramesOf[i] # <<>>
    /\ Submit(i)
    /\ UNCHANGED <<heard, kept, told>>

\* The command the call awaits has been answered.
Awaited(i) == FramesOf[i][next[i]]

Resumes(i) ==
    /\ told[i] = "pending"
    /\ next[i] > 0
    /\ status[Awaited(i)] = "answered"

\* Mutant of FailsWithRunner: only the first await is in reach of a handler.
FailsWithRunnerAtFirst(i) ==
    /\ Resumes(i)
    /\ next[i] = 1
    /\ Awaited(i) \in failed
    /\ Settle(i, "runner_error")

\* The await throws: the call ends with the runner's error.
FailsWithRunner(i) ==
    /\ Resumes(i)
    /\ Awaited(i) \in failed
    /\ Settle(i, "runner_error")

RejectsCommand(i) ==
    /\ Resumes(i)
    /\ Awaited(i) \notin failed
    /\ Rejection(heard[Awaited(i)]) # "none"
    /\ Settle(i, "command_rejected")

Accepts(i) ==
    /\ Resumes(i)
    /\ Awaited(i) \notin failed
    /\ Rejection(heard[Awaited(i)]) = "none"

\* Mutant of SendsNext: the frame is sent before the exchange is judged.
SendsNextUnjudged(i) ==
    /\ Resumes(i)
    /\ Awaited(i) \notin failed
    /\ next[i] < Len(FramesOf[i])
    /\ kept' = [kept EXCEPT ![i] = Append(@, Awaited(i))]
    /\ Submit(i)
    /\ UNCHANGED <<heard, told>>

\* Mutant of SendsNext: the exchange is dropped.
SendsNextForgetting(i) ==
    /\ Accepts(i)
    /\ next[i] < Len(FramesOf[i])
    /\ Submit(i)
    /\ UNCHANGED <<heard, kept, told>>

\* The exchange is kept and the next frame submitted, before anyone else runs.
SendsNext(i) ==
    /\ Accepts(i)
    /\ next[i] < Len(FramesOf[i])
    /\ kept' = [kept EXCEPT ![i] = Append(@, Awaited(i))]
    /\ Submit(i)
    /\ UNCHANGED <<heard, told>>

\* Every frame is accepted: the exchanges are parsed, or the parser throws.
Parses(i) ==
    /\ Accepts(i)
    /\ next[i] = Len(FramesOf[i])
    /\ kept' = [kept EXCEPT ![i] = Append(@, Awaited(i))]
    /\ \E outcome \in {"parsed", "parse_error"} :
          told' = [told EXCEPT ![i] = outcome]
    /\ UNCHANGED <<heard, failed, next, lineVars>>

-----------------------------------------------------------------------------
(* The runner, and raw execute() *)

RawCommands == Commands \ UNION {FramesIn(i) : i \in Calls}

\* execute() of a client with a runner hands it the command, and the caller the
\* result, unjudged.
Execute(c) ==
    /\ c \in RawCommands
    /\ \/ LetIn(c) /\ UNCHANGED failed
       \/ TurnAway(c) /\ failed' = failed \cup {c}
    /\ UNCHANGED <<heard, next, kept, told>>

Exchange(c) ==
    \/ Serve(c) /\ UNCHANGED callVars
    \/ /\ GiveUp(c) \/ Answer(c)
       /\ failed' = failed \cup {c}
       /\ UNCHANGED <<heard, next, kept, told>>
    \/ /\ Answer(c)
       /\ \E exchange \in Exchanges : heard' = [heard EXCEPT ![c] = exchange]
       /\ UNCHANGED <<failed, next, kept, told>>

Proceeds(i) ==
    FailsWithRunner(i) \/ RejectsCommand(i) \/ SendsNext(i) \/ Parses(i)

InvocationNext ==
    \/ \E i \in Calls : Refuse(i) \/ Start(i) \/ Proceeds(i)
    \/ \E c \in Commands : Execute(c) \/ Exchange(c)

InvocationSpec == InvocationInit /\ [][InvocationNext]_invocationVars

\* The engine resumes awaited calls, and the runner answers what it let in
\* (AcceptedEnds of CommandRunner).
FairInvocationSpec ==
    /\ InvocationSpec
    /\ \A i \in Calls : WF_invocationVars(Proceeds(i))
    /\ \A c \in Commands : WF_invocationVars(Exchange(c))

-----------------------------------------------------------------------------
(* What a typed call promises *)

\* Every variable has its type; what is kept is a prefix of what was submitted.
InvocationTypeOK ==
    /\ heard \in [Commands -> Exchanges \cup {Silence}]
    /\ failed \subseteq Commands
    /\ told \in [Calls -> Outcomes]
    /\ \A i \in Calls :
          /\ next[i] \in 0..Len(FramesOf[i])
          /\ Len(kept[i]) \in {next[i] - 1, next[i]}
          /\ IsPrefix(kept[i], FramesOf[i])

\* The exchange is a normal result: nothing on stderr, and no stdout line, first
\* or last, is a failure.
Normal(exchange) ==
    /\ ~exchange.stderr
    /\ \A l \in ToSet(exchange.lines) : l \notin Rejecting

\* "Never parse a rejected command as a result": the parser sees the exchanges of
\* all its frames, in their order, and every one is a normal result, whatever
\* other callers did on the session meanwhile.
ParsesNormalResultsOnly ==
    \A i \in Calls :
        told[i] \in {"parsed", "parse_error"} =>
            /\ kept[i] = FramesOf[i]
            /\ \A c \in FramesIn(i) : c \notin failed /\ Normal(heard[c])

\* A multi-frame operation stops at the first frame that goes wrong: a later
\* frame is on the session only if every earlier one ended normally.
StopsAtFirstFailure ==
    \A i \in Calls : \A j, k \in 1..Len(FramesOf[i]) :
        /\ j < k
        /\ status[FramesOf[i][k]] # "idle"
        => /\ status[FramesOf[i][j]] = "answered"
           /\ FramesOf[i][j] \notin failed
           /\ Normal(heard[FramesOf[i][j]])

\* Nothing of a forged descriptor, or of an input the checks refuse, ever reaches
\* the session.
OnlyVouchedFramesSent ==
    \A i \in Calls : \A c \in FramesIn(i) :
        status[c] # "idle" => i \in (WithRunner \cap Canonical) \ BadInput

\* A call that submitted a command ends, once, with what became of it.
StartedCallsEnd == \A i \in Calls : next[i] > 0 ~> told[i] # "pending"
===============================================================================
