---------------------------- MODULE SerialSession ----------------------------
(***************************************************************************)
(* What the SDK promises its callers about one CLI session, with no        *)
(* promises, jobs or signals in sight: a first-come first-served line with *)
(* a single server. A command may be turned away at the door, or give up   *)
(* when it reaches the head of the line; nothing overtakes, and nothing is *)
(* served while another command is.                                        *)
(*                                                                         *)
(* SessionQueue implements this specification (ImplementsLine), and so     *)
(* does the command runner built on it.                                    *)
(***************************************************************************)
EXTENDS Naturals, Sequences

CONSTANT Commands

VARIABLES
    line,    \* the commands let in and not yet answered, oldest first
    status   \* where each command stands

lineVars == <<line, status>>

AtHead(c) == line # <<>> /\ Head(line) = c

LineInit ==
    /\ line = <<>>
    /\ status = [c \in Commands |-> "idle"]

LetIn(c) ==
    /\ status[c] = "idle"
    /\ status' = [status EXCEPT ![c] = "waiting"]
    /\ line' = Append(line, c)

TurnAway(c) ==
    /\ status[c] = "idle"
    /\ status' = [status EXCEPT ![c] = "answered"]
    /\ UNCHANGED line

\* Only the head of the line is served, so one command at a time.
Serve(c) ==
    /\ AtHead(c)
    /\ status[c] = "waiting"
    /\ status' = [status EXCEPT ![c] = "served"]
    /\ UNCHANGED line

GiveUp(c) ==
    /\ AtHead(c)
    /\ status[c] = "waiting"
    /\ status' = [status EXCEPT ![c] = "answered"]
    /\ line' = Tail(line)

Answer(c) ==
    /\ AtHead(c)
    /\ status[c] = "served"
    /\ status' = [status EXCEPT ![c] = "answered"]
    /\ line' = Tail(line)

LineNext ==
    \E c \in Commands :
        LetIn(c) \/ TurnAway(c) \/ Serve(c) \/ GiveUp(c) \/ Answer(c)

LineSpec == LineInit /\ [][LineNext]_lineVars
==============================================================================
