-------------------------- MODULE LiveReadOnlyClient --------------------------
(***************************************************************************)
(* LiveReadOnlyClient of src/live/live-read-only-client.ts: the guards     *)
(* that let a client be created, and the checks each invocation passes on  *)
(* its way to the session.                                                 *)
(*                                                                         *)
(* The checks are synchronous with the enqueue, but the command is sent    *)
(* only when its turn comes, and between the two the clock runs, other     *)
(* commands time out, and the transport drops its session and reconnects,  *)
(* possibly to another peer. The runner is the serial line it implements   *)
(* (SerialSession); one invocation sends one command. Promise jobs take no *)
(* time; the clock counts ticks.                                           *)
(***************************************************************************)
EXTENDS SerialSession, FiniteSets

CONSTANTS
    Ids,             \* operation ids a caller may ask for
    Allowlisted,     \* liveReadOnlyAllowlist
    ManifestReads,   \* manifest classification "read"
    Implemented,     \* manifest status "implemented"
    RegistryReads,   \* read-classified descriptors in operationRegistry
    NeedsInput,      \* operations whose schema refuses an undefined input
    OtherPeers,      \* endpoints assertEndpointPolicy throws for
    MaxSession,      \* sessionPolicy.maxSessionMs, in ticks
    IdleTimeout,     \* the lesser of the two idleTimeoutMs, in ticks
    CommandTimeout,  \* limits.commandTimeoutMs, in ticks
    MaxNow           \* bound on the clock

Nobody == "nobody"
Lan == "private-lan address on the policy port"
Peers == OtherPeers \cup {Lan}

\* Nobody makes infinitely many invocations.
ASSUME LiveAssumption ==
    /\ IsFiniteSet(Commands)
    /\ Nobody \notin Ids \cup Peers
    /\ Lan \notin OtherPeers
    /\ Allowlisted \cup ManifestReads \cup Implemented
         \cup RegistryReads \cup NeedsInput \subseteq Ids
    /\ MaxSession \in Nat \ {0}
    /\ CommandTimeout \in Nat \ {0}
    /\ IdleTimeout \in 1..CommandTimeout
    /\ MaxNow \in Nat

VARIABLES
    live,        \* create() has returned a client
    exposed,     \* the keys of #operations
    expiresAt,   \* #expiresAt
    now,         \* Date.now()
    open,        \* Transport.isOpen
    peer,        \* Transport.remoteEndpoint
    queueClosed, \* the runner's queue is closed
    closing,     \* the invocations that await runner.close()
    asked,       \* the operation of each command that got in line
    result,      \* what each invocation was answered
    sentTo,      \* the peer each command was sent to
    moved,       \* the commands in line when the transport changed its peer
    since        \* when the command on the wire was sent, 0 if there is none

clientVars == <<live, exposed, expiresAt>>
transportVars == <<open, peer>>
callVars == <<closing, asked, result, sentTo, moved>>
liveVars == <<clientVars, now, transportVars, queueClosed, callVars, since,
              lineVars>>

Results == {"none", "ok", "unavailable", "expired", "close_failed", "peer",
            "invalid", "closed", "session_closed", "error", "timeout", "limit"}

LiveInit ==
    /\ LineInit
    /\ live = FALSE
    /\ exposed = {}
    /\ expiresAt = 0
    /\ now = 0
    /\ open = TRUE
    /\ peer \in Peers
    /\ queueClosed = FALSE
    /\ closing = {}
    /\ asked = [c \in Commands |-> Nobody]
    /\ result = [c \in Commands |-> "none"]
    /\ sentTo = [c \in Commands |-> Nobody]
    /\ moved = {}
    /\ since = 0

InLine(c) == status[c] \in {"waiting", "served"}
OnWire(c) == status[c] = "served"

-----------------------------------------------------------------------------
(* create() *)

\* Mutant of Gated: the manifest is not asked for the classification.
GatedByStatus(id) ==
    id \in Allowlisted /\ id \in Implemented

\* Guard 2: allowlisted, read and implemented in the manifest, and read in the
\* registry.
Gated(id) ==
    /\ id \in Allowlisted
    /\ id \in ManifestReads
    /\ id \in Implemented
    /\ id \in RegistryReads

\* Guards 1 to 4 pass: only then is there a client, with its clock started. A
\* guard that fails throws and leaves everything as it was.
Create(flag, policiesOK, ids) ==
    /\ ~live
    /\ flag
    /\ \A id \in ids : Gated(id)
    /\ policiesOK
    /\ peer = Lan
    /\ live' = TRUE
    /\ exposed' = ids
    /\ expiresAt' = now + MaxSession
    /\ UNCHANGED <<now, transportVars, queueClosed, callVars, since, lineVars>>

-----------------------------------------------------------------------------
(* invoke() *)

\* The invocation is rejected before its command is in line.
Reject(c, why) ==
    /\ TurnAway(c)
    /\ result' = [result EXCEPT ![c] = why]
    /\ UNCHANGED <<clientVars, now, transportVars, queueClosed, closing, asked,
                   sentTo, moved, since>>

Fresh(c) == live /\ status[c] = "idle" /\ c \notin closing

InvokeUnavailable(c, id) ==
    /\ Fresh(c)
    /\ id \notin exposed
    /\ Reject(c, "unavailable")

\* Past its lifetime the client closes queue and session, and awaits the latter.
InvokeExpired(c, id) ==
    /\ Fresh(c)
    /\ id \in exposed
    /\ now >= expiresAt
    /\ queueClosed' = TRUE
    /\ open' = FALSE
    /\ closing' = closing \cup {c}
    /\ UNCHANGED <<clientVars, now, peer, asked, result, sentTo, moved, since,
                   lineVars>>

\* Transport.close settles: fulfilled, the caller is told of the expiry; rejected,
\* of the error.
CloseSettles(c) ==
    /\ c \in closing
    /\ TurnAway(c)
    /\ closing' = closing \ {c}
    /\ \E why \in {"expired", "close_failed"} :
          result' = [result EXCEPT ![c] = why]
    /\ UNCHANGED <<clientVars, now, transportVars, queueClosed, asked, sentTo,
                   moved, since>>

\* The checks between the expiry and the queue: peer, input, and a closed queue.
InvokeRefused(c, id) ==
    /\ Fresh(c)
    /\ id \in exposed
    /\ now < expiresAt
    /\ \/ peer # Lan /\ Reject(c, "peer")
       \/ peer = Lan /\ id \in NeedsInput /\ Reject(c, "invalid")
       \/ /\ peer = Lan /\ id \notin NeedsInput
          /\ queueClosed
          /\ Reject(c, "closed")

\* Mutant of InvokeAccepted: the endpoint is not checked again.
InvokeAcceptedUnbound(c, id) ==
    /\ Fresh(c)
    /\ id \in exposed \ NeedsInput
    /\ now < expiresAt
    /\ ~queueClosed
    /\ LetIn(c)
    /\ asked' = [asked EXCEPT ![c] = id]
    /\ UNCHANGED <<clientVars, now, transportVars, queueClosed, closing, result,
                   sentTo, moved, since>>

\* Mutant of InvokeAccepted: the lifetime is not checked.
InvokeAcceptedForEver(c, id) ==
    /\ Fresh(c)
    /\ id \in exposed \ NeedsInput
    /\ peer = Lan
    /\ ~queueClosed
    /\ LetIn(c)
    /\ asked' = [asked EXCEPT ![c] = id]
    /\ UNCHANGED <<clientVars, now, transportVars, queueClosed, closing, result,
                   sentTo, moved, since>>

\* Mutant of InvokeAccepted: the id is looked up in the registry, not in what this
\* client exposes.
InvokeAcceptedAny(c, id) ==
    /\ Fresh(c)
    /\ id \in RegistryReads \ NeedsInput
    /\ now < expiresAt
    /\ peer = Lan
    /\ ~queueClosed
    /\ LetIn(c)
    /\ asked' = [asked EXCEPT ![c] = id]
    /\ UNCHANGED <<clientVars, now, transportVars, queueClosed, closing, result,
                   sentTo, moved, since>>

\* Every check passes, and the command is in line before invoke() first yields.
InvokeAccepted(c, id) ==
    /\ Fresh(c)
    /\ id \in exposed \ NeedsInput
    /\ now < expiresAt
    /\ peer = Lan
    /\ ~queueClosed
    /\ LetIn(c)
    /\ asked' = [asked EXCEPT ![c] = id]
    /\ UNCHANGED <<clientVars, now, transportVars, queueClosed, closing, result,
                   sentTo, moved, since>>

Invoke(c, id) ==
    \/ InvokeUnavailable(c, id)
    \/ InvokeExpired(c, id)
    \/ InvokeRefused(c, id)
    \/ InvokeAccepted(c, id)

-----------------------------------------------------------------------------
(* The runner *)

\* The turn comes: isOpen is all that is looked at now.
Send(c) ==
    /\ open
    /\ Serve(c)
    /\ sentTo' = [sentTo EXCEPT ![c] = peer]
    /\ since' = now
    /\ UNCHANGED <<clientVars, now, transportVars, queueClosed, closing, asked,
                   result, moved>>

SessionClosed(c) ==
    /\ ~open
    /\ GiveUp(c)
    /\ result' = [result EXCEPT ![c] = "session_closed"]
    /\ UNCHANGED <<clientVars, now, transportVars, queueClosed, closing, asked,
                   sentTo, moved, since>>

Ends(c, r) ==
    /\ Answer(c)
    /\ result' = [result EXCEPT ![c] = r]
    /\ since' = 0
    /\ UNCHANGED <<clientVars, now, peer, closing, asked, sentTo, moved>>

\* The exchange is over; oversized output also closes queue and session.
Finish(c) ==
    \/ \E r \in {"ok", "error"} :
          Ends(c, r) /\ UNCHANGED <<open, queueClosed>>
    \/ Ends(c, "limit") /\ open' = FALSE /\ queueClosed' = TRUE

\* The idle deadline (if output is streamed) or the command deadline has passed.
TimesOut(c) ==
    /\ OnWire(c)
    /\ now - since >= IdleTimeout
    /\ Ends(c, "timeout")
    /\ open' = FALSE
    /\ UNCHANGED queueClosed

-----------------------------------------------------------------------------
(* The transport and the clock *)

\* The session is lost; an endpoint may still be reported.
SessionDrops ==
    /\ open
    /\ open' = FALSE
    /\ UNCHANGED <<clientVars, now, peer, queueClosed, callVars, since, lineVars>>

Reconnects ==
    /\ ~open
    /\ open' = TRUE
    /\ peer' \in Peers
    /\ moved' = IF peer' = peer THEN moved
                ELSE moved \cup {c \in Commands : InLine(c)}
    /\ UNCHANGED <<clientVars, now, queueClosed, closing, asked, result, sentTo,
                   since, lineVars>>

\* Time passes once the promise jobs have run, and never past a hard deadline.
Tick ==
    /\ now < MaxNow
    /\ \A c \in Commands : AtHead(c) => OnWire(c)
    /\ \A c \in Commands : OnWire(c) => now - since < CommandTimeout
    /\ now' = now + 1
    /\ UNCHANGED <<clientVars, transportVars, queueClosed, callVars, since,
                   lineVars>>

-----------------------------------------------------------------------------
Runner(c) == Send(c) \/ SessionClosed(c) \/ Finish(c) \/ TimesOut(c)

LiveNext ==
    \/ \E flag, policiesOK \in BOOLEAN, ids \in SUBSET Ids :
          Create(flag, policiesOK, ids)
    \/ \E c \in Commands :
          \/ \E id \in Ids : Invoke(c, id)
          \/ CloseSettles(c)
          \/ Runner(c)
    \/ SessionDrops
    \/ Reconnects
    \/ Tick

LiveSpec == LiveInit /\ [][LiveNext]_liveVars

-----------------------------------------------------------------------------
(* What the client promises *)

\* Every variable has its type; only an exposed operation is ever in line.
LiveTypeOK ==
    /\ live \in BOOLEAN
    /\ exposed \subseteq Ids
    /\ expiresAt \in Nat
    /\ now \in 0..MaxNow
    /\ open \in BOOLEAN
    /\ peer \in Peers
    /\ queueClosed \in BOOLEAN
    /\ closing \subseteq Commands
    /\ asked \in [Commands -> Ids \cup {Nobody}]
    /\ result \in [Commands -> Results]
    /\ sentTo \in [Commands -> Peers \cup {Nobody}]
    /\ moved \subseteq Commands
    /\ since \in Nat
    /\ \A c \in Commands : InLine(c) => asked[c] \in exposed

Sent(c) == sentTo[c] # Nobody

\* "A generated manifest alone can never widen live reach; a human edit alone can
\* never bypass the manifest": whatever ids were asked for at creation and since,
\* a command reaches the router only with every key turned.
OnlyGatedReadsSent ==
    \A c \in Commands :
        Sent(c) => asked[c] \in Allowlisted \cap ManifestReads
                                \cap Implemented \cap RegistryReads

\* A command reaches a peer outside the policy only if the transport changed its
\* peer while the command was in line: the check of invoke() covers every other
\* way the endpoint can change.
StrayOnlyByReconnect ==
    \A c \in Commands : Sent(c) /\ sentTo[c] # Lan => c \in moved

\* The lifetime is capped up to the work in hand: a command that has k others out
\* of its way is done less than k + 1 command deadlines after expiry, and nothing
\* is let in to prolong it.
OverrunBounded ==
    line # <<>> =>
        now < expiresAt
              + (Cardinality(Commands) - Len(line) + 1) * CommandTimeout

\* SECURITY.md: the LAN-only policy is "re-checked before every command". The
\* code checks before the command is queued, not before it is sent.
SentOnlyToLan == \A c \in Commands : Sent(c) => sentTo[c] = Lan
===============================================================================
