----------------------- MODULE LiveReadOnlyClientProofs -----------------------
(***************************************************************************)
(* What LiveReadOnlyClient promises, for any operations, peers, policies    *)
(* and numbers of invocations: types, gating, strays, and the bound on the  *)
(* work done past expiry.                                                   *)
(***************************************************************************)
EXTENDS LiveReadOnlyClient, FiniteSetTheorems, SequenceTheorems, TLAPS

Stages == {"idle", "waiting", "served", "answered"}

Waiting == {c \in Commands : InLine(c)}

\* The line is as long as there are commands in it, and at most its head is served.
LineOK ==
    /\ line \in Seq(Commands)
    /\ status \in [Commands -> Stages]
    /\ Len(line) = Cardinality(Waiting)
    /\ \A c \in Commands : OnWire(c) => AtHead(c)

\* Who is in line was let in by a client whose operations all have every key.
GateOK ==
    /\ ~live => \A c \in Commands : ~InLine(c)
    /\ \A id \in exposed : Gated(id)
    /\ OnlyGatedReadsSent

\* A command in line was there when the transport left the LAN.
PeerOK ==
    /\ \A c \in Commands : InLine(c) /\ peer # Lan => c \in moved
    /\ StrayOnlyByReconnect

LiveInv == LiveTypeOK /\ LineOK /\ GateOK /\ PeerOK

\* The last moment at which a command can be sent with k commands in the line.
LatestStart(k) == expiresAt + (Cardinality(Commands) - k) * CommandTimeout

\* Every command is sent in time for those behind it to end in time.
TimeOK ==
    /\ line # <<>> /\ (\A c \in Commands : ~OnWire(c)) => now < LatestStart(Len(line))
    /\ \A c \in Commands : OnWire(c) =>
          /\ since < LatestStart(Len(line))
          /\ since <= now
          /\ now <= since + CommandTimeout

-----------------------------------------------------------------------------
(* The line *)

\* Commands move in and out of the set of those in line one by one.
LEMMA WaitingFinite == IsFiniteSet(Waiting) /\ Cardinality(Waiting) \in Nat
  <1>1. IsFiniteSet(Commands) /\ Waiting \subseteq Commands
    BY LiveAssumption DEF Waiting
  <1>2. QED
    BY <1>1, FS_Subset, FS_CardinalityType

LEMMA LetInKeeps == ASSUME LineOK, NEW c \in Commands, LetIn(c) PROVE LineOK'
  <1> USE DEF LineOK
  <1>1. /\ line' = Append(line, c) /\ status' = [status EXCEPT ![c] = "waiting"]
        /\ status[c] = "idle"
    BY DEF LetIn
  <1>2. line' \in Seq(Commands) /\ Len(line') = Len(line) + 1
    BY <1>1, AppendProperties
  <1>3. status' \in [Commands -> Stages]
    BY <1>1 DEF Stages
  <1>4. Waiting' = Waiting \cup {c} /\ c \notin Waiting
    BY <1>1 DEF Waiting, InLine
  <1>5. Cardinality(Waiting') = Cardinality(Waiting) + 1
    BY <1>4, WaitingFinite, FS_AddElement
  <1>6. ASSUME NEW d \in Commands, OnWire(d)' PROVE AtHead(d)'
    <2>1. OnWire(d)
      BY <1>1, <1>6 DEF OnWire
    <2>2. line # <<>> /\ Head(line) = d
      BY <2>1 DEF AtHead
    <2>3. Head(Append(line, c)) = Head(line) /\ Append(line, c) # <<>>
      BY <2>2, HeadTailProperties, AppendProperties
    <2>4. QED
      BY <1>1, <2>2, <2>3 DEF AtHead
  <1>7. QED
    BY <1>2, <1>3, <1>5, <1>6

LEMMA TurnAwayKeeps == ASSUME LineOK, NEW c \in Commands, TurnAway(c) PROVE LineOK'
  <1>1. /\ UNCHANGED line /\ status' = [status EXCEPT ![c] = "answered"]
        /\ status[c] = "idle" /\ status \in [Commands -> Stages]
    BY DEF TurnAway, LineOK
  <1>2. Waiting' = Waiting
    BY <1>1 DEF Waiting, InLine
  <1>3. \A d \in Commands : OnWire(d)' => OnWire(d)
    BY <1>1 DEF OnWire
  <1>4. QED
    BY <1>1, <1>2, <1>3 DEF LineOK, Stages, AtHead

LEMMA ServeKeeps == ASSUME LineOK, NEW c \in Commands, Serve(c) PROVE LineOK'
  <1>1. /\ UNCHANGED line /\ status' = [status EXCEPT ![c] = "served"]
        /\ status[c] = "waiting" /\ status \in [Commands -> Stages] /\ AtHead(c)
    BY DEF Serve, LineOK
  <1>2. Waiting' = Waiting
    BY <1>1 DEF Waiting, InLine
  <1>3. \A d \in Commands : OnWire(d)' => OnWire(d) \/ d = c
    BY <1>1 DEF OnWire
  <1>4. QED
    BY <1>1, <1>2, <1>3 DEF LineOK, Stages, AtHead

\* The head leaves, and nobody is served any more.
LEMMA LeaveKeeps ==
    ASSUME LineOK, NEW c \in Commands, GiveUp(c) \/ Answer(c)
    PROVE  /\ LineOK'
           /\ Len(line) \in Nat \ {0}
           /\ Len(line') = Len(line) - 1
           /\ \A d \in Commands : ~OnWire(d)'
  <1>1. /\ line' = Tail(line) /\ status' = [status EXCEPT ![c] = "answered"]
        /\ InLine(c) /\ status \in [Commands -> Stages] /\ AtHead(c)
    BY DEF GiveUp, Answer, LineOK, InLine
  <1>2. /\ line' \in Seq(Commands) /\ Len(line') = Len(line) - 1
        /\ Len(line) \in Nat \ {0}
    BY <1>1, HeadTailProperties, EmptySeq DEF LineOK, AtHead
  <1>3. status' \in [Commands -> Stages]
    BY <1>1 DEF Stages
  <1>4. Waiting' = Waiting \ {c} /\ c \in Waiting
    BY <1>1 DEF Waiting, InLine
  <1>5. Cardinality(Waiting') = Cardinality(Waiting) - 1
    BY <1>4, WaitingFinite, FS_RemoveElement
  <1>6. \A d \in Commands : ~OnWire(d)'
    BY <1>1 DEF OnWire, LineOK, AtHead
  <1>7. QED
    BY <1>2, <1>3, <1>5, <1>6 DEF LineOK

-----------------------------------------------------------------------------
(* Types, gates and peers *)

\* Steps of the line and the client that leave the line alone.
LineStands == UNCHANGED lineVars

\* The line stays in order, whoever moves.
LEMMA LineStep == LiveInv /\ [LiveNext]_liveVars => LineOK'
  <1> SUFFICES ASSUME LiveInv, [LiveNext]_liveVars PROVE LineOK'
    OBVIOUS
  <1>1. LineOK
    BY DEF LiveInv
  <1>2. CASE LineStands
    BY <1>1, <1>2 DEF LineStands, lineVars, LineOK, Waiting, InLine, OnWire, AtHead
  <1>3. ASSUME NEW c \in Commands,
               LetIn(c) \/ TurnAway(c) \/ Serve(c) \/ GiveUp(c) \/ Answer(c)
        PROVE  LineOK'
    BY <1>1, <1>3, LetInKeeps, TurnAwayKeeps, ServeKeeps, LeaveKeeps
  <1>4. QED
    BY <1>2, <1>3
    DEF LiveNext, Create, Invoke, InvokeUnavailable, InvokeExpired, InvokeRefused,
        InvokeAccepted, Reject, CloseSettles, Runner, Send, SessionClosed, Finish, Ends,
        TimesOut, SessionDrops, Reconnects, Tick, LineStands, liveVars

\* What a command is waiting for does not change while it waits, whatever others do.
SafeInv == LiveTypeOK /\ GateOK /\ PeerOK

\* The state before create() satisfies the invariant.
LEMMA InitInv == LiveInit => LiveInv /\ TimeOK
  <1> SUFFICES ASSUME LiveInit PROVE LiveInv /\ TimeOK
    OBVIOUS
  <1>1. \A c \in Commands : ~InLine(c) /\ ~OnWire(c)
    BY DEF LiveInit, LineInit, InLine, OnWire
  <1>2. Waiting = {}
    BY <1>1 DEF Waiting
  <1>3. LineOK
    BY <1>1, <1>2, FS_EmptySet, EmptySeq DEF LiveInit, LineInit, LineOK, Stages
  <1>4. SafeInv
    <2>1. exposed = {} /\ \A c \in Commands : ~Sent(c)
      BY DEF LiveInit, Sent
    <2>2. now \in 0..MaxNow
      BY LiveAssumption DEF LiveInit
    <2>3. /\ asked \in [Commands -> Ids \cup {Nobody}]
          /\ sentTo \in [Commands -> Peers \cup {Nobody}]
          /\ result \in [Commands -> Results]
      BY DEF LiveInit, Results
    <2>4. LiveTypeOK
      BY <1>1, <2>2, <2>3 DEF LiveInit, LiveTypeOK
    <2>5. QED
      BY <1>1, <2>1, <2>4 DEF SafeInv, GateOK, PeerOK, OnlyGatedReadsSent, StrayOnlyByReconnect
  <1>5. TimeOK
    BY <1>1 DEF LiveInit, LineInit, TimeOK
  <1>6. QED
    BY <1>3, <1>4, <1>5 DEF LiveInv, SafeInv

\* A client is only created while nobody is in line, and only with gated operations.
LEMMA CreateKeeps ==
    ASSUME LiveInv, NEW flag \in BOOLEAN, NEW policiesOK \in BOOLEAN,
           NEW ids \in SUBSET Ids, Create(flag, policiesOK, ids)
    PROVE  SafeInv'
  <1>1. /\ UNCHANGED <<now, transportVars, queueClosed, callVars, since, status>>
        /\ \A c \in Commands : ~InLine(c)
        /\ \A id \in ids : Gated(id)
        /\ exposed' = ids /\ live' = TRUE /\ expiresAt' = now + MaxSession
    BY DEF Create, LiveInv, GateOK, lineVars
  <1>2. expiresAt' \in Nat
    BY <1>1, LiveAssumption DEF LiveInv, LiveTypeOK
  <1>3. LiveTypeOK'
    BY <1>1, <1>2 DEF LiveInv, LiveTypeOK, InLine, transportVars, callVars
  <1>4. GateOK'
    BY <1>1 DEF LiveInv, GateOK, InLine, callVars, Gated, OnlyGatedReadsSent, Sent
  <1>5. PeerOK'
    BY <1>1 DEF LiveInv, PeerOK, InLine, transportVars, callVars, StrayOnlyByReconnect,
                Sent
  <1>6. QED
    BY <1>3, <1>4, <1>5 DEF SafeInv

\* An invocation that is turned away leaves those in line as they are.
LEMMA TurnedAwayKeeps ==
    ASSUME LiveInv, NEW c \in Commands, NEW why \in Results, TurnAway(c),
           result' = [result EXCEPT ![c] = why], closing' \subseteq closing,
           UNCHANGED <<clientVars, now, transportVars, queueClosed, asked, sentTo, moved,
                       since>>
    PROVE  SafeInv'
  <1>1. \A d \in Commands : InLine(d)' <=> InLine(d)
    BY DEF LiveInv, LineOK, TurnAway, InLine
  <1>2. LiveTypeOK'
    BY <1>1 DEF LiveInv, LiveTypeOK, clientVars, transportVars
  <1>3. GateOK'
    BY <1>1 DEF LiveInv, GateOK, clientVars, Gated, OnlyGatedReadsSent, Sent
  <1>4. PeerOK'
    BY <1>1 DEF LiveInv, PeerOK, transportVars, StrayOnlyByReconnect, Sent
  <1>5. QED
    BY <1>2, <1>3, <1>4 DEF SafeInv

\* A command is let in for an exposed operation, while the peer is on the LAN.
LEMMA AcceptedKeeps ==
    ASSUME LiveInv, NEW c \in Commands, NEW id \in Ids, InvokeAccepted(c, id)
    PROVE  SafeInv'
  <1>1. /\ live /\ id \in exposed /\ peer = Lan
        /\ status' = [status EXCEPT ![c] = "waiting"]
        /\ asked' = [asked EXCEPT ![c] = id]
        /\ UNCHANGED <<clientVars, now, transportVars, queueClosed, closing, result,
                       sentTo, moved, since>>
    BY DEF InvokeAccepted, Fresh, LetIn
  <1>2. \A d \in Commands : d # c => (InLine(d)' <=> InLine(d)) /\ asked'[d] = asked[d]
    BY <1>1 DEF LiveInv, LineOK, LiveTypeOK, InLine
  <1>3. asked'[c] = id
    BY <1>1 DEF LiveInv, LiveTypeOK
  <1>4. LiveTypeOK'
    BY <1>1, <1>2, <1>3 DEF LiveInv, LiveTypeOK, clientVars, transportVars
  <1>5. GateOK'
    BY <1>1, <1>2, <1>3
    DEF LiveInv, GateOK, clientVars, Gated, OnlyGatedReadsSent, Sent
  <1>6. PeerOK'
    BY <1>1, <1>2 DEF LiveInv, PeerOK, transportVars, StrayOnlyByReconnect, Sent
  <1>7. QED
    BY <1>4, <1>5, <1>6 DEF SafeInv

\* A command goes to the peer of the moment, which is the LAN or came while it waited.
LEMMA SendKeeps == ASSUME LiveInv, NEW c \in Commands, Send(c) PROVE SafeInv'
  <1>1. /\ InLine(c) /\ status' = [status EXCEPT ![c] = "served"]
        /\ sentTo' = [sentTo EXCEPT ![c] = peer] /\ since' = now
        /\ UNCHANGED <<clientVars, now, transportVars, queueClosed, closing, asked,
                       result, moved>>
    BY DEF Send, Serve, InLine
  <1>2. /\ \A d \in Commands : InLine(d)' <=> InLine(d)
        /\ \A d \in Commands : d # c => sentTo'[d] = sentTo[d]
        /\ sentTo'[c] = peer
    BY <1>1 DEF LiveInv, LineOK, LiveTypeOK, InLine
  <1>3. LiveTypeOK'
    BY <1>1, <1>2 DEF LiveInv, LiveTypeOK, clientVars, transportVars
  <1>4. GateOK'
    <2>1. asked[c] \in exposed
      BY <1>1 DEF LiveInv, LiveTypeOK
    <2>2. QED
      BY <1>1, <1>2, <2>1
      DEF LiveInv, GateOK, clientVars, Gated, OnlyGatedReadsSent, Sent
  <1>5. PeerOK'
    BY <1>1, <1>2 DEF LiveInv, PeerOK, transportVars, StrayOnlyByReconnect, Sent
  <1>6. QED
    BY <1>3, <1>4, <1>5 DEF SafeInv

\* A command that leaves the line leaves the others where they are.
LEMMA LeavingKeeps ==
    ASSUME LiveInv, NEW c \in Commands, NEW r \in Results, GiveUp(c) \/ Answer(c),
           result' = [result EXCEPT ![c] = r], since' \in Nat,
           open' \in BOOLEAN, queueClosed' \in BOOLEAN,
           UNCHANGED <<clientVars, now, peer, closing, asked, sentTo, moved>>
    PROVE  SafeInv'
  <1>1. \A d \in Commands : InLine(d)' => InLine(d)
    BY DEF LiveInv, LineOK, GiveUp, Answer, InLine
  <1>2. LiveTypeOK'
    BY <1>1 DEF LiveInv, LiveTypeOK, clientVars
  <1>3. GateOK'
    BY <1>1 DEF LiveInv, GateOK, clientVars, Gated, OnlyGatedReadsSent, Sent
  <1>4. PeerOK'
    BY <1>1 DEF LiveInv, PeerOK, StrayOnlyByReconnect, Sent
  <1>5. QED
    BY <1>2, <1>3, <1>4 DEF SafeInv

\* The transport marks those in line when it moves.
LEMMA ReconnectKeeps == ASSUME LiveInv, Reconnects PROVE SafeInv'
  <1>1. /\ open' = TRUE /\ peer' \in Peers
        /\ moved' = IF peer' = peer THEN moved
                    ELSE moved \cup {c \in Commands : InLine(c)}
        /\ UNCHANGED <<clientVars, now, queueClosed, closing, asked, result, sentTo,
                       since, status>>
    BY DEF Reconnects, lineVars
  <1>2. LiveTypeOK'
    BY <1>1 DEF LiveInv, LiveTypeOK, InLine, clientVars
  <1>3. GateOK'
    BY <1>1 DEF LiveInv, GateOK, InLine, clientVars, Gated, OnlyGatedReadsSent, Sent
  <1>4. PeerOK'
    BY <1>1 DEF LiveInv, PeerOK, InLine, StrayOnlyByReconnect, Sent
  <1>5. QED
    BY <1>2, <1>3, <1>4 DEF SafeInv

\* The other steps change neither the line nor where commands go.
LEMMA QuietKeeps ==
    ASSUME LiveInv, now' \in 0..MaxNow, open' \in BOOLEAN, queueClosed' \in BOOLEAN,
           closing' \subseteq Commands,
           UNCHANGED <<clientVars, peer, asked, result, sentTo, moved, since, status>>
    PROVE  SafeInv'
  <1>1. LiveTypeOK'
    BY DEF LiveInv, LiveTypeOK, InLine, clientVars
  <1>2. GateOK'
    BY DEF LiveInv, GateOK, InLine, clientVars, Gated, OnlyGatedReadsSent, Sent
  <1>3. PeerOK'
    BY DEF LiveInv, PeerOK, InLine, StrayOnlyByReconnect, Sent
  <1>4. QED
    BY <1>1, <1>2, <1>3 DEF SafeInv

\* No step leaves types, gates or peers.
LEMMA SafeStep == LiveInv /\ [LiveNext]_liveVars => SafeInv'
  <1> SUFFICES ASSUME LiveInv, [LiveNext]_liveVars PROVE SafeInv'
    OBVIOUS
  <1> USE DEF clientVars, transportVars, callVars
  <1>1. LiveTypeOK /\ now \in Nat
    BY LiveAssumption DEF LiveInv, LiveTypeOK
  <1>2. ASSUME NEW flag \in BOOLEAN, NEW policiesOK \in BOOLEAN, NEW ids \in SUBSET Ids,
               Create(flag, policiesOK, ids)
        PROVE  SafeInv'
    BY <1>2, CreateKeeps
  <1>3. ASSUME NEW c \in Commands, NEW id \in Ids, Invoke(c, id)
        PROVE  SafeInv'
    <2>1. ASSUME NEW why \in Results, Reject(c, why)
          PROVE  SafeInv'
      BY <2>1, TurnedAwayKeeps DEF Reject
    <2>2. CASE InvokeUnavailable(c, id)
      BY <2>1, <2>2 DEF InvokeUnavailable, Results
    <2>3. CASE InvokeExpired(c, id)
      BY <1>1, <2>3, QuietKeeps DEF InvokeExpired, LiveTypeOK, lineVars
    <2>4. CASE InvokeRefused(c, id)
      BY <2>1, <2>4 DEF InvokeRefused, Results
    <2>5. CASE InvokeAccepted(c, id)
      BY <2>5, AcceptedKeeps
    <2>6. QED
      BY <1>3, <2>2, <2>3, <2>4, <2>5 DEF Invoke
  <1>4. ASSUME NEW c \in Commands, CloseSettles(c)
        PROVE  SafeInv'
    <2>1. PICK why \in Results : result' = [result EXCEPT ![c] = why]
      BY <1>4 DEF CloseSettles, Results
    <2>2. closing' \subseteq closing
      BY <1>4 DEF CloseSettles
    <2>3. QED
      BY <1>4, <2>1, <2>2, TurnedAwayKeeps DEF CloseSettles
  <1>5. ASSUME NEW c \in Commands, Runner(c)
        PROVE  SafeInv'
    <2>1. CASE Send(c)
      BY <2>1, SendKeeps
    <2>2. CASE SessionClosed(c)
      <3>1. "session_closed" \in Results
        BY DEF Results
      <3>2. QED
        BY <1>1, <2>2, <3>1, LeavingKeeps DEF SessionClosed, LiveTypeOK
    <2>3. ASSUME NEW r \in Results, Ends(c, r), open' \in BOOLEAN,
                 queueClosed' \in BOOLEAN
          PROVE  SafeInv'
      BY <2>3, LeavingKeeps DEF Ends
    <2>4. CASE Finish(c)
      BY <1>1, <2>3, <2>4 DEF Finish, Results, LiveTypeOK
    <2>5. CASE TimesOut(c)
      BY <1>1, <2>3, <2>5 DEF TimesOut, Results, LiveTypeOK
    <2>6. QED
      BY <1>5, <2>1, <2>2, <2>4, <2>5 DEF Runner
  <1>6. CASE SessionDrops
    BY <1>1, <1>6, QuietKeeps DEF SessionDrops, LiveTypeOK, lineVars
  <1>7. CASE Reconnects
    BY <1>7, ReconnectKeeps
  <1>8. CASE Tick
    <2>1. now' \in 0..MaxNow
      BY <1>1, <1>8, LiveAssumption DEF Tick, LiveTypeOK
    <2>2. QED
      BY <1>1, <1>8, <2>1, QuietKeeps DEF Tick, LiveTypeOK, lineVars
  <1>9. CASE UNCHANGED liveVars
    BY <1>1, <1>9, QuietKeeps DEF liveVars, LiveTypeOK, lineVars
  <1>10. QED
    BY <1>2, <1>3, <1>4, <1>5, <1>6, <1>7, <1>8, <1>9 DEF LiveNext

-----------------------------------------------------------------------------
(* Time *)

\* One command less in line leaves one more deadline; nobody in line starts
\* later than the lifetime and a deadline for each command there is.
LEMMA Starts ==
    ASSUME LiveInv
    PROVE  /\ Len(line) \in Nat /\ Len(line) <= Cardinality(Commands)
           /\ Cardinality(Commands) \in Nat
           /\ now \in Nat /\ since \in Nat /\ expiresAt \in Nat
           /\ \A k \in Int : LatestStart(k) \in Int
           /\ \A k \in Int : LatestStart(k - 1) = LatestStart(k) + CommandTimeout
           /\ \A k \in 0..Cardinality(Commands) : expiresAt <= LatestStart(k)
  <1> DEFINE N == Cardinality(Commands)
  <1>1. /\ Len(line) \in Nat /\ N \in Nat /\ Len(line) <= N
    <2>1. Waiting \subseteq Commands
      BY DEF Waiting
    <2>2. QED
      BY <2>1, LiveAssumption, FS_Subset, FS_CardinalityType, WaitingFinite
      DEF LiveInv, LineOK
  <1>2. now \in Nat /\ since \in Nat /\ expiresAt \in Nat /\ CommandTimeout \in Nat
    BY LiveAssumption DEF LiveInv, LiveTypeOK
  <1>3. ASSUME NEW k \in Int
        PROVE  LatestStart(k) \in Int /\ LatestStart(k - 1) = LatestStart(k) + CommandTimeout
    <2>1. N - k \in Int /\ N - (k - 1) = (N - k) + 1
      BY <1>1
    <2>2. \A m \in Int : /\ m * CommandTimeout \in Int
                        /\ (m + 1) * CommandTimeout = m * CommandTimeout + CommandTimeout
      BY <1>2
    <2> DEFINE m == N - k
    <2>3. /\ m \in Int /\ m * CommandTimeout \in Int
          /\ (m + 1) * CommandTimeout = m * CommandTimeout + CommandTimeout
      BY <2>1, <2>2
    <2>4. /\ LatestStart(k) = expiresAt + m * CommandTimeout
          /\ LatestStart(k - 1) = expiresAt + (m + 1) * CommandTimeout
      BY <2>1 DEF LatestStart
    <2> HIDE DEF m
    <2>5. QED
      BY <1>2, <2>3, <2>4
  <1>4. ASSUME NEW k \in 0..N
        PROVE  expiresAt <= LatestStart(k)
    <2>1. N - k \in Nat
      BY <1>1
    <2>2. \A m \in Nat : m * CommandTimeout \in Nat
      BY <1>2
    <2>3. (N - k) * CommandTimeout \in Nat
      BY <2>1, <2>2
    <2>4. QED
      BY <1>2, <2>3 DEF LatestStart
  <1>5. QED
    BY <1>1, <1>2, <1>3, <1>4

\* Steps after which the same commands are in line and on the wire, in time.
LEMMA TimeStands ==
    ASSUME TimeOK, UNCHANGED <<line, now, since, expiresAt>>,
           \A c \in Commands : OnWire(c)' <=> OnWire(c)
    PROVE  TimeOK'
  BY DEF TimeOK, LatestStart

\* A command whose turn has not come is not preceded by one on the wire.
LEMMA NobodyBefore ==
    ASSUME LiveInv, NEW c \in Commands, AtHead(c), status[c] = "waiting"
    PROVE  line # <<>> /\ \A d \in Commands : ~OnWire(d)
  BY DEF LiveInv, LineOK, AtHead, OnWire

\* The head of the line ends: the next one may start a deadline later.
LEMMA EndInTime ==
    ASSUME LiveInv, TimeOK, NEW c \in Commands, GiveUp(c) \/ Answer(c),
           UNCHANGED <<now, expiresAt>>
    PROVE  TimeOK'
  <1>1. /\ Len(line) \in Nat \ {0} /\ Len(line') = Len(line) - 1
        /\ \A d \in Commands : ~OnWire(d)'
    BY LeaveKeeps DEF LiveInv
  <1>2. now < LatestStart(Len(line)) + CommandTimeout
    <2>1. /\ LatestStart(Len(line)) \in Int /\ CommandTimeout \in Nat
          /\ now \in Nat /\ since \in Nat
      BY Starts, LiveAssumption
    <2>2. CASE GiveUp(c)
      <3>1. now < LatestStart(Len(line))
        BY <2>2, NobodyBefore DEF GiveUp, TimeOK
      <3>2. QED
        BY <2>1, <3>1
    <2>3. CASE Answer(c)
      <3>1. since < LatestStart(Len(line)) /\ now <= since + CommandTimeout
        BY <2>3 DEF Answer, OnWire, TimeOK
      <3>2. QED
        BY <2>1, <3>1
    <2>4. QED
      BY <2>2, <2>3
  <1>3. now < LatestStart(Len(line'))
    BY <1>1, <1>2, Starts
  <1>4. LatestStart(Len(line))' = LatestStart(Len(line'))
    BY DEF LatestStart
  <1>5. QED
    BY <1>1, <1>3, <1>4 DEF TimeOK

\* Nothing is let in after expiry, and what was let in before can still wait for
\* all there is to wait for.
LEMMA AcceptInTime ==
    ASSUME LiveInv, TimeOK, NEW c \in Commands, NEW id \in Ids, InvokeAccepted(c, id),
           Len(line') <= Cardinality(Commands)
    PROVE  TimeOK'
  <1>1. /\ now < expiresAt /\ UNCHANGED <<now, since, expiresAt>>
        /\ LetIn(c) /\ line' = Append(line, c)
    BY DEF InvokeAccepted, LetIn, clientVars
  <1>2. Len(line') \in 0..Cardinality(Commands)
    <2>1. Len(line') = Len(line) + 1
      BY <1>1, AppendProperties DEF LiveInv, LineOK
    <2>2. QED
      BY <2>1, Starts
  <1>3. expiresAt <= LatestStart(Len(line')) /\ LatestStart(Len(line')) \in Int
    BY <1>2, Starts
  <1>4. LatestStart(Len(line))' = LatestStart(Len(line'))
    BY <1>1 DEF LatestStart
  <1>5. \A d \in Commands : OnWire(d)' => OnWire(d)
    BY <1>1 DEF LetIn, OnWire, LiveInv, LineOK
  <1>6. \A d \in Commands : OnWire(d) => since <= now /\ now <= since + CommandTimeout
    BY DEF TimeOK
  <1>7. now \in Nat /\ since \in Nat /\ expiresAt \in Nat
    BY Starts
  <1>8. now < LatestStart(Len(line'))
    BY <1>1, <1>3, <1>7
  <1>9. \A d \in Commands : OnWire(d)' => since < LatestStart(Len(line'))
    BY <1>3, <1>5, <1>6, <1>7, <1>8
  <1>10. QED
    BY <1>1, <1>4, <1>5, <1>6, <1>8, <1>9 DEF TimeOK

\* No step makes a command late.
LEMMA TimeStep == LiveInv /\ TimeOK /\ LineOK' /\ [LiveNext]_liveVars => TimeOK'
  <1> SUFFICES ASSUME LiveInv, TimeOK, LineOK', [LiveNext]_liveVars PROVE TimeOK'
    OBVIOUS
  <1> USE DEF clientVars
  <1>1. ASSUME NEW flag \in BOOLEAN, NEW policiesOK \in BOOLEAN, NEW ids \in SUBSET Ids,
               Create(flag, policiesOK, ids)
        PROVE  TimeOK'
    <2>1. \A c \in Commands : ~InLine(c)
      BY <1>1 DEF Create, LiveInv, GateOK
    <2>2. Waiting = {} /\ \A c \in Commands : ~OnWire(c)
      BY <2>1 DEF Waiting, InLine, OnWire
    <2>3. line = <<>>
      BY <2>2, FS_EmptySet, EmptySeq DEF LiveInv, LineOK
    <2>4. QED
      BY <1>1, <2>2, <2>3 DEF Create, lineVars, TimeOK, OnWire
  <1>2. ASSUME NEW c \in Commands, TurnAway(c), UNCHANGED <<now, since, expiresAt>>
        PROVE  TimeOK'
    <2>1. \A d \in Commands : OnWire(d)' <=> OnWire(d)
      BY <1>2 DEF TurnAway, OnWire, LiveInv, LineOK
    <2>2. QED
      BY <1>2, <2>1, TimeStands DEF TurnAway
  <1>3. CASE UNCHANGED <<lineVars, now, since, expiresAt>>
    BY <1>3, TimeStands DEF lineVars, OnWire
  <1>4. ASSUME NEW c \in Commands, NEW id \in Ids, InvokeAccepted(c, id)
        PROVE  TimeOK'
    <2>1. Len(line') <= Cardinality(Commands)
      <3>1. Waiting' \subseteq Commands
        BY DEF Waiting
      <3>2. QED
        BY <3>1, LiveAssumption, FS_Subset DEF LineOK
    <2>2. QED
      BY <1>4, <2>1, AcceptInTime
  <1>5. ASSUME NEW c \in Commands, NEW id \in Ids, Invoke(c, id)
        PROVE  TimeOK'
    BY <1>2, <1>3, <1>4, <1>5
    DEF Invoke, InvokeUnavailable, InvokeExpired, InvokeRefused, Reject
  <1>6. ASSUME NEW c \in Commands, Send(c)
        PROVE  TimeOK'
    <2>1. /\ since' = now /\ UNCHANGED <<line, now, expiresAt>>
          /\ AtHead(c) /\ status[c] = "waiting"
          /\ status' = [status EXCEPT ![c] = "served"]
      BY <1>6 DEF Send, Serve
    <2>2. now < LatestStart(Len(line))
      BY <2>1, NobodyBefore DEF TimeOK
    <2>3. status'[c] = "served"
      BY <2>1 DEF LiveInv, LineOK
    <2>4. now \in Nat /\ CommandTimeout \in Nat
      BY Starts, LiveAssumption
    <2>5. now <= now /\ now <= now + CommandTimeout
      BY <2>4
    <2>6. QED
      BY <2>1, <2>2, <2>3, <2>5 DEF TimeOK, OnWire, LatestStart
  <1>7. ASSUME NEW c \in Commands, Runner(c)
        PROVE  TimeOK'
    BY <1>6, <1>7, EndInTime DEF Runner, SessionClosed, Finish, Ends, TimesOut
  <1>8. CASE Tick
    <2>1. /\ now' = now + 1 /\ UNCHANGED <<line, since, expiresAt, status>>
          /\ \A c \in Commands : AtHead(c) => OnWire(c)
          /\ \A c \in Commands : OnWire(c) => now - since < CommandTimeout
      BY <1>8 DEF Tick, lineVars
    <2>2. line # <<>> => \E c \in Commands : OnWire(c)
      <3>1. line # <<>> => Head(line) \in Commands
        BY HeadTailProperties DEF LiveInv, LineOK
      <3>2. QED
        BY <2>1, <3>1 DEF AtHead
    <2>3. /\ now \in Nat /\ since \in Nat /\ CommandTimeout \in Nat
      BY Starts, LiveAssumption
    <2>4. \A c \in Commands : OnWire(c) =>
             since <= now + 1 /\ now + 1 <= since + CommandTimeout
      BY <2>1, <2>3 DEF TimeOK
    <2>5. QED
      BY <2>1, <2>2, <2>4 DEF TimeOK, OnWire, LatestStart
  <1>9. CASE SessionDrops \/ Reconnects \/ UNCHANGED liveVars
    BY <1>3, <1>9 DEF SessionDrops, Reconnects, liveVars
  <1>10. QED
    BY <1>1, <1>2, <1>5, <1>7, <1>8, <1>9 DEF LiveNext, CloseSettles

-----------------------------------------------------------------------------
(* What is promised *)

\* Every reachable state satisfies the inductive invariant.
LEMMA Invariance == LiveSpec => [](LiveInv /\ TimeOK)
  <1>1. LiveInv /\ TimeOK /\ [LiveNext]_liveVars => LiveInv' /\ TimeOK'
    BY LineStep, SafeStep, TimeStep DEF LiveInv, SafeInv
  <1>2. QED
    BY InitInv, <1>1, PTL DEF LiveSpec

\* Every variable keeps its type, and only exposed operations are in line.
THEOREM LiveTypes == LiveSpec => []LiveTypeOK
  <1>1. LiveInv => LiveTypeOK
    BY DEF LiveInv
  <1>2. QED
    BY <1>1, Invariance, PTL

\* Nothing reaches the router without all four keys.
THEOREM GatedReads == LiveSpec => []OnlyGatedReadsSent
  <1>1. LiveInv => OnlyGatedReadsSent
    BY DEF LiveInv, GateOK
  <1>2. QED
    BY <1>1, Invariance, PTL

\* A command goes astray only if the transport moved while it was in line.
THEOREM Strays == LiveSpec => []StrayOnlyByReconnect
  <1>1. LiveInv => StrayOnlyByReconnect
    BY DEF LiveInv, PeerOK
  <1>2. QED
    BY <1>1, Invariance, PTL

\* However many invocations there are, the work past expiry is bounded by a
\* command deadline for each command let in before.
THEOREM Overrun == LiveSpec => []OverrunBounded
  <1>1. LiveInv /\ TimeOK => OverrunBounded
    <2> SUFFICES ASSUME LiveInv, TimeOK, line # <<>>
                 PROVE  now < expiresAt
                          + (Cardinality(Commands) - Len(line) + 1) * CommandTimeout
      BY DEF OverrunBounded
    <2>1. /\ LatestStart(Len(line)) \in Int /\ CommandTimeout \in Nat
          /\ now \in Nat /\ since \in Nat
          /\ Len(line) \in Nat /\ Cardinality(Commands) \in Nat
          /\ LatestStart(Len(line) - 1) = LatestStart(Len(line)) + CommandTimeout
      BY Starts, LiveAssumption
    <2>2. now < LatestStart(Len(line)) + CommandTimeout
      BY <2>1 DEF TimeOK
    <2>3. LatestStart(Len(line) - 1)
             = expiresAt + (Cardinality(Commands) - Len(line) + 1) * CommandTimeout
      <3>1. Cardinality(Commands) - (Len(line) - 1) = Cardinality(Commands) - Len(line) + 1
        BY <2>1
      <3>2. QED
        BY <3>1 DEF LatestStart
    <2>4. QED
      BY <2>1, <2>2, <2>3
  <1>2. QED
    BY <1>1, Invariance, PTL
===============================================================================
