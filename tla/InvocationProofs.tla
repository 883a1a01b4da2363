--------------------------- MODULE InvocationProofs ---------------------------
(***************************************************************************)
(* What Invocation promises, for any calls, frames, exchanges and other     *)
(* users of the session: a frame is on the session only if all before it    *)
(* ended normally, parsers see complete and normal results, and nothing of  *)
(* a refused call is sent.                                                  *)
(***************************************************************************)
EXTENDS Invocation, SequenceTheorems, TLAPS

Stages == {"idle", "waiting", "served", "answered"}
Vouched == (WithRunner \cap Canonical) \ BadInput
Parsed(i) == told[i] \in {"parsed", "parse_error"}

\* The command has ended with a normal result.
Done(c) == status[c] = "answered" /\ c \notin failed /\ Normal(heard[c])

CallTypeOK ==
    /\ status \in [Commands -> Stages]
    /\ heard \in [Commands -> Exchanges \cup {Silence}]
    /\ failed \subseteq Commands
    /\ told \in [Calls -> Outcomes]
    /\ next \in [Calls -> Nat]
    /\ kept \in [Calls -> Seq(Commands)]

\* The frames of a call have been submitted up to next, and those but the last
\* have ended normally.
FramesOK ==
    \A i \in Calls :
        /\ next[i] <= Len(FramesOf[i])
        /\ next[i] > 0 => i \in Vouched
        /\ \A k \in 1..Len(FramesOf[i]) :
              status[FramesOf[i][k]] # "idle" <=> k <= next[i]
        /\ \A k \in 1..Len(FramesOf[i]) : k < next[i] => Done(FramesOf[i][k])

\* The exchanges of a call have been kept up to the one it awaits, or awaited last.
KeptOK ==
    \A i \in Calls :
        /\ Len(kept[i]) \in {next[i] - 1, next[i]}
        /\ told[i] = "pending" /\ next[i] > 0 => Len(kept[i]) = next[i] - 1
        /\ \A k \in 1..Len(kept[i]) : kept[i][k] = FramesOf[i][k]
        /\ Parsed(i) => /\ Len(kept[i]) = Len(FramesOf[i])
                        /\ \A k \in 1..Len(FramesOf[i]) : Done(FramesOf[i][k])

CallInv == CallTypeOK /\ FramesOK /\ KeptOK

-----------------------------------------------------------------------------
(* Frames and commands *)

\* The frames of the calls are different commands.
LEMMA Frames ==
    ASSUME NEW i \in Calls
    PROVE  /\ FramesOf[i] \in Seq(Commands) /\ Len(FramesOf[i]) \in Nat
           /\ FramesIn(i) = {FramesOf[i][k] : k \in 1..Len(FramesOf[i])}
           /\ \A k \in 1..Len(FramesOf[i]) : FramesOf[i][k] \in Commands
           /\ \A k, m \in 1..Len(FramesOf[i]) :
                 FramesOf[i][k] = FramesOf[i][m] => k = m
           /\ \A j \in Calls : \A k \in 1..Len(FramesOf[i]), m \in 1..Len(FramesOf[j]) :
                 FramesOf[i][k] = FramesOf[j][m] => i = j
  <1>1. \A j \in Calls :
           /\ FramesOf[j] \in Seq(Commands) /\ Len(FramesOf[j]) \in Nat
           /\ DOMAIN FramesOf[j] = 1..Len(FramesOf[j])
           /\ \A k \in 1..Len(FramesOf[j]) : FramesOf[j][k] \in Commands
    BY InvocationAssumption, LenProperties, ElementOfSeq
  <1>2. \A j \in Calls : FramesIn(j) = {FramesOf[j][k] : k \in 1..Len(FramesOf[j])}
    BY <1>1 DEF FramesIn, ToSet
  <1>3. \A k, m \in 1..Len(FramesOf[i]) : FramesOf[i][k] = FramesOf[i][m] => k = m
    BY <1>1, InvocationAssumption DEF IsInjective
  <1>4. \A j \in Calls : \A k \in 1..Len(FramesOf[i]), m \in 1..Len(FramesOf[j]) :
           FramesOf[i][k] = FramesOf[j][m] => i = j
    <2> SUFFICES ASSUME NEW j \in Calls, NEW k \in 1..Len(FramesOf[i]),
                        NEW m \in 1..Len(FramesOf[j]), FramesOf[i][k] = FramesOf[j][m]
                 PROVE  i = j
      OBVIOUS
    <2>1. FramesOf[i][k] \in FramesIn(i) \cap FramesIn(j)
      BY <1>2
    <2>2. \A a, b \in Calls : a # b => FramesIn(a) \cap FramesIn(b) = {}
      BY InvocationAssumption
    <2>3. QED
      BY <2>1, <2>2
  <1>5. QED
    BY <1>1, <1>2, <1>3, <1>4

\* A command that is answered stays so; only one that is not can fail or be heard.
Turns(c) ==
    /\ status[c] # "answered"
    /\ \E s \in Stages \ {"idle"} : status' = [status EXCEPT ![c] = s]
    /\ failed \subseteq failed' /\ failed' \subseteq failed \cup {c}
    /\ \A d \in Commands : d # c => heard'[d] = heard[d]

LEMMA DoneStays ==
    ASSUME CallTypeOK, NEW c \in Commands, Turns(c), NEW d \in Commands, Done(d)
    PROVE  Done(d)'
  BY DEF CallTypeOK, Turns, Done, Normal

\* A step that moves one command, which either was on the session before or
\* belongs to no call, leaves calls as they are.
LEMMA MoveKeeps ==
    ASSUME CallInv, CallTypeOK', NEW c \in Commands, Turns(c),
           status[c] # "idle" \/ c \in RawCommands,
           UNCHANGED <<next, kept, told>>
    PROVE  CallInv'
  <1>1. FramesOK'
    <2> SUFFICES ASSUME NEW i \in Calls
                 PROVE  /\ next'[i] <= Len(FramesOf[i])
                        /\ next'[i] > 0 => i \in Vouched
                        /\ \A k \in 1..Len(FramesOf[i]) :
                              (status'[FramesOf[i][k]] # "idle" <=> k <= next'[i])
                        /\ \A k \in 1..Len(FramesOf[i]) :
                              k < next'[i] => Done(FramesOf[i][k])'
      BY DEF FramesOK
    <2>1. ASSUME NEW k \in 1..Len(FramesOf[i])
          PROVE  status'[FramesOf[i][k]] # "idle" <=> status[FramesOf[i][k]] # "idle"
      <3>1. FramesOf[i][k] \in Commands /\ FramesOf[i][k] \notin RawCommands
        BY Frames DEF RawCommands
      <3>2. QED
        BY <3>1 DEF Turns, CallInv, CallTypeOK
    <2>2. QED
      BY <2>1, Frames, DoneStays DEF CallInv, FramesOK
  <1>2. KeptOK'
    BY Frames, DoneStays DEF CallInv, KeptOK, Parsed
  <1>3. QED
    BY <1>1, <1>2 DEF CallInv

-----------------------------------------------------------------------------
(* Steps of a call *)

\* Submitting a frame takes it from idle, and moves no other command.
LEMMA Submits ==
    ASSUME CallInv, NEW i \in Calls, next[i] < Len(FramesOf[i]), Submit(i),
           i \in Vouched, UNCHANGED heard,
           \A k \in 1..Len(FramesOf[i]) : k <= next[i] => Done(FramesOf[i][k])
    PROVE  /\ next' = [next EXCEPT ![i] = @ + 1]
           /\ FramesOK'
           /\ status' \in [Commands -> Stages] /\ failed' \subseteq Commands
           /\ \A d \in Commands : Done(d) => Done(d)'
  <1> DEFINE n == next[i] + 1
             c == FramesOf[i][n]
  <1>1. n \in 1..Len(FramesOf[i]) /\ c \in Commands /\ next[i] \in Nat
    BY Frames DEF CallInv, CallTypeOK
  <1>2. /\ next' = [next EXCEPT ![i] = @ + 1]
        /\ status[c] = "idle"
        /\ \E s \in {"waiting", "answered"} : status' = [status EXCEPT ![c] = s]
        /\ failed \subseteq failed' /\ failed' \subseteq failed \cup {c}
    BY DEF Submit, LetIn, TurnAway
  <1>3. Turns(c)
    BY <1>2 DEF Turns, Stages
  <1>4. \A d \in Commands : Done(d) => Done(d)'
    BY <1>1, <1>3, DoneStays DEF CallInv
  <1>5. status' \in [Commands -> Stages] /\ failed' \subseteq Commands
    BY <1>1, <1>2 DEF CallInv, CallTypeOK, Stages
  <1>6. ASSUME NEW j \in Calls
        PROVE  /\ next'[j] <= Len(FramesOf[j])
               /\ next'[j] > 0 => j \in Vouched
               /\ \A k \in 1..Len(FramesOf[j]) :
                     (status'[FramesOf[j][k]] # "idle" <=> k <= next'[j])
               /\ \A k \in 1..Len(FramesOf[j]) : k < next'[j] => Done(FramesOf[j][k])'
    <2>1. \A k \in 1..Len(FramesOf[j]) : FramesOf[j][k] \in Commands
      BY Frames
    <2>2. CASE j = i
      <3>1. next'[i] = n
        BY <1>2 DEF CallInv, CallTypeOK
      <3>2. ASSUME NEW k \in 1..Len(FramesOf[i])
            PROVE  status'[FramesOf[i][k]] # "idle" <=> k <= n
        <4>1. CASE k = n
          BY <1>1, <1>2, <4>1 DEF CallInv, CallTypeOK
        <4>2. CASE k # n
          <5>1. FramesOf[i][k] # c
            BY <1>1, <4>2, Frames
          <5>2. status'[FramesOf[i][k]] = status[FramesOf[i][k]]
            BY <1>2, <2>1, <2>2, <5>1 DEF CallInv, CallTypeOK
          <5>3. QED
            BY <1>1, <4>2, <5>2 DEF CallInv, FramesOK
        <4>3. QED
          BY <4>1, <4>2
      <3>3. \A k \in 1..Len(FramesOf[i]) : k < n => Done(FramesOf[i][k])'
        BY <1>1, <1>4, <2>1, <2>2
      <3>4. QED
        BY <1>1, <2>2, <3>1, <3>2, <3>3
    <2>3. CASE j # i
      <3>1. next'[j] = next[j]
        BY <1>2, <2>3 DEF CallInv, CallTypeOK
      <3>2. ASSUME NEW k \in 1..Len(FramesOf[j])
            PROVE  status'[FramesOf[j][k]] = status[FramesOf[j][k]]
        <4>1. FramesOf[j][k] # c
          BY <1>1, <2>3, Frames
        <4>2. QED
          BY <1>2, <2>1, <4>1 DEF CallInv, CallTypeOK
      <3>3. QED
        BY <1>4, <2>1, <3>1, <3>2 DEF CallInv, FramesOK
    <2>4. QED
      BY <2>2, <2>3
  <1>7. FramesOK'
    BY <1>6 DEF FramesOK
  <1>8. QED
    BY <1>2, <1>4, <1>5, <1>7

\* A call that ends without parsing.
LEMMA SettleKeeps ==
    ASSUME CallInv, NEW i \in Calls, NEW outcome \in Outcomes \ {"pending"},
           outcome \notin {"parsed", "parse_error"}, Settle(i, outcome)
    PROVE  CallInv'
  <1>1. /\ told' = [told EXCEPT ![i] = outcome]
        /\ UNCHANGED <<heard, failed, next, kept, status>>
    BY DEF Settle, lineVars
  <1>2. CallTypeOK'
    BY <1>1 DEF CallInv, CallTypeOK
  <1>3. FramesOK'
    BY <1>1 DEF CallInv, FramesOK, Done
  <1>4. KeptOK'
    BY <1>1 DEF CallInv, CallTypeOK, KeptOK, Done, Parsed
  <1>5. QED
    BY <1>2, <1>3, <1>4 DEF CallInv

\* The exchange that is judged normal is the one of the frame that was awaited.
LEMMA AcceptedFrame ==
    ASSUME CallInv, NEW i \in Calls, Accepts(i)
    PROVE  /\ next[i] \in 1..Len(FramesOf[i])
           /\ i \in Vouched
           /\ told[i] = "pending" /\ Len(kept[i]) = next[i] - 1
           /\ Awaited(i) = FramesOf[i][next[i]] /\ Awaited(i) \in Commands
           /\ \A k \in 1..Len(FramesOf[i]) : k <= next[i] => Done(FramesOf[i][k])
  <1>1. /\ next[i] \in 1..Len(FramesOf[i]) /\ i \in Vouched
        /\ told[i] = "pending" /\ Len(kept[i]) = next[i] - 1
        /\ \A k \in 1..Len(FramesOf[i]) : k < next[i] => Done(FramesOf[i][k])
    BY Frames DEF CallInv, CallTypeOK, FramesOK, KeptOK, Accepts, Resumes
  <1>2. Awaited(i) = FramesOf[i][next[i]] /\ Awaited(i) \in Commands
    BY <1>1, Frames DEF Awaited
  <1>3. Done(Awaited(i))
    BY DEF Accepts, Resumes, Done, Normal, Rejection
  <1>4. QED
    BY <1>1, <1>2, <1>3

\* What is kept grows by the exchange that was awaited.
LEMMA KeptGrows ==
    ASSUME CallInv, NEW i \in Calls, Accepts(i),
           kept' = [kept EXCEPT ![i] = Append(@, Awaited(i))]
    PROVE  /\ kept' \in [Calls -> Seq(Commands)]
           /\ Len(kept'[i]) = next[i]
           /\ \A k \in 1..Len(kept'[i]) : kept'[i][k] = FramesOf[i][k]
           /\ \A j \in Calls : j # i => kept'[j] = kept[j]
  <1>1. kept'[i] = Append(kept[i], Awaited(i)) /\ kept[i] \in Seq(Commands)
    BY DEF CallInv, CallTypeOK
  <1>2. /\ Len(kept[i]) = next[i] - 1 /\ Awaited(i) \in Commands
        /\ next[i] \in 1..Len(FramesOf[i]) /\ Awaited(i) = FramesOf[i][next[i]]
    BY AcceptedFrame
  <1>3. /\ kept'[i] \in Seq(Commands) /\ Len(kept'[i]) = Len(kept[i]) + 1
        /\ \A k \in 1..Len(kept[i]) : kept'[i][k] = kept[i][k]
        /\ kept'[i][Len(kept[i]) + 1] = Awaited(i)
    BY <1>1, <1>2, AppendProperties
  <1>4. Len(kept'[i]) = next[i]
    BY <1>2, <1>3, Frames
  <1>5. ASSUME NEW k \in 1..Len(kept'[i]) PROVE kept'[i][k] = FramesOf[i][k]
    <2>1. CASE k = next[i]
      BY <1>2, <1>3, <1>4, <2>1, Frames
    <2>2. CASE k # next[i]
      <3>1. k \in 1..Len(kept[i])
        BY <1>2, <1>4, <2>2, Frames
      <3>2. QED
        BY <1>3, <3>1 DEF CallInv, KeptOK
    <2>3. QED
      BY <2>1, <2>2
  <1>6. QED
    BY <1>3, <1>4, <1>5 DEF CallInv, CallTypeOK

\* The first frame, of a call that passed the checks.
LEMMA StartKeeps == ASSUME CallInv, NEW i \in Calls, Start(i) PROVE CallInv'
  <1>1. /\ i \in Vouched /\ next[i] = 0 /\ told[i] = "pending" /\ FramesOf[i] # <<>>
        /\ Submit(i) /\ UNCHANGED <<heard, kept, told>>
    BY DEF Start, Unstarted, Vouched
  <1>2. next[i] < Len(FramesOf[i])
    BY <1>1, Frames, EmptySeq
  <1>3. /\ next' = [next EXCEPT ![i] = @ + 1] /\ FramesOK'
        /\ status' \in [Commands -> Stages] /\ failed' \subseteq Commands
        /\ \A d \in Commands : Done(d) => Done(d)'
    BY <1>1, <1>2, Submits
  <1>4. CallTypeOK'
    BY <1>1, <1>3 DEF CallInv, CallTypeOK
  <1>5. KeptOK'
    <2>1. ASSUME NEW j \in Calls, j # i
          PROVE  next'[j] = next[j]
      BY <1>3, <2>1 DEF CallInv, CallTypeOK
    <2>2. next'[i] = 1 /\ Len(kept[i]) = 0
      BY <1>1, <1>3, LenProperties DEF CallInv, CallTypeOK, KeptOK
    <2>3. QED
      BY <1>1, <1>3, <2>1, <2>2, Frames DEF CallInv, KeptOK, Parsed
  <1>6. QED
    BY <1>3, <1>4, <1>5 DEF CallInv

\* The next frame, when all before it are done.
LEMMA SendsNextKeeps == ASSUME CallInv, NEW i \in Calls, SendsNext(i) PROVE CallInv'
  <1>1. /\ Accepts(i) /\ next[i] < Len(FramesOf[i]) /\ Submit(i)
        /\ kept' = [kept EXCEPT ![i] = Append(@, Awaited(i))]
        /\ UNCHANGED <<heard, told>>
    BY DEF SendsNext
  <1>2. /\ next[i] \in 1..Len(FramesOf[i]) /\ i \in Vouched /\ told[i] = "pending"
        /\ \A k \in 1..Len(FramesOf[i]) : k <= next[i] => Done(FramesOf[i][k])
    BY <1>1, AcceptedFrame
  <1>3. /\ next' = [next EXCEPT ![i] = @ + 1] /\ FramesOK'
        /\ status' \in [Commands -> Stages] /\ failed' \subseteq Commands
        /\ \A d \in Commands : Done(d) => Done(d)'
    BY <1>1, <1>2, Submits
  <1>4. /\ kept' \in [Calls -> Seq(Commands)] /\ Len(kept'[i]) = next[i]
        /\ \A k \in 1..Len(kept'[i]) : kept'[i][k] = FramesOf[i][k]
        /\ \A j \in Calls : j # i => kept'[j] = kept[j]
    BY <1>1, KeptGrows
  <1>5. CallTypeOK'
    BY <1>1, <1>3, <1>4 DEF CallInv, CallTypeOK
  <1>6. KeptOK'
    <2>1. ASSUME NEW j \in Calls, j # i
          PROVE  next'[j] = next[j]
      BY <1>3, <2>1 DEF CallInv, CallTypeOK
    <2>2. next'[i] = next[i] + 1 /\ next'[i] - 1 = next[i] /\ ~Parsed(i)'
      BY <1>1, <1>2, <1>3, Frames DEF CallInv, CallTypeOK, Parsed
    <2> SUFFICES ASSUME NEW j \in Calls
                 PROVE  /\ Len(kept'[j]) \in {next'[j] - 1, next'[j]}
                        /\ told'[j] = "pending" /\ next'[j] > 0 =>
                              Len(kept'[j]) = next'[j] - 1
                        /\ \A k \in 1..Len(kept'[j]) : kept'[j][k] = FramesOf[j][k]
                        /\ Parsed(j)' =>
                              /\ Len(kept'[j]) = Len(FramesOf[j])
                              /\ \A k \in 1..Len(FramesOf[j]) : Done(FramesOf[j][k])'
      BY DEF KeptOK
    <2>3. CASE j = i
      BY <1>4, <2>2, <2>3
    <2>4. CASE j # i
      BY <1>1, <1>3, <1>4, <2>1, <2>4, Frames DEF CallInv, KeptOK, Parsed
    <2>5. QED
      BY <2>3, <2>4
  <1>7. QED
    BY <1>3, <1>5, <1>6 DEF CallInv

\* All frames are done, and all exchanges kept.
LEMMA ParsesKeeps == ASSUME CallInv, NEW i \in Calls, Parses(i) PROVE CallInv'
  <1>1. /\ Accepts(i) /\ next[i] = Len(FramesOf[i])
        /\ kept' = [kept EXCEPT ![i] = Append(@, Awaited(i))]
        /\ UNCHANGED <<heard, failed, next, status>>
    BY DEF Parses, lineVars
  <1>2. PICK outcome \in {"parsed", "parse_error"} : told' = [told EXCEPT ![i] = outcome]
    BY DEF Parses
  <1>3. /\ kept' \in [Calls -> Seq(Commands)] /\ Len(kept'[i]) = next[i]
        /\ \A k \in 1..Len(kept'[i]) : kept'[i][k] = FramesOf[i][k]
        /\ \A j \in Calls : j # i => kept'[j] = kept[j]
    BY <1>1, KeptGrows
  <1>4. \A k \in 1..Len(FramesOf[i]) : Done(FramesOf[i][k])
    BY <1>1, AcceptedFrame, Frames
  <1>5. CallTypeOK'
    BY <1>1, <1>2, <1>3 DEF CallInv, CallTypeOK, Outcomes
  <1>6. FramesOK'
    BY <1>1 DEF CallInv, FramesOK, Done
  <1>7. KeptOK'
    <2>1. told'[i] = outcome /\ \A j \in Calls : j # i => told'[j] = told[j]
      BY <1>2 DEF CallInv, CallTypeOK
    <2>2. \A d : Done(d)' <=> Done(d)
      BY <1>1 DEF Done
    <2>3. QED
      BY <1>1, <1>2, <1>3, <1>4, <2>1, <2>2 DEF CallInv, KeptOK, Parsed
  <1>8. QED
    BY <1>5, <1>6, <1>7 DEF CallInv

-----------------------------------------------------------------------------
(* The invariant *)

\* The state before any call satisfies the invariant.
LEMMA InitInv == InvocationInit => CallInv
  <1> SUFFICES ASSUME InvocationInit PROVE CallInv
    OBVIOUS
  <1>1. /\ status = [c \in Commands |-> "idle"] /\ failed = {}
        /\ heard = [c \in Commands |-> Silence]
        /\ next = [i \in Calls |-> 0] /\ kept = [i \in Calls |-> <<>>]
        /\ told = [i \in Calls |-> "pending"]
    BY DEF InvocationInit, LineInit
  <1>2. CallTypeOK
    BY <1>1, EmptySeq DEF CallTypeOK, Stages, Outcomes
  <1>3. FramesOK
    BY <1>1, Frames DEF FramesOK
  <1>4. KeptOK
    BY <1>1, EmptySeq DEF KeptOK, Parsed
  <1>5. QED
    BY <1>2, <1>3, <1>4 DEF CallInv

\* The runner, and raw commands, move commands no call is about to submit.
LEMMA RunnerKeeps ==
    ASSUME CallInv, NEW c \in Commands, Execute(c) \/ Exchange(c)
    PROVE  CallInv'
  <1>1. UNCHANGED <<next, kept, told>> /\ (status[c] # "idle" \/ c \in RawCommands)
    BY DEF Execute, Exchange, Serve, GiveUp, Answer, callVars
  <1>2. Turns(c)
    BY DEF Execute, Exchange, LetIn, TurnAway, Serve, GiveUp, Answer, callVars, Turns,
           Stages, CallInv, CallTypeOK
  <1>3. heard' \in [Commands -> Exchanges \cup {Silence}]
    BY DEF Execute, Exchange, callVars, CallInv, CallTypeOK
  <1>4. CallTypeOK'
    BY <1>1, <1>2, <1>3 DEF CallInv, CallTypeOK, Turns
  <1>5. QED
    BY <1>1, <1>2, <1>4, MoveKeeps

\* No step leaves the invariant.
LEMMA StepInv == CallInv /\ [InvocationNext]_invocationVars => CallInv'
  <1> SUFFICES ASSUME CallInv, [InvocationNext]_invocationVars PROVE CallInv'
    OBVIOUS
  <1>1. ASSUME NEW i \in Calls, Refuse(i) PROVE CallInv'
    BY <1>1, SettleKeeps DEF Refuse, Outcomes
  <1>2. ASSUME NEW i \in Calls, Start(i) PROVE CallInv'
    BY <1>2, StartKeeps
  <1>3. ASSUME NEW i \in Calls, Proceeds(i) PROVE CallInv'
    <2>1. CASE FailsWithRunner(i)
      BY <2>1, SettleKeeps DEF FailsWithRunner, Outcomes
    <2>2. CASE RejectsCommand(i)
      BY <2>2, SettleKeeps DEF RejectsCommand, Outcomes
    <2>3. QED
      BY <1>3, <2>1, <2>2, SendsNextKeeps, ParsesKeeps DEF Proceeds
  <1>4. CASE UNCHANGED invocationVars
    <2>1. UNCHANGED <<status, heard, failed, next, kept, told>>
      BY <1>4 DEF invocationVars, callVars, lineVars
    <2>2. CallTypeOK'
      BY <2>1 DEF CallInv, CallTypeOK
    <2>3. FramesOK' /\ KeptOK'
      BY <2>1 DEF CallInv, FramesOK, KeptOK, Done, Parsed
    <2>4. QED
      BY <2>2, <2>3 DEF CallInv
  <1>5. QED
    BY <1>1, <1>2, <1>3, <1>4, RunnerKeeps DEF InvocationNext

\* Every reachable state satisfies the inductive invariant.
LEMMA Invariance == InvocationSpec => []CallInv
  BY InitInv, StepInv, PTL DEF InvocationSpec

-----------------------------------------------------------------------------
(* What is promised *)

\* The parser of a call sees normal results of all its frames, in their order.
THEOREM ParsesNormal == InvocationSpec => []ParsesNormalResultsOnly
  <1>1. CallInv => ParsesNormalResultsOnly
    <2> SUFFICES ASSUME CallInv, NEW i \in Calls, Parsed(i)
                 PROVE  /\ kept[i] = FramesOf[i]
                        /\ \A c \in FramesIn(i) : c \notin failed /\ Normal(heard[c])
      BY DEF ParsesNormalResultsOnly, Parsed
    <2>1. kept[i] = FramesOf[i]
      BY Frames, SeqEqual DEF CallInv, CallTypeOK, KeptOK
    <2>2. \A c \in FramesIn(i) : Done(c)
      BY Frames DEF CallInv, KeptOK
    <2>3. QED
      BY <2>1, <2>2 DEF Done
  <1>2. QED
    BY <1>1, Invariance, PTL

\* A frame is on the session only if every earlier one ended normally.
THEOREM StopsAtFailure == InvocationSpec => []StopsAtFirstFailure
  <1>1. CallInv => StopsAtFirstFailure
    <2> SUFFICES ASSUME CallInv, NEW i \in Calls,
                        NEW j \in 1..Len(FramesOf[i]), NEW k \in 1..Len(FramesOf[i]),
                        j < k, status[FramesOf[i][k]] # "idle"
                 PROVE  Done(FramesOf[i][j])
      BY DEF StopsAtFirstFailure, Done
    <2>1. k <= next[i] /\ next[i] \in Nat /\ Len(FramesOf[i]) \in Nat
      BY Frames DEF CallInv, CallTypeOK, FramesOK
    <2>2. j < next[i]
      BY <2>1
    <2>3. QED
      BY <2>2 DEF CallInv, FramesOK
  <1>2. QED
    BY <1>1, Invariance, PTL

\* Nothing of a forged descriptor or a refused input reaches the session.
THEOREM VouchedFrames == InvocationSpec => []OnlyVouchedFramesSent
  <1>1. CallInv => OnlyVouchedFramesSent
    <2> SUFFICES ASSUME CallInv, NEW i \in Calls, NEW c \in FramesIn(i),
                        status[c] # "idle"
                 PROVE  i \in Vouched
      BY DEF OnlyVouchedFramesSent, Vouched
    <2>1. PICK k \in 1..Len(FramesOf[i]) : c = FramesOf[i][k]
      BY Frames
    <2>2. k <= next[i] /\ next[i] \in Nat
      BY <2>1 DEF CallInv, CallTypeOK, FramesOK
    <2>3. next[i] > 0
      BY <2>2, Frames
    <2>4. QED
      BY <2>3 DEF CallInv, FramesOK
  <1>2. QED
    BY <1>1, Invariance, PTL

\* Every variable keeps its type, and what is kept is a prefix of the call's frames.
THEOREM InvocationTypes == InvocationSpec => []InvocationTypeOK
  <1>1. CallInv => InvocationTypeOK
    <2> SUFFICES ASSUME CallInv PROVE InvocationTypeOK
      OBVIOUS
    <2>1. ASSUME NEW i \in Calls
          PROVE  /\ next[i] \in 0..Len(FramesOf[i])
                 /\ Len(kept[i]) \in {next[i] - 1, next[i]}
                 /\ IsPrefix(kept[i], FramesOf[i])
      <3>1. /\ kept[i] \in Seq(Commands) /\ FramesOf[i] \in Seq(Commands)
            /\ next[i] \in Nat /\ next[i] <= Len(FramesOf[i])
            /\ Len(kept[i]) \in {next[i] - 1, next[i]}
            /\ \A k \in 1..Len(kept[i]) : kept[i][k] = FramesOf[i][k]
        BY Frames DEF CallInv, CallTypeOK, FramesOK, KeptOK
      <3>2. Len(kept[i]) \in Nat /\ Len(FramesOf[i]) \in Nat
        BY <3>1, LenProperties
      <3>3. Len(kept[i]) <= Len(FramesOf[i])
        BY <3>1, <3>2
      <3> DEFINE n == Len(kept[i])
                 head == SubSeq(kept[i], 1, n)
                 front == SubSeq(FramesOf[i], 1, n)
      <3>4. \A k \in 1..n : kept[i][k] \in Commands /\ FramesOf[i][k] \in Commands
        BY <3>1, <3>2, <3>3, ElementOfSeq
      <3>5. n \in Int /\ (n - 1) + 1 = n /\ n = IF 1 <= n THEN (n - 1) + 1 ELSE 0
        BY <3>2
      <3>6. /\ head \in Seq(Commands) /\ Len(head) = IF 1 <= n THEN n - 1 + 1 ELSE 0
            /\ \A k \in 1..n - 1 + 1 : head[k] = kept[i][1 + k - 1]
        BY <3>4, <3>5, SubSeqProperties
      <3>7. /\ front \in Seq(Commands) /\ Len(front) = IF 1 <= n THEN n - 1 + 1 ELSE 0
            /\ \A k \in 1..n - 1 + 1 : front[k] = FramesOf[i][1 + k - 1]
        BY <3>4, <3>5, SubSeqProperties
      <3> HIDE DEF n, head, front
      <3>8. Len(head) = Len(front) /\ Len(head) = n
        BY <3>5, <3>6, <3>7
      <3>9. \A k \in 1..n : head[k] = kept[i][k] /\ front[k] = FramesOf[i][k]
        BY <3>5, <3>6, <3>7
      <3>10. \A k \in 1..n : kept[i][k] = FramesOf[i][k]
        BY <3>1 DEF n
      <3>11. head = front
        BY <3>6, <3>7, <3>8, <3>9, <3>10, SeqEqual
      <3>12. QED
        BY <3>1, <3>2, <3>3, <3>11 DEF IsPrefix, n, head, front
    <2>2. QED
      BY <2>1 DEF CallInv, CallTypeOK, InvocationTypeOK
  <1>2. QED
    BY <1>1, Invariance, PTL
===============================================================================
