----------------------------- MODULE LimitsProofs -----------------------------
(***************************************************************************)
(* What Limits promises, for every default, option, override and timeoutMs.*)
(*                                                                         *)
(* Induction needs one fact beyond the properties: the base of the runner  *)
(* is valid from the start. The rest is about Merge and Resolve, which     *)
(* compute every limit a command is sent with.                             *)
(***************************************************************************)
EXTENDS Limits, TLAPS

\* Limits as numbers, and the least of two.
LEMMA MinOfIsLeast ==
    ASSUME NEW a \in Int, NEW b \in Int
    PROVE  /\ MinOf(a, b) \in {a, b}
           /\ MinOf(a, b) <= a
           /\ MinOf(a, b) <= b
  BY DEF MinOf

\* Valid limits are integers.
LEMMA ValidLimitsAreIntegers ==
    ASSUME NEW limits, ValidLimits(limits),
           \A f \in Fields : limits[f] \in Int \cup {NotInteger}
    PROVE  \A f \in Fields : limits[f] \in Int
  BY DEF ValidLimits, ValidValue

\* Options and overrides give fields, and numbers for them.
LEMMA GivenValues ==
    ASSUME NEW given \in Partial
    PROVE  /\ DOMAIN given \subseteq Fields
           /\ \A f \in DOMAIN given : given[f] \in Int \cup {NotInteger}
  <1>1. PICK F \in SUBSET Fields : given \in [F -> Values]
    BY DEF Partial
  <1>2. DOMAIN given = F /\ \A f \in F : given[f] \in Values
    BY <1>1
  <1>3. QED
    BY <1>2, LimitsAssumption

\* Merging a partial object into integer limits gives a number for every field.
LEMMA MergeIsTotal ==
    ASSUME NEW limits \in [Fields -> Int], NEW given \in Partial
    PROVE  /\ Merge(limits, given) = [f \in Fields |-> Merge(limits, given)[f]]
           /\ \A f \in Fields :
                 /\ Merge(limits, given)[f] \in Int \cup {NotInteger}
                 /\ f \notin DOMAIN given => Merge(limits, given)[f] = limits[f]
                 /\ f \in DOMAIN given => Merge(limits, given)[f] = given[f]
  BY GivenValues DEF Merge

\* What is merged and valid is integer limits.
LEMMA ValidMerge ==
    ASSUME NEW limits \in [Fields -> Int], NEW given \in Partial,
           ValidLimits(Merge(limits, given))
    PROVE  Merge(limits, given) \in [Fields -> Int]
  <1>1. \A f \in Fields : Merge(limits, given)[f] \in Int
    BY MergeIsTotal, ValidLimitsAreIntegers
  <1>2. QED
    BY <1>1 DEF Merge

\* resolveLimits of values it accepts: valid limits, a deadline no later than the
\* merged one and no later than timeoutMs, and the merged value of every other
\* limit.
LEMMA ResolveIsValid ==
    ASSUME NEW limits \in [Fields -> Int], NEW given \in Partial,
           NEW timeoutMs \in Values \cup {NoTimeout},
           Resolvable(limits, timeoutMs, given)
    PROVE  /\ Resolve(limits, timeoutMs, given) \in [Fields -> Int]
           /\ ValidLimits(Resolve(limits, timeoutMs, given))
           /\ \A f \in Fields :
                 /\ Resolve(limits, timeoutMs, given)[f]
                       <= Merge(limits, given)[f]
                 /\ f # "commandTimeoutMs" =>
                       Resolve(limits, timeoutMs, given)[f]
                         = Merge(limits, given)[f]
  <1> DEFINE merged == Merge(limits, given)
             resolved == Resolve(limits, timeoutMs, given)
  <1>1. merged \in [Fields -> Int] /\ ValidLimits(merged)
    BY ValidMerge DEF Resolvable
  <1>2. CASE timeoutMs = NoTimeout
    <2>1. resolved = merged
      BY <1>2 DEF Resolve
    <2>2. \A f \in Fields : merged[f] <= merged[f]
      BY <1>1
    <2>3. QED
      BY <1>1, <2>1, <2>2
  <1>3. CASE timeoutMs # NoTimeout
    <2>1. timeoutMs \in Int /\ ValidValue(timeoutMs, MaxTimer)
      BY <1>3, LimitsAssumption DEF Resolvable, ValidValue
    <2> DEFINE least == MinOf(merged["commandTimeoutMs"], timeoutMs)
    <2>2. resolved = [merged EXCEPT !["commandTimeoutMs"] = least]
      BY <1>3 DEF Resolve
    <2>3. "commandTimeoutMs" \in Fields /\ MaxOf("commandTimeoutMs") = MaxTimer
      BY DEF Fields, Timers, MaxOf
    <2>4. /\ least \in Int
          /\ least \in {merged["commandTimeoutMs"], timeoutMs}
          /\ least <= merged["commandTimeoutMs"]
      BY <1>1, <2>1, <2>3, MinOfIsLeast
    <2>5. ValidValue(least, MaxTimer)
      BY <1>1, <2>1, <2>3, <2>4 DEF ValidLimits
    <2>6. resolved \in [Fields -> Int]
      BY <1>1, <2>2, <2>4
    <2>7. /\ resolved["commandTimeoutMs"] = least
          /\ \A f \in Fields :
                f # "commandTimeoutMs" => resolved[f] = merged[f]
      BY <1>1, <2>2, <2>3
    <2>8. ValidLimits(resolved)
      BY <1>1, <2>3, <2>5, <2>7 DEF ValidLimits
    <2>9. \A f \in Fields : resolved[f] <= merged[f]
      <3> SUFFICES ASSUME NEW f \in Fields PROVE resolved[f] <= merged[f]
        OBVIOUS
      <3>1. CASE f = "commandTimeoutMs"
        BY <3>1, <2>4, <2>7
      <3>2. CASE f # "commandTimeoutMs"
        BY <3>2, <2>7, <1>1
      <3>3. QED
        BY <3>1, <3>2
    <2>10. QED
      BY <2>6, <2>7, <2>8, <2>9
  <1>4. QED
    BY <1>2, <1>3

-----------------------------------------------------------------------------
\* What the properties say of the call that was sent.
CallOK == Sent => GuardsStayOn /\ OnlyOverrideRaises

\* The inductive invariant: the runner's own limits are integers and valid, and
\* nothing is sent before there is a runner.
LimitsInv ==
    /\ base \in [Fields -> Int]
    /\ ValidLimits(base)
    /\ ~built => ~Sent
    /\ CallOK

LEMMA LimitsInvInit == Init => LimitsInv
  BY LimitsAssumption DEF Init, NoCall, LimitsInv, CallOK, Sent

\* FromTransport keeps it: the runner's constructor validates what it stores.
LEMMA FromTransportKeeps ==
    ASSUME LimitsInv, NEW options \in Options, FromTransport(options)
    PROVE  LimitsInv'
  <1>1. options \in Partial /\ Defaults \in [Fields -> Int]
    BY LimitsAssumption
  <1>2. base' = Merge(Defaults, options) /\ ValidLimits(Merge(Defaults, options))
    BY DEF FromTransport
  <1>3. base' \in [Fields -> Int]
    BY <1>1, <1>2, ValidMerge
  <1>4. ValidLimits(base)'
    BY <1>2 DEF ValidLimits
  <1>5. ~Sent'
    BY DEF LimitsInv, FromTransport, Sent
  <1>6. QED
    BY <1>3, <1>4, <1>5 DEF LimitsInv, CallOK

\* Dispatch keeps it: what is sent was resolved first.
LEMMA DispatchKeeps ==
    ASSUME LimitsInv, NEW size \in CommandSizes,
           NEW timeoutMs \in Values \cup {NoTimeout}, NEW override \in Overrides,
           Dispatch(size, timeoutMs, override)
    PROVE  LimitsInv'
  <1> DEFINE result == DispatchResult(size, timeoutMs, override)
             limits == Resolve(base, timeoutMs, override)
             merged == Merge(base, override)
  <1>1. /\ base \in [Fields -> Int]
        /\ override \in Partial
        /\ base' = base
        /\ built' = built /\ built
    BY LimitsAssumption DEF LimitsInv, Dispatch
  <1>2. ValidLimits(base)'
    BY <1>1 DEF LimitsInv, ValidLimits
  <1>3. ASSUME Sent' PROVE (GuardsStayOn /\ OnlyOverrideRaises)'
    <2>1. /\ result = "sent"
          /\ call'.limits = limits
          /\ call'.override = override
      BY <1>3 DEF Dispatch, Sent
    <2>2. Resolvable(base, timeoutMs, override)
      BY <2>1 DEF DispatchResult
    <2>3. /\ limits \in [Fields -> Int]
          /\ ValidLimits(limits)
          /\ \A f \in Fields :
                /\ limits[f] <= merged[f]
                /\ f # "commandTimeoutMs" => limits[f] = merged[f]
      BY <1>1, <2>2, ResolveIsValid
    <2>4. GuardsStayOn'
      BY <2>1, <2>3 DEF GuardsStayOn, ValidLimits
    <2>5. \A f \in Fields :
             /\ f \notin DOMAIN override => merged[f] = base[f]
             /\ f \in DOMAIN override => merged[f] = override[f]
      BY <1>1, MergeIsTotal
    <2>6. OnlyOverrideRaises'
      <3>1. \A f \in Fields : Merge(base', call'.override)[f] = merged[f]
        BY <1>1, <2>1
      <3>2. QED
        BY <1>1, <2>1, <2>3, <2>5, <3>1 DEF OnlyOverrideRaises
    <2>7. QED
      BY <2>4, <2>6
  <1>4. QED
    BY <1>1, <1>2, <1>3 DEF LimitsInv, CallOK

LEMMA LimitsInvStep == LimitsInv /\ [Next]_vars => LimitsInv'
  <1> SUFFICES ASSUME LimitsInv, [Next]_vars PROVE LimitsInv'
    OBVIOUS
  <1>1. ASSUME NEW options \in Options, FromTransport(options) PROVE LimitsInv'
    BY <1>1, FromTransportKeeps
  <1>2. ASSUME NEW size \in CommandSizes,
               NEW timeoutMs \in Values \cup {NoTimeout},
               NEW override \in Overrides,
               Dispatch(size, timeoutMs, override)
        PROVE  LimitsInv'
    BY <1>2, DispatchKeeps
  <1>3. CASE UNCHANGED vars
    BY <1>3 DEF vars, LimitsInv, CallOK, Sent, GuardsStayOn, OnlyOverrideRaises,
                ValidLimits, Merge
  <1>4. QED
    BY <1>1, <1>2, <1>3 DEF Next

\* Every reachable state satisfies the inductive invariant.
THEOREM LimitsInvariance == Spec => []LimitsInv
  <1>1. Init => LimitsInv
    BY LimitsInvInit
  <1>2. LimitsInv /\ [Next]_vars => LimitsInv'
    BY LimitsInvStep
  <1>3. QED
    BY <1>1, <1>2, PTL DEF Spec

\* No option, override or timeoutMs gets a command sent with a guard switched off.
THEOREM GuardsAlwaysOn == Spec => []GuardsStayOn
  <1>1. LimitsInv => GuardsStayOn
    BY DEF LimitsInv, CallOK, GuardsStayOn
  <1>2. QED
    BY <1>1, LimitsInvariance, PTL

\* Only an operation's override raises a limit above the runner's own, and only to
\* the value it names.
THEOREM OnlyOverridesRaise == Spec => []OnlyOverrideRaises
  <1>1. LimitsInv => OnlyOverrideRaises
    BY DEF LimitsInv, CallOK, OnlyOverrideRaises
  <1>2. QED
    BY <1>1, LimitsInvariance, PTL

\* Every variable keeps its type: limits are integers, and a refused call is
\* recorded with the defaults.
THEOREM LimitTypes == Spec => []TypeOK
  <1>1. Init => TypeOK
    <2>1. ASSUME NEW given
          PROVE  [timeoutMs |-> NoTimeout, override |-> given, size |-> 0,
                  result |-> "none", limits |-> Defaults]
                 \in [timeoutMs : Values \cup {NoTimeout},
                     override : Overrides \cup {given},
                     size : CommandSizes \cup {0},
                     result : {"none", "invalid_options", "too_large", "sent"},
                     limits : [Fields -> Int]]
      BY LimitsAssumption
    <2>2. PICK given : given = NoCall.override
      OBVIOUS
    <2>3. NoCall = [timeoutMs |-> NoTimeout, override |-> given, size |-> 0,
                    result |-> "none", limits |-> Defaults]
      BY <2>2 DEF NoCall
    <2>4. NoCall \in [timeoutMs : Values \cup {NoTimeout},
                      override : Overrides \cup {given},
                      size : CommandSizes \cup {0},
                      result : {"none", "invalid_options", "too_large", "sent"},
                      limits : [Fields -> Int]]
      BY <2>1, <2>3
    <2>5. QED
      BY <2>2, <2>4, LimitsAssumption DEF Init, TypeOK
  <1>2. LimitsInv /\ TypeOK /\ [Next]_vars => TypeOK'
    <2> SUFFICES ASSUME LimitsInv, TypeOK, [Next]_vars PROVE TypeOK'
      OBVIOUS
    <2>1. ASSUME NEW options \in Options, FromTransport(options) PROVE TypeOK'
      <3>1. base' \in [Fields -> Int]
        BY <2>1, ValidMerge, LimitsAssumption DEF FromTransport
      <3>2. QED
        BY <2>1, <3>1 DEF FromTransport, TypeOK
    <2>2. ASSUME NEW size \in CommandSizes, NEW timeoutMs \in Values \cup {NoTimeout},
                 NEW override \in Overrides, Dispatch(size, timeoutMs, override)
          PROVE  TypeOK'
      <3> DEFINE result == DispatchResult(size, timeoutMs, override)
                 limits == IF result = "sent" THEN Resolve(base, timeoutMs, override)
                                              ELSE Defaults
      <3>1. result \in {"invalid_options", "too_large", "sent"}
        BY DEF DispatchResult
      <3>2. limits \in [Fields -> Int]
        <4>1. result = "sent" => Resolvable(base, timeoutMs, override)
          BY DEF DispatchResult
        <4>2. QED
          BY <4>1, ResolveIsValid, LimitsAssumption DEF TypeOK
      <3>3. /\ call' = [timeoutMs |-> timeoutMs, override |-> override,
                        size |-> size, result |-> result, limits |-> limits]
            /\ UNCHANGED <<built, base>>
        BY <2>2 DEF Dispatch
      <3> HIDE DEF result, limits
      <3>4. QED
        BY <3>1, <3>2, <3>3 DEF TypeOK
    <2>3. CASE UNCHANGED vars
      BY <2>3 DEF vars, TypeOK
    <2>4. QED
      BY <2>1, <2>2, <2>3 DEF Next
  <1>3. QED
    BY <1>1, <1>2, LimitsInvariance, PTL DEF Spec
===============================================================================
