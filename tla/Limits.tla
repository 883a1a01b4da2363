-------------------------------- MODULE Limits --------------------------------
(***************************************************************************)
(* The execution limits of src/internal/execution/limits.ts, from the      *)
(* defaults through the client's options and an operation's override down  *)
(* to the limits one command is sent with.                                 *)
(*                                                                         *)
(* A limit is any number the caller can write: an integer, or NotInteger   *)
(* for NaN, a fraction, an infinity or an explicit undefined. A call goes  *)
(* through #dispatch as a whole; what it was sent with is remembered.      *)
(***************************************************************************)
EXTENDS Integers

CONSTANTS
    Defaults,     \* defaultExecutionLimits
    MaxTimer,     \* MAX_TIMER_MS, the longest delay setTimeout honours
    MaxSafe,      \* Number.MAX_SAFE_INTEGER
    Values,       \* the numbers callers and operations may give
    NotInteger,   \* any number that is not an integer
    NoTimeout,    \* ExecuteOptions without timeoutMs
    Options,      \* FromTransportOptions.limits
    Overrides,    \* executionOverride of the operations, {} for a raw command
    CommandSizes  \* UTF-8 lengths of commands

Timers == {"commandTimeoutMs", "idleTimeoutMs"}
Ceilings == {"maxCommandBytes", "maxOutputBytes"}
Fields == Timers \cup Ceilings

MaxOf(f) == IF f \in Timers THEN MaxTimer ELSE MaxSafe

\* assertLimitValue: a positive integer no greater than max.
ValidValue(v, max) == v # NotInteger /\ v > 0 /\ v <= max

\* assertExecutionLimits
ValidLimits(limits) == \A f \in Fields : ValidValue(limits[f], MaxOf(f))

\* The limits a caller or an operation may give: some fields, with any value.
Partial == UNION {[F -> Values] : F \in SUBSET Fields}

ASSUME LimitsAssumption ==
    /\ NotInteger \notin Int
    /\ NoTimeout \notin Values
    /\ Options \subseteq Partial
    /\ Overrides \subseteq Partial
    /\ MaxTimer \in Nat
    /\ MaxSafe \in Nat
    /\ Values \subseteq Int \cup {NotInteger}
    /\ CommandSizes \subseteq Nat
    /\ Defaults \in [Fields -> Int]
    /\ ValidLimits(Defaults)

\* { ...limits, ...override }: the fields that are given replace the others.
Merge(limits, override) ==
    [f \in Fields |-> IF f \in DOMAIN override THEN override[f] ELSE limits[f]]

MinOf(a, b) == IF a <= b THEN a ELSE b

\* The values resolveLimits accepts: it throws invalid_options for any other.
Resolvable(base, timeoutMs, override) ==
    /\ ValidLimits(Merge(base, override))
    /\ timeoutMs # NoTimeout => ValidValue(timeoutMs, MaxTimer)

\* Mutant of Resolve: the caller's timeoutMs replaces the ceiling.
ResolveReplacing(base, timeoutMs, override) ==
    IF timeoutMs = NoTimeout THEN Merge(base, override)
    ELSE [Merge(base, override) EXCEPT !["commandTimeoutMs"] = timeoutMs]

\* Mutant of Resolve: the operation's override is applied to the defaults.
ResolveFromDefaults(base, timeoutMs, override) ==
    IF timeoutMs = NoTimeout THEN Merge(Defaults, override)
    ELSE [Merge(Defaults, override) EXCEPT
            !["commandTimeoutMs"] = MinOf(@, timeoutMs)]

\* resolveLimits of values it accepts: timeoutMs may only lower the deadline.
Resolve(base, timeoutMs, override) ==
    IF timeoutMs = NoTimeout THEN Merge(base, override)
    ELSE [Merge(base, override) EXCEPT
            !["commandTimeoutMs"] = MinOf(@, timeoutMs)]

-----------------------------------------------------------------------------
VARIABLES
    built,  \* the client has a runner
    base,   \* #baseLimits of that runner
    call    \* the last call of #dispatch: its inputs, how it ended, its limits

vars == <<built, base, call>>

NoCall == [timeoutMs |-> NoTimeout, override |-> <<>>, size |-> 0,
           result |-> "none", limits |-> Defaults]

Init ==
    /\ built = FALSE
    /\ base = Defaults
    /\ call = NoCall

\* Mutant of FromTransport: the runner takes the limits as they are.
FromTransportUnchecked(options) ==
    /\ ~built
    /\ built' = TRUE
    /\ base' = Merge(Defaults, options)
    /\ UNCHANGED call

\* Vigor3912SClient.fromTransport: the options replace defaults, and the runner
\* refuses limits that are not valid.
FromTransport(options) ==
    /\ ~built
    /\ ValidLimits(Merge(Defaults, options))
    /\ built' = TRUE
    /\ base' = Merge(Defaults, options)
    /\ UNCHANGED call

\* Mutant of DispatchResult: timeoutMs must be an integer, and no more.
DispatchResultUnchecked(size, timeoutMs, override) ==
    CASE ~ValidLimits(Merge(base, override)) \/ timeoutMs = NotInteger
            -> "invalid_options"
      [] OTHER -> "sent"

\* #dispatch of a well-formed command: limits first, then the command's size.
DispatchResult(size, timeoutMs, override) ==
    CASE ~Resolvable(base, timeoutMs, override) -> "invalid_options"
      [] /\ Resolvable(base, timeoutMs, override)
         /\ size > Resolve(base, timeoutMs, override)["maxCommandBytes"]
           -> "too_large"
      [] OTHER -> "sent"

\* The whole of #dispatch up to the queue; a refused call is sent with nothing.
Dispatch(size, timeoutMs, override) ==
    /\ built
    /\ LET result == DispatchResult(size, timeoutMs, override)
       IN  call' = [timeoutMs |-> timeoutMs, override |-> override,
                    size |-> size, result |-> result,
                    limits |-> IF result = "sent"
                               THEN Resolve(base, timeoutMs, override)
                               ELSE Defaults]
    /\ UNCHANGED <<built, base>>

Next ==
    \/ \E options \in Options : FromTransport(options)
    \/ \E size \in CommandSizes, timeoutMs \in Values \cup {NoTimeout},
          override \in Overrides : Dispatch(size, timeoutMs, override)

Spec == Init /\ [][Next]_vars

-----------------------------------------------------------------------------
Sent == call.result = "sent"

\* Limits are limits, and a refused call was given none.
TypeOK ==
    /\ built \in BOOLEAN
    /\ base \in [Fields -> Int]
    /\ call \in [timeoutMs : Values \cup {NoTimeout},
                override : Overrides \cup {NoCall.override},
                size : CommandSizes \cup {0},
                result : {"none", "invalid_options", "too_large", "sent"},
                limits : [Fields -> Int]]

\* "Rejects limits that would silently disable a guard": whatever the options,
\* the override and the timeoutMs are, a command is sent with four positive
\* integers, and with timers that setTimeout does not fire at once.
GuardsStayOn == Sent => ValidLimits(call.limits)

\* The caller's timeoutMs "may only lower commandTimeoutMs, never raise it", and
\* it touches no other limit: a limit above the runner's own comes from the
\* override of the operation.
OnlyOverrideRaises ==
    Sent =>
        \A f \in Fields :
            /\ f \notin DOMAIN call.override => call.limits[f] <= base[f]
            /\ f \in DOMAIN call.override => call.limits[f] <= call.override[f]
            /\ f # "commandTimeoutMs" =>
                  call.limits[f] = Merge(base, call.override)[f]

\* docs/usage.md of the options of fromTransport: they cannot raise the limits
\* above the defaults of the SDK. The code merges them in either direction.
OptionsCannotRaise ==
    \A f \in Fields : base[f] <= Defaults[f]
===============================================================================
