------------------------------- MODULE Limiter -------------------------------
(***************************************************************************)
(* The token bucket of the HTTP server, limiter in                         *)
(* src/internal/http/middleware.go.  One bucket is shared by all requests. *)
(*                                                                         *)
(* Time is counted in ticks, PerSecond of them in a second, and tokens in  *)
(* parts, PerSecond of them in a token, so that a bucket of Rate tokens a  *)
(* second gains Rate parts with each tick.  The code counts in float64;    *)
(* its rounding is not modelled.  stamps is kept for checking only.        *)
(***************************************************************************)
EXTENDS Integers, Sequences

CONSTANTS
    Rate,       \* http.rate_per_second, any integer
    PerSecond,  \* ticks in a second
    MaxTime     \* bound: ticks of the clock

VARIABLES
    now,     \* the clock
    tokens,  \* parts in the bucket when it was last looked at
    last,    \* when that was
    stamps   \* history: when each request was let in

limiterVars == <<now, tokens, last, stamps>>

LimiterAssumption == Rate \in Int /\ PerSecond \in Nat \ {0} /\ MaxTime \in Nat

ASSUME LimiterAssumption

\* newLimiter raises the rate to one
PerTick == IF Rate < 1 THEN 1 ELSE Rate
Capacity == PerTick * PerSecond

LimiterInit ==
    /\ now = 0
    /\ tokens = Capacity
    /\ last = 0
    /\ stamps = <<>>

Refilled ==
    LET sum == tokens + (now - last) * PerTick
    IN  IF sum > Capacity THEN Capacity ELSE sum

\* Allow returns true
Allow ==
    /\ Refilled >= PerSecond
    /\ tokens' = Refilled - PerSecond
    /\ last' = now
    /\ stamps' = Append(stamps, now)
    /\ UNCHANGED now

\* mistake: what was refilled is not kept
DenyForgets ==
    /\ Refilled < PerSecond
    /\ last' = now
    /\ UNCHANGED <<now, tokens, stamps>>

\* Allow returns false, and keeps what it refilled
Deny ==
    /\ Refilled < PerSecond
    /\ tokens' = Refilled
    /\ last' = now
    /\ UNCHANGED <<now, stamps>>

Tick ==
    /\ now < MaxTime
    /\ now' = now + 1
    /\ UNCHANGED <<tokens, last, stamps>>
-----------------------------------------------------------------------------
LimiterTypeOK ==
    /\ now \in Nat
    /\ tokens \in 0..Capacity
    /\ last \in 0..now
    /\ stamps \in Seq(Nat)

\* However requests are spread and refused, any stretch of time lets in no
\* more than a full bucket and what flows into it meanwhile,
NoneTooMany ==
    \A i, j \in 1..Len(stamps) : i <= j =>
        (j - i + 1) * PerSecond <= Capacity + (stamps[j] - stamps[i]) * PerTick

\* and a request is refused only if it would be one too many: some stretch of
\* time up to now has let in so many that with this request it would be more.
NoneTooFew ==
    Refilled < PerSecond =>
        \E i \in 1..Len(stamps) :
            (Len(stamps) - i + 2) * PerSecond > Capacity + (now - stamps[i]) * PerTick

\* Nothing is refilled twice, and nothing that was refilled is lost to the
\* requests refused in between (middleware.go:149-163).
RateKept == NoneTooMany /\ NoneTooFew
=============================================================================
