----------------------------- MODULE SandboxProofs -----------------------------
(***************************************************************************)
(* Proofs about Sandbox, for any rate, limits, programs and executions.    *)
(*                                                                         *)
(* The parts do not disturb each other, so each has an invariant of its    *)
(* own: Flow and NoLoss for the bucket, Delivering for the callbacks,      *)
(* RunOK for what the stages of one execution know about each other, and   *)
(* Metered for the meter, whose sums are taken apart with the lemmas of    *)
(* SumProofs.                                                              *)
(***************************************************************************)
EXTENDS Sandbox, SumProofs, TLAPS

(***************************************************************************)
(* The limiter.  What was let in since any request and what is left in the *)
(* bucket came out of a full bucket and what has flowed in since; since    *)
(* the bucket was last full, it is all of that.                            *)
(***************************************************************************)
Flow ==
    \A i \in 1..Len(stamps) :
        /\ stamps[i] <= last
        /\ (Len(stamps) - i + 1) * PerSecond + tokens
             <= Capacity + (last - stamps[i]) * PerTick

\* Since it was last full, when it began or just before a request was let in,
\* nothing has been lost.
NoLoss ==
    \/ tokens = Capacity
    \/ \E i \in 1..Len(stamps) :
          (Len(stamps) - i + 1) * PerSecond + tokens
            = Capacity + (last - stamps[i]) * PerTick

LimiterInv == LimiterTypeOK /\ Flow /\ NoLoss /\ NoneTooMany

LEMMA Sizes == PerTick \in Nat \ {0} /\ PerSecond \in Nat \ {0} /\ Capacity \in Nat \ {0}
<1>1. PerTick \in Nat \ {0} /\ PerSecond \in Nat \ {0}
  BY LimiterAssumption DEF LimiterAssumption, PerTick
<1>2. \A a, b \in Nat \ {0} : a * b \in Nat \ {0}
  OBVIOUS
<1>3. QED
  BY <1>1, <1>2 DEF Capacity

LEMMA FlowAdds ==
    ASSUME NEW a \in Int, NEW b \in Int, NEW c \in Int, NEW r \in Int
    PROVE  (c - a) * r = (b - a) * r + (c - b) * r
  OBVIOUS

LEMMA OneMore ==
    ASSUME NEW n \in Int, NEW r \in Int
    PROVE  (n + 1) * r = n * r + r
  OBVIOUS

LEMMA WithInflow ==
    ASSUME NEW let \in Int, NEW t \in Int, NEW gained \in Int, NEW inflow \in Int,
           NEW u \in Int,
           let + t <= Capacity + gained, u <= t + inflow
    PROVE  let + u <= Capacity + (gained + inflow)
  BY Sizes

(* What a request finds in the bucket. *)
LEMMA RefilledBounds ==
    ASSUME LimiterTypeOK
    PROVE  /\ Refilled \in 0..Capacity
           /\ Refilled <= tokens + (now - last) * PerTick
           /\ tokens = Capacity => Refilled = Capacity
           /\ Refilled = Capacity \/ Refilled = tokens + (now - last) * PerTick
<1>1. (now - last) * PerTick \in Nat
  <2>1. \A a, b \in Nat : a * b \in Nat
    OBVIOUS
  <2>2. now - last \in Nat
    BY DEF LimiterTypeOK
  <2>3. QED
    BY <2>1, <2>2, Sizes
<1>2. QED
  BY <1>1, Sizes DEF Refilled, LimiterTypeOK

LEMMA LimiterBegins == ASSUME LimiterInit PROVE LimiterInv
  BY Sizes DEF LimiterInit, LimiterInv, LimiterTypeOK, Flow, NoLoss, NoneTooMany

LEMMA LimiterStep ==
    ASSUME LimiterInv, Allow \/ Deny \/ Tick \/ UNCHANGED limiterVars
    PROVE  LimiterInv'
<1> DEFINE inflow == (now - last) * PerTick
<1> USE Sizes DEF LimiterInv
<1>1. /\ now \in Nat /\ last \in 0..now /\ tokens \in 0..Capacity /\ stamps \in Seq(Nat)
      /\ Len(stamps) \in Nat
      /\ \A i \in 1..Len(stamps) : stamps[i] \in Nat
      /\ inflow \in Int
  BY DEF LimiterTypeOK
<1>2. /\ Refilled \in 0..Capacity
      /\ Refilled <= tokens + inflow
      /\ tokens = Capacity => Refilled = Capacity
      /\ Refilled = Capacity \/ Refilled = tokens + inflow
  BY RefilledBounds
<1>3. \A i \in 1..Len(stamps) :
        (now - stamps[i]) * PerTick = (last - stamps[i]) * PerTick + inflow
  BY <1>1, FlowAdds
<1>4. \/ Refilled = Capacity
      \/ \E i \in 1..Len(stamps) :
            (Len(stamps) - i + 1) * PerSecond + Refilled
              = Capacity + (now - stamps[i]) * PerTick
  <2>1. SUFFICES ASSUME Refilled = tokens + inflow, NEW i \in 1..Len(stamps),
                        (Len(stamps) - i + 1) * PerSecond + tokens
                          = Capacity + (last - stamps[i]) * PerTick
                 PROVE  (Len(stamps) - i + 1) * PerSecond + Refilled
                          = Capacity + (now - stamps[i]) * PerTick
    BY <1>2 DEF NoLoss
  <2> DEFINE let == (Len(stamps) - i + 1) * PerSecond
             gained == (last - stamps[i]) * PerTick
  <2>2. /\ let \in Int /\ gained \in Int /\ (now - stamps[i]) * PerTick = gained + inflow
        /\ let + tokens = Capacity + gained /\ Refilled = tokens + inflow
    BY <1>1, <1>3, <2>1
  <2> HIDE DEF let, gained, inflow
  <2>3. let + Refilled = Capacity + (gained + inflow)
    BY <1>1, <2>2
  <2>4. QED
    BY <2>2, <2>3 DEF let
<1>5. CASE Tick \/ UNCHANGED limiterVars
  <2>1. UNCHANGED <<last, tokens, stamps>> /\ now' \in Nat /\ now' >= now
    BY <1>1, <1>5 DEF Tick, limiterVars
  <2>2. QED
    BY <1>1, <2>1 DEF LimiterTypeOK, Flow, NoLoss, NoneTooMany
<1>6. CASE Deny
  <2>1. now' = now /\ last' = now /\ stamps' = stamps /\ tokens' = Refilled
    BY <1>6 DEF Deny
  <2>2. LimiterTypeOK'
    BY <1>1, <1>2, <2>1 DEF LimiterTypeOK
  <2>3. ASSUME NEW i \in 1..Len(stamps)
        PROVE  /\ stamps[i] <= now
               /\ (Len(stamps) - i + 1) * PerSecond + Refilled
                    <= Capacity + (now - stamps[i]) * PerTick
    <3> DEFINE let == (Len(stamps) - i + 1) * PerSecond
               gained == (last - stamps[i]) * PerTick
    <3>1. /\ stamps[i] <= last /\ let + tokens <= Capacity + gained
          /\ let \in Int /\ gained \in Int
      BY <1>1 DEF Flow
    <3>2. (now - stamps[i]) * PerTick = gained + inflow
      BY <1>3
    <3> HIDE DEF let, gained, inflow
    <3>3. let + Refilled <= Capacity + (gained + inflow)
      BY <1>1, <1>2, <3>1, WithInflow
    <3>4. stamps[i] <= now
      BY <1>1, <3>1
    <3>5. QED
      BY <3>2, <3>3, <3>4 DEF let
  <2>4. Flow' /\ NoneTooMany'
    BY <2>1, <2>3 DEF Flow, NoneTooMany
  <2>5. NoLoss'
    BY <1>4, <2>1 DEF NoLoss
  <2>6. QED
    BY <2>2, <2>4, <2>5
<1>7. CASE Allow
  <2> DEFINE n == Len(stamps)
  <2>1. /\ now' = now /\ last' = now /\ stamps' = Append(stamps, now)
        /\ tokens' = Refilled - PerSecond /\ Refilled >= PerSecond
    BY <1>7 DEF Allow
  <2>2. /\ Len(stamps') = n + 1 /\ stamps'[n + 1] = now
        /\ \A i \in 1..n : stamps'[i] = stamps[i]
    BY <1>1, <2>1
  <2>3. LimiterTypeOK'
    BY <1>1, <1>2, <2>1 DEF LimiterTypeOK
  <2>4. ASSUME NEW i \in 1..n
        PROVE  /\ stamps[i] <= now
               /\ (n + 1 - i + 1) * PerSecond + Refilled - PerSecond
                    <= Capacity + (now - stamps[i]) * PerTick
    <3> DEFINE let == (n - i + 1) * PerSecond
               gained == (last - stamps[i]) * PerTick
    <3>1. /\ stamps[i] <= last /\ let + tokens <= Capacity + gained
          /\ let \in Int /\ gained \in Int
      BY <1>1 DEF Flow
    <3>2. (now - stamps[i]) * PerTick = gained + inflow
      BY <1>3
    <3>3. (n + 1 - i + 1) * PerSecond = let + PerSecond
      <4>1. n + 1 - i + 1 = (n - i + 1) + 1 /\ n - i + 1 \in Int
        BY <1>1
      <4>2. QED
        BY <4>1, OneMore
    <3> HIDE DEF let, gained, inflow
    <3>4. let + Refilled <= Capacity + (gained + inflow)
      BY <1>1, <1>2, <3>1, WithInflow
    <3>5. (let + PerSecond) + Refilled - PerSecond <= Capacity + (gained + inflow)
      BY <1>1, <1>2, <3>1, <3>4
    <3>6. stamps[i] <= now
      BY <1>1, <3>1
    <3>7. QED
      BY <3>2, <3>3, <3>5, <3>6
  <2>5. ASSUME NEW i \in 1..(n + 1)
        PROVE  /\ stamps'[i] <= now
               /\ (n + 1 - i + 1) * PerSecond + tokens'
                    <= Capacity + (now - stamps'[i]) * PerTick
    <3>1. CASE i \in 1..n
      BY <1>2, <2>1, <2>2, <2>4, <3>1
    <3>2. CASE i = n + 1
      <4>1. n + 1 - i + 1 = 1 /\ now - stamps'[i] = 0
        BY <1>1, <2>2, <3>2
      <4>2. QED
        BY <1>1, <1>2, <2>1, <2>2, <3>2, <4>1
    <3>3. QED
      BY <1>1, <3>1, <3>2
  <2>6. Flow'
    BY <2>1, <2>2, <2>5 DEF Flow
  <2>7. NoneTooMany'
    <3> SUFFICES ASSUME NEW i \in 1..(n + 1), NEW j \in 1..(n + 1), i <= j
                 PROVE  (j - i + 1) * PerSecond
                          <= Capacity + (stamps'[j] - stamps'[i]) * PerTick
      BY <2>2 DEF NoneTooMany
    <3>1. CASE j \in 1..n
      <4>1. i \in 1..n
        BY <1>1, <3>1
      <4>2. QED
        BY <2>2, <3>1, <4>1 DEF NoneTooMany
    <3>2. CASE j = n + 1
      <4>1. (n + 1 - i + 1) * PerSecond \in Int /\ (now - stamps'[i]) * PerTick \in Int
            /\ tokens' \in Nat
        BY <1>1, <1>2, <2>1, <2>2
      <4>2. QED
        BY <2>2, <2>5, <3>2, <4>1
    <3>3. QED
      BY <1>1, <3>1, <3>2
  <2>8. NoLoss'
    <3>1. CASE Refilled = Capacity
      <4>1. (n + 1 - (n + 1) + 1) * PerSecond = PerSecond /\ (now - now) * PerTick = 0
        BY <1>1
      <4>2. (Len(stamps') - (n + 1) + 1) * PerSecond + tokens'
              = Capacity + (last' - stamps'[n + 1]) * PerTick
        BY <1>1, <2>1, <2>2, <3>1, <4>1
      <4>3. n + 1 \in 1..Len(stamps')
        BY <1>1, <2>2
      <4>4. QED
        BY <4>2, <4>3, Zenon DEF NoLoss
    <3>2. ASSUME NEW i \in 1..n,
                 (n - i + 1) * PerSecond + Refilled = Capacity + (now - stamps[i]) * PerTick
          PROVE  NoLoss'
      <4> DEFINE let == (n - i + 1) * PerSecond
                 gained == (now - stamps[i]) * PerTick
      <4>1. (n + 1 - i + 1) * PerSecond = let + PerSecond
        <5>1. n + 1 - i + 1 = (n - i + 1) + 1 /\ n - i + 1 \in Int
          BY <1>1
        <5>2. QED
          BY <5>1, OneMore
      <4>2. let \in Int /\ gained \in Int
        BY <1>1
      <4> HIDE DEF let, gained
      <4>3. (let + PerSecond) + (Refilled - PerSecond) = Capacity + gained
        BY <1>2, <3>2, <4>2 DEF let, gained
      <4>4. (Len(stamps') - i + 1) * PerSecond + tokens'
              = Capacity + (last' - stamps'[i]) * PerTick
        BY <2>1, <2>2, <4>1, <4>3 DEF gained
      <4>5. QED
        BY <1>1, <2>2, <4>4 DEF NoLoss
    <3>3. QED
      BY <1>4, <3>1, <3>2
  <2>9. QED
    BY <2>3, <2>6, <2>7, <2>8
<1>8. QED
  BY <1>5, <1>6, <1>7

(* A request that finds too little does so for what was let in since the bucket
   was last full. *)
LEMMA RefusedWhenSpent == ASSUME LimiterInv PROVE NoneTooFew
<1> DEFINE inflow == (now - last) * PerTick
           n == Len(stamps)
<1> USE Sizes DEF LimiterInv
<1> SUFFICES ASSUME Refilled < PerSecond
             PROVE  \E i \in 1..n :
                      (n - i + 2) * PerSecond > Capacity + (now - stamps[i]) * PerTick
  BY DEF NoneTooFew
<1>1. /\ now \in Nat /\ last \in 0..now /\ tokens \in 0..Capacity
      /\ n \in Nat /\ inflow \in Int
      /\ \A i \in 1..n : stamps[i] \in Nat
  BY DEF LimiterTypeOK
<1>2. PerSecond <= Capacity
  <2>1. \A a, b \in Nat \ {0} : b <= a * b
    OBVIOUS
  <2>2. QED
    BY <2>1 DEF Capacity
<1>3. Refilled = tokens + inflow /\ tokens # Capacity
  BY <1>2, RefilledBounds
<1>4. PICK i \in 1..n :
        (n - i + 1) * PerSecond + tokens = Capacity + (last - stamps[i]) * PerTick
  BY <1>3 DEF NoLoss
<1> DEFINE let == (n - i + 1) * PerSecond
           gained == (last - stamps[i]) * PerTick
<1>5. (now - stamps[i]) * PerTick = gained + inflow
  BY <1>1, FlowAdds
<1>6. (n - i + 2) * PerSecond = let + PerSecond
  <2>1. n - i + 2 = (n - i + 1) + 1 /\ n - i + 1 \in Int
    BY <1>1
  <2>2. QED
    BY <2>1, OneMore
<1>7. let \in Int /\ gained \in Int /\ let + tokens = Capacity + gained
  BY <1>1, <1>4
<1> HIDE DEF let, gained, inflow
<1>8. let + PerSecond > Capacity + (gained + inflow)
  BY <1>1, <1>3, <1>7
<1>9. QED
  BY <1>5, <1>6, <1>8

-----------------------------------------------------------------------------
(***************************************************************************)
(* The callback.  When an attempt begins, the earlier ones and their       *)
(* pauses have taken at most 0, 21 or 43 units, so that an attempt of up   *)
(* to 20 is cut off by the shared context only if it is the third.         *)
(***************************************************************************)
DeliveryType ==
    [at : {"none", "posting", "waiting", "delivered", "failed"},
     attempt : 0..3, elapsed : 0..60, received : 0..3]

DeliveryOK(d) ==
    /\ d \in DeliveryType
    /\ d.received <= d.attempt
    /\ d.at = "posting" =>
         /\ d.attempt >= 1 /\ d.received < d.attempt
         /\ d.attempt = 1 => d.elapsed = 0
         /\ d.attempt = 2 => d.elapsed <= 21
         /\ d.attempt = 3 => d.elapsed <= 43
    /\ d.at = "waiting" =>
         /\ d.attempt >= 1
         /\ d.attempt = 1 => d.elapsed <= 20
         /\ d.attempt = 2 => d.elapsed <= 41
    /\ d.at = "delivered" => d.received > 0
    /\ d.at = "failed" => d.attempt \in {0, Attempts}

Delivering ==
    /\ delivery \in [Execs -> DeliveryType]
    /\ \A x \in Execs : DeliveryOK(delivery[x])

LEMMA DeliveryBegins == ASSUME WebhookInit PROVE Delivering
<1>1. DeliveryOK(State("none", 0, 0, 0))
  BY DEF DeliveryOK, DeliveryType, State, Attempts
<1>2. QED
  BY <1>1 DEF WebhookInit, Delivering, DeliveryOK

(* A change of one delivery needs to be looked at for that delivery only. *)
LEMMA OneDelivery ==
    ASSUME Delivering, NEW x \in Execs, NEW d, DeliveryOK(d), DeliveryTo(x, d)
    PROVE  Delivering'
<1>1. d \in DeliveryType
  BY DEF DeliveryOK
<1>2. \A y \in Execs : delivery'[y] = IF y = x THEN d ELSE delivery[y]
  BY DEF Delivering, DeliveryTo
<1>3. QED
  BY <1>1, <1>2 DEF Delivering, DeliveryTo

LEMMA DeliveryStep ==
    ASSUME Delivering, NEW x \in Execs,
           BeginDelivery(x) \/ Deliver(x) \/ UNCHANGED delivery
    PROVE  Delivering'
<1> DEFINE d == delivery[x]
<1> USE DEF DeliveryOK, DeliveryType, State, Attempts, DeliveryTime
<1>1. DeliveryOK(d) /\ d \in DeliveryType
  BY DEF Delivering
<1>2. CASE BeginDelivery(x) \/ GiveUp(x)
  <2>1. DeliveryOK(State("posting", 1, 0, 0)) /\ DeliveryOK(State("failed", 0, 0, 0))
    OBVIOUS
  <2>2. QED
    BY <1>2, <2>1, OneDelivery DEF BeginDelivery, GiveUp
<1>3. CASE Post(x)
  <2>1. PICK t \in Durations, at \in {"delivered", "waiting"},
             received \in {d.received, d.received + 1} :
          /\ at = "delivered" => received = d.received + 1
          /\ DeliveryTo(x, State(at, d.attempt,
                IF t <= DeliveryTime - d.elapsed THEN d.elapsed + t ELSE DeliveryTime, received))
    BY <1>3 DEF Post
  <2>2. d.at = "posting" /\ t \in 0..20
    BY <1>3, WebhookAssumption DEF Post, WebhookAssumption, AttemptTime
  <2>3. DeliveryOK(State(at, d.attempt,
          IF t <= DeliveryTime - d.elapsed THEN d.elapsed + t ELSE DeliveryTime, received))
    BY <1>1, <2>1, <2>2
  <2>4. QED
    BY <2>1, <2>3, OneDelivery
<1>4. CASE Pause(x)
  <2> DEFINE end == d.elapsed + d.attempt
  <2>1. d.at = "waiting" /\ d.attempt \in 1..3
    BY <1>1, <1>4 DEF Pause
  <2>2. \/ end <= 60 /\ d.attempt < 3
           /\ DeliveryTo(x, State("posting", d.attempt + 1, end, d.received))
        \/ end <= 60 /\ d.attempt = 3 /\ DeliveryTo(x, State("failed", 3, end, d.received))
        \/ end >= 60 /\ DeliveryTo(x, State("failed", d.attempt, 60, d.received))
    BY <1>4, <2>1 DEF Pause, WaitAfter
  <2>3. CASE end <= 60 /\ d.attempt < 3
             /\ DeliveryTo(x, State("posting", d.attempt + 1, end, d.received))
    <3>1. DeliveryOK(State("posting", d.attempt + 1, end, d.received))
      BY <1>1, <2>1, <2>3
    <3>2. QED
      BY <2>3, <3>1, OneDelivery
  <2>4. CASE end <= 60 /\ d.attempt = 3 /\ DeliveryTo(x, State("failed", 3, end, d.received))
    <3>1. DeliveryOK(State("failed", 3, end, d.received))
      BY <1>1, <2>1, <2>4
    <3>2. QED
      BY <2>4, <3>1, OneDelivery
  <2>5. CASE end >= 60 /\ DeliveryTo(x, State("failed", d.attempt, 60, d.received))
    <3>1. d.attempt = 3
      BY <1>1, <2>1, <2>5
    <3>2. DeliveryOK(State("failed", d.attempt, 60, d.received))
      BY <1>1, <2>1, <3>1
    <3>3. QED
      BY <2>5, <3>2, OneDelivery
  <2>6. QED
    BY <2>2, <2>3, <2>4, <2>5
<1>5. QED
  BY <1>2, <1>3, <1>4 DEF Deliver, Delivering

-----------------------------------------------------------------------------
(***************************************************************************)
(* The runtime.  Good says what the result r of a program p that needs no  *)
(* more than b grants may be.                                              *)
(***************************************************************************)
ResultType ==
    [error : Errors, instructions : Nat, full : Nat, output : Nat, truncated : BOOLEAN]

Good(r, p, b) ==
    /\ r \in ResultType
    /\ r.error \in {"none", "trap", "operation"}
    /\ r.error = "trap" => p.operation = "fail"
    /\ r.error = "operation" => p.operation = "sum"
    /\ r.error = "none" =>
         /\ p.operation # "fail"
         /\ r.output <= b.output
         /\ IF r.truncated THEN r.output = b.output ELSE r.output = r.full

LEMMA CompiledTypes ==
    ASSUME NEW p, IsProgram(p)
    PROVE  /\ Compiled(p).cost \in Nat /\ Compiled(p).pages \in Nat /\ Compiled(p).stack \in Nat
           /\ Compiled(p).repeat \in Nat
  BY DEF IsProgram, Compiled, OrElse

LEMMA EmptyType ==
    ASSUME NEW error \in Errors
    PROVE  Empty(error) \in ResultType /\ Empty(error).error = error
  BY DEF Empty, Result, ResultType

LEMMA CutIsGood ==
    ASSUME NEW p, NEW b, p.cost \in Nat, p.repeat \in Nat, b.output \in Int,
           NEW n \in Nat, ~Panics(p, n, b.output), p.operation # "fail"
    PROVE  Good(Cut(p, n, b.output), p, b)
<1>1. n * p.repeat \in Nat
  <2>1. \A a, c \in Nat : a * c \in Nat
    OBVIOUS
  <2>2. QED
    BY <2>1
<1>2. b.output \in Nat
  BY DEF Panics
<1>3. CASE n * p.repeat > b.output
  <2>1. Cut(p, n, b.output) = [error |-> "none", instructions |-> p.cost,
           full |-> n * p.repeat, output |-> b.output, truncated |-> TRUE]
    BY <1>3 DEF Cut, Result
  <2>2. QED
    BY <1>1, <1>2, <2>1 DEF Good, ResultType, Errors
<1>4. CASE ~(n * p.repeat > b.output)
  <2>1. Cut(p, n, b.output) = [error |-> "none", instructions |-> p.cost,
           full |-> n * p.repeat, output |-> n * p.repeat, truncated |-> FALSE]
    <3>1. \A full \in Nat : Result("none", p.cost, full, full) =
            [error |-> "none", instructions |-> p.cost, full |-> full, output |-> full,
             truncated |-> FALSE]
      <4> TAKE full \in Nat
      <4>1. (full < full) = FALSE
        OBVIOUS
      <4>2. QED
        BY <4>1, Zenon DEF Result
    <3>2. Cut(p, n, b.output) = Result("none", p.cost, n * p.repeat, n * p.repeat)
      BY <1>4 DEF Cut
    <3>3. QED
      BY <1>1, <3>1, <3>2
  <2>2. QED
    BY <1>1, <1>2, <1>4, <2>1 DEF Good, ResultType, Errors
<1>5. QED
  BY <1>3, <1>4

LEMMA LengthsAreNat ==
    ASSUME NEW p, NEW n \in Nat
    PROVE  LengthsOf(p, n) \subseteq Nat /\ (p.operation = "fail" => LengthsOf(p, n) = {})
<1>1. p.operation \in {"echo", "hash", "upper", "reverse", "sum"}
        \/ p.operation \notin {"echo", "hash", "upper", "reverse", "sum"}
  OBVIOUS
<1>2. QED
  BY <1>1, SimulatorAssumption DEF LengthsOf, SimulatorAssumption

(* Whatever is computed is a panic or a good result. *)
LEMMA ComputedIsGood ==
    ASSUME NEW p, NEW b, p.cost \in Nat, p.repeat \in Nat, b.output \in Int, NEW n \in Nat,
           NEW r \in Computed(p, n, b), r # Panic
    PROVE  Good(r, p, b)
<1> DEFINE lengths == LengthsOf(p, n)
           bad == {k \in lengths : Panics(p, k, b.output)}
<1>1. CASE r \in {Cut(p, k, b.output) : k \in lengths \ bad}
  <2>1. PICK k \in lengths : r = Cut(p, k, b.output) /\ ~Panics(p, k, b.output)
    BY <1>1
  <2>2. k \in Nat /\ p.operation # "fail"
    BY LengthsAreNat
  <2>3. QED
    BY <2>1, <2>2, CutIsGood
<1>2. CASE p.operation = "fail" /\ r = Result("trap", p.cost, 0, 0)
  BY <1>2 DEF Good, Result, ResultType, Errors
<1>3. CASE p.operation = "sum" /\ r = Empty("operation")
  BY <1>3 DEF Good, Empty, Result, ResultType, Errors
<1>4. QED
  BY <1>1, <1>2, <1>3 DEF Computed

LEMMA RefusedByLimit ==
    ASSUME NEW p, NEW b, p.cost \in Nat
    PROVE  /\ Refused(p, b) \in ResultType
           /\ Refused(p, b).error \in {"instructions", "memory", "stack"}
  BY DEF Refused, Empty, Result, ResultType, Errors

-----------------------------------------------------------------------------
(***************************************************************************)
(* The stages of one execution.  From the compilation on the record has    *)
(* the normalized budget; a program sleeps only if its limits suffice; the *)
(* result fits its cause until it is written, and the class comes from it. *)
(***************************************************************************)
Stages == {"new", "refused", "served", "asking", "queued", "leased", "stranded", "compiled",
           "asleep", "returned", "saved", "unsaved", "reported", "done"}

RunTypes ==
    /\ pc \in [Execs \cup Probes -> Stages]
    /\ request \in [Execs -> Requests \cup {NoRequest}]
    /\ budget \in [Execs -> [BudgetFields -> Int]]
    /\ ctx \in [Execs -> {"none", "live", "canceled", "deadline"}]
    /\ result \in [Execs -> ResultType]
    /\ class \in [Execs -> Classes]
    /\ stored \subseteq Execs

Judged(x) ==
    LET p == Program(x)
        r == result[x]
    IN  \/ Exceeds(p, budget[x]) /\ r.error \in {"instructions", "memory", "stack"}
        \/ /\ ~Exceeds(p, budget[x])
           /\ r.error = ctx[x] /\ ctx[x] \in {"canceled", "deadline"} /\ p.delay > 0
        \/ ~Exceeds(p, budget[x]) /\ Good(r, p, budget[x])

RunOK(x) ==
    /\ pc[x] \notin {"new", "refused"} => request[x] \in Requests
    /\ pc[x] \notin {"new", "refused", "asking"} =>
         budget[x] = Normalize(request[x].budget) /\ Validate(budget[x])
    /\ pc[x] \in {"leased", "compiled", "asleep"} => ctx[x] # "none"
    /\ pc[x] = "asleep" => ~Exceeds(Program(x), budget[x]) /\ Program(x).delay > 0
    /\ pc[x] \in {"returned", "saved", "unsaved", "reported"} => Judged(x)
    /\ pc[x] \in {"saved", "unsaved", "reported"} => class[x] = ClassOf(result[x].error)
    /\ pc[x] = "done" =>
         /\ class[x] \in {"invalid", "resource", "runtime"}
         /\ result[x].error \in {"quota", "compile", "unprepared"}
    /\ x \in stored <=> pc[x] \in {"saved", "reported"}

RunInv == RunTypes /\ \A x \in Execs : RunOK(x)

Same(x) ==
    /\ pc'[x] = pc[x] /\ request'[x] = request[x] /\ budget'[x] = budget[x]
    /\ ctx'[x] = ctx[x] /\ result'[x] = result[x] /\ class'[x] = class[x]
    /\ x \in stored' <=> x \in stored

LEMMA SameRun == ASSUME NEW x \in Execs, RunOK(x), Same(x) PROVE RunOK(x)'
  BY DEF RunOK, Same, Judged, Program

(* A step of one execution needs to be looked at for that execution only. *)
LEMMA OneRun ==
    ASSUME RunInv, NEW x \in Execs, RunTypes', RunOK(x)', \A y \in Execs \ {x} : Same(y)
    PROVE  RunInv'
  BY SameRun DEF RunInv

LEMMA RunBegins == ASSUME Init PROVE RunInv
<1>1. Empty("none") \in ResultType
  BY EmptyType DEF Errors
<1>2. NoBudget \in [BudgetFields -> Int]
  BY DEF NoBudget
<1>3. RunTypes
  BY <1>1, <1>2 DEF Init, RunTypes, Stages, Classes
<1>4. \A x \in Execs : RunOK(x)
  BY DEF Init, RunOK
<1>5. QED
  BY <1>3, <1>4 DEF RunInv

LEMMA NormalizedType ==
    ASSUME NEW r \in Requests
    PROVE  /\ Normalize(r.budget) \in [BudgetFields -> Int]
           /\ IsProgram(r.program) /\ r.size \in Nat
<1>1. IsBudget(r.budget) /\ IsProgram(r.program) /\ r.size \in Nat
  BY SandboxAssumption DEF SandboxAssumption
<1>2. \A f \in BudgetFields : r.budget[f] \in Int /\ MaxBudget[f] \in Int
  BY <1>1, SimulatorAssumption DEF IsBudget, SimulatorAssumption
<1>3. QED
  BY <1>1, <1>2 DEF Normalize

(* Before the run. *)
LEMMA AskingStep ==
    ASSUME RunInv, NEW x \in Execs,
           Arrive(x) \/ Submit(x) \/ Acquire(x) \/ Interrupt(x)
    PROVE  RunInv'
<1> USE DEF RunInv
<1>1. CASE Arrive(x)
  <2>1. /\ UNCHANGED <<budget, ctx, result, class, stored>> /\ pc[x] = "new"
        /\ \/ \E r \in Requests : request' = [request EXCEPT ![x] = r] /\ To(x, "asking")
           \/ UNCHANGED request /\ To(x, "refused")
    BY <1>1 DEF Arrive
  <2>2. RunTypes'
    BY <2>1 DEF RunTypes, To, Stages
  <2>3. RunOK(x)'
    BY <2>1 DEF RunTypes, RunOK, To
  <2>4. \A y \in Execs \ {x} : Same(y)
    BY <2>1 DEF RunTypes, Same, To
  <2>5. QED
    BY <2>2, <2>3, <2>4, OneRun
<1>2. CASE Submit(x)
  <2> DEFINE b == Normalize(request[x].budget)
  <2>1. /\ UNCHANGED <<request, ctx, result, class, stored>> /\ pc[x] = "asking"
        /\ \/ Validate(b) /\ To(x, "queued") /\ budget' = [budget EXCEPT ![x] = b]
           \/ To(x, "refused") /\ UNCHANGED budget
    BY <1>2 DEF Submit
  <2>2. request[x] \in Requests /\ b \in [BudgetFields -> Int]
    BY <2>1, NormalizedType DEF RunOK
  <2>3. RunTypes'
    <3>1. pc' \in [Execs \cup Probes -> Stages]
      BY <2>1 DEF RunTypes, To, Stages
    <3>2. budget' \in [Execs -> [BudgetFields -> Int]]
      BY <2>1, <2>2 DEF RunTypes
    <3>3. QED
      BY <2>1, <3>1, <3>2 DEF RunTypes
  <2>4. RunOK(x)'
    BY <2>1, <2>2 DEF RunTypes, RunOK, To
  <2>5. \A y \in Execs \ {x} : Same(y)
    BY <2>1 DEF RunTypes, Same, To
  <2>6. QED
    BY <2>3, <2>4, <2>5, OneRun
<1>3. CASE Acquire(x)
  <2>1. /\ UNCHANGED <<request, budget, stored>> /\ pc[x] = "queued"
        /\ \/ To(x, "leased") /\ ctx' = [ctx EXCEPT ![x] = "live"] /\ UNCHANGED <<result, class>>
           \/ \E cause \in {"unprepared", "quota"}, c \in {"invalid", "resource"} :
                Fail(x, cause, c) /\ UNCHANGED ctx
    BY <1>3 DEF Acquire
  <2>2. \A cause \in {"unprepared", "quota"} :
          Empty(cause) \in ResultType /\ Empty(cause).error = cause
    BY EmptyType DEF Errors
  <2>3. RunTypes'
    <3>1. CASE To(x, "leased") /\ ctx' = [ctx EXCEPT ![x] = "live"] /\ UNCHANGED <<result, class>>
      BY <2>1, <3>1 DEF RunTypes, To, Stages
    <3>2. CASE \E cause \in {"unprepared", "quota"}, c \in {"invalid", "resource"} :
                 Fail(x, cause, c) /\ UNCHANGED ctx
      BY <2>1, <2>2, <3>2 DEF RunTypes, To, Fail, Stages, Classes
    <3>3. QED
      BY <2>1, <3>1, <3>2
  <2>4. RunOK(x)'
    BY <2>1, <2>2 DEF RunTypes, RunOK, To, Fail
  <2>5. \A y \in Execs \ {x} : Same(y)
    BY <2>1 DEF RunTypes, Same, To, Fail
  <2>6. QED
    BY <2>3, <2>4, <2>5, OneRun
<1>4. CASE Interrupt(x)
  <2>1. /\ UNCHANGED <<pc, request, budget, result, class, stored>>
        /\ pc[x] \in {"leased", "compiled", "asleep"}
        /\ \E end \in {"canceled", "deadline"} : ctx' = [ctx EXCEPT ![x] = end]
    BY <1>4 DEF Interrupt
  <2>2. RunTypes'
    BY <2>1 DEF RunTypes
  <2>3. RunOK(x)'
    BY <2>1 DEF RunTypes, RunOK, Program
  <2>4. \A y \in Execs \ {x} : Same(y)
    BY <2>1 DEF RunTypes, Same
  <2>5. QED
    BY <2>2, <2>3, <2>4, OneRun
<1>5. QED
  BY <1>1, <1>2, <1>3, <1>4

(* What Execute and Wake return. *)
LEMMA ReturnStep ==
    ASSUME RunInv, NEW x \in Execs, pc[x] \in {"compiled", "asleep"},
           UNCHANGED <<request, budget, ctx, class, stored>>,
           NEW r \in ResultType, Return(x, r),
           Judged(x)'
    PROVE  RunInv'
<1> USE DEF RunInv
<1>1. To(x, "returned") /\ result' = [result EXCEPT ![x] = r]
  BY DEF Return
<1>2. RunTypes'
  BY <1>1 DEF RunTypes, To, Stages
<1>3. RunOK(x)'
  BY <1>1 DEF RunTypes, RunOK, To
<1>4. \A y \in Execs \ {x} : Same(y)
  BY <1>1 DEF RunTypes, Same, To
<1>5. QED
  BY <1>2, <1>3, <1>4, OneRun

LEMMA ComputeStep ==
    ASSUME RunInv, NEW x \in Execs, pc[x] \in {"compiled", "asleep"},
           UNCHANGED <<request, budget, ctx, class, stored>>,
           ~Exceeds(Program(x), budget[x]),
           Compute(x)
    PROVE  RunInv'
<1> USE DEF RunInv
<1>1. /\ request[x] \in Requests /\ budget[x] \in [BudgetFields -> Int]
      /\ Program(x).cost \in Nat /\ Program(x).repeat \in Nat
      /\ budget[x].output \in Int /\ request[x].size \in Nat
  <2>1. request[x] \in Requests /\ budget[x] \in [BudgetFields -> Int]
    BY DEF RunTypes, RunOK
  <2>2. budget[x].output \in Int
    BY <2>1 DEF BudgetFields
  <2>3. QED
    BY <2>1, <2>2, NormalizedType, CompiledTypes DEF Program
<1>2. PICK r \in Computed(Program(x), request[x].size, budget[x]) :
        IF r = Panic THEN up' = FALSE /\ UNCHANGED <<pc, result>> ELSE Return(x, r)
  BY DEF Compute
<1>3. CASE r = Panic
  <2>1. UNCHANGED <<pc, result>>
    BY <1>2, <1>3
  <2>2. RunTypes' /\ \A y \in Execs : Same(y)
    BY <2>1 DEF RunTypes, Same
  <2>3. QED
    BY <2>2, SameRun
<1>4. CASE r # Panic
  <2>1. Good(r, Program(x), budget[x]) /\ Return(x, r)
    BY <1>1, <1>2, <1>4, ComputedIsGood
  <2>2. result'[x] = r /\ r \in ResultType
    BY <2>1 DEF Return, RunTypes, Good
  <2>3. Judged(x)'
    BY <2>1, <2>2 DEF Judged, Program
  <2>4. QED
    BY <2>1, <2>2, <2>3, ReturnStep
<1>5. QED
  BY <1>3, <1>4

(* From the lease to the written record. *)
LEMMA RunStep ==
    ASSUME RunInv, NEW x \in Execs,
           Compile(x) \/ Execute(x) \/ Wake(x) \/ Save(x)
    PROVE  RunInv'
<1> USE DEF RunInv
<1>1. CASE Compile(x)
  <2>1. /\ UNCHANGED <<request, budget, ctx, stored>> /\ pc[x] = "leased"
        /\ \/ (To(x, "stranded") \/ To(x, "compiled")) /\ UNCHANGED <<result, class>>
           \/ \E cause \in {"compile", "unprepared"}, c \in {"invalid", "runtime"} :
                 Fail(x, cause, c)
    BY <1>1 DEF Compile
  <2>2. CASE (To(x, "stranded") \/ To(x, "compiled")) /\ UNCHANGED <<result, class>>
    <3>1. RunTypes'
      BY <2>1, <2>2 DEF RunTypes, To, Stages
    <3>2. RunOK(x)'
      BY <2>1, <2>2 DEF RunTypes, RunOK, To
    <3>3. \A y \in Execs \ {x} : Same(y)
      BY <2>1, <2>2 DEF RunTypes, Same, To
    <3>4. QED
      BY <3>1, <3>2, <3>3, OneRun
  <2>3. CASE \E cause \in {"compile", "unprepared"}, c \in {"invalid", "runtime"} :
               Fail(x, cause, c)
    <3>1. PICK cause \in {"compile", "unprepared"}, c \in {"invalid", "runtime"} :
            Fail(x, cause, c)
      BY <2>3
    <3>2. Empty(cause) \in ResultType /\ Empty(cause).error = cause
      BY EmptyType DEF Errors
    <3>3. RunTypes'
      BY <2>1, <3>1, <3>2 DEF RunTypes, To, Fail, Stages, Classes
    <3>4. RunOK(x)'
      BY <2>1, <3>1, <3>2 DEF RunTypes, RunOK, To, Fail
    <3>5. \A y \in Execs \ {x} : Same(y)
      BY <2>1, <3>1 DEF RunTypes, Same, To, Fail
    <3>6. QED
      BY <3>3, <3>4, <3>5, OneRun
  <2>4. QED
    BY <2>1, <2>2, <2>3
<1>2. CASE Execute(x)
  <2>1. UNCHANGED <<request, budget, ctx, class, stored>> /\ pc[x] = "compiled"
    BY <1>2 DEF Execute
  <2>2. CASE Exceeds(Program(x), budget[x])
    <3>1. Return(x, Refused(Program(x), budget[x]))
      BY <1>2, <2>2 DEF Execute
    <3>2. Program(x).cost \in Nat
      BY <2>1, NormalizedType, CompiledTypes DEF RunOK, Program
    <3>3. /\ Refused(Program(x), budget[x]) \in ResultType
          /\ Refused(Program(x), budget[x]).error \in {"instructions", "memory", "stack"}
      BY <3>2, RefusedByLimit
    <3>4. result'[x] = Refused(Program(x), budget[x])
      BY <3>1 DEF Return, RunTypes
    <3>5. Judged(x)'
      BY <2>1, <2>2, <3>3, <3>4 DEF Judged, Program
    <3>6. QED
      BY <2>1, <3>1, <3>3, <3>5, ReturnStep
  <2>3. CASE ~Exceeds(Program(x), budget[x]) /\ Program(x).delay > 0
    <3>1. To(x, "asleep") /\ UNCHANGED result
      BY <1>2, <2>3 DEF Execute
    <3>2. RunTypes'
      BY <2>1, <3>1 DEF RunTypes, To, Stages
    <3>3. RunOK(x)'
      BY <2>1, <2>3, <3>1 DEF RunTypes, RunOK, To, Program
    <3>4. \A y \in Execs \ {x} : Same(y)
      BY <2>1, <3>1 DEF RunTypes, Same, To
    <3>5. QED
      BY <3>2, <3>3, <3>4, OneRun
  <2>4. CASE ~Exceeds(Program(x), budget[x]) /\ ~(Program(x).delay > 0)
    BY <1>2, <2>1, <2>4, ComputeStep DEF Execute
  <2>5. QED
    BY <2>2, <2>3, <2>4
<1>3. CASE Wake(x)
  <2>1. UNCHANGED <<request, budget, ctx, class, stored>> /\ pc[x] = "asleep"
    BY <1>3 DEF Wake
  <2>2. ~Exceeds(Program(x), budget[x]) /\ Program(x).delay > 0 /\ ctx[x] # "none"
    BY <2>1 DEF RunOK
  <2>3. CASE ctx[x] # "live" /\ Return(x, Empty(ctx[x]))
    <3>1. ctx[x] \in {"canceled", "deadline"}
      BY <2>2, <2>3 DEF RunTypes
    <3>2. Empty(ctx[x]) \in ResultType /\ Empty(ctx[x]).error = ctx[x]
      BY <3>1, EmptyType DEF Errors
    <3>3. result'[x] = Empty(ctx[x])
      BY <2>3 DEF Return, RunTypes
    <3>4. Judged(x)'
      BY <2>1, <2>2, <3>1, <3>2, <3>3 DEF Judged, Program
    <3>5. QED
      BY <2>1, <2>3, <3>2, <3>4, ReturnStep
  <2>4. CASE Compute(x)
    BY <2>1, <2>2, <2>4, ComputeStep
  <2>5. QED
    BY <1>3, <2>3, <2>4 DEF Wake
<1>4. CASE Save(x)
  <2>1. /\ UNCHANGED <<request, budget, ctx, result>> /\ pc[x] = "returned"
        /\ class' = [class EXCEPT ![x] = ClassOf(result[x].error)]
        /\ \/ To(x, "saved") /\ stored' = stored \cup {x}
           \/ To(x, "unsaved") /\ UNCHANGED stored
    BY <1>4 DEF Save
  <2>2. ClassOf(result[x].error) \in Classes
    <3>1. result[x].error \in Errors
      BY DEF RunTypes, ResultType
    <3>2. QED
      BY <3>1 DEF ClassOf, Classes, Errors
  <2>3. RunTypes'
    BY <2>1, <2>2 DEF RunTypes, To, Stages
  <2>4. RunOK(x)'
    <3>1. Judged(x)'
      BY <2>1 DEF RunOK, Judged, Program
    <3>2. /\ class'[x] = ClassOf(result[x].error) /\ pc'[x] \in {"saved", "unsaved"}
          /\ x \in stored' <=> pc'[x] = "saved"
      BY <2>1 DEF RunTypes, RunOK, To
    <3>3. QED
      BY <2>1, <3>1, <3>2 DEF RunOK
  <2>5. \A y \in Execs \ {x} : Same(y)
    BY <2>1 DEF RunTypes, Same, To
  <2>6. QED
    BY <2>3, <2>4, <2>5, OneRun
<1>5. QED
  BY <1>1, <1>2, <1>3, <1>4

-----------------------------------------------------------------------------
(***************************************************************************)
(* The system                                                              *)
(***************************************************************************)
MeterType == [executions : Nat, instructions : Nat, output : Nat]

Inv ==
    /\ LimiterInv /\ Delivering /\ RunInv
    /\ meter \in [Tenants -> MeterType]
    /\ up \in BOOLEAN

LEMMA InvInit == ASSUME Init PROVE Inv
<1>1. LimiterInv /\ Delivering /\ RunInv
  BY LimiterBegins, DeliveryBegins, RunBegins DEF Init
<1>2. NoUsage \in MeterType
  BY DEF NoUsage, MeterType
<1>3. QED
  BY <1>1, <1>2 DEF Init, Inv

(* A probe is no execution. *)
LEMMA ProbeStep == ASSUME RunInv, NEW h \in Probes, Probe(h) PROVE RunInv'
<1>1. /\ UNCHANGED <<request, budget, ctx, result, class, stored>>
      /\ To(h, "served") \/ To(h, "refused")
  BY DEF Probe, runVars
<1>2. h \notin Execs
  BY SandboxAssumption DEF SandboxAssumption
<1>3. RunTypes'
  BY <1>1 DEF RunInv, RunTypes, To, Stages
<1>4. \A y \in Execs : Same(y)
  BY <1>1, <1>2 DEF RunInv, RunTypes, Same, To
<1>5. QED
  BY <1>3, <1>4, SameRun DEF RunInv

(* A run is metered and called back. *)
LEMMA ReportStep ==
    ASSUME Inv, NEW x \in Execs, Report(x)
    PROVE  RunInv' /\ Delivering' /\ meter' \in [Tenants -> MeterType]
<1> USE DEF Inv, RunInv
<1>1. /\ UNCHANGED <<request, budget, ctx, result, class, stored>> /\ pc[x] = "saved"
      /\ To(x, "reported")
  BY DEF Report, Written, runVars
<1>2. RunInv'
  <2>1. RunTypes'
    BY <1>1 DEF RunTypes, To, Stages
  <2>2. RunOK(x)'
    <3>1. pc'[x] = "reported"
      BY <1>1 DEF RunTypes, To
    <3>2. Judged(x)'
      BY <1>1 DEF RunOK, Judged, Program
    <3>3. QED
      BY <1>1, <3>1, <3>2 DEF RunOK
  <2>3. \A y \in Execs \ {x} : Same(y)
    BY <1>1 DEF RunTypes, Same, To
  <2>4. QED
    BY <2>1, <2>2, <2>3, OneRun
<1>3. Delivering'
  BY DeliveryStep DEF Report
<1>4. meter' \in [Tenants -> MeterType]
  <2> DEFINE u == meter[TenantOf[x]]
             v == [executions |-> u.executions + 1,
                   instructions |-> u.instructions + result[x].instructions,
                   output |-> u.output + result[x].output]
  <2>1. TenantOf[x] \in Tenants
    BY SandboxAssumption DEF SandboxAssumption
  <2>2. u \in MeterType /\ result[x] \in ResultType
    BY <2>1 DEF RunTypes
  <2>3. v \in MeterType
    BY <2>2 DEF MeterType, ResultType
  <2>4. meter' = [meter EXCEPT ![TenantOf[x]] = v]
    BY <2>1 DEF Report, Record
  <2>5. QED
    BY <2>3, <2>4
<1>5. QED
  BY <1>2, <1>3, <1>4

LEMMA InvStep == ASSUME Inv, [Next]_vars PROVE Inv'
<1> USE DEF Inv
<1>1. CASE \E h \in Probes : Probe(h) /\ UNCHANGED up
  <2>1. PICK h \in Probes : Probe(h) /\ UNCHANGED up
    BY <1>1
  <2>2. UNCHANGED <<delivery, meter>> /\ (Allow \/ Deny)
    BY <2>1 DEF Probe
  <2>3. RunInv'
    BY <2>1, ProbeStep
  <2>4. LimiterInv' /\ Delivering'
    BY <2>2, LimiterStep DEF Delivering
  <2>5. QED
    BY <2>1, <2>2, <2>3, <2>4
<1>2. CASE \E x \in Execs :
             (Arrive(x) \/ Submit(x) \/ Acquire(x) \/ Interrupt(x)) /\ UNCHANGED up
  <2>1. PICK x \in Execs :
          (Arrive(x) \/ Submit(x) \/ Acquire(x) \/ Interrupt(x)) /\ UNCHANGED up
    BY <1>2
  <2>2. UNCHANGED <<delivery, meter>> /\ (Allow \/ Deny \/ UNCHANGED limiterVars)
    BY <2>1 DEF Arrive, Submit, Acquire, Interrupt
  <2>3. RunInv'
    BY <2>1, AskingStep
  <2>4. LimiterInv' /\ Delivering'
    BY <2>2, LimiterStep DEF Delivering
  <2>5. QED
    BY <2>1, <2>2, <2>3, <2>4
<1>3. CASE \E x \in Execs :
             ((Compile(x) \/ Save(x)) /\ UNCHANGED up) \/ Execute(x) \/ Wake(x)
  <2>1. PICK x \in Execs :
          ((Compile(x) \/ Save(x)) /\ UNCHANGED up) \/ Execute(x) \/ Wake(x)
    BY <1>3
  <2>2. UNCHANGED <<delivery, meter, limiterVars>> /\ up' \in BOOLEAN
    BY <2>1 DEF Compile, Save, Execute, Wake, Compute, Return
  <2>3. RunInv'
    BY <2>1, RunStep
  <2>4. LimiterInv' /\ Delivering'
    BY <2>2, LimiterStep DEF Delivering
  <2>5. QED
    BY <2>2, <2>3, <2>4
<1>4. CASE \E x \in Execs : Report(x) /\ UNCHANGED up
  <2>1. PICK x \in Execs : Report(x) /\ UNCHANGED up
    BY <1>4
  <2>2. UNCHANGED limiterVars
    BY <2>1 DEF Report
  <2>3. QED
    BY <2>1, <2>2, ReportStep, LimiterStep
<1>5. CASE \/ \E x \in Execs : Deliver(x) /\ UNCHANGED <<limiterVars, pc, runVars, meter, up>>
           \/ Tick /\ UNCHANGED <<delivery, pc, runVars, meter, up>>
           \/ UNCHANGED vars
  <2>1. UNCHANGED <<pc, request, budget, ctx, result, class, stored, meter, up>>
    BY <1>5 DEF runVars, vars
  <2>2. RunInv'
    <3>1. RunTypes' /\ \A x \in Execs : Same(x)
      BY <2>1 DEF RunInv, RunTypes, Same
    <3>2. QED
      BY <3>1, SameRun DEF RunInv
  <2>3. Tick \/ UNCHANGED limiterVars
    BY <1>5 DEF vars
  <2>4. (\E x \in Execs : Deliver(x)) \/ UNCHANGED delivery
    BY <1>5 DEF vars
  <2>5. LimiterInv' /\ Delivering'
    BY <2>3, <2>4, LimiterStep, DeliveryStep DEF Delivering
  <2>6. QED
    BY <2>1, <2>2, <2>5
<1>6. QED
  BY <1>1, <1>2, <1>3, <1>4, <1>5 DEF Next, Run

LEMMA InvHolds == Spec => []Inv
<1>1. Init => Inv
  BY InvInit
<1>2. Inv /\ [Next]_vars => Inv'
  BY InvStep
<1>3. QED
  BY <1>1, <1>2, PTL DEF Spec

(* However requests are spread over time and over the callers, the bucket lets
   in no more than its rate and one burst, and refuses only what would be more:
   requests that are refused lose nothing of the rate (middleware.go). *)
THEOREM RateIsKept == Spec => []RateKept
<1>1. Inv => RateKept
  BY RefusedWhenSpent DEF Inv, LimiterInv, RateKept
<1>2. QED
  BY <1>1, InvHolds, PTL

(* A delivery never gives up before its third attempt, for any durations of the
   attempts that the client's timeout allows (webhook.go). *)
THEOREM DeliveriesTry == Spec => []DeliveriesAreHonest
<1>1. ASSUME Inv PROVE DeliveriesAreHonest
  BY <1>1 DEF Inv, Delivering, DeliveryOK, DeliveriesAreHonest
<1>2. QED
  BY <1>1, InvHolds, PTL

(* What is settled was within its budget, and its class is its cause, for any
   limits, programs and payloads (model.go, simulator.go, service.go). *)
THEOREM OutcomesAreTrue == Spec => [](TypeOK /\ ResultWithinBudget /\ ClassMatchesCause)
<1>1. ASSUME Inv PROVE TypeOK
  <2>1. LimiterTypeOK /\ WebhookTypeOK
    BY <1>1 DEF Inv, LimiterInv, Delivering, DeliveryType, WebhookTypeOK, Attempts, DeliveryTime
  <2>2. QED
    BY <1>1, <2>1 DEF Inv, RunInv, RunTypes, Stages, ResultType, MeterType, TypeOK
<1>2. ASSUME Inv, NEW x \in Execs, Settled(x),
             result[x].error \notin {"quota", "compile", "unprepared"}
      PROVE  Judged(x) /\ class[x] = ClassOf(result[x].error)
  BY <1>2 DEF Inv, RunInv, RunOK, Settled
<1>3. ASSUME Inv PROVE ResultWithinBudget
  <2> SUFFICES ASSUME NEW x \in Execs, Settled(x), class[x] = "none"
      PROVE  /\ ~Exceeds(Program(x), budget[x])
             /\ \A f \in BudgetFields :
                   /\ budget[x][f] <= MaxBudget[f]
                   /\ budget[x][f] = request[x].budget[f] \/ request[x].budget[f] = 0
             /\ result[x].output <= budget[x].output
             /\ IF result[x].truncated
                THEN result[x].output = budget[x].output
                ELSE result[x].output = result[x].full
    BY DEF ResultWithinBudget
  <2>1. /\ pc[x] \in {"saved", "unsaved", "reported"}
        /\ Judged(x) /\ class[x] = ClassOf(result[x].error)
        /\ budget[x] = Normalize(request[x].budget) /\ Validate(budget[x])
    BY <1>3 DEF Inv, RunInv, RunOK, Settled
  <2>2. result[x].error \in Errors
    BY <1>3 DEF Inv, RunInv, RunTypes, ResultType
  <2>3. result[x].error = "none"
    BY <2>1, <2>2 DEF ClassOf, Errors
  <2>4. ~Exceeds(Program(x), budget[x]) /\ Good(result[x], Program(x), budget[x])
    BY <2>1, <2>3 DEF Judged
  <2>5. \A f \in BudgetFields :
          /\ budget[x][f] <= MaxBudget[f]
          /\ budget[x][f] = request[x].budget[f] \/ request[x].budget[f] = 0
    BY <2>1 DEF Validate, Normalize
  <2>6. QED
    BY <2>3, <2>4, <2>5 DEF Good
<1>4. ASSUME Inv PROVE ClassMatchesCause
  <2> SUFFICES ASSUME NEW x \in Execs, Settled(x),
                      result[x].error \notin {"quota", "compile", "unprepared"}
      PROVE  /\ class[x] = "resource" <=> Exceeds(Program(x), budget[x])
             /\ class[x] = "canceled" => ctx[x] = "canceled" /\ Program(x).delay > 0
             /\ class[x] = "timeout" => ctx[x] = "deadline" /\ Program(x).delay > 0
             /\ class[x] = "runtime" => Program(x).operation \in {"fail", "sum"}
             /\ Program(x).operation = "fail" => class[x] # "none"
    BY DEF ClassMatchesCause
  <2>1. Judged(x) /\ class[x] = ClassOf(result[x].error)
    BY <1>2, <1>4
  <2>2. CASE Exceeds(Program(x), budget[x])
    BY <2>1, <2>2 DEF Judged, ClassOf
  <2>3. CASE ~Exceeds(Program(x), budget[x])
    BY <2>1, <2>3 DEF Judged, ClassOf, Good
  <2>4. QED
    BY <2>2, <2>3
<1>5. Inv => TypeOK /\ ResultWithinBudget /\ ClassMatchesCause
  BY <1>1, <1>3, <1>4
<1>6. QED
  BY <1>5, InvHolds, PTL

-----------------------------------------------------------------------------
(***************************************************************************)
(* The meter.  The sums of MeterIsExact are counted in units (SumProofs):  *)
(* Report adds the units of one execution to those of its tenant, and no   *)
(* other step adds an execution to the reported ones or changes a result   *)
(* that is among them.                                                     *)
(***************************************************************************)
Counted(t) == {x \in Execs : TenantOf[x] = t /\ pc[x] = "reported"}
Instructions == [x \in Execs |-> result[x].instructions]
Output == [x \in Execs |-> result[x].output]

Metered ==
    \A t \in Tenants :
        /\ meter[t].executions = Cardinality(Counted(t))
        /\ meter[t].instructions = Cardinality(Units(Instructions, Counted(t)))
        /\ meter[t].output = Cardinality(Units(Output, Counted(t)))

(* What is counted is finite and made of natural numbers. *)
LEMMA CountedType ==
    ASSUME Inv, NEW t
    PROVE  /\ IsFiniteSet(Counted(t)) /\ Counted(t) \subseteq Execs
           /\ \A x \in Execs : /\ result[x].instructions \in Nat
                               /\ result[x].output \in Nat
                               /\ Instructions[x] = result[x].instructions
                               /\ Output[x] = result[x].output
<1>1. IsFiniteSet(Counted(t))
  BY FS_Subset, SandboxAssumption DEF SandboxAssumption, Counted
<1>2. \A x \in Execs : result[x] \in ResultType
  BY DEF Inv, RunInv, RunTypes
<1>3. \A x \in Execs : result[x].instructions \in Nat /\ result[x].output \in Nat
  BY <1>2 DEF ResultType
<1>4. QED
  BY <1>1, <1>3 DEF Counted, Instructions, Output

(* The recursive sum of the instructions used is the number of their units. *)
LEMMA SumOfInstructions ==
    ASSUME NEW r, NEW S, IsFiniteSet(S), \A x \in S : r[x].instructions \in Nat
    PROVE  MapThenSumSet(LAMBDA x : r[x].instructions, S)
              = Cardinality(Units([x \in S |-> r[x].instructions], S))
<1> DEFINE f == [x \in S |-> r[x].instructions]
           Body(sum) == [T \in SUBSET S |->
               IF T = {} THEN 0
               ELSE r[CHOOSE x \in T : TRUE].instructions + sum[T \ {CHOOSE x \in T : TRUE}]]
           it == CHOOSE sum : sum = Body(sum)
<1>1. ASSUME NEW sum PROVE Recursion(f, S, sum) = Body(sum)
  <2>1. ASSUME NEW T \in SUBSET S, T # {}
        PROVE  f[CHOOSE x \in T : TRUE] = r[CHOOSE x \in T : TRUE].instructions
    <3>1. (CHOOSE x \in T : TRUE) \in S
      BY <2>1
    <3>2. QED
      BY <3>1
  <2> HIDE DEF f
  <2>2. QED
    BY <2>1 DEF Recursion
<1>2. \A x \in S : f[x] \in Nat
  OBVIOUS
<1> HIDE DEF f
<1>3. it = Body(it)
  <2> HIDE DEF Body
  <2>1. PICK sum : sum = Recursion(f, S, sum)
    BY <1>2, SumExists
  <2>2. sum = Body(sum)
    BY <1>1, <2>1
  <2>3. QED
    BY <2>2
<1>4. it[S] = Cardinality(Units(f, S))
  <2>1. it = Recursion(f, S, it)
    BY <1>1, <1>3
  <2> HIDE DEF it
  <2>2. QED
    BY <2>1, <1>2, SumUnique
<1>5. MapThenSumSet(LAMBDA x : r[x].instructions, S) = it[S]
  BY DEF MapThenSumSet, MapThenFoldSet
<1>6. QED
  BY <1>4, <1>5 DEF f

(* The recursive sum of the output made is the number of their units. *)
LEMMA SumOfOutput ==
    ASSUME NEW r, NEW S, IsFiniteSet(S), \A x \in S : r[x].output \in Nat
    PROVE  MapThenSumSet(LAMBDA x : r[x].output, S)
              = Cardinality(Units([x \in S |-> r[x].output], S))
<1> DEFINE f == [x \in S |-> r[x].output]
           Body(sum) == [T \in SUBSET S |->
               IF T = {} THEN 0
               ELSE r[CHOOSE x \in T : TRUE].output + sum[T \ {CHOOSE x \in T : TRUE}]]
           it == CHOOSE sum : sum = Body(sum)
<1>1. ASSUME NEW sum PROVE Recursion(f, S, sum) = Body(sum)
  <2>1. ASSUME NEW T \in SUBSET S, T # {}
        PROVE  f[CHOOSE x \in T : TRUE] = r[CHOOSE x \in T : TRUE].output
    <3>1. (CHOOSE x \in T : TRUE) \in S
      BY <2>1
    <3>2. QED
      BY <3>1
  <2> HIDE DEF f
  <2>2. QED
    BY <2>1 DEF Recursion
<1>2. \A x \in S : f[x] \in Nat
  OBVIOUS
<1> HIDE DEF f
<1>3. it = Body(it)
  <2> HIDE DEF Body
  <2>1. PICK sum : sum = Recursion(f, S, sum)
    BY <1>2, SumExists
  <2>2. sum = Body(sum)
    BY <1>1, <2>1
  <2>3. QED
    BY <2>2
<1>4. it[S] = Cardinality(Units(f, S))
  <2>1. it = Recursion(f, S, it)
    BY <1>1, <1>3
  <2> HIDE DEF it
  <2>2. QED
    BY <2>1, <1>2, SumUnique
<1>5. MapThenSumSet(LAMBDA x : r[x].output, S) = it[S]
  BY DEF MapThenSumSet, MapThenFoldSet
<1>6. QED
  BY <1>4, <1>5 DEF f

(* Counted in units or added up, the meter is the same. *)
LEMMA MeteredIsExact == ASSUME Inv, Metered PROVE MeterIsExact
<1> SUFFICES ASSUME NEW t \in Tenants
             PROVE  LET counted == {x \in stored : TenantOf[x] = t /\ pc[x] # "saved"}
                    IN  /\ meter[t].executions = Cardinality(counted)
                        /\ meter[t].instructions
                              = MapThenSumSet(LAMBDA x : result[x].instructions, counted)
                        /\ meter[t].output
                              = MapThenSumSet(LAMBDA x : result[x].output, counted)
  BY DEF MeterIsExact
<1> DEFINE C == {x \in stored : TenantOf[x] = t /\ pc[x] # "saved"}
<1>1. C = Counted(t)
  BY DEF Counted, Inv, RunInv, RunTypes, RunOK
<1> HIDE DEF C
<1>2. /\ IsFiniteSet(C)
      /\ \A x \in C : /\ result[x].instructions \in Nat /\ result[x].output \in Nat
                      /\ Instructions[x] = result[x].instructions
                      /\ Output[x] = result[x].output
  BY <1>1, CountedType
<1>3. MapThenSumSet(LAMBDA x : result[x].instructions, C) = meter[t].instructions
  <2>1. Units([x \in C |-> result[x].instructions], C) = Units(Instructions, C)
    BY <1>2, UnitsAgree
  <2>2. MapThenSumSet(LAMBDA x : result[x].instructions, C)
          = Cardinality(Units([x \in C |-> result[x].instructions], C))
    BY <1>2, SumOfInstructions
  <2>3. QED
    BY <1>1, <2>1, <2>2 DEF Metered
<1>4. MapThenSumSet(LAMBDA x : result[x].output, C) = meter[t].output
  <2>1. Units([x \in C |-> result[x].output], C) = Units(Output, C)
    BY <1>2, UnitsAgree
  <2>2. MapThenSumSet(LAMBDA x : result[x].output, C)
          = Cardinality(Units([x \in C |-> result[x].output], C))
    BY <1>2, SumOfOutput
  <2>3. QED
    BY <1>1, <2>1, <2>2 DEF Metered
<1>5. meter[t].executions = Cardinality(C)
  BY <1>1 DEF Metered
<1>6. QED
  BY <1>3, <1>4, <1>5 DEF C

(* Nothing is counted at the start. *)
LEMMA MeteredBegins == ASSUME Init PROVE Metered
<1>1. ASSUME NEW t \in Tenants
      PROVE  Counted(t) = {} /\ meter[t] = NoUsage
  BY <1>1 DEF Init, Counted
<1>2. QED
  BY <1>1, UnitsEmpty, FS_EmptySet DEF Metered, NoUsage

\* what no step but Report disturbs
Settling ==
    /\ meter' = meter
    /\ \A x \in Execs : /\ pc'[x] = "reported" <=> pc[x] = "reported"
                        /\ pc[x] = "reported" => result'[x] = result[x]

(* Only Report reports, and a result that is reported stays. *)
LEMMA OnlyReportCounts ==
    ASSUME RunTypes, [Next]_vars, ~ \E x \in Execs : Report(x)
    PROVE  Settling
<1> USE DEF RunTypes
<1>1. CASE UNCHANGED vars
  BY <1>1 DEF vars, runVars, Settling
<1>2. ASSUME NEW h \in Probes, Probe(h) PROVE Settling
  <2>1. \A x \in Execs : x # h
    BY SandboxAssumption DEF SandboxAssumption
  <2>2. QED
    BY <1>2, <2>1 DEF Probe, runVars, To, Settling
<1>3. ASSUME NEW x \in Execs, Arrive(x) \/ Submit(x) \/ Acquire(x) \/ Interrupt(x)
      PROVE  Settling
  <2>1. CASE Arrive(x)
    BY <2>1 DEF Arrive, To, Settling
  <2>2. CASE Submit(x)
    BY <2>2 DEF Submit, To, Settling
  <2>3. CASE Acquire(x)
    BY <2>3 DEF Acquire, Fail, To, Settling
  <2>4. CASE Interrupt(x)
    BY <2>4 DEF Interrupt, Settling
  <2>5. QED
    BY <1>3, <2>1, <2>2, <2>3, <2>4
<1>4. ASSUME NEW x \in Execs, Compile(x) \/ Save(x) \/ Execute(x) \/ Wake(x)
      PROVE  Settling
  <2>1. CASE Compile(x)
    BY <2>1 DEF Compile, Fail, To, Settling
  <2>2. CASE Save(x)
    BY <2>2 DEF Save, To, Settling
  <2>3. CASE Execute(x)
    BY <2>3 DEF Execute, Compute, Return, To, Settling
  <2>4. CASE Wake(x)
    BY <2>4 DEF Wake, Compute, Return, To, Settling
  <2>5. QED
    BY <1>4, <2>1, <2>2, <2>3, <2>4
<1>5. CASE \/ \E x \in Execs : Deliver(x) /\ UNCHANGED <<limiterVars, pc, runVars, meter>>
           \/ Tick /\ UNCHANGED <<delivery, pc, runVars, meter>>
  BY <1>5 DEF runVars, Settling
<1>6. QED
  BY <1>1, <1>2, <1>3, <1>4, <1>5 DEF Next, Run

(* Report adds its execution to the meter of its tenant, once. *)
LEMMA ReportCounts ==
    ASSUME Inv, Metered, NEW x \in Execs, Report(x)
    PROVE  Metered'
<1> DEFINE u == TenantOf[x]
<1>1. u \in Tenants
  BY SandboxAssumption DEF SandboxAssumption
<1>2. /\ result' = result /\ pc[x] = "saved" /\ pc' = [pc EXCEPT ![x] = "reported"]
      /\ meter' = [meter EXCEPT ![u] =
            [executions |-> @.executions + 1,
             instructions |-> @.instructions + result[x].instructions,
             output |-> @.output + result[x].output]]
  BY DEF Report, Written, Record, To, runVars
<1>3. x \notin Counted(u)
  BY <1>2 DEF Counted
<1>4. Counted(u)' = Counted(u) \cup {x}
  BY <1>2 DEF Counted, Inv, RunInv, RunTypes
<1>5. \A t \in Tenants : t # u => Counted(t)' = Counted(t)
  BY <1>2 DEF Counted, Inv, RunInv, RunTypes
<1>6. Instructions' = Instructions /\ Output' = Output
  BY <1>2 DEF Instructions, Output
<1>7. /\ IsFiniteSet(Counted(u))
      /\ Instructions[x] \in Nat /\ Instructions[x] = result[x].instructions
      /\ Output[x] \in Nat /\ Output[x] = result[x].output
      /\ \A y \in Counted(u) : Instructions[y] \in Nat /\ Output[y] \in Nat
  BY CountedType
<1>8. /\ meter'[u].executions = meter[u].executions + 1
      /\ meter'[u].instructions = meter[u].instructions + Instructions[x]
      /\ meter'[u].output = meter[u].output + Output[x]
      /\ \A t \in Tenants : t # u => meter'[t] = meter[t]
  BY <1>1, <1>2, <1>7 DEF Inv
<1> HIDE DEF u
<1>9. Cardinality(Counted(u)') = Cardinality(Counted(u)) + 1
  BY <1>3, <1>4, <1>7, FS_AddElement
<1>10. Cardinality(Units(Instructions, Counted(u)'))
         = Cardinality(Units(Instructions, Counted(u))) + Instructions[x]
  <2>1. IsFiniteSet(Units(Instructions, Counted(u)))
    BY <1>7, UnitsFinite
  <2>2. QED
    BY <2>1, <1>3, <1>4, <1>7, UnitsAdd
<1>11. Cardinality(Units(Output, Counted(u)'))
         = Cardinality(Units(Output, Counted(u))) + Output[x]
  <2>1. IsFiniteSet(Units(Output, Counted(u)))
    BY <1>7, UnitsFinite
  <2>2. QED
    BY <2>1, <1>3, <1>4, <1>7, UnitsAdd
<1>12. ASSUME NEW t \in Tenants
       PROVE  /\ meter'[t].executions = Cardinality(Counted(t)')
              /\ meter'[t].instructions = Cardinality(Units(Instructions', Counted(t)'))
              /\ meter'[t].output = Cardinality(Units(Output', Counted(t)'))
  <2>1. CASE t = u
    BY <2>1, <1>1, <1>6, <1>8, <1>9, <1>10, <1>11 DEF Metered
  <2>2. CASE t # u
    BY <2>2, <1>5, <1>6, <1>8 DEF Metered
  <2>3. QED
    BY <2>1, <2>2
<1>13. QED
  BY <1>12 DEF Metered

LEMMA MeteredStep == ASSUME Inv, Metered, [Next]_vars PROVE Metered'
<1>1. CASE \E x \in Execs : Report(x)
  BY <1>1, ReportCounts
<1>2. CASE ~ \E x \in Execs : Report(x)
  <2>1. Settling
    BY <1>2, OnlyReportCounts DEF Inv, RunInv
  <2>2. ASSUME NEW t \in Tenants
        PROVE  /\ Counted(t)' = Counted(t)
               /\ Units(Instructions', Counted(t)) = Units(Instructions, Counted(t))
               /\ Units(Output', Counted(t)) = Units(Output, Counted(t))
    <3>1. Counted(t)' = Counted(t)
      BY <2>1 DEF Settling, Counted
    <3>2. \A x \in Counted(t) : Instructions'[x] = Instructions[x] /\ Output'[x] = Output[x]
      BY <2>1 DEF Settling, Counted, Instructions, Output
    <3>3. QED
      BY <3>1, <3>2, UnitsAgree
  <2>3. QED
    BY <2>1, <2>2 DEF Metered, Settling
<1>3. QED
  BY <1>1, <1>2

(* The meter of a tenant is the sum of what its executions used whose outcome
   was written without error and that have come to the meter, for any number of
   executions: none is left out or counted twice, and none of those whose write
   failed is counted (service.go, meter.go). *)
THEOREM MeterAddsUp == Spec => []MeterIsExact
<1>1. Init => Inv /\ Metered
  BY InvInit, MeteredBegins
<1>2. Inv /\ Metered /\ [Next]_vars => Inv' /\ Metered'
  BY InvStep, MeteredStep
<1>3. Inv /\ Metered => MeterIsExact
  BY MeteredIsExact
<1>4. QED
  BY <1>1, <1>2, <1>3, PTL DEF Spec
=============================================================================
