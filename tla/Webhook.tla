------------------------------- MODULE Webhook -------------------------------
(***************************************************************************)
(* The callback of a finished execution: Deliver in                        *)
(* src/internal/callback/infrastructure/webhook.go, with the values that   *)
(* src/cmd/server/main.go and Service.Run give it.  Each delivery has a    *)
(* goroutine and a context of its own.                                     *)
(*                                                                         *)
(* Time is counted per delivery, in units of 50 milliseconds; what the     *)
(* goroutine itself takes between two waits is not counted.  The receiver  *)
(* is external: an attempt is accepted (2xx), refused (another status),    *)
(* lost (it accepts, and the answer does not arrive) or unreachable.       *)
(***************************************************************************)
EXTENDS Integers

CONSTANTS
    Execs,     \* the executions
    Durations  \* how long attempts may take

VARIABLE delivery  \* of each execution; received: history, how often it was accepted

Attempts == 3
AttemptTime == 20   \* one second
DeliveryTime == 60  \* three seconds

WebhookAssumption == Durations \subseteq 0..AttemptTime

ASSUME WebhookAssumption

Answers == {"accepted", "refused", "lost", "unreachable"}

State(at, attempt, elapsed, received) ==
    [at |-> at, attempt |-> attempt, elapsed |-> elapsed, received |-> received]

WebhookInit == delivery = [x \in Execs |-> State("none", 0, 0, 0)]

DeliveryTo(x, state) == delivery' = [delivery EXCEPT ![x] = state]

\* the pause after attempt n
WaitSeconds(n) == 20 * n  \* mistake: seconds, not units
WaitAfter(n) == n

BeginDelivery(x) == DeliveryTo(x, State("posting", 1, 0, 0))

\* no request can be made for the URL, which Submit does not look at
GiveUp(x) ==
    /\ delivery[x].at = "posting" /\ delivery[x].attempt = 1
    /\ DeliveryTo(x, State("failed", 0, 0, 0))

\* one attempt, which the client's timeout or the context ends
Post(x) ==
    LET d == delivery[x]
        left == DeliveryTime - d.elapsed
    IN  /\ d.at = "posting"
        /\ \E t \in Durations, answer \in Answers :
              LET after == IF t <= left THEN d.elapsed + t ELSE DeliveryTime
              IN  \/ /\ answer = "accepted" /\ left > 0 /\ t <= left
                     /\ DeliveryTo(x, State("delivered", d.attempt, after, d.received + 1))
                  \/ /\ answer = "lost" /\ left > 0
                     /\ DeliveryTo(x, State("waiting", d.attempt, after, d.received + 1))
                  \/ /\ answer = "refused" => left > 0
                     /\ answer \in {"refused", "unreachable"}
                     /\ DeliveryTo(x, State("waiting", d.attempt, after, d.received))

\* the pause, also after the last attempt, unless the context is done
Pause(x) ==
    LET d == delivery[x]
        end == d.elapsed + WaitAfter(d.attempt)
    IN  /\ d.at = "waiting"
        /\ \/ /\ end <= DeliveryTime
              /\ DeliveryTo(x,
                    IF d.attempt < Attempts
                    THEN State("posting", d.attempt + 1, end, d.received)
                    ELSE State("failed", d.attempt, end, d.received))
           \/ /\ end >= DeliveryTime
              /\ DeliveryTo(x, State("failed", d.attempt, DeliveryTime, d.received))

Deliver(x) == GiveUp(x) \/ Post(x) \/ Pause(x)
-----------------------------------------------------------------------------
WebhookTypeOK ==
    delivery \in [Execs -> [at : {"none", "posting", "waiting", "delivered", "failed"},
                            attempt : 0..Attempts, elapsed : 0..DeliveryTime,
                            received : 0..Attempts]]

\* Three attempts of up to a second and their pauses fit the three seconds they
\* share far enough that a delivery gives up only before the first, for want of
\* a proper URL, or after the third was begun; success means that the receiver
\* accepted; and although an answer may be lost, it gets no more copies than
\* attempts (webhook.go:34-56, main.go:73, service.go:183-189).
DeliveriesAreHonest ==
    \A x \in Execs :
        /\ delivery[x].at = "failed" => delivery[x].attempt \in {0, Attempts}
        /\ delivery[x].at = "delivered" => delivery[x].received > 0
        /\ delivery[x].received <= delivery[x].attempt
=============================================================================
