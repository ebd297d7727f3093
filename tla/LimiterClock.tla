---------------------------- MODULE LimiterClock ----------------------------
(***************************************************************************)
(* LoginRateLimitGuard over the variables it has: Date.now(), and a map    *)
(* from addresses to {count, startedAt} in the memory of the process.      *)
(* While the clock runs and the process stays up it implements             *)
(* LoginRateLimit.  Here the clock may also be set back, as an operator or *)
(* a time service does, and the process may be restarted.                  *)
(***************************************************************************)
EXTENDS Integers, Functions

CONSTANTS
    Addresses,      \* values of request.ip
    Max,            \* loginRateLimitMax
    Length,         \* loginRateLimitWindowMs
    NoWindow,       \* the map has no entry for an address
    MaxNow,         \* bound on the clock
    MaxCount,       \* bound on the attempts counted in one window
    MaxBack,        \* bound on how far the clock is set back, all in all
    MaxRestarts     \* bound on the restarts

ASSUME LimitsAssumption ==
    /\ Max \in Nat \ {0} /\ Length \in Nat \ {0}
    /\ MaxNow \in Nat /\ MaxCount \in Nat /\ MaxBack \in Nat /\ MaxRestarts \in Nat

VARIABLES
    now,        \* Date.now()
    attempts,   \* the map
    admitted,   \* the attempts let through, by the true time since (history)
    back,       \* how far the clock was set back (history)
    restarts    \* (history)

vars == <<now, attempts, admitted, back, restarts>>

AttemptWindow == [count : 1 .. MaxCount, startedAt : - MaxBack .. MaxNow]

Ages == 0 .. Length + MaxBack - 1

TypeOK ==
    /\ now \in - back .. MaxNow
    /\ attempts \in [Addresses -> AttemptWindow \union {NoWindow}]
    /\ admitted \in [Addresses -> [Ages -> Nat]]
    /\ back \in 0 .. MaxBack
    /\ restarts \in 0 .. MaxRestarts

Init ==
    /\ now = 0
    /\ attempts = [a \in Addresses |-> NoWindow]
    /\ admitted = [a \in Addresses |-> [age \in Ages |-> 0]]
    /\ back = 0
    /\ restarts = 0
-----------------------------------------------------------------------------
(* Mutants: a window is over one tick early, or one tick late.             *)
OverEarly(window) == window = NoWindow \/ now - window.startedAt >= Length - 1
OverLate(window) == window = NoWindow \/ now - window.startedAt > Length

Over(window) == window = NoWindow \/ now - window.startedAt >= Length

(* Mutant: every attempt starts the window again.                          *)
CountedSliding(window) ==
    [count |-> IF Over(window) THEN 1 ELSE window.count + 1, startedAt |-> now]

Counted(window) ==
    IF Over(window) THEN [count |-> 1, startedAt |-> now] ELSE [window EXCEPT !.count = @ + 1]

Allowed(window) == window.count <= Max

CanActivate(a) ==
    LET window == Counted(attempts[a])
    IN  /\ window.count <= MaxCount
        /\ attempts' = [attempts EXCEPT ![a] = window]
        /\ admitted' = IF Allowed(window) THEN [admitted EXCEPT ![a][0] = @ + 1] ELSE admitted
        /\ UNCHANGED <<now, back, restarts>>

Tick ==
    /\ now < MaxNow
    /\ now' = now + 1
    /\ admitted' = [a \in Addresses |->
            [age \in Ages |-> IF age = 0 THEN 0 ELSE admitted[a][age - 1]]]
    /\ UNCHANGED <<attempts, back, restarts>>

(* The clock is set back; no time passes.                                  *)
SetBack(by) ==
    /\ back + by <= MaxBack
    /\ now' = now - by
    /\ back' = back + by
    /\ UNCHANGED <<attempts, admitted, restarts>>

(* The process is started again with an empty map.                         *)
Restart ==
    /\ restarts < MaxRestarts
    /\ attempts' = [a \in Addresses |-> NoWindow]
    /\ restarts' = restarts + 1
    /\ UNCHANGED <<now, admitted, back>>

Next ==
    \/ Tick \/ Restart
    \/ \E a \in Addresses : CanActivate(a)
    \/ \E by \in 1 .. MaxBack : SetBack(by)

Spec == Init /\ [][Next]_vars
-----------------------------------------------------------------------------
(***************************************************************************)
(* The abstract limiter, which knows ages and no clock: the age of a       *)
(* window is what the clock has moved since it started, up to its length,  *)
(* and a count beyond the limit is one past the limit.                     *)
(***************************************************************************)
Least(m, n) == IF m <= n THEN m ELSE n

AgeOf(window) ==
    IF window = NoWindow THEN NoWindow
    ELSE [count |-> Least(window.count, Max + 1), age |-> Least(now - window.startedAt, Length)]

Limiter == INSTANCE LoginRateLimit WITH
    attempts <- [a \in Addresses |-> AgeOf(attempts[a])],
    admitted <- [a \in Addresses |-> [age \in 0 .. Length - 1 |-> admitted[a][age]]]

ASSUME NoWindowAssumption ==
    NoWindow \notin [count : Int, startedAt : Int] \union [count : Int, age : Int]

(***************************************************************************)
(* The map of counts and start times behaves as the limiter of ages does:  *)
(* whatever the clock and the process went through before, attempts and    *)
(* the passing of time are steps of LoginRateLimit, and only setting the   *)
(* clock back and restarting are not.  Where neither happens this is       *)
(* Limiter!Spec.                                                           *)
(***************************************************************************)
Refines ==
    /\ Limiter!Init
    /\ [][UNCHANGED <<back, restarts>> => Limiter!Next \/ UNCHANGED Limiter!vars]_vars

Within(a, span) == SumFunction([age \in 0 .. span - 1 |-> admitted[a][age]])

(***************************************************************************)
(* Setting the clock back never lets more attempts through in any span of  *)
(* true time, and a restart, which forgets every window, costs at most one *)
(* more window's worth of them.                                            *)
(***************************************************************************)
BurstBounded == \A a \in Addresses : Within(a, Length) < (2 + restarts) * Max

(***************************************************************************)
(* A clock that is set back prolongs a refusal by no more than it was set  *)
(* back: when the next attempt of an address would be refused, the whole   *)
(* limit was let through in the window's length and that much more.        *)
(***************************************************************************)
RefusedForCause ==
    \A a \in Addresses : ~ Allowed(Counted(attempts[a])) => Within(a, Length + back) >= Max
=============================================================================
