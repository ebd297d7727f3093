--------------------------- MODULE LoginRateLimit ---------------------------
(***************************************************************************)
(* LoginRateLimitGuard: a fixed window of sign-in attempts per address,    *)
(* kept in the memory of one process.                                      *)
(*                                                                         *)
(* canActivate runs between two awaits, so it is one step.  The clock is   *)
(* not a variable: what the guard looks at is now - startedAt, the age of  *)
(* a window, and no age matters beyond the window's length.                *)
(***************************************************************************)
EXTENDS Integers, Functions

CONSTANTS
    Addresses,      \* values of request.ip
    Max,            \* loginRateLimitMax
    Length,         \* loginRateLimitWindowMs
    NoWindow        \* the map has no entry for an address

ASSUME MaxAssumption == Max \in Nat \ {0}
ASSUME LengthAssumption == Length \in Nat \ {0}

VARIABLES
    attempts,   \* the map: the count and the age of an address's window
    admitted    \* how many attempts of an address were let through, by age

vars == <<attempts, admitted>>

(***************************************************************************)
(* The count is only compared with Max: past it, one number is enough.     *)
(***************************************************************************)
AttemptWindow == [count : 1 .. Max + 1, age : 0 .. Length]
ASSUME NoWindowAssumption == NoWindow \notin AttemptWindow

TypeOK ==
    /\ attempts \in [Addresses -> AttemptWindow \union {NoWindow}]
    /\ admitted \in [Addresses -> [0 .. Length - 1 -> 0 .. Max]]

Init ==
    /\ attempts = [a \in Addresses |-> NoWindow]
    /\ admitted = [a \in Addresses |-> [age \in 0 .. Length - 1 |-> 0]]
-----------------------------------------------------------------------------
(* Mutant: a window is over one tick too early.                            *)
OverEarly(window) == window = NoWindow \/ window.age >= Length - 1

(* The window the guard finds is none, or over: it starts another.         *)
Over(window) == window = NoWindow \/ window.age >= Length

(* Mutant: every attempt starts the window again.                          *)
CountedSliding(window) ==
    IF Over(window) THEN [count |-> 1, age |-> 0]
                    ELSE [count |-> IF window.count > Max THEN window.count ELSE window.count + 1,
                          age |-> 0]

Counted(window) ==
    IF Over(window) THEN [count |-> 1, age |-> 0]
                    ELSE [window EXCEPT !.count = IF @ > Max THEN @ ELSE @ + 1]

Allowed(window) == window.count <= Max

CanActivate(a) ==
    LET window == Counted(attempts[a])
    IN  /\ attempts' = [attempts EXCEPT ![a] = window]
        /\ admitted' = IF Allowed(window) THEN [admitted EXCEPT ![a][0] = @ + 1] ELSE admitted

(* A millisecond passes.                                                   *)
Tick ==
    /\ attempts' = [a \in Addresses |->
            IF Over(attempts[a]) THEN attempts[a] ELSE [attempts[a] EXCEPT !.age = @ + 1]]
    /\ admitted' = [a \in Addresses |->
            [age \in 0 .. Length - 1 |-> IF age = 0 THEN 0 ELSE admitted[a][age - 1]]]

Next == Tick \/ \E a \in Addresses : CanActivate(a)

Spec == Init /\ [][Next]_vars

(***************************************************************************)
(* Time passes, and whoever is refused tries again.                        *)
(***************************************************************************)
FairSpec ==
    /\ Spec
    /\ WF_vars(Tick)
    /\ \A a \in Addresses : WF_vars(CanActivate(a))
-----------------------------------------------------------------------------
(* The attempts of an address let through in the last Length milliseconds. *)
Recent(a) == SumFunction(admitted[a])

(***************************************************************************)
(* A window starts with an attempt that is let through, so the two windows *)
(* that any Length milliseconds can touch never let all their attempts     *)
(* through in them: twice the limit is never reached.                      *)
(***************************************************************************)
BurstBounded == \A a \in Addresses : Recent(a) < 2 * Max

(***************************************************************************)
(* A refusal has a cause: when the next attempt of an address would be     *)
(* refused, Max attempts were let through in the last Length milliseconds. *)
(* Refused attempts do not count against the address.                      *)
(***************************************************************************)
RefusedForCause ==
    \A a \in Addresses : ~ Allowed(Counted(attempts[a])) => Recent(a) >= Max

(***************************************************************************)
(* However stubbornly an address tries while it is refused, it is let      *)
(* through again, and again: its attempts do not prolong its window.       *)
(***************************************************************************)
NeverLockedOut == \A a \in Addresses : []<>(admitted[a][0] > 0)
=============================================================================
