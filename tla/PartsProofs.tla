------------------------------ MODULE PartsProofs ------------------------------
(***************************************************************************)
(* Theorems about the small parts, for every value of the constants: first *)
(* those about the limiter's clock alone, then an inductive invariant of   *)
(* each other part, and at the end of them all side by side.               *)
(***************************************************************************)
EXTENDS ServiceParts, Sequences, SequenceTheorems, Sums

(***************************************************************************)
(* LimiterClock.  The guard's map of counts and start times implements the *)
(* limiter of ages.                                                        *)
(***************************************************************************)
(* The abstract window of an entry of the map.                             *)
Abstract == [a \in Addresses |-> AgeOf(attempts[a])]

LEMMA LimitsNat ==
    /\ Max \in Nat \ {0} /\ Length \in Nat \ {0}
    /\ MaxNow \in Nat /\ MaxCount \in Nat /\ MaxBack \in Nat /\ MaxRestarts \in Nat
BY LimitsAssumption

LEMMA WindowType ==
    ASSUME NEW w \in AttemptWindow
    PROVE  w \in [count : Int, startedAt : Int] /\ w.count >= 1
BY LimitsNat DEF AttemptWindow

(* A window that is no row of the map is none of the limiter either.       *)
LEMMA AgeType ==
    ASSUME now \in Int, NEW w \in AttemptWindow
    PROVE  /\ w # NoWindow
           /\ AgeOf(w) # NoWindow
           /\ AgeOf(w) = [count |-> Least(w.count, Max + 1), age |-> Least(now - w.startedAt, Length)]
<1>1. w # NoWindow
  BY NoWindowAssumption, WindowType
<1>2. AgeOf(w) = [count |-> Least(w.count, Max + 1), age |-> Least(now - w.startedAt, Length)]
  BY <1>1 DEF AgeOf
<1>3. Least(w.count, Max + 1) \in Int /\ Least(now - w.startedAt, Length) \in Int
  BY WindowType, LimitsNat DEF Least
<1> QED
  BY <1>1, <1>2, <1>3, NoWindowAssumption

(* Both are over at the same time.                                         *)
LEMMA OverAlike ==
    ASSUME now \in Int, NEW w \in AttemptWindow \union {NoWindow}
    PROVE  Over(w) <=> Limiter!Over(AgeOf(w))
<1>1. CASE w = NoWindow
  BY <1>1 DEF Over, Limiter!Over, AgeOf
<1>2. CASE w # NoWindow
  <2>1. w \in AttemptWindow /\ w.startedAt \in Int
    BY <1>2, WindowType
  <2>2. AgeOf(w) # NoWindow /\ AgeOf(w).age = Least(now - w.startedAt, Length)
    BY <2>1, AgeType
  <2> QED
    BY <1>2, <2>1, <2>2, LimitsNat DEF Over, Limiter!Over, Least
<1> QED
  BY <1>1, <1>2

(* Both count an attempt, and allow it, alike.                             *)
LEMMA CountedAlike ==
    ASSUME now \in - MaxBack .. MaxNow, NEW w \in AttemptWindow \union {NoWindow},
           Counted(w).count <= MaxCount
    PROVE  /\ Counted(w) \in AttemptWindow
           /\ AgeOf(Counted(w)) = Limiter!Counted(AgeOf(w))
           /\ Allowed(Counted(w)) <=> Limiter!Allowed(AgeOf(Counted(w)))
<1>0. now \in Int
  BY LimitsNat
<1>1. CASE Over(w)
  <2>1. Counted(w) = [count |-> 1, startedAt |-> now]
    BY <1>1 DEF Counted
  <2>2. Counted(w) \in AttemptWindow
    BY <2>1, LimitsNat DEF AttemptWindow
  <2>3. AgeOf(Counted(w)) = [count |-> Least(1, Max + 1), age |-> Least(now - now, Length)]
    BY <1>0, <2>1, <2>2, AgeType
  <2>4. Least(1, Max + 1) = 1 /\ Least(now - now, Length) = 0
    BY <1>0, LimitsNat DEF Least
  <2>5. Limiter!Over(AgeOf(w))
    BY <1>0, <1>1, OverAlike
  <2> QED
    BY <2>1, <2>2, <2>3, <2>4, <2>5, LimitsNat DEF Limiter!Counted, Allowed, Limiter!Allowed
<1>2. CASE ~ Over(w)
  <2>1. w \in AttemptWindow /\ w.count \in Nat \ {0} /\ w.startedAt \in Int
    BY <1>2, LimitsNat, WindowType DEF Over
  <2>2. Counted(w) = [count |-> w.count + 1, startedAt |-> w.startedAt]
    BY <1>2, <2>1 DEF Counted, AttemptWindow
  <2>3. Counted(w) \in AttemptWindow
    BY <2>1, <2>2, LimitsNat DEF AttemptWindow
  <2>4. AgeOf(Counted(w)) = [count |-> Least(w.count + 1, Max + 1),
                             age |-> Least(now - w.startedAt, Length)]
    BY <1>0, <2>2, <2>3, AgeType
  <2>5. AgeOf(w) = [count |-> Least(w.count, Max + 1), age |-> Least(now - w.startedAt, Length)]
    BY <1>0, <2>1, AgeType
  <2>6. ~ Limiter!Over(AgeOf(w))
    BY <1>0, <1>2, OverAlike
  <2>7. Limiter!Counted(AgeOf(w)) =
            [count |-> IF Least(w.count, Max + 1) > Max THEN Least(w.count, Max + 1)
                       ELSE Least(w.count, Max + 1) + 1,
             age |-> Least(now - w.startedAt, Length)]
    BY <2>5, <2>6 DEF Limiter!Counted
  <2>8. Least(w.count + 1, Max + 1) =
            IF Least(w.count, Max + 1) > Max THEN Least(w.count, Max + 1)
            ELSE Least(w.count, Max + 1) + 1
    BY <2>1, LimitsNat DEF Least
  <2>9. Allowed(Counted(w)) <=> Limiter!Allowed(AgeOf(Counted(w)))
    BY <2>1, <2>2, <2>4, LimitsNat DEF Allowed, Limiter!Allowed, Least
  <2> QED
    BY <2>1, <2>2, <2>3, <2>4, <2>7, <2>8, <2>9
<1> QED
  BY <1>1, <1>2
-----------------------------------------------------------------------------
LEMMA ClockTypeInit == Init => TypeOK
BY LimitsNat DEF Init, TypeOK, Ages

LEMMA TypeCanActivate ==
    ASSUME TypeOK, NEW a \in Addresses, CanActivate(a)
    PROVE  TypeOK'
<1> DEFINE window == Counted(attempts[a])
<1>1. now \in - MaxBack .. MaxNow /\ attempts[a] \in AttemptWindow \union {NoWindow}
  BY LimitsNat DEF TypeOK
<1>2. window \in AttemptWindow
  BY <1>1, CountedAlike DEF CanActivate
<1>3. attempts' \in [Addresses -> AttemptWindow \union {NoWindow}]
  BY <1>2 DEF TypeOK, CanActivate
<1>4. admitted' \in [Addresses -> [Ages -> Nat]]
  <2>1. 0 \in Ages
    BY LimitsNat DEF Ages
  <2>2. admitted[a][0] + 1 \in Nat
    BY <2>1 DEF TypeOK
  <2> QED
    BY <2>1, <2>2 DEF CanActivate, TypeOK
<1> QED
  BY <1>3, <1>4 DEF TypeOK, CanActivate

LEMMA TypeTick ==
    ASSUME TypeOK, Tick
    PROVE  TypeOK'
<1>1. now' \in - back' .. MaxNow
  BY LimitsNat DEF TypeOK, Tick
<1>2. admitted' \in [Addresses -> [Ages -> Nat]]
  <2>1. ASSUME NEW a \in Addresses, NEW age \in Ages
        PROVE  (IF age = 0 THEN 0 ELSE admitted[a][age - 1]) \in Nat
    BY LimitsNat DEF TypeOK, Ages
  <2> QED
    BY <2>1 DEF Tick
<1> QED
  BY <1>1, <1>2 DEF TypeOK, Tick

LEMMA ClockTypeNext == TypeOK /\ [Next]_vars => TypeOK'
<1> SUFFICES ASSUME TypeOK, [Next]_vars PROVE TypeOK'
  OBVIOUS
<1>1. CASE UNCHANGED vars
  BY <1>1 DEF vars, TypeOK
<1>2. CASE Restart
  BY <1>2, LimitsNat DEF Restart, TypeOK
<1>3. ASSUME NEW by \in 1 .. MaxBack, SetBack(by)
      PROVE  TypeOK'
  BY <1>3, LimitsNat DEF SetBack, TypeOK
<1> QED
  BY <1>1, <1>2, <1>3, TypeTick, TypeCanActivate DEF Next
-----------------------------------------------------------------------------
(* The limiter's view of what was let through.                             *)
Seen == [a \in Addresses |-> [age \in 0 .. Length - 1 |-> admitted[a][age]]]

LEMMA RefinesInit == Init => Limiter!Init
<1> SUFFICES ASSUME Init PROVE Limiter!Init
  OBVIOUS
<1>1. Abstract = [a \in Addresses |-> NoWindow]
  BY DEF Init, Abstract, AgeOf
<1>2. Seen = [a \in Addresses |-> [age \in 0 .. Length - 1 |-> 0]]
  BY LimitsNat DEF Init, Seen, Ages
<1> QED
  BY <1>1, <1>2 DEF Limiter!Init, Abstract, Seen

LEMMA RefinesCanActivate ==
    ASSUME TypeOK, NEW a \in Addresses, CanActivate(a)
    PROVE  Limiter!CanActivate(a)
<1> DEFINE window == Counted(attempts[a])
<1>1. now \in - MaxBack .. MaxNow /\ attempts[a] \in AttemptWindow \union {NoWindow} /\ now' = now
  BY LimitsNat DEF TypeOK, CanActivate
<1>2. /\ AgeOf(window) = Limiter!Counted(AgeOf(attempts[a]))
      /\ Allowed(window) <=> Limiter!Allowed(AgeOf(window))
  BY <1>1, CountedAlike DEF CanActivate
<1>3. Abstract' = [Abstract EXCEPT ![a] = AgeOf(window)]
  BY <1>1 DEF Abstract, AgeOf, CanActivate, TypeOK
<1>4. Abstract[a] = AgeOf(attempts[a])
  BY DEF Abstract
<1>5. Seen' = IF Allowed(window) THEN [Seen EXCEPT ![a][0] = @ + 1] ELSE Seen
  <2>1. 0 \in 0 .. Length - 1 /\ 0 .. Length - 1 \subseteq Ages
    BY LimitsNat DEF Ages
  <2>2. admitted \in [Addresses -> [Ages -> Nat]]
    BY DEF TypeOK
  <2>3. CASE Allowed(window)
    BY <2>1, <2>2, <2>3 DEF Seen, CanActivate
  <2>4. CASE ~ Allowed(window)
    BY <2>4 DEF Seen, CanActivate
  <2> QED
    BY <2>3, <2>4
<1> QED
  BY <1>2, <1>3, <1>4, <1>5 DEF Limiter!CanActivate, Abstract, Seen

LEMMA RefinesTick ==
    ASSUME TypeOK, Tick
    PROVE  Limiter!Tick
<1>1. now \in Int /\ now' = now + 1 /\ attempts' = attempts
  BY LimitsNat DEF TypeOK, Tick
<1>2. ASSUME NEW a \in Addresses
      PROVE  AgeOf(attempts[a])' =
                IF Limiter!Over(AgeOf(attempts[a])) THEN AgeOf(attempts[a])
                ELSE [AgeOf(attempts[a]) EXCEPT !.age = @ + 1]
  <2> DEFINE w == attempts[a]
  <2>1. w \in AttemptWindow \union {NoWindow}
    BY DEF TypeOK
  <2>2. CASE w = NoWindow
    BY <1>1, <2>2 DEF AgeOf, Limiter!Over
  <2>3. CASE w # NoWindow
    <3>1. w \in AttemptWindow /\ w.startedAt \in Int
      BY <2>1, <2>3, WindowType
    <3>2. AgeOf(attempts[a])' = [count |-> Least(attempts'[a].count, Max + 1),
                                 age |-> Least(now' - attempts'[a].startedAt, Length)]
      <4>1. attempts'[a] # NoWindow
        BY <1>1, <2>3
      <4> QED
        BY <4>1 DEF AgeOf, Least
    <3>3. AgeOf(w) =
            [count |-> Least(w.count, Max + 1), age |-> Least(now - w.startedAt, Length)]
      BY <2>3 DEF AgeOf
    <3>4. Limiter!Over(AgeOf(w)) <=> now - w.startedAt >= Length
      BY <1>1, <2>1, <2>3, OverAlike DEF Over
    <3>5. CASE now - w.startedAt >= Length
      <4>1. Least(now' - attempts'[a].startedAt, Length) = Least(now - w.startedAt, Length)
        BY <1>1, <3>1, <3>5, LimitsNat DEF Least
      <4> QED
        BY <1>1, <3>2, <3>3, <3>4, <3>5, <4>1
    <3>6. CASE ~ now - w.startedAt >= Length
      <4>1. Least(now' - attempts'[a].startedAt, Length) = Least(now - w.startedAt, Length) + 1
        BY <1>1, <3>1, <3>6, LimitsNat DEF Least
      <4> QED
        BY <1>1, <3>2, <3>3, <3>4, <3>6, <4>1
    <3> QED
      BY <3>5, <3>6
  <2> QED
    BY <2>2, <2>3
<1>3. Abstract' = [a \in Addresses |->
            IF Limiter!Over(Abstract[a]) THEN Abstract[a]
            ELSE [Abstract[a] EXCEPT !.age = @ + 1]]
  BY <1>2 DEF Abstract
<1>4. Seen' = [a \in Addresses |->
            [age \in 0 .. Length - 1 |-> IF age = 0 THEN 0 ELSE Seen[a][age - 1]]]
  BY LimitsNat DEF Seen, Tick, Ages
<1> QED
  BY <1>3, <1>4 DEF Limiter!Tick, Abstract, Seen

(* What is neither a restart nor a clock that is set back.                 *)
Steps == UNCHANGED <<back, restarts>> => Limiter!Next \/ UNCHANGED Limiter!vars

LEMMA RefinesNext == TypeOK /\ [Next]_vars => [Steps]_vars
<1> SUFFICES ASSUME TypeOK, Next, UNCHANGED <<back, restarts>>
             PROVE  Limiter!Next
  BY DEF Steps
<1>1. ~ Restart
  BY DEF Restart, TypeOK
<1>2. ~ \E by \in 1 .. MaxBack : SetBack(by)
  BY DEF SetBack, TypeOK
<1> QED
  BY <1>1, <1>2, RefinesTick, RefinesCanActivate DEF Next, Limiter!Next

(***************************************************************************)
(* The map of login-rate-limit.guard.ts behaves as the limiter of ages     *)
(* does in every step that is neither a restart nor a clock set back.      *)
(***************************************************************************)
THEOREM ClockRefines == Spec => Refines
<1>1. Init => TypeOK /\ Limiter!Init
  BY ClockTypeInit, RefinesInit
<1>2. TypeOK /\ [Next]_vars => TypeOK' /\ [Steps]_vars
  BY ClockTypeNext, RefinesNext
<1>3. Refines <=> Limiter!Init /\ [][Steps]_vars
  BY PTL DEF Refines, Steps
<1> QED
  BY <1>1, <1>2, <1>3, PTL DEF Spec

(***************************************************************************)
(* Where the clock is never set back and the process stays up, that is all *)
(* there is: what is shown of LoginRateLimit holds of the guard.           *)
(***************************************************************************)
THEOREM SteadyClockImplements ==
    ASSUME MaxBack = 0, MaxRestarts = 0
    PROVE  Spec => Limiter!Spec
<1>1. Init => TypeOK /\ Limiter!Init
  BY ClockTypeInit, RefinesInit
<1>2. TypeOK /\ [Next]_vars => TypeOK' /\ [Limiter!Next]_Limiter!vars
  <2> SUFFICES ASSUME TypeOK, [Next]_vars PROVE [Limiter!Next]_Limiter!vars
    BY ClockTypeNext
  <2>1. CASE UNCHANGED vars
    BY <2>1 DEF vars, Limiter!vars, AgeOf
  <2>2. CASE Next
    <3>1. UNCHANGED <<back, restarts>>
      BY <2>2, LimitsNat DEF Next, Tick, CanActivate, Restart, SetBack, TypeOK
    <3>2. CASE UNCHANGED vars
      BY <2>1, <3>2
    <3> QED
      BY <2>2, <3>1, RefinesNext, <2>1 DEF Steps
  <2> QED
    BY <2>1, <2>2
<1> QED
  BY <1>1, <1>2, PTL DEF Spec, Limiter!Spec
-----------------------------------------------------------------------------
(***************************************************************************)
(* What was let through.  The true age of a window is not known to the     *)
(* guard: it is at least what the clock has moved since the window started *)
(* and at most that and what the clock was set back.                       *)
(***************************************************************************)
LetThrough(window) == Least(window.count, Max)

(* Of the recent attempts those younger than the window are its own, less  *)
(* the one that started it, and the others were let through before it:     *)
(* fewer than one limit, and one more limit for every restart.             *)
BurstKept(a) ==
    /\ attempts[a] = NoWindow => UpTo(admitted[a], Length - 1) < (1 + restarts) * Max
    /\ attempts[a] # NoWindow =>
        /\ UpTo(admitted[a], Length - 1) < LetThrough(attempts[a]) + (1 + restarts) * Max
        /\ \E age \in Nat :
            /\ age >= now - attempts[a].startedAt
            /\ \A j \in 0 .. Length - 1 :
                    j < age => UpTo(admitted[a], j) < LetThrough(attempts[a])

(* What the window counted was let through since it started.               *)
RefusalKept(a) ==
    attempts[a] # NoWindow =>
        /\ attempts[a].startedAt <= now + back
        /\ now - attempts[a].startedAt + back \in Ages =>
            UpTo(admitted[a], now - attempts[a].startedAt + back) >= LetThrough(attempts[a])

ClockInv == TypeOK /\ \A a \in Addresses : BurstKept(a) /\ RefusalKept(a)

LEMMA AgesUpTo ==
    ASSUME TypeOK, NEW a \in Addresses
    PROVE  /\ 0 .. Length - 1 \subseteq Ages
           /\ \A j \in Ages : j \in Nat
           /\ \A j \in Ages : 0 .. j \subseteq Ages
           /\ \A j \in Ages \union {-1} : UpTo(admitted[a], j) \in Nat
<1>1. 0 .. Length - 1 \subseteq Ages /\ \A j \in Ages : j \in Nat /\ 0 .. j \subseteq Ages
  BY LimitsNat DEF Ages
<1>2. ASSUME NEW j \in Ages \union {-1} PROVE UpTo(admitted[a], j) \in Nat
  <2>1. j \in Int /\ \A x \in 0 .. j : admitted[a][x] \in Nat
    BY LimitsNat DEF Ages, TypeOK
  <2> QED
    BY <2>1, UpToNat
<1> QED
  BY <1>1, <1>2

LEMMA WindowKnown ==
    ASSUME TypeOK, NEW a \in Addresses, attempts[a] # NoWindow
    PROVE  /\ attempts[a] \in AttemptWindow
           /\ attempts[a].count \in Nat \ {0} /\ attempts[a].startedAt \in Int
           /\ LetThrough(attempts[a]) \in 1 .. Max
           /\ now \in Int /\ back \in Nat /\ restarts \in Nat
<1>1. attempts[a] \in AttemptWindow
  BY DEF TypeOK
<1>2. attempts[a].count \in Nat \ {0} /\ attempts[a].startedAt \in Int
  BY <1>1, LimitsNat DEF AttemptWindow
<1> QED
  BY <1>1, <1>2, LimitsNat DEF TypeOK, LetThrough, Least

LEMMA LimitTimes ==
    ASSUME NEW r \in Nat
    PROVE  (1 + r) * Max \in Nat /\ (1 + r) * Max >= Max /\ (2 + r) * Max = (1 + r) * Max + Max
BY LimitsNat

LEMMA ClockInvInit == Init => ClockInv
<1> SUFFICES ASSUME Init, NEW a \in Addresses PROVE BurstKept(a) /\ RefusalKept(a)
  BY ClockTypeInit DEF ClockInv
<1>1. IsFiniteSet(0 .. Length - 1) /\ \A x \in 0 .. Length - 1 : admitted[a][x] = 0
  BY LimitsNat, FS_Interval DEF Init, Ages
<1>2. UpTo(admitted[a], Length - 1) = 0
  BY <1>1, SumZero DEF UpTo
<1>3. (1 + restarts) * Max >= Max
  BY LimitTimes DEF Init
<1> QED
  BY <1>2, <1>3, LimitsNat DEF Init, BurstKept, RefusalKept

LEMMA AttemptUpTo ==
    ASSUME TypeOK, NEW a \in Addresses, CanActivate(a), NEW j \in Ages
    PROVE  UpTo(admitted'[a], j) =
                UpTo(admitted[a], j) + (IF Allowed(Counted(attempts[a])) THEN 1 ELSE 0)
<1>1. CASE Allowed(Counted(attempts[a]))
  <2>1. admitted'[a] = [admitted[a] EXCEPT ![0] = @ + 1]
    BY <1>1 DEF CanActivate, TypeOK
  <2>2. admitted[a] \in [Ages -> Nat] /\ 0 \in Ages /\ j \in Nat /\ 0 .. j \subseteq Ages
    BY LimitsNat DEF TypeOK, Ages
  <2>3. /\ \A x \in 0 .. j : admitted[a][x] \in Nat /\ admitted'[a][x] \in Nat
        /\ admitted'[a][0] = admitted[a][0] + 1
        /\ \A x \in 1 .. j : admitted'[a][x] = admitted[a][x]
    BY <2>1, <2>2
  <2>4. UpTo(admitted'[a], j) = UpTo(admitted[a], j) + 1
    BY <2>2, <2>3, UpToMore
  <2> QED
    BY <1>1, <2>4
<1>2. CASE ~ Allowed(Counted(attempts[a]))
  BY <1>2, AgesUpTo DEF CanActivate
<1> QED
  BY <1>1, <1>2

LEMMA TickUpTo ==
    ASSUME TypeOK, Tick, NEW a \in Addresses, NEW j \in Ages
    PROVE  /\ UpTo(admitted'[a], j) = UpTo(admitted[a], j - 1)
           /\ UpTo(admitted[a], j - 1) \in Nat
           /\ UpTo(admitted[a], j - 1) <= UpTo(admitted[a], j)
<1>1. j \in Nat /\ j \in Int /\ j - 1 \in Int /\ j - 1 <= j /\ j - 1 \in Ages \union {-1}
  BY LimitsNat DEF Ages
<1>2. 0 .. j \subseteq Ages /\ \A x \in 1 .. j : x - 1 \in Ages
  BY LimitsNat DEF Ages
<1>3. /\ \A x \in 0 .. j : admitted[a][x] \in Nat
      /\ admitted'[a][0] = 0
      /\ \A x \in 1 .. j : admitted'[a][x] = admitted[a][x - 1]
  <2>1. 0 \in Ages
    BY LimitsNat DEF Ages
  <2>2. \A x \in 1 .. j : x \in Ages /\ x # 0
    BY <1>2
  <2> QED
    BY <1>2, <2>1, <2>2 DEF Tick, TypeOK
<1>4. UpTo(admitted'[a], j) = UpTo(admitted[a], j - 1)
  BY <1>1, <1>3, UpToShift
<1>5. UpTo(admitted[a], j - 1) <= UpTo(admitted[a], j)
  BY <1>1, <1>3, UpToLess
<1> QED
  BY <1>1, <1>4, <1>5, AgesUpTo

(* What an attempt makes of a window, in terms of what it lets through.    *)
LEMMA CountedLets ==
    ASSUME TypeOK, NEW a \in Addresses, CanActivate(a)
    PROVE  LET old == attempts[a]
               new == Counted(old)
           IN  /\ new \in AttemptWindow /\ attempts'[a] = new /\ new # NoWindow
               /\ Over(old) => /\ Allowed(new) /\ LetThrough(new) = 1 /\ new.startedAt = now
               /\ ~ Over(old) =>
                    /\ new.startedAt = old.startedAt
                    /\ LetThrough(new) = LetThrough(old) + (IF Allowed(new) THEN 1 ELSE 0)
<1> DEFINE old == attempts[a]
           new == Counted(old)
<1>1. now \in - MaxBack .. MaxNow /\ old \in AttemptWindow \union {NoWindow}
  BY LimitsNat DEF TypeOK
<1>2. new \in AttemptWindow /\ new # NoWindow
  BY <1>1, CountedAlike, AgeType, LimitsNat DEF CanActivate
<1>3. attempts'[a] = new
  BY DEF CanActivate, TypeOK
<1>4. Over(old) => Allowed(new) /\ LetThrough(new) = 1 /\ new.startedAt = now
  BY LimitsNat DEF Counted, Allowed, LetThrough, Least
<1>5. ASSUME ~ Over(old)
      PROVE  /\ new.startedAt = old.startedAt
             /\ LetThrough(new) = LetThrough(old) + (IF Allowed(new) THEN 1 ELSE 0)
  <2>1. old \in AttemptWindow /\ old.count \in Nat
    BY <1>1, <1>5, LimitsNat DEF Over, AttemptWindow
  <2>2. new.count = old.count + 1 /\ new.startedAt = old.startedAt
    BY <1>5, <2>1 DEF Counted, AttemptWindow
  <2> QED
    BY <2>1, <2>2, LimitsNat DEF LetThrough, Least, Allowed
<1> QED
  BY <1>2, <1>3, <1>4, <1>5

LEMMA OthersKept ==
    ASSUME NEW a \in Addresses, BurstKept(a), RefusalKept(a),
           attempts'[a] = attempts[a], admitted'[a] = admitted[a],
           UNCHANGED <<now, back, restarts>>
    PROVE  BurstKept(a)' /\ RefusalKept(a)'
BY DEF BurstKept, RefusalKept, LetThrough

LEMMA BurstCanActivate ==
    ASSUME ClockInv, NEW a \in Addresses, CanActivate(a)
    PROVE  BurstKept(a)'
<1> DEFINE old == attempts[a]
           new == Counted(old)
           sum(j) == UpTo(admitted[a], j)
           more == IF Allowed(new) THEN 1 ELSE 0
           limits == (1 + restarts) * Max
<1>1. /\ TypeOK /\ BurstKept(a) /\ now \in Int /\ UNCHANGED <<now, back, restarts>>
      /\ old \in AttemptWindow \union {NoWindow}
  BY LimitsNat DEF ClockInv, TypeOK, CanActivate
<1>2. /\ new \in AttemptWindow /\ attempts'[a] = new /\ new # NoWindow
      /\ Over(old) => /\ Allowed(new) /\ LetThrough(new) = 1 /\ new.startedAt = now
      /\ ~ Over(old) => new.startedAt = old.startedAt /\ LetThrough(new) = LetThrough(old) + more
  BY <1>1, CountedLets
<1>3. \A j \in 0 .. Length - 1 :
            UpTo(admitted'[a], j) = sum(j) + more /\ sum(j) \in Nat /\ j \in Ages
  BY <1>1, AttemptUpTo, AgesUpTo
<1>4. limits \in Nat /\ limits >= Max /\ Length - 1 \in 0 .. Length - 1 /\ Max \in Nat
  BY <1>1, LimitTimes, LimitsNat DEF TypeOK
<1>5. CASE Over(old)
  <2>1. sum(Length - 1) < limits
    <3>1. CASE old = NoWindow
      BY <1>1, <3>1 DEF BurstKept
    <3>2. CASE old # NoWindow
      <4>1. LetThrough(old) \in 1 .. Max /\ old.startedAt \in Int
        BY <1>1, <3>2, WindowKnown
      <4>2. PICK age \in Nat :
                /\ age >= now - old.startedAt
                /\ \A j \in 0 .. Length - 1 : j < age => sum(j) < LetThrough(old)
        BY <1>1, <3>2 DEF BurstKept
      <4>3. Length - 1 < age
        BY <1>1, <1>5, <3>2, <4>1, <4>2, LimitsNat DEF Over
      <4>4. sum(Length - 1) < LetThrough(old)
        BY <1>4, <4>2, <4>3
      <4> HIDE DEF sum, limits
      <4> QED
        BY <1>3, <1>4, <4>1, <4>4
    <3> QED
      BY <3>1, <3>2
  <2>2. UpTo(admitted'[a], Length - 1) < LetThrough(new) + limits
    <3> HIDE DEF sum, limits
    <3> QED
      BY <1>2, <1>3, <1>4, <1>5, <2>1
  <2>3. 0 \in Nat /\ 0 >= now - new.startedAt
    BY <1>1, <1>2, <1>5
  <2> QED
    BY <1>1, <1>2, <2>2, <2>3 DEF BurstKept, LetThrough
<1>6. CASE ~ Over(old)
  <2>1. old # NoWindow /\ LetThrough(old) \in 1 .. Max
    BY <1>1, <1>6, WindowKnown DEF Over
  <2>2. sum(Length - 1) < LetThrough(old) + limits
    BY <1>1, <2>1 DEF BurstKept
  <2>3. PICK age \in Nat :
            /\ age >= now - old.startedAt
            /\ \A j \in 0 .. Length - 1 : j < age => sum(j) < LetThrough(old)
    BY <1>1, <2>1 DEF BurstKept
  <2>4. UpTo(admitted'[a], Length - 1) < LetThrough(new) + limits
    <3> HIDE DEF sum, limits
    <3> QED
      BY <1>2, <1>3, <1>4, <1>6, <2>1, <2>2
  <2>5. ASSUME NEW j \in 0 .. Length - 1, j < age
        PROVE  UpTo(admitted'[a], j) < LetThrough(new)
    <3>1. sum(j) < LetThrough(old)
      BY <2>3, <2>5
    <3> HIDE DEF sum
    <3> QED
      BY <1>2, <1>3, <1>6, <2>1, <3>1
  <2>6. age >= now - new.startedAt
    BY <1>2, <1>6, <2>3
  <2> QED
    BY <1>1, <1>2, <2>4, <2>5, <2>6 DEF BurstKept, LetThrough
<1> QED
  BY <1>5, <1>6

LEMMA RefusalCanActivate ==
    ASSUME ClockInv, NEW a \in Addresses, CanActivate(a)
    PROVE  RefusalKept(a)'
<1> DEFINE old == attempts[a]
           new == Counted(old)
           more == IF Allowed(new) THEN 1 ELSE 0
           since == now - new.startedAt + back
<1>1. /\ TypeOK /\ RefusalKept(a) /\ now \in Int /\ back \in Nat
      /\ UNCHANGED <<now, back, restarts>>
  BY LimitsNat DEF ClockInv, TypeOK, CanActivate
<1>2. /\ new \in AttemptWindow /\ attempts'[a] = new /\ new # NoWindow
      /\ Over(old) => /\ Allowed(new) /\ LetThrough(new) = 1 /\ new.startedAt = now
      /\ ~ Over(old) => new.startedAt = old.startedAt /\ LetThrough(new) = LetThrough(old) + more
  BY <1>1, CountedLets
<1>3. \A j \in Ages : /\ UpTo(admitted'[a], j) = UpTo(admitted[a], j) + more
                      /\ UpTo(admitted[a], j) \in Nat
  BY <1>1, AttemptUpTo, AgesUpTo
<1>4. new.startedAt <= now + back
  <2>1. CASE Over(old)
    BY <1>1, <1>2, <2>1
  <2>2. CASE ~ Over(old)
    BY <1>1, <1>2, <2>2 DEF RefusalKept, Over
  <2> QED
    BY <2>1, <2>2
<1>5. ASSUME since \in Ages PROVE UpTo(admitted'[a], since) >= LetThrough(new)
  <2>1. UpTo(admitted'[a], since) = UpTo(admitted[a], since) + more /\ UpTo(admitted[a], since) \in Nat
    BY <1>3, <1>5
  <2>2. CASE Over(old)
    BY <1>2, <2>1, <2>2
  <2>3. CASE ~ Over(old)
    <3>1. old # NoWindow /\ LetThrough(old) \in 1 .. Max
      BY <1>1, <2>3, WindowKnown DEF Over
    <3>2. UpTo(admitted[a], since) >= LetThrough(old)
      BY <1>1, <1>2, <1>5, <2>3, <3>1 DEF RefusalKept
    <3> QED
      BY <1>2, <2>1, <2>3, <3>1, <3>2
  <2> QED
    BY <2>2, <2>3
<1> QED
  BY <1>1, <1>2, <1>4, <1>5 DEF RefusalKept, LetThrough

LEMMA ClockCanActivate ==
    ASSUME ClockInv, NEW a \in Addresses, CanActivate(a)
    PROVE  ClockInv'
<1>1. TypeOK'
  BY TypeCanActivate DEF ClockInv
<1>2. ASSUME NEW b \in Addresses, b # a PROVE BurstKept(b)' /\ RefusalKept(b)'
  <2>1. attempts'[b] = attempts[b] /\ admitted'[b] = admitted[b] /\ UNCHANGED <<now, back, restarts>>
    BY <1>2 DEF CanActivate, ClockInv, TypeOK
  <2> QED
    BY <2>1, OthersKept DEF ClockInv
<1> QED
  BY <1>1, <1>2, BurstCanActivate, RefusalCanActivate DEF ClockInv

LEMMA ClockTick ==
    ASSUME ClockInv, Tick
    PROVE  ClockInv'
<1>0. TypeOK /\ TypeOK'
  BY TypeTick DEF ClockInv
<1> SUFFICES ASSUME NEW a \in Addresses PROVE BurstKept(a)' /\ RefusalKept(a)'
  BY <1>0 DEF ClockInv
<1> DEFINE w == attempts[a]
           sum(j) == UpTo(admitted[a], j)
           limits == (1 + restarts) * Max
<1>1. /\ BurstKept(a) /\ RefusalKept(a) /\ now \in Int /\ back \in Nat /\ now' = now + 1
      /\ attempts' = attempts /\ back' = back /\ restarts' = restarts
  BY LimitsNat DEF ClockInv, TypeOK, Tick
<1>2. \A j \in Ages : /\ UpTo(admitted'[a], j) = sum(j - 1) /\ sum(j - 1) \in Nat
                      /\ sum(j - 1) <= sum(j) /\ sum(j) \in Nat
  BY <1>0, TickUpTo, AgesUpTo
<1>3. limits \in Nat /\ 0 .. Length - 1 \subseteq Ages /\ Length - 1 \in 0 .. Length - 1
  BY <1>0, LimitTimes, LimitsNat, AgesUpTo DEF TypeOK
<1>4. sum(-1) = 0
  BY UpToNone
<1>5. CASE w = NoWindow
  <2>1. sum(Length - 1) < limits
    BY <1>1, <1>5 DEF BurstKept
  <2>2. UpTo(admitted'[a], Length - 1) < limits
    <3>1. Length - 1 \in Ages
      BY <1>3
    <3> HIDE DEF sum, limits
    <3> QED
      BY <1>2, <1>3, <2>1, <3>1
  <2> QED
    BY <1>1, <1>5, <2>2 DEF BurstKept, RefusalKept
<1>6. CASE w # NoWindow
  <2>1. w.startedAt \in Int /\ LetThrough(w) \in 1 .. Max
    BY <1>0, <1>6, WindowKnown
  <2>2. UpTo(admitted'[a], Length - 1) < LetThrough(w) + limits
    <3>1. sum(Length - 1) < LetThrough(w) + limits
      BY <1>1, <1>6 DEF BurstKept
    <3>2. Length - 1 \in Ages
      BY <1>3
    <3> HIDE DEF sum, limits
    <3> QED
      BY <1>2, <1>3, <2>1, <3>1, <3>2
  <2>3. PICK age \in Nat :
            /\ age >= now - w.startedAt
            /\ \A j \in 0 .. Length - 1 : j < age => sum(j) < LetThrough(w)
    BY <1>1, <1>6 DEF BurstKept
  <2>4. ASSUME NEW j \in 0 .. Length - 1, j < age + 1
        PROVE  UpTo(admitted'[a], j) < LetThrough(w)
    <3>1. CASE j = 0
      BY <1>2, <1>3, <1>4, <2>1, <3>1
    <3>2. CASE j # 0
      <4>1. j - 1 \in 0 .. Length - 1 /\ j - 1 < age
        BY <2>3, <2>4, <3>2, LimitsNat
      <4>2. sum(j - 1) < LetThrough(w)
        BY <2>3, <4>1
      <4> QED
        BY <1>2, <1>3, <4>2
    <3> QED
      BY <3>1, <3>2
  <2>5. age + 1 \in Nat /\ age + 1 >= now' - w.startedAt
    BY <1>1, <2>1, <2>3
  <2>6. BurstKept(a)'
    BY <1>1, <1>6, <2>2, <2>4, <2>5 DEF BurstKept, LetThrough
  <2>7. RefusalKept(a)'
    <3> DEFINE since == now - w.startedAt + back
    <3>1. w.startedAt <= now + back /\ (since \in Ages => sum(since) >= LetThrough(w))
      BY <1>1, <1>6 DEF RefusalKept
    <3>2. w.startedAt <= now' + back' /\ now' - w.startedAt + back' = since + 1 /\ since \in Nat
      <4> DEFINE start == w.startedAt
      <4>1. start \in Int /\ start <= now + back
        BY <2>1, <3>1
      <4> HIDE DEF start
      <4>2. start <= (now + 1) + back /\ (now + 1) - start + back = (now - start + back) + 1
              /\ now - start + back \in Nat
        BY <1>1, <4>1
      <4> QED
        BY <1>1, <4>2 DEF start
    <3>3. ASSUME since + 1 \in Ages PROVE UpTo(admitted'[a], since + 1) >= LetThrough(w)
      <4>1. since \in Ages /\ (since + 1) - 1 = since
        BY <3>2, <3>3, LimitsNat DEF Ages
      <4>2. UpTo(admitted'[a], since + 1) = sum((since + 1) - 1)
        <5> HIDE DEF since
        <5> QED BY <1>2, <3>3
      <4> QED
        BY <3>1, <4>1, <4>2
    <3> HIDE DEF since
    <3> QED
      BY <1>1, <1>6, <3>2, <3>3 DEF RefusalKept, LetThrough
  <2> QED
    BY <2>6, <2>7
<1> QED
  BY <1>5, <1>6

LEMMA ClockSetBack ==
    ASSUME ClockInv, NEW by \in 1 .. MaxBack, SetBack(by)
    PROVE  ClockInv'
<1>1. TypeOK /\ TypeOK'
  BY ClockTypeNext DEF ClockInv, Next
<1> SUFFICES ASSUME NEW a \in Addresses PROVE BurstKept(a)' /\ RefusalKept(a)'
  BY <1>1 DEF ClockInv
<1>2. /\ BurstKept(a) /\ RefusalKept(a) /\ now \in Int /\ back \in Nat /\ by \in Nat
      /\ attempts' = attempts /\ admitted' = admitted /\ restarts' = restarts
      /\ now' = now - by /\ back' = back + by
  BY <1>1, LimitsNat DEF ClockInv, TypeOK, SetBack
<1>3. CASE attempts[a] = NoWindow
  BY <1>2, <1>3 DEF BurstKept, RefusalKept
<1>4. CASE attempts[a] # NoWindow
  <2>1. attempts[a].startedAt \in Int
    BY <1>1, <1>4, WindowKnown
  <2>2. PICK age \in Nat :
            /\ age >= now - attempts[a].startedAt
            /\ \A j \in 0 .. Length - 1 :
                    j < age => UpTo(admitted[a], j) < LetThrough(attempts[a])
    BY <1>2, <1>4 DEF BurstKept
  <2>3. age >= now' - attempts[a].startedAt
    BY <1>2, <2>1, <2>2
  <2>4. BurstKept(a)'
    BY <1>2, <1>4, <2>2, <2>3 DEF BurstKept, LetThrough
  <2>5. now' + back' = now + back
        /\ now' - attempts[a].startedAt + back' = now - attempts[a].startedAt + back
    BY <1>2, <2>1
  <2>6. RefusalKept(a)'
    BY <1>2, <1>4, <2>5 DEF RefusalKept, LetThrough
  <2> QED
    BY <2>4, <2>6
<1> QED
  BY <1>3, <1>4

LEMMA ClockRestart ==
    ASSUME ClockInv, Restart
    PROVE  ClockInv'
<1>1. TypeOK /\ TypeOK'
  BY ClockTypeNext DEF ClockInv, Next
<1> SUFFICES ASSUME NEW a \in Addresses PROVE BurstKept(a)' /\ RefusalKept(a)'
  BY <1>1 DEF ClockInv
<1> DEFINE all == UpTo(admitted[a], Length - 1)
           limits == (1 + restarts) * Max
<1>2. /\ BurstKept(a) /\ attempts'[a] = NoWindow /\ admitted' = admitted
      /\ restarts \in Nat /\ restarts' = restarts + 1
  BY <1>1 DEF ClockInv, TypeOK, Restart
<1>3. all \in Nat /\ limits \in Nat /\ Max \in Nat
  <2>1. Length - 1 \in 0 .. Length - 1
    BY LimitsNat
  <2> QED
    BY <1>1, <1>2, <2>1, AgesUpTo, LimitTimes, LimitsNat
<1>4. (1 + restarts') * Max = limits + Max
  <2>1. 1 + restarts' = 2 + restarts
    BY <1>2
  <2> QED
    BY <1>2, <2>1, LimitTimes
<1>5. all < limits + Max
  <2>1. CASE attempts[a] = NoWindow
    <3>1. all < limits
      BY <1>2, <2>1 DEF BurstKept
    <3> HIDE DEF all, limits
    <3> QED
      BY <1>3, <3>1
  <2>2. CASE attempts[a] # NoWindow
    <3>1. all < LetThrough(attempts[a]) + limits /\ LetThrough(attempts[a]) \in 1 .. Max
      BY <1>1, <1>2, <2>2, WindowKnown DEF BurstKept
    <3> HIDE DEF all, limits
    <3> QED
      BY <1>3, <3>1
  <2> QED
    BY <2>1, <2>2
<1> QED
  BY <1>2, <1>4, <1>5 DEF BurstKept, RefusalKept

LEMMA ClockInvNext == ClockInv /\ [Next]_vars => ClockInv'
<1>1. ASSUME ClockInv, UNCHANGED vars PROVE ClockInv'
  <2>1. TypeOK'
    BY <1>1, ClockTypeNext DEF ClockInv
  <2>2. \A a \in Addresses : BurstKept(a)' /\ RefusalKept(a)'
    BY <1>1, OthersKept DEF vars, ClockInv
  <2> QED
    BY <2>1, <2>2 DEF ClockInv
<1> QED
  BY <1>1, ClockCanActivate, ClockTick, ClockSetBack, ClockRestart DEF Next

LEMMA ClockInvariant == Spec => []ClockInv
BY ClockInvInit, ClockInvNext, PTL DEF Spec

LEMMA WithinUpTo ==
    ASSUME TypeOK, NEW a \in Addresses, NEW span \in Nat, span - 1 \in Ages
    PROVE  Within(a, span) = UpTo(admitted[a], span - 1)
<1> DEFINE f == [age \in 0 .. span - 1 |-> admitted[a][age]]
<1>1. Within(a, span) = UpTo(f, span - 1)
  BY DEF Within, SumFunction, UpTo
<1>2. span - 1 \in Int /\ \A x \in 0 .. span - 1 : f[x] = admitted[a][x]
  OBVIOUS
<1>3. UpTo(f, span - 1) = UpTo(admitted[a], span - 1)
  <2> HIDE DEF f
  <2> QED
    BY <1>2, UpToSame
<1> QED
  BY <1>1, <1>3

LEMMA ClockBounded == ClockInv => BurstBounded
<1> SUFFICES ASSUME ClockInv, NEW a \in Addresses
             PROVE  Within(a, Length) < (2 + restarts) * Max
  BY DEF BurstBounded
<1> DEFINE all == UpTo(admitted[a], Length - 1)
           limits == (1 + restarts) * Max
<1>1. TypeOK /\ BurstKept(a) /\ restarts \in Nat /\ Max \in Nat
  BY LimitsNat DEF ClockInv, TypeOK
<1>2. Length \in Nat /\ Length - 1 \in Ages
  BY LimitsNat DEF Ages
<1>3. Within(a, Length) = all /\ all \in Nat /\ limits \in Nat
      /\ (2 + restarts) * Max = limits + Max
  BY <1>1, <1>2, WithinUpTo, AgesUpTo, LimitTimes
<1>4. CASE attempts[a] = NoWindow
  <2>1. all < limits
    BY <1>1, <1>4 DEF BurstKept
  <2> HIDE DEF all, limits
  <2> QED
    BY <1>1, <1>3, <2>1
<1>5. CASE attempts[a] # NoWindow
  <2>1. all < LetThrough(attempts[a]) + limits /\ LetThrough(attempts[a]) \in 1 .. Max
    BY <1>1, <1>5, WindowKnown DEF BurstKept
  <2> HIDE DEF all, limits
  <2> QED
    BY <1>1, <1>3, <2>1
<1> QED
  BY <1>4, <1>5

(***************************************************************************)
(* Setting the clock back lets nothing more through in any Length          *)
(* milliseconds of true time, and every restart at most one more limit.    *)
(***************************************************************************)
THEOREM ClockBurstBounded == Spec => []BurstBounded
BY ClockInvariant, ClockBounded, PTL

LEMMA ClockForCause == ClockInv => RefusedForCause
<1> SUFFICES ASSUME ClockInv, NEW a \in Addresses, ~ Allowed(Counted(attempts[a]))
             PROVE  Within(a, Length + back) >= Max
  BY DEF RefusedForCause
<1> DEFINE w == attempts[a]
           since == now - w.startedAt + back
           last == Length + back - 1
<1>1. TypeOK /\ RefusalKept(a) /\ now \in Int /\ back \in 0 .. MaxBack
  BY LimitsNat DEF ClockInv, TypeOK
<1>2. ~ Over(w)
  BY LimitsNat DEF Counted, Allowed
<1>3. w # NoWindow /\ w \in AttemptWindow /\ w.count \in Nat \ {0} /\ w.startedAt \in Int
  BY <1>1, <1>2, WindowKnown DEF Over
<1>4. LetThrough(w) = Max
  BY <1>2, <1>3, LimitsNat DEF Counted, Allowed, LetThrough, Least, AttemptWindow
<1>5. since \in Int /\ 0 <= since /\ since <= last /\ last \in Ages /\ since \in Ages
  BY <1>1, <1>2, <1>3, LimitsNat DEF RefusalKept, Over, Ages
<1>6. UpTo(admitted[a], since) >= Max
  BY <1>1, <1>3, <1>4, <1>5 DEF RefusalKept
<1>7. UpTo(admitted[a], since) <= UpTo(admitted[a], last)
  <2>1. last \in Int /\ \A x \in 0 .. last : admitted[a][x] \in Nat
    BY <1>1, <1>5, LimitsNat DEF Ages, TypeOK
  <2> HIDE DEF since, last
  <2> QED
    BY <1>5, <2>1, UpToLess
<1>8. UpTo(admitted[a], since) \in Nat /\ UpTo(admitted[a], last) \in Nat
  BY <1>1, <1>5, AgesUpTo
<1>9. Within(a, Length + back) = UpTo(admitted[a], last)
  BY <1>1, <1>5, WithinUpTo, LimitsNat
<1> HIDE DEF since, last
<1> QED
  BY <1>6, <1>7, <1>8, <1>9, LimitsNat

(***************************************************************************)
(* A clock that is set back prolongs a refusal by what it was set back and *)
(* no more, whatever the process and the clock went through before.        *)
(***************************************************************************)
THEOREM ClockRefusedForCause == Spec => []RefusedForCause
BY ClockInvariant, ClockForCause, PTL
-----------------------------------------------------------------------------
(***************************************************************************)
(* ProductClock.  As long as no time came twice, an editor that still has  *)
(* the latest time has the current stock too: a write in between would     *)
(* have borne another time, and the editor's own is one already borne.     *)
(***************************************************************************)
ReadTruly ==
    \A e \in Editors :
        edit[e].pc = "write" /\ edit[e].at = updatedAt => edit[e].quantity = stock

ShelfInv ==
    /\ Shelf!TypeOK
    /\ \A e \in Editors : edit[e].at \in stamps
    /\ ~ again => stock = ledger /\ ReadTruly

LEMMA ShelfConstants == Times \subseteq Nat /\ Keep \notin Int /\ MaxStock \in Nat
BY PartsAssumption DEF Shelf!ClockAssumption

LEMMA ShelfInit == Shelf!Init => ShelfInv
<1> SUFFICES ASSUME Shelf!Init PROVE ShelfInv
  OBVIOUS
<1>1. ASSUME NEW e \in Editors
      PROVE  edit[e] \in Shelf!Edit /\ edit[e].at = updatedAt /\ edit[e].pc = "read"
  BY ShelfConstants DEF Shelf!Init, Shelf!Edit
<1>2. edit \in [Editors -> Shelf!Edit]
  BY <1>1 DEF Shelf!Init
<1>3. /\ stock \in 0 .. MaxStock /\ ledger = stock /\ again = FALSE
      /\ updatedAt \in Times /\ stamps = {updatedAt}
  BY DEF Shelf!Init
<1>4. Shelf!TypeOK
  <2>1. again \in BOOLEAN
    BY <1>3
  <2>2. ledger \in Int
    BY <1>3, ShelfConstants
  <2>3. stamps \subseteq Times /\ updatedAt \in stamps
    BY <1>3
  <2> QED
    BY <1>2, <1>3, <2>1, <2>2, <2>3 DEF Shelf!TypeOK
<1> QED
  BY <1>1, <1>3, <1>4 DEF ShelfInv, ReadTruly

LEMMA ShelfRead ==
    ASSUME ShelfInv, NEW e \in Editors, Shelf!Read(e)
    PROVE  ShelfInv'
<1> DEFINE new == [edit[e] EXCEPT !.pc = "write", !.quantity = stock, !.at = updatedAt]
<1>1. edit[e] \in Shelf!Edit /\ updatedAt \in stamps /\ updatedAt \in Times
  BY DEF ShelfInv, Shelf!TypeOK
<1>2. /\ new \in Shelf!Edit /\ new.at = updatedAt /\ new.quantity = stock
      /\ edit' = [edit EXCEPT ![e] = new]
  BY <1>1 DEF ShelfInv, Shelf!TypeOK, Shelf!Edit, Shelf!Read
<1>3. edit' \in [Editors -> Shelf!Edit]
  BY <1>2 DEF ShelfInv, Shelf!TypeOK
<1>4. \A f \in Editors : edit'[f] = IF f = e THEN new ELSE edit[f]
  BY <1>2 DEF ShelfInv, Shelf!TypeOK
<1> QED
  BY <1>1, <1>2, <1>3, <1>4 DEF ShelfInv, Shelf!TypeOK, Shelf!Read, ReadTruly

(* A write bears a time of its own, or again is set.                       *)
LEMMA ShelfStamped ==
    ASSUME ShelfInv, NEW t \in Times, Shelf!Stamp(t)
    PROVE  /\ stamps' \subseteq Times /\ updatedAt' \in stamps' /\ again' \in BOOLEAN
           /\ \A e \in Editors : edit[e].at \in stamps'
           /\ ~ again' => ~ again /\ \A e \in Editors : edit[e].at # updatedAt'
BY DEF ShelfInv, Shelf!TypeOK, Shelf!Stamp

LEMMA ShelfWrite ==
    ASSUME ShelfInv, NEW e \in Editors, NEW t \in Times, Shelf!Write(e, t)
    PROVE  ShelfInv'
<1>0. edit[e] \in Shelf!Edit
  BY DEF ShelfInv, Shelf!TypeOK
<1>1. ASSUME NEW to \in {"saved", "missing"}, edit' = [edit EXCEPT ![e].pc = to]
      PROVE  /\ edit' \in [Editors -> Shelf!Edit]
             /\ \A f \in Editors : edit'[f].at = edit[f].at
             /\ \A f \in Editors :
                    edit'[f].pc = "write" => f # e /\ edit'[f] = edit[f]
  <2>1. [edit[e] EXCEPT !.pc = to] \in Shelf!Edit
    BY <1>0, <1>1 DEF Shelf!Edit
  <2>2. edit' = [edit EXCEPT ![e] = [edit[e] EXCEPT !.pc = to]]
    BY <1>1
  <2>3. edit' \in [Editors -> Shelf!Edit]
    BY <2>1, <2>2 DEF ShelfInv, Shelf!TypeOK
  <2>4. \A f \in Editors :
            edit'[f] = IF f = e THEN [edit[e] EXCEPT !.pc = to] ELSE edit[f]
    BY <2>2 DEF ShelfInv, Shelf!TypeOK
  <2> QED
    BY <1>0, <1>1, <2>3, <2>4 DEF Shelf!Edit
<1>2. CASE Shelf!AsRead(e)
  <2>1. /\ stock' = Shelf!Written(e)
        /\ ledger' = ledger + Shelf!NextQuantity(e) - edit[e].quantity
        /\ Shelf!Stamp(t) /\ edit' = [edit EXCEPT ![e].pc = "saved"]
        /\ edit[e].pc = "write"
    BY <1>2 DEF Shelf!Write
  <2>2. /\ edit[e].want \in 0 .. MaxStock \union {Keep}
        /\ edit[e].quantity \in 0 .. MaxStock /\ stock \in 0 .. MaxStock /\ ledger \in Int
    BY <1>0 DEF Shelf!Edit, ShelfInv, Shelf!TypeOK
  <2>3. stock' \in 0 .. MaxStock /\ ledger' \in Int
    BY <2>1, <2>2, ShelfConstants DEF Shelf!Written, Shelf!NextQuantity
  <2>4. ASSUME ~ again' PROVE stock' = ledger' /\ ReadTruly'
    <3>1. stock = ledger /\ edit[e].quantity = stock
      BY <1>2, <2>1, <2>4, ShelfStamped DEF ShelfInv, ReadTruly, Shelf!AsRead
    <3>2. stock' = ledger'
      BY <2>1, <2>2, <3>1, ShelfConstants DEF Shelf!Written, Shelf!NextQuantity
    <3>3. ReadTruly'
      BY <1>1, <2>1, <2>4, ShelfStamped DEF ReadTruly
    <3> QED
      BY <3>2, <3>3
  <2>5. \A f \in Editors : edit'[f].at \in stamps'
    BY <1>1, <2>1, ShelfStamped
  <2>6. Shelf!TypeOK'
    BY <1>1, <2>1, <2>3, ShelfStamped DEF Shelf!TypeOK
  <2> QED
    BY <2>4, <2>5, <2>6 DEF ShelfInv
<1>3. CASE ~ Shelf!AsRead(e)
  <2>1. /\ edit' = [edit EXCEPT ![e].pc = "missing"]
        /\ UNCHANGED <<stock, ledger, updatedAt, stamps, again>>
    BY <1>3 DEF Shelf!Write
  <2>2. Shelf!TypeOK'
    BY <1>1, <2>1 DEF ShelfInv, Shelf!TypeOK
  <2>3. ReadTruly => ReadTruly'
    BY <1>1, <2>1 DEF ReadTruly
  <2> QED
    BY <1>1, <2>1, <2>2, <2>3 DEF ShelfInv
<1> QED
  BY <1>2, <1>3

(* An invoice's line moves stock and ledger by the same amount.            *)
LEMMA ShelfMoved ==
    ASSUME ShelfInv, NEW t \in Times, NEW d \in Int, Shelf!Stamp(t),
           stock + d \in 0 .. MaxStock, stock' = stock + d, ledger' = ledger + d,
           edit' = edit
    PROVE  ShelfInv'
<1>1. Shelf!TypeOK'
  BY ShelfStamped DEF ShelfInv, Shelf!TypeOK
<1>2. ~ again' => stock' = ledger' /\ ReadTruly'
  BY ShelfStamped DEF ShelfInv, ReadTruly
<1>3. \A e \in Editors : edit'[e].at \in stamps'
  BY ShelfStamped
<1> QED
  BY <1>1, <1>2, <1>3 DEF ShelfInv

LEMMA ShelfNext == ShelfInv /\ [Shelf!Next]_(Shelf!vars) => ShelfInv'
<1> SUFFICES ASSUME ShelfInv, [Shelf!Next]_(Shelf!vars) PROVE ShelfInv'
  OBVIOUS
<1>1. stock \in 0 .. MaxStock /\ ledger \in Int
  BY DEF ShelfInv, Shelf!TypeOK
<1>2. ASSUME NEW t \in Times, Shelf!Take(t) PROVE ShelfInv'
  <2>1. stock + (-1) \in 0 .. MaxStock /\ stock' = stock + (-1) /\ ledger' = ledger + (-1)
    BY <1>1, <1>2, ShelfConstants DEF Shelf!Take
  <2>2. Shelf!Stamp(t) /\ edit' = edit
    BY <1>2 DEF Shelf!Take
  <2> QED
    BY <2>1, <2>2, ShelfMoved
<1>3. ASSUME NEW t \in Times, Shelf!PutBack(t) PROVE ShelfInv'
  <2>1. stock + 1 \in 0 .. MaxStock /\ stock' = stock + 1 /\ ledger' = ledger + 1
    BY <1>1, <1>3, ShelfConstants DEF Shelf!PutBack
  <2>2. Shelf!Stamp(t) /\ edit' = edit
    BY <1>3 DEF Shelf!PutBack
  <2> QED
    BY <2>1, <2>2, ShelfMoved
<1>4. CASE UNCHANGED Shelf!vars
  BY <1>4 DEF Shelf!vars, ShelfInv, Shelf!TypeOK, ReadTruly
<1> QED
  BY <1>2, <1>3, <1>4, ShelfRead, ShelfWrite DEF Shelf!Next
-----------------------------------------------------------------------------
(***************************************************************************)
(* RequestPipeline.  The steps of a route, and what each of them leaves    *)
(* behind: whatever it found stays true of the request, because a session  *)
(* that is over stays over, and admin only ever becomes true.              *)
(***************************************************************************)
StepNames ==
    {"json", "cors", "session", "account", "role", "origin", "limit", "pipe", "handler"}

LEMMA GuardsOf ==
    ASSUME NEW route \in Pipeline!Routes
    PROVE  LET g == Pipeline!Guards(route) IN
           /\ g \in Seq(StepNames) /\ Len(g) \in 0 .. 4
           /\ \A i \in 1 .. Len(g) :
                /\ g[i] \notin {"handler", "cors"}
                /\ g[i] = "account" => i = 2 /\ g[1] = "session"
           /\ route \in Pipeline!Reads \union Pipeline!Writes \union {Pipeline!Delete} =>
                Len(g) >= 1 /\ g[1] = "session"
           /\ route = Pipeline!Delete => Len(g) >= 3 /\ g[3] = "role"
           /\ route \in Pipeline!Guarded => Len(g) >= 1 /\ g[Len(g)] = "origin"
<1> DEFINE g == Pipeline!Guards(route)
           Right ==
            /\ g \in Seq(StepNames) /\ Len(g) \in 0 .. 4
            /\ \A i \in 1 .. Len(g) :
                /\ g[i] \notin {"handler", "cors"}
                /\ g[i] = "account" => i = 2 /\ g[1] = "session"
            /\ route \in Pipeline!Reads \union Pipeline!Writes \union {Pipeline!Delete} =>
                Len(g) >= 1 /\ g[1] = "session"
            /\ route = Pipeline!Delete => Len(g) >= 3 /\ g[3] = "role"
            /\ route \in Pipeline!Guarded => Len(g) >= 1 /\ g[Len(g)] = "origin"
<1>1. ASSUME route \in Pipeline!Reads PROVE Right
  <2>1. g = <<"session", "account">>
    BY <1>1 DEF Pipeline!Guards, Pipeline!Reads, Pipeline!Writes, Pipeline!Delete
  <2>2. <<"session", "account">> \in Seq(StepNames) /\ Len(<<"session", "account">>) = 2
    BY DEF StepNames
  <2> HIDE DEF g
  <2>3. g[1] = "session" /\ g[2] = "account"
    BY <2>1
  <2>4. g \in Seq(StepNames) /\ Len(g) = 2
    BY <2>1, <2>2
  <2>5. ASSUME NEW i \in 1 .. Len(g)
        PROVE  /\ g[i] \notin {"handler", "cors"}
               /\ g[i] = "account" => i = 2 /\ g[1] = "session"
    BY <2>1, <2>2, <2>3
  <2>6. /\ route # Pipeline!Delete
        /\ route \notin Pipeline!Guarded
    BY <1>1 DEF Pipeline!Reads, Pipeline!Writes, Pipeline!Delete, Pipeline!Guarded
  <2> QED
    BY <1>1, <2>3, <2>4, <2>5, <2>6
<1>2. ASSUME route \in Pipeline!Writes PROVE Right
  <2>1. g = <<"session", "account", "origin">>
    BY <1>2 DEF Pipeline!Guards, Pipeline!Reads, Pipeline!Writes, Pipeline!Delete
  <2>2. <<"session", "account", "origin">> \in Seq(StepNames) /\ Len(<<"session", "account", "origin">>) = 3
    BY DEF StepNames
  <2> HIDE DEF g
  <2>3. g[1] = "session" /\ g[2] = "account" /\ g[3] = "origin"
    BY <2>1
  <2>4. g \in Seq(StepNames) /\ Len(g) = 3
    BY <2>1, <2>2
  <2>5. ASSUME NEW i \in 1 .. Len(g)
        PROVE  /\ g[i] \notin {"handler", "cors"}
               /\ g[i] = "account" => i = 2 /\ g[1] = "session"
    BY <2>1, <2>2, <2>3
  <2>6. /\ route # Pipeline!Delete
    BY <1>2 DEF Pipeline!Reads, Pipeline!Writes, Pipeline!Delete, Pipeline!Guarded
  <2> QED
    BY <1>2, <2>3, <2>4, <2>5, <2>6
<1>3. ASSUME route = Pipeline!Delete PROVE Right
  <2>1. g = <<"session", "account", "role", "origin">>
    BY <1>3 DEF Pipeline!Guards, Pipeline!Reads, Pipeline!Writes, Pipeline!Delete
  <2>2. <<"session", "account", "role", "origin">> \in Seq(StepNames) /\ Len(<<"session", "account", "role", "origin">>) = 4
    BY DEF StepNames
  <2> HIDE DEF g
  <2>3. g[1] = "session" /\ g[2] = "account" /\ g[3] = "role" /\ g[4] = "origin"
    BY <2>1
  <2>4. g \in Seq(StepNames) /\ Len(g) = 4
    BY <2>1, <2>2
  <2>5. ASSUME NEW i \in 1 .. Len(g)
        PROVE  /\ g[i] \notin {"handler", "cors"}
               /\ g[i] = "account" => i = 2 /\ g[1] = "session"
    BY <2>1, <2>2, <2>3
  <2> QED
    BY <1>3, <2>3, <2>4, <2>5
<1>4. ASSUME route = "POST /auth/logout" PROVE Right
  <2>1. g = <<"origin">>
    BY <1>4 DEF Pipeline!Guards, Pipeline!Reads, Pipeline!Writes, Pipeline!Delete
  <2>2. <<"origin">> \in Seq(StepNames) /\ Len(<<"origin">>) = 1
    BY DEF StepNames
  <2> HIDE DEF g
  <2>3. g[1] = "origin"
    BY <2>1
  <2>4. g \in Seq(StepNames) /\ Len(g) = 1
    BY <2>1, <2>2
  <2>5. ASSUME NEW i \in 1 .. Len(g)
        PROVE  /\ g[i] \notin {"handler", "cors"}
               /\ g[i] = "account" => i = 2 /\ g[1] = "session"
    BY <2>1, <2>2, <2>3
  <2>6. /\ route \notin Pipeline!Reads \union Pipeline!Writes \union {Pipeline!Delete}
        /\ route # Pipeline!Delete
    BY <1>4 DEF Pipeline!Reads, Pipeline!Writes, Pipeline!Delete, Pipeline!Guarded
  <2>7. Len(g) \in 0 .. 4 /\ Len(g) >= 1 /\ g[Len(g)] = "origin"
    BY <2>3, <2>4
  <2> QED
    BY <2>4, <2>5, <2>6, <2>7
<1>5. ASSUME route = "POST /auth/login" PROVE Right
  <2>1. g = <<"limit">>
    BY <1>5 DEF Pipeline!Guards, Pipeline!Reads, Pipeline!Writes, Pipeline!Delete
  <2>2. <<"limit">> \in Seq(StepNames) /\ Len(<<"limit">>) = 1
    BY DEF StepNames
  <2> HIDE DEF g
  <2>3. g[1] = "limit"
    BY <2>1
  <2>4. g \in Seq(StepNames) /\ Len(g) = 1
    BY <2>1, <2>2
  <2>5. ASSUME NEW i \in 1 .. Len(g)
        PROVE  /\ g[i] \notin {"handler", "cors"}
               /\ g[i] = "account" => i = 2 /\ g[1] = "session"
    BY <2>1, <2>2, <2>3
  <2>6. /\ route \notin Pipeline!Reads \union Pipeline!Writes \union {Pipeline!Delete}
        /\ route # Pipeline!Delete
        /\ route \notin Pipeline!Guarded
    BY <1>5 DEF Pipeline!Reads, Pipeline!Writes, Pipeline!Delete, Pipeline!Guarded
  <2>7. Len(g) \in 0 .. 4
    BY <2>4
  <2> QED
    BY <2>4, <2>5, <2>6, <2>7
<1>6. ASSUME route \in {"POST /auth/register", "GET /health"} PROVE Right
  <2>1. g = <<>>
    BY <1>6 DEF Pipeline!Guards, Pipeline!Reads, Pipeline!Writes, Pipeline!Delete
  <2>2. <<>> \in Seq(StepNames) /\ Len(<<>>) = 0
    BY DEF StepNames
  <2> HIDE DEF g
  <2>4. g \in Seq(StepNames) /\ Len(g) = 0
    BY <2>1, <2>2
  <2>5. ASSUME NEW i \in 1 .. Len(g)
        PROVE  /\ g[i] \notin {"handler", "cors"}
               /\ g[i] = "account" => i = 2 /\ g[1] = "session"
    BY <2>1, <2>2
  <2>6. /\ route \notin Pipeline!Reads \union Pipeline!Writes \union {Pipeline!Delete}
        /\ route # Pipeline!Delete
        /\ route \notin Pipeline!Guarded
    BY <1>6 DEF Pipeline!Reads, Pipeline!Writes, Pipeline!Delete, Pipeline!Guarded
  <2>7. Len(g) \in 0 .. 4
    BY <2>4
  <2> QED
    BY <2>4, <2>5, <2>6, <2>7
<1> QED
  BY <1>1, <1>2, <1>3, <1>4, <1>5, <1>6 DEF Pipeline!Routes

LEMMA Around ==
    ASSUME NEW g \in Seq(StepNames)
    PROVE  LET s == <<"json", "cors">> \o g \o <<"pipe", "handler">> IN
           /\ Len(s) = Len(g) + 4
           /\ s[1] = "json" /\ s[2] = "cors"
           /\ \A i \in 1 .. Len(g) : s[i + 2] = g[i]
           /\ s[Len(g) + 3] = "pipe" /\ s[Len(g) + 4] = "handler"
<1> DEFINE front == <<"json", "cors">>
           back2 == <<"pipe", "handler">>
           s == (front \o g) \o back2
<1>1. front \in Seq(StepNames) /\ back2 \in Seq(StepNames) /\ Len(front) = 2 /\ Len(back2) = 2
  BY DEF StepNames
<1>2. front[1] = "json" /\ front[2] = "cors" /\ back2[1] = "pipe" /\ back2[2] = "handler"
  OBVIOUS
<1>3. Len(g) \in Nat
  OBVIOUS
<1> HIDE DEF front, back2
<1>4. /\ front \o g \in Seq(StepNames) /\ Len(front \o g) = Len(g) + 2
      /\ \A i \in 1 .. Len(g) + 2 :
            (front \o g)[i] = IF i <= 2 THEN front[i] ELSE g[i - 2]
  <2>1. /\ front \o g \in Seq(StepNames)
        /\ Len(front \o g) = Len(front) + Len(g)
        /\ \A i \in 1 .. Len(front) + Len(g) :
            (front \o g)[i] = IF i <= Len(front) THEN front[i] ELSE g[i - Len(front)]
    BY <1>1, ConcatProperties
  <2>2. Len(front) + Len(g) = Len(g) + 2
    BY <1>1, <1>3
  <2> QED
    BY <1>1, <2>1, <2>2
<1> DEFINE h == front \o g
<1> HIDE DEF h
<1>5. /\ Len(h \o back2) = Len(g) + 4
      /\ \A i \in 1 .. Len(g) + 4 :
            (h \o back2)[i] = IF i <= Len(g) + 2 THEN h[i] ELSE back2[i - (Len(g) + 2)]
  <2>1. h \in Seq(StepNames) /\ Len(h) = Len(g) + 2
    BY <1>4 DEF h
  <2>2. /\ Len(h \o back2) = Len(h) + Len(back2)
        /\ \A i \in 1 .. Len(h) + Len(back2) :
            (h \o back2)[i] = IF i <= Len(h) THEN h[i] ELSE back2[i - Len(h)]
    BY <1>1, <2>1, ConcatProperties
  <2>3. Len(h) + Len(back2) = Len(g) + 4
    BY <1>1, <1>3, <2>1
  <2> QED
    BY <2>1, <2>2, <2>3
<1>5a. /\ Len(s) = Len(g) + 4
       /\ \A i \in 1 .. Len(g) + 4 :
            s[i] = IF i <= Len(g) + 2 THEN (front \o g)[i] ELSE back2[i - (Len(g) + 2)]
  BY <1>5 DEF h
<1> HIDE DEF s
<1>6. s[1] = "json" /\ s[2] = "cors"
  BY <1>2, <1>3, <1>4, <1>5a
<1>7. \A i \in 1 .. Len(g) : s[i + 2] = g[i]
  BY <1>3, <1>4, <1>5a
<1>8. s[Len(g) + 3] = "pipe" /\ s[Len(g) + 4] = "handler"
  BY <1>2, <1>3, <1>5a
<1> QED
  BY <1>5a, <1>6, <1>7, <1>8 DEF front, back2, s

(* The handler is the last step, and comes after the guards of its route.  *)
LEMMA StepsOf ==
    ASSUME NEW route \in Pipeline!Routes
    PROVE  LET s == Pipeline!Steps(route)
               Before(name) == \E j \in 1 .. Len(s) - 1 : s[j] = name
           IN  /\ Len(s) \in 4 .. 8
               /\ \A i \in 1 .. Len(s) :
                    /\ s[i] = "handler" <=> i = Len(s)
                    /\ s[i] = "account" => \E j \in 1 .. i - 1 : s[j] = "session"
               /\ Before("cors")
               /\ route \in Pipeline!Reads \union Pipeline!Writes \union {Pipeline!Delete} =>
                    Before("session")
               /\ route = Pipeline!Delete => Before("role")
               /\ route \in Pipeline!Guarded => Before("origin")
<1> DEFINE g == Pipeline!Guards(route)
           s == Pipeline!Steps(route)
           Before(name) == \E j \in 1 .. Len(s) - 1 : s[j] = name
<1>1. g \in Seq(StepNames) /\ Len(g) \in 0 .. 4
  BY GuardsOf
<1>2. s = <<"json", "cors">> \o g \o <<"pipe", "handler">>
  BY DEF Pipeline!Steps
<1>3. /\ Len(s) = Len(g) + 4
      /\ s[1] = "json" /\ s[2] = "cors"
      /\ \A i \in 1 .. Len(g) : s[i + 2] = g[i]
      /\ s[Len(g) + 3] = "pipe" /\ s[Len(g) + 4] = "handler"
  BY <1>1, <1>2, Around
<1>4. /\ \A i \in 1 .. Len(g) :
            /\ g[i] # "handler"
            /\ g[i] = "account" => i = 2 /\ g[1] = "session"
      /\ route \in Pipeline!Reads \union Pipeline!Writes \union {Pipeline!Delete} =>
            Len(g) >= 1 /\ g[1] = "session"
      /\ route = Pipeline!Delete => Len(g) >= 3 /\ g[3] = "role"
      /\ route \in Pipeline!Guarded => Len(g) >= 1 /\ g[Len(g)] = "origin"
  BY GuardsOf
<1> HIDE DEF g, s
<1>5. ASSUME NEW i \in 1 .. Len(s)
      PROVE  i \in {1, 2} \/ i = Len(g) + 3 \/ i = Len(g) + 4 \/
                (i - 2 \in 1 .. Len(g) /\ s[i] = g[i - 2])
  <2>1. CASE i \in 3 .. Len(g) + 2
    <3>1. i - 2 \in 1 .. Len(g) /\ (i - 2) + 2 = i
      BY <1>1, <2>1
    <3> QED BY <1>3, <3>1
  <2> QED BY <1>1, <1>3, <2>1
<1>6. ASSUME NEW i \in 1 .. Len(s)
      PROVE  s[i] = "handler" <=> i = Len(s)
  BY <1>1, <1>3, <1>4, <1>5
<1>7. ASSUME NEW i \in 1 .. Len(s), s[i] = "account"
      PROVE  \E j \in 1 .. i - 1 : s[j] = "session"
  <2>1. i - 2 \in 1 .. Len(g) /\ g[i - 2] = "account"
    BY <1>3, <1>5, <1>7
  <2>2. i = 4 /\ 1 \in 1 .. Len(g) /\ g[1] = "session"
    BY <1>1, <1>4, <2>1
  <2>3. s[1 + 2] = "session"
    BY <1>3, <2>2
  <2> QED BY <2>2, <2>3
<1>8. ASSUME NEW j \in 1 .. Len(g)
      PROVE  Before(g[j])
  <2>1. j + 2 \in 1 .. Len(s) - 1 /\ s[j + 2] = g[j]
    BY <1>1, <1>3
  <2> QED BY <2>1
<1>9. Before("cors")
  BY <1>1, <1>3
<1>10. route \in Pipeline!Reads \union Pipeline!Writes \union {Pipeline!Delete} => Before("session")
  BY <1>1, <1>4, <1>8
<1>11. ASSUME route = Pipeline!Delete PROVE Before("role")
  <2>1. 3 \in 1 .. Len(g) /\ g[3] = "role"
    BY <1>1, <1>4, <1>11
  <2> QED BY <1>8, <2>1
<1>12. route \in Pipeline!Guarded => Before("origin")
  BY <1>1, <1>4, <1>8
<1> QED
  BY <1>1, <1>3, <1>6, <1>7, <1>9, <1>10, <1>11, <1>12 DEF s
-----------------------------------------------------------------------------
(* What a step that a request is past has found out about it for good.     *)
Found(r, name) ==
    /\ name = "cors" => Pipeline!CorsAllows(r)
    /\ name = "session" => ask[r].token # None /\ ~ dead[r]
    /\ name = "role" => admin[r]
    /\ name = "origin" => (ask[r].route \in Pipeline!Mutating => Pipeline!OriginTrusted(r))

Behind(r) == \A i \in 1 .. at[r] - 1 : Found(r, Pipeline!Steps(ask[r].route)[i])

Remembered(r) ==
    /\ ask[r].token # None /\ role[ask[r].token] = "ADMIN" => admin[r]
    /\ user[r] = "ADMIN" => admin[r]
    /\ dead[r] => ask[r].token = None \/ ~ live[ask[r].token]
    /\ reply[r] = 200 => Pipeline!Steps(ask[r].route)[at[r]] = "handler"

PipelineInv ==
    /\ Pipeline!TypeOK
    /\ at \in [Requests -> Nat]
    /\ \A r \in Requests : Behind(r) /\ Remembered(r)

LEMMA NoneOther == None \notin Tokens /\ None # "ADMIN" /\ None # "STAFF"
BY PartsAssumption DEF Pipeline!NoRowAssumption

LEMMA AskType ==
    ASSUME PipelineInv, NEW r \in Requests
    PROVE  /\ ask[r].route \in Pipeline!Routes
           /\ ask[r].token \in Tokens \union {None}
           /\ at[r] \in 1 .. Len(Pipeline!Steps(ask[r].route)) /\ at[r] \in Nat
BY DEF PipelineInv, Pipeline!TypeOK, Pipeline!Ask

LEMMA PipelineInit == Pipeline!Init => PipelineInv
<1> SUFFICES ASSUME Pipeline!Init PROVE PipelineInv
  OBVIOUS
<1>1. ASSUME NEW r \in Requests
      PROVE  /\ ask[r].route \in Pipeline!Routes /\ ask[r].token \in Tokens \union {None}
             /\ at[r] = 1 /\ user[r] = None /\ reply[r] = 0
  BY DEF Pipeline!Init, Pipeline!Ask
<1>1a. ASSUME NEW r \in Requests
       PROVE  /\ dead[r] <=> ask[r].token = None \/ ~ live[ask[r].token]
              /\ admin[r] <=> ask[r].token # None /\ role[ask[r].token] = "ADMIN"
  BY DEF Pipeline!Init
<1>2. ASSUME NEW r \in Requests
      PROVE  at[r] \in 1 .. Len(Pipeline!Steps(ask[r].route))
  BY <1>1, StepsOf
<1>3. /\ at \in [Requests -> Nat]
      /\ user \in [Requests -> {"ADMIN", "STAFF", None}]
      /\ reply \in [Requests -> Pipeline!Status]
  BY DEF Pipeline!Init, Pipeline!Status
<1>4. dead \in [Requests -> BOOLEAN] /\ admin \in [Requests -> BOOLEAN]
  BY DEF Pipeline!Init
<1>5. Pipeline!TypeOK
  BY <1>2, <1>3, <1>4 DEF Pipeline!Init, Pipeline!TypeOK
<1>6. ASSUME NEW r \in Requests PROVE Behind(r) /\ Remembered(r)
  <2>1. Behind(r)
    BY <1>1 DEF Behind
  <2>2. Remembered(r)
    BY <1>1, <1>1a, NoneOther DEF Remembered
  <2> QED BY <2>1, <2>2
<1> QED
  BY <1>3, <1>5, <1>6 DEF PipelineInv

(* A request that is let on.                                               *)
LEMMA PipelineOn ==
    ASSUME PipelineInv, NEW r \in Requests, NEW name, name # "handler", Pipeline!At(r, name),
           at' = [at EXCEPT ![r] = @ + 1], UNCHANGED <<live, role, ask, reply, dead, admin>>,
           NEW to \in {"ADMIN", "STAFF", None}, user' = [user EXCEPT ![r] = to],
           to = "ADMIN" => admin[r], Found(r, name)
    PROVE  PipelineInv'
<1> DEFINE s == Pipeline!Steps(ask[r].route)
<1>1. /\ ask[r].route \in Pipeline!Routes /\ at[r] \in Nat
      /\ at[r] \in 1 .. Len(s) /\ s[at[r]] = name /\ reply[r] = 0
  BY AskType DEF Pipeline!At
<1>2. at[r] + 1 \in 1 .. Len(s)
  <2>1. Len(s) \in 4 .. 8 /\ (s[at[r]] = "handler" <=> at[r] = Len(s))
    BY <1>1, StepsOf
  <2> HIDE DEF s
  <2> QED BY <1>1, <2>1
<1>3. at' \in [Requests -> Nat] /\ \A q \in Requests : at'[q] = IF q = r THEN at[r] + 1 ELSE at[q]
  BY <1>1 DEF PipelineInv
<1>4. /\ user' \in [Requests -> {"ADMIN", "STAFF", None}]
      /\ \A q \in Requests : user'[q] = IF q = r THEN to ELSE user[q]
  BY DEF PipelineInv, Pipeline!TypeOK
<1>5. Pipeline!TypeOK'
  BY <1>2, <1>3, <1>4 DEF PipelineInv, Pipeline!TypeOK
<1>6. ASSUME NEW q \in Requests PROVE Behind(q)'
  <2>1. ASSUME NEW i \in 1 .. at'[q] - 1
        PROVE  Found(q, Pipeline!Steps(ask[q].route)[i])
    <3>1. CASE q = r /\ i = at[r]
      BY <1>1, <3>1
    <3>2. CASE ~ (q = r /\ i = at[r])
      <4>1. i \in 1 .. at[q] - 1
        BY <1>1, <1>3, <3>2
      <4> QED BY <4>1 DEF PipelineInv, Behind
    <3> QED BY <3>1, <3>2
  <2>2. \A x : Found(q, x)' <=> Found(q, x)
    BY DEF Found, Pipeline!CorsAllows, Pipeline!OriginTrusted
  <2>3. Pipeline!Steps(ask[q].route)' = Pipeline!Steps(ask[q].route)
    BY DEF Pipeline!Steps, Pipeline!Guards
  <2> QED BY <2>1, <2>2, <2>3 DEF Behind
<1>7. ASSUME NEW q \in Requests PROVE Remembered(q)'
  <2>1. Remembered(q)
    BY DEF PipelineInv
  <2>2. reply[q] = 200 => at'[q] = at[q]
    BY <1>1, <1>3
  <2>3. user'[q] = "ADMIN" => admin[q]
    BY <1>4, <2>1 DEF Remembered
  <2> QED BY <2>1, <2>2, <2>3 DEF Remembered, Pipeline!Steps, Pipeline!Guards
<1> QED
  BY <1>3, <1>5, <1>6, <1>7 DEF PipelineInv

(* Where at and ask stay, nothing that was found out is lost.              *)
LEMMA BehindKept ==
    ASSUME PipelineInv, NEW q \in Requests, UNCHANGED <<at, ask, dead>>, admin[q] => admin'[q]
    PROVE  Behind(q)'
<1>1. \A x : Found(q, x) => Found(q, x)'
  BY DEF Found, Pipeline!CorsAllows, Pipeline!OriginTrusted
<1>2. Pipeline!Steps(ask[q].route)' = Pipeline!Steps(ask[q].route)
  BY DEF Pipeline!Steps, Pipeline!Guards
<1> QED
  BY <1>1, <1>2 DEF PipelineInv, Behind

(* A request that is answered.                                             *)
LEMMA PipelineReply ==
    ASSUME PipelineInv, NEW r \in Requests, NEW status \in Pipeline!Status,
           status = 200 => Pipeline!At(r, "handler"),
           Pipeline!Reply(r, status), UNCHANGED <<role, ask, dead, admin>>,
           live' \in [Tokens -> BOOLEAN], \A t \in Tokens : live'[t] => live[t]
    PROVE  PipelineInv'
<1>1. \A q \in Requests : reply'[q] = IF q = r THEN status ELSE reply[q]
  BY DEF PipelineInv, Pipeline!TypeOK, Pipeline!Reply
<1>2. UNCHANGED <<at, user>> /\ reply' \in [Requests -> Pipeline!Status]
  BY DEF PipelineInv, Pipeline!TypeOK, Pipeline!Reply
<1>3. Pipeline!TypeOK'
  BY <1>2 DEF PipelineInv, Pipeline!TypeOK, Pipeline!Steps, Pipeline!Guards
<1>4. ASSUME NEW q \in Requests PROVE Remembered(q)'
  <2>1. Remembered(q) /\ ask[q].token \in Tokens \union {None}
    BY AskType DEF PipelineInv
  <2>2. reply'[q] = 200 => Pipeline!Steps(ask[q].route)[at[q]] = "handler"
    BY <1>1, <2>1 DEF Remembered, Pipeline!At
  <2>3. Pipeline!Steps(ask[q].route)' = Pipeline!Steps(ask[q].route)
    BY DEF Pipeline!Steps, Pipeline!Guards
  <2> QED
    BY <1>2, <2>1, <2>2, <2>3 DEF Remembered
<1> QED
  BY <1>2, <1>3, <1>4, BehindKept DEF PipelineInv

(* What happens to a session or an account while requests are on their way.*)
LEMMA PipelineEndSession ==
    ASSUME PipelineInv, NEW t \in Tokens, Pipeline!EndSession(t)
    PROVE  PipelineInv'
<1>1. /\ UNCHANGED <<role, ask, at, user, reply, dead, admin>>
      /\ live' \in [Tokens -> BOOLEAN] /\ \A u \in Tokens : live'[u] => live[u]
  BY DEF Pipeline!EndSession, PipelineInv, Pipeline!TypeOK
<1>2. Pipeline!TypeOK'
  BY <1>1 DEF PipelineInv, Pipeline!TypeOK, Pipeline!Steps, Pipeline!Guards
<1>3. ASSUME NEW q \in Requests PROVE Remembered(q)'
  <2>1. Remembered(q) /\ ask[q].token \in Tokens \union {None}
    BY AskType DEF PipelineInv
  <2> QED
    BY <1>1, <2>1 DEF Remembered, Pipeline!Steps, Pipeline!Guards
<1> QED
  BY <1>1, <1>2, <1>3, BehindKept DEF PipelineInv

LEMMA PipelineSetRole ==
    ASSUME PipelineInv, NEW t \in Tokens, NEW to \in {"ADMIN", "STAFF"}, Pipeline!SetRole(t, to)
    PROVE  PipelineInv'
<1>1. /\ UNCHANGED <<live, ask, at, user, reply, dead>>
      /\ role' \in [Tokens -> {"ADMIN", "STAFF"}]
      /\ \A u \in Tokens : role'[u] = IF u = t THEN to ELSE role[u]
  BY DEF Pipeline!SetRole, PipelineInv, Pipeline!TypeOK
<1>2. admin' = [r \in Requests |-> admin[r] \/ (ask[r].token = t /\ to = "ADMIN")]
  BY DEF Pipeline!SetRole
<1>3. /\ admin' \in [Requests -> BOOLEAN]
      /\ \A q \in Requests : admin'[q] <=> admin[q] \/ (ask[q].token = t /\ to = "ADMIN")
  BY <1>2 DEF PipelineInv, Pipeline!TypeOK
<1>4. Pipeline!TypeOK'
  BY <1>1, <1>3 DEF PipelineInv, Pipeline!TypeOK, Pipeline!Steps, Pipeline!Guards
<1>5. ASSUME NEW q \in Requests PROVE Remembered(q)'
  <2>1. Remembered(q) /\ ask[q].token \in Tokens \union {None}
    BY AskType DEF PipelineInv
  <2> QED
    BY <1>1, <1>3, <2>1 DEF Remembered, Pipeline!Steps, Pipeline!Guards
<1> QED
  BY <1>1, <1>3, <1>4, <1>5, BehindKept DEF PipelineInv

(* A step that lets a request on only where it finds what it looks for.    *)
LEMMA PipelineGoOn ==
    ASSUME PipelineInv, NEW r \in Requests, NEW name, name # "handler", Pipeline!At(r, name),
           Pipeline!GoOn(r), UNCHANGED <<live, role, ask, dead, admin>>, Found(r, name)
    PROVE  PipelineInv'
<1>1. user[r] \in {"ADMIN", "STAFF", None} /\ user' = [user EXCEPT ![r] = user[r]]
  BY DEF PipelineInv, Pipeline!TypeOK, Pipeline!GoOn
<1>2. user[r] = "ADMIN" => admin[r]
  BY DEF PipelineInv, Remembered
<1> QED
  BY <1>1, <1>2, PipelineOn DEF Pipeline!GoOn

LEMMA PipelineRefuse ==
    ASSUME PipelineInv, NEW r \in Requests, NEW status \in Pipeline!Status \ {200},
           Pipeline!Reply(r, status), UNCHANGED <<live, role, ask, dead, admin>>
    PROVE  PipelineInv'
<1>1. live' \in [Tokens -> BOOLEAN] /\ \A t \in Tokens : live'[t] => live[t]
  BY DEF PipelineInv, Pipeline!TypeOK
<1> QED
  BY <1>1, PipelineReply

LEMMA PipelineNext == PipelineInv /\ [Pipeline!Next]_(Pipeline!vars) => PipelineInv'
<1> SUFFICES ASSUME PipelineInv, [Pipeline!Next]_(Pipeline!vars) PROVE PipelineInv'
  OBVIOUS
<1>0. {400, 500, 401, 403, 429} \subseteq Pipeline!Status \ {200} /\ 200 \in Pipeline!Status
  BY DEF Pipeline!Status
<1>1. ASSUME NEW r \in Requests, Pipeline!ParseJson(r) PROVE PipelineInv'
  <2>1. Found(r, "json")
    BY DEF Found
  <2> QED
    BY <1>0, <1>1, <2>1, PipelineGoOn, PipelineRefuse DEF Pipeline!ParseJson, Pipeline!Check
<1>2. ASSUME NEW r \in Requests, Pipeline!Cors(r) PROVE PipelineInv'
  <2>1. Pipeline!CorsAllows(r) => Found(r, "cors")
    BY DEF Found
  <2> QED
    BY <1>0, <1>2, <2>1, PipelineGoOn, PipelineRefuse DEF Pipeline!Cors, Pipeline!Check
<1>3. ASSUME NEW r \in Requests, Pipeline!FindSession(r) PROVE PipelineInv'
  <2>1. ask[r].token # None /\ live[ask[r].token] => Found(r, "session")
    BY DEF Found, PipelineInv, Remembered
  <2> QED
    BY <1>0, <1>3, <2>1, PipelineGoOn, PipelineRefuse DEF Pipeline!FindSession, Pipeline!Check
<1>4. ASSUME NEW r \in Requests, Pipeline!FindAccount(r) PROVE PipelineInv'
  <2> DEFINE s == Pipeline!Steps(ask[r].route)
             to == role[ask[r].token]
  <2>1. s[at[r]] = "account" /\ at[r] \in 1 .. Len(s) /\ Pipeline!At(r, "account")
    BY <1>4, AskType DEF Pipeline!FindAccount, Pipeline!At
  <2>2. PICK j \in 1 .. at[r] - 1 : s[j] = "session"
    BY <2>1, StepsOf, AskType
  <2>3. Found(r, "session")
    BY <2>2 DEF PipelineInv, Behind
  <2>4. ask[r].token # None /\ ask[r].token \in Tokens
    BY <2>3, AskType DEF Found
  <2>5. to \in {"ADMIN", "STAFF", None} /\ (to = "ADMIN" => admin[r])
    BY <2>4 DEF PipelineInv, Pipeline!TypeOK, Remembered
  <2>6. Found(r, "account")
    BY DEF Found
  <2> HIDE DEF to
  <2>7. /\ user' = [user EXCEPT ![r] = to] /\ at' = [at EXCEPT ![r] = @ + 1]
        /\ UNCHANGED <<live, role, ask, reply, dead, admin>>
    BY <1>4 DEF Pipeline!FindAccount, to
  <2> QED
    BY <2>1, <2>5, <2>6, <2>7, PipelineOn
<1>5. ASSUME NEW r \in Requests, Pipeline!RolesGuard(r) PROVE PipelineInv'
  <2>1. user[r] = "ADMIN" => Found(r, "role")
    BY DEF Found, PipelineInv, Remembered
  <2> QED
    BY <1>0, <1>5, <2>1, PipelineGoOn, PipelineRefuse DEF Pipeline!RolesGuard, Pipeline!Check
<1>6. ASSUME NEW r \in Requests, Pipeline!CsrfOriginGuard(r) PROVE PipelineInv'
  <2>1. (ask[r].route \in Pipeline!Mutating => Pipeline!OriginTrusted(r)) => Found(r, "origin")
    BY DEF Found
  <2> QED
    BY <1>0, <1>6, <2>1, PipelineGoOn, PipelineRefuse DEF Pipeline!CsrfOriginGuard, Pipeline!Check
<1>7. ASSUME NEW r \in Requests, Pipeline!LoginRateLimitGuard(r) PROVE PipelineInv'
  <2>1. Found(r, "limit")
    BY DEF Found
  <2> QED
    BY <1>0, <1>7, <2>1, PipelineGoOn, PipelineRefuse
    DEF Pipeline!LoginRateLimitGuard, Pipeline!Check
<1>8. ASSUME NEW r \in Requests, Pipeline!ValidationPipe(r) PROVE PipelineInv'
  <2>1. Found(r, "pipe")
    BY DEF Found
  <2> QED
    BY <1>0, <1>8, <2>1, PipelineGoOn, PipelineRefuse DEF Pipeline!ValidationPipe, Pipeline!Check
<1>9. ASSUME NEW r \in Requests, Pipeline!Handle(r) PROVE PipelineInv'
  <2>1. live' \in [Tokens -> BOOLEAN] /\ \A t \in Tokens : live'[t] => live[t]
    BY <1>9 DEF Pipeline!Handle, PipelineInv, Pipeline!TypeOK
  <2>2. /\ Pipeline!At(r, "handler") /\ Pipeline!Reply(r, 200)
        /\ UNCHANGED <<role, ask, dead, admin>>
    BY <1>9 DEF Pipeline!Handle
  <2> QED
    BY <1>0, <2>1, <2>2, PipelineReply
<1>10. ASSUME UNCHANGED Pipeline!vars PROVE PipelineInv'
  <2>1. UNCHANGED <<live, role, ask, at, user, reply, dead, admin>>
    BY <1>10 DEF Pipeline!vars
  <2>2. Pipeline!TypeOK'
    BY <2>1 DEF PipelineInv, Pipeline!TypeOK, Pipeline!Steps, Pipeline!Guards
  <2>3. ASSUME NEW q \in Requests PROVE Remembered(q)'
    <3>1. Remembered(q)
      BY DEF PipelineInv
    <3>2. Pipeline!Steps(ask[q].route)' = Pipeline!Steps(ask[q].route)
      BY <2>1 DEF Pipeline!Steps, Pipeline!Guards
    <3> QED
      BY <2>1, <3>1, <3>2 DEF Remembered
  <2> QED
    BY <2>1, <2>2, <2>3, BehindKept DEF PipelineInv
<1> QED
  BY <1>1, <1>2, <1>3, <1>4, <1>5, <1>6, <1>7, <1>8, <1>9, <1>10,
     PipelineEndSession, PipelineSetRole DEF Pipeline!Next

(* Whoever got to the handler is past every guard of the route.            *)
LEMMA PipelineHandled == PipelineInv => Pipeline!HandledForCause
<1> SUFFICES ASSUME PipelineInv, NEW r \in Requests, reply[r] = 200
             PROVE  /\ ask[r].route \in Pipeline!Reads \union Pipeline!Writes \union {Pipeline!Delete}
                        => ~ dead[r]
                    /\ ask[r].route = Pipeline!Delete => admin[r]
                    /\ ask[r].origin # "foreign"
                    /\ ask[r].route \in Pipeline!Guarded =>
                        "trusted" \in {ask[r].origin, ask[r].referer}
  BY DEF Pipeline!HandledForCause
<1> DEFINE s == Pipeline!Steps(ask[r].route)
<1>1. /\ ask[r].route \in Pipeline!Routes /\ at[r] \in 1 .. Len(s) /\ s[at[r]] = "handler"
      /\ \A i \in 1 .. at[r] - 1 : Found(r, s[i])
  BY AskType DEF PipelineInv, Remembered, Behind
<1>2. at[r] = Len(s)
  BY <1>1, StepsOf
<1>3. \A name : (\E j \in 1 .. Len(s) - 1 : s[j] = name) => Found(r, name)
  BY <1>1, <1>2
<1>4. /\ Found(r, "cors")
      /\ ask[r].route \in Pipeline!Reads \union Pipeline!Writes \union {Pipeline!Delete} =>
            Found(r, "session")
      /\ ask[r].route = Pipeline!Delete => Found(r, "role")
      /\ ask[r].route \in Pipeline!Guarded => Found(r, "origin")
  <2> HIDE DEF s
  <2> QED BY <1>1, <1>3, StepsOf DEF s
<1>5. ask[r].route \in Pipeline!Guarded => ask[r].route \in Pipeline!Mutating
  BY DEF Pipeline!Guarded, Pipeline!Mutating, Pipeline!Routes, Pipeline!Writes, Pipeline!Reads,
         Pipeline!Delete
<1>6. Pipeline!OriginTrusted(r) => "trusted" \in {ask[r].origin, ask[r].referer}
  BY DEF Pipeline!OriginTrusted
<1> QED
  BY <1>4, <1>5, <1>6 DEF Found, Pipeline!CorsAllows
-----------------------------------------------------------------------------
(***************************************************************************)
(* InvoiceTotals.  The subtotal is a sum over the lines added so far, and  *)
(* no sum of some of the lines is more than the sum of all: what is        *)
(* refused on the way would not have fitted in the end.                    *)
(***************************************************************************)
Due == [i \in DOMAIN input |-> input[i].price * input[i].quantity]
SumTo(k) == SumFunctionOnSet(Due, 1 .. k)

LEMMA TotalsConstants ==
    /\ Lines \subseteq [price : Nat, quantity : Nat \ {0}] /\ MaxLines \in Nat
    /\ Rates \subseteq 0 .. 10000 /\ MaxCents \in Nat
BY PartsAssumption DEF Totals!LinesAssumption, Totals!RatesAssumption

LEMMA SameInterval ==
    ASSUME NEW m \in Nat, NEW n \in Nat, 1 .. m = 1 .. n
    PROVE  m = n
<1>1. ASSUME NEW j \in Nat, NEW k \in Nat, j < k, 1 .. j = 1 .. k PROVE FALSE
  <2>1. k \in 1 .. k /\ k \notin 1 .. j
    BY <1>1
  <2> QED BY <1>1, <2>1
<1> QED
  BY <1>1

LEMMA LineType ==
    ASSUME NEW line \in Lines PROVE line.price \in Nat /\ line.quantity \in Nat
BY TotalsConstants

LEMMA InputType ==
    ASSUME input \in Totals!BoundedSeq(Lines, MaxLines)
    PROVE  /\ input \in Seq(Lines) /\ Len(input) \in 0 .. MaxLines
           /\ DOMAIN input = 1 .. Len(input)
           /\ DOMAIN Due = 1 .. Len(input)
           /\ \A i \in 1 .. Len(input) :
                /\ input[i] \in Lines
                /\ Due[i] = input[i].price * input[i].quantity
                /\ Due[i] \in Nat
<1>1. PICK m \in 0 .. MaxLines : input \in [1 .. m -> Lines]
  BY DEF Totals!BoundedSeq, Totals!SeqOf
<1>2. m \in Nat
  BY TotalsConstants
<1>3. input \in Seq(Lines)
  BY <1>1, <1>2, SeqDef
<1>4. Len(input) \in Nat /\ DOMAIN input = 1 .. Len(input)
  BY <1>3, LenProperties
<1>5. Len(input) = m
  <2>1. 1 .. Len(input) = 1 .. m
    BY <1>1, <1>4
  <2> QED BY <1>2, <1>4, <2>1, SameInterval
<1>6. ASSUME NEW i \in 1 .. Len(input)
      PROVE  /\ input[i] \in Lines
             /\ Due[i] = input[i].price * input[i].quantity
             /\ Due[i] \in Nat
  <2>1. input[i] \in Lines
    BY <1>1, <1>5, <1>6
  <2>2. input[i].price \in Nat /\ input[i].quantity \in Nat
    BY <2>1, LineType
  <2>3. Due[i] = input[i].price * input[i].quantity
    BY <1>4, <1>6 DEF Due
  <2>4. input[i].price * input[i].quantity \in Nat
    BY <2>2
  <2> QED BY <2>1, <2>3, <2>4
<1> QED
  BY <1>1, <1>3, <1>4, <1>5, <1>6 DEF Due

(* The instance has a copy of the library's sum of its own.                *)
LEMMA SameTotal ==
    ASSUME NEW f, NEW S PROVE Totals!SumFunctionOnSet(f, S) = SumFunctionOnSet(f, S)
BY DEF Totals!SumFunctionOnSet, SumFunctionOnSet, Totals!FoldFunctionOnSet, FoldFunctionOnSet,
       Totals!MapThenFoldSet, MapThenFoldSet

LEMMA PartialSums ==
    ASSUME input \in Totals!BoundedSeq(Lines, MaxLines)
    PROVE  /\ SumTo(0) = 0 /\ SumTo(Len(input)) = Totals!Goods
           /\ \A k \in 0 .. Len(input) : SumTo(k) \in Nat /\ SumTo(k) <= Totals!Goods
           /\ \A k \in 0 .. Len(input) - 1 : SumTo(k + 1) = SumTo(k) + Due[k + 1]
           /\ \A i \in 1 .. Len(input) : Due[i] <= Totals!Goods
<1> DEFINE n == Len(input)
<1>1. n \in Nat /\ DOMAIN Due = 1 .. n /\ \A i \in 1 .. n : Due[i] \in Nat
  <2>1. n \in 0 .. MaxLines /\ DOMAIN Due = 1 .. n /\ \A i \in 1 .. n : Due[i] \in Nat
    BY InputType
  <2>2. n \in Nat
    BY <2>1, TotalsConstants
  <2> QED BY <2>1, <2>2
<1>2. Totals!Goods = SumFunctionOnSet(Due, 1 .. n)
  <2>1. Totals!Goods = SumFunctionOnSet(Due, DOMAIN Due)
    BY SameTotal DEF Totals!Goods, Totals!SumFunction, Due
  <2> QED BY <1>1, <2>1
<1>3. SumTo(0) = 0
  <2>1. 1 .. 0 = {}
    OBVIOUS
  <2> QED BY <2>1, SumEmpty DEF SumTo
<1> HIDE DEF n
<1>4. IsFiniteSet(1 .. n) /\ \A i \in 1 .. n : Due[i] \in Nat
  BY <1>1, FS_Interval
<1>5. ASSUME NEW R, R \subseteq 1 .. n
      PROVE  SumFunctionOnSet(Due, R) <= SumFunctionOnSet(Due, 1 .. n)
  <2>1. \A x \in R : Due[x] \in Nat /\ Due[x] <= Due[x]
    BY <1>4, <1>5
  <2> DEFINE all == 1 .. n
  <2> HIDE DEF all
  <2>2. IsFiniteSet(all) /\ R \subseteq all /\ \A x \in all : Due[x] \in Nat
    BY <1>4, <1>5 DEF all
  <2>3. SumFunctionOnSet(Due, R) <= SumFunctionOnSet(Due, all)
    BY <2>1, <2>2, SumLess
  <2> QED BY <2>3 DEF all
<1>6. ASSUME NEW k \in 0 .. n
      PROVE  SumTo(k) \in Nat /\ SumTo(k) <= SumFunctionOnSet(Due, 1 .. n)
  <2> DEFINE some == 1 .. k
  <2>1. some \subseteq 1 .. n /\ IsFiniteSet(some)
    BY <1>1, FS_Interval
  <2>2. \A x \in some : Due[x] \in Nat
    BY <1>4, <2>1
  <2> HIDE DEF some
  <2>3. SumFunctionOnSet(Due, some) \in Nat
    BY <2>1, <2>2, SumNat
  <2>4. SumFunctionOnSet(Due, some) <= SumFunctionOnSet(Due, 1 .. n)
    BY <1>5, <2>1
  <2> QED BY <2>3, <2>4 DEF SumTo, some
<1>7. ASSUME NEW k \in 0 .. n - 1
      PROVE  SumTo(k + 1) = SumTo(k) + Due[k + 1]
  <2> DEFINE some == 1 .. k
  <2>1. /\ 1 .. k + 1 = some \union {k + 1} /\ k + 1 \notin some
        /\ some \subseteq 1 .. n /\ k + 1 \in 1 .. n
    BY <1>1
  <2>1a. IsFiniteSet(some)
    BY <1>1, FS_Interval
  <2>2. Due[k + 1] \in Int /\ \A x \in some : Due[x] \in Int
    BY <1>4, <2>1
  <2> HIDE DEF some
  <2>3. SumFunctionOnSet(Due, some \union {k + 1}) = SumFunctionOnSet(Due, some) + Due[k + 1]
    BY <2>1, <2>1a, <2>2, SumAdd
  <2>4. SumTo(k) = SumFunctionOnSet(Due, some)
    BY DEF SumTo, some
  <2>5. SumTo(k + 1) = SumFunctionOnSet(Due, some \union {k + 1})
    BY <2>1 DEF SumTo
  <2> QED BY <2>3, <2>4, <2>5
<1>8. ASSUME NEW i \in 1 .. n
      PROVE  Due[i] <= SumFunctionOnSet(Due, 1 .. n)
  <2>1. Due[i] \in Int /\ \A x \in {} : Due[x] \in Int
    BY <1>4
  <2>2. IsFiniteSet({}) /\ i \notin {}
    BY FS_EmptySet
  <2>3. SumFunctionOnSet(Due, {} \union {i}) = SumFunctionOnSet(Due, {}) + Due[i]
    BY <2>1, <2>2, SumAdd
  <2>4. SumFunctionOnSet(Due, {i}) = Due[i]
    <3>1. {} \union {i} = {i}
      OBVIOUS
    <3> QED BY <2>1, <2>3, <3>1, SumEmpty
  <2>5. SumFunctionOnSet(Due, {i}) <= SumFunctionOnSet(Due, 1 .. n)
    BY <1>5, <1>8
  <2> QED BY <2>4, <2>5
<1>9. SumTo(n) = SumFunctionOnSet(Due, 1 .. n)
  BY DEF SumTo
<1> QED
  BY <1>2, <1>3, <1>6, <1>7, <1>8, <1>9 DEF n

(* Math.round finds the one nearest cent, halves going up.                 *)
LEMMA TaxNearest ==
    ASSUME rate \in Rates, NEW x \in Nat
    PROVE  /\ Totals!Tax(x) \in Nat
           /\ LET error == 10000 * Totals!Tax(x) - x * rate
              IN  -5000 < error /\ error <= 5000
           /\ \A cents \in Int :
                LET error == 10000 * cents - x * rate
                IN  -5000 < error /\ error <= 5000 => cents = Totals!Tax(x)
<1> DEFINE y == x * rate
<1>1. y \in Nat
  BY TotalsConstants
<1>2. Totals!Tax(x) = (y + 5000) \div 10000
  BY DEF Totals!Tax
<1> HIDE DEF y
<1> DEFINE q == (y + 5000) \div 10000
<1>3. q \in Nat /\ 10000 * q <= y + 5000 /\ y + 5000 < 10000 * q + 10000
  BY <1>1
<1> HIDE DEF q
<1>4. -5000 < 10000 * q - y /\ 10000 * q - y <= 5000
  BY <1>1, <1>3
<1>5. ASSUME NEW cents \in Int, -5000 < 10000 * cents - y, 10000 * cents - y <= 5000
      PROVE  cents = q
  BY <1>1, <1>3, <1>5
<1> QED
  BY <1>2, <1>3, <1>4, <1>5 DEF y, q
-----------------------------------------------------------------------------
TotalsTax == Totals!Tax(Totals!Goods)

(* The lines priced so far, and those of them that are added up.           *)
Priced ==
    /\ Len(items) <= Len(input) /\ \A i \in 1 .. Len(items) : items[i] = Due[i]
    /\ step = "lines" => Len(items) < Len(input) /\ summed = 0
    /\ step \in {"sum", "tax", "total", "stored"} => Len(items) = Len(input)
    /\ step \in {"lines", "sum"} => summed < Len(input) /\ amounts.subtotal = SumTo(summed)

Reckoned ==
    /\ step \in {"tax", "total", "stored"} => amounts.subtotal = Totals!Goods
    /\ step \in {"total", "stored"} => amounts.tax = TotalsTax
    /\ step = "stored" => amounts.total = Totals!Goods + TotalsTax
    /\ step = "refused" => Totals!Goods + TotalsTax > MaxCents

TotalsInv == Totals!TypeOK /\ Priced /\ Reckoned

(* What is due, and its tax.                                               *)
LEMMA TotalsFacts ==
    ASSUME Totals!TypeOK
    PROVE  /\ input \in Totals!BoundedSeq(Lines, MaxLines)
           /\ Len(input) \in 0 .. MaxLines /\ Len(items) \in Nat /\ Len(input) \in Nat
           /\ Totals!Goods \in Nat /\ TotalsTax \in Nat
           /\ summed \in Nat /\ MaxCents \in Nat /\ MaxLines \in Nat
           /\ amounts.subtotal \in 0 .. MaxCents
           /\ amounts.tax \in 0 .. MaxCents /\ amounts.total \in 0 .. MaxCents
<1>1. input \in Totals!BoundedSeq(Lines, MaxLines) /\ MaxCents \in Nat /\ MaxLines \in Nat
  BY TotalsConstants DEF Totals!TypeOK
<1>2. Len(input) \in 0 .. MaxLines /\ Len(input) \in Nat
  BY <1>1, InputType
<1>3. Totals!Goods \in Nat
  BY <1>1, <1>2, PartialSums
<1>4. TotalsTax \in Nat
  <2>1. rate \in Rates
    BY DEF Totals!TypeOK
  <2> QED BY <1>3, <2>1, TaxNearest DEF TotalsTax
<1>5. Len(items) \in Nat
  BY LenProperties DEF Totals!TypeOK
<1>6. summed \in Nat /\ amounts.subtotal \in 0 .. MaxCents
      /\ amounts.tax \in 0 .. MaxCents /\ amounts.total \in 0 .. MaxCents
  BY <1>1 DEF Totals!TypeOK
<1> QED
  BY <1>1, <1>2, <1>3, <1>4, <1>5, <1>6

LEMMA TotalsInit == Totals!Init => TotalsInv
<1> SUFFICES ASSUME Totals!Init PROVE TotalsInv
  OBVIOUS
<1>1. Totals!TypeOK
  BY TotalsConstants, EmptySeq DEF Totals!Init, Totals!TypeOK
<1>2. Len(input) > 0
  <2>1. input \in Seq(Lines) /\ input # <<>>
    BY InputType DEF Totals!Init
  <2> QED BY <2>1, EmptySeq
<1>3. items = <<>> /\ Len(items) = 0 /\ summed = 0 /\ step = "lines" /\ amounts.subtotal = 0
  BY DEF Totals!Init
<1>4. SumTo(0) = 0
  BY <1>1, PartialSums DEF Totals!TypeOK
<1>5. Priced
  BY <1>1, <1>2, <1>3, <1>4, TotalsFacts DEF Priced
<1>6. Reckoned
  BY <1>3 DEF Reckoned
<1> QED
  BY <1>1, <1>5, <1>6 DEF TotalsInv

(* The request and the rate stay, and so does what is due.                 *)
LEMMA DueKept ==
    ASSUME UNCHANGED <<input, rate>>
    PROVE  /\ Due' = Due /\ (Totals!Goods)' = Totals!Goods /\ TotalsTax' = TotalsTax
           /\ \A k : SumTo(k)' = SumTo(k)
<1>1. Due' = Due /\ (Totals!Goods)' = Totals!Goods
  BY DEF Due, Totals!Goods
<1>2. TotalsTax' = TotalsTax
  BY <1>1 DEF TotalsTax, Totals!Tax
<1> QED
  BY <1>1, <1>2 DEF SumTo

LEMMA TotalsRefuse ==
    ASSUME TotalsInv, UNCHANGED <<input, rate>>, Totals!Refuse,
           Totals!Goods + TotalsTax > MaxCents
    PROVE  TotalsInv'
<1>1. step' = "refused" /\ UNCHANGED <<items, summed, amounts>>
  BY DEF Totals!Refuse
<1>2. Totals!TypeOK'
  BY <1>1 DEF TotalsInv, Totals!TypeOK
<1>3. Priced'
  BY <1>1, DueKept DEF TotalsInv, Priced
<1>4. Reckoned'
  BY <1>1, DueKept DEF Reckoned
<1> QED
  BY <1>2, <1>3, <1>4 DEF TotalsInv

LEMMA TotalsPriceLine ==
    ASSUME TotalsInv, UNCHANGED <<input, rate>>, Totals!PriceLine
    PROVE  TotalsInv'
<1> DEFINE k == Len(items) + 1
           due == input[k].price * input[k].quantity
<1>0. Totals!TypeOK
  BY DEF TotalsInv
<1>1. step = "lines" /\ Len(items) \in Nat /\ Len(input) \in Nat /\ Len(items) < Len(input)
  BY <1>0, TotalsFacts DEF TotalsInv, Priced, Totals!PriceLine
<1>2. k \in 1 .. Len(input)
  BY <1>1
<1>3. due = Due[k] /\ Due[k] \in Nat /\ Due[k] <= Totals!Goods
  BY <1>0, <1>2, InputType, PartialSums, TotalsFacts
<1>4. /\ ~ Totals!Storable(due) => Totals!Refuse
      /\ Totals!Storable(due) =>
            /\ items' = Append(items, due)
            /\ step' = IF Len(items') = Len(input) THEN "sum" ELSE "lines"
            /\ UNCHANGED <<summed, amounts>>
  BY DEF Totals!PriceLine
<1> HIDE DEF due
<1>5. CASE ~ Totals!Storable(due)
  <2>1. Totals!Goods + TotalsTax > MaxCents
    BY <1>0, <1>3, <1>5, TotalsFacts DEF Totals!Storable
  <2> QED
    BY <1>4, <1>5, <2>1, TotalsRefuse
<1>6. CASE Totals!Storable(due)
  <2>1. due \in 0 .. MaxCents /\ items \in Seq(0 .. MaxCents)
    BY <1>0, <1>3, <1>6, TotalsFacts DEF Totals!Storable, Totals!TypeOK
  <2>2. /\ items' \in Seq(0 .. MaxCents) /\ Len(items') = k
        /\ \A i \in 1 .. Len(items) : items'[i] = items[i]
        /\ items'[k] = due
    <3> DEFINE S == 0 .. MaxCents
    <3>1. due \in S /\ items \in Seq(S) /\ items' = Append(items, due)
      BY <1>4, <1>6, <2>1
    <3> HIDE DEF S
    <3>2. /\ items' \in Seq(S) /\ Len(items') = Len(items) + 1
          /\ \A i \in 1 .. Len(items) : items'[i] = items[i]
          /\ items'[Len(items) + 1] = due
      BY <3>1, AppendProperties
    <3> QED BY <3>2 DEF S
  <2>3. step' = (IF k = Len(input) THEN "sum" ELSE "lines") /\ UNCHANGED <<summed, amounts>>
    BY <1>4, <1>6, <2>2
  <2>4. Totals!TypeOK'
    BY <1>0, <2>2, <2>3 DEF Totals!TypeOK
  <2>5. \A i \in 1 .. k : items'[i] = Due[i]
    BY <1>1, <1>3, <2>2 DEF TotalsInv, Priced
  <2>6. summed = 0 /\ amounts.subtotal = SumTo(0)
    BY <1>1 DEF TotalsInv, Priced
  <2>7. Priced'
    <3>1. Len(input)' = Len(input) /\ Due' = Due /\ SumTo(0)' = SumTo(0)
      BY DueKept
    <3>2. summed' = 0 /\ amounts'.subtotal = SumTo(0)
      BY <2>3, <2>6
    <3>3. Len(items') <= Len(input) /\ \A i \in 1 .. Len(items') : items'[i] = Due[i]
      BY <1>2, <2>2, <2>5
    <3>4. step' = "lines" => Len(items') < Len(input)
      BY <1>1, <1>2, <2>2, <2>3
    <3>5. step' \in {"sum", "tax", "total", "stored"} => Len(items') = Len(input)
      BY <2>2, <2>3
    <3>6. summed' < Len(input)
      BY <1>1, <3>2
    <3> QED
      BY <3>1, <3>2, <3>3, <3>4, <3>5, <3>6 DEF Priced
  <2>8. Reckoned'
    BY <2>3 DEF Reckoned
  <2> QED
    BY <2>4, <2>7, <2>8 DEF TotalsInv
<1> QED
  BY <1>5, <1>6

LEMMA TotalsAddLine ==
    ASSUME TotalsInv, UNCHANGED <<input, rate>>, Totals!AddLine
    PROVE  TotalsInv'
<1> DEFINE sum == amounts.subtotal + items[summed + 1]
<1>0. Totals!TypeOK
  BY DEF TotalsInv
<1>1. /\ step = "sum" /\ Len(items) = Len(input) /\ summed < Len(input)
      /\ amounts.subtotal = SumTo(summed)
      /\ \A i \in 1 .. Len(input) : items[i] = Due[i]
      /\ Len(input) \in Nat /\ summed \in Nat
  BY <1>0, TotalsFacts DEF TotalsInv, Priced, Totals!AddLine
<1>2. summed + 1 \in 1 .. Len(input) /\ summed \in 0 .. Len(input) - 1
      /\ summed + 1 \in 0 .. Len(input)
  BY <1>1
<1>3. sum = SumTo(summed + 1) /\ sum \in Nat /\ sum <= Totals!Goods
  BY <1>0, <1>1, <1>2, PartialSums, TotalsFacts
<1>4. /\ ~ Totals!Storable(sum) => Totals!Refuse
      /\ Totals!Storable(sum) =>
            /\ amounts' = [amounts EXCEPT !.subtotal = sum]
            /\ summed' = summed + 1
            /\ step' = IF summed' = Len(items) THEN "tax" ELSE "sum"
            /\ UNCHANGED items
  BY DEF Totals!AddLine
<1> HIDE DEF sum
<1>5. CASE ~ Totals!Storable(sum)
  <2>1. Totals!Goods + TotalsTax > MaxCents
    BY <1>0, <1>3, <1>5, TotalsFacts DEF Totals!Storable
  <2> QED
    BY <1>4, <1>5, <2>1, TotalsRefuse
<1>6. CASE Totals!Storable(sum)
  <2>1. sum \in 0 .. MaxCents
    BY <1>0, <1>3, <1>6, TotalsFacts DEF Totals!Storable
  <2>2. /\ summed' = summed + 1 /\ items' = items
        /\ step' = (IF summed + 1 = Len(input) THEN "tax" ELSE "sum")
        /\ amounts' = [amounts EXCEPT !.subtotal = sum]
    BY <1>1, <1>4, <1>6
  <2>3. amounts' \in [subtotal : 0 .. MaxCents, tax : 0 .. MaxCents, total : 0 .. MaxCents]
        /\ amounts'.subtotal = sum
    BY <1>0, <2>1, <2>2 DEF Totals!TypeOK
  <2>4. summed' \in 0 .. MaxLines
    BY <1>0, <1>1, <2>2, TotalsFacts
  <2>5. Totals!TypeOK'
    BY <1>0, <2>2, <2>3, <2>4 DEF Totals!TypeOK
  <2>6. Priced'
    <3>1. Len(input)' = Len(input) /\ Due' = Due
      BY DueKept
    <3>2. amounts'.subtotal = SumTo(summed + 1)
      BY <1>3, <2>3
    <3>3. SumTo(summed)' = SumTo(summed + 1)
      BY <2>2, DueKept DEF SumTo
    <3>4. step' \in {"lines", "sum"} => summed' < Len(input)
      BY <1>1, <2>2
    <3>5. step' # "lines" /\ Len(items') = Len(input)
      BY <1>1, <2>2
    <3>6. \A i \in 1 .. Len(items') : items'[i] = Due[i]
      BY <1>1, <2>2
    <3> QED
      BY <1>1, <3>1, <3>2, <3>3, <3>4, <3>5, <3>6 DEF Priced
  <2>7. Reckoned'
    <3>1. step' = "tax" => amounts'.subtotal = Totals!Goods
      BY <1>0, <1>1, <1>3, <2>2, <2>3, PartialSums, TotalsFacts
    <3>2. step' \in {"tax", "sum"}
      BY <2>2
    <3> QED
      BY <3>1, <3>2, DueKept DEF Reckoned
  <2> QED
    BY <2>5, <2>6, <2>7 DEF TotalsInv
<1> QED
  BY <1>5, <1>6

LEMMA TotalsAddTax ==
    ASSUME TotalsInv, UNCHANGED <<input, rate>>, Totals!AddTax
    PROVE  TotalsInv'
<1> DEFINE tax == Totals!Tax(amounts.subtotal)
<1>0. Totals!TypeOK
  BY DEF TotalsInv
<1>1. step = "tax" /\ amounts.subtotal = Totals!Goods /\ Len(items) = Len(input)
  BY DEF TotalsInv, Priced, Reckoned, Totals!AddTax
<1>2. tax = TotalsTax /\ tax \in Nat
  BY <1>0, <1>1, TotalsFacts DEF TotalsTax
<1>3. /\ ~ Totals!Storable(tax) => Totals!Refuse
      /\ Totals!Storable(tax) =>
            /\ amounts' = [amounts EXCEPT !.tax = tax]
            /\ step' = "total"
            /\ UNCHANGED <<items, summed>>
  BY DEF Totals!AddTax
<1> HIDE DEF tax
<1>4. CASE ~ Totals!Storable(tax)
  <2>1. Totals!Goods + TotalsTax > MaxCents
    BY <1>0, <1>2, <1>4, TotalsFacts DEF Totals!Storable
  <2> QED
    BY <1>3, <1>4, <2>1, TotalsRefuse
<1>5. CASE Totals!Storable(tax)
  <2>1. tax \in 0 .. MaxCents
    BY <1>0, <1>2, <1>5, TotalsFacts DEF Totals!Storable
  <2>2. /\ amounts' \in [subtotal : 0 .. MaxCents, tax : 0 .. MaxCents, total : 0 .. MaxCents]
        /\ amounts'.subtotal = amounts.subtotal /\ amounts'.tax = tax
    BY <1>0, <1>3, <1>5, <2>1 DEF Totals!TypeOK
  <2>3. Totals!TypeOK'
    BY <1>0, <1>3, <1>5, <2>2 DEF Totals!TypeOK
  <2>4. Priced'
    BY <1>1, <1>3, <1>5, DueKept DEF TotalsInv, Priced
  <2>5. Reckoned'
    BY <1>1, <1>2, <1>3, <1>5, <2>2, DueKept DEF Reckoned
  <2> QED
    BY <2>3, <2>4, <2>5 DEF TotalsInv
<1> QED
  BY <1>4, <1>5

LEMMA TotalsAddUp ==
    ASSUME TotalsInv, UNCHANGED <<input, rate>>, Totals!AddUp
    PROVE  TotalsInv'
<1> DEFINE sum == amounts.subtotal + amounts.tax
<1>0. Totals!TypeOK
  BY DEF TotalsInv
<1>1. /\ step = "total" /\ Len(items) = Len(input)
      /\ amounts.subtotal = Totals!Goods /\ amounts.tax = TotalsTax
  BY DEF TotalsInv, Priced, Reckoned, Totals!AddUp
<1>2. sum = Totals!Goods + TotalsTax /\ sum \in Nat
  BY <1>0, <1>1, TotalsFacts
<1>3. /\ ~ Totals!Storable(sum) => Totals!Refuse
      /\ Totals!Storable(sum) =>
            /\ amounts' = [amounts EXCEPT !.total = sum]
            /\ step' = "stored"
            /\ UNCHANGED <<items, summed>>
  BY DEF Totals!AddUp
<1> HIDE DEF sum
<1>4. CASE ~ Totals!Storable(sum)
  <2>1. Totals!Goods + TotalsTax > MaxCents
    BY <1>0, <1>2, <1>4, TotalsFacts DEF Totals!Storable
  <2> QED
    BY <1>3, <1>4, <2>1, TotalsRefuse
<1>5. CASE Totals!Storable(sum)
  <2>1. sum \in 0 .. MaxCents
    BY <1>0, <1>2, <1>5, TotalsFacts DEF Totals!Storable
  <2>2. /\ amounts' \in [subtotal : 0 .. MaxCents, tax : 0 .. MaxCents, total : 0 .. MaxCents]
        /\ amounts'.subtotal = amounts.subtotal /\ amounts'.tax = amounts.tax
        /\ amounts'.total = sum
    BY <1>0, <1>3, <1>5, <2>1 DEF Totals!TypeOK
  <2>3. Totals!TypeOK'
    BY <1>0, <1>3, <1>5, <2>2 DEF Totals!TypeOK
  <2>4. Priced'
    BY <1>1, <1>3, <1>5, DueKept DEF TotalsInv, Priced
  <2>5. Reckoned'
    BY <1>1, <1>2, <1>3, <1>5, <2>2, DueKept DEF Reckoned
  <2> QED
    BY <2>3, <2>4, <2>5 DEF TotalsInv
<1> QED
  BY <1>4, <1>5

LEMMA TotalsNext == TotalsInv /\ [Totals!Next]_(Totals!vars) => TotalsInv'
<1> SUFFICES ASSUME TotalsInv, [Totals!Next]_(Totals!vars) PROVE TotalsInv'
  OBVIOUS
<1>1. CASE UNCHANGED Totals!vars
  <2>1. UNCHANGED <<input, rate, items, summed, amounts, step>>
    BY <1>1 DEF Totals!vars
  <2>2. Totals!TypeOK'
    BY <2>1 DEF TotalsInv, Totals!TypeOK
  <2>3. Priced' /\ Reckoned'
    BY <2>1, DueKept DEF TotalsInv, Priced, Reckoned
  <2> QED
    BY <2>2, <2>3 DEF TotalsInv
<1> QED
  BY <1>1, TotalsPriceLine, TotalsAddLine, TotalsAddTax, TotalsAddUp DEF Totals!Next

(* There is one nearest cent, so a tax that would have fitted is this one. *)
LEMMA TotalsExact == TotalsInv => Totals!StoredExactly /\ Totals!RefusedOnlyTooLarge
<1> SUFFICES ASSUME TotalsInv PROVE Totals!StoredExactly /\ Totals!RefusedOnlyTooLarge
  OBVIOUS
<1>1. /\ Totals!Goods \in Nat /\ rate \in Rates
      /\ TotalsTax = Totals!Tax(Totals!Goods)
  BY TotalsFacts DEF TotalsInv, Totals!TypeOK, TotalsTax
<1>2. Totals!NearestCent(TotalsTax)
  BY <1>1, TaxNearest DEF Totals!NearestCent
<1>3. ASSUME NEW cents \in 0 .. Totals!Goods, Totals!NearestCent(cents)
      PROVE  cents = TotalsTax
  BY <1>1, <1>3, TaxNearest DEF Totals!NearestCent
<1>4. Totals!StoredExactly
  BY <1>2 DEF Totals!StoredExactly, TotalsInv, Reckoned
<1>5. Totals!RefusedOnlyTooLarge
  BY <1>3 DEF Totals!RefusedOnlyTooLarge, TotalsInv, Reckoned
<1> QED
  BY <1>4, <1>5
-----------------------------------------------------------------------------
(***************************************************************************)
(* Listing.  A row's place in the list is the number of rows before it,    *)
(* and Edge is how far the client has read.  A row comes past the edge     *)
(* unseen only when one before it leaves, and falls back behind it only    *)
(* when one comes in before it; each time it is one row, because two rows  *)
(* do not share a place.                                                   *)
(***************************************************************************)
Edge == IF next = 1 THEN (page - 1) * PageSize ELSE page * PageSize

Ahead(x) == {y \in listed : Walk!Before(y, x)}
Place(x) == Cardinality(Ahead(x))

Missed ==
    {row \in kept : /\ Walk!Placed(row) /\ shown[row] = 0
                    /\ Place(row) < Edge \/ (next >= 3 /\ total <= Edge)}

Repeated ==
    {row \in kept : /\ Walk!Placed(row)
                    /\ shown[row] > 1 \/ (shown[row] = 1 /\ Place(row) >= Edge)}

Bounded ==
    /\ page = 1 \/ page <= Cardinality(Rows)
    /\ \A row \in Rows : shown[row] <= IF next = 1 THEN page - 1 ELSE page
    /\ next = 4 => total <= Edge
    /\ entered + left <= MaxChanges

Accounted == Cardinality(Missed) <= left /\ Cardinality(Repeated) <= entered

WalkInv == Walk!TypeOK /\ Bounded /\ Accounted

(* The instance has copies of its own of the library's finite sets.        *)
LEMMA SameFinite == ASSUME NEW S PROVE Walk!IsFiniteSet(S) <=> IsFiniteSet(S)
BY DEF Walk!IsFiniteSet, IsFiniteSet

LEMMA SameSize == ASSUME NEW S PROVE Walk!Cardinality(S) = Cardinality(S)
BY DEF Walk!Cardinality, Cardinality

LEMMA ListConstants ==
    /\ Rows \subseteq Nat /\ IsFiniteSet(Rows) /\ CreatedAt \in [Rows -> Nat]
    /\ PageSize \in Nat \ {0} /\ MaxChanges \in Nat /\ Cardinality(Rows) \in Nat
BY PartsAssumption, SameFinite, FS_CardinalityType DEF Walk!RowsAssumption, Walk!BoundsAssumption

LEMMA Ordered ==
    ASSUME NEW x \in Rows, NEW y \in Rows, NEW z \in Rows
    PROVE  /\ ~ Walk!Before(x, x)
           /\ Walk!Before(x, y) /\ Walk!Before(y, z) => Walk!Before(x, z)
           /\ x # y /\ Walk!Placed(x) => Walk!Before(x, y) \/ Walk!Before(y, x)
<1>1. /\ x \in Nat /\ y \in Nat /\ z \in Nat
      /\ CreatedAt[x] \in Nat /\ CreatedAt[y] \in Nat /\ CreatedAt[z] \in Nat
  BY ListConstants
<1>2. Walk!Placed(x) /\ x # y => Walk!TieBreak \/ CreatedAt[x] # CreatedAt[y]
  BY DEF Walk!Placed
<1> QED
  BY <1>1, <1>2 DEF Walk!Before

LEMMA ListedFinite ==
    ASSUME Walk!TypeOK
    PROVE  /\ listed \subseteq Rows /\ kept \subseteq listed /\ IsFiniteSet(listed)
           /\ Cardinality(listed) \in 0 .. Cardinality(Rows)
           /\ \A x : IsFiniteSet(Ahead(x)) /\ Place(x) \in Nat /\ Ahead(x) \subseteq listed
<1>1. listed \subseteq Rows /\ kept \subseteq listed
  BY DEF Walk!TypeOK
<1>2. IsFiniteSet(listed) /\ Cardinality(listed) <= Cardinality(Rows)
  BY <1>1, ListConstants, FS_Subset
<1>3. Cardinality(listed) \in Nat
  BY <1>2, FS_CardinalityType
<1>4. ASSUME NEW x PROVE IsFiniteSet(Ahead(x)) /\ Place(x) \in Nat /\ Ahead(x) \subseteq listed
  <2>1. Ahead(x) \subseteq listed
    BY DEF Ahead
  <2>2. IsFiniteSet(Ahead(x))
    BY <1>2, <2>1, FS_Subset
  <2> QED BY <2>1, <2>2, FS_CardinalityType DEF Place
<1> QED
  BY <1>1, <1>2, <1>3, <1>4, ListConstants

(* No two rows share a place.                                              *)
LEMMA OnePlace ==
    ASSUME Walk!TypeOK, NEW x \in listed, NEW y \in listed, Walk!Placed(x), Place(x) = Place(y)
    PROVE  x = y
<1>1. SUFFICES ASSUME x # y PROVE FALSE
  OBVIOUS
<1>2. x \in Rows /\ y \in Rows /\ listed \subseteq Rows
  BY ListedFinite
<1>3. ASSUME NEW u \in {x, y}, NEW v \in {x, y}, Walk!Before(u, v) PROVE FALSE
  <2>1. Ahead(u) \subseteq Ahead(v)
    BY <1>2, <1>3, Ordered DEF Ahead
  <2>2. u \in Ahead(v) /\ u \notin Ahead(u)
    BY <1>2, <1>3, Ordered DEF Ahead
  <2>3. Cardinality(Ahead(v)) = Cardinality(Ahead(u))
    BY DEF Place
  <2>4. Ahead(v) = Ahead(u)
    BY <2>1, <2>3, ListedFinite, FS_Subset
  <2> QED BY <2>2, <2>4
<1> QED
  BY <1>1, <1>2, <1>3, Ordered

(* In any order the database may choose, a placed row is at its place.     *)
LEMMA AtItsPlace ==
    ASSUME Walk!TypeOK, NEW s \in Walk!Orders(listed), NEW row \in listed, Walk!Placed(row)
    PROVE  row \in Walk!PageOf(s) <=>
                (page - 1) * PageSize <= Place(row) /\ Place(row) < (page - 1) * PageSize + PageSize
<1> DEFINE n == Cardinality(listed)
<1>1. /\ n \in Nat /\ IsFiniteSet(listed) /\ listed \subseteq Rows
  BY ListedFinite, FS_CardinalityType
<1>2. /\ s \in [1 .. n -> listed]
      /\ \A i, j \in 1 .. n : i # j => s[i] # s[j]
      /\ \A i, j \in 1 .. Len(s) : Walk!Before(s[i], s[j]) => i < j
  BY SameSize DEF Walk!Orders, Walk!SetToSeqs
<1> HIDE DEF n
<1>3. Len(s) = n
  <2>1. s \in Seq(listed)
    BY <1>1, <1>2, SeqDef
  <2>2. Len(s) \in Nat /\ 1 .. Len(s) = 1 .. n
    BY <1>2, <2>1, LenProperties
  <2> QED BY <1>1, <2>2, SameInterval
<1>4. PICK i \in 1 .. n : s[i] = row
  <2>1. s \in Injection(1 .. n, listed)
    BY <1>2 DEF Injection, IsInjective
  <2>2. Cardinality(1 .. n) = Cardinality(listed)
    BY <1>1, FS_Interval DEF n
  <2>3. s \in Surjection(1 .. n, listed)
    BY <1>1, <2>1, <2>2, FS_Injection
  <2> QED BY <2>3 DEF Surjection
<1>5. Place(row) = i - 1
  <2> DEFINE front == 1 .. i - 1
             f == [j \in front |-> s[j]]
  <2>1. front \subseteq 1 .. n /\ i \notin front /\ \A j \in 1 .. n : j < i <=> j \in front
    BY <1>1
  <2>2. ASSUME NEW j \in 1 .. n
        PROVE  j \in front <=> Walk!Before(s[j], row)
    <3>1. s[j] \in Rows /\ row \in Rows /\ (j # i => s[j] # row)
      BY <1>1, <1>2, <1>4
    <3>2. Walk!Before(s[j], row) => j < i
      BY <1>2, <1>3, <1>4
    <3>3. Walk!Before(row, s[j]) => i < j
      BY <1>2, <1>3, <1>4
    <3>4. j # i => Walk!Before(s[j], row) \/ Walk!Before(row, s[j])
      BY <3>1, Ordered
    <3> QED BY <1>1, <2>1, <3>2, <3>3, <3>4
  <2> HIDE DEF front
  <2>3. f \in [front -> Ahead(row)]
    BY <1>2, <2>1, <2>2 DEF Ahead
  <2>4. \A j, k \in front : f[j] = f[k] => j = k
    BY <1>2, <2>1
  <2>5. ASSUME NEW y \in Ahead(row) PROVE \E j \in front : f[j] = y
    <3>1. y \in listed /\ Walk!Before(y, row)
      BY DEF Ahead
    <3>2. s \in Injection(1 .. n, listed)
      BY <1>2 DEF Injection, IsInjective
    <3>3. Cardinality(1 .. n) = Cardinality(listed)
      BY <1>1, FS_Interval DEF n
    <3>4. s \in Surjection(1 .. n, listed)
      BY <1>1, <3>2, <3>3, FS_Injection
    <3>5. PICK j \in 1 .. n : s[j] = y
      BY <3>1, <3>4 DEF Surjection
    <3>6. j \in front
      BY <2>2, <3>1, <3>5
    <3> QED BY <3>5, <3>6
  <2>6. f \in Bijection(front, Ahead(row))
    BY <2>3, <2>4, <2>5 DEF Bijection, Injection, Surjection, IsInjective
  <2>7. IsFiniteSet(front) /\ Cardinality(front) = i - 1
    BY <1>1, FS_Interval DEF front
  <2>8. ExistsBijection(front, Ahead(row))
    BY <2>6 DEF ExistsBijection
  <2> QED BY <2>7, <2>8, FS_Bijection DEF Place
<1>6. row \in Walk!PageOf(s) <=>
        (page - 1) * PageSize < i /\ i <= (page - 1) * PageSize + PageSize
  BY <1>2, <1>3, <1>4 DEF Walk!PageOf, Walk!paginationOffset
<1>7. (page - 1) * PageSize \in Int /\ PageSize \in Int
  BY ListConstants DEF Walk!TypeOK
<1> HIDE DEF Place
<1> QED
  BY <1>1, <1>5, <1>6, <1>7

LEMMA OneMore ==
    ASSUME NEW A, NEW B, NEW C, IsFiniteSet(A), B \subseteq A \union C, \A x, y \in C : x = y
    PROVE  Cardinality(B) \in Nat /\ Cardinality(B) <= Cardinality(A) + 1
<1>1. CASE C = {}
  <2>1. B \subseteq A
    BY <1>1
  <2> QED BY <2>1, FS_Subset, FS_CardinalityType
<1>2. CASE C # {}
  <2>1. PICK x \in C : TRUE
    BY <1>2
  <2>2. B \subseteq A \union {x}
    BY <2>1
  <2>3. /\ IsFiniteSet(A \union {x}) /\ Cardinality(A) \in Nat
        /\ Cardinality(A \union {x}) <= Cardinality(A) + 1
    BY FS_AddElement, FS_CardinalityType
  <2>4. IsFiniteSet(B) /\ Cardinality(B) <= Cardinality(A \union {x})
    BY <2>2, <2>3, FS_Subset
  <2> QED BY <2>3, <2>4, FS_CardinalityType
<1> QED
  BY <1>1, <1>2

LEMMA EdgeType ==
    ASSUME Walk!TypeOK
    PROVE  /\ page \in Nat \ {0} /\ PageSize \in Nat \ {0}
           /\ (page - 1) * PageSize \in Nat /\ page * PageSize \in Nat
           /\ page * PageSize = (page - 1) * PageSize + PageSize
           /\ Edge \in Nat
<1>1. page \in Nat \ {0} /\ PageSize \in Nat \ {0}
  BY ListConstants DEF Walk!TypeOK
<1>2. (page - 1) * PageSize \in Nat /\ page * PageSize \in Nat
  BY <1>1
<1>3. page * PageSize = (page - 1) * PageSize + PageSize
  BY <1>1
<1> QED
  BY <1>1, <1>2, <1>3 DEF Edge

LEMMA ToldFinite ==
    ASSUME Walk!TypeOK
    PROVE  /\ Missed \subseteq kept /\ Repeated \subseteq kept
           /\ IsFiniteSet(Missed) /\ IsFiniteSet(Repeated) /\ IsFiniteSet(kept)
           /\ Cardinality(Missed) \in Nat /\ Cardinality(Repeated) \in Nat
<1>1. Missed \subseteq kept /\ Repeated \subseteq kept
  BY DEF Missed, Repeated
<1>2. IsFiniteSet(kept)
  BY ListedFinite, FS_Subset
<1> QED
  BY <1>1, <1>2, FS_Subset, FS_CardinalityType

LEMMA WalkInit == Walk!Init => WalkInv
<1> SUFFICES ASSUME Walk!Init PROVE WalkInv
  OBVIOUS
<1>1. Walk!Cardinality(Rows) \in Nat
  BY ListConstants, SameSize
<1>2. Walk!TypeOK
  BY <1>1, ListConstants DEF Walk!Init, Walk!TypeOK
<1>3. Bounded
  BY ListConstants DEF Walk!Init, Bounded
<1>4. Edge = 0
  BY ListConstants DEF Walk!Init, Edge
<1>5. Missed = {}
  BY <1>2, <1>4, ListedFinite DEF Walk!Init, Missed
<1>6. Repeated = {}
  BY <1>2, ListedFinite DEF Walk!Init, Repeated
<1> QED
  BY <1>2, <1>3, <1>5, <1>6, FS_EmptySet DEF Walk!Init, WalkInv, Accounted

(* The order of the rows does not change on the way.                       *)
LEMMA OrderKept ==
    ASSUME list' = list
    PROVE  \A x, y : /\ Walk!Before(x, y)' <=> Walk!Before(x, y)
                     /\ Walk!Placed(x)' <=> Walk!Placed(x)
BY DEF Walk!Before, Walk!Placed, Walk!TieBreak

LEMMA PlaceKept ==
    ASSUME list' = list, listed' = listed
    PROVE  \A x : Place(x)' = Place(x)
<1>1. ASSUME NEW x PROVE Ahead(x)' = Ahead(x)
  BY OrderKept DEF Ahead
<1> QED
  BY <1>1 DEF Place

(* Fewer rows are missed and repeated: nothing new to account for.         *)
LEMMA AccountedKept ==
    ASSUME WalkInv, Missed' \subseteq Missed, Repeated' \subseteq Repeated,
           left' = left, entered' = entered, Walk!TypeOK'
    PROVE  Accounted'
<1>1. /\ Cardinality(Missed') <= Cardinality(Missed)
      /\ Cardinality(Repeated') <= Cardinality(Repeated)
      /\ Cardinality(Missed') \in Nat /\ Cardinality(Repeated') \in Nat
  BY ToldFinite, FS_Subset, FS_CardinalityType DEF WalkInv
<1>2. /\ Cardinality(Missed) \in Nat /\ Cardinality(Repeated) \in Nat
      /\ Cardinality(Missed) <= left /\ Cardinality(Repeated) <= entered
      /\ left \in Nat /\ entered \in Nat
  BY ToldFinite, ListConstants DEF WalkInv, Accounted, Walk!TypeOK
<1> QED
  BY <1>1, <1>2 DEF Accounted

LEMMA WalkFindMany ==
    ASSUME WalkInv, Walk!FindMany, list' = list
    PROVE  WalkInv'
<1>1. /\ next = 1 /\ next' = 2
      /\ listed' = listed /\ page' = page /\ total' = total /\ kept' = kept
      /\ entered' = entered /\ left' = left
  BY DEF Walk!FindMany, Walk!At, Walk!Statements, WalkInv, Walk!TypeOK
<1>2. PICK s \in Walk!Orders(listed) :
        shown' = [row \in Rows |-> shown[row] + IF row \in Walk!PageOf(s) THEN 1 ELSE 0]
  BY DEF Walk!FindMany
<1>t. Walk!TypeOK
  BY DEF WalkInv
<1>3. shown \in [Rows -> Nat] /\ Cardinality(Rows) \in Nat /\ kept \subseteq listed /\ listed \subseteq Rows
  BY <1>t, ListConstants, SameSize DEF Walk!TypeOK
<1>4. ASSUME NEW row \in Rows
      PROVE  /\ shown[row] \in Nat /\ shown'[row] \in Nat
             /\ row \in Walk!PageOf(s) => shown'[row] = shown[row] + 1
             /\ row \notin Walk!PageOf(s) => shown'[row] = shown[row]
             /\ shown'[row] <= page
             /\ shown'[row] \in 0 .. Cardinality(Rows)
  <2>1. shown[row] <= page - 1
    BY <1>1 DEF WalkInv, Bounded
  <2>2. page = 1 \/ page <= Cardinality(Rows)
    BY DEF WalkInv, Bounded
  <2>3. Cardinality(Rows) >= 1
    <3>1. Cardinality(Rows) # 0
      BY ListConstants, FS_EmptySet
    <3> QED BY <1>3, <3>1
  <2> QED BY <1>2, <1>3, <2>1, <2>2, <2>3, EdgeType, <1>t
<1>5. Walk!TypeOK'
  <2>1. shown' = [row \in Rows |-> shown'[row]]
    BY <1>2
  <2>2. shown' \in [Rows -> 0 .. Walk!Cardinality(Rows)]
    BY <1>4, <2>1, SameSize
  <2> QED BY <1>1, <1>t, <2>2 DEF Walk!TypeOK
<1>6. Bounded'
  BY <1>1, <1>4 DEF WalkInv, Bounded
<1>7. \A x : Place(x)' = Place(x)
  BY <1>1, PlaceKept
<1>8. Edge = (page - 1) * PageSize /\ Edge' = (page - 1) * PageSize + PageSize
  BY <1>1, <1>t, EdgeType DEF Edge
<1>9. ASSUME NEW row \in kept, Walk!Placed(row)
      PROVE  /\ Place(row) \in Nat /\ Edge \in Nat /\ Edge' \in Nat /\ Edge <= Edge'
             /\ row \in Walk!PageOf(s) <=> Edge <= Place(row) /\ Place(row) < Edge'
  <2>1. Place(row) \in Nat
    BY <1>t, ListedFinite
  <2>2. row \in Walk!PageOf(s) <=> Edge <= Place(row) /\ Place(row) < Edge'
    <3>1. row \in listed /\ s \in Walk!Orders(listed)
      BY <1>3
    <3>2. row \in Walk!PageOf(s) <=>
            (page - 1) * PageSize <= Place(row) /\ Place(row) < (page - 1) * PageSize + PageSize
      BY <1>9, <1>t, <3>1, AtItsPlace
    <3> QED BY <1>8, <3>2
  <2> QED BY <1>8, <1>t, <2>1, <2>2, EdgeType
<1>10. Missed' \subseteq Missed
  <2> SUFFICES ASSUME NEW row \in Missed' PROVE row \in Missed
    OBVIOUS
  <2>1. row \in kept /\ Walk!Placed(row) /\ shown'[row] = 0 /\ Place(row) < Edge'
    BY <1>1, <1>7, OrderKept DEF Missed
  <2>2. shown[row] = 0 /\ row \notin Walk!PageOf(s)
    BY <1>3, <1>4, <2>1
  <2>3. Place(row) < Edge
    BY <1>9, <2>1, <2>2
  <2> QED BY <2>1, <2>2, <2>3 DEF Missed
<1>11. Repeated' \subseteq Repeated
  <2> SUFFICES ASSUME NEW row \in Repeated' PROVE row \in Repeated
    OBVIOUS
  <2>1. /\ row \in kept /\ Walk!Placed(row)
        /\ shown'[row] > 1 \/ (shown'[row] = 1 /\ Place(row) >= Edge')
    BY <1>1, <1>7, OrderKept DEF Repeated
  <2>2. shown[row] > 1 \/ (shown[row] = 1 /\ Place(row) >= Edge)
    BY <1>3, <1>4, <1>9, <2>1
  <2> QED BY <2>1, <2>2 DEF Repeated
<1> QED
  BY <1>1, <1>5, <1>6, <1>10, <1>11, AccountedKept DEF WalkInv

LEMMA WalkCount ==
    ASSUME WalkInv, Walk!Count, list' = list
    PROVE  WalkInv'
<1>1. /\ next = 2 /\ next' = 3
      /\ listed' = listed /\ page' = page /\ total' = Walk!Cardinality(listed) /\ kept' = kept
      /\ shown' = shown /\ entered' = entered /\ left' = left
  BY DEF Walk!Count, Walk!At, Walk!Statements, WalkInv, Walk!TypeOK, Walk!Matching
<1>t. Walk!TypeOK
  BY DEF WalkInv
<1>2. total' = Cardinality(listed) /\ total' \in 0 .. Walk!Cardinality(Rows)
  BY <1>1, <1>t, ListedFinite, SameSize
<1>3. Walk!TypeOK'
  BY <1>1, <1>2, <1>t DEF Walk!TypeOK
<1>4. Bounded'
  BY <1>1 DEF WalkInv, Bounded
<1>5. \A x : Place(x)' = Place(x)
  BY <1>1, PlaceKept
<1>6. Edge' = Edge /\ Edge \in Nat
  BY <1>1, <1>t, EdgeType DEF Edge
<1>7. ASSUME NEW row \in kept PROVE Place(row) \in Nat /\ Place(row) < Cardinality(listed)
  <2>1. row \in listed /\ row \in Rows /\ row \notin Ahead(row)
    BY <1>t, ListedFinite, Ordered DEF Ahead
  <2>2. Place(row) <= Cardinality(listed) /\ Place(row) # Cardinality(listed)
    BY <1>t, <2>1, ListedFinite, FS_Subset DEF Place
  <2> QED BY <1>t, <2>2, ListedFinite
<1>8. Missed' \subseteq Missed
  <2> SUFFICES ASSUME NEW row \in Missed' PROVE row \in Missed
    OBVIOUS
  <2>1. /\ row \in kept /\ Walk!Placed(row) /\ shown[row] = 0
        /\ Place(row) < Edge \/ total' <= Edge
    BY <1>1, <1>5, <1>6, OrderKept DEF Missed
  <2>2. Place(row) < Edge
    BY <1>2, <1>6, <1>7, <1>t, <2>1, ListedFinite
  <2> QED BY <2>1, <2>2 DEF Missed
<1>9. Repeated' \subseteq Repeated
  BY <1>1, <1>5, <1>6, OrderKept DEF Repeated
<1> QED
  BY <1>1, <1>3, <1>4, <1>8, <1>9, AccountedKept DEF WalkInv

LEMMA WalkTurn ==
    ASSUME WalkInv, Walk!Turn, list' = list
    PROVE  WalkInv'
<1>1. /\ next = 3 /\ listed' = listed /\ total' = total /\ kept' = kept
      /\ shown' = shown /\ entered' = entered /\ left' = left
      /\ \/ page * PageSize < total /\ page' = page + 1 /\ next' = 1
         \/ page * PageSize >= total /\ next' = 4 /\ page' = page
  BY DEF Walk!Turn
<1>t. Walk!TypeOK
  BY DEF WalkInv
<1>2. total \in 0 .. Cardinality(Rows) /\ Cardinality(Rows) \in Nat
  BY <1>t, ListConstants, SameSize DEF Walk!TypeOK
<1>3. page <= page * PageSize /\ (page + 1 - 1) * PageSize = page * PageSize
  <2>1. (page - 1) * 1 <= (page - 1) * PageSize
    BY <1>t, EdgeType
  <2> QED BY <1>t, <2>1, EdgeType
<1>4. page' = page \/ (page' = page + 1 /\ page + 1 <= Cardinality(Rows))
  BY <1>1, <1>2, <1>3, <1>t, EdgeType
<1>5. Walk!TypeOK'
  <2>1. page' \in 1 .. Walk!Cardinality(Rows) + 1
    BY <1>2, <1>4, <1>t, EdgeType, SameSize DEF Walk!TypeOK
  <2> QED BY <1>1, <1>t, <2>1 DEF Walk!TypeOK
<1>6. Edge = page * PageSize /\ Edge' = Edge /\ Edge \in Nat
  BY <1>1, <1>3, <1>t, EdgeType DEF Edge
<1>7. Bounded'
  <2>1. page' = 1 \/ page' <= Cardinality(Rows)
    BY <1>4 DEF WalkInv, Bounded
  <2>2. \A row \in Rows : shown'[row] <= IF next' = 1 THEN page' - 1 ELSE page'
    <3>1. \A row \in Rows : shown[row] <= page
      BY <1>1 DEF WalkInv, Bounded
    <3>2. page = IF next' = 1 THEN page' - 1 ELSE page'
      BY <1>1, <1>t, EdgeType
    <3> QED BY <1>1, <3>1, <3>2
  <2>3. next' = 4 => total' <= Edge'
    BY <1>1, <1>2, <1>6
  <2> QED BY <1>1, <2>1, <2>2, <2>3 DEF WalkInv, Bounded
<1>8. \A x : Place(x)' = Place(x)
  BY <1>1, PlaceKept
<1>9. Missed' \subseteq Missed
  BY <1>1, <1>6, <1>8, OrderKept DEF Missed
<1>10. Repeated' \subseteq Repeated
  BY <1>1, <1>6, <1>8, OrderKept DEF Repeated
<1> QED
  BY <1>1, <1>5, <1>7, <1>9, <1>10, AccountedKept DEF WalkInv

(* A row that comes in moves a row's place by at most one.                 *)
LEMMA PlaceEnter ==
    ASSUME Walk!TypeOK, NEW come \in Rows, list' = list, listed' = listed \union {come}
    PROVE  \A x : /\ Place(x) \in Nat /\ Place(x)' \in Nat
                  /\ Place(x) <= Place(x)' /\ Place(x)' <= Place(x) + 1
<1> SUFFICES ASSUME NEW x
             PROVE  /\ Place(x) \in Nat /\ Place(x)' \in Nat
                    /\ Place(x) <= Place(x)' /\ Place(x)' <= Place(x) + 1
  OBVIOUS
<1>1. Ahead(x) \subseteq Ahead(x)' /\ Ahead(x)' \subseteq Ahead(x) \union {come}
  BY OrderKept DEF Ahead
<1>2. IsFiniteSet(Ahead(x)) /\ Cardinality(Ahead(x)) \in Nat
  BY ListedFinite, FS_CardinalityType
<1>3. /\ Cardinality(Ahead(x)') \in Nat
      /\ Cardinality(Ahead(x)') <= Cardinality(Ahead(x)) + 1
  BY <1>1, <1>2, OneMore
<1>4. IsFiniteSet(Ahead(x)')
  <2>1. IsFiniteSet(Ahead(x) \union {come})
    BY <1>2, FS_AddElement
  <2> QED BY <1>1, <2>1, FS_Subset
<1>5. Cardinality(Ahead(x)) <= Cardinality(Ahead(x)')
  BY <1>1, <1>4, FS_Subset
<1> QED
  BY <1>2, <1>3, <1>5 DEF Place

LEMMA PlaceLeave ==
    ASSUME Walk!TypeOK, NEW gone \in Rows, list' = list, listed' = listed \ {gone}
    PROVE  \A x : /\ Place(x) \in Nat /\ Place(x)' \in Nat
                  /\ Place(x)' <= Place(x) /\ Place(x) <= Place(x)' + 1
<1> SUFFICES ASSUME NEW x
             PROVE  /\ Place(x) \in Nat /\ Place(x)' \in Nat
                    /\ Place(x)' <= Place(x) /\ Place(x) <= Place(x)' + 1
  OBVIOUS
<1>1. Ahead(x)' \subseteq Ahead(x) /\ Ahead(x) \subseteq Ahead(x)' \union {gone}
  BY OrderKept DEF Ahead
<1>2. IsFiniteSet(Ahead(x)) /\ Cardinality(Ahead(x)) \in Nat
  BY ListedFinite, FS_CardinalityType
<1>3. /\ IsFiniteSet(Ahead(x)') /\ Cardinality(Ahead(x)') \in Nat
      /\ Cardinality(Ahead(x)') <= Cardinality(Ahead(x))
  BY <1>1, <1>2, FS_Subset, FS_CardinalityType
<1>4. Cardinality(Ahead(x)) <= Cardinality(Ahead(x)') + 1
  BY <1>1, <1>3, OneMore
<1> QED
  BY <1>2, <1>3, <1>4 DEF Place

(* The placed rows at one place.                                           *)
LEMMA AtOnce ==
    ASSUME Walk!TypeOK, NEW place
    PROVE  \A x, y \in {row \in kept : Walk!Placed(row) /\ Place(row) = place} : x = y
BY ListedFinite, OnePlace

LEMMA WalkEnter ==
    ASSUME WalkInv, NEW come \in Rows, Walk!Enter(come), list' = list
    PROVE  WalkInv'
<1>1. /\ entered + left < MaxChanges /\ listed' = listed \union {come} /\ entered' = entered + 1
      /\ page' = page /\ next' = next /\ total' = total /\ shown' = shown
      /\ kept' = kept /\ left' = left
  BY DEF Walk!Enter
<1>t. Walk!TypeOK
  BY DEF WalkInv
<1>2. entered \in Nat /\ left \in Nat /\ MaxChanges \in Nat
  BY <1>t, ListConstants DEF Walk!TypeOK
<1>3. Walk!TypeOK'
  <2>1. entered' \in 0 .. MaxChanges
    BY <1>1, <1>2
  <2> QED BY <1>1, <1>t, <2>1 DEF Walk!TypeOK
<1>4. Edge' = Edge /\ Edge \in Nat
  BY <1>1, <1>t, EdgeType DEF Edge
<1>5. Bounded'
  <2>1. entered' + left' <= MaxChanges
    BY <1>1, <1>2
  <2> QED BY <1>1, <1>4, <2>1 DEF WalkInv, Bounded
<1>6. Missed' \subseteq Missed
  <2> SUFFICES ASSUME NEW row \in Missed' PROVE row \in Missed
    OBVIOUS
  <2>1. /\ row \in kept /\ Walk!Placed(row) /\ shown[row] = 0
        /\ Place(row)' < Edge \/ (next >= 3 /\ total <= Edge)
    BY <1>1, <1>4, OrderKept DEF Missed
  <2>2. Place(row)' < Edge => Place(row) < Edge
    BY <1>1, <1>4, <1>t, PlaceEnter
  <2> QED BY <2>1, <2>2 DEF Missed
<1> DEFINE Pushed == {row \in kept : Walk!Placed(row) /\ Place(row) = Edge - 1}
<1>7. Repeated' \subseteq Repeated \union Pushed
  <2> SUFFICES ASSUME NEW row \in Repeated', row \notin Repeated PROVE row \in Pushed
    OBVIOUS
  <2>1. /\ row \in kept /\ Walk!Placed(row)
        /\ shown[row] > 1 \/ (shown[row] = 1 /\ Place(row)' >= Edge)
    BY <1>1, <1>4, OrderKept DEF Repeated
  <2>2. Place(row)' >= Edge /\ ~ (Place(row) >= Edge)
    BY <2>1 DEF Repeated
  <2>3. Place(row) = Edge - 1
    <3>1. /\ Place(row) \in Nat /\ Place(row)' \in Nat
          /\ Place(row) <= Place(row)' /\ Place(row)' <= Place(row) + 1
      BY <1>1, <1>t, PlaceEnter
    <3> QED BY <1>4, <2>2, <3>1
  <2> QED BY <2>1, <2>3
<1>8. \A x, y \in Pushed : x = y
  BY <1>t, AtOnce
<1> HIDE DEF Pushed
<1>9. /\ Cardinality(Repeated') \in Nat
      /\ Cardinality(Repeated') <= Cardinality(Repeated) + 1
  BY <1>7, <1>8, <1>t, ToldFinite, OneMore
<1>10. /\ Cardinality(Missed') \in Nat
       /\ Cardinality(Missed') <= Cardinality(Missed)
  BY <1>6, <1>t, ToldFinite, FS_Subset, FS_CardinalityType
<1>11. /\ Cardinality(Missed) \in Nat /\ Cardinality(Repeated) \in Nat
       /\ Cardinality(Missed) <= left /\ Cardinality(Repeated) <= entered
  BY <1>t, ToldFinite DEF WalkInv, Accounted
<1>12. Accounted'
  BY <1>1, <1>2, <1>9, <1>10, <1>11 DEF Accounted
<1> QED
  BY <1>3, <1>5, <1>12 DEF WalkInv

LEMMA WalkLeave ==
    ASSUME WalkInv, NEW gone \in Rows, Walk!Leave(gone), list' = list
    PROVE  WalkInv'
<1>1. /\ entered + left < MaxChanges /\ listed' = listed \ {gone} /\ left' = left + 1
      /\ page' = page /\ next' = next /\ total' = total /\ shown' = shown
      /\ kept' = kept \ {gone} /\ entered' = entered
  BY DEF Walk!Leave
<1>t. Walk!TypeOK
  BY DEF WalkInv
<1>2. entered \in Nat /\ left \in Nat /\ MaxChanges \in Nat
  BY <1>t, ListConstants DEF Walk!TypeOK
<1>3. Walk!TypeOK'
  <2>1. left' \in 0 .. MaxChanges
    BY <1>1, <1>2
  <2> QED BY <1>1, <1>t, <2>1 DEF Walk!TypeOK
<1>4. Edge' = Edge /\ Edge \in Nat
  BY <1>1, <1>t, EdgeType DEF Edge
<1>5. Bounded'
  <2>1. entered' + left' <= MaxChanges
    BY <1>1, <1>2
  <2> QED BY <1>1, <1>4, <2>1 DEF WalkInv, Bounded
<1>6. Repeated' \subseteq Repeated
  <2> SUFFICES ASSUME NEW row \in Repeated' PROVE row \in Repeated
    OBVIOUS
  <2>1. /\ row \in kept /\ Walk!Placed(row)
        /\ shown[row] > 1 \/ (shown[row] = 1 /\ Place(row)' >= Edge)
    BY <1>1, <1>4, OrderKept DEF Repeated
  <2>2. Place(row)' >= Edge => Place(row) >= Edge
    BY <1>1, <1>4, <1>t, PlaceLeave
  <2> QED BY <2>1, <2>2 DEF Repeated
<1> DEFINE Pulled == {row \in kept : Walk!Placed(row) /\ Place(row) = Edge}
<1>7. Missed' \subseteq Missed \union Pulled
  <2> SUFFICES ASSUME NEW row \in Missed', row \notin Missed PROVE row \in Pulled
    OBVIOUS
  <2>1. /\ row \in kept /\ Walk!Placed(row) /\ shown[row] = 0
        /\ Place(row)' < Edge \/ (next >= 3 /\ total <= Edge)
    BY <1>1, <1>4, OrderKept DEF Missed
  <2>2. Place(row)' < Edge /\ ~ (Place(row) < Edge)
    BY <2>1 DEF Missed
  <2>3. Place(row) = Edge
    <3>1. /\ Place(row) \in Nat /\ Place(row)' \in Nat
          /\ Place(row)' <= Place(row) /\ Place(row) <= Place(row)' + 1
      BY <1>1, <1>t, PlaceLeave
    <3> QED BY <1>4, <2>2, <3>1
  <2> QED BY <2>1, <2>3
<1>8. \A x, y \in Pulled : x = y
  BY <1>t, AtOnce
<1> HIDE DEF Pulled
<1>9. /\ Cardinality(Missed') \in Nat
      /\ Cardinality(Missed') <= Cardinality(Missed) + 1
  BY <1>7, <1>8, <1>t, ToldFinite, OneMore
<1>10. /\ Cardinality(Repeated') \in Nat
       /\ Cardinality(Repeated') <= Cardinality(Repeated)
  BY <1>6, <1>t, ToldFinite, FS_Subset, FS_CardinalityType
<1>11. /\ Cardinality(Missed) \in Nat /\ Cardinality(Repeated) \in Nat
       /\ Cardinality(Missed) <= left /\ Cardinality(Repeated) <= entered
  BY <1>t, ToldFinite DEF WalkInv, Accounted
<1>12. Accounted'
  BY <1>1, <1>2, <1>9, <1>10, <1>11 DEF Accounted
<1> QED
  BY <1>3, <1>5, <1>12 DEF WalkInv

LEMMA WalkNext == WalkInv /\ [Walk!Next]_(Walk!vars) => WalkInv'
<1> SUFFICES ASSUME WalkInv, [Walk!Next]_(Walk!vars) PROVE WalkInv'
  OBVIOUS
<1>1. ASSUME NEW row \in Rows, Walk!Enter(row) \/ Walk!Leave(row), list' = list PROVE WalkInv'
  BY <1>1, WalkEnter, WalkLeave
<1>2. CASE Walk!FindMany /\ list' = list
  BY <1>2, WalkFindMany
<1>3. CASE Walk!Count /\ list' = list
  BY <1>3, WalkCount
<1>4. CASE Walk!Turn /\ list' = list
  BY <1>4, WalkTurn
<1>5. CASE UNCHANGED Walk!vars
  <2>1. /\ list' = list /\ listed' = listed /\ page' = page /\ next' = next /\ total' = total
        /\ shown' = shown /\ kept' = kept /\ entered' = entered /\ left' = left
    BY <1>5 DEF Walk!vars
  <2>2. Walk!TypeOK'
    BY <2>1 DEF WalkInv, Walk!TypeOK
  <2>3. Edge' = Edge
    BY <2>1 DEF Edge
  <2>4. Bounded'
    BY <2>1, <2>3 DEF WalkInv, Bounded
  <2>5. Missed' \subseteq Missed /\ Repeated' \subseteq Repeated
    BY <2>1, <2>3, OrderKept, PlaceKept DEF Missed, Repeated
  <2> QED BY <2>1, <2>2, <2>4, <2>5, AccountedKept DEF WalkInv
<1> QED
  BY <1>1, <1>2, <1>3, <1>4, <1>5 DEF Walk!Next

(* At the end of the walk every row lies before the edge.                  *)
LEMMA WalkOver == WalkInv => Walk!WalkAccounted
<1> SUFFICES ASSUME WalkInv PROVE Walk!WalkAccounted
  OBVIOUS
<1>t. Walk!TypeOK /\ left \in Nat /\ entered \in Nat
  BY ListConstants DEF WalkInv, Walk!TypeOK
<1>1. Walk!MissedAccounted
  <2> DEFINE Unseen == {row \in kept : Walk!Placed(row) /\ shown[row] = 0}
  <2>1. next = 4 => Unseen = Missed
    BY DEF WalkInv, Bounded, Missed
  <2> HIDE DEF Unseen
  <2>2. next = 4 => Walk!Cardinality(Unseen) <= left
    BY <2>1, SameSize DEF WalkInv, Accounted
  <2> QED BY <2>2 DEF Unseen, Walk!MissedAccounted
<1>2. Walk!RepeatsAccounted
  <2> DEFINE Twice == {row \in kept : Walk!Placed(row) /\ shown[row] > 1}
  <2>1. Twice \subseteq Repeated
    BY DEF Repeated
  <2> HIDE DEF Twice
  <2>2. Cardinality(Twice) <= Cardinality(Repeated) /\ Cardinality(Twice) \in Nat
    BY <1>t, <2>1, ToldFinite, FS_Subset, FS_CardinalityType
  <2>3. Walk!Cardinality(Twice) <= entered
    BY <1>t, <2>2, ToldFinite, SameSize DEF WalkInv, Accounted
  <2> QED BY <2>3 DEF Twice, Walk!RepeatsAccounted
<1> QED
  BY <1>1, <1>2 DEF Walk!WalkAccounted

(***************************************************************************)
(* AppConfiguration.  A service that runs is past every check, and one     *)
(* that was stopped failed the check its error names.                      *)
(***************************************************************************)
ConfigInv ==
    /\ environment \in Environments
    /\ Config!Running =>
        /\ configuration = Config!Configuration(environment)
        /\ \A n \in DOMAIN Config!Order : Config!Passes(environment, Config!Order[n])
    /\ failed # "none" =>
        \E n \in DOMAIN Config!Order :
            failed = Config!Order[n] /\ ~ Config!Passes(environment, failed)

LEMMA ConfigInit == Config!Init => ConfigInv
BY DEF Config!Init, ConfigInv, Config!Running

LEMMA ConfigNext == ConfigInv /\ [Config!Next]_(Config!vars) => ConfigInv'
<1> SUFFICES ASSUME ConfigInv, [Config!Next]_(Config!vars) PROVE ConfigInv'
  OBVIOUS
<1> DEFINE Passed(e, name) == Config!Passes(e, name)
           Made(e) == Config!Configuration(e)
           order == Config!Order
<1>0. /\ environment \in Environments
      /\ configuration # None =>
          /\ configuration = Made(environment)
          /\ \A n \in DOMAIN order : Passed(environment, order[n])
      /\ failed # "none" =>
          \E n \in DOMAIN order : failed = order[n] /\ ~ Passed(environment, failed)
  BY DEF ConfigInv, Config!Running
<1>1. \/ /\ environment' = environment /\ configuration' = configuration /\ failed' = failed
      \/ /\ environment' = environment /\ failed' = failed
         /\ configuration' = Made(environment)
         /\ \A n \in DOMAIN order : Passed(environment, order[n])
      \/ /\ environment' = environment /\ configuration' = configuration
         /\ \E n \in DOMAIN order : failed' = order[n] /\ ~ Passed(environment, order[n])
  BY DEF Config!Next, Config!Start, Config!vars
<1> HIDE DEF Passed, Made, order
<1>2. /\ environment' \in Environments
      /\ configuration' # None =>
          /\ configuration' = Made(environment')
          /\ \A n \in DOMAIN order : Passed(environment', order[n])
      /\ failed' # "none" =>
          \E n \in DOMAIN order : failed' = order[n] /\ ~ Passed(environment', failed')
  BY <1>0, <1>1
<1> QED
  BY <1>2 DEF ConfigInv, Config!Running, Passed, Made, order

(* The variables the checks are about.                                     *)
CheckedNames ==
    {"CORS_ORIGINS", "SESSION_TOKEN_PEPPER", "FRONTEND_ORIGIN", "DATABASE_URL",
     "TAX_RATE_BASIS_POINTS"} \union Config!Numeric

LEMMA ChecksOf ==
    /\ \A n \in DOMAIN Config!Order : Config!Order[n] \in CheckedNames
    /\ \A name \in CheckedNames : \E n \in DOMAIN Config!Order : Config!Order[n] = name
<1>1. DOMAIN Config!Order = 1 .. 9
  BY DEF Config!Order
<1>2. /\ Config!Order[1] = "CORS_ORIGINS" /\ Config!Order[2] = "SESSION_TOKEN_PEPPER"
      /\ Config!Order[3] = "FRONTEND_ORIGIN" /\ Config!Order[4] = "DATABASE_URL"
      /\ Config!Order[5] = "LOGIN_RATE_LIMIT_MAX"
      /\ Config!Order[6] = "LOGIN_RATE_LIMIT_WINDOW_SECONDS" /\ Config!Order[7] = "PORT"
      /\ Config!Order[8] = "SESSION_DURATION_HOURS" /\ Config!Order[9] = "TAX_RATE_BASIS_POINTS"
  BY DEF Config!Order
<1>3. 1 .. 9 = {1, 2, 3, 4, 5, 6, 7, 8, 9}
  OBVIOUS
<1>4. ASSUME NEW n \in 1 .. 9 PROVE Config!Order[n] \in CheckedNames
  BY <1>2, <1>3 DEF CheckedNames, Config!Numeric
<1>5. ASSUME NEW name \in CheckedNames PROVE \E n \in 1 .. 9 : Config!Order[n] = name
  BY <1>2, <1>3 DEF CheckedNames, Config!Numeric
<1> QED
  BY <1>1, <1>4, <1>5

(* What each check lets pass.                                              *)
LEMMA PassesOrigins ==
    ASSUME NEW e
    PROVE  Config!Passes(e, "CORS_ORIGINS") <=>
                Config!corsOrigins(e) # {} /\ Config!corsOrigins(e) \subseteq Parsable
BY DEF Config!Passes, Config!AllParsable, Config!Numeric

LEMMA PassesFrontend ==
    ASSUME NEW e
    PROVE  Config!Passes(e, "FRONTEND_ORIGIN") <=>
                Config!frontendOrigin(e) # {} /\ Config!frontendOrigin(e) \subseteq Parsable
BY DEF Config!Passes, Config!Numeric

LEMMA PassesPepper ==
    ASSUME NEW e
    PROVE  Config!Passes(e, "SESSION_TOKEN_PEPPER") <=>
                (Config!isProduction(e) => Config!sessionTokenPepper(e) = "long")
BY DEF Config!Passes, Config!Numeric

LEMMA PassesDatabase ==
    ASSUME NEW e
    PROVE  Config!Passes(e, "DATABASE_URL") <=> Config!databaseUrl(e) = "postgresql:"
BY DEF Config!Passes, Config!Numeric

LEMMA PassesNumber ==
    ASSUME NEW e, NEW name \in Config!Numeric
    PROVE  Config!Passes(e, name) <=>
                Config!Positive(Config!positiveInteger(e[name], Config!Default[name]))
BY DEF Config!Passes, Config!Numeric

LEMMA PassesRate ==
    ASSUME NEW e
    PROVE  Config!Passes(e, "TAX_RATE_BASIS_POINTS") <=> Config!RateInRange(e)
BY DEF Config!Passes, Config!Numeric

(* What it means that a variable is set wrongly.                           *)
LEMMA WrongOrigins ==
    ASSUME NEW e
    PROVE  Config!Wrong(e, "CORS_ORIGINS") <=>
                \/ /\ e["CORS_ORIGINS"] # Unset
                   /\ e["CORS_ORIGINS"] = {} \/ ~ e["CORS_ORIGINS"] \subseteq Origins
                \/ /\ e["CORS_ORIGINS"] = Unset /\ e["FRONTEND_ORIGIN"] # Unset
                   /\ e["FRONTEND_ORIGIN"] = {} \/ ~ e["FRONTEND_ORIGIN"] \subseteq Origins
BY DEF Config!Wrong, Config!Numeric

LEMMA WrongFrontend ==
    ASSUME NEW e
    PROVE  Config!Wrong(e, "FRONTEND_ORIGIN") <=>
                /\ e["FRONTEND_ORIGIN"] # Unset
                /\ e["FRONTEND_ORIGIN"] = {} \/ ~ e["FRONTEND_ORIGIN"] \subseteq Origins
BY DEF Config!Wrong, Config!Numeric

LEMMA WrongPepper ==
    ASSUME NEW e, Config!isProduction(e), e["SESSION_TOKEN_PEPPER"] = "short"
    PROVE  Config!Wrong(e, "SESSION_TOKEN_PEPPER")
BY DEF Config!Wrong, Config!Numeric

LEMMA WrongDatabase ==
    ASSUME NEW e, e["DATABASE_URL"] # "postgresql:",
           Config!isProduction(e) \/ e["DATABASE_URL"] # Unset
    PROVE  Config!Wrong(e, "DATABASE_URL")
BY DEF Config!Wrong, Config!Numeric

LEMMA WrongNumber ==
    ASSUME NEW e, NEW name \in Config!Numeric, e[name] # Unset,
           ~ (e[name] \in Decimals /\ AsNumber[e[name]] \in Nat \ {0})
    PROVE  Config!Wrong(e, name)
BY DEF Config!Wrong, Config!Numeric

LEMMA WrongRate ==
    ASSUME NEW e, e["TAX_RATE_BASIS_POINTS"] # Unset,
           AsNumber[e["TAX_RATE_BASIS_POINTS"]] \notin 0 .. Config!FullRate
    PROVE  Config!Wrong(e, "TAX_RATE_BASIS_POINTS")
BY DEF Config!Wrong, Config!Numeric

(* How the numbers are read.                                               *)
LEMMA NumbersRead ==
    ASSUME NEW e \in Environments, NEW name \in Config!Numeric
    PROVE  /\ Config!Positive(Config!positiveInteger(e[name], Config!Default[name])) =>
                Config!positiveInteger(e[name], Config!Default[name]) \in Nat \ {0}
           /\ Config!Wrong(e, name) \/
                Config!Positive(Config!positiveInteger(e[name], Config!Default[name]))
<1>1. Config!Default[name] \in Nat \ {0}
  BY DEF Config!Default, Config!Numeric
<1>2. /\ e[name] = Unset \/ e[name] \in Numbers
      /\ ParseInt \in [Numbers -> Int \union {NaN}] /\ NaN \notin Int
      /\ \A text \in Decimals : text \in Numbers /\ ParseInt[text] = AsNumber[text]
  BY PartsAssumption DEF Config!EnvironmentsAssumption, Config!TextsAssumption
<1>3. Config!positiveInteger(e[name], Config!Default[name]) \in Int \union {NaN}
  BY <1>1, <1>2 DEF Config!positiveInteger
<1>4. Config!Positive(Config!positiveInteger(e[name], Config!Default[name])) =>
        Config!positiveInteger(e[name], Config!Default[name]) \in Nat \ {0}
  BY <1>3 DEF Config!Positive
<1>5. ASSUME ~ Config!Wrong(e, name)
      PROVE  Config!Positive(Config!positiveInteger(e[name], Config!Default[name]))
  <2>1. e[name] = Unset \/ (e[name] \in Decimals /\ AsNumber[e[name]] \in Nat \ {0})
    BY <1>5, WrongNumber
  <2>2. Config!positiveInteger(e[name], Config!Default[name]) \in Nat \ {0}
    BY <1>1, <1>2, <2>1 DEF Config!positiveInteger
  <2> QED BY <1>2, <2>2 DEF Config!Positive
<1> QED
  BY <1>4, <1>5

LEMMA RateRead ==
    ASSUME NEW e \in Environments
    PROVE  /\ Config!RateInRange(e) =>
                Config!taxRateBasisPoints(e["TAX_RATE_BASIS_POINTS"]) \in 0 .. Config!FullRate
           /\ Config!Wrong(e, "TAX_RATE_BASIS_POINTS") \/ Config!RateInRange(e)
<1> DEFINE text == e["TAX_RATE_BASIS_POINTS"]
           read == Config!taxRateBasisPoints(text)
<1>1. /\ text = Unset \/ text \in Numbers
      /\ AsNumber \in [Numbers -> Int \union {NaN}] /\ NaN \notin Int
  BY PartsAssumption DEF Config!EnvironmentsAssumption, Config!TextsAssumption
<1>2. read = IF text = Unset THEN 1100 ELSE AsNumber[text]
  BY DEF Config!taxRateBasisPoints
<1>3. Config!RateInRange(e) <=> read # NaN /\ read >= 0 /\ read <= Config!FullRate
  BY DEF Config!RateInRange
<1>4. text # Unset /\ AsNumber[text] \notin 0 .. Config!FullRate => Config!Wrong(e, "TAX_RATE_BASIS_POINTS")
  BY WrongRate
<1> HIDE DEF text, read
<1>r. 1100 \in 0 .. Config!FullRate /\ Config!FullRate \in Nat
  BY DEF Config!FullRate
<1>5. Config!RateInRange(e) => read \in 0 .. Config!FullRate
  BY <1>1, <1>2, <1>3, <1>r
<1>6. Config!Wrong(e, "TAX_RATE_BASIS_POINTS") \/ Config!RateInRange(e)
  BY <1>1, <1>2, <1>3, <1>4, <1>r
<1> QED
  BY <1>5, <1>6 DEF text, read

LEMMA AddressesRead ==
    ASSUME NEW e
    PROVE  /\ Config!Wrong(e, "CORS_ORIGINS") \/ Config!Passes(e, "CORS_ORIGINS")
           /\ Config!Wrong(e, "FRONTEND_ORIGIN") \/ Config!Passes(e, "FRONTEND_ORIGIN")
<1>1. Origins \subseteq Parsable /\ "http://localhost:3000" \in Origins
  BY PartsAssumption DEF Config!TextsAssumption
<1>2. Config!frontendOrigin(e) =
        IF e["FRONTEND_ORIGIN"] = Unset THEN {"http://localhost:3000"} ELSE e["FRONTEND_ORIGIN"]
  BY DEF Config!frontendOrigin, Config!Or
<1>3. Config!corsOrigins(e) =
        IF e["CORS_ORIGINS"] = Unset THEN Config!frontendOrigin(e) ELSE e["CORS_ORIGINS"]
  BY DEF Config!corsOrigins, Config!Or
<1>4. Config!Wrong(e, "CORS_ORIGINS") \/ Config!Passes(e, "CORS_ORIGINS")
  BY <1>1, <1>2, <1>3, PassesOrigins, WrongOrigins
<1>5. Config!Wrong(e, "FRONTEND_ORIGIN") \/ Config!Passes(e, "FRONTEND_ORIGIN")
  BY <1>1, <1>2, PassesFrontend, WrongFrontend
<1> QED
  BY <1>4, <1>5

(* What does not pass a check is set wrongly.                              *)
LEMMA WrongOnly ==
    ASSUME NEW e \in Environments, NEW name \in CheckedNames, ~ Config!Passes(e, name)
    PROVE  Config!Wrong(e, name)
<1>1. CASE name \in {"CORS_ORIGINS", "FRONTEND_ORIGIN"}
  BY <1>1, AddressesRead
<1>2. CASE name = "SESSION_TOKEN_PEPPER"
  <2>1. e["SESSION_TOKEN_PEPPER"] \in {Unset, "short", "long"}
    BY PartsAssumption DEF Config!EnvironmentsAssumption
  <2>2. Config!isProduction(e) /\ Config!sessionTokenPepper(e) # "long"
    BY <1>2, PassesPepper
  <2>3. e["SESSION_TOKEN_PEPPER"] = "short"
    BY <2>1, <2>2 DEF Config!sessionTokenPepper, Config!Or
  <2> QED BY <1>2, <2>2, <2>3, WrongPepper
<1>3. CASE name = "DATABASE_URL"
  <2>1. Unset # "postgresql:"
    BY PartsAssumption DEF Config!TextsAssumption
  <2>2. Config!databaseUrl(e) # "postgresql:"
    BY <1>3, PassesDatabase
  <2>3. /\ e["DATABASE_URL"] # "postgresql:"
        /\ Config!isProduction(e) \/ e["DATABASE_URL"] # Unset
    BY <2>1, <2>2 DEF Config!databaseUrl, Config!Or
  <2> QED BY <1>3, <2>3, WrongDatabase
<1>4. CASE name \in Config!Numeric
  BY <1>4, PassesNumber, NumbersRead
<1>5. CASE name = "TAX_RATE_BASIS_POINTS"
  BY <1>5, PassesRate, RateRead
<1> QED
  BY <1>1, <1>2, <1>3, <1>4, <1>5 DEF CheckedNames

LEMMA ConfigFits == ConfigInv => Config!FitsTheService
<1> SUFFICES ASSUME ConfigInv, Config!Running PROVE Config!FitsTheService
  BY DEF Config!FitsTheService
<1> DEFINE e == environment
           number(name, default) == Config!positiveInteger(e[name], default)
<1>1. /\ e \in Environments /\ configuration = Config!Configuration(e)
      /\ \A name \in CheckedNames : Config!Passes(e, name)
  BY ChecksOf DEF ConfigInv
<1>2. /\ configuration.corsOrigins = Config!corsOrigins(e)
      /\ configuration.loginRateLimitMax = number("LOGIN_RATE_LIMIT_MAX", 5)
      /\ configuration.loginRateLimitWindowMs = number("LOGIN_RATE_LIMIT_WINDOW_SECONDS", 60) * 1000
      /\ configuration.port = number("PORT", 8000)
      /\ configuration.sessionDurationMs = number("SESSION_DURATION_HOURS", 168) * 60 * 60 * 1000
      /\ configuration.sessionTokenPepper = Config!sessionTokenPepper(e)
      /\ configuration.isProduction = Config!isProduction(e)
      /\ configuration.taxRateBasisPoints = Config!taxRateBasisPoints(e["TAX_RATE_BASIS_POINTS"])
  BY <1>1 DEF Config!Configuration
<1>3. \A name \in Config!Numeric : number(name, Config!Default[name]) \in Nat \ {0}
  BY <1>1, NumbersRead, PassesNumber DEF CheckedNames
<1>4. /\ Config!Default["LOGIN_RATE_LIMIT_MAX"] = 5
      /\ Config!Default["LOGIN_RATE_LIMIT_WINDOW_SECONDS"] = 60
      /\ Config!Default["PORT"] = 8000 /\ Config!Default["SESSION_DURATION_HOURS"] = 168
  BY DEF Config!Default
<1> HIDE DEF number
<1>5. /\ number("LOGIN_RATE_LIMIT_MAX", 5) \in Nat \ {0}
      /\ number("LOGIN_RATE_LIMIT_WINDOW_SECONDS", 60) \in Nat \ {0}
      /\ number("PORT", 8000) \in Nat \ {0}
      /\ number("SESSION_DURATION_HOURS", 168) \in Nat \ {0}
  BY <1>3, <1>4 DEF Config!Numeric
<1>6. /\ configuration.loginRateLimitMax \in Nat \ {0}
      /\ configuration.loginRateLimitWindowMs \in Nat /\ configuration.loginRateLimitWindowMs >= 1000
      /\ configuration.sessionDurationMs \in Nat /\ configuration.sessionDurationMs >= 3600000
      /\ configuration.port \in Nat \ {0}
  BY <1>2, <1>5
<1>7. configuration.taxRateBasisPoints \in 0 .. Config!FullRate
  BY <1>1, <1>2, PassesRate, RateRead DEF CheckedNames
<1>8. configuration.corsOrigins # {} /\ configuration.corsOrigins \subseteq Parsable
  BY <1>1, <1>2, PassesOrigins DEF CheckedNames
<1>9. configuration.isProduction => configuration.sessionTokenPepper = "long"
  <2>0. configuration.isProduction = Config!isProduction(e)
    BY <1>1 DEF Config!Configuration
  <2>1. configuration.isProduction <=> Config!isProduction(e)
    BY <2>0
  <2>2. Config!isProduction(e) => Config!sessionTokenPepper(e) = "long"
    BY <1>1, PassesPepper DEF CheckedNames
  <2>3. configuration.sessionTokenPepper = Config!sessionTokenPepper(e)
    BY <1>2
  <2> QED BY <2>1, <2>2, <2>3
<1> QED
  BY <1>6, <1>7, <1>8, <1>9 DEF Config!FitsTheService

LEMMA ConfigStarts == ConfigInv => Config!StartsForCause
<1> SUFFICES ASSUME ConfigInv PROVE Config!StartsForCause
  OBVIOUS
<1>1. ASSUME failed # "none" PROVE Config!Wrong(environment, failed)
  <2>1. /\ environment \in Environments /\ failed \in CheckedNames
        /\ ~ Config!Passes(environment, failed)
    BY <1>1, ChecksOf DEF ConfigInv
  <2> QED BY <2>1, WrongOnly
<1> QED
  BY <1>1, ConfigFits DEF Config!StartsForCause, Config!StoppedForCause

(***************************************************************************)
(* The parts side by side: whichever one moves keeps its invariant.        *)
(***************************************************************************)
PartsInv ==
    /\ ClockInv
    /\ part = "totals" => TotalsInv
    /\ part = "list" => WalkInv
    /\ part = "pipeline" => PipelineInv
    /\ part = "config" => ConfigInv
    /\ part = "shelf" => ShelfInv

LEMMA PartsInvInit == PartsInit => PartsInv
BY ClockInvInit, TotalsInit, WalkInit, PipelineInit, ConfigInit, ShelfInit DEF PartsInit, PartsInv

LEMMA PartsInvNext == PartsInv /\ [PartsNext]_partsVars => PartsInv'
<1> SUFFICES ASSUME PartsInv, [PartsNext]_partsVars PROVE PartsInv'
  OBVIOUS
<1>1. CASE part = "clock" /\ Next /\ part' = part
  BY <1>1, ClockInvNext DEF PartsInv
<1>2. ASSUME UNCHANGED vars PROVE ClockInv'
  BY <1>2, ClockInvNext DEF PartsInv
<1>3. CASE part = "totals" /\ Totals!Next /\ UNCHANGED <<part, vars>>
  BY <1>2, <1>3, TotalsNext DEF PartsInv
<1>4. CASE part = "list" /\ Walk!Next /\ UNCHANGED <<part, vars>>
  BY <1>2, <1>4, WalkNext DEF PartsInv
<1>5. CASE part = "pipeline" /\ Pipeline!Next /\ UNCHANGED <<part, vars>>
  BY <1>2, <1>5, PipelineNext DEF PartsInv
<1>6. CASE part = "config" /\ Config!Next /\ UNCHANGED <<part, vars>>
  BY <1>2, <1>6, ConfigNext DEF PartsInv
<1>7. CASE part = "shelf" /\ Shelf!Next /\ UNCHANGED <<part, vars>>
  BY <1>2, <1>7, ShelfNext DEF PartsInv
<1>8. CASE UNCHANGED partsVars
  <2>1. UNCHANGED <<part, vars, Totals!vars, Walk!vars, Pipeline!vars, Config!vars, Shelf!vars>>
    BY <1>8 DEF partsVars, totalsVars, listVars, pipelineVars, configVars, shelfVars,
                Totals!vars, Walk!vars, Pipeline!vars, Config!vars, Shelf!vars
  <2> QED
    BY <1>2, <2>1, TotalsNext, WalkNext, PipelineNext, ConfigNext, ShelfNext DEF PartsInv
<1> QED
  BY <1>1, <1>3, <1>4, <1>5, <1>6, <1>7, <1>8 DEF PartsNext

LEMMA PartsInvariant == PartsSpec => []PartsInv
BY PartsInvInit, PartsInvNext, PTL DEF PartsSpec

(* What the parts' invariants say.                                         *)
LEMMA PartsSay ==
    PartsInv =>
        /\ PartsTypeOK /\ BurstBounded /\ RefusedForCause /\ StoredExactly /\ RefusedOnlyTooLarge
        /\ WalkAccounted /\ HandledForCause /\ StartsForCause /\ LedgerUnlessAgain
<1> SUFFICES ASSUME PartsInv
             PROVE  /\ PartsTypeOK /\ BurstBounded /\ RefusedForCause
                    /\ StoredExactly /\ RefusedOnlyTooLarge /\ WalkAccounted
                    /\ HandledForCause /\ StartsForCause /\ LedgerUnlessAgain
  OBVIOUS
<1>1. BurstBounded /\ RefusedForCause
  BY ClockBounded, ClockForCause DEF PartsInv
<1>2. TypeOK /\ (part = "totals" => Totals!TypeOK)
  BY DEF PartsInv, ClockInv, TotalsInv
<1>3. (part = "list" => Walk!TypeOK) /\ (part = "pipeline" => Pipeline!TypeOK)
  BY DEF PartsInv, WalkInv, PipelineInv
<1>4. part = "shelf" => Shelf!TypeOK /\ Shelf!LedgerUnlessAgain
  BY DEF PartsInv, ShelfInv, Shelf!LedgerUnlessAgain
<1>5. StoredExactly /\ RefusedOnlyTooLarge
  BY TotalsExact DEF PartsInv, StoredExactly, RefusedOnlyTooLarge
<1>6. WalkAccounted
  BY WalkOver DEF PartsInv, WalkAccounted
<1>7. HandledForCause
  BY PipelineHandled DEF PartsInv, HandledForCause
<1>8. StartsForCause
  BY ConfigStarts DEF PartsInv, StartsForCause
<1> QED
  BY <1>1, <1>2, <1>3, <1>4, <1>5, <1>6, <1>7, <1>8 DEF PartsTypeOK, LedgerUnlessAgain

(***************************************************************************)
(* Every part's variables have their types, whatever the constants: the    *)
(* limiter's map, an invoice's amounts, a client's walk through a list, a  *)
(* request's way through the guards and a product's row.                   *)
(***************************************************************************)
THEOREM PartsTyped == PartsSpec => []PartsTypeOK
BY PartsInvariant, PartsSay, PTL

(***************************************************************************)
(* InvoiceTotals, for any lines, rates and largest amount: an invoice that *)
(* is stored says exactly what its lines and the nearest cent of its tax   *)
(* come to, however many lines there are.                                  *)
(***************************************************************************)
THEOREM TotalsStoredExactly == PartsSpec => []StoredExactly
BY PartsInvariant, PartsSay, PTL

(***************************************************************************)
(* InvoiceTotals: an amount that does not fit on the way would not have    *)
(* fitted in the end, so only an invoice that is too large is refused.     *)
(***************************************************************************)
THEOREM TotalsRefusedOnlyTooLarge == PartsSpec => []RefusedOnlyTooLarge
BY PartsInvariant, PartsSay, PTL

(***************************************************************************)
(* Listing, for any rows, creation times, page size and changes: a client  *)
(* that walks through the pages misses no more of the rows that were there *)
(* all along than rows left, and sees no more of them twice than came in.  *)
(***************************************************************************)
THEOREM ListWalkAccounted == PartsSpec => []WalkAccounted
BY PartsInvariant, PartsSay, PTL

(***************************************************************************)
(* RequestPipeline, for any number of requests and sessions: a handler has *)
(* run only for a request that passed every guard of its route.            *)
(***************************************************************************)
THEOREM PipelineHandledForCause == PartsSpec => []HandledForCause
BY PartsInvariant, PartsSay, PTL

(***************************************************************************)
(* AppConfiguration, for any environments and however texts are read: a    *)
(* service runs only with values that suit it, and is stopped only by a    *)
(* variable that is set wrongly.                                           *)
(***************************************************************************)
THEOREM ConfigStartsForCause == PartsSpec => []StartsForCause
BY PartsInvariant, PartsSay, PTL

(***************************************************************************)
(* ProductClock, for any number of editors, times and any stock: as long   *)
(* as no two writes of a product bear one time, no write of an editor is   *)
(* applied to a stock that is not the one it has read.                     *)
(***************************************************************************)
THEOREM ShelfLedgerUnlessAgain == PartsSpec => []LedgerUnlessAgain
BY PartsInvariant, PartsSay, PTL

================================================================================
