------------------------ MODULE LoginRateLimitProofs ------------------------
(***************************************************************************)
(* Proofs about the sign-in limiter, for every limit, window length and    *)
(* set of addresses.                                                       *)
(***************************************************************************)
EXTENDS LoginRateLimit, Sums

(***************************************************************************)
(* TypeOK is not inductive: that no more than Max attempts of an address   *)
(* are let through in one millisecond follows from the window's count,     *)
(* which covers all of them.                                               *)
(***************************************************************************)
Covered(a) ==
    IF Over(attempts[a]) THEN admitted[a][0] = 0 ELSE admitted[a][0] <= attempts[a].count

Inv == TypeOK /\ \A a \in Addresses : Covered(a)

LEMMA InvInit == Init => Inv
BY MaxAssumption, LengthAssumption DEF Init, Inv, TypeOK, Covered, Over

LEMMA CountedType ==
    ASSUME NEW window \in AttemptWindow \union {NoWindow}
    PROVE  /\ Counted(window) \in AttemptWindow
           /\ ~ Over(Counted(window))
           /\ Over(window) => Counted(window).count = 1
           /\ ~ Over(window) => Counted(window).count >= window.count
           /\ ~ Over(window) /\ Allowed(Counted(window)) =>
                    Counted(window).count = window.count + 1
<1>1. CASE Over(window)
  <2>1. Counted(window) = [count |-> 1, age |-> 0]
    BY <1>1 DEF Counted
  <2>2. [count |-> 1, age |-> 0] \in AttemptWindow
    BY MaxAssumption, LengthAssumption DEF AttemptWindow
  <2> QED
    BY <1>1, <2>1, <2>2, NoWindowAssumption, LengthAssumption DEF Over
<1>2. CASE ~ Over(window)
  <2>1. window \in AttemptWindow /\ window.age < Length
    BY <1>2, LengthAssumption DEF Over, AttemptWindow
  <2> DEFINE count == IF window.count > Max THEN window.count ELSE window.count + 1
  <2>2. Counted(window) = [window EXCEPT !.count = count]
    BY <1>2 DEF Counted
  <2>3. count \in 1 .. Max + 1 /\ count >= window.count /\ (count <= Max => count = window.count + 1)
    BY <2>1, MaxAssumption DEF AttemptWindow
  <2>4. Counted(window) \in AttemptWindow /\ Counted(window).count = count
            /\ Counted(window).age = window.age
    BY <2>1, <2>2, <2>3 DEF AttemptWindow
  <2>5. ~ Over(Counted(window))
    BY <2>1, <2>4, NoWindowAssumption, LengthAssumption DEF Over, AttemptWindow
  <2> QED
    BY <1>2, <2>3, <2>4, <2>5 DEF Allowed
<1> QED
  BY <1>1, <1>2

LEMMA AttemptStep ==
    ASSUME Inv, NEW a \in Addresses, CanActivate(a)
    PROVE  Inv'
<1> DEFINE window == Counted(attempts[a])
<1>1. /\ attempts[a] \in AttemptWindow \union {NoWindow}
      /\ admitted[a] \in [0 .. Length - 1 -> 0 .. Max]
      /\ Covered(a) /\ 0 \in 0 .. Length - 1 /\ admitted[a][0] \in 0 .. Max
  BY LengthAssumption DEF Inv, TypeOK
<1>2. attempts' = [attempts EXCEPT ![a] = window] /\ window \in AttemptWindow /\ ~ Over(window)
  BY <1>1, CountedType DEF CanActivate
<1>3. attempts' \in [Addresses -> AttemptWindow \union {NoWindow}]
  BY <1>2 DEF Inv, TypeOK
<1>4. CASE Allowed(window)
  <2>1. admitted' = [admitted EXCEPT ![a] = [admitted[a] EXCEPT ![0] = @ + 1]]
    BY <1>4 DEF CanActivate, Inv, TypeOK
  <2>2. admitted[a][0] + 1 <= window.count
    <3>1. CASE Over(attempts[a])
      BY <1>1, <3>1, CountedType DEF Covered
    <3>2. CASE ~ Over(attempts[a])
      <4>1. attempts[a].count \in Nat
        BY <1>1, <3>2, MaxAssumption DEF Over, AttemptWindow
      <4>2. window.count = attempts[a].count + 1
        BY <1>1, <1>4, <3>2, CountedType
      <4> QED
        BY <1>1, <3>2, <4>1, <4>2 DEF Covered
    <3> QED
      BY <3>1, <3>2
  <2>3. admitted[a][0] + 1 \in 0 .. Max
    BY <1>1, <1>2, <1>4, <2>2, MaxAssumption DEF Allowed, AttemptWindow
  <2>4. [admitted[a] EXCEPT ![0] = @ + 1] \in [0 .. Length - 1 -> 0 .. Max]
    BY <1>1, <2>3
  <2>5. admitted' \in [Addresses -> [0 .. Length - 1 -> 0 .. Max]]
    BY <2>1, <2>4 DEF Inv, TypeOK
  <2>6. ASSUME NEW b \in Addresses PROVE Covered(b)'
    <3>1. CASE b = a
      <4>1. attempts'[a] = window /\ admitted'[a][0] = admitted[a][0] + 1
        BY <1>1, <1>2, <2>1 DEF Inv, TypeOK
      <4> QED
        BY <1>2, <2>2, <3>1, <4>1 DEF Covered, Over
    <3>2. CASE b # a
      <4>1. attempts'[b] = attempts[b] /\ admitted'[b] = admitted[b]
        BY <1>2, <2>1, <3>2 DEF Inv, TypeOK
      <4> QED
        BY <4>1 DEF Inv, Covered, Over
    <3> QED
      BY <3>1, <3>2
  <2> QED
    BY <1>3, <2>5, <2>6 DEF Inv, TypeOK
<1>5. CASE ~ Allowed(window)
  <2>1. admitted' = admitted
    BY <1>5 DEF CanActivate
  <2>2. ASSUME NEW b \in Addresses PROVE Covered(b)'
    <3>1. CASE b = a
      <4>1. attempts'[a] = window /\ window.count > Max
        BY <1>2, <1>5, MaxAssumption DEF Inv, TypeOK, Allowed, AttemptWindow
      <4>2. admitted'[a][0] <= window.count
        BY <1>1, <1>2, <2>1, <4>1, MaxAssumption DEF AttemptWindow
      <4> QED
        BY <1>2, <3>1, <4>1, <4>2 DEF Covered, Over
    <3>2. CASE b # a
      <4>1. attempts'[b] = attempts[b] /\ admitted'[b] = admitted[b]
        BY <1>2, <2>1, <3>2 DEF Inv, TypeOK
      <4> QED
        BY <4>1 DEF Inv, Covered, Over
    <3> QED
      BY <3>1, <3>2
  <2> QED
    BY <1>3, <2>1, <2>2 DEF Inv, TypeOK
<1> QED
  BY <1>4, <1>5

LEMMA TickStep ==
    ASSUME Inv, Tick
    PROVE  Inv'
<1>1. ASSUME NEW a \in Addresses
      PROVE  /\ attempts'[a] \in AttemptWindow \union {NoWindow}
             /\ ~ Over(attempts'[a]) => attempts'[a].count \in Nat
  <2>1. CASE Over(attempts[a])
    BY <2>1 DEF Tick, Inv, TypeOK
  <2>2. CASE ~ Over(attempts[a])
    <3>1. attempts[a] \in AttemptWindow /\ attempts[a].age + 1 \in 0 .. Length
      BY <2>2, LengthAssumption DEF Over, Inv, TypeOK, AttemptWindow
    <3>2. attempts'[a] = [attempts[a] EXCEPT !.age = @ + 1]
      BY <2>2 DEF Tick
    <3> QED
      BY <3>1, <3>2, MaxAssumption DEF AttemptWindow
  <2>3. attempts'[a] \in AttemptWindow => attempts'[a].count \in Nat
    BY MaxAssumption DEF AttemptWindow
  <2> QED
    BY <2>1, <2>2, <2>3 DEF Over, Tick, Inv, TypeOK
<1>2. attempts' \in [Addresses -> AttemptWindow \union {NoWindow}]
  BY <1>1 DEF Tick
<1>3. admitted' \in [Addresses -> [0 .. Length - 1 -> 0 .. Max]]
  <2> SUFFICES ASSUME NEW a \in Addresses, NEW age \in 0 .. Length - 1
               PROVE  (IF age = 0 THEN 0 ELSE admitted[a][age - 1]) \in 0 .. Max
    BY DEF Tick
  <2>1. admitted[a] \in [0 .. Length - 1 -> 0 .. Max]
    BY DEF Inv, TypeOK
  <2>2. CASE age # 0
    <3>1. age - 1 \in 0 .. Length - 1
      BY <2>2, LengthAssumption
    <3>2. admitted[a][age - 1] \in 0 .. Max
      BY <2>1, <3>1
    <3> QED
      BY <2>2, <3>2
  <2> QED
    BY <2>2, MaxAssumption
<1>4. \A a \in Addresses : admitted'[a][0] = 0
  BY LengthAssumption DEF Tick
<1>5. ASSUME NEW a \in Addresses PROVE Covered(a)'
  <2>1. ~ Over(attempts'[a]) => attempts'[a].count >= 0
    BY <1>1
  <2> QED
    BY <1>4, <2>1 DEF Covered, Over
<1> QED
  BY <1>2, <1>3, <1>5 DEF Inv, TypeOK

LEMMA InvNext == Inv /\ [Next]_vars => Inv'
<1>1. CASE UNCHANGED vars
  BY <1>1 DEF vars, Inv, TypeOK, Covered, Over
<1> QED
  BY <1>1, AttemptStep, TickStep DEF Next

(***************************************************************************)
(* The limiter keeps its types: however attempts and time interleave, no   *)
(* more than Max of an address's attempts are let through at one time.     *)
(***************************************************************************)
THEOREM LimiterTypeCorrect == FairSpec => []TypeOK
<1>1. Inv => TypeOK
  BY DEF Inv
<1> QED
  BY InvInit, InvNext, <1>1, PTL DEF FairSpec, Spec
-----------------------------------------------------------------------------
(***************************************************************************)
(* The attempts let through in the last Length milliseconds.  Those of the *)
(* window the map holds are counted in it, up to Max.  They are the ones   *)
(* younger than the window, and the one that started it, which is as old   *)
(* as the window is: once the window is over that one is no longer recent, *)
(* so Max - 1 at most are when the next window starts.                     *)
(***************************************************************************)
LetThrough(window) == IF window.count <= Max THEN window.count ELSE Max

Bounded(a) ==
    /\ attempts[a] = NoWindow => UpTo(admitted[a], Length - 1) <= Max - 1
    /\ attempts[a] # NoWindow =>
        /\ \A j \in 0 .. Length - 1 :
                j < attempts[a].age => UpTo(admitted[a], j) <= LetThrough(attempts[a]) - 1
        /\ UpTo(admitted[a], Length - 1) <= LetThrough(attempts[a]) + Max - 1
        /\ attempts[a].age < Length =>
                UpTo(admitted[a], attempts[a].age) >= LetThrough(attempts[a])

BurstInv == Inv /\ \A a \in Addresses : Bounded(a)

LEMMA RecentUpTo ==
    ASSUME TypeOK, NEW a \in Addresses
    PROVE  Recent(a) = UpTo(admitted[a], Length - 1)
BY DEF Recent, SumFunction, UpTo, TypeOK

LEMMA UpToAdmitted ==
    ASSUME TypeOK, NEW a \in Addresses
    PROVE  \A j \in -1 .. Length - 1 : UpTo(admitted[a], j) \in Nat
<1> SUFFICES ASSUME NEW j \in -1 .. Length - 1 PROVE UpTo(admitted[a], j) \in Nat
  OBVIOUS
<1>1. j \in Int /\ \A x \in 0 .. j : admitted[a][x] \in Nat
  BY LengthAssumption, MaxAssumption DEF TypeOK
<1> QED
  BY <1>1, UpToNat

LEMMA BurstInit == Init => BurstInv
<1> SUFFICES ASSUME Init, NEW a \in Addresses PROVE Bounded(a)
  BY InvInit DEF BurstInv
<1>1. Length - 1 \in Int /\ IsFiniteSet(0 .. Length - 1)
  BY LengthAssumption, FS_Interval
<1>2. \A x \in 0 .. Length - 1 : admitted[a][x] = 0
  BY DEF Init
<1>3. UpTo(admitted[a], Length - 1) = 0
  BY <1>1, <1>2, SumZero DEF UpTo
<1> QED
  BY <1>3, MaxAssumption DEF Init, Bounded

LEMMA BurstAttempt ==
    ASSUME BurstInv, NEW a \in Addresses, CanActivate(a)
    PROVE  BurstInv'
<1> DEFINE old == attempts[a]
           new == Counted(old)
<1>1. TypeOK /\ Inv' /\ TypeOK'
  BY AttemptStep DEF BurstInv, Inv
<1>2. /\ old \in AttemptWindow \union {NoWindow} /\ new \in AttemptWindow
      /\ attempts' = [attempts EXCEPT ![a] = new] /\ ~ Over(new)
      /\ Bounded(a)
  BY <1>1, CountedType DEF CanActivate, TypeOK, BurstInv
<1>3. ASSUME NEW b \in Addresses, b # a PROVE Bounded(b)'
  <2>1. attempts'[b] = attempts[b] /\ admitted'[b] = admitted[b] /\ Bounded(b)
    BY <1>1, <1>2, <1>3 DEF CanActivate, TypeOK, BurstInv
  <2> QED
    BY <2>1 DEF Bounded, LetThrough
<1>4. ASSUME NEW j \in 0 .. Length - 1
      PROVE  UpTo(admitted'[a], j) = UpTo(admitted[a], j) + (IF Allowed(new) THEN 1 ELSE 0)
  <2>1. CASE Allowed(new)
    <3>1. admitted'[a] = [admitted[a] EXCEPT ![0] = @ + 1]
      BY <1>1, <2>1 DEF CanActivate, TypeOK
    <3>2. admitted[a] \in [0 .. Length - 1 -> Nat] /\ 0 \in 0 .. Length - 1 /\ j \in Nat
      BY <1>1, MaxAssumption, LengthAssumption DEF TypeOK
    <3>3. /\ \A x \in 0 .. j : admitted[a][x] \in Nat /\ admitted'[a][x] \in Nat
          /\ admitted'[a][0] = admitted[a][0] + 1
          /\ \A x \in 1 .. j : admitted'[a][x] = admitted[a][x]
      BY <3>1, <3>2, LengthAssumption
    <3>4. UpTo(admitted'[a], j) = UpTo(admitted[a], j) + 1
      BY <3>2, <3>3, UpToMore
    <3> QED
      BY <2>1, <3>4
  <2>2. CASE ~ Allowed(new)
    BY <1>1, <2>2, UpToAdmitted, LengthAssumption DEF CanActivate
  <2> QED
    BY <2>1, <2>2
<1>5. /\ \A j \in 0 .. Length - 1 : UpTo(admitted[a], j) \in Nat
      /\ Length - 1 \in 0 .. Length - 1
  BY <1>1, UpToAdmitted, LengthAssumption
<1> DEFINE sum(j) == UpTo(admitted[a], j)
<1>6. attempts'[a] = new
  BY <1>1, <1>2 DEF TypeOK
<1>7. new # NoWindow /\ new.count \in Nat \ {0} /\ new.age \in 0 .. Length - 1
  BY <1>2, NoWindowAssumption, LengthAssumption DEF AttemptWindow, Over
<1>8. CASE Over(old)
  <2>1. new = [count |-> 1, age |-> 0]
    BY <1>8 DEF Counted
  <2>2. Allowed(new) /\ LetThrough(new) = 1
    BY <2>1, MaxAssumption DEF Allowed, LetThrough
  <2>3. sum(Length - 1) <= Max - 1
    <3>1. CASE old = NoWindow
      BY <1>2, <3>1 DEF Bounded
    <3>2. CASE old # NoWindow
      <4>1. Length - 1 < old.age
        BY <1>2, <1>8, <3>2, LengthAssumption DEF Over, AttemptWindow
      <4>2. sum(Length - 1) <= LetThrough(old) - 1
        BY <1>2, <1>5, <3>2, <4>1 DEF Bounded
      <4>3. LetThrough(old) \in Nat /\ LetThrough(old) <= Max
        BY <1>2, <3>2, MaxAssumption DEF LetThrough, AttemptWindow
      <4> QED
        BY <1>5, <4>2, <4>3, MaxAssumption
    <3> QED
      BY <3>1, <3>2
  <2>4. UpTo(admitted'[a], Length - 1) <= LetThrough(new) + Max - 1
    BY <1>4, <1>5, <2>2, <2>3, MaxAssumption
  <2>5. UpTo(admitted'[a], 0) >= 1
    BY <1>4, <1>5, <2>2, LengthAssumption
  <2>6. Bounded(a)'
    BY <1>6, <1>7, <2>1, <2>2, <2>4, <2>5 DEF Bounded, LetThrough
  <2> QED
    BY <1>1, <1>3, <2>6 DEF BurstInv
<1>9. CASE ~ Over(old)
  <2>1. old # NoWindow /\ old \in AttemptWindow /\ new.age = old.age
    BY <1>2, <1>9 DEF Over, Counted, AttemptWindow
  <2>2. LetThrough(new) = LetThrough(old) + (IF Allowed(new) THEN 1 ELSE 0)
    <3>1. CASE old.count > Max
      BY <1>9, <2>1, <3>1, MaxAssumption DEF Counted, LetThrough, Allowed, AttemptWindow
    <3>2. CASE ~ old.count > Max
      <4>1. new.count = old.count + 1
        BY <1>9, <2>1, <3>2 DEF Counted, AttemptWindow
      <4> QED
        BY <2>1, <3>2, <4>1, MaxAssumption DEF LetThrough, Allowed, AttemptWindow
    <3> QED
      BY <3>1, <3>2
  <2>3. LetThrough(old) \in Nat
    BY <2>1, MaxAssumption DEF LetThrough, AttemptWindow
  <2>4. ASSUME NEW j \in 0 .. Length - 1, j < new.age
        PROVE  UpTo(admitted'[a], j) <= LetThrough(new) - 1
    <3>1. sum(j) <= LetThrough(old) - 1
      BY <1>2, <2>1, <2>4 DEF Bounded
    <3> QED
      BY <1>4, <1>5, <2>2, <2>3, <3>1
  <2>5. UpTo(admitted'[a], Length - 1) <= LetThrough(new) + Max - 1
    <3>1. sum(Length - 1) <= LetThrough(old) + Max - 1
      BY <1>2, <2>1 DEF Bounded
    <3> QED
      BY <1>4, <1>5, <2>2, <2>3, <3>1, MaxAssumption
  <2>6. UpTo(admitted'[a], new.age) >= LetThrough(new)
    <3>1. sum(old.age) >= LetThrough(old)
      BY <1>2, <1>7, <2>1, LengthAssumption DEF Bounded
    <3> QED
      BY <1>4, <1>5, <1>7, <2>1, <2>2, <2>3, <3>1
  <2>7. Bounded(a)'
    BY <1>6, <1>7, <2>4, <2>5, <2>6 DEF Bounded, LetThrough
  <2> QED
    BY <1>1, <1>3, <2>7 DEF BurstInv
<1> QED
  BY <1>8, <1>9

LEMMA BurstTick ==
    ASSUME BurstInv, Tick
    PROVE  BurstInv'
<1>1. TypeOK /\ Inv'
  BY TickStep DEF BurstInv, Inv
<1> SUFFICES ASSUME NEW a \in Addresses PROVE Bounded(a)'
  BY <1>1 DEF BurstInv
<1> DEFINE old == attempts[a]
           sum(j) == UpTo(admitted[a], j)
<1>2. Bounded(a) /\ old \in AttemptWindow \union {NoWindow}
  BY <1>1 DEF BurstInv, TypeOK
<1>3. ASSUME NEW j \in 0 .. Length - 1
      PROVE  UpTo(admitted'[a], j) = sum(j - 1) /\ sum(j - 1) \in Nat /\ sum(j - 1) <= sum(j)
  <2>1. j \in Nat /\ j \in Int /\ j - 1 \in Int /\ j - 1 <= j
    OBVIOUS
  <2>2. /\ \A x \in 0 .. j : admitted[a][x] \in Nat
        /\ admitted'[a][0] = 0
        /\ \A x \in 1 .. j : admitted'[a][x] = admitted[a][x - 1]
    BY <1>1, LengthAssumption, MaxAssumption DEF Tick, TypeOK
  <2>3. UpTo(admitted'[a], j) = UpTo(admitted[a], j - 1)
    BY <2>1, <2>2, UpToShift
  <2>4. sum(j - 1) <= sum(j)
    BY <2>1, <2>2, UpToLess
  <2>5. sum(j - 1) \in Nat
    <3>1. j - 1 \in -1 .. Length - 1
      BY LengthAssumption
    <3> QED
      BY <1>1, <3>1, UpToAdmitted
  <2> QED
    BY <2>3, <2>4, <2>5
<1>4. sum(-1) = 0
  BY UpToNone
<1>5. Length - 1 \in 0 .. Length - 1 /\ sum(Length - 1) \in Nat
  BY <1>1, UpToAdmitted, LengthAssumption
<1>6. CASE old = NoWindow
  <2>1. attempts'[a] = NoWindow
    BY <1>6 DEF Tick, Over
  <2>2. UpTo(admitted'[a], Length - 1) <= Max - 1
    BY <1>2, <1>3, <1>5, <1>6, MaxAssumption DEF Bounded
  <2> QED
    BY <2>1, <2>2 DEF Bounded
<1>7. CASE old # NoWindow
  <2> DEFINE new == attempts'[a]
  <2>1. old \in AttemptWindow
    BY <1>2, <1>7
  <2>2. /\ new \in AttemptWindow /\ new # NoWindow /\ new.count = old.count
        /\ old.age < Length => new.age = old.age + 1
        /\ old.age >= Length => new.age = old.age
    <3>1. new = IF Over(old) THEN old ELSE [old EXCEPT !.age = @ + 1]
      BY DEF Tick
    <3>2. Over(old) <=> old.age >= Length
      BY <1>7 DEF Over
    <3>3. old.age \in 0 .. Length
      BY <2>1 DEF AttemptWindow
    <3>4. CASE Over(old)
      BY <1>7, <2>1, <3>1, <3>2, <3>3, <3>4, LengthAssumption
    <3>5. CASE ~ Over(old)
      <4>1. new \in AttemptWindow /\ new.count = old.count /\ new.age = old.age + 1
        BY <2>1, <3>1, <3>2, <3>3, <3>5, LengthAssumption DEF AttemptWindow
      <4> QED
        BY <3>2, <3>3, <3>5, <4>1, NoWindowAssumption, LengthAssumption
    <3> QED
      BY <3>3, <3>4, <3>5, LengthAssumption
  <2>3. old.age \in 0 .. Length /\ LetThrough(old) \in Nat \ {0} /\ LetThrough(new) = LetThrough(old)
    BY <2>1, <2>2, MaxAssumption DEF LetThrough, AttemptWindow
  <2>4. ASSUME NEW j \in 0 .. Length - 1, j < new.age
        PROVE  UpTo(admitted'[a], j) <= LetThrough(old) - 1
    <3>1. CASE j = 0
      BY <1>3, <1>4, <2>3, <3>1
    <3>2. CASE j # 0
      <4>1. j - 1 \in 0 .. Length - 1 /\ j - 1 < old.age
        BY <2>2, <2>3, <2>4, <3>2, LengthAssumption
      <4>2. sum(j - 1) <= LetThrough(old) - 1
        BY <1>2, <1>7, <4>1 DEF Bounded
      <4> QED
        BY <1>3, <4>2
    <3> QED
      BY <3>1, <3>2
  <2>5. UpTo(admitted'[a], Length - 1) <= LetThrough(old) + Max - 1
    <3>1. sum(Length - 1) <= LetThrough(old) + Max - 1
      BY <1>2, <1>7 DEF Bounded
    <3> QED
      BY <1>3, <1>5, <2>3, <3>1, MaxAssumption
  <2>6. ASSUME new.age < Length PROVE UpTo(admitted'[a], new.age) >= LetThrough(old)
    <3>1. old.age < Length /\ new.age = old.age + 1 /\ new.age \in 0 .. Length - 1
      BY <2>2, <2>3, <2>6, LengthAssumption
    <3>2. sum(old.age) >= LetThrough(old)
      BY <1>2, <1>7, <3>1 DEF Bounded
    <3>3. UpTo(admitted'[a], new.age) = sum(new.age - 1)
      BY <1>3, <3>1
    <3> QED
      BY <2>3, <3>1, <3>2, <3>3
  <2> QED
    BY <2>2, <2>3, <2>4, <2>5, <2>6 DEF Bounded
<1> QED
  BY <1>6, <1>7

LEMMA BurstNext == BurstInv /\ [Next]_vars => BurstInv'
<1>1. ASSUME BurstInv, UNCHANGED vars PROVE BurstInv'
  BY <1>1, InvNext DEF vars, BurstInv, Bounded, LetThrough
<1> QED
  BY <1>1, BurstAttempt, BurstTick DEF Next

LEMMA BurstInvariant == FairSpec => []BurstInv
BY BurstInit, BurstNext, PTL DEF FairSpec, Spec

(***************************************************************************)
(* In no Length milliseconds are twice Max attempts of an address let      *)
(* through, however its windows lie.                                       *)
(***************************************************************************)
THEOREM LimiterBurstBounded == FairSpec => []BurstBounded
<1>1. BurstInv => BurstBounded
  <2> SUFFICES ASSUME BurstInv, NEW a \in Addresses PROVE Recent(a) < 2 * Max
    BY DEF BurstBounded
  <2>1. TypeOK /\ Bounded(a) /\ attempts[a] \in AttemptWindow \union {NoWindow}
    BY DEF BurstInv, Inv, TypeOK
  <2>2. Recent(a) = UpTo(admitted[a], Length - 1) /\ UpTo(admitted[a], Length - 1) \in Nat
    BY <2>1, RecentUpTo, UpToAdmitted, LengthAssumption
  <2>3. attempts[a] # NoWindow => LetThrough(attempts[a]) \in 0 .. Max
    BY <2>1, MaxAssumption DEF LetThrough, AttemptWindow
  <2>4. attempts[a] # NoWindow =>
            UpTo(admitted[a], Length - 1) <= LetThrough(attempts[a]) + Max - 1
    BY <2>1 DEF Bounded
  <2>5. attempts[a] = NoWindow => UpTo(admitted[a], Length - 1) <= Max - 1
    BY <2>1 DEF Bounded
  <2> QED
    BY <2>2, <2>3, <2>4, <2>5, MaxAssumption
<1> QED
  BY BurstInvariant, <1>1, PTL

(***************************************************************************)
(* Whoever would be refused had Max attempts let through in the last       *)
(* Length milliseconds: those that were refused do not count.              *)
(***************************************************************************)
THEOREM LimiterRefusedForCause == FairSpec => []RefusedForCause
<1>1. BurstInv => RefusedForCause
  <2> SUFFICES ASSUME BurstInv, NEW a \in Addresses, ~ Allowed(Counted(attempts[a]))
               PROVE  Recent(a) >= Max
    BY DEF RefusedForCause
  <2> DEFINE w == attempts[a]
  <2>1. TypeOK /\ Bounded(a) /\ w \in AttemptWindow \union {NoWindow}
    BY DEF BurstInv, Inv, TypeOK
  <2>2. ~ Over(w)
    BY <2>1, CountedType, MaxAssumption DEF Allowed
  <2>3. w # NoWindow /\ w \in AttemptWindow /\ w.age \in 0 .. Length - 1
    BY <2>1, <2>2, LengthAssumption DEF Over, AttemptWindow
  <2>4. LetThrough(w) = Max
    BY <2>2, <2>3, MaxAssumption DEF LetThrough, Allowed, Counted, AttemptWindow
  <2>5. UpTo(admitted[a], w.age) >= Max
    BY <2>1, <2>3, <2>4, LengthAssumption DEF Bounded
  <2>6. UpTo(admitted[a], w.age) <= UpTo(admitted[a], Length - 1)
    <3>1. /\ w.age \in Int /\ Length - 1 \in Int /\ w.age <= Length - 1
          /\ \A x \in 0 .. Length - 1 : admitted[a][x] \in Nat
      BY <2>1, <2>3, LengthAssumption, MaxAssumption DEF TypeOK
    <3> QED
      BY <3>1, UpToLess
  <2>7. UpTo(admitted[a], w.age) \in Nat /\ UpTo(admitted[a], Length - 1) \in Nat
    BY <2>1, <2>3, UpToAdmitted, LengthAssumption
  <2> QED
    BY <2>1, <2>5, <2>6, <2>7, RecentUpTo, MaxAssumption
<1> QED
  BY BurstInvariant, <1>1, PTL
=============================================================================
