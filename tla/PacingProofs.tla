---------------------------- MODULE PacingProofs ----------------------------
(***************************************************************************)
(* Proofs about Pacing, for every frequency of the performance counter and *)
(* every set of speeds that fit 32 bits.                                   *)
(***************************************************************************)
EXTENDS Pacing, TLAPS

USE FreqAssumption, SpeedsAssumption

(***************************************************************************)
(* Quotient and remainder of the integer division in emulation_loop.       *)
(***************************************************************************)
LEMMA Division ==
  ASSUME NEW a \in Nat, NEW b \in Nat, b # 0
  PROVE  /\ a \div b \in Nat
         /\ a % b \in Nat
         /\ a % b < b
         /\ b * (a \div b) + (a % b) = a
         /\ a < b => a % b = a
OBVIOUS

(***************************************************************************)
(* One more cycle: the target moves by the quotient, perhaps by one more,  *)
(* and the accumulator holds exactly what the target still owes.           *)
(***************************************************************************)
LEMMA OneMoreCycle ==
  ASSUME NEW p \in Nat, NEW d \in Int, NEW f \in Nat, NEW q \in Nat, NEW r \in Nat,
         NEW n \in Nat, NEW c \in Nat,
         p * q + r = Freq, p * d + f = n * Freq + c
  PROVE  /\ p * (d + q) + (f + r) = (n + 1) * Freq + c
         /\ p * (d + q + 1) + (f + r - p) = (n + 1) * Freq + c
<1>1. (n + 1) * Freq = n * Freq + Freq
  OBVIOUS
<1>2. p * (d + q) = p * d + p * q /\ p * (d + q + 1) = p * d + p * q + p
  OBVIOUS
<1>3. p * d \in Int /\ p * q \in Int /\ n * Freq \in Int
  OBVIOUS
<1> QED
  BY <1>1, <1>2, <1>3

(***************************************************************************)
(* No cycle yet: what the accumulator holds is what it held before.        *)
(***************************************************************************)
LEMMA NoCycleYet ==
  ASSUME NEW p \in Nat, NEW t \in Nat, NEW b, NEW f \in Nat, NEW n, NEW c,
         b = t, n = 0, c = f
  PROVE  p * (t - b) + f = n * Freq + c
<1>1. t - b = 0 /\ p * 0 = 0 /\ 0 * Freq = 0
  OBVIOUS
<1> QED
  BY <1>1

(***************************************************************************)
(* The start of emulation_loop.                                            *)
(***************************************************************************)
LEMMA InitInv == Init => Inv
BY DEF Init, Inv, TypeOK

(***************************************************************************)
(* Every step of the loop, of time and of the callers keeps the invariant. *)
(***************************************************************************)
LEMMA ExecuteKeepsInv == ASSUME SpeedsFit, Inv, Execute PROVE Inv'
<1> USE DEF Inv, TypeOK, pace, history
<1>1. clockSpeed' \in Speeds /\ clockSpeed' \in Nat /\ clockSpeed' < Uint32Size
  BY DEF Execute, SpeedsFit
<1>2. clockSpeed' % Uint32Size = clockSpeed'
  BY <1>1, Division
<1>3. target' \in Nat
  BY DEF Execute, StartTarget
<1>4. CASE prevSpeed # clockSpeed'
  <2>1. NewPace(clockSpeed') /\ pacedSpeed' = clockSpeed' /\ base' = target'
        /\ carry' = fracAccum' /\ count' = 0 /\ now' = now /\ phase' = "advance"
    BY <1>4 DEF Execute, StartTarget
  <2>2. prevSpeed' = clockSpeed'
    BY <1>2, <2>1 DEF NewPace
  <2>3. CASE clockSpeed' = 0
    BY <1>1, <1>3, <2>1, <2>2, <2>3 DEF NewPace
  <2>4. CASE clockSpeed' # 0
    <3>1. /\ tickIncrement' = Freq \div prevSpeed'
          /\ tickRemainder' = Freq % prevSpeed'
          /\ fracAccum' = 0
      BY <2>1, <2>2, <2>4 DEF NewPace
    <3>2. tickIncrement' \in Nat /\ tickRemainder' \in Nat
      BY <1>1, <2>2, <2>4, <3>1, Division
    <3>3. prevSpeed' * (target' - base') + fracAccum' = count' * Freq + carry'
      <4>1. prevSpeed' \in Nat /\ fracAccum' \in Nat
        BY <1>1, <2>2, <3>1
      <4> HIDE DEF Inv
      <4> QED
        BY <1>3, <2>1, <4>1, NoCycleYet
    <3>4. TypeOK'
      BY <1>1, <1>3, <2>1, <2>2, <3>1, <3>2
    <3>5. prevSpeed' = pacedSpeed' /\ fracAccum' < prevSpeed' /\ phase' # "lock"
      BY <1>1, <2>1, <2>2, <2>4, <3>1
    <3> QED
      BY <3>1, <3>3, <3>4, <3>5
  <2> QED
    BY <2>3, <2>4
<1>5. CASE prevSpeed = clockSpeed'
  <2>1. UNCHANGED <<prevSpeed, tickIncrement, tickRemainder, fracAccum>>
        /\ pacedSpeed' = clockSpeed' /\ now' = now /\ phase' = "advance"
    BY <1>5 DEF Execute
  <2>2. CASE phase = "paused"
    <3>1. base' = target' /\ carry' = fracAccum' /\ count' = 0
      BY <2>2 DEF Execute, StartTarget
    <3>2. prevSpeed' * (target' - base') + fracAccum' = count' * Freq + carry'
      <4>1. prevSpeed' \in Nat /\ fracAccum' \in Nat
        BY <2>1
      <4> HIDE DEF Inv
      <4> QED
        BY <1>3, <3>1, <4>1, NoCycleYet
    <3>3. TypeOK'
      BY <1>1, <1>3, <2>1, <3>1
    <3> QED
      BY <1>5, <2>1, <3>2, <3>3
  <2>3. CASE phase # "paused"
    BY <1>1, <1>5, <2>1, <2>3 DEF Execute, StartTarget
  <2> QED
    BY <2>2, <2>3
<1> QED
  BY <1>4, <1>5

LEMMA AdvanceKeepsInv == ASSUME Inv, Advance PROVE Inv'
<1> USE DEF Inv, TypeOK, pace, history
<1>1. CASE prevSpeed = 0
  BY <1>1 DEF Advance
<1>2. CASE prevSpeed # 0
  <2> DEFINE frac == fracAccum + tickRemainder
             moved == target - base
  <2>1. NextTarget /\ count' = count + 1 /\ phase' = "spin"
        /\ UNCHANGED <<now, clockSpeed, prevSpeed, tickIncrement, tickRemainder,
                       pacedSpeed, base, carry>>
    BY <1>2 DEF Advance
  <2>2. prevSpeed * tickIncrement + tickRemainder = Freq /\ tickRemainder < prevSpeed
    BY <1>2, Division
  <2>3. /\ prevSpeed * (moved + tickIncrement) + frac = (count + 1) * Freq + carry
        /\ prevSpeed * (moved + tickIncrement + 1) + (frac - prevSpeed)
             = (count + 1) * Freq + carry
    BY <1>2, <2>2, OneMoreCycle
  <2>4. CASE frac >= prevSpeed
    <3>1. fracAccum' = frac - prevSpeed /\ target' = target + tickIncrement + 1
      BY <2>1, <2>4 DEF NextTarget
    <3>2. target' - base' = moved + tickIncrement + 1
      BY <2>1, <3>1
    <3>3. prevSpeed' * (target' - base') + fracAccum' = count' * Freq + carry'
      BY <2>1, <2>3, <3>1, <3>2
    <3> HIDE DEF moved
    <3>4. fracAccum' \in Nat /\ fracAccum' < prevSpeed /\ target' \in Nat /\ count' \in Nat
      BY <2>1, <2>2, <2>4, <3>1, <1>2
    <3> QED
      BY <1>2, <2>1, <3>3, <3>4
  <2>5. CASE ~(frac >= prevSpeed)
    <3>1. fracAccum' = frac /\ target' = target + tickIncrement
      BY <2>1, <2>5 DEF NextTarget
    <3>2. target' - base' = moved + tickIncrement
      BY <2>1, <3>1
    <3>3. prevSpeed' * (target' - base') + fracAccum' = count' * Freq + carry'
      BY <2>1, <2>3, <3>1, <3>2
    <3>4. fracAccum' \in Nat /\ fracAccum' < prevSpeed /\ target' \in Nat /\ count' \in Nat
      BY <2>1, <2>5, <3>1
    <3> QED
      BY <1>2, <2>1, <3>3, <3>4
  <2> QED
    BY <2>4, <2>5
<1> QED
  BY <1>1, <1>2

(***************************************************************************)
(* What the accumulator holds is exactly what the target owes, in every    *)
(* reachable state of emulation_loop, if the speeds fit prev_clock_speed.  *)
(***************************************************************************)
THEOREM Invariance == SpeedsFit => (Spec => []Inv)
<1> SUFFICES ASSUME SpeedsFit PROVE Spec => []Inv
  OBVIOUS
<1>1. Inv /\ [Next]_vars => Inv'
  <2> SUFFICES ASSUME Inv, [Next]_vars PROVE Inv'
    OBVIOUS
  <2> USE DEF Inv, TypeOK, pace, history
  <2>1. CASE Tick
    BY <2>1 DEF Tick
  <2>2. ASSUME NEW s \in Speeds, SetClockSpeed(s) PROVE Inv'
    BY <2>2 DEF SetClockSpeed
  <2>3. CASE Pause
    BY <2>3 DEF Pause
  <2>4. CASE Spin
    BY <2>4 DEF Spin, SpinDone
  <2>5. CASE UNCHANGED vars
    BY <2>5 DEF vars
  <2> QED
    BY <2>1, <2>2, <2>3, <2>4, <2>5, ExecuteKeepsInv, AdvanceKeepsInv DEF Next
<1> QED
  BY <1>1, InitInv, PTL DEF Spec

(***************************************************************************)
(* The pace does not drift and the emulator does not run ahead, whatever   *)
(* the frequency, the speeds and the times at which they change.           *)
(***************************************************************************)
THEOREM Safety == SpeedsFit => (Spec => [](NoDrift /\ NeverEarly))
<1>1. ASSUME Inv PROVE NoDrift
  <2>1. pacedSpeed # 0 =>
          count * Freq + carry - pacedSpeed * (target - base) = fracAccum
    BY <1>1 DEF Inv, TypeOK
  <2> QED
    BY <1>1, <2>1 DEF NoDrift, Inv, TypeOK
<1>2. ASSUME Inv, phase = "lock", pacedSpeed # 0
      PROVE  pacedSpeed * (now + 1 - base) > count * Freq
  <2> DEFINE slack == now - target
  <2>1. slack \in Nat
    BY <1>2 DEF Inv, TypeOK
  <2>2. pacedSpeed * (now + 1 - base)
          = pacedSpeed * (target - base) + pacedSpeed * slack + pacedSpeed
    BY <1>2 DEF Inv, TypeOK
  <2>3. pacedSpeed * slack >= 0
    BY <1>2, <2>1 DEF Inv, TypeOK
  <2>4. pacedSpeed * (target - base) + fracAccum = count * Freq + carry
        /\ fracAccum < pacedSpeed
    BY <1>2 DEF Inv
  <2> QED
    BY <1>2, <2>1, <2>2, <2>3, <2>4 DEF Inv, TypeOK
<1>3. Inv => NoDrift /\ NeverEarly
  BY <1>1, <1>2 DEF NeverEarly
<1> QED
  BY <1>3, Invariance, PTL

(***************************************************************************)
(* No cycle is executed before its time at the current speed.              *)
(***************************************************************************)
THEOREM Punctual == SpeedsFit => (Spec => []NeverEarly)
<1> QED
  BY Safety, PTL
=============================================================================
