------------------------------ MODULE CpuProofs ------------------------------
(***************************************************************************)
(* Proofs about Cpu and Alu, for every program and every set of addresses: *)
(* the results and flags of the arithmetic logic unit are those of the     *)
(* integers (AluIsRight); every instruction keeps bytes in the byte        *)
(* registers and words in the others, and the words that calls and pushes  *)
(* left on the stack are in their cells (CpuInvariance); from this what a  *)
(* return or a pop takes off is what was put there (ReturnsToItsCall) and  *)
(* the program counter goes where the instruction says (CounterFollows).   *)
(***************************************************************************)
EXTENDS CpuInv, SequenceTheorems, TLAPS

LEMMA ByteFacts ==
  ASSUME NEW v \in Bytes
  PROVE  v \in Nat /\ v < 256
BY DEF Bytes

LEMMA InRange ==
  ASSUME NEW v \in Int, NEW n \in Int, 0 <= v, v <= n
  PROVE  v \in 0..n
OBVIOUS

LEMMA IsByte ==
  ASSUME NEW v \in Nat, v < 256
  PROVE  v \in Bytes
<1>1. v \in Int /\ 255 \in Int /\ 0 <= v /\ v <= 255
  OBVIOUS
<1> QED
  BY <1>1, InRange, Zenon DEF Bytes

LEMMA CarryFacts ==
  ASSUME NEW flag
  PROVE  Carry(flag) \in {0, 1}
BY DEF Carry

LEMMA Wraps ==
  ASSUME NEW x \in Int
  PROVE  /\ -256 <= x /\ x < 0 => x % 256 = x + 256
         /\ 0 <= x /\ x < 256 => x % 256 = x
         /\ 256 <= x /\ x < 512 => x % 256 = x - 256
OBVIOUS

\* The sum of two bytes and a carry, with the carry that comes out, is the integer sum.
THEOREM AdcIsExact ==
  ASSUME NEW l \in Bytes, NEW r \in Bytes, NEW carry
  PROVE  /\ Adc8(l, r, carry).value \in Nat /\ Adc8(l, r, carry).value < 256
         /\ Adc8(l, r, carry).c \in BOOLEAN
         /\ Adc8(l, r, carry).value + 256 * Carry(Adc8(l, r, carry).c) = l + r + Carry(carry)
<1> DEFINE k == Carry(carry)
           sum == l + r + k
<1>1. l \in Nat /\ l < 256 /\ r \in Nat /\ r < 256 /\ k \in {0, 1}
  BY ByteFacts, CarryFacts
<1>2. Adc8(l, r, carry).value = sum % 256 /\ Adc8(l, r, carry).c = (sum > 255)
  BY DEF Adc8, Result
<1> HIDE DEF k
<1>3. sum \in Int /\ 0 <= sum /\ sum < 512
  BY <1>1
<1>4. sum % 256 = IF sum > 255 THEN sum - 256 ELSE sum
  BY <1>3, Wraps
<1>5. Adc8(l, r, carry).c \in BOOLEAN
  BY <1>2
<1>6. Carry(Adc8(l, r, carry).c) = IF sum > 255 THEN 1 ELSE 0
  BY <1>2 DEF Carry
<1> HIDE DEF sum
<1>7. /\ Adc8(l, r, carry).value \in Nat /\ Adc8(l, r, carry).value < 256
      /\ Adc8(l, r, carry).value + 256 * Carry(Adc8(l, r, carry).c) = sum
  BY <1>2, <1>3, <1>4, <1>6
<1> QED
  BY <1>5, <1>7 DEF sum, k

\* The difference of two bytes and a borrow, with the borrow that comes out, is the
\* integer difference.
THEOREM SbcIsExact ==
  ASSUME NEW l \in Bytes, NEW r \in Bytes, NEW carry
  PROVE  /\ Sbc8(l, r, carry).value \in Nat /\ Sbc8(l, r, carry).value < 256
         /\ Sbc8(l, r, carry).value - 256 * Carry(Sbc8(l, r, carry).c) = l - r - Carry(carry)
<1> DEFINE k == Carry(carry)
           difference == l - r - k
<1>1. l \in Nat /\ l < 256 /\ r \in Nat /\ r < 256 /\ k \in {0, 1}
  BY ByteFacts, CarryFacts
<1>2. Sbc8(l, r, carry).value = difference % 256 /\ Sbc8(l, r, carry).c = (l < r + k)
  BY DEF Sbc8, Result
<1>3. Carry(Sbc8(l, r, carry).c) = IF l < r + k THEN 1 ELSE 0
  BY <1>2 DEF Carry
<1> HIDE DEF k
<1>4. difference \in Int /\ -256 <= difference /\ difference < 256
  BY <1>1
<1>5. difference % 256 = IF l < r + k THEN difference + 256 ELSE difference
  <2>1. (l < r + k) = (difference < 0)
    BY <1>1
  <2> QED
    BY <1>4, <2>1, Wraps
<1>6. (l < r + k) = (difference < 0)
  BY <1>1
<1> HIDE DEF difference
<1>7. /\ Sbc8(l, r, carry).value \in Nat /\ Sbc8(l, r, carry).value < 256
      /\ Sbc8(l, r, carry).value - 256 * Carry(Sbc8(l, r, carry).c) = difference
  BY <1>2, <1>3, <1>4, <1>5, <1>6
<1> QED
  BY <1>7 DEF difference, k

LEMMA AddIsExact ==
  ASSUME NEW l \in Bytes, NEW r \in Bytes
  PROVE  /\ Add8(l, r).value \in Nat /\ Add8(l, r).c \in BOOLEAN
         /\ Add8(l, r).value + 256 * Carry(Add8(l, r).c) = l + r
<1> DEFINE sum == l + r
<1>1. l \in Nat /\ l < 256 /\ r \in Nat /\ r < 256
  BY ByteFacts
<1>2. Add8(l, r).value = sum % 256 /\ Add8(l, r).c = (sum > 255)
  BY DEF Add8, Result
<1>3. sum \in Int /\ 0 <= sum /\ sum < 512
  BY <1>1
<1>4. sum % 256 = IF sum > 255 THEN sum - 256 ELSE sum
  BY <1>3, Wraps
<1>5. Add8(l, r).c \in BOOLEAN
  BY <1>2
<1>6. Carry(Add8(l, r).c) = IF sum > 255 THEN 1 ELSE 0
  BY <1>2 DEF Carry
<1> HIDE DEF sum
<1>7. /\ Add8(l, r).value \in Nat
      /\ Add8(l, r).value + 256 * Carry(Add8(l, r).c) = sum
  BY <1>2, <1>3, <1>4, <1>6
<1> QED
  BY <1>5, <1>7 DEF sum

LEMMA Halves ==
  ASSUME NEW w \in Words
  PROVE  w % 256 \in Bytes /\ w \div 256 \in Bytes /\ w = 256 * (w \div 256) + (w % 256)
<1> DEFINE q == w \div 256
           m == w % 256
<1>1. w \in Nat /\ w < 65536
  BY DEF Words
<1>2. m \in Nat /\ m < 256 /\ q \in Nat /\ q < 256
  BY <1>1
<1>3. w = 256 * q + m
  BY <1>1, Z3
<1>4. m \in Bytes /\ q \in Bytes
  BY <1>2, IsByte
<1> QED
  BY <1>3, <1>4

\* The sum of two words, added by halves, with the carry that comes out, is the integer
\* sum: the carry between the halves is neither lost nor counted twice.
THEOREM Add16IsExact ==
  ASSUME NEW l \in Words, NEW r \in Words
  PROVE  Add16(l, r).value + 65536 * Carry(Add16(l, r).c) = l + r
<1> DEFINE ll == l % 256
           lh == l \div 256
           rl == r % 256
           rh == r \div 256
           lo == Add8(ll, rl)
           hi == Adc8(lh, rh, lo.c)
<1>1. /\ ll \in Bytes /\ lh \in Bytes /\ rl \in Bytes /\ rh \in Bytes
      /\ l = 256 * lh + ll /\ r = 256 * rh + rl
  BY Halves
<1>2. Add16(l, r).value = hi.value * 256 + lo.value /\ Add16(l, r).c = hi.c
  BY DEF Add16
<1> HIDE DEF ll, lh, rl, rh
<1>3. lo.value \in Nat /\ lo.c \in BOOLEAN /\ lo.value + 256 * Carry(lo.c) = ll + rl
  BY <1>1, AddIsExact
<1> HIDE DEF lo
<1>4. /\ hi.value \in Nat /\ hi.c \in BOOLEAN
      /\ hi.value + 256 * Carry(hi.c) = lh + rh + Carry(lo.c)
  <2>1. lh \in Bytes /\ rh \in Bytes
    BY <1>1
  <2>2. hi.value \in Nat
    BY <2>1, AdcIsExact
  <2>3. hi.c \in BOOLEAN
    BY <2>1, AdcIsExact
  <2>4. hi.value + 256 * Carry(hi.c) = lh + rh + Carry(lo.c)
    BY <2>1, AdcIsExact
  <2> QED
    BY <2>2, <2>3, <2>4
<1>5. Carry(lo.c) \in {0, 1} /\ Carry(hi.c) \in {0, 1}
  BY <1>3, <1>4, CarryFacts
<1>6. Carry(Add16(l, r).c) = Carry(hi.c)
  BY <1>2
<1> HIDE DEF hi
<1> DEFINE a == lo.value  b == hi.value  c == Carry(lo.c)  d == Carry(hi.c)
<1>7. /\ a \in Nat /\ b \in Nat /\ c \in {0, 1} /\ d \in {0, 1}
      /\ a + 256 * c = ll + rl /\ b + 256 * d = lh + rh + c
  BY <1>3, <1>4, <1>5
<1>8. ll \in Nat /\ lh \in Nat /\ rl \in Nat /\ rh \in Nat
  BY <1>1, ByteFacts
<1>9. Add16(l, r).value + 65536 * Carry(Add16(l, r).c) = b * 256 + a + 65536 * d
  BY <1>2, <1>6
<1> HIDE DEF a, b, c, d
<1> QED
  BY <1>1, <1>7, <1>8, <1>9

\* A rotation through the carry is undone, result and carry, by the one the other way.
THEOREM RotationsUndo ==
  ASSUME NEW v \in Bytes, NEW carry \in BOOLEAN
  PROVE  LET left == Rl8(v, carry)
             right == Rr8(left.value, left.c)
         IN  right.value = v /\ right.c = carry
<1> DEFINE k == Carry(carry)
           x == ((2 * v) % 256) + k
           left == Rl8(v, carry)
           right == Rr8(left.value, left.c)
<1>1. v \in Nat /\ v < 256 /\ k \in {0, 1}
  BY ByteFacts, CarryFacts
<1>2. left.value = x /\ left.c = (v >= 128)
  BY DEF Rl8, Left, Top, Result
<1> HIDE DEF left
<1>3. right.value = (x \div 2) + (IF v >= 128 THEN 128 ELSE 0) /\ right.c = (x % 2 = 1)
  BY <1>2 DEF Rr8, Right, Odd, Result
<1>4. (k = 1) = carry
  BY DEF Carry
<1> HIDE DEF k, right
<1>5. (2 * v) % 256 = 2 * (IF v >= 128 THEN v - 128 ELSE v)
  BY <1>1
<1>6. x \div 2 = IF v >= 128 THEN v - 128 ELSE v
  BY <1>1, <1>5
<1>7. x % 2 = k
  BY <1>1, <1>5
<1> HIDE DEF x
<1>8. right.value = v
  BY <1>1, <1>3, <1>6
<1>9. right.c = carry
  BY <1>3, <1>4, <1>7
<1> QED
  BY <1>8, <1>9 DEF right, left
(***************************************************************************)
(* Registers and memory: what each access does, and that bytes stay bytes. *)
(***************************************************************************)
PairNames == {"BC", "DE", "HL", "AF", "SP"}

LEMMA IsWord ==
  ASSUME NEW w \in Nat, w < 65536
  PROVE  w \in Words
BY DEF Words

LEMMA BytesAreWords == Bytes \subseteq Words /\ 0 \in Bytes
<1>1. \A v \in Bytes : v \in Nat /\ v < 256
  BY ByteFacts
<1>2. 0 \in Bytes
  BY IsByte
<1>3. \A v \in Bytes : v \in Nat /\ v < 65536
  BY <1>1
<1>4. \A v \in Bytes : v \in Words
  BY <1>3, IsWord
<1> QED
  BY <1>2, <1>4

LEMMA WordFacts ==
  ASSUME NEW w \in Words
  PROVE  w \in Nat /\ w < 65536
BY DEF Words

LEMMA ModWord ==
  ASSUME NEW w \in Int
  PROVE  w % 65536 \in Words
<1>1. w % 65536 \in Nat /\ w % 65536 < 65536
  OBVIOUS
<1> QED
  BY <1>1, IsWord

LEMMA ModByte ==
  ASSUME NEW w \in Int
  PROVE  w % 256 \in Bytes
<1>1. w % 256 \in Nat /\ w % 256 < 256
  OBVIOUS
<1> QED
  BY <1>1, IsByte

LEMMA Names ==
  /\ Registers8 \subseteq Registers /\ "PC" \in Registers /\ "SP" \in Registers
  /\ "PC" \notin Registers8 /\ "SP" \notin Registers8
  /\ {"A", "F", "B", "C", "D", "E", "H", "L"} = Registers8
BY DEF Registers, Registers8

LEMMA MachineFields ==
  ASSUME NEW m \in Machines
  PROVE  /\ m = [reg |-> m.reg, mem |-> m.mem, status |-> m.status]
         /\ m.reg \in Regs /\ m.mem \in [DataAddrs -> Bytes] /\ m.status \in {0, 1}
         /\ \A r \in Registers : m.reg[r] \in Words
         /\ \A r \in Registers8 : m.reg[r] \in Bytes
<1>1. /\ m = [reg |-> m.reg, mem |-> m.mem, status |-> m.status]
      /\ m.reg \in Regs /\ m.mem \in [DataAddrs -> Bytes] /\ m.status \in {0, 1}
  BY DEF Machines
<1> QED
  BY <1>1 DEF Regs

\* n is m but for register r, which holds v.
Sets(m, r, v, n) ==
  /\ n \in Machines /\ n.mem = m.mem /\ n.status = m.status /\ n.reg[r] = v
  /\ \A q \in Registers : q # r => n.reg[q] = m.reg[q]
\* n is m but for the cell at addr, if there is one, which holds v.
Stores(m, addr, v, n) ==
  /\ n \in Machines /\ n.reg = m.reg /\ n.status = m.status
  /\ addr \in DataAddrs => n.mem[addr] = v
  /\ \A a \in DataAddrs : a # addr => n.mem[a] = m.mem[a]
\* n is a machine with the program counter of m.
Keeps(m, n) == n \in Machines /\ n.reg["PC"] = m.reg["PC"]

LEMMA SetRegOK ==
  ASSUME NEW m \in Machines, NEW r \in Registers, NEW v \in Words,
         r \in Registers8 => v \in Bytes
  PROVE  Sets(m, r, v, SetReg(m, r, v))
<1> DEFINE regs == [m.reg EXCEPT ![r] = v]
<1> DEFINE n == SetReg(m, r, v)
<1>1. m.reg \in [Registers -> Words] /\ \A q \in Registers8 : m.reg[q] \in Bytes
  BY MachineFields DEF Regs
<1>2. /\ regs \in [Registers -> Words] /\ regs[r] = v
      /\ \A q \in Registers : q # r => regs[q] = m.reg[q]
  BY <1>1
<1>3. regs \in Regs
  <2> HIDE DEF regs
  <2> QED
    BY <1>1, <1>2, Names DEF Regs
<1>4. n = [m EXCEPT !.reg = regs]
  BY DEF SetReg
<1> HIDE DEF n
<1>5. n = [reg |-> regs, mem |-> m.mem, status |-> m.status]
  BY <1>4, MachineFields
<1> HIDE DEF regs
<1>6. n \in Machines
  BY <1>3, <1>5, MachineFields DEF Machines
<1> QED
  BY <1>2, <1>5, <1>6 DEF n, Sets

LEMMA ReadOK ==
  ASSUME NEW m \in Machines, NEW addr
  PROVE  Read(m, addr) \in Bytes
<1>1. 255 \in Bytes
  BY IsByte
<1> QED
  BY <1>1, MachineFields DEF Read

LEMMA WriteOK ==
  ASSUME NEW m \in Machines, NEW addr, NEW v \in Bytes
  PROVE  Stores(m, addr, v, Write(m, addr, v))
<1> DEFINE cells == [m.mem EXCEPT ![addr] = v]
<1>1. m.mem \in [DataAddrs -> Bytes]
  BY MachineFields
<1>2. CASE addr \in DataAddrs
  <2> DEFINE n == Write(m, addr, v)
  <2>1. /\ cells \in [DataAddrs -> Bytes] /\ cells[addr] = v
        /\ \A a \in DataAddrs : a # addr => cells[a] = m.mem[a]
    BY <1>1, <1>2
  <2>2. n = [m EXCEPT !.mem = cells]
    BY <1>1, <1>2 DEF Write
  <2> HIDE DEF n
  <2>3. n = [reg |-> m.reg, mem |-> cells, status |-> m.status]
    BY <2>2, MachineFields
  <2> HIDE DEF cells
  <2>4. n \in Machines
    BY <2>1, <2>3, MachineFields DEF Machines
  <2> QED
    BY <1>2, <2>1, <2>3, <2>4 DEF n, Stores
<1>3. CASE addr \notin DataAddrs
  <2>1. Write(m, addr, v) = m
    BY <1>1, <1>3 DEF Write
  <2> QED
    BY <1>3, <2>1 DEF Stores
<1> QED
  BY <1>2, <1>3

LEMMA PairParts ==
  ASSUME NEW p \in PairNames, p # "SP"
  PROVE  Pairs[p][1] \in Registers8 /\ Pairs[p][2] \in Registers8 /\ Pairs[p][1] # Pairs[p][2]
BY DEF PairNames, Pairs, Registers8

LEMMA OfHalves ==
  ASSUME NEW h \in Bytes, NEW l \in Bytes
  PROVE  h * 256 + l \in Words /\ (h * 256 + l) \div 256 = h /\ (h * 256 + l) % 256 = l
<1>1. h \in Nat /\ h < 256 /\ l \in Nat /\ l < 256
  BY ByteFacts
<1>2. h * 256 + l \in Nat /\ h * 256 + l < 65536
  BY <1>1
<1>3. (h * 256 + l) \div 256 = h /\ (h * 256 + l) % 256 = l
  BY <1>1
<1> QED
  BY <1>2, <1>3, IsWord

LEMMA PairOK ==
  ASSUME NEW m \in Machines, NEW p \in PairNames
  PROVE  Pair(m, p) \in Words
<1>1. CASE p = "SP"
  BY <1>1, MachineFields, Names DEF Pair
<1>2. CASE p # "SP"
  <2>1. m.reg[Pairs[p][1]] \in Bytes /\ m.reg[Pairs[p][2]] \in Bytes
    BY <1>2, PairParts, MachineFields
  <2>2. Pair(m, p) = m.reg[Pairs[p][1]] * 256 + m.reg[Pairs[p][2]]
    BY <1>2 DEF Pair
  <2> QED
    BY <2>1, <2>2, OfHalves
<1> QED
  BY <1>1, <1>2

LEMMA SetPairOK ==
  ASSUME NEW m \in Machines, NEW p \in PairNames, NEW w \in Words
  PROVE  /\ Keeps(m, SetPair(m, p, w))
         /\ Pair(SetPair(m, p, w), p) = w
<1>1. CASE p = "SP"
  <2>1. SetPair(m, p, w) = SetReg(m, "SP", w)
    BY <1>1 DEF SetPair
  <2>2. Sets(m, "SP", w, SetReg(m, "SP", w))
    BY SetRegOK, Names
  <2> QED
    BY <1>1, <2>1, <2>2, Names DEF Pair, Sets, Keeps
<1>2. CASE p # "SP"
  <2> DEFINE hi == Pairs[p][1]
             lo == Pairs[p][2]
             wh == w \div 256
             wl == w % 256
             half == SetReg(m, hi, wh)
             n == SetReg(half, lo, wl)
  <2>1. /\ hi \in Registers /\ lo \in Registers /\ hi # lo /\ hi # "PC" /\ lo # "PC"
    BY <1>2, PairParts, Names
  <2>2. wh \in Bytes /\ wl \in Bytes /\ w = 256 * wh + wl
    BY Halves
  <2>3. wh \in Words /\ wl \in Words /\ wh \in Nat /\ wl \in Nat
    BY <2>2, BytesAreWords, ByteFacts
  <2>4. SetPair(m, p, w) = n
    BY <1>2 DEF SetPair
  <2>5. Pair(n, p) = n.reg[hi] * 256 + n.reg[lo]
    BY <1>2 DEF Pair
  <2> HIDE DEF hi, lo, wh, wl
  <2>6. Sets(m, hi, wh, half)
    BY <2>1, <2>2, <2>3, SetRegOK
  <2>7. half \in Machines
    BY <2>6 DEF Sets
  <2> HIDE DEF half
  <2>8. Sets(half, lo, wl, n)
    BY <2>1, <2>2, <2>3, <2>7, SetRegOK
  <2> HIDE DEF n
  <2>9. n \in Machines /\ n.reg[lo] = wl /\ n.reg[hi] = wh /\ n.reg["PC"] = m.reg["PC"]
    BY <2>1, <2>6, <2>8, Names DEF Sets
  <2>10. Pair(n, p) = w
    BY <2>2, <2>3, <2>5, <2>9
  <2> QED
    BY <2>4, <2>9, <2>10 DEF Keeps
<1> QED
  BY <1>1, <1>2

-----------------------------------------------------------------------------
(* What the parts of an instruction keep.                                  *)

LEMMA KeepsTwice ==
  ASSUME NEW m, NEW n, NEW o, Keeps(m, n), Keeps(n, o)
  PROVE  Keeps(m, o)
BY DEF Keeps

LEMMA SetKeeps ==
  ASSUME NEW m \in Machines, NEW r \in Registers8, NEW v \in Bytes
  PROVE  Keeps(m, SetReg(m, r, v))
<1>1. r \in Registers /\ v \in Words /\ r # "PC"
  BY Names, BytesAreWords
<1>2. Sets(m, r, v, SetReg(m, r, v))
  BY <1>1, SetRegOK
<1> QED
  BY <1>1, <1>2, Names DEF Sets, Keeps

LEMMA WriteKeeps ==
  ASSUME NEW m \in Machines, NEW addr, NEW v \in Bytes
  PROVE  Keeps(m, Write(m, addr, v))
<1>1. Stores(m, addr, v, Write(m, addr, v))
  BY WriteOK
<1> QED
  BY <1>1 DEF Stores, Keeps

LEMMA FlagByte ==
  ASSUME NEW a \in {0, 1}, NEW b \in {0, 1}, NEW c \in {0, 1}, NEW d \in {0, 1}
  PROVE  128 * a + 64 * b + 32 * c + 16 * d \in Bytes
<1> DEFINE v == 128 * a + 64 * b + 32 * c + 16 * d
<1>1. v \in Nat /\ v < 256
  OBVIOUS
<1> HIDE DEF v
<1>2. v \in Bytes
  BY <1>1, IsByte
<1> QED
  BY <1>2 DEF v

LEMMA FlagsKeep ==
  ASSUME NEW m \in Machines, NEW z, NEW n, NEW h, NEW c
  PROVE  Keeps(m, SetFlags(m, z, n, h, c))
<1> DEFINE f == 128 * Carry(z) + 64 * Carry(n) + 32 * Carry(h) + 16 * Carry(c)
<1>1. f \in Bytes
  BY FlagByte, CarryFacts
<1>2. SetFlags(m, z, n, h, c) = SetReg(m, "F", f)
  BY DEF SetFlags
<1> HIDE DEF f
<1> QED
  BY <1>1, <1>2, SetKeeps, Names

LEMMA SkipOK ==
  ASSUME NEW m \in Machines, NEW k \in Nat
  PROVE  /\ Sets(m, "PC", (m.reg["PC"] + k) % 65536, Skip(m, k))
         /\ Skip(m, k) \in Machines
<1> DEFINE v == (m.reg["PC"] + k) % 65536
<1>1. m.reg["PC"] \in Nat
  BY MachineFields, Names, WordFacts
<1>2. v \in Words
  BY <1>1, ModWord
<1>3. Skip(m, k) = SetReg(m, "PC", v)
  BY DEF Skip
<1> HIDE DEF v
<1>4. Sets(m, "PC", v, SetReg(m, "PC", v))
  BY <1>2, SetRegOK, Names
<1> QED
  BY <1>3, <1>4 DEF v, Sets

Operands == {"B", "C", "D", "E", "H", "L", "(HL)", "A"}

LEMMA EightCases ==
  ASSUME NEW k \in Int
  PROVE  (k % 8) + 1 \in 1..8
OBVIOUS

LEMMA FourCases ==
  ASSUME NEW k \in Int
  PROVE  (k % 4) + 1 \in 1..4
OBVIOUS

LEMMA OperandOf ==
  ASSUME NEW k \in 1..8
  PROVE  Operand8[k] \in Operands
<1>1. k \in {1, 2, 3, 4, 5, 6, 7, 8}
  OBVIOUS
<1> QED
  BY <1>1 DEF Operand8, Operands

LEMMA OperandsNamed ==
  ASSUME NEW op \in Bytes
  PROVE  Source(op) \in Operands /\ Target(op) \in Operands
<1>1. op \in Int /\ op \div 8 \in Int
  BY ByteFacts
<1>2. (op % 8) + 1 \in 1..8 /\ ((op \div 8) % 8) + 1 \in 1..8
  BY <1>1, EightCases
<1> QED
  BY <1>2, OperandOf DEF Source, Target

LEMMA PairNamed ==
  ASSUME NEW op \in Bytes, NEW last \in {"SP", "AF"}
  PROVE  PairOf(op, last) \in PairNames
<1> DEFINE k == ((op \div 16) % 4) + 1
<1>1. op \div 16 \in Int
  BY ByteFacts
<1>2. k \in 1..4
  BY <1>1, FourCases
<1> HIDE DEF k
<1>3. k \in {1, 2, 3, 4}
  BY <1>2
<1>4. <<"BC", "DE", "HL", last>>[k] \in PairNames
  BY <1>3 DEF PairNames
<1> QED
  BY <1>4 DEF PairOf, k

LEMMA GetOK ==
  ASSUME NEW m \in Machines, NEW o \in Operands
  PROVE  Get(m, o) \in Bytes
<1>1. CASE o = "(HL)"
  BY <1>1, ReadOK DEF Get
<1>2. CASE o # "(HL)"
  <2>1. o \in Registers8
    BY <1>2 DEF Operands, Registers8
  <2> QED
    BY <1>2, <2>1, MachineFields DEF Get
<1> QED
  BY <1>1, <1>2

LEMMA PutKeeps ==
  ASSUME NEW m \in Machines, NEW o \in Operands, NEW v \in Bytes
  PROVE  Keeps(m, Put(m, o, v))
<1>1. CASE o = "(HL)"
  <2>1. Put(m, o, v) = Write(m, Pair(m, "HL"), v)
    BY <1>1 DEF Put
  <2> QED
    BY <2>1, WriteKeeps
<1>2. CASE o # "(HL)"
  <2>1. o \in Registers8 /\ Put(m, o, v) = SetReg(m, o, v)
    BY <1>2 DEF Operands, Registers8, Put
  <2> QED
    BY <2>1, SetKeeps
<1> QED
  BY <1>1, <1>2

-----------------------------------------------------------------------------
(* The stack.                                                              *)

LEMMA IncDec16 ==
  ASSUME NEW w \in Words
  PROVE  /\ Inc16(w) \in Words /\ Dec16(w) \in Words
         /\ Inc16(w) = IF w = 65535 THEN 0 ELSE w + 1
         /\ Dec16(w) = IF w = 0 THEN 65535 ELSE w - 1
<1>1. w \in Nat /\ w < 65536
  BY WordFacts
<1>2. (w + 1) % 65536 \in Words /\ (w - 1) % 65536 \in Words
  BY <1>1, ModWord
<1>3. /\ (w + 1) % 65536 = IF w = 65535 THEN 0 ELSE w + 1
      /\ (w - 1) % 65536 = IF w = 0 THEN 65535 ELSE w - 1
  BY <1>1
<1> QED
  BY <1>2, <1>3 DEF Inc16, Dec16

\* n is m with one byte more on the stack.
PushedByte(m, v, n) ==
  /\ Keeps(m, n) /\ n.reg["SP"] = Dec16(m.reg["SP"])
  /\ n.reg["SP"] \in DataAddrs => n.mem[n.reg["SP"]] = v
  /\ \A a \in DataAddrs : a # n.reg["SP"] => n.mem[a] = m.mem[a]

LEMMA PushByteOK ==
  ASSUME NEW m \in Machines, NEW v \in Bytes
  PROVE  PushedByte(m, v, PushByte(m, v))
<1> DEFINE sp == Dec16(m.reg["SP"])
           down == SetReg(m, "SP", sp)
           n == Write(down, sp, v)
<1>1. sp \in Words
  BY MachineFields, Names, IncDec16
<1>2. PushByte(m, v) = n
  BY DEF PushByte
<1> HIDE DEF sp
<1>3. Sets(m, "SP", sp, down)
  BY <1>1, SetRegOK, Names
<1>4. down \in Machines
  BY <1>3 DEF Sets
<1> HIDE DEF down
<1>5. Stores(down, sp, v, n)
  BY <1>4, WriteOK
<1> HIDE DEF n
<1>6. n \in Machines /\ n.reg["PC"] = m.reg["PC"] /\ n.reg["SP"] = sp
  BY <1>3, <1>5, Names DEF Sets, Stores
<1>7. /\ sp \in DataAddrs => n.mem[sp] = v
      /\ \A a \in DataAddrs : a # sp => n.mem[a] = m.mem[a]
  BY <1>3, <1>5 DEF Sets, Stores
<1> QED
  BY <1>2, <1>6, <1>7 DEF PushedByte, Keeps, sp

LEMMA PushOK ==
  ASSUME NEW m \in Machines, NEW w \in Words
  PROVE  LET n == Push(m, w)
             sp == n.reg["SP"]
         IN  /\ Keeps(m, n)
             /\ sp \in DataAddrs /\ Inc16(sp) \in DataAddrs => w = n.mem[Inc16(sp)] * 256 + n.mem[sp]
<1> DEFINE hi == w \div 256
           lo == w % 256
           half == PushByte(m, hi)
           n == PushByte(half, lo)
           sp == n.reg["SP"]
<1>1. hi \in Bytes /\ lo \in Bytes /\ w = 256 * hi + lo
  BY Halves
<1>2. Push(m, w) = n
  BY DEF Push
<1>3. hi \in Nat /\ lo \in Nat
  BY <1>1, ByteFacts
<1> HIDE DEF hi, lo
<1>4. PushedByte(m, hi, half)
  BY <1>1, PushByteOK
<1>5. half \in Machines
  BY <1>4 DEF PushedByte, Keeps
<1> HIDE DEF half
<1>6. PushedByte(half, lo, n)
  BY <1>1, <1>5, PushByteOK
<1> HIDE DEF n
<1>7. Keeps(m, n)
  BY <1>4, <1>6, KeepsTwice DEF PushedByte
<1> DEFINE top == half.reg["SP"]
<1>8. top \in Words /\ sp = Dec16(top)
  BY <1>5, <1>6, MachineFields, Names DEF PushedByte
<1>9. ASSUME sp \in DataAddrs, Inc16(sp) \in DataAddrs
      PROVE  w = n.mem[Inc16(sp)] * 256 + n.mem[sp]
  <2>1. sp = (IF top = 0 THEN 65535 ELSE top - 1) /\ sp \in Words /\ top \in Nat
    BY <1>8, IncDec16, WordFacts
  <2>2. Inc16(sp) = top /\ top # sp
    <3>1. Inc16(sp) = IF sp = 65535 THEN 0 ELSE sp + 1
      BY <2>1, IncDec16
    <3>2. top < 65536
      BY <1>8, WordFacts
    <3> HIDE DEF sp, top
    <3> QED
      BY <2>1, <3>1, <3>2
  <2>3. n.mem[sp] = lo /\ n.mem[top] = half.mem[top]
    BY <1>6, <1>9, <2>2 DEF PushedByte
  <2>4. half.mem[top] = hi
    BY <1>4, <1>9, <2>2 DEF PushedByte
  <2> QED
    BY <1>1, <1>3, <2>2, <2>3, <2>4
<1> QED
  BY <1>2, <1>7, <1>9

LEMMA PopOK ==
  ASSUME NEW m \in Machines
  PROVE  /\ Keeps(m, Pop(m)) /\ Pop(m).mem = m.mem
         /\ Pop(m).reg["SP"] = Inc16(Inc16(m.reg["SP"]))
         /\ Popped(m) \in Words
<1> DEFINE up == Inc16(m.reg["SP"])
           half == SetReg(m, "SP", up)
           upper == Inc16(half.reg["SP"])
           n == SetReg(half, "SP", upper)
<1>1. up \in Words
  BY MachineFields, Names, IncDec16
<1>2. Pop(m) = n
  BY DEF Pop, PopByte
<1> HIDE DEF up
<1>3. Sets(m, "SP", up, half)
  BY <1>1, SetRegOK, Names
<1>4. half \in Machines /\ half.reg["SP"] = up
  BY <1>3 DEF Sets
<1> HIDE DEF half
<1>5. upper \in Words
  BY <1>1, <1>4, IncDec16
<1> HIDE DEF upper
<1>6. Sets(half, "SP", upper, n)
  BY <1>4, <1>5, SetRegOK, Names
<1> HIDE DEF n
<1>7. Keeps(m, n) /\ n.mem = m.mem /\ n.reg["SP"] = upper
  BY <1>3, <1>6, Names DEF Sets, Keeps
<1>8. upper = Inc16(Inc16(m.reg["SP"]))
  BY <1>4 DEF upper, up
<1>9. Popped(m) \in Words
  BY ReadOK, OfHalves DEF Popped
<1> QED
  BY <1>2, <1>7, <1>8, <1>9

-----------------------------------------------------------------------------
(* Jumps, returns and calls.                                               *)

LEMMA SetPC ==
  ASSUME NEW m \in Machines, NEW v \in Words
  PROVE  LET n == SetReg(m, "PC", v)
         IN  n \in Machines /\ n.reg["PC"] = v /\ n.reg["SP"] = m.reg["SP"] /\ n.mem = m.mem
<1>1. Sets(m, "PC", v, SetReg(m, "PC", v))
  BY SetRegOK, Names
<1> QED
  BY <1>1, Names DEF Sets

LEMMA WordOK ==
  ASSUME NEW i \in Bytes \X Bytes \X Bytes
  PROVE  /\ i[1] \in Bytes /\ i[2] \in Bytes /\ i[3] \in Bytes /\ Word(i) \in Words
         /\ Word(i) = i[2] + 256 * i[3]
<1>1. i[1] \in Bytes /\ i[2] \in Bytes /\ i[3] \in Bytes
  OBVIOUS
<1>2. Word(i) = i[3] * 256 + i[2]
  BY DEF Word
<1>3. i[3] * 256 + i[2] \in Words
  BY <1>1, OfHalves
<1>4. i[2] \in Nat /\ i[3] \in Nat
  BY <1>1, ByteFacts
<1> QED
  BY <1>1, <1>2, <1>3, <1>4

LEMMA JrOK ==
  ASSUME NEW m \in Machines, NEW i \in Bytes \X Bytes \X Bytes
  PROVE  LET n == Jr(m, i)
             next == (m.reg["PC"] + 1) % 65536
         IN  /\ n \in Machines /\ n.mem = m.mem /\ n.reg["SP"] = m.reg["SP"]
             /\ Taken(m, i[1]) => n.reg["PC"] = (next + Signed(i[2])) % 65536
             /\ ~Taken(m, i[1]) => n.reg["PC"] = next
<1> DEFINE after == Skip(m, 1)
           next == (m.reg["PC"] + 1) % 65536
           target == (next + Signed(i[2])) % 65536
<1>1. /\ after \in Machines /\ after.mem = m.mem /\ after.reg["SP"] = m.reg["SP"]
      /\ after.reg["PC"] = next
  BY SkipOK, Names DEF Sets
<1>2. target \in Words
  <2>1. next \in Int
    BY MachineFields, Names, WordFacts
  <2>2. Signed(i[2]) \in Int
    BY WordOK, ByteFacts DEF Signed
  <2> HIDE DEF next
  <2> QED
    BY <2>1, <2>2, ModWord
<1>3. Jr(m, i) = IF Taken(m, i[1]) THEN SetReg(after, "PC", (after.reg["PC"] + Signed(i[2])) % 65536)
                 ELSE after
  BY DEF Jr
<1> HIDE DEF after
<1>4. Jr(m, i) = IF Taken(m, i[1]) THEN SetReg(after, "PC", target) ELSE after
  BY <1>1, <1>3
<1> HIDE DEF target, next
<1>5. LET n == SetReg(after, "PC", target)
      IN  /\ n \in Machines /\ n.reg["PC"] = target
          /\ n.reg["SP"] = after.reg["SP"] /\ n.mem = after.mem
  BY <1>1, <1>2, SetPC
<1>6. /\ Jr(m, i) \in Machines /\ Jr(m, i).mem = m.mem /\ Jr(m, i).reg["SP"] = m.reg["SP"]
      /\ Taken(m, i[1]) => Jr(m, i).reg["PC"] = target
      /\ ~Taken(m, i[1]) => Jr(m, i).reg["PC"] = next
  BY <1>1, <1>4, <1>5
<1> QED
  BY <1>6 DEF target, next

LEMMA RetOK ==
  ASSUME NEW m \in Machines, NEW i
  PROVE  LET n == Ret(m, i)
         IN  /\ n \in Machines /\ n.mem = m.mem
             /\ Taken(m, i[1]) => /\ n.reg["PC"] = Popped(m)
                                  /\ n.reg["SP"] = Inc16(Inc16(m.reg["SP"]))
             /\ ~Taken(m, i[1]) => n = m
<1> DEFINE after == Pop(m)
           n == SetReg(after, "PC", Popped(m))
<1>1. /\ after \in Machines /\ after.mem = m.mem
      /\ after.reg["SP"] = Inc16(Inc16(m.reg["SP"])) /\ Popped(m) \in Words
  BY PopOK DEF Keeps
<1>2. Ret(m, i) = IF Taken(m, i[1]) THEN n ELSE m
  BY DEF Ret
<1> HIDE DEF after
<1>3. /\ n \in Machines /\ n.reg["PC"] = Popped(m)
      /\ n.reg["SP"] = after.reg["SP"] /\ n.mem = after.mem
  BY <1>1, SetPC
<1> HIDE DEF n
<1> QED
  BY <1>1, <1>2, <1>3

LEMMA CallOK ==
  ASSUME NEW m \in Machines, NEW i \in Bytes \X Bytes \X Bytes
  PROVE  LET n == Call(m, i)
             next == (m.reg["PC"] + 2) % 65536
             sp == n.reg["SP"]
         IN  /\ n \in Machines
             /\ Taken(m, i[1]) =>
                  /\ n.reg["PC"] = Word(i)
                  /\ sp \in DataAddrs /\ Inc16(sp) \in DataAddrs =>
                       next = n.mem[Inc16(sp)] * 256 + n.mem[sp]
             /\ ~Taken(m, i[1]) => n.reg["PC"] = next /\ sp = m.reg["SP"]
<1> DEFINE after == Skip(m, 2)
           next == (m.reg["PC"] + 2) % 65536
           pushed == Push(after, after.reg["PC"])
           n == SetReg(pushed, "PC", Word(i))
           sp == pushed.reg["SP"]
<1>1. after \in Machines /\ after.reg["SP"] = m.reg["SP"] /\ after.reg["PC"] = next
  BY SkipOK, Names DEF Sets
<1>2. after.reg["PC"] \in Words
  BY <1>1, MachineFields, Names
<1>3. Call(m, i) = IF Taken(m, i[1]) THEN n ELSE after
  BY DEF Call
<1> HIDE DEF after, next
<1>4. Keeps(after, pushed)
  BY <1>1, <1>2, PushOK
<1>5. sp \in DataAddrs /\ Inc16(sp) \in DataAddrs =>
        next = pushed.mem[Inc16(sp)] * 256 + pushed.mem[sp]
  BY <1>1, <1>2, PushOK
<1>6. pushed \in Machines /\ Word(i) \in Words
  BY <1>4, WordOK DEF Keeps
<1> HIDE DEF pushed
<1>7. /\ n \in Machines /\ n.reg["PC"] = Word(i)
      /\ n.reg["SP"] = sp /\ n.mem = pushed.mem
  BY <1>6, SetPC
<1> HIDE DEF n
<1>8. Taken(m, i[1]) =>
        /\ Call(m, i) \in Machines /\ Call(m, i).reg["PC"] = Word(i)
        /\ Call(m, i).reg["SP"] = sp /\ Call(m, i).mem = pushed.mem
  BY <1>3, <1>7
<1>9. ~Taken(m, i[1]) => Call(m, i) = after
  BY <1>3
<1> QED
  BY <1>1, <1>5, <1>8, <1>9 DEF next

-----------------------------------------------------------------------------
(* Loads.  n comes of m by an instruction that has fetched k bytes more.   *)

Fetches(m, k, n) == n \in Machines /\ n.reg["PC"] = (m.reg["PC"] + k) % 65536

LEMMA FetchesNone ==
  ASSUME NEW m \in Machines, NEW n, Keeps(m, n)
  PROVE  Fetches(m, 0, n)
<1>1. m.reg["PC"] \in Nat /\ m.reg["PC"] < 65536
  BY MachineFields, Names, WordFacts
<1>2. (m.reg["PC"] + 0) % 65536 = m.reg["PC"]
  BY <1>1
<1> QED
  BY <1>2 DEF Keeps, Fetches

LEMMA FetchesSome ==
  ASSUME NEW m \in Machines, NEW k \in Nat, NEW n, Keeps(Skip(m, k), n)
  PROVE  Fetches(m, k, n)
BY SkipOK DEF Keeps, Fetches, Sets

LEMMA LoadImmediateOK ==
  ASSUME NEW m \in Machines, NEW i \in Bytes \X Bytes \X Bytes
  PROVE  Fetches(m, 1, LoadImmediate(m, i))
<1> DEFINE after == Skip(m, 1)
           t == Target(i[1])
<1>1. after \in Machines /\ t \in Operands /\ i[2] \in Bytes
  BY SkipOK, OperandsNamed, WordOK
<1>2. LoadImmediate(m, i) = Put(after, t, i[2])
  BY DEF LoadImmediate
<1> HIDE DEF t
<1>3. Keeps(after, LoadImmediate(m, i))
  <2> HIDE DEF after
  <2> QED
    BY <1>1, <1>2, PutKeeps
<1> QED
  BY <1>3, FetchesSome

LEMMA LoadRegisterOK ==
  ASSUME NEW m \in Machines, NEW i \in Bytes \X Bytes \X Bytes
  PROVE  Fetches(m, 0, LoadRegister(m, i))
<1>1. Source(i[1]) \in Operands /\ Target(i[1]) \in Operands
  BY OperandsNamed, WordOK
<1>2. Get(m, Source(i[1])) \in Bytes
  BY <1>1, GetOK
<1>3. Keeps(m, LoadRegister(m, i))
  BY <1>1, <1>2, PutKeeps DEF LoadRegister
<1> QED
  BY <1>3, FetchesNone

LEMMA PairsNamed == {"BC", "DE", "HL", "AF", "SP"} = PairNames
BY DEF PairNames

LEMMA MovedKeeps ==
  ASSUME NEW m \in Machines, NEW op
  PROVE  Keeps(m, Moved(m, op))
<1> DEFINE hl == Pair(m, "HL")
           up == SetPair(m, "HL", Inc16(hl))
           down == SetPair(m, "HL", Dec16(hl))
<1>1. hl \in Words
  BY PairOK, PairsNamed
<1> HIDE DEF hl
<1>2. Keeps(m, up) /\ Keeps(m, down)
  BY <1>1, SetPairOK, PairsNamed, IncDec16
<1> HIDE DEF up, down
<1>3. Keeps(m, m)
  BY DEF Keeps
<1>4. Moved(m, op) \in {up, down, m}
  BY DEF Moved, up, down, hl
<1> QED
  BY <1>2, <1>3, <1>4

LEMMA StoreIndirectOK ==
  ASSUME NEW m \in Machines, NEW i
  PROVE  Fetches(m, 0, StoreIndirect(m, i))
<1>1. Keeps(m, Moved(m, i[1]))
  BY MovedKeeps
<1>2. Moved(m, i[1]) \in Machines /\ m.reg.A \in Bytes
  BY <1>1, MachineFields, Names DEF Keeps
<1>3. Keeps(Moved(m, i[1]), StoreIndirect(m, i))
  BY <1>2, WriteKeeps DEF StoreIndirect
<1>4. Keeps(m, StoreIndirect(m, i))
  BY <1>1, <1>3, KeepsTwice
<1> QED
  BY <1>4, FetchesNone

LEMMA LoadIndirectOK ==
  ASSUME NEW m \in Machines, NEW i
  PROVE  Fetches(m, 0, LoadIndirect(m, i))
<1>1. Keeps(m, Moved(m, i[1]))
  BY MovedKeeps
<1>2. Moved(m, i[1]) \in Machines /\ Read(m, Pair(m, Indirect(i[1]))) \in Bytes
  BY <1>1, ReadOK DEF Keeps
<1>3. Keeps(Moved(m, i[1]), LoadIndirect(m, i))
  BY <1>2, SetKeeps, Names DEF LoadIndirect
<1>4. Keeps(m, LoadIndirect(m, i))
  BY <1>1, <1>3, KeepsTwice
<1> QED
  BY <1>4, FetchesNone

LEMMA LoadHighOK ==
  ASSUME NEW m \in Machines, NEW i, i[1] \in {224, 226, 240, 242}
  PROVE  Fetches(m, IF i[1] \in {224, 240} THEN 1 ELSE 0, LoadHigh(m, i))
<1> DEFINE after == Skip(m, 1)
<1>1. after \in Machines
  BY SkipOK
<1>2. /\ i[1] = 224 => LoadHigh(m, i) = Write(after, 65280 + i[2], m.reg.A)
      /\ i[1] = 240 => LoadHigh(m, i) = SetReg(after, "A", Read(m, 65280 + i[2]))
      /\ i[1] = 226 => LoadHigh(m, i) = Write(m, 65280 + m.reg.C, m.reg.A)
      /\ i[1] = 242 => LoadHigh(m, i) = SetReg(m, "A", Read(m, 65280 + m.reg.C))
  BY DEF LoadHigh
<1>3. m.reg.A \in Bytes /\ "A" \in Registers8
  BY MachineFields, Names
<1>4. Read(m, 65280 + i[2]) \in Bytes /\ Read(m, 65280 + m.reg.C) \in Bytes
  BY ReadOK
<1>5. CASE i[1] \in {224, 240}
  <2>1. Keeps(after, LoadHigh(m, i))
    <3> HIDE DEF after
    <3>1. CASE i[1] = 224
      BY <1>1, <1>2, <1>3, <3>1, WriteKeeps
    <3>2. CASE i[1] = 240
      BY <1>1, <1>2, <1>3, <1>4, <3>2, SetKeeps
    <3> QED
      BY <1>5, <3>1, <3>2
  <2>2. Fetches(m, 1, LoadHigh(m, i))
    BY <2>1, FetchesSome
  <2> QED
    BY <1>5, <2>2
<1>6. CASE i[1] \in {226, 242}
  <2>1. Keeps(m, LoadHigh(m, i))
    <3>1. CASE i[1] = 226
      BY <1>2, <1>3, <3>1, WriteKeeps
    <3>2. CASE i[1] = 242
      BY <1>2, <1>3, <1>4, <3>2, SetKeeps
    <3> QED
      BY <1>6, <3>1, <3>2
  <2>2. Fetches(m, 0, LoadHigh(m, i))
    BY <2>1, FetchesNone
  <2>3. i[1] \notin {224, 240}
    BY <1>6
  <2> QED
    BY <2>2, <2>3
<1> QED
  BY <1>5, <1>6

LEMMA LoadAbsoluteOK ==
  ASSUME NEW m \in Machines, NEW i
  PROVE  Fetches(m, 2, LoadAbsolute(m, i))
<1> DEFINE after == Skip(m, 2)
<1>1. after \in Machines
  BY SkipOK
<1>2. m.reg.A \in Bytes /\ "A" \in Registers8 /\ Read(m, Word(i)) \in Bytes
  BY MachineFields, Names, ReadOK
<1>3. Keeps(after, LoadAbsolute(m, i))
  <2> HIDE DEF after
  <2>1. Keeps(after, Write(after, Word(i), m.reg.A))
    BY <1>1, <1>2, WriteKeeps
  <2>2. Keeps(after, SetReg(after, "A", Read(m, Word(i))))
    BY <1>1, <1>2, SetKeeps
  <2> QED
    BY <2>1, <2>2 DEF LoadAbsolute, after
<1> QED
  BY <1>3, FetchesSome

LEMMA LoadPairOK ==
  ASSUME NEW m \in Machines, NEW i \in Bytes \X Bytes \X Bytes
  PROVE  Fetches(m, 2, LoadPair(m, i))
<1> DEFINE after == Skip(m, 2)
           p == PairOf(i[1], "SP")
<1>1. after \in Machines /\ p \in PairNames /\ Word(i) \in Words
  BY SkipOK, PairNamed, WordOK
<1>2. LoadPair(m, i) = SetPair(after, p, Word(i))
  BY DEF LoadPair
<1> HIDE DEF p
<1>3. Keeps(after, LoadPair(m, i))
  <2> HIDE DEF after
  <2> QED
    BY <1>1, <1>2, SetPairOK
<1> QED
  BY <1>3, FetchesSome

LEMMA PopPairOK ==
  ASSUME NEW m \in Machines, NEW i \in Bytes \X Bytes \X Bytes
  PROVE  /\ Fetches(m, 0, PopPair(m, i))
         /\ Pair(PopPair(m, i), PairOf(i[1], "AF")) = Popped(m)
<1> DEFINE after == Pop(m)
           p == PairOf(i[1], "AF")
<1>1. Keeps(m, after) /\ p \in PairNames /\ Popped(m) \in Words
  BY PopOK, PairNamed, WordOK
<1>2. PopPair(m, i) = SetPair(after, p, Popped(m))
  BY DEF PopPair
<1> HIDE DEF p, after
<1>3. after \in Machines
  BY <1>1 DEF Keeps
<1>4. Keeps(after, PopPair(m, i)) /\ Pair(PopPair(m, i), p) = Popped(m)
  BY <1>1, <1>2, <1>3, SetPairOK
<1>5. Keeps(m, PopPair(m, i))
  BY <1>1, <1>4, KeepsTwice
<1> QED
  BY <1>4, <1>5, FetchesNone DEF p

LEMMA PushPairOK ==
  ASSUME NEW m \in Machines, NEW i \in Bytes \X Bytes \X Bytes
  PROVE  LET n == PushPair(m, i)
             sp == n.reg["SP"]
         IN  /\ Fetches(m, 0, n)
             /\ sp \in DataAddrs /\ Inc16(sp) \in DataAddrs =>
                  Pair(m, PairOf(i[1], "AF")) = n.mem[Inc16(sp)] * 256 + n.mem[sp]
<1> DEFINE w == Pair(m, PairOf(i[1], "AF"))
           n == Push(m, w)
           sp == n.reg["SP"]
<1>1. w \in Words
  BY PairOK, PairNamed, WordOK
<1>2. PushPair(m, i) = n
  BY DEF PushPair
<1> HIDE DEF w
<1>3. /\ Keeps(m, n)
      /\ sp \in DataAddrs /\ Inc16(sp) \in DataAddrs => w = n.mem[Inc16(sp)] * 256 + n.mem[sp]
  BY <1>1, PushOK
<1> HIDE DEF n
<1>4. Fetches(m, 0, n)
  BY <1>3, FetchesNone
<1> QED
  BY <1>2, <1>3, <1>4 DEF w

-----------------------------------------------------------------------------
(* Arithmetic and logic: the results are bytes.                            *)

LEMMA BitValue ==
  ASSUME NEW k \in 0..7, NEW v \in Bytes
  PROVE  Bit(k, v) \in {0, 1}
<1> DEFINE q == v \div Power[k + 1]
<1>1. v \in Nat
  BY ByteFacts
<1>2. k \in {0, 1, 2, 3, 4, 5, 6, 7}
  OBVIOUS
<1>3. q \in Int
  BY <1>1, <1>2 DEF Power
<1> HIDE DEF q
<1>4. q % 2 \in {0, 1}
  BY <1>3
<1> QED
  BY <1>4 DEF Bit, q

LEMMA SmallKs == 0 \in 0..7 /\ 1 \in 0..7 /\ 2 \in 0..7 /\ 3 \in 0..7
                 /\ 4 \in 0..7 /\ 5 \in 0..7 /\ 6 \in 0..7 /\ 7 \in 0..7
OBVIOUS

LEMMA EightBits ==
  ASSUME NEW a \in {0, 1}, NEW b \in {0, 1}, NEW c \in {0, 1}, NEW d \in {0, 1},
         NEW e \in {0, 1}, NEW f \in {0, 1}, NEW g \in {0, 1}, NEW h \in {0, 1}
  PROVE  a + 2 * b + 4 * c + 8 * d + 16 * e + 32 * f + 64 * g + 128 * h \in Bytes
<1> DEFINE v == a + 2 * b + 4 * c + 8 * d + 16 * e + 32 * f + 64 * g + 128 * h
<1>1. v \in Nat /\ v < 256
  OBVIOUS
<1> HIDE DEF v
<1>2. v \in Bytes
  BY <1>1, IsByte
<1> QED
  BY <1>2 DEF v

LEMMA XorByte ==
  ASSUME NEW l \in Bytes, NEW r \in Bytes
  PROVE  Xor8(l, r).value \in Bytes
<1> DEFINE b(k) == (Bit(k, l) + Bit(k, r)) % 2
<1>1. ASSUME NEW k \in 0..7
      PROVE  b(k) \in {0, 1}
  BY BitValue
<1>2. Xor8(l, r).value =
        b(0) + 2 * b(1) + 4 * b(2) + 8 * b(3) + 16 * b(4) + 32 * b(5) + 64 * b(6) + 128 * b(7)
  BY DEF Xor8, Result, OfBits
<1> HIDE DEF b
<1> QED
  BY <1>1, <1>2, SmallKs, EightBits

LEMMA AluBytes ==
  ASSUME NEW l \in Bytes, NEW r \in Bytes
  PROVE  /\ Inc8(l).value \in Bytes /\ Dec8(l).value \in Bytes
         /\ Add8(l, r).value \in Bytes /\ Sub8(l, r).value \in Bytes
         /\ Cp8(l, r).value \in Bytes
<1>1. l \in Nat /\ r \in Nat
  BY ByteFacts
<1>2. /\ (l + 1) % 256 \in Bytes /\ (l - 1) % 256 \in Bytes
      /\ (l + r) % 256 \in Bytes /\ (l - r) % 256 \in Bytes
  BY <1>1, ModByte
<1> QED
  BY <1>2 DEF Inc8, Dec8, Add8, Sub8, Cp8, Result

LEMMA ShiftBytes ==
  ASSUME NEW v \in Bytes, NEW in
  PROVE  Left(v, in) \in Bytes /\ Right(v, in) \in Bytes
<1> DEFINE k == Carry(in)
           x == ((2 * v) % 256) + k
           y == (v \div 2) + (IF in THEN 128 ELSE 0)
<1>1. v \in Nat /\ v < 256 /\ k \in {0, 1}
  BY ByteFacts, CarryFacts
<1> HIDE DEF k
<1>2. x \in Nat /\ x < 256
  BY <1>1
<1>3. y \in Nat /\ y < 256
  BY <1>1
<1> HIDE DEF x, y
<1>4. x \in Bytes /\ y \in Bytes
  BY <1>2, <1>3, IsByte
<1> QED
  BY <1>4 DEF Left, Right, x, y, k

LEMMA RotatedBytes ==
  ASSUME NEW v \in Bytes, NEW carry
  PROVE  /\ Rlc8(v).value \in Bytes /\ Rrc8(v).value \in Bytes
         /\ Rl8(v, carry).value \in Bytes /\ Rr8(v, carry).value \in Bytes
         /\ Sla8(v).value \in Bytes /\ Sra8(v).value \in Bytes /\ Swap8(v).value \in Bytes
<1>1. (v \div 16) + 16 * (v % 16) \in Bytes
  <2> DEFINE x == (v \div 16) + 16 * (v % 16)
  <2>1. v \in Nat /\ v < 256
    BY ByteFacts
  <2>2. x \in Nat /\ x < 256
    BY <2>1
  <2> HIDE DEF x
  <2>3. x \in Bytes
    BY <2>2, IsByte
  <2> QED
    BY <2>3 DEF x
<1>2. /\ Left(v, Top(v)) \in Bytes /\ Left(v, carry) \in Bytes /\ Left(v, FALSE) \in Bytes
      /\ Right(v, Odd(v)) \in Bytes /\ Right(v, carry) \in Bytes /\ Right(v, Top(v)) \in Bytes
  BY ShiftBytes
<1> QED
  BY <1>1, <1>2 DEF Rlc8, Rrc8, Rl8, Rr8, Sla8, Sra8, Swap8, Low, Result

LEMMA AccumulateKeeps ==
  ASSUME NEW m \in Machines, NEW r, r.value \in Bytes
  PROVE  Keeps(m, Accumulate(m, r))
<1> DEFINE n == SetReg(m, "A", r.value)
<1>1. Keeps(m, n)
  BY SetKeeps, Names
<1>2. n \in Machines
  BY <1>1 DEF Keeps
<1>3. Accumulate(m, r) = SetFlags(n, r.z, r.n, r.h, r.c)
  BY DEF Accumulate
<1> HIDE DEF n
<1>4. Keeps(n, Accumulate(m, r))
  BY <1>2, <1>3, FlagsKeep
<1> QED
  BY <1>1, <1>4, KeepsTwice

LEMMA ArithmeticKeeps ==
  ASSUME NEW m \in Machines, NEW v \in Bytes
  PROVE  Keeps(m, Add(m, v)) /\ Keeps(m, Sub(m, v)) /\ Keeps(m, Xor(m, v)) /\ Keeps(m, Cp(m, v))
<1> DEFINE a == m.reg.A
<1>1. a \in Bytes
  BY MachineFields, Names
<1> HIDE DEF a
<1>2. /\ Add8(a, v).value \in Bytes /\ Sub8(a, v).value \in Bytes
      /\ Cp8(a, v).value \in Bytes /\ Xor8(a, v).value \in Bytes
  BY <1>1, AluBytes, XorByte
<1>3. /\ Add(m, v) = Accumulate(m, Add8(a, v)) /\ Sub(m, v) = Accumulate(m, Sub8(a, v))
      /\ Xor(m, v) = Accumulate(m, Xor8(a, v)) /\ Cp(m, v) = Accumulate(m, Cp8(a, v))
  BY DEF Add, Sub, Xor, Cp, a
<1> QED
  BY <1>2, <1>3, AccumulateKeeps

LEMMA IncDec8Keeps ==
  ASSUME NEW m \in Machines, NEW o \in Operands, NEW r, r.value \in Bytes
  PROVE  Keeps(m, IncDec8(m, o, r))
<1> DEFINE n == Put(m, o, r.value)
<1>1. Keeps(m, n)
  BY PutKeeps
<1>2. n \in Machines
  BY <1>1 DEF Keeps
<1>3. IncDec8(m, o, r) = SetFlags(n, r.z, r.n, r.h, FlagC(m))
  BY DEF IncDec8
<1> HIDE DEF n
<1>4. Keeps(n, SetFlags(n, r.z, r.n, r.h, FlagC(m)))
  BY <1>2, FlagsKeep
<1> QED
  BY <1>1, <1>3, <1>4, KeepsTwice

LEMMA IncrementOK ==
  ASSUME NEW m \in Machines, NEW i \in Bytes \X Bytes \X Bytes
  PROVE  Fetches(m, 0, Increment(m, i)) /\ Fetches(m, 0, Decrement(m, i))
<1> DEFINE t == Target(i[1])
           v == Get(m, t)
<1>1. t \in Operands
  BY OperandsNamed, WordOK
<1>2. Increment(m, i) = IncDec8(m, t, Inc8(v)) /\ Decrement(m, i) = IncDec8(m, t, Dec8(v))
  BY DEF Increment, Decrement
<1> HIDE DEF t
<1>3. v \in Bytes
  BY <1>1, GetOK
<1> HIDE DEF v
<1>4. Keeps(m, Increment(m, i)) /\ Keeps(m, Decrement(m, i))
  BY <1>1, <1>2, <1>3, AluBytes, IncDec8Keeps
<1> QED
  BY <1>4, FetchesNone

LEMMA IncPairOK ==
  ASSUME NEW m \in Machines, NEW i \in Bytes \X Bytes \X Bytes
  PROVE  Fetches(m, 0, IncPair(m, i))
<1> DEFINE p == PairOf(i[1], "SP")
           w == Inc16(Pair(m, p))
<1>1. p \in PairNames
  BY PairNamed, WordOK
<1>2. IncPair(m, i) = SetPair(m, p, w)
  BY DEF IncPair
<1> HIDE DEF p
<1>3. w \in Words
  BY <1>1, PairOK, IncDec16
<1> HIDE DEF w
<1>4. Keeps(m, IncPair(m, i))
  BY <1>1, <1>2, <1>3, SetPairOK
<1> QED
  BY <1>4, FetchesNone

LEMMA OperateOK ==
  ASSUME NEW m \in Machines, NEW op \in Bytes
  PROVE  LET v == Get(m, Source(op))
         IN  /\ Fetches(m, 0, Add(m, v)) /\ Fetches(m, 0, Sub(m, v))
             /\ Fetches(m, 0, Xor(m, v)) /\ Fetches(m, 0, Cp(m, v))
<1>1. Get(m, Source(op)) \in Bytes
  BY OperandsNamed, GetOK
<1> QED
  BY <1>1, ArithmeticKeeps, FetchesNone

LEMMA ImmediateOK ==
  ASSUME NEW m \in Machines, NEW i \in Bytes \X Bytes \X Bytes, i[1] \in {198, 214, 238, 254}
  PROVE  Fetches(m, 1, Immediate(m, i))
<1> DEFINE after == Skip(m, 1)
<1>1. after \in Machines /\ i[2] \in Bytes
  BY SkipOK, WordOK
<1>2. /\ i[1] = 198 => Immediate(m, i) = Add(after, i[2])
      /\ i[1] = 214 => Immediate(m, i) = Sub(after, i[2])
      /\ i[1] = 238 => Immediate(m, i) = Xor(after, i[2])
      /\ i[1] = 254 => Immediate(m, i) = Cp(after, i[2])
  BY DEF Immediate
<1>3. Keeps(after, Immediate(m, i))
  <2> HIDE DEF after
  <2> QED
    BY <1>1, <1>2, ArithmeticKeeps
<1> QED
  BY <1>3, FetchesSome

LEMMA RotateAOK ==
  ASSUME NEW m \in Machines, NEW i, i[1] \in {7, 15, 23, 31}
  PROVE  Fetches(m, 0, RotateA(m, i))
<1> DEFINE a == m.reg.A
           r == CASE i[1] = 7 -> Rlc8(a) [] i[1] = 15 -> Rrc8(a)
                  [] i[1] = 23 -> Rl8(a, FlagC(m)) [] i[1] = 31 -> Rr8(a, FlagC(m))
           n == SetReg(m, "A", r.value)
<1>1. a \in Bytes
  BY MachineFields, Names
<1> HIDE DEF a
<1>2. r \in {Rlc8(a), Rrc8(a), Rl8(a, FlagC(m)), Rr8(a, FlagC(m))}
  OBVIOUS
<1>3. RotateA(m, i) = SetFlags(n, FALSE, FALSE, FALSE, r.c)
  BY DEF RotateA, a
<1> HIDE DEF r
<1>4. r.value \in Bytes
  BY <1>1, <1>2, RotatedBytes
<1>5. Keeps(m, n)
  BY <1>4, SetKeeps, Names
<1>6. n \in Machines
  BY <1>5 DEF Keeps
<1> HIDE DEF n
<1>7. Keeps(n, SetFlags(n, FALSE, FALSE, FALSE, r.c))
  BY <1>6, FlagsKeep
<1>8. Keeps(m, RotateA(m, i))
  BY <1>3, <1>5, <1>7, KeepsTwice
<1> QED
  BY <1>8, FetchesNone

LEMMA RotateKeeps ==
  ASSUME NEW m \in Machines, NEW op \in Bytes, op < 64
  PROVE  Keeps(m, Rotate(m, op))
<1> DEFINE row == op \div 8
           o == Source(op)
           v == Get(m, o)
           r == Rotated(row, v, FlagC(m))
           n == Put(m, o, r.value)
<1>1. row \in {0, 1, 2, 3, 4, 5, 6, 7}
  BY ByteFacts
<1>2. Rotate(m, op) = SetFlags(n, r.z, FALSE, FALSE, r.c)
  BY DEF Rotate
<1>3. o \in Operands
  BY OperandsNamed
<1> HIDE DEF row, o
<1>4. v \in Bytes
  BY <1>3, GetOK
<1> HIDE DEF v
<1>5. r \in {Rlc8(v), Rrc8(v), Rl8(v, FlagC(m)), Rr8(v, FlagC(m)), Sla8(v), Sra8(v), Swap8(v)}
  BY <1>1 DEF Rotated
<1> HIDE DEF r
<1>6. r.value \in Bytes
  BY <1>4, <1>5, RotatedBytes
<1>7. Keeps(m, n)
  BY <1>3, <1>6, PutKeeps
<1>8. n \in Machines
  BY <1>7 DEF Keeps
<1> HIDE DEF n
<1>9. Keeps(n, SetFlags(n, r.z, FALSE, FALSE, r.c))
  BY <1>8, FlagsKeep
<1> QED
  BY <1>2, <1>7, <1>9, KeepsTwice

LEMMA UndefinedKeeps ==
  ASSUME NEW m \in Machines
  PROVE  Keeps(m, Undefined(m))
<1> DEFINE n == Undefined(m)
<1>1. n = [m EXCEPT !.status = 1]
  BY DEF Undefined
<1> HIDE DEF n
<1>2. n = [reg |-> m.reg, mem |-> m.mem, status |-> 1]
  BY <1>1, MachineFields
<1>3. n \in Machines
  BY <1>2, MachineFields DEF Machines
<1> QED
  BY <1>2, <1>3 DEF Keeps, n

LEMMA PrefixedKeeps ==
  ASSUME NEW m \in Machines, NEW op \in Bytes
  PROVE  Keeps(m, Prefixed(m, op))
<1> DEFINE z == BitTest8((op \div 8) % 8, Get(m, Source(op))).z
<1>1. TestBit(m, op) = SetFlags(m, z, FALSE, TRUE, FlagC(m))
  BY DEF TestBit
<1> HIDE DEF z
<1>2. Keeps(m, TestBit(m, op))
  BY <1>1, FlagsKeep
<1>3. Keeps(m, Undefined(m))
  BY UndefinedKeeps
<1>4. op < 64 => Keeps(m, Rotate(m, op))
  BY RotateKeeps
<1>5. \/ op < 64 /\ Prefixed(m, op) = Rotate(m, op)
      \/ Prefixed(m, op) = TestBit(m, op)
      \/ Prefixed(m, op) = Undefined(m)
  BY DEF Prefixed
<1> QED
  BY <1>2, <1>3, <1>4, <1>5

LEMMA PrefixedOK ==
  ASSUME NEW m \in Machines, NEW op \in Bytes
  PROVE  Fetches(m, 1, Prefixed(Skip(m, 1), op))
<1> DEFINE after == Skip(m, 1)
<1>1. after \in Machines
  BY SkipOK
<1>2. Keeps(after, Prefixed(after, op))
  <2> HIDE DEF after
  <2> QED
    BY <1>1, PrefixedKeeps
<1> QED
  BY <1>2, FetchesSome

-----------------------------------------------------------------------------
(* The table of the opcodes.                                               *)

LEMMA Rows ==
  /\ Row(32, 8, 4) = {32, 40, 48, 56}
  /\ Row(192, 8, 4) = {192, 200, 208, 216}
  /\ Row(196, 8, 4) = {196, 204, 212, 220}
  /\ Row(6, 8, 8) = {6, 14, 22, 30, 38, 46, 54, 62}
  /\ Row(4, 8, 8) = {4, 12, 20, 28, 36, 44, 52, 60}
  /\ Row(5, 8, 8) = {5, 13, 21, 29, 37, 45, 53, 61}
  /\ Row(2, 16, 4) = {2, 18, 34, 50}
  /\ Row(10, 16, 4) = {10, 26, 42, 58}
  /\ Row(1, 16, 4) = {1, 17, 33, 49}
  /\ Row(193, 16, 4) = {193, 209, 225, 241}
  /\ Row(197, 16, 4) = {197, 213, 229, 245}
  /\ Row(3, 16, 4) = {3, 19, 35, 51}
<1>1. 0..(4 - 1) = {0, 1, 2, 3} /\ 0..(8 - 1) = {0, 1, 2, 3, 4, 5, 6, 7}
  OBVIOUS
<1>2. \A f, s : Row(f, s, 4) = {f + s * 0, f + s * 1, f + s * 2, f + s * 3}
  BY <1>1 DEF Row
<1>3. \A f, s : Row(f, s, 8) = {f + s * 0, f + s * 1, f + s * 2, f + s * 3,
                                f + s * 4, f + s * 5, f + s * 6, f + s * 7}
  BY <1>1 DEF Row
<1> QED
  BY <1>2, <1>3

LEMMA Arms ==
  ASSUME NEW m, NEW i
  PROVE  LET op == i[1] p == Perform(m, i) IN
    \/ op = 0 /\ p = m
    \/ op \in {24} \cup Row(32, 8, 4) /\ p = Jr(m, i)
    \/ op \in {201} \cup Row(192, 8, 4) /\ p = Ret(m, i)
    \/ op \in {205} \cup Row(196, 8, 4) /\ p = Call(m, i)
    \/ /\ op \notin {24} \cup Row(32, 8, 4) /\ op \notin {201} \cup Row(192, 8, 4)
       /\ op \notin {205} \cup Row(196, 8, 4)
       /\ p = Load(m, i)
BY DEF Perform

LEMMA LoadArms ==
  ASSUME NEW m, NEW i
  PROVE  LET op == i[1] p == Load(m, i) IN
    \/ op \in Row(6, 8, 8) /\ p = LoadImmediate(m, i)
    \/ op \in (64..127) \ {118} /\ p = LoadRegister(m, i)
    \/ op \in Row(2, 16, 4) /\ p = StoreIndirect(m, i)
    \/ op \in Row(10, 16, 4) /\ p = LoadIndirect(m, i)
    \/ op \in {224, 226, 240, 242} /\ p = LoadHigh(m, i)
    \/ op \in {234, 250} /\ p = LoadAbsolute(m, i)
    \/ op \in Row(1, 16, 4) /\ p = LoadPair(m, i)
    \/ op \in Row(193, 16, 4) /\ p = PopPair(m, i)
    \/ op \in Row(197, 16, 4) /\ p = PushPair(m, i)
    \/ /\ op \notin Row(6, 8, 8) /\ op \notin (64..127) \ {118}
       /\ op \notin {224, 226, 240, 242} /\ op \notin {234, 250} /\ op \notin Row(1, 16, 4)
       /\ op \notin Row(193, 16, 4) /\ op \notin Row(197, 16, 4)
       /\ p = Compute(m, i)
BY DEF Load

LEMMA ComputeArms ==
  ASSUME NEW m, NEW i
  PROVE  LET op == i[1] p == Compute(m, i) IN
    \/ op \in Row(4, 8, 8) /\ p = Increment(m, i)
    \/ op \in Row(5, 8, 8) /\ p = Decrement(m, i)
    \/ op \in Row(3, 16, 4) /\ p = IncPair(m, i)
    \/ op \in 128..135 /\ p = Add(m, Get(m, Source(op)))
    \/ op \in 144..151 /\ p = Sub(m, Get(m, Source(op)))
    \/ op \in 168..175 /\ p = Xor(m, Get(m, Source(op)))
    \/ op \in 184..191 /\ p = Cp(m, Get(m, Source(op)))
    \/ op \in {198, 214, 238, 254} /\ p = Immediate(m, i)
    \/ op \in {7, 15, 23, 31} /\ p = RotateA(m, i)
    \/ op = 203 /\ p = Prefixed(Skip(m, 1), i[2])
    \/ op \notin {198, 214, 238, 254} /\ op # 203 /\ p = Undefined(m)
BY DEF Compute

LEMMA ComputeOK ==
  ASSUME NEW m \in Machines, NEW i \in Bytes \X Bytes \X Bytes,
         i[1] \notin Calls \cup {1, 17, 33, 49, 234, 250} \cup Jumps
                   \cup {6, 14, 22, 30, 38, 46, 54, 62, 224, 240}
  PROVE  Fetches(m, Length(i[1]) - 1, Compute(m, i))
<1> DEFINE op == i[1]
           p == Compute(m, i)
<1>1. op \in Bytes /\ i[2] \in Bytes
  BY WordOK
<1>2. \/ op \in {198, 214, 238, 254} /\ p = Immediate(m, i)
      \/ op = 203 /\ p = Prefixed(Skip(m, 1), i[2])
      \/ /\ op \notin {198, 214, 238, 254} /\ op # 203
         /\ Fetches(m, 0, p)
  <2>1. CASE op \in Row(4, 8, 8) /\ p = Increment(m, i)
    BY <2>1, IncrementOK, Rows
  <2>2. CASE op \in Row(5, 8, 8) /\ p = Decrement(m, i)
    BY <2>2, IncrementOK, Rows
  <2>3. CASE op \in Row(3, 16, 4) /\ p = IncPair(m, i)
    BY <2>3, IncPairOK, Rows
  <2>4. CASE op \in 128..135 /\ p = Add(m, Get(m, Source(op)))
    BY <1>1, <2>4, OperateOK
  <2>5. CASE op \in 144..151 /\ p = Sub(m, Get(m, Source(op)))
    BY <1>1, <2>5, OperateOK
  <2>6. CASE op \in 168..175 /\ p = Xor(m, Get(m, Source(op)))
    BY <1>1, <2>6, OperateOK
  <2>7. CASE op \in 184..191 /\ p = Cp(m, Get(m, Source(op)))
    BY <1>1, <2>7, OperateOK
  <2>8. CASE op \in {198, 214, 238, 254} /\ p = Immediate(m, i)
    BY <2>8
  <2>9. CASE op \in {7, 15, 23, 31} /\ p = RotateA(m, i)
    BY <2>9, RotateAOK
  <2>10. CASE op = 203 /\ p = Prefixed(Skip(m, 1), i[2])
    BY <2>10
  <2>11. CASE op \notin {198, 214, 238, 254} /\ op # 203 /\ p = Undefined(m)
    BY <2>11, UndefinedKeeps, FetchesNone
  <2> HIDE DEF op, p
  <2> QED
    BY <2>1, <2>2, <2>3, <2>4, <2>5, <2>6, <2>7, <2>8, <2>9, <2>10, <2>11, ComputeArms DEF op, p
<1>3. CASE op \in {198, 214, 238, 254} /\ p = Immediate(m, i)
  <2>1. Length(op) - 1 = 1
    BY <1>3 DEF Length, Calls, Jumps
  <2> QED
    BY <1>3, <2>1, ImmediateOK
<1>4. CASE op = 203 /\ p = Prefixed(Skip(m, 1), i[2])
  <2>1. Length(op) - 1 = 1
    BY <1>4 DEF Length, Calls, Jumps
  <2> QED
    BY <1>1, <1>4, <2>1, PrefixedOK
<1>5. CASE op \notin {198, 214, 238, 254} /\ op # 203 /\ Fetches(m, 0, p)
  <2>1. Length(op) - 1 = 0
    BY <1>5 DEF Length, Calls, Jumps
  <2> QED
    BY <1>5, <2>1
<1> QED
  BY <1>2, <1>3, <1>4, <1>5

LEMMA LoadOK ==
  ASSUME NEW m \in Machines, NEW i \in Bytes \X Bytes \X Bytes,
         i[1] \notin Calls \cup Jumps
  PROVE  Fetches(m, Length(i[1]) - 1, Load(m, i))
<1> DEFINE op == i[1]
           p == Load(m, i)
<1>1. CASE op \in Row(6, 8, 8) /\ p = LoadImmediate(m, i)
  <2>1. Length(op) - 1 = 1
    BY <1>1, Rows DEF Length, Calls, Jumps
  <2> QED
    BY <1>1, <2>1, LoadImmediateOK
<1>2. CASE op \in (64..127) \ {118} /\ p = LoadRegister(m, i)
  <2>1. Length(op) - 1 = 0
    BY <1>2 DEF Length, Calls, Jumps
  <2> QED
    BY <1>2, <2>1, LoadRegisterOK
<1>3. CASE op \in Row(2, 16, 4) /\ p = StoreIndirect(m, i)
  <2>1. Length(op) - 1 = 0
    BY <1>3, Rows DEF Length, Calls, Jumps
  <2> QED
    BY <1>3, <2>1, StoreIndirectOK
<1>4. CASE op \in Row(10, 16, 4) /\ p = LoadIndirect(m, i)
  <2>1. Length(op) - 1 = 0
    BY <1>4, Rows DEF Length, Calls, Jumps
  <2> QED
    BY <1>4, <2>1, LoadIndirectOK
<1>5. CASE op \in {224, 226, 240, 242} /\ p = LoadHigh(m, i)
  <2>1. Length(op) - 1 = IF op \in {224, 240} THEN 1 ELSE 0
    BY <1>5 DEF Length, Calls, Jumps
  <2> QED
    BY <1>5, <2>1, LoadHighOK
<1>6. CASE op \in {234, 250} /\ p = LoadAbsolute(m, i)
  <2>1. Length(op) - 1 = 2
    BY <1>6 DEF Length, Calls, Jumps
  <2> QED
    BY <1>6, <2>1, LoadAbsoluteOK
<1>7. CASE op \in Row(1, 16, 4) /\ p = LoadPair(m, i)
  <2>1. Length(op) - 1 = 2
    BY <1>7, Rows DEF Length, Calls, Jumps
  <2> QED
    BY <1>7, <2>1, LoadPairOK
<1>8. CASE op \in Row(193, 16, 4) /\ p = PopPair(m, i)
  <2>1. Length(op) - 1 = 0
    BY <1>8, Rows DEF Length, Calls, Jumps
  <2> QED
    BY <1>8, <2>1, PopPairOK
<1>9. CASE op \in Row(197, 16, 4) /\ p = PushPair(m, i)
  <2>1. Length(op) - 1 = 0
    BY <1>9, Rows DEF Length, Calls, Jumps
  <2> QED
    BY <1>9, <2>1, PushPairOK
<1>10. CASE /\ op \notin Row(6, 8, 8) /\ op \notin {224, 226, 240, 242}
            /\ op \notin {234, 250} /\ op \notin Row(1, 16, 4)
            /\ p = Compute(m, i)
  <2>1. op \notin Calls \cup {1, 17, 33, 49, 234, 250} \cup Jumps
                   \cup {6, 14, 22, 30, 38, 46, 54, 62, 224, 240}
    BY <1>10, Rows
  <2> QED
    BY <1>10, <2>1, ComputeOK
<1> HIDE DEF op, p
<1> QED
  BY <1>1, <1>2, <1>3, <1>4, <1>5, <1>6, <1>7, <1>8, <1>9, <1>10, LoadArms DEF op, p

-----------------------------------------------------------------------------
(* The conditions of the branches.                                         *)

LEMMA ConditionCases ==
  ASSUME NEW m, NEW op, NEW k, (op \div 8) % 4 = k, k \in {0, 1, 2, 3}
  PROVE  /\ k = 0 => (Condition(m, op) <=> ~FlagZ(m))
         /\ k = 1 => (Condition(m, op) <=> FlagZ(m))
         /\ k = 2 => (Condition(m, op) <=> ~FlagC(m))
         /\ k = 3 => (Condition(m, op) <=> FlagC(m))
<1>1. 0 # 1 /\ 0 # 2 /\ 0 # 3 /\ 1 # 2 /\ 1 # 3 /\ 2 # 3
  OBVIOUS
<1> QED
  BY <1>1, Zenon DEF Condition

LEMMA FlagBits ==
  ASSUME NEW m \in Machines
  PROVE  /\ FlagZ(m) <=> m.reg.F \div 128 = 1
         /\ ~FlagZ(m) <=> m.reg.F \div 128 = 0
         /\ FlagC(m) <=> (m.reg.F \div 16) % 2 = 1
         /\ ~FlagC(m) <=> (m.reg.F \div 16) % 2 = 0
<1> DEFINE f == m.reg.F
<1>1. f \in Nat /\ f < 256
  BY MachineFields, Names, ByteFacts
<1>2. FlagZ(m) <=> (f \div 128) % 2 = 1
  BY DEF FlagZ, BitSet, Bit, Power
<1>3. FlagC(m) <=> (f \div 16) % 2 = 1
  BY DEF FlagC, BitSet, Bit, Power
<1> HIDE DEF f
<1>4. f \div 128 \in {0, 1} /\ (f \div 128) % 2 = f \div 128 /\ (f \div 16) % 2 \in {0, 1}
  BY <1>1
<1>5. FlagZ(m) <=> f \div 128 = 1
  BY <1>2, <1>4
<1>6. ~FlagZ(m) <=> f \div 128 = 0
  BY <1>2, <1>4
<1>7. ~FlagC(m) <=> (f \div 16) % 2 = 0
  BY <1>3, <1>4
<1> QED
  BY <1>3, <1>5, <1>6, <1>7 DEF f

\* Taken is what the flags say, for each operation code of a branch.
LEMMA TakenCases ==
  ASSUME NEW m \in Machines, NEW op
  PROVE  /\ op \in {32, 192, 196} => (Taken(m, op) <=> m.reg.F \div 128 = 0)
         /\ op \in {40, 200, 204} => (Taken(m, op) <=> m.reg.F \div 128 = 1)
         /\ op \in {48, 208, 212} => (Taken(m, op) <=> (m.reg.F \div 16) % 2 = 0)
         /\ op \in {56, 216, 220} => (Taken(m, op) <=> (m.reg.F \div 16) % 2 = 1)
         /\ op \in {24, 201, 205} => Taken(m, op)
<1>1. CASE op \in {32, 192, 196}
  <2>1. (op \div 8) % 4 = 0 /\ op \notin {24, 201, 205}
    BY <1>1
  <2>2. Taken(m, op) <=> ~FlagZ(m)
    BY <2>1, ConditionCases DEF Taken
  <2>3. op \notin {40, 200, 204} \cup {48, 208, 212} \cup {56, 216, 220}
    BY <1>1
  <2> QED
    BY <2>1, <2>2, <2>3, FlagBits
<1>2. CASE op \in {40, 200, 204}
  <2>1. (op \div 8) % 4 = 1 /\ op \notin {24, 201, 205}
    BY <1>2
  <2>2. Taken(m, op) <=> FlagZ(m)
    BY <2>1, ConditionCases DEF Taken
  <2>3. op \notin {32, 192, 196} \cup {48, 208, 212} \cup {56, 216, 220}
    BY <1>2
  <2> QED
    BY <2>1, <2>2, <2>3, FlagBits
<1>3. CASE op \in {48, 208, 212}
  <2>1. (op \div 8) % 4 = 2 /\ op \notin {24, 201, 205}
    BY <1>3
  <2>2. Taken(m, op) <=> ~FlagC(m)
    BY <2>1, ConditionCases DEF Taken
  <2>3. op \notin {32, 192, 196} \cup {40, 200, 204} \cup {56, 216, 220}
    BY <1>3
  <2> QED
    BY <2>1, <2>2, <2>3, FlagBits
<1>4. CASE op \in {56, 216, 220}
  <2>1. (op \div 8) % 4 = 3 /\ op \notin {24, 201, 205}
    BY <1>4
  <2>2. Taken(m, op) <=> FlagC(m)
    BY <2>1, ConditionCases DEF Taken
  <2>3. op \notin {32, 192, 196} \cup {40, 200, 204} \cup {48, 208, 212}
    BY <1>4
  <2> QED
    BY <2>1, <2>2, <2>3, FlagBits
<1>5. op \in {24, 201, 205} => Taken(m, op)
  BY DEF Taken
<1> QED
  BY <1>1, <1>2, <1>3, <1>4, <1>5

-----------------------------------------------------------------------------
(* One instruction.                                                        *)

\* What an instruction does to the program counter and the stack.
LEMMA PerformOK ==
  ASSUME NEW m \in Machines, NEW i \in Bytes \X Bytes \X Bytes
  PROVE  LET p == Perform(m, i)
             op == i[1]
         IN  /\ p \in Machines
             /\ op \in Jumps => p = Jr(m, i)
             /\ op \in Returns => p = Ret(m, i)
             /\ op \in Calls => p = Call(m, i)
             /\ op \notin Jumps \cup Returns \cup Calls => Fetches(m, Length(op) - 1, p)
             /\ op \in Pops => p = PopPair(m, i)
             /\ op \in Pushes => p = PushPair(m, i)
<1> DEFINE op == i[1]
           p == Perform(m, i)
<1>1. /\ {24} \cup Row(32, 8, 4) = Jumps /\ {201} \cup Row(192, 8, 4) = Returns
      /\ {205} \cup Row(196, 8, 4) = Calls
  BY Rows DEF Jumps, Returns, Calls
<1>2. /\ op \in Jumps => op \notin Returns \cup Calls \cup Pops \cup Pushes
      /\ op \in Returns => op \notin Calls \cup Pops \cup Pushes
      /\ op \in Calls => op \notin Pops \cup Pushes
      /\ op \in Pops => op \notin Pushes
      /\ op = 0 => op \notin Jumps \cup Returns \cup Calls \cup Pops \cup Pushes
  BY DEF Jumps, Returns, Calls, Pops, Pushes
<1>3. CASE op = 0 /\ p = m
  <2>1. Length(op) - 1 = 0
    BY <1>3 DEF Length, Calls, Jumps
  <2>2. Fetches(m, Length(op) - 1, p)
    BY <1>3, <2>1, FetchesNone DEF Keeps
  <2> QED
    BY <1>2, <1>3, <2>2
<1>4. CASE op \in Jumps /\ p = Jr(m, i)
  BY <1>2, <1>4, JrOK
<1>5. CASE op \in Returns /\ p = Ret(m, i)
  BY <1>2, <1>5, RetOK
<1>6. CASE op \in Calls /\ p = Call(m, i)
  BY <1>2, <1>6, CallOK
<1>7. CASE op \notin Jumps /\ op \notin Returns /\ op \notin Calls /\ p = Load(m, i)
  <2>1. Fetches(m, Length(op) - 1, p)
    BY <1>7, LoadOK
  <2>2. op \in Pops => p = PopPair(m, i)
    <3>1. ASSUME op \in Pops
          PROVE  /\ op \notin Row(6, 8, 8) /\ op \notin 64..127 /\ op \notin Row(2, 16, 4)
                 /\ op \notin Row(10, 16, 4) /\ op \notin {224, 226, 240, 242}
                 /\ op \notin {234, 250} /\ op \notin Row(1, 16, 4) /\ op \notin Row(197, 16, 4)
                 /\ op \in Row(193, 16, 4)
      BY <3>1, Rows DEF Pops
    <3> HIDE DEF op
    <3> QED
      BY <1>7, <3>1, LoadArms DEF op
  <2>3. op \in Pushes => p = PushPair(m, i)
    <3>1. ASSUME op \in Pushes
          PROVE  /\ op \notin Row(6, 8, 8) /\ op \notin 64..127 /\ op \notin Row(2, 16, 4)
                 /\ op \notin Row(10, 16, 4) /\ op \notin {224, 226, 240, 242}
                 /\ op \notin {234, 250} /\ op \notin Row(1, 16, 4) /\ op \notin Row(193, 16, 4)
                 /\ op \in Row(197, 16, 4)
      BY <3>1, Rows DEF Pushes
    <3> HIDE DEF op
    <3> QED
      BY <1>7, <3>1, LoadArms DEF op
  <2> QED
    BY <1>7, <2>1, <2>2, <2>3 DEF Fetches
<1> HIDE DEF op, p
<1>8. \/ op = 0 /\ p = m
      \/ op \in Jumps /\ p = Jr(m, i)
      \/ op \in Returns /\ p = Ret(m, i)
      \/ op \in Calls /\ p = Call(m, i)
      \/ op \notin Jumps /\ op \notin Returns /\ op \notin Calls /\ p = Load(m, i)
  BY <1>1, Arms DEF op, p
<1> QED
  BY <1>3, <1>4, <1>5, <1>6, <1>7, <1>8 DEF op, p

-----------------------------------------------------------------------------
(* Steps.                                                                  *)

LEMMA ProgramOK ==
  ASSUME Inv, steps < Len(Program), NEW i \in Program[steps + 1]
  PROVE  i \in Bytes \X Bytes \X Bytes
<1>1. steps \in Nat /\ Program \in Seq(SUBSET (Bytes \X Bytes \X Bytes))
  BY CpuAssumption DEF Inv
<1> HIDE DEF Inv
<1>2. steps + 1 \in 1..Len(Program)
  BY <1>1
<1>3. Program[steps + 1] \in SUBSET (Bytes \X Bytes \X Bytes)
  BY <1>1, <1>2
<1> QED
  BY <1>3

\* A step fetches the operation code and performs the instruction.
LEMMA StepOK ==
  ASSUME Inv, NEW i \in Bytes \X Bytes \X Bytes, Execute(i)
  PROVE  LET m == Skip(Machine, 1)
             p == Perform(m, i)
         IN  /\ Machine \in Machines /\ m \in Machines /\ p \in Machines
             /\ m.reg["PC"] = (reg["PC"] + 1) % 65536
             /\ \A r \in Registers : r # "PC" => m.reg[r] = reg[r]
             /\ m.mem = mem
             /\ reg' = p.reg /\ mem' = p.mem /\ Machine' = p /\ instr' = i /\ steps' = steps + 1
<1> DEFINE m == Skip(Machine, 1)
           p == Perform(m, i)
<1>1. Machine \in Machines
  BY DEF Inv
<1>2. Machine.reg = reg /\ Machine.mem = mem
  BY DEF Machine
<1>3. Sets(Machine, "PC", (Machine.reg["PC"] + 1) % 65536, m) /\ m \in Machines
  BY <1>1, SkipOK
<1>4. /\ m.reg["PC"] = (reg["PC"] + 1) % 65536
      /\ \A r \in Registers : r # "PC" => m.reg[r] = reg[r]
      /\ m.mem = mem
  BY <1>2, <1>3 DEF Sets
<1>5. reg' = p.reg /\ mem' = p.mem /\ status' = p.status /\ instr' = i /\ steps' = steps + 1
  BY DEF Execute
<1> HIDE DEF m
<1>6. p \in Machines
  BY <1>3, PerformOK
<1> HIDE DEF p
<1>7. p = [reg |-> p.reg, mem |-> p.mem, status |-> p.status]
  BY <1>6, MachineFields
<1>8. Machine' = p
  BY <1>5, <1>7 DEF Machine
<1> QED
  BY <1>1, <1>3, <1>4, <1>5, <1>6, <1>8 DEF p, m

LEMMA PairAtIs ==
  ASSUME NEW op, op \in Pops \cup Pushes
  PROVE  /\ PairAt(op) = PairOf(op, "AF") /\ PairAt(op) \in PairNames /\ PairAt(op) # "SP"
         /\ op \in Bytes
<1>1. op \in {193, 209, 225, 241, 197, 213, 229, 245}
  BY DEF Pops, Pushes
<1>2. op \in Nat /\ op < 256
  BY <1>1
<1>3. op \in Bytes
  BY <1>2, IsByte
<1>4. (op - 192) \div 16 = (op \div 16) % 4
  BY <1>1
<1> DEFINE k == ((op \div 16) % 4) + 1
<1>5. k \in {1, 2, 3, 4}
  BY <1>1
<1>6. PairAt(op) = <<"BC", "DE", "HL", "AF">>[k] /\ PairOf(op, "AF") = <<"BC", "DE", "HL", "AF">>[k]
  BY <1>4 DEF PairAt, PairOf
<1> HIDE DEF k
<1>7. <<"BC", "DE", "HL", "AF">>[k] \in PairNames /\ <<"BC", "DE", "HL", "AF">>[k] # "SP"
  BY <1>5 DEF PairNames
<1> QED
  BY <1>3, <1>6, <1>7

LEMMA PairOfSame ==
  ASSUME NEW m \in Machines, NEW n, NEW p \in PairNames, p # "SP",
         \A r \in Registers : r # "PC" => m.reg[r] = n.reg[r]
  PROVE  Pair(m, p) = Pair(n, p)
<1>1. /\ Pairs[p][1] \in Registers /\ Pairs[p][2] \in Registers
      /\ Pairs[p][1] # "PC" /\ Pairs[p][2] # "PC"
  BY PairParts, Names
<1> QED
  BY <1>1 DEF Pair

LEMMA NextWord ==
  ASSUME NEW w \in Words
  PROVE  (((w + 1) % 65536) + 2) % 65536 = (w + 3) % 65536
BY WordFacts

\* The word of a new frame is in its two cells.
LEMMA NewFrameOK ==
  ASSUME Inv, NEW i \in Bytes \X Bytes \X Bytes, Execute(i), NEW f \in NewFrame
  PROVE  /\ f.sp \in DataAddrs /\ Inc16(f.sp) \in DataAddrs
         /\ f.word = mem'[Inc16(f.sp)] * 256 + mem'[f.sp]
<1> DEFINE m == Skip(Machine, 1)
           p == Perform(m, i)
           op == i[1]
           sp == p.reg["SP"]
<1>1. /\ Machine \in Machines /\ m \in Machines /\ p \in Machines
      /\ m.reg["PC"] = (reg["PC"] + 1) % 65536
      /\ \A r \in Registers : r # "PC" => m.reg[r] = reg[r]
      /\ m.mem = mem
      /\ reg' = p.reg /\ mem' = p.mem /\ instr' = i
  BY StepOK
<1>2. Op = op
  BY <1>1 DEF Op
<1>3. /\ op \in Pushes \cup Calls /\ sp # reg["SP"] /\ sp \in DataAddrs /\ Inc16(sp) \in DataAddrs
      /\ f.sp = sp
      /\ f.word = IF op \in Pushes THEN Pair(Machine, PairAt(op)) ELSE (reg["PC"] + 3) % 65536
  BY <1>1, <1>2 DEF NewFrame, CellsAt
<1>4. /\ op \in Calls => p = Call(m, i)
      /\ op \in Pushes => p = PushPair(m, i)
  BY <1>1, PerformOK
<1> HIDE DEF m, p, op
<1>5. CASE op \in Pushes
  <2>1. PairAt(op) = PairOf(op, "AF") /\ PairAt(op) \in PairNames /\ PairAt(op) # "SP"
    BY <1>5, PairAtIs
  <2>2. \A r \in Registers : r # "PC" => m.reg[r] = Machine.reg[r]
    BY <1>1 DEF Machine
  <2>3. Pair(m, PairAt(op)) = Pair(Machine, PairAt(op))
    BY <1>1, <2>1, <2>2, PairOfSame
  <2>4. Pair(m, PairOf(op, "AF")) = p.mem[Inc16(sp)] * 256 + p.mem[sp]
    BY <1>1, <1>3, <1>4, <1>5, PushPairOK DEF op
  <2> QED
    BY <1>1, <1>3, <1>5, <2>1, <2>3, <2>4
<1>6. CASE op \notin Pushes
  <2>1. op \in Calls /\ p = Call(m, i)
    BY <1>3, <1>4, <1>6
  <2>2. m.reg["SP"] = reg["SP"]
    BY <1>1, Names
  <2>3. (m.reg["PC"] + 2) % 65536 = p.mem[Inc16(sp)] * 256 + p.mem[sp]
    BY <1>1, <1>3, <2>1, <2>2, CallOK
  <2>4. reg["PC"] \in Words
    BY <1>1, MachineFields, Names DEF Machine
  <2>5. (m.reg["PC"] + 2) % 65536 = (reg["PC"] + 3) % 65536
    BY <1>1, <2>4, NextWord
  <2> QED
    BY <1>1, <1>3, <1>6, <2>3, <2>5
<1> QED
  BY <1>5, <1>6

LEMMA InvInit == MCInit => Inv
<1> SUFFICES ASSUME MCInit PROVE Inv
  OBVIOUS
<1>1. 0 \in Words /\ 0 \in Bytes
  BY BytesAreWords
<1>2. reg \in Regs /\ mem \in [DataAddrs -> Bytes] /\ status \in {0, 1} /\ steps \in Nat
  BY <1>1, Names DEF MCInit, Init, Regs, Registers
<1>3. Machine \in Machines
  BY <1>2 DEF Machine, Machines
<1>4. FrameInv
  BY DEF MCInit, FrameInv
<1> QED
  BY <1>2, <1>3, <1>4 DEF Inv

LEMMA InvNext == Inv /\ [MCNext]_mcVars => Inv'
<1> SUFFICES ASSUME Inv, [MCNext]_mcVars PROVE Inv'
  OBVIOUS
<1>1. CASE MCNext
  <2>1. PICK i \in Program[steps + 1] : Execute(i)
    BY <1>1 DEF MCNext, Next
  <2>2. steps < Len(Program)
    BY <1>1 DEF MCNext, Next
  <2>3. i \in Bytes \X Bytes \X Bytes
    BY <2>2, ProgramOK
  <2>4. Machine' \in Machines /\ steps' = steps + 1
    BY <2>1, <2>3, StepOK
  <2>5. steps' \in Nat
    BY <2>4 DEF Inv
  <2>6. ASSUME NEW f \in frames'
        PROVE  /\ CellsAt(f.sp) \subseteq DataAddrs
               /\ f.word = mem'[Inc16(f.sp)] * 256 + mem'[f.sp]
    <3>1. (f \in frames /\ Unchanged(f)) \/ f \in NewFrame
      BY <1>1, <2>6 DEF MCNext, Record
    <3>2. CASE f \in frames /\ Unchanged(f)
      BY <3>2 DEF Inv, FrameInv, Unchanged, CellsAt
    <3>3. CASE f \in NewFrame
      BY <2>1, <2>3, <3>3, NewFrameOK DEF CellsAt
    <3> QED
      BY <3>1, <3>2, <3>3
  <2>7. FrameInv'
    BY <2>6 DEF FrameInv
  <2> QED
    BY <2>4, <2>5, <2>7 DEF Inv
<1>2. CASE UNCHANGED mcVars
  BY <1>2 DEF mcVars, vars, Inv, FrameInv, Machine
<1> QED
  BY <1>1, <1>2

\* Bytes stay bytes and words stay words in every register and in the memory, and the
\* words that calls and pushes leave on the stack are in their cells.
THEOREM CpuInvariance == MCSpec => []Inv
<1> QED
  BY InvInit, InvNext, PTL DEF MCSpec

\* What a return or a pop takes off the stack is the word of the frame at its top.
LEMMA StackStep ==
  ASSUME Inv, NEW i \in Bytes \X Bytes \X Bytes, Execute(i), NEW f \in frames, f.sp = reg.SP
  PROVE  /\ Op \in Returns /\ reg'.SP # reg.SP => reg'.PC = f.word
         /\ Op \in Pops => Meant(Pair([reg |-> reg'], PairAt(Op))) = Meant(f.word)
<1> DEFINE m == Skip(Machine, 1)
           p == Perform(m, i)
           op == i[1]
<1>1. /\ Machine \in Machines /\ m \in Machines /\ p \in Machines
      /\ \A r \in Registers : r # "PC" => m.reg[r] = reg[r]
      /\ m.mem = mem
      /\ reg' = p.reg /\ instr' = i
  BY StepOK
<1>2. Op = op
  BY <1>1 DEF Op
<1>3. /\ op \in Returns => p = Ret(m, i)
      /\ op \in Pops => p = PopPair(m, i)
  BY <1>1, PerformOK
<1> HIDE DEF m, p
<1>4. m.reg["SP"] = reg["SP"]
  BY <1>1, Names
<1>5. Popped(m) = f.word
  <2>1. f.sp \in DataAddrs /\ Inc16(f.sp) \in DataAddrs /\ f.word = mem[Inc16(f.sp)] * 256 + mem[f.sp]
    BY DEF Inv, FrameInv, CellsAt
  <2>4. mem \in [DataAddrs -> Bytes]
    BY <1>1, MachineFields
  <2>5. Read(m, f.sp) = mem[f.sp] /\ Read(m, Inc16(f.sp)) = mem[Inc16(f.sp)]
    BY <1>1, <2>1, <2>4 DEF Read
  <2> QED
    BY <1>4, <2>1, <2>5 DEF Popped
<1>6. ASSUME op \in Returns, reg'.SP # reg.SP
      PROVE  reg'.PC = f.word
  <2>1. Taken(m, i[1])
    BY <1>1, <1>3, <1>4, <1>6, RetOK
  <2>2. Ret(m, i).reg["PC"] = Popped(m)
    BY <1>1, <2>1, RetOK
  <2> QED
    BY <1>1, <1>3, <1>5, <1>6, <2>2
<1>7. ASSUME op \in Pops
      PROVE  Pair([reg |-> reg'], PairAt(op)) = f.word
  <2>1. Pair(p, PairOf(op, "AF")) = Popped(m)
    BY <1>1, <1>3, <1>7, PopPairOK
  <2>2. PairAt(op) = PairOf(op, "AF") /\ PairAt(op) # "SP"
    BY <1>7, PairAtIs
  <2>3. Pair([reg |-> reg'], PairAt(op)) = Pair(p, PairAt(op))
    BY <1>1, <2>2 DEF Pair
  <2> QED
    BY <1>5, <2>1, <2>2, <2>3
<1> QED
  BY <1>2, <1>6, <1>7

\* What a RET or a POP takes off the stack is what a CALL or a PUSH put there, also where
\* the word lies across the last and the first address; of AF, the bits that mean something.
THEOREM ReturnsToItsCall == MCSpec => StackHolds
<1>1. Inv /\ [MCNext]_mcVars =>
        [\A f \in frames :
           f.sp = reg.SP =>
             /\ Op \in Returns /\ reg'.SP # reg.SP => reg'.PC = f.word
             /\ Op \in Pops => Meant(Pair([reg |-> reg'], PairAt(Op))) = Meant(f.word)]_mcVars
  <2> SUFFICES ASSUME Inv, MCNext, NEW f \in frames, f.sp = reg.SP
               PROVE  /\ Op \in Returns /\ reg'.SP # reg.SP => reg'.PC = f.word
                      /\ Op \in Pops => Meant(Pair([reg |-> reg'], PairAt(Op))) = Meant(f.word)
    OBVIOUS
  <2>1. PICK i \in Program[steps + 1] : Execute(i)
    BY DEF MCNext, Next
  <2>2. i \in Bytes \X Bytes \X Bytes
    BY ProgramOK DEF MCNext, Next
  <2> QED
    BY <2>1, <2>2, StackStep
<1> QED
  BY <1>1, InvInit, InvNext, PTL DEF MCSpec, StackHolds

-----------------------------------------------------------------------------
(* The program counter.                                                    *)

LEMMA BranchesAre ==
  ASSUME Inv, NEW i \in Bytes \X Bytes \X Bytes, Execute(i),
         i[1] \in Jumps \cup Returns \cup Calls
  PROVE  Branches <=> Taken(Skip(Machine, 1), i[1])
<1> DEFINE m == Skip(Machine, 1)
           op == i[1]
<1>1. m \in Machines /\ (\A r \in Registers : r # "PC" => m.reg[r] = reg[r]) /\ instr' = i
  BY StepOK
<1>2. Op = op
  BY <1>1 DEF Op
<1>3. m.reg.F = reg.F
  BY <1>1, Names
<1> HIDE DEF m
<1>4. /\ op \in {32, 192, 196} => (Taken(m, op) <=> reg.F \div 128 = 0)
      /\ op \in {40, 200, 204} => (Taken(m, op) <=> reg.F \div 128 = 1)
      /\ op \in {48, 208, 212} => (Taken(m, op) <=> (reg.F \div 16) % 2 = 0)
      /\ op \in {56, 216, 220} => (Taken(m, op) <=> (reg.F \div 16) % 2 = 1)
      /\ op \in {24, 201, 205} => Taken(m, op)
  BY <1>1, <1>3, TakenCases
<1>5. op \in {32, 192, 196} \cup {40, 200, 204} \cup {48, 208, 212} \cup {56, 216, 220}
             \cup {24, 201, 205}
  BY DEF Jumps, Returns, Calls
<1> HIDE DEF op
<1>6. \/ /\ op \in {32, 192, 196}
         /\ op \notin {40, 200, 204} \cup {48, 208, 212} \cup {56, 216, 220} \cup {24, 201, 205}
      \/ /\ op \in {40, 200, 204}
         /\ op \notin {32, 192, 196} \cup {48, 208, 212} \cup {56, 216, 220} \cup {24, 201, 205}
      \/ /\ op \in {48, 208, 212}
         /\ op \notin {32, 192, 196} \cup {40, 200, 204} \cup {56, 216, 220} \cup {24, 201, 205}
      \/ /\ op \in {56, 216, 220}
         /\ op \notin {32, 192, 196} \cup {40, 200, 204} \cup {48, 208, 212} \cup {24, 201, 205}
      \/ op \in {24, 201, 205}
  BY <1>5
<1>7. Branches <=> \/ op \in {32, 192, 196} /\ reg.F \div 128 = 0
                   \/ op \in {40, 200, 204} /\ reg.F \div 128 = 1
                   \/ op \in {48, 208, 212} /\ (reg.F \div 16) % 2 = 0
                   \/ op \in {56, 216, 220} /\ (reg.F \div 16) % 2 = 1
                   \/ op \in {24, 201, 205}
  BY <1>2 DEF Branches
<1>8. Branches <=> Taken(m, op)
  BY <1>4, <1>6, <1>7
<1> QED
  BY <1>8 DEF m, op

\* Arithmetic of the program counter modulo 2^16.
LEMMA TwoFetches ==
  ASSUME NEW w \in Words
  PROVE  /\ (((w + 1) % 65536) + 1) % 65536 = (w + 2) % 65536
         /\ (((w + 1) % 65536) + 2) % 65536 = (w + 3) % 65536
         /\ (((w + 1) % 65536) + (1 - 1)) % 65536 = (w + 1) % 65536
         /\ (((w + 1) % 65536) + (2 - 1)) % 65536 = (w + 2) % 65536
         /\ (((w + 1) % 65536) + (3 - 1)) % 65536 = (w + 3) % 65536
BY WordFacts

LEMMA Lengths ==
  ASSUME NEW op
  PROVE  /\ Length(op) \in {1, 2, 3}
         /\ op \in Jumps => Length(op) = 2
         /\ op \in Calls => Length(op) = 3
         /\ op \in Returns => Length(op) = 1
BY DEF Length, Jumps, Calls, Returns

LEMMA RelativeJump ==
  ASSUME NEW next \in Words, NEW e \in Bytes, NEW pc, pc = (next + Signed(e)) % 65536
  PROVE  (pc - next - e) % 256 = 0 /\ (pc - next + 128) % 65536 < 256
<1> DEFINE s == Signed(e)
<1>1. next \in Nat /\ next < 65536 /\ e \in Nat /\ e < 256
  BY WordFacts, ByteFacts
<1>2. s = IF e < 128 THEN e ELSE e - 256
  BY DEF Signed
<1>3. s \in Int /\ -128 <= s /\ s < 128 /\ (s = e \/ s = e - 256)
  BY <1>1, <1>2
<1>4. pc = (next + s) % 65536
  OBVIOUS
<1> HIDE DEF s
<1>5. pc \in Int /\ (pc = next + s \/ pc = next + s - 65536 \/ pc = next + s + 65536)
  BY <1>1, <1>3, <1>4
<1>6. (pc - next - e) % 256 = 0
  BY <1>1, <1>3, <1>5
<1>7. (pc - next + 128) % 65536 = s + 128
  BY <1>1, <1>3, <1>5
<1>8. s + 128 < 256
  BY <1>3
<1> QED
  BY <1>6, <1>7, <1>8

LEMMA NextIs ==
  ASSUME NEW w \in Words, NEW op, NEW pc,
         pc = (((w + 1) % 65536) + (Length(op) - 1)) % 65536
  PROVE  pc = (w + Length(op)) % 65536
<1> DEFINE k == Length(op)
<1>1. k \in {1, 2, 3}
  BY Lengths
<1> HIDE DEF k
<1>2. w \in Nat
  BY WordFacts
<1>3. (((w + 1) % 65536) + (k - 1)) % 65536 = (w + k) % 65536
  BY <1>1, <1>2
<1> QED
  BY <1>3 DEF k

LEMMA TwoPops ==
  ASSUME NEW w \in Words
  PROVE  Inc16(Inc16(w)) = (w + 2) % 65536
BY WordFacts DEF Inc16

LEMMA PcStep ==
  ASSUME Inv, NEW i \in Bytes \X Bytes \X Bytes, Execute(i)
  PROVE  LET next == (reg.PC + Length(Op)) % 65536
         IN  /\ Op \in Calls /\ Branches => reg'.PC = instr'[2] + 256 * instr'[3]
             /\ Op \in Jumps /\ Branches => /\ (reg'.PC - next - instr'[2]) % 256 = 0
                                            /\ (reg'.PC - next + 128) % 65536 < 256
             /\ Op \in Returns /\ Branches => reg'.SP = (reg.SP + 2) % 65536
             /\ ~Branches => reg'.PC = next
<1> DEFINE m == Skip(Machine, 1)
           p == Perform(m, i)
           op == i[1]
           next == (reg["PC"] + Length(op)) % 65536
<1>1. /\ Machine \in Machines /\ m \in Machines /\ p \in Machines
      /\ m.reg["PC"] = (reg["PC"] + 1) % 65536
      /\ \A r \in Registers : r # "PC" => m.reg[r] = reg[r]
      /\ reg' = p.reg /\ instr' = i
  BY StepOK
<1>2. Op = op
  BY <1>1 DEF Op
<1>3. /\ op \in Jumps => p = Jr(m, i)
      /\ op \in Returns => p = Ret(m, i)
      /\ op \in Calls => p = Call(m, i)
      /\ op \notin Jumps \cup Returns \cup Calls => Fetches(m, Length(op) - 1, p)
  BY <1>1, PerformOK
<1>4. op \in Jumps \cup Returns \cup Calls => (Branches <=> Taken(m, op))
  BY BranchesAre
<1> HIDE DEF m, p
<1>5. reg["PC"] \in Words /\ reg["SP"] \in Words /\ m.reg["SP"] = reg["SP"]
  BY <1>1, MachineFields, Names DEF Machine
<1>6. Word(i) = i[2] + 256 * i[3] /\ i[2] \in Bytes
  BY WordOK
<1>7. CASE op \in Calls
  <2>1. op \notin Jumps /\ op \notin Returns
    BY <1>7 DEF Calls, Jumps, Returns
  <2>2. /\ Taken(m, op) => Call(m, i).reg["PC"] = Word(i)
        /\ ~Taken(m, op) => Call(m, i).reg["PC"] = (m.reg["PC"] + 2) % 65536
    BY <1>1, CallOK
  <2>3. (m.reg["PC"] + 2) % 65536 = next
    BY <1>1, <1>5, <1>7, TwoFetches, Lengths
  <2> QED
    BY <1>1, <1>2, <1>3, <1>4, <1>6, <1>7, <2>1, <2>2, <2>3
<1>8. CASE op \in Jumps
  <2>1. op \notin Calls /\ op \notin Returns
    BY <1>8 DEF Calls, Jumps, Returns
  <2>2. (m.reg["PC"] + 1) % 65536 = next
    BY <1>1, <1>5, <1>8, TwoFetches, Lengths
  <2>3. /\ Taken(m, op) => Jr(m, i).reg["PC"] = (next + Signed(i[2])) % 65536
        /\ ~Taken(m, op) => Jr(m, i).reg["PC"] = next
    BY <1>1, <2>2, JrOK
  <2>4. next \in Words
    <3>1. reg["PC"] + Length(op) \in Int
      BY <1>5, <1>8, WordFacts, Lengths
    <3> QED
      BY <3>1, ModWord
  <2> DEFINE pc == Jr(m, i).reg["PC"]
  <2> HIDE DEF next, op
  <2>5. Taken(m, op) => (pc - next - i[2]) % 256 = 0 /\ (pc - next + 128) % 65536 < 256
    BY <1>6, <2>3, <2>4, RelativeJump
  <2>6. reg'.PC = pc
    BY <1>1, <1>3, <1>8
  <2> HIDE DEF pc
  <2> QED
    BY <1>1, <1>2, <1>4, <1>8, <2>1, <2>3, <2>5, <2>6 DEF next, pc
<1>9. CASE op \in Returns
  <2>1. op \notin Calls /\ op \notin Jumps
    BY <1>9 DEF Calls, Jumps, Returns
  <2>2. /\ Taken(m, op) => Ret(m, i).reg["SP"] = Inc16(Inc16(m.reg["SP"]))
        /\ ~Taken(m, op) => Ret(m, i) = m
    <3>1. m \in Machines
      BY <1>1
    <3> HIDE <1>1
    <3>2. Taken(m, i[1]) => Ret(m, i).reg["SP"] = Inc16(Inc16(m.reg["SP"]))
      BY <3>1, RetOK
    <3>3. ~Taken(m, i[1]) => Ret(m, i) = m
      BY DEF Ret
    <3> QED
      BY <3>2, <3>3
  <2>3. Inc16(Inc16(m.reg["SP"])) = (reg["SP"] + 2) % 65536
    BY <1>5, TwoPops
  <2>4. m.reg["PC"] = next
    BY <1>1, <1>9, Lengths
  <2> QED
    BY <1>1, <1>2, <1>3, <1>4, <1>9, <2>1, <2>2, <2>3, <2>4
<1>10. CASE op \notin Calls \cup Jumps \cup Returns
  <2>1. p.reg["PC"] = (m.reg["PC"] + (Length(op) - 1)) % 65536
    BY <1>3, <1>10 DEF Fetches
  <2>2. p.reg["PC"] = next
    BY <1>1, <1>5, <2>1, NextIs
  <2>3. op \notin Calls /\ op \notin Jumps /\ op \notin Returns
    BY <1>10
  <2> QED
    BY <1>1, <1>2, <2>2, <2>3
<1> HIDE DEF next, op
<1> QED
  BY <1>7, <1>8, <1>9, <1>10

\* Every instruction consumes its own bytes, whether or not its branch is taken, and a
\* taken branch goes from there to its target.
THEOREM CounterFollows == MCSpec => PcFollows
<1>1. Inv /\ [MCNext]_mcVars =>
        [LET next == (reg.PC + Length(Op)) % 65536
         IN  /\ Op \in Calls /\ Branches => reg'.PC = instr'[2] + 256 * instr'[3]
             /\ Op \in Jumps /\ Branches => /\ (reg'.PC - next - instr'[2]) % 256 = 0
                                            /\ (reg'.PC - next + 128) % 65536 < 256
             /\ Op \in Returns /\ Branches => reg'.SP = (reg.SP + 2) % 65536
             /\ ~Branches => reg'.PC = next]_mcVars
  <2> SUFFICES ASSUME Inv, MCNext
               PROVE  LET next == (reg.PC + Length(Op)) % 65536
                      IN  /\ Op \in Calls /\ Branches => reg'.PC = instr'[2] + 256 * instr'[3]
                          /\ Op \in Jumps /\ Branches =>
                               /\ (reg'.PC - next - instr'[2]) % 256 = 0
                               /\ (reg'.PC - next + 128) % 65536 < 256
                          /\ Op \in Returns /\ Branches => reg'.SP = (reg.SP + 2) % 65536
                          /\ ~Branches => reg'.PC = next
    OBVIOUS
  <2>1. PICK i \in Program[steps + 1] : Execute(i)
    BY DEF MCNext, Next
  <2>2. i \in Bytes \X Bytes \X Bytes
    BY ProgramOK DEF MCNext, Next
  <2> QED
    BY <2>1, <2>2, PcStep
<1> QED
  BY <1>1, InvInit, InvNext, PTL DEF MCSpec, PcFollows

-----------------------------------------------------------------------------
(* The other identities of the arithmetic logic unit.                      *)

LEMMA HalfCarry ==
  ASSUME NEW l \in Bytes, NEW r \in Bytes, NEW carry \in BOOLEAN
  PROVE  LET sum == Adc8(l, r, carry)
         IN  sum.h <=> (sum.value % 16 < (l % 16) + Carry(carry) \/ (carry /\ r % 16 = 15))
<1> DEFINE k == Carry(carry)
           a == l % 16
           b == r % 16
           lq == l \div 16
           rq == r \div 16
           value == (l + r + k) % 256
<1>1. l \in Nat /\ l < 256 /\ r \in Nat /\ r < 256 /\ k \in {0, 1}
  BY ByteFacts, CarryFacts
<1>2. Adc8(l, r, carry).h = (a + b + k > 15) /\ Adc8(l, r, carry).value = value
  BY DEF Adc8, Result, Low
<1>3. carry <=> k = 1
  BY DEF Carry
<1> HIDE DEF k
<1>4. a \in Nat /\ a < 16 /\ b \in Nat /\ b < 16 /\ lq \in Nat /\ rq \in Nat
  BY <1>1
<1>5. l = 16 * lq + a /\ r = 16 * rq + b
  BY <1>1
<1> HIDE DEF a, b, lq, rq
<1>6. value % 16 = (a + b + k) % 16
  BY <1>1, <1>4, <1>5
<1> HIDE DEF value
<1>7. a + b + k > 15 <=> (value % 16 < a + k \/ (k = 1 /\ b = 15))
  BY <1>1, <1>4, <1>6
<1> QED
  BY <1>2, <1>3, <1>7 DEF a, b, k

LEMMA WithoutCarry ==
  ASSUME NEW l \in Bytes, NEW r \in Bytes
  PROVE  Add8(l, r) = Adc8(l, r, FALSE) /\ Cp8(l, r) = Sbc8(l, r, FALSE)
<1>1. l \in Nat /\ r \in Nat /\ Low(l) \in Int /\ Low(r) \in Int
  BY ByteFacts DEF Low
<1>2. Carry(FALSE) = 0
  BY DEF Carry
<1>3. /\ l + r + 0 = l + r /\ Low(l) + Low(r) + 0 = Low(l) + Low(r)
      /\ l - r - 0 = l - r /\ Low(r) + 0 = Low(r) /\ r + 0 = r
  BY <1>1
<1>4. Add8(l, r) = Adc8(l, r, FALSE)
  BY <1>2, <1>3 DEF Add8, Adc8
<1>5. Cp8(l, r) = Sbc8(l, r, FALSE)
  BY <1>2, <1>3 DEF Cp8, Sub8, Sbc8
<1> QED
  BY <1>4, <1>5

LEMMA SignedSum ==
  ASSUME NEW w \in Words, NEW r \in Bytes
  PROVE  Add16e8(w, r).value = (IF r < 128 THEN w + r ELSE w + 65536 + r - 256) % 65536
<1>1. w \in Nat /\ r \in Nat /\ r < 256
  BY WordFacts, ByteFacts
<1>2. Add16e8(w, r).value = (w + (IF r < 128 THEN r ELSE r - 256)) % 65536
  BY DEF Add16e8, Signed
<1> QED
  BY <1>1, <1>2

LEMMA Undone ==
  ASSUME NEW v \in Bytes
  PROVE  /\ Dec8(Inc8(v).value).value = v
         /\ Cpl8(Cpl8(v).value).value = v
         /\ Swap8(Swap8(v).value).value = v
<1>1. v \in Nat /\ v < 256
  BY ByteFacts
<1>2. Dec8(Inc8(v).value).value = (((v + 1) % 256) - 1) % 256
  BY DEF Dec8, Inc8, Result
<1>3. (((v + 1) % 256) - 1) % 256 = v
  BY <1>1
<1>4. Cpl8(Cpl8(v).value).value = 255 - (255 - v)
  BY DEF Cpl8, Result
<1>5. 255 - (255 - v) = v
  BY <1>1
<1> DEFINE x == (v \div 16) + 16 * (v % 16)
<1>6. Swap8(Swap8(v).value).value = (x \div 16) + 16 * (x % 16)
  BY DEF Swap8, Result, Low
<1>7. x \div 16 = v % 16 /\ x % 16 = v \div 16
  BY <1>1
<1> HIDE DEF x
<1>8. (x \div 16) + 16 * (x % 16) = v
  <2>1. v = 16 * (v \div 16) + (v % 16) /\ v \div 16 \in Nat /\ v % 16 \in Nat
    BY <1>1
  <2>2. (x \div 16) + 16 * (x % 16) = (v % 16) + 16 * (v \div 16)
    BY <1>7
  <2> DEFINE q == v \div 16  r == v % 16
  <2> HIDE DEF q, r
  <2>3. v = 16 * q + r /\ q \in Nat /\ r \in Nat
    BY <2>1 DEF q, r
  <2>4. r + 16 * q = v
    BY <2>3
  <2> QED
    BY <2>2, <2>4 DEF q, r
<1> QED
  BY <1>2, <1>3, <1>4, <1>5, <1>6, <1>8

LEMMA WordUndone ==
  ASSUME NEW w \in Words
  PROVE  Dec16(Inc16(w)) = w
BY IncDec16, WordFacts

LEMMA RotationUndone ==
  ASSUME NEW v \in Bytes
  PROVE  Rrc8(Rlc8(v).value).value = v
<1> DEFINE k == IF v >= 128 THEN 1 ELSE 0
           x == ((2 * v) % 256) + k
<1>1. v \in Nat /\ v < 256
  BY ByteFacts
<1>2. Rlc8(v).value = x
  BY DEF Rlc8, Left, Top, Carry, Result
<1>3. \A y : Rrc8(y).value = (y \div 2) + (IF y % 2 = 1 THEN 128 ELSE 0)
  BY DEF Rrc8, Right, Odd, Result
<1>4. x \div 2 = (IF v >= 128 THEN v - 128 ELSE v) /\ x % 2 = k
  <2>1. (2 * v) % 256 = 2 * (IF v >= 128 THEN v - 128 ELSE v)
    BY <1>1
  <2> QED
    BY <1>1, <2>1
<1> HIDE DEF x
<1>5. (x \div 2) + (IF x % 2 = 1 THEN 128 ELSE 0) = v
  BY <1>1, <1>4
<1> QED
  BY <1>2, <1>3, <1>5

LEMMA ShiftsAre ==
  ASSUME NEW v \in Bytes
  PROVE  /\ Sla8(v).value = Add8(v, v).value
         /\ 2 * Srl8(v).value + Carry(Srl8(v).c) = v
<1>1. v \in Nat /\ v < 256
  BY ByteFacts
<1>2. Sla8(v).value = ((2 * v) % 256) + 0 /\ Add8(v, v).value = (v + v) % 256
  BY DEF Sla8, Left, Carry, Add8, Result
<1>3. Srl8(v).value = (v \div 2) + 0 /\ Srl8(v).c = (v % 2 = 1)
  BY DEF Srl8, Right, Odd, Result
<1>4. Carry(Srl8(v).c) = IF v % 2 = 1 THEN 1 ELSE 0
  BY <1>3 DEF Carry
<1>5. ((2 * v) % 256) + 0 = (v + v) % 256
  BY <1>1
<1>6. 2 * ((v \div 2) + 0) + (IF v % 2 = 1 THEN 1 ELSE 0) = v
  BY <1>1
<1> QED
  BY <1>2, <1>3, <1>4, <1>5, <1>6

LEMMA ByteIsBits ==
  ASSUME NEW v \in Bytes
  PROVE  v = Bit(0, v) + 2 * Bit(1, v) + 4 * Bit(2, v) + 8 * Bit(3, v)
             + 16 * Bit(4, v) + 32 * Bit(5, v) + 64 * Bit(6, v) + 128 * Bit(7, v)
<1>1. v \in Nat /\ v < 256
  BY ByteFacts
<1>2. /\ Bit(0, v) = (v \div 1) % 2 /\ Bit(1, v) = (v \div 2) % 2 /\ Bit(2, v) = (v \div 4) % 2
      /\ Bit(3, v) = (v \div 8) % 2 /\ Bit(4, v) = (v \div 16) % 2 /\ Bit(5, v) = (v \div 32) % 2
      /\ Bit(6, v) = (v \div 64) % 2 /\ Bit(7, v) = (v \div 128) % 2
  BY DEF Bit, Power
<1> DEFINE b == v \div 2  c == v \div 4  d == v \div 8  e == v \div 16
           f == v \div 32  g == v \div 64  h == v \div 128
<1>3. b \in Nat /\ c \in Nat /\ d \in Nat /\ e \in Nat /\ f \in Nat /\ g \in Nat /\ h \in {0, 1}
  BY <1>1
<1>4. v \div 1 = v
  BY <1>1
<1>5. /\ v = 2 * b + (v % 2) /\ b = 2 * c + (b % 2) /\ c = 2 * d + (c % 2)
      /\ d = 2 * e + (d % 2) /\ e = 2 * f + (e % 2) /\ f = 2 * g + (f % 2)
      /\ g = 2 * h + (g % 2) /\ h = h % 2
  BY <1>1
<1> HIDE DEF b, c, d, e, f, g, h
<1>6. v = (v % 2) + 2 * (b % 2) + 4 * (c % 2) + 8 * (d % 2)
          + 16 * (e % 2) + 32 * (f % 2) + 64 * (g % 2) + 128 * (h % 2)
  BY <1>1, <1>3, <1>5
<1> QED
  BY <1>2, <1>4, <1>6 DEF b, c, d, e, f, g, h

LEMMA BitPairs ==
  ASSUME NEW a \in {0, 1}, NEW b \in {0, 1}
  PROVE  LET or == IF a + b = 0 THEN 0 ELSE 1
         IN  a * b + or = a + b /\ (a + b) % 2 = or - a * b /\ a * b \in {0, 1} /\ or \in {0, 1}
             /\ (a + b) % 2 \in {0, 1}
OBVIOUS

\* The logic, bit by bit, against sums: x and y is what x + y counts twice.
LEMMA LogicIs ==
  ASSUME NEW l \in Bytes, NEW r \in Bytes
  PROVE  /\ And8(l, r).value + Or8(l, r).value = l + r
         /\ Xor8(l, r).value = Or8(l, r).value - And8(l, r).value
<1> DEFINE and(k) == Bit(k, l) * Bit(k, r)
           xor(k) == (Bit(k, l) + Bit(k, r)) % 2
           or(k) == IF Bit(k, l) + Bit(k, r) = 0 THEN 0 ELSE 1
           x(k) == Bit(k, l)
           y(k) == Bit(k, r)
<1>1. ASSUME NEW k \in 0..7
      PROVE  /\ x(k) \in {0, 1} /\ y(k) \in {0, 1} /\ and(k) \in {0, 1} /\ or(k) \in {0, 1}
             /\ xor(k) \in {0, 1}
             /\ and(k) + or(k) = x(k) + y(k) /\ xor(k) = or(k) - and(k)
  <2>1. Bit(k, l) \in {0, 1} /\ Bit(k, r) \in {0, 1}
    BY BitValue
  <2> QED
    BY <2>1, BitPairs
<1>2. /\ And8(l, r).value = and(0) + 2 * and(1) + 4 * and(2) + 8 * and(3)
                            + 16 * and(4) + 32 * and(5) + 64 * and(6) + 128 * and(7)
      /\ Or8(l, r).value = or(0) + 2 * or(1) + 4 * or(2) + 8 * or(3)
                           + 16 * or(4) + 32 * or(5) + 64 * or(6) + 128 * or(7)
      /\ Xor8(l, r).value = xor(0) + 2 * xor(1) + 4 * xor(2) + 8 * xor(3)
                            + 16 * xor(4) + 32 * xor(5) + 64 * xor(6) + 128 * xor(7)
  BY DEF And8, Or8, Xor8, Result, OfBits
<1>3. /\ l = x(0) + 2 * x(1) + 4 * x(2) + 8 * x(3) + 16 * x(4) + 32 * x(5) + 64 * x(6) + 128 * x(7)
      /\ r = y(0) + 2 * y(1) + 4 * y(2) + 8 * y(3) + 16 * y(4) + 32 * y(5) + 64 * y(6) + 128 * y(7)
  BY ByteIsBits
<1> HIDE DEF and, or, xor, x, y
<1>4. /\ and(0) + or(0) = x(0) + y(0) /\ and(1) + or(1) = x(1) + y(1)
      /\ and(2) + or(2) = x(2) + y(2) /\ and(3) + or(3) = x(3) + y(3)
      /\ and(4) + or(4) = x(4) + y(4) /\ and(5) + or(5) = x(5) + y(5)
      /\ and(6) + or(6) = x(6) + y(6) /\ and(7) + or(7) = x(7) + y(7)
  BY <1>1, SmallKs
<1>5. /\ xor(0) = or(0) - and(0) /\ xor(1) = or(1) - and(1) /\ xor(2) = or(2) - and(2)
      /\ xor(3) = or(3) - and(3) /\ xor(4) = or(4) - and(4) /\ xor(5) = or(5) - and(5)
      /\ xor(6) = or(6) - and(6) /\ xor(7) = or(7) - and(7)
  BY <1>1, SmallKs
<1>6. /\ and(0) \in Int /\ and(1) \in Int /\ and(2) \in Int /\ and(3) \in Int
      /\ and(4) \in Int /\ and(5) \in Int /\ and(6) \in Int /\ and(7) \in Int
      /\ or(0) \in Int /\ or(1) \in Int /\ or(2) \in Int /\ or(3) \in Int
      /\ or(4) \in Int /\ or(5) \in Int /\ or(6) \in Int /\ or(7) \in Int
      /\ x(0) \in Int /\ x(1) \in Int /\ x(2) \in Int /\ x(3) \in Int
      /\ x(4) \in Int /\ x(5) \in Int /\ x(6) \in Int /\ x(7) \in Int
      /\ y(0) \in Int /\ y(1) \in Int /\ y(2) \in Int /\ y(3) \in Int
      /\ y(4) \in Int /\ y(5) \in Int /\ y(6) \in Int /\ y(7) \in Int
  <2>1. ASSUME NEW k \in 0..7
        PROVE  and(k) \in Int /\ or(k) \in Int /\ x(k) \in Int /\ y(k) \in Int
    <3>1. and(k) \in {0, 1} /\ or(k) \in {0, 1} /\ x(k) \in {0, 1} /\ y(k) \in {0, 1}
      BY <1>1
    <3> QED
      BY <3>1
  <2> QED
    BY <2>1, SmallKs
<1>7. And8(l, r).value + Or8(l, r).value = l + r
  BY <1>2, <1>3, <1>4, <1>6
<1>8. Xor8(l, r).value = Or8(l, r).value - And8(l, r).value
  BY <1>2, <1>5, <1>6
<1> QED
  BY <1>7, <1>8

LEMMA BitMoves ==
  ASSUME NEW v \in Nat, NEW P \in {1, 2, 4, 8, 16, 32, 64, 128}
  PROVE  /\ (v \div P) % 2 # 1 => ((v + P) \div P) % 2 = 1
         /\ (v \div P) % 2 = 1 => ((v - P) \div P) % 2 # 1
<1>1. (v + P) \div P = (v \div P) + 1 /\ (v - P) \div P = (v \div P) - 1
  OBVIOUS
<1>2. v \div P \in Int
  OBVIOUS
<1> DEFINE q == v \div P
<1> HIDE DEF q
<1>3. q \in Int /\ (v + P) \div P = q + 1 /\ (v - P) \div P = q - 1
  BY <1>1, <1>2 DEF q
<1>4. /\ q % 2 # 1 => (q + 1) % 2 = 1
      /\ q % 2 = 1 => (q - 1) % 2 # 1
  BY <1>3
<1> QED
  BY <1>3, <1>4 DEF q

LEMMA SingleBits ==
  ASSUME NEW v \in Bytes, NEW k \in 0..7
  PROVE  ~BitTest8(k, Set8(k, v)).z /\ BitTest8(k, Res8(k, v)).z
<1> DEFINE P == Power[k + 1]
<1>1. v \in Nat
  BY ByteFacts
<1>2. k \in {0, 1, 2, 3, 4, 5, 6, 7}
  OBVIOUS
<1>3. P \in {1, 2, 4, 8, 16, 32, 64, 128}
  BY <1>2 DEF Power
<1>4. \A y : BitSet(k, y) <=> (y \div P) % 2 = 1
  BY DEF BitSet, Bit
<1>5. \A y : BitTest8(k, y).z <=> ~BitSet(k, y)
  BY DEF BitTest8
<1>6. /\ Set8(k, v) = IF BitSet(k, v) THEN v ELSE v + P
      /\ Res8(k, v) = IF BitSet(k, v) THEN v - P ELSE v
  BY DEF Set8, Res8
<1> HIDE DEF P
<1>7. /\ (v \div P) % 2 # 1 => ((v + P) \div P) % 2 = 1
      /\ (v \div P) % 2 = 1 => ((v - P) \div P) % 2 # 1
  BY <1>1, <1>3, BitMoves
<1> QED
  BY <1>4, <1>5, <1>6, <1>7

LEMMA AluHolds ==
  ASSUME Inv
  PROVE  AluAgrees
<1> DEFINE l == reg.A
           r == reg.B
           ll == Pair(Machine, "HL")
           rr == Pair(Machine, "BC")
<1>1. Machine \in Machines
  BY DEF Inv
<1>2. Machine.reg = reg
  BY DEF Machine
<1>3. l \in Bytes /\ r \in Bytes
  BY <1>1, <1>2, MachineFields, Names
<1>4. ll \in Words /\ rr \in Words
  BY <1>1, PairOK, PairsNamed
<1> HIDE DEF l, r, ll, rr
<1> DEFINE carries ==
        \A carry \in BOOLEAN :
           LET sum == Adc8(l, r, carry)
               difference == Sbc8(l, r, carry)
               left == Rl8(l, carry)
           IN  /\ sum.value + 256 * Carry(sum.c) = l + r + Carry(carry)
               /\ sum.h <=> (sum.value % 16 < (l % 16) + Carry(carry) \/ (carry /\ r % 16 = 15))
               /\ difference.value - 256 * Carry(difference.c) = l - r - Carry(carry)
               /\ Rr8(left.value, left.c).value = l /\ Rr8(left.value, left.c).c = carry
<1>5. carries
  <2> SUFFICES ASSUME NEW carry \in BOOLEAN
               PROVE  LET sum == Adc8(l, r, carry)
                          difference == Sbc8(l, r, carry)
                          left == Rl8(l, carry)
                      IN  /\ sum.value + 256 * Carry(sum.c) = l + r + Carry(carry)
                          /\ sum.h <=> (sum.value % 16 < (l % 16) + Carry(carry)
                                         \/ (carry /\ r % 16 = 15))
                          /\ difference.value - 256 * Carry(difference.c) = l - r - Carry(carry)
                          /\ Rr8(left.value, left.c).value = l /\ Rr8(left.value, left.c).c = carry
    OBVIOUS
  <2>1. Adc8(l, r, carry).value + 256 * Carry(Adc8(l, r, carry).c) = l + r + Carry(carry)
    BY <1>3, AdcIsExact
  <2>2. Adc8(l, r, carry).h <=>
          (Adc8(l, r, carry).value % 16 < (l % 16) + Carry(carry) \/ (carry /\ r % 16 = 15))
    BY <1>3, HalfCarry
  <2>3. Sbc8(l, r, carry).value - 256 * Carry(Sbc8(l, r, carry).c) = l - r - Carry(carry)
    BY <1>3, SbcIsExact
  <2>4. /\ Rr8(Rl8(l, carry).value, Rl8(l, carry).c).value = l
        /\ Rr8(Rl8(l, carry).value, Rl8(l, carry).c).c = carry
    BY <1>3, RotationsUndo
  <2> QED
    BY <2>1, <2>2, <2>3, <2>4, Zenon
<1>6. Add8(l, r) = Adc8(l, r, FALSE) /\ Cp8(l, r) = Sbc8(l, r, FALSE)
  BY <1>3, WithoutCarry
<1>7. Add16(ll, rr).value + 65536 * Carry(Add16(ll, rr).c) = ll + rr
  BY <1>4, Add16IsExact
<1>8. Add16e8(ll, r).value = (IF r < 128 THEN ll + r ELSE ll + 65536 + r - 256) % 65536
  BY <1>3, <1>4, SignedSum
<1>9. /\ And8(l, r).value + Or8(l, r).value = l + r
      /\ Xor8(l, r).value = Or8(l, r).value - And8(l, r).value
  BY <1>3, LogicIs
<1>10. /\ Rrc8(Rlc8(l).value).value = l /\ Swap8(Swap8(l).value).value = l
       /\ Dec8(Inc8(l).value).value = l /\ Dec16(Inc16(ll)) = ll /\ Cpl8(Cpl8(l).value).value = l
  BY <1>3, <1>4, RotationUndone, Undone, WordUndone
<1>11. Sla8(l).value = Add8(l, l).value /\ 2 * Srl8(l).value + Carry(Srl8(l).c) = l
  BY <1>3, ShiftsAre
<1>12. \A k \in 0..7 : ~BitTest8(k, Set8(k, l)).z /\ BitTest8(k, Res8(k, l)).z
  BY <1>3, SingleBits
<1> HIDE DEF carries
<1>13. AluAgrees <=>
       /\ carries
       /\ Add8(l, r) = Adc8(l, r, FALSE) /\ Cp8(l, r) = Sbc8(l, r, FALSE)
       /\ Add16(ll, rr).value + 65536 * Carry(Add16(ll, rr).c) = ll + rr
       /\ Add16e8(ll, r).value = (IF r < 128 THEN ll + r ELSE ll + 65536 + r - 256) % 65536
       /\ And8(l, r).value + Or8(l, r).value = l + r
       /\ Xor8(l, r).value = Or8(l, r).value - And8(l, r).value
       /\ Rrc8(Rlc8(l).value).value = l /\ Swap8(Swap8(l).value).value = l
       /\ Dec8(Inc8(l).value).value = l /\ Dec16(Inc16(ll)) = ll /\ Cpl8(Cpl8(l).value).value = l
       /\ Sla8(l).value = Add8(l, l).value /\ 2 * Srl8(l).value + Carry(Srl8(l).c) = l
       /\ \A k \in 0..7 : ~BitTest8(k, Set8(k, l)).z /\ BitTest8(k, Res8(k, l)).z
  BY DEF AluAgrees, carries, l, r, ll, rr
<1> QED
  BY <1>5, <1>6, <1>7, <1>8, <1>9, <1>10, <1>11, <1>12, <1>13

\* The arithmetic logic unit agrees with the integers on whatever any program brings into
\* the registers.
THEOREM AluIsRight == MCSpec => []AluAgrees
<1>1. Inv => AluAgrees
  BY AluHolds
<1> QED
  BY <1>1, CpuInvariance, PTL

=============================================================================
