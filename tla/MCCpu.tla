-------------------------------- MODULE MCCpu --------------------------------
(***************************************************************************)
(* Instance of Cpu for TLC, with what was put on the stack as history.     *)
(* The first instructions choose registers, a call or a push; the third is *)
(* any opcode of both tables; the last ones look at what came out.         *)
(***************************************************************************)
EXTENDS Cpu

VARIABLE frames   \* words on the stack whose bytes nothing has changed since: [sp, word]

mcVars == <<vars, frames>>

MCDataAddrs == {0, 255, 512, 65280, 65533, 65534, 65535}
One(op) == <<op, 0, 0>>
Two(op, b) == <<op, b, 0>>
MCProgram ==
  << {Two(62, 127), Two(62, 128), Two(62, 255), <<1, 255, 1>>, <<33, 255, 255>>, <<33, 240, 128>>,
      <<205, 255, 1>>, One(205), <<196, 0, 2>>, <<204, 0, 2>>, <<49, 0, 2>>, <<49, 1, 0>>,
      One(245)},
     {Two(6, 1), Two(6, 255), Two(14, 15), One(197), One(229), <<205, 128, 1>>, <<212, 255, 0>>,
      <<220, 0, 2>>, Two(203, 7), Two(203, 65), One(60), One(61), One(175), Two(198, 1),
      Two(254, 255), <<33, 254, 255>>, One(201), One(8)},
     {<<op, b, 255>> : op \in Bytes \ {203}, b \in {254}} \cup {Two(203, op) : op \in Bytes},
     {One(201), One(192), One(200), One(208), One(216), One(193), One(225), One(241), Two(24, 128)} >>

-----------------------------------------------------------------------------
(* The shape of an instruction, from the instruction set.                  *)

Op == instr'[1]
PairAt(op) == <<"BC", "DE", "HL", "AF">>[((op - 192) \div 16) + 1]
Pushes == {197, 213, 229, 245}
Pops == {193, 209, 225, 241}
Calls == {205, 196, 204, 212, 220}
Returns == {201, 192, 200, 208, 216}
Jumps == {24, 32, 40, 48, 56}
Length(op) ==
  IF op \in Calls \cup {1, 17, 33, 49, 234, 250} THEN 3
  ELSE IF op \in Jumps \cup {6, 14, 22, 30, 38, 46, 54, 62, 198, 214, 238, 254, 224, 240, 203}
  THEN 2 ELSE 1
\* Whether the instruction is a branch whose condition holds, by the flags before it.
Branches ==
  \/ Op \in {32, 192, 196} /\ reg.F \div 128 = 0
  \/ Op \in {40, 200, 204} /\ reg.F \div 128 = 1
  \/ Op \in {48, 208, 212} /\ (reg.F \div 16) % 2 = 0
  \/ Op \in {56, 216, 220} /\ (reg.F \div 16) % 2 = 1
  \/ Op \in {24, 201, 205}

-----------------------------------------------------------------------------
(* History: the words that calls and pushes left on the stack.             *)

\* A word takes two cells; the stack goes on from the last address to the first.
CellsAt(sp) == {sp, Inc16(sp)}
Unchanged(f) == \A a \in CellsAt(f.sp) : mem'[a] = mem[a]
NewFrame ==
  LET sp == reg'.SP
      word == IF Op \in Pushes THEN Pair(Machine, PairAt(Op)) ELSE (reg.PC + 3) % 65536
  IN  IF Op \in Pushes \cup Calls /\ sp # reg.SP /\ CellsAt(sp) \subseteq DataAddrs
      THEN {[sp |-> sp, word |-> word]} ELSE {}
Record ==
  frames' = {f \in frames : /\ Unchanged(f)
                            /\ \A n \in NewFrame : CellsAt(n.sp) \cap CellsAt(f.sp) = {}}
              \cup NewFrame

MCInit == Init /\ frames = {}
MCNext == Next /\ Record
MCSpec == MCInit /\ [][MCNext]_mcVars

-----------------------------------------------------------------------------
(* Properties.                                                             *)

\* What a RET or a POP takes off the stack is the return address, or the pair of
\* registers, that a CALL or a PUSH put at that place, unless something else was
\* written there since; a return that is not taken takes nothing off.  POP AF is held
\* to the accumulator and the flags: the low bits of F have no meaning and "will always
\* be 0" (registers.h:50), but the code takes them from the stack, too (cpu.c:187).
Meant(word) == IF Op = 241 THEN word - (word % 16) ELSE word
StackHolds ==
  [][\A f \in frames :
       f.sp = reg.SP =>
         /\ Op \in Returns /\ reg'.SP # reg.SP => reg'.PC = f.word
         /\ Op \in Pops => Meant(Pair([reg |-> reg'], PairAt(Op))) = Meant(f.word)]_mcVars

\* Every instruction consumes exactly its own bytes: the program counter stands
\* behind them unless a branch is taken, also when the branch is not, and a taken
\* call or jump goes from there to its target.
PcFollows ==
  [][LET next == (reg.PC + Length(Op)) % 65536
     IN  /\ Op \in Calls /\ Branches => reg'.PC = instr'[2] + 256 * instr'[3]
         /\ Op \in Jumps /\ Branches => /\ (reg'.PC - next - instr'[2]) % 256 = 0
                                        /\ (reg'.PC - next + 128) % 65536 < 256
         /\ Op \in Returns /\ Branches => reg'.SP = (reg.SP + 2) % 65536
         /\ ~Branches => reg'.PC = next]_mcVars

\* On whatever a program brings into the registers: sums and differences with
\* their carries are those of the integers, also across the two halves of a word,
\* and rotations, swaps, increments and single bits are undone by their inverses.
AluAgrees ==
  LET l == reg.A
      r == reg.B
      ll == Pair(Machine, "HL")
      rr == Pair(Machine, "BC")
  IN  /\ \A carry \in BOOLEAN :
           LET sum == Adc8(l, r, carry)
               difference == Sbc8(l, r, carry)
               left == Rl8(l, carry)
           IN  /\ sum.value + 256 * Carry(sum.c) = l + r + Carry(carry)
               /\ sum.h <=> (sum.value % 16 < (l % 16) + Carry(carry) \/ (carry /\ r % 16 = 15))
               /\ difference.value - 256 * Carry(difference.c) = l - r - Carry(carry)
               /\ Rr8(left.value, left.c).value = l /\ Rr8(left.value, left.c).c = carry
      /\ Add8(l, r) = Adc8(l, r, FALSE) /\ Cp8(l, r) = Sbc8(l, r, FALSE)
      /\ Add16(ll, rr).value + 65536 * Carry(Add16(ll, rr).c) = ll + rr
      /\ Add16e8(ll, r).value = (IF r < 128 THEN ll + r ELSE ll + 65536 + r - 256) % 65536
      /\ And8(l, r).value + Or8(l, r).value = l + r
      /\ Xor8(l, r).value = Or8(l, r).value - And8(l, r).value
      /\ Rrc8(Rlc8(l).value).value = l /\ Swap8(Swap8(l).value).value = l
      /\ Dec8(Inc8(l).value).value = l /\ Dec16(Inc16(ll)) = ll /\ Cpl8(Cpl8(l).value).value = l
      /\ Sla8(l).value = Add8(l, l).value /\ 2 * Srl8(l).value + Carry(Srl8(l).c) = l
      /\ \A k \in 0..7 : ~BitTest8(k, Set8(k, l)).z /\ BitTest8(k, Res8(k, l)).z
=============================================================================
