--------------------------------- MODULE Cpu ---------------------------------
(***************************************************************************)
(* The CPU, src/cpu/cpu.c, and its registers, src/cpu/registers.c.         *)
(*                                                                         *)
(* One step is one call of cpu_execute.  The k-th fetch finds in memory    *)
(* any of the instructions of "Program[k]".  The memory of data is a       *)
(* function on the addresses that are used; elsewhere the open bus answers *)
(* (which unit answers is the matter of module Mmu).                       *)
(*                                                                         *)
(* An instruction is <<opcode, first, second>>, the byte and the two that  *)
(* follow it; what an instruction does not read is not looked at.          *)
(***************************************************************************)
EXTENDS Alu, Sequences

CONSTANTS
  Program,    \* sets of instructions, one for each step; its length bounds the run
  DataAddrs   \* addresses of the data

ASSUME CpuAssumption ==
  /\ Program \in Seq(SUBSET (Bytes \X Bytes \X Bytes))
  /\ DataAddrs \subseteq Words

VARIABLES
  reg,     \* m_reg
  mem,     \* the data
  status,  \* m_status
  instr,   \* the instruction executed last
  steps    \* instructions executed

vars == <<reg, mem, status, instr, steps>>

\* A step works on the registers, the memory and the status together.
Machine == [reg |-> reg, mem |-> mem, status |-> status]

Registers8 == {"A", "F", "B", "C", "D", "E", "H", "L"}
Init ==
  /\ reg = [r \in Registers8 \cup {"PC", "SP"} |-> 0]
  /\ mem = [a \in DataAddrs |-> 0]
  /\ status = 0 /\ instr = <<>> /\ steps = 0

-----------------------------------------------------------------------------
(* Registers.  A pair is made of the register of its high byte and that of *)
(* its low byte.                                                           *)

Pairs == [BC |-> <<"B", "C">>, DE |-> <<"D", "E">>, HL |-> <<"H", "L">>, AF |-> <<"A", "F">>]
Pair(m, p) == IF p = "SP" THEN m.reg.SP ELSE m.reg[Pairs[p][1]] * 256 + m.reg[Pairs[p][2]]
SetReg(m, r, value) == [m EXCEPT !.reg[r] = value]
SetPair(m, p, value) ==
  IF p = "SP" THEN SetReg(m, "SP", value)
  ELSE SetReg(SetReg(m, Pairs[p][1], value \div 256), Pairs[p][2], value % 256)

SetFlags(m, z, n, h, c) ==
  SetReg(m, "F", 128 * Carry(z) + 64 * Carry(n) + 32 * Carry(h) + 16 * Carry(c))
FlagZ(m) == BitSet(7, m.reg.F)
FlagC(m) == BitSet(4, m.reg.F)

-----------------------------------------------------------------------------
(* Memory, the stack, and what follows the opcode.                         *)

Read(m, addr) == IF addr \in DOMAIN m.mem THEN m.mem[addr] ELSE 255
Write(m, addr, value) == IF addr \in DOMAIN m.mem THEN [m EXCEPT !.mem[addr] = value] ELSE m

Skip(m, n) == SetReg(m, "PC", (m.reg.PC + n) % 65536)   \* n bytes are fetched
Word(i) == i[3] * 256 + i[2]

PushByte(m, value) ==
  LET sp == Dec16(m.reg.SP) IN Write(SetReg(m, "SP", sp), sp, value)
MutPush(m, value) == PushByte(PushByte(m, value % 256), value \div 256)   \* low byte first
Push(m, value) == PushByte(PushByte(m, value \div 256), value % 256)
PopByte(m) == SetReg(m, "SP", Inc16(m.reg.SP))
Pop(m) == PopByte(PopByte(m))
Popped(m) == Read(m, Inc16(m.reg.SP)) * 256 + Read(m, m.reg.SP)

\* The operand that the low three bits of an opcode name: a register or (HL).
Operand8 == <<"B", "C", "D", "E", "H", "L", "(HL)", "A">>
Get(m, o) == IF o = "(HL)" THEN Read(m, Pair(m, "HL")) ELSE m.reg[o]
Put(m, o, value) == IF o = "(HL)" THEN Write(m, Pair(m, "HL"), value) ELSE SetReg(m, o, value)
Source(op) == Operand8[(op % 8) + 1]
Target(op) == Operand8[((op \div 8) % 8) + 1]
\* The condition, and the pair of registers, that the middle of an opcode names.
Condition(m, op) ==
  CASE (op \div 8) % 4 = 0 -> ~FlagZ(m)
    [] (op \div 8) % 4 = 1 -> FlagZ(m)
    [] (op \div 8) % 4 = 2 -> ~FlagC(m)
    [] OTHER -> FlagC(m)
PairOf(op, last) == <<"BC", "DE", "HL", last>>[((op \div 16) % 4) + 1]

-----------------------------------------------------------------------------
(* Control.                                                                *)

Undefined(m) == [m EXCEPT !.status = 1]
\* Jumps, returns and calls without a condition are always taken.
Taken(m, op) == op \in {24, 201, 205} \/ Condition(m, op)
Jr(m, i) ==
  LET after == Skip(m, 1)
  IN  IF Taken(m, i[1])
      THEN SetReg(after, "PC", (after.reg.PC + Signed(i[2])) % 65536) ELSE after
Ret(m, i) == IF Taken(m, i[1]) THEN SetReg(Pop(m), "PC", Popped(m)) ELSE m
MutCall(m, i) ==   \* a call that is not taken does not read its operand
  IF Taken(m, i[1])
  THEN SetReg(Push(Skip(m, 2), Skip(m, 2).reg.PC), "PC", Word(i)) ELSE m
Call(m, i) ==
  LET after == Skip(m, 2)
  IN  IF Taken(m, i[1])
      THEN SetReg(Push(after, after.reg.PC), "PC", Word(i)) ELSE after

-----------------------------------------------------------------------------
(* Loads.                                                                  *)

LoadImmediate(m, i) == Put(Skip(m, 1), Target(i[1]), i[2])
LoadRegister(m, i) == Put(m, Target(i[1]), Get(m, Source(i[1])))
\* LD (BC), (DE), (HL+), (HL-), and back: the pair moves after its use.
Indirect(op) == <<"BC", "DE", "HL", "HL">>[(op \div 16) + 1]
Moved(m, op) ==
  CASE op \div 16 = 2 -> SetPair(m, "HL", Inc16(Pair(m, "HL")))
    [] op \div 16 = 3 -> SetPair(m, "HL", Dec16(Pair(m, "HL")))
    [] OTHER -> m
StoreIndirect(m, i) == Write(Moved(m, i[1]), Pair(m, Indirect(i[1])), m.reg.A)
LoadIndirect(m, i) == SetReg(Moved(m, i[1]), "A", Read(m, Pair(m, Indirect(i[1]))))
LoadHigh(m, i) ==
  CASE i[1] = 224 -> Write(Skip(m, 1), 65280 + i[2], m.reg.A)
    [] i[1] = 240 -> SetReg(Skip(m, 1), "A", Read(m, 65280 + i[2]))
    [] i[1] = 226 -> Write(m, 65280 + m.reg.C, m.reg.A)
    [] i[1] = 242 -> SetReg(m, "A", Read(m, 65280 + m.reg.C))
LoadAbsolute(m, i) ==
  IF i[1] = 234 THEN Write(Skip(m, 2), Word(i), m.reg.A)
  ELSE SetReg(Skip(m, 2), "A", Read(m, Word(i)))
LoadPair(m, i) == SetPair(Skip(m, 2), PairOf(i[1], "SP"), Word(i))
PopPair(m, i) == SetPair(Pop(m), PairOf(i[1], "AF"), Popped(m))
PushPair(m, i) == Push(m, Pair(m, PairOf(i[1], "AF")))

-----------------------------------------------------------------------------
(* Arithmetic and logic.                                                   *)

IncDec8(m, o, r) == SetFlags(Put(m, o, r.value), r.z, r.n, r.h, FlagC(m))
Increment(m, i) == IncDec8(m, Target(i[1]), Inc8(Get(m, Target(i[1]))))
Decrement(m, i) == IncDec8(m, Target(i[1]), Dec8(Get(m, Target(i[1]))))
Accumulate(m, r) == SetFlags(SetReg(m, "A", r.value), r.z, r.n, r.h, r.c)
Add(m, v) == Accumulate(m, Add8(m.reg.A, v))
Sub(m, v) == Accumulate(m, Sub8(m.reg.A, v))
Xor(m, v) == Accumulate(m, Xor8(m.reg.A, v))
Cp(m, v) == Accumulate(m, Cp8(m.reg.A, v))   \* the difference stays in A
Immediate(m, i) ==
  LET after == Skip(m, 1)
  IN  CASE i[1] = 198 -> Add(after, i[2])
        [] i[1] = 214 -> Sub(after, i[2])
        [] i[1] = 238 -> Xor(after, i[2])
        [] i[1] = 254 -> Cp(after, i[2])
IncPair(m, i) ==
  SetPair(m, PairOf(i[1], "SP"), Inc16(Pair(m, PairOf(i[1], "SP"))))
RotateA(m, i) ==
  LET r == CASE i[1] = 7 -> Rlc8(m.reg.A) [] i[1] = 15 -> Rrc8(m.reg.A)
             [] i[1] = 23 -> Rl8(m.reg.A, FlagC(m)) [] i[1] = 31 -> Rr8(m.reg.A, FlagC(m))
  IN  SetFlags(SetReg(m, "A", r.value), FALSE, FALSE, FALSE, r.c)

-----------------------------------------------------------------------------
(* The instructions behind 0xCB.  In the row of SRL the table has SLA.     *)

Rotated(row, v, carry) ==
  CASE row = 0 -> Rlc8(v) [] row = 1 -> Rrc8(v) [] row = 2 -> Rl8(v, carry)
    [] row = 3 -> Rr8(v, carry) [] row \in {4, 7} -> Sla8(v) [] row = 5 -> Sra8(v)
    [] row = 6 -> Swap8(v)
Rotate(m, op) ==
  LET r == Rotated(op \div 8, Get(m, Source(op)), FlagC(m))
  IN  SetFlags(Put(m, Source(op), r.value), r.z, FALSE, FALSE, r.c)
TestBit(m, op) ==
  SetFlags(m, BitTest8((op \div 8) % 8, Get(m, Source(op))).z, FALSE, TRUE, FlagC(m))
Prefixed(m, op) ==
  CASE op < 64 -> Rotate(m, op) [] op \in 64..127 -> TestBit(m, op) [] OTHER -> Undefined(m)

-----------------------------------------------------------------------------
(* The table of the opcodes.                                               *)

Row(first, stride, n) == {first + stride * k : k \in 0..(n - 1)}
\* Arithmetic, logic and rotations.
Compute(m, i) ==
  LET op == i[1] IN
  CASE op \in Row(4, 8, 8) -> Increment(m, i)
    [] op \in Row(5, 8, 8) -> Decrement(m, i)
    [] op \in Row(3, 16, 4) -> IncPair(m, i)
    [] op \in 128..135 -> Add(m, Get(m, Source(op)))
    [] op \in 144..151 -> Sub(m, Get(m, Source(op)))
    [] op \in 168..175 -> Xor(m, Get(m, Source(op)))
    [] op \in 184..191 -> Cp(m, Get(m, Source(op)))
    [] op \in {198, 214, 238, 254} -> Immediate(m, i)
    [] op \in {7, 15, 23, 31} -> RotateA(m, i)
    [] op = 203 -> Prefixed(Skip(m, 1), i[2])
    [] OTHER -> Undefined(m)
\* Loads, pushes and pops.
Load(m, i) ==
  LET op == i[1] IN
  CASE op \in Row(6, 8, 8) -> LoadImmediate(m, i)
    [] op \in (64..127) \ {118} -> LoadRegister(m, i)
    [] op \in Row(2, 16, 4) -> StoreIndirect(m, i)
    [] op \in Row(10, 16, 4) -> LoadIndirect(m, i)
    [] op \in {224, 226, 240, 242} -> LoadHigh(m, i)
    [] op \in {234, 250} -> LoadAbsolute(m, i)
    [] op \in Row(1, 16, 4) -> LoadPair(m, i)
    [] op \in Row(193, 16, 4) -> PopPair(m, i)
    [] op \in Row(197, 16, 4) -> PushPair(m, i)
    [] OTHER -> Compute(m, i)
\* Control comes first.
Perform(m, i) ==
  LET op == i[1] IN
  CASE op = 0 -> m
    [] op \in {24} \cup Row(32, 8, 4) -> Jr(m, i)
    [] op \in {201} \cup Row(192, 8, 4) -> Ret(m, i)
    [] op \in {205} \cup Row(196, 8, 4) -> Call(m, i)
    [] OTHER -> Load(m, i)

Execute(i) ==
  /\ LET m == Perform(Skip(Machine, 1), i)
     IN  reg' = m.reg /\ mem' = m.mem /\ status' = m.status
  /\ instr' = i
  /\ steps' = steps + 1

Next == steps < Len(Program) /\ \E i \in Program[steps + 1] : Execute(i)
Spec == Init /\ [][Next]_vars
=============================================================================
