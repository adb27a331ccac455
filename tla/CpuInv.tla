------------------------------- MODULE CpuInv -------------------------------
(* The inductive invariant of Cpu and the history of MCCpu. *)
EXTENDS MCCpu

Registers == Registers8 \cup {"PC", "SP"}
Regs == {r \in [Registers -> Words] : \A n \in Registers8 : r[n] \in Bytes}
Machines == [reg : Regs, mem : [DataAddrs -> Bytes], status : {0, 1}]

\* A word that a call or a push has left is in its two cells, the low byte first.
FrameInv ==
  \A f \in frames :
    /\ CellsAt(f.sp) \subseteq DataAddrs
    /\ f.word = mem[Inc16(f.sp)] * 256 + mem[f.sp]

\* The inductive invariant.
Inv == Machine \in Machines /\ steps \in Nat /\ FrameInv
=============================================================================
