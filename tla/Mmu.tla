--------------------------------- MODULE Mmu ---------------------------------
(***************************************************************************)
(* The memory management unit, src/memory/mmu.c: which memory answers an   *)
(* address, for which bus and in which state of the hardware registers.    *)
(* One record s holds the memories and the cartridge behind m_cart; a read *)
(* is an operator to a byte, a write an operator to the set of its         *)
(* outcomes, of which there is one unless the code's behaviour is          *)
(* undefined.  Memories are functions on the offsets that are used.        *)
(***************************************************************************)
EXTENDS Mbc

CONSTANT Addrs   \* the addresses that are used

ASSUME AddrsAssumption ==
  (\A a \in Addrs : a \in Nat /\ a <= 65535) /\ RamAddrs = {a \in Addrs : InRam(a)}

InVram(addr) == 32768 <= addr /\ addr <= 40959
InWram(addr) == 49152 <= addr /\ addr <= 57343
InEcho(addr) == 57344 <= addr /\ addr <= 65023
InOam(addr) == 65024 <= addr /\ addr <= 65183
InProhibited(addr) == 65184 <= addr /\ addr <= 65279
InIo(addr) == 65280 <= addr /\ addr <= 65407
InHram(addr) == 65408 <= addr /\ addr <= 65534
AddrIe == 65535

RegStat == 65345
RegBank == 65360
RegSvbk == 65392
WramBankCount == 8
WramBankSize == 4096

Zeros(Region(_), start) == [i \in {a - start : a \in {x \in Addrs : Region(x)}} |-> Byte(0)]
WramOffsets == {a % WramBankSize : a \in {x \in Addrs : InWram(x) \/ InEcho(x)}}
Memories ==
  [ vram |-> Zeros(InVram, 32768), oam |-> Zeros(InOam, 65024),
    wram |-> [b \in 0..(WramBankCount - 1) |-> [i \in WramOffsets |-> Byte(0)]],
    io |-> [a \in {x \in Addrs : InIo(x)} |-> Byte(0)],
    hram |-> Zeros(InHram, 65408), ie |-> Byte(0) ]

-----------------------------------------------------------------------------
(* The registers that the unit looks at itself.                            *)

Register(s, addr) == s.io[addr][2]
PpuMode(s) == Register(s, RegStat) % 4
VramBlocked(s) == PpuMode(s) = 3
OamBlocked(s) == PpuMode(s) \in {2, 3}
BootRomMapped(s) == Register(s, RegBank) = 0
WramBank(s, addr) == IF addr < 53248 THEN 0 ELSE (Register(s, RegSvbk) % 8) + 1
MutEchoTarget(addr) == addr - 4096   \* the echo of the first bank is the second
EchoTarget(addr) == addr - (57344 - 49152)

-----------------------------------------------------------------------------
CartRead(s, addr) == IF s.mCart THEN MbcRead(s.mbc, addr) ELSE OpenBus
CartWrite(s, addr, value) ==
  IF s.mCart THEN [s EXCEPT !.mbc = MbcWrite(s.mbc, addr, value)] ELSE s

RomRead(s, addr) ==
  IF addr <= 255 /\ BootRomMapped(s) THEN <<"boot", addr>> ELSE CartRead(s, addr)
VramRead(s, bus, addr) ==
  IF bus = "CPU" /\ VramBlocked(s) THEN OpenBus ELSE s.vram[addr - 32768]
WramRead(s, addr) ==
  LET bank == WramBank(s, addr)
  IN  IF bank < WramBankCount THEN s.wram[bank][addr % WramBankSize] ELSE Junk
EchoRead(s, addr) == WramRead(s, EchoTarget(addr))
OamRead(s, bus, addr) ==
  IF bus = "CPU" /\ OamBlocked(s) THEN OpenBus ELSE s.oam[addr - 65024]

MmuRead(s, bus, addr) ==
  CASE InRom(addr) -> RomRead(s, addr)
    [] InVram(addr) -> VramRead(s, bus, addr)
    [] InRam(addr) -> CartRead(s, addr)
    [] InWram(addr) -> WramRead(s, addr)
    [] InEcho(addr) -> EchoRead(s, addr)
    [] InOam(addr) -> OamRead(s, bus, addr)
    [] InProhibited(addr) -> OpenBus
    [] InIo(addr) -> s.io[addr]
    [] InHram(addr) -> s.hram[addr - 65408]
    [] addr = AddrIe -> s.ie

-----------------------------------------------------------------------------
VramWrite(s, bus, addr, value) ==
  IF bus = "CPU" /\ VramBlocked(s) THEN s ELSE [s EXCEPT !.vram[addr - 32768] = Byte(value)]
OamWrite(s, bus, addr, value) ==
  IF bus = "CPU" /\ OamBlocked(s) THEN s ELSE [s EXCEPT !.oam[addr - 65024] = Byte(value)]
IoWrite(s, addr, value) == [s EXCEPT !.io[addr] = Byte(value)]
HramWrite(s, addr, value) == [s EXCEPT !.hram[addr - 65408] = Byte(value)]
IeWrite(s, value) == [s EXCEPT !.ie = Byte(value)]

\* A write behind the last bank of m_wram goes to what the linker put there, one
\* of the other memories or nothing that is looked at.
BehindWram(s, value) ==
  {s} \cup {[s EXCEPT !.vram[i] = Byte(value)] : i \in DOMAIN s.vram}
      \cup {[s EXCEPT !.oam[i] = Byte(value)] : i \in DOMAIN s.oam}
      \cup {[s EXCEPT !.io[i] = Byte(value)] : i \in DOMAIN s.io}
      \cup {[s EXCEPT !.hram[i] = Byte(value)] : i \in DOMAIN s.hram}
      \cup {[s EXCEPT !.ie = Byte(value)]}
WramWrite(s, addr, value) ==
  LET bank == WramBank(s, addr)
  IN  IF bank < WramBankCount
      THEN {[s EXCEPT !.wram[bank][addr % WramBankSize] = Byte(value)]}
      ELSE BehindWram([s EXCEPT !.wild = TRUE], value)
EchoWrite(s, addr, value) == WramWrite(s, EchoTarget(addr), value)

MmuWrite(s, bus, addr, value) ==
  CASE InRom(addr) -> {s}
    [] InVram(addr) -> {VramWrite(s, bus, addr, value)}
    [] InRam(addr) -> {CartWrite(s, addr, value)}
    [] InWram(addr) -> WramWrite(s, addr, value)
    [] InEcho(addr) -> EchoWrite(s, addr, value)
    [] InOam(addr) -> {OamWrite(s, bus, addr, value)}
    [] InProhibited(addr) -> {s}
    [] InIo(addr) -> {IoWrite(s, addr, value)}
    [] InHram(addr) -> {HramWrite(s, addr, value)}
    [] addr = AddrIe -> {IeWrite(s, value)}
=============================================================================
