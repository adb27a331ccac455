--------------------------------- MODULE Mbc ---------------------------------
(***************************************************************************)
(* Memory bank controllers of src/memory/cartridge/mbc: the direct logic   *)
(* decoder (dld.c) and MBC1 (mbc1.c) behind the interface of mbc.c.  A     *)
(* controller is a record; an operation is an operator from controller to  *)
(* controller, or to the byte that is read.                                *)
(*                                                                         *)
(* The masks of MBC1 are numbers of banks less one, and these numbers are  *)
(* powers of two, so that a mask is a remainder.  The bytes of the ROM are *)
(* told apart by their place in it.                                        *)
(***************************************************************************)
EXTENDS Integers

CONSTANT RamAddrs   \* the addresses of the cartridge's RAM that are used

RomBankSize == 16384   \* CART_ROM_BANK_SIZE
RamBankSize == 8192    \* CART_RAM_BANK_SIZE
RamStart == 40960      \* ADDR_CART_RAM_START
RamEnd == 49151        \* ADDR_CART_RAM_END
InRom(addr) == addr <= 32767
InRam(addr) == RamStart <= addr /\ addr <= RamEnd

ASSUME CartRamAssumption == \A a \in RamAddrs : a \in Nat /\ InRam(a)

\* What malloc leaves in memory, and what is read where nothing answers.
Junk == <<"junk", 0>>
OpenBus == <<"value", 255>>
Byte(v) == <<"value", v>>

-----------------------------------------------------------------------------
(* What the header of a ROM file says.                                     *)

RomSizeIsValid(size) == size \in 0..8 \cup {82, 83, 84}
RomBanks(size) ==
  CASE size \in 0..8 -> <<2, 4, 8, 16, 32, 64, 128, 256, 512>>[size + 1]
    [] size = 82 -> 72
    [] size = 83 -> 80
    [] size = 84 -> 96
    [] OTHER -> 0

RamSizeIsValid(size) == size \in 0..5
RamBanks(size) ==
  CASE size = 2 -> 1
    [] size = 3 -> 4
    [] size = 4 -> 16
    [] size = 5 -> 8
    [] OTHER -> 0

CartridgeTypes ==
  {0, 1, 2, 3, 5, 6, 8, 9, 11, 12, 13} \cup 15..19 \cup 25..30 \cup {32, 34} \cup 252..255
TypeIsValid(type) == type \in CartridgeTypes
\* The names of the types that mbc_create supports.
RomOnly == 0
Mbc1Only == 1
Mbc1Ram == {2, 3}
RomRam == {8, 9}
ContainsBattery(type) == type \in {3, 6, 9, 13, 15, 16, 19, 27, 30, 34, 255}

-----------------------------------------------------------------------------
(* The contexts.                                                           *)

Cells(n) == {bank * RamBankSize + (a - RamStart) : bank \in 0..(n - 1), a \in RamAddrs}
\* A context whose memory was just allocated; "gotRam" says whether its RAM was.
Context(iface, n_rom, n_ram, gotRam) ==
  [ iface |-> iface,
    rom_size |-> n_rom * RomBankSize, ram_size |-> n_ram * RamBankSize,
    ram |-> IF gotRam THEN [i \in Cells(n_ram) |-> Junk] ELSE <<>>, hasRam |-> gotRam,
    loaded |-> 0,                        \* bytes of the file in the ROM
    ram_enable |-> 0, rom_bank_number |-> 1, ram_bank_number |-> 0, banking_mode |-> 0,
    rom_banks |-> n_rom,                 \* rom_bank_mask + 1
    ram_banks |-> IF n_ram = 0 THEN 1 ELSE n_ram ]   \* ram_bank_mask + 1

IsPow2(x) == x \in {1, 2, 4, 8, 16, 32, 64, 128, 256, 512}
DldSupports(n_rom, n_ram) == n_rom = 2 /\ n_ram <= 1
Mbc1Supports(n_rom, n_ram) ==
  /\ IsPow2(n_rom) /\ (IsPow2(n_ram) \/ n_ram = 0)
  /\ IF n_rom <= 64 THEN n_rom >= 2 /\ n_ram <= 4 ELSE n_rom <= 128 /\ n_ram <= 1

-----------------------------------------------------------------------------
(* Reading and writing.                                                    *)

RomByte(c, i) == IF i < c.loaded THEN <<"rom", i>> ELSE Junk

MutCalcRomAddr(c, addr) ==   \* the bank registers are not masked
  LET upper == c.ram_bank_number * 32
      bank == IF addr < 16384 THEN IF c.banking_mode = 0 THEN 0 ELSE upper
              ELSE upper + (IF c.rom_bank_number = 0 THEN 1 ELSE c.rom_bank_number)
  IN  bank * RomBankSize + (addr % RomBankSize)
CalcRomAddr(c, addr) ==
  LET upper == c.ram_bank_number * 32
      bank == IF addr < 16384 THEN IF c.banking_mode = 0 THEN 0 ELSE upper
              ELSE upper + (IF c.rom_bank_number = 0 THEN 1 ELSE c.rom_bank_number)
  IN  (bank % c.rom_banks) * RomBankSize
        + (IF addr < 16384 THEN addr ELSE addr - 16384)
CalcRamAddr(c, addr) ==
  LET bank == IF c.banking_mode = 0 THEN 0 ELSE c.ram_bank_number
  IN  (bank % c.ram_banks) * RamBankSize + (addr - RamStart)

\* (ram_enable & 0x0A) == 0x0A: bits 1 and 3 are set.
RamEnabled(c) == (c.ram_enable \div 2) % 2 = 1 /\ (c.ram_enable \div 8) % 2 = 1

DldRead(c, addr) ==
  IF InRom(addr) THEN RomByte(c, addr)
  ELSE IF c.hasRam /\ InRam(addr) THEN c.ram[addr - RamStart] ELSE OpenBus
Mbc1Read(c, addr) ==
  IF InRom(addr) THEN RomByte(c, CalcRomAddr(c, addr))
  ELSE IF c.hasRam /\ InRam(addr) /\ RamEnabled(c) THEN c.ram[CalcRamAddr(c, addr)]
  ELSE OpenBus

DldWrite(c, addr, value) ==
  IF c.hasRam /\ InRam(addr) THEN [c EXCEPT !.ram[addr - RamStart] = Byte(value)] ELSE c
SetRegister(c, addr, value) ==
  IF addr < 8192 THEN [c EXCEPT !.ram_enable = value]
  ELSE IF addr < 16384 THEN [c EXCEPT !.rom_bank_number = value % 32]
  ELSE IF addr < 24576 THEN [c EXCEPT !.ram_bank_number = value % 4]
  ELSE [c EXCEPT !.banking_mode = value % 2]
Mbc1Write(c, addr, value) ==
  IF InRom(addr) THEN SetRegister(c, addr, value)
  ELSE IF c.hasRam /\ InRam(addr) /\ RamEnabled(c)
  THEN [c EXCEPT !.ram[CalcRamAddr(c, addr)] = Byte(value)]
  ELSE c

MbcRead(c, addr) == IF c.iface = "dld" THEN DldRead(c, addr) ELSE Mbc1Read(c, addr)
MbcWrite(c, addr, value) ==
  IF c.iface = "dld" THEN DldWrite(c, addr, value) ELSE Mbc1Write(c, addr, value)

-----------------------------------------------------------------------------
(* Whole contents.  A file of RAM is a function on the cells it covers.    *)

Least(a, b) == IF a < b THEN a ELSE b
MbcLoadRom(c, size) == [c EXCEPT !.loaded = Least(size, c.rom_size)]
MbcLoadRam(c, file) ==
  IF c.hasRam
  THEN [c EXCEPT !.ram = [i \in DOMAIN c.ram |-> IF i \in DOMAIN file THEN file[i] ELSE c.ram[i]]]
  ELSE c
=============================================================================
