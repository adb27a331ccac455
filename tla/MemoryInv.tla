------------------------------ MODULE MemoryInv ------------------------------
(***************************************************************************)
(* The inductive invariant of Memory and of the history of MCMemory.       *)
(***************************************************************************)
EXTENDS MCMemory

Fields ==
  {"vram", "oam", "wram", "io", "hram", "ie", "wild", "mCart", "gCart", "file", "mbc", "ptr",
   "heap", "out"}
ContextFields ==
  {"iface", "rom_size", "ram_size", "ram", "hasRam", "loaded", "ram_enable",
   "rom_bank_number", "ram_bank_number", "banking_mode", "rom_banks", "ram_banks"}

\* A controller whose registers are numbers, and whose memory is as large as its
\* numbers of banks say; the direct decoder has no second bank.
WellFormed(c) ==
  /\ DOMAIN c = ContextFields
  /\ c.rom_bank_number \in Nat /\ c.ram_bank_number \in Nat
  /\ c.rom_banks \in Nat \ {0} /\ c.rom_size = c.rom_banks * RomBankSize
  /\ c.ram_banks \in Nat \ {0} /\ c.ram_size \in Nat
  /\ c.banking_mode \in {0, 1}
  /\ c.iface = "dld" => c.ram_banks = 1
  /\ c.hasRam => c.ram_size = c.ram_banks * RamBankSize /\ DOMAIN c.ram = Cells(c.ram_banks)

ControllerOK(c) == c = NoMbc \/ (c.iface \in {"dld", "mbc1"} /\ WellFormed(c))

\* A block is allocated once if a pointer leads to it, and not at all otherwise.
Balanced(w) ==
  /\ DOMAIN w = Fields
  /\ w.ptr \subseteq Blocks
  /\ DOMAIN w.heap = Blocks
  /\ \A b \in Blocks : w.heap[b] = IF b \in w.ptr THEN 1 ELSE 0

\* What a cartridge consists of.
Parts == {"cart", "rom_path", "save_path", "mbc", "ctx"}

\* Of a record, so that it can be said of the states between two steps.
Good(w) ==
  /\ Balanced(w) /\ ControllerOK(w.mbc) /\ w.out = "run"
  /\ w.ptr \subseteq OwnBlocks \cup {"dump"}
  /\ w.gCart \in BOOLEAN /\ w.mCart = w.gCart
  /\ w.gCart => Parts \subseteq w.ptr /\ w.mbc # NoMbc
  /\ ~w.gCart => w.ptr = {} /\ w.mbc = NoMbc

\* The copy of the RAM is allocated while it is saved.
DumpHeld == "dump" \in s.ptr <=> saving # NoFile

Inv == Good(s) /\ DumpHeld

(***************************************************************************)
(* What every cell of the memory holds, as long as no write went behind    *)
(* the work RAM.                                                           *)
(***************************************************************************)

\* The places outside work RAM and cartridge.
OtherAddrs == {a \in Addrs : InVram(a) \/ InOam(a) \/ InIo(a) \/ InHram(a) \/ a = AddrIe}
OtherCell(m, a) ==
  IF InVram(a) THEN m.vram[a - 32768]
  ELSE IF InOam(a) THEN m.oam[a - 65024]
  ELSE IF InIo(a) THEN m.io[a]
  ELSE IF InHram(a) THEN m.hram[a - 65408]
  ELSE m.ie
Other(a) == <<"other", 0, a>>

WramBanks == 0..(WramBankCount - 1)
\* The bank that SVBK selects behind the last one of the array.
Behind(p) == p[1] = "work" /\ p[2] = 7
Work(b, i) == <<"work", b - 1, (IF b = 0 THEN 49152 ELSE 53248) + i>>

Cart(b, a) == <<"cart", b, a>>
CartIndex(b, a) == b * RamBankSize + (a - RamStart)

\* The memories have their offsets, and the registers hold numbers.
Shape(m) ==
  /\ DOMAIN m.vram = {a - 32768 : a \in {x \in Addrs : InVram(x)}}
  /\ DOMAIN m.oam = {a - 65024 : a \in {x \in Addrs : InOam(x)}}
  /\ DOMAIN m.wram = WramBanks
  /\ \A b \in WramBanks : DOMAIN m.wram[b] = WramOffsets
  /\ DOMAIN m.io = {x \in Addrs : InIo(x)}
  /\ DOMAIN m.hram = {a - 65408 : a \in {x \in Addrs : InHram(x)}}
  /\ \A a \in DOMAIN m.io : Register(m, a) \in Nat

Written(written, p) == IF p \in DOMAIN written THEN written[p] ELSE Byte(0)

OwnHold(m, written) ==
  /\ \A b \in WramBanks, i \in WramOffsets : m.wram[b][i] = Written(written, Work(b, i))
  /\ \A a \in OtherAddrs : OtherCell(m, a) = Written(written, Other(a))
  /\ \A p \in DOMAIN written : ~Behind(p)
CartHolds(m, written) ==
  /\ m.gCart /\ m.mbc.hasRam =>
       \A b \in 0..(m.mbc.ram_banks - 1), a \in RamAddrs :
         Cart(b, a) \in DOMAIN written => m.mbc.ram[CartIndex(b, a)] = written[Cart(b, a)]
  /\ ~m.gCart => \A p \in DOMAIN written : ~OfCart(p)

CellInv == ~s.wild => Shape(s) /\ OwnHold(s, shadow) /\ CartHolds(s, shadow)

(***************************************************************************)
(* The files: the RAM of a ROM's cartridge always has the cells that its   *)
(* header says, and of the RAM that the last save to open the file found,  *)
(* a first part is in it: all of it once that save was done.               *)
(***************************************************************************)
Fits(c, n) == c # NoMbc /\ c.hasRam => c.ram_banks = n

FirstPart(file, of) ==
  /\ DOMAIN file \subseteq DOMAIN of
  /\ \A j \in DOMAIN file :
       file[j] = of[j] /\ \A i \in DOMAIN of : i <= j => i \in DOMAIN file
Recorded(file, save, n) ==
  /\ DOMAIN save.ram = Cells(n) /\ FirstPart(file, save.ram)
  /\ save.done => file = save.ram

FileInv ==
  /\ DOMAIN saves = Files /\ DOMAIN kept = Files
  /\ s.gCart => s.file \in Files /\ Fits(s.mbc, RamBanks(HeaderOf[s.file].ram))
  /\ \A f \in Files :
       kept[f].ram = NoFile \/ Recorded(saves[f], kept[f], RamBanks(HeaderOf[f].ram))
  /\ saving # NoFile => saving = kept[s.file].ram /\ ~kept[s.file].done
=============================================================================
