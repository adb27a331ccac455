---------------------------- MODULE MemoryProofs ----------------------------
(***************************************************************************)
(* Proofs about Memory: whatever call fails, each block of a cartridge is  *)
(* allocated once and given back, and no address of the cartridge leaves   *)
(* the memory that was allocated for it; and, of the history that MCMemory *)
(* keeps, what was saved is restored and what was written is read; for     *)
(* every set of files, headers, failures, addresses and values, and every  *)
(* number of banks that the controllers support.                           *)
(***************************************************************************)
EXTENDS MemoryInv, TLAPS

(***************************************************************************)
(* Bank registers, however they are set, select a bank that exists.        *)
(***************************************************************************)
LEMMA RemainderInRange ==
  ASSUME NEW x \in Nat, NEW n \in Nat \ {0}
  PROVE  x % n \in 0..(n - 1)
OBVIOUS

LEMMA RomAddrInBounds ==
  ASSUME NEW c, WellFormed(c), NEW addr \in Nat, InRom(addr)
  PROVE  CalcRomAddr(c, addr) \in 0..(c.rom_size - 1)
<1> DEFINE upper == c.ram_bank_number * 32
           bank == IF addr < 16384 THEN IF c.banking_mode = 0 THEN 0 ELSE upper
                   ELSE upper + (IF c.rom_bank_number = 0 THEN 1 ELSE c.rom_bank_number)
           selected == bank % c.rom_banks
           offset == IF addr < 16384 THEN addr ELSE addr - 16384
<1>1. bank \in Nat
  BY DEF WellFormed
<1>2. selected \in 0..(c.rom_banks - 1) /\ c.rom_banks \in Nat
  <2> HIDE DEF bank
  <2> QED
    BY <1>1, RemainderInRange DEF WellFormed
<1>3. offset \in Nat /\ offset < 16384
  BY DEF InRom
<1>4. CalcRomAddr(c, addr) = selected * RomBankSize + offset
  BY DEF CalcRomAddr
<1>5. c.rom_size = c.rom_banks * RomBankSize
  BY DEF WellFormed
<1> HIDE DEF selected, offset
<1> QED
  BY <1>2, <1>3, <1>4, <1>5 DEF RomBankSize

LEMMA RamAddrInBounds ==
  ASSUME NEW c, WellFormed(c), c.iface = "mbc1", c.hasRam, NEW addr \in RamAddrs
  PROVE  /\ CalcRamAddr(c, addr) \in 0..(c.ram_size - 1)
         /\ CalcRamAddr(c, addr) \in DOMAIN c.ram
<1> DEFINE bank == IF c.banking_mode = 0 THEN 0 ELSE c.ram_bank_number
           selected == bank % c.ram_banks
           offset == addr - RamStart
<1>1. bank \in Nat
  BY DEF WellFormed
<1>2. selected \in 0..(c.ram_banks - 1) /\ c.ram_banks \in Nat
  <2> HIDE DEF bank
  <2> QED
    BY <1>1, RemainderInRange DEF WellFormed
<1>3. offset \in Nat /\ offset < RamBankSize
  BY CartRamAssumption DEF InRam, RamStart, RamEnd, RamBankSize
<1>4. CalcRamAddr(c, addr) = selected * RamBankSize + offset
  BY DEF CalcRamAddr
<1>5. c.ram_size = c.ram_banks * RamBankSize /\ DOMAIN c.ram = Cells(c.ram_banks)
  BY DEF WellFormed
<1> HIDE DEF selected
<1>6. CalcRamAddr(c, addr) \in Cells(c.ram_banks)
  BY <1>2, <1>4 DEF Cells
<1>7. selected * RamBankSize + offset \in 0..(c.ram_banks * RamBankSize - 1)
  <2> DEFINE n == c.ram_banks
  <2>1. n \in Nat /\ selected \in 0..(n - 1)
    BY <1>2
  <2> HIDE DEF offset, n
  <2>2. selected * RamBankSize + offset \in 0..(n * RamBankSize - 1)
    BY <2>1, <1>3 DEF RamBankSize
  <2> QED
    BY <2>2 DEF n
<1> QED
  BY <1>4, <1>5, <1>6, <1>7

(***************************************************************************)
(* A controller that is made has banks, and keeps them.                    *)
(***************************************************************************)
LEMMA ContextWellFormed ==
  ASSUME NEW iface \in {"dld", "mbc1"}, NEW n_rom \in Nat \ {0}, NEW n_ram \in Nat,
         NEW gotRam \in BOOLEAN, gotRam => n_ram > 0, iface = "dld" => n_ram <= 1
  PROVE  /\ WellFormed(Context(iface, n_rom, n_ram, gotRam))
         /\ Context(iface, n_rom, n_ram, gotRam).iface = iface
         /\ Context(iface, n_rom, n_ram, gotRam) # NoMbc
<1>1. n_ram * RamBankSize \in Nat
  BY DEF RamBankSize
<1> QED
  BY <1>1 DEF Context, WellFormed, ContextFields, NoMbc

LEMMA SetRegisterWellFormed ==
  ASSUME NEW c, WellFormed(c), NEW addr, NEW value \in 0..255
  PROVE  WellFormed(SetRegister(c, addr, value)) /\ SetRegister(c, addr, value).iface = c.iface
<1>1. value % 32 \in Nat /\ value % 4 \in Nat /\ value % 2 \in {0, 1}
  OBVIOUS
<1> QED
  BY <1>1 DEF SetRegister, WellFormed, ContextFields

LEMMA Mbc1WriteWellFormed ==
  ASSUME NEW c, WellFormed(c), NEW addr, NEW value \in 0..255
  PROVE  WellFormed(Mbc1Write(c, addr, value)) /\ Mbc1Write(c, addr, value).iface = c.iface
<1> DEFINE stored == [c EXCEPT !.ram[CalcRamAddr(c, addr)] = Byte(value)]
<1>1. WellFormed(stored) /\ stored.iface = c.iface
  BY DEF WellFormed, ContextFields
<1> QED
  BY <1>1, SetRegisterWellFormed DEF Mbc1Write

LEMMA DldWriteWellFormed ==
  ASSUME NEW c, WellFormed(c), NEW addr, NEW value \in 0..255
  PROVE  WellFormed(DldWrite(c, addr, value)) /\ DldWrite(c, addr, value).iface = c.iface
BY DEF DldWrite, WellFormed, ContextFields

LEMMA LoadWellFormed ==
  ASSUME NEW c, WellFormed(c), NEW size, NEW file
  PROVE  /\ WellFormed(MbcLoadRom(c, size)) /\ MbcLoadRom(c, size).iface = c.iface
         /\ WellFormed(MbcLoadRam(c, file)) /\ MbcLoadRam(c, file).iface = c.iface
BY DEF MbcLoadRom, MbcLoadRam, WellFormed, ContextFields

\* A controller that was just made: its RAM is what malloc left there.
Fresh(c) == c.hasRam => \A i \in DOMAIN c.ram : c.ram[i] = Junk
Built(c, n) == Fits(c, n) /\ Fresh(c)

LEMMA LoadRomKeepsBuilt ==
  ASSUME NEW c, ControllerOK(c), c # NoMbc, NEW n, Built(c, n), NEW size
  PROVE  Built(MbcLoadRom(c, size), n)
BY DEF ControllerOK, MbcLoadRom, WellFormed, ContextFields, Fits, Fresh, Built

LEMMA LoadRamKeepsBanks ==
  ASSUME NEW c, ControllerOK(c), c # NoMbc, NEW n, Fits(c, n), NEW file
  PROVE  Fits(MbcLoadRam(c, file), n)
BY DEF ControllerOK, MbcLoadRam, WellFormed, ContextFields, Fits

LEMMA BanksAreNumbers ==
  ASSUME NEW rom, NEW ram
  PROVE  RomBanks(rom) \in Nat /\ RamBanks(ram) \in Nat
BY DEF RomBanks, RamBanks

(***************************************************************************)
(* Taking blocks that are not held, and freeing any, keeps the balance.    *)
(***************************************************************************)
\* What making and freeing a cartridge leaves alone: the flags and the memories.
Untouched(w, v) ==
  /\ v.gCart = w.gCart /\ v.mCart = w.mCart
  /\ v.vram = w.vram /\ v.oam = w.oam /\ v.wram = w.wram /\ v.io = w.io
  /\ v.hram = w.hram /\ v.ie = w.ie /\ v.wild = w.wild

LEMMA TakeBalanced ==
  ASSUME NEW w, Balanced(w), NEW blocks \in SUBSET Blocks, blocks \cap w.ptr = {}
  PROVE  /\ Balanced(Take(w, blocks))
         /\ Take(w, blocks).ptr = w.ptr \cup blocks
         /\ Take(w, blocks).mbc = w.mbc /\ Take(w, blocks).out = w.out
         /\ Take(w, blocks).file = w.file
         /\ Untouched(w, Take(w, blocks))
<1> DEFINE v == Take(w, blocks)
           heap == [b \in Blocks |-> IF b \in blocks THEN w.heap[b] + 1 ELSE w.heap[b]]
<1>1. v = [w EXCEPT !.heap = heap, !.ptr = w.ptr \cup blocks]
  BY DEF Take
<1> HIDE DEF v
<1>2. /\ DOMAIN v = Fields /\ v.heap = heap /\ v.ptr = w.ptr \cup blocks
      /\ v.mbc = w.mbc /\ v.out = w.out /\ v.file = w.file /\ Untouched(w, v)
  BY <1>1 DEF Balanced, Fields, Untouched
<1>3. \A b \in Blocks : v.heap[b] = IF b \in v.ptr THEN 1 ELSE 0
  BY <1>2 DEF Balanced
<1>4. Balanced(v)
  BY <1>2, <1>3 DEF Balanced
<1> QED
  BY <1>2, <1>4 DEF v, Untouched

LEMMA FreeBalanced ==
  ASSUME NEW w, Balanced(w), NEW blocks
  PROVE  /\ Balanced(Free(w, blocks))
         /\ Free(w, blocks).ptr = w.ptr \ blocks
         /\ Free(w, blocks).mbc = w.mbc /\ Free(w, blocks).out = w.out
         /\ Free(w, blocks).file = w.file
         /\ Untouched(w, Free(w, blocks))
<1> DEFINE v == Free(w, blocks)
           heap == [b \in Blocks |-> IF b \in blocks \cap w.ptr THEN w.heap[b] - 1 ELSE w.heap[b]]
<1>1. v = [w EXCEPT !.heap = heap, !.ptr = w.ptr \ blocks]
  BY DEF Free
<1> HIDE DEF v
<1>2. /\ DOMAIN v = Fields /\ v.heap = heap /\ v.ptr = w.ptr \ blocks
      /\ v.mbc = w.mbc /\ v.out = w.out /\ v.file = w.file /\ Untouched(w, v)
  BY <1>1 DEF Balanced, Fields, Untouched
<1>3. \A b \in Blocks : v.heap[b] = IF b \in v.ptr THEN 1 ELSE 0
  BY <1>2 DEF Balanced
<1>4. Balanced(v)
  BY <1>2, <1>3 DEF Balanced
<1> QED
  BY <1>2, <1>4 DEF v, Untouched

(***************************************************************************)
(* Other fields do not matter for the balance.                             *)
(***************************************************************************)
LEMMA SetOut ==
  ASSUME NEW w, Balanced(w), NEW out
  PROVE  LET v == [w EXCEPT !.out = out]
         IN  /\ Balanced(v) /\ v.ptr = w.ptr /\ v.mbc = w.mbc /\ v.out = out /\ Untouched(w, v)
             /\ v.file = w.file
BY DEF Balanced, Fields, Untouched

LEMMA SetMbc ==
  ASSUME NEW w, Balanced(w), NEW c
  PROVE  LET v == [w EXCEPT !.mbc = c]
         IN  Balanced(v) /\ v.ptr = w.ptr /\ v.mbc = c /\ v.out = w.out /\ Untouched(w, v)
BY DEF Balanced, Fields, Untouched

LEMMA SetFile ==
  ASSUME NEW w, Balanced(w), NEW f
  PROVE  LET v == [w EXCEPT !.file = f]
         IN  /\ Balanced(v) /\ v.ptr = w.ptr /\ v.mbc = w.mbc /\ v.out = w.out /\ Untouched(w, v)
             /\ v.file = f
BY DEF Balanced, Fields, Untouched

(***************************************************************************)
(* mbc_create: a controller with its memory, or nothing.                   *)
(***************************************************************************)
Controller(v) == ControllerOK(v.mbc) /\ v.mbc # NoMbc

\* v follows w: a controller for so many banks of RAM was made, or nothing.
Made(w, v, n_ram) ==
  /\ Balanced(v) /\ v.out = w.out /\ Untouched(w, v)
  /\ \/ v.mbc = NoMbc /\ v.ptr = w.ptr
     \/ /\ Controller(v) /\ Built(v.mbc, n_ram)
        /\ w.ptr \cup {"ctx"} \subseteq v.ptr
        /\ v.ptr \subseteq w.ptr \cup {"ctx", "rom", "ram"}

\* No controller has been made yet.
Bare(w) == Balanced(w) /\ w.mbc = NoMbc /\ w.ptr \cap {"ctx", "rom", "ram"} = {}

LEMMA BareIsMade ==
  ASSUME NEW w, Bare(w), NEW n
  PROVE  Made(w, w, n)
BY DEF Bare, Made, Untouched

LEMMA SetContextEffect ==
  ASSUME NEW w, Bare(w), NEW c, NEW blocks \in SUBSET {"ctx", "rom", "ram"}
  PROVE  LET v == SetContext(w, c, blocks)
         IN  /\ Balanced(v) /\ v.out = w.out /\ Untouched(w, v)
             /\ v.mbc = c /\ v.ptr = w.ptr \cup blocks
<1> DEFINE u == [w EXCEPT !.mbc = c, !.ptr = w.ptr \ {"ctx", "rom", "ram"}]
<1>1. w.ptr \ {"ctx", "rom", "ram"} = w.ptr
  BY DEF Bare
<1>2. Balanced(u) /\ u.ptr = w.ptr /\ u.mbc = c /\ u.out = w.out /\ Untouched(w, u)
  BY <1>1 DEF Bare, Balanced, Fields, Untouched
<1>3. SetContext(w, c, blocks) = Take(u, blocks)
  BY DEF SetContext
<1>4. blocks \in SUBSET Blocks /\ blocks \cap u.ptr = {}
  BY <1>2 DEF Bare, Blocks, OwnBlocks
<1> HIDE DEF u
<1> QED
  BY <1>2, <1>3, <1>4, TakeBalanced DEF Untouched

LEMMA NothingMade ==
  ASSUME NEW w, Bare(w), NEW n
  PROVE  Made(w, SetContext(w, NoMbc, {}), n)
BY SetContextEffect DEF Made

LEMMA ContextMade ==
  ASSUME NEW w, Bare(w), NEW c, ControllerOK(c), c # NoMbc, NEW n, Built(c, n),
         NEW blocks \in SUBSET {"ctx", "rom", "ram"}, "ctx" \in blocks
  PROVE  Made(w, SetContext(w, c, blocks), n)
<1> DEFINE v == SetContext(w, c, blocks)
<1>1. Balanced(v) /\ v.out = w.out /\ Untouched(w, v) /\ v.mbc = c /\ v.ptr = w.ptr \cup blocks
  BY SetContextEffect
<1>2. w.ptr \cup {"ctx"} \subseteq v.ptr /\ v.ptr \subseteq w.ptr \cup {"ctx", "rom", "ram"}
  BY <1>1
<1> HIDE DEF v
<1>3. Controller(v)
  BY <1>1 DEF Controller
<1>4. Made(w, v, n)
  BY <1>1, <1>2, <1>3 DEF Made
<1> QED
  BY <1>4 DEF v

LEMMA MadeContextOK ==
  ASSUME NEW iface \in {"dld", "mbc1"}, NEW n_rom \in Nat \ {0}, NEW n_ram \in Nat,
         NEW gotRam \in BOOLEAN, gotRam => n_ram > 0, iface = "dld" => n_ram <= 1
  PROVE  /\ ControllerOK(Context(iface, n_rom, n_ram, gotRam))
         /\ Context(iface, n_rom, n_ram, gotRam) # NoMbc
         /\ Built(Context(iface, n_rom, n_ram, gotRam), n_ram)
<1>1. Built(Context(iface, n_rom, n_ram, gotRam), n_ram)
  BY DEF Fits, Context, Fresh, Built
<1> QED
  BY <1>1, ContextWellFormed DEF ControllerOK

LEMMA DldMade ==
  ASSUME NEW w, Bare(w), NEW n_rom \in Nat, NEW n_ram \in Nat, NEW fail
  PROVE  Made(w, DldInstantiate(w, n_rom, n_ram, fail), n_ram)
<1> DEFINE gotRam == n_ram = 1 /\ fail # "ram"
           c == Context("dld", n_rom, n_ram, gotRam)
           blocks == {"ctx"} \cup (IF gotRam THEN {"ram"} ELSE {})
<1>1. CASE ~DldSupports(n_rom, n_ram) \/ fail = "ctx"
  BY <1>1, NothingMade DEF DldInstantiate
<1>2. CASE ~(~DldSupports(n_rom, n_ram) \/ fail = "ctx")
  <2>1. n_rom \in Nat \ {0} /\ gotRam \in BOOLEAN /\ n_ram <= 1 /\ (gotRam => n_ram > 0)
    BY <1>2 DEF DldSupports
  <2>2. ControllerOK(c) /\ c # NoMbc /\ Built(c, n_ram)
    <3> HIDE DEF gotRam
    <3> QED
      BY <2>1, MadeContextOK
  <2>3. DldInstantiate(w, n_rom, n_ram, fail) = SetContext(w, c, blocks)
    BY <1>2 DEF DldInstantiate
  <2>4. blocks \in SUBSET {"ctx", "rom", "ram"} /\ "ctx" \in blocks
    OBVIOUS
  <2> HIDE DEF c, blocks
  <2> QED
    BY <2>2, <2>3, <2>4, ContextMade
<1> QED
  BY <1>1, <1>2

LEMMA FreedIsBare ==
  ASSUME NEW w, Bare(w), NEW taken \in SUBSET {"ctx", "rom"}
  PROVE  LET u == Free(Take(w, taken), taken)
         IN  Bare(u) /\ u.ptr = w.ptr /\ u.out = w.out /\ Untouched(w, u)
<1> DEFINE t == Take(w, taken)
           u == Free(t, taken)
<1>1. taken \in SUBSET Blocks /\ taken \cap w.ptr = {}
  BY DEF Bare, Blocks, OwnBlocks
<1>2. /\ Balanced(t) /\ t.ptr = w.ptr \cup taken /\ t.mbc = w.mbc /\ t.out = w.out
      /\ Untouched(w, t)
  BY <1>1, TakeBalanced DEF Bare
<1> HIDE DEF t
<1>3. /\ Balanced(u) /\ u.ptr = t.ptr \ taken /\ u.mbc = t.mbc /\ u.out = t.out
      /\ Untouched(t, u)
  BY <1>2, FreeBalanced
<1> HIDE DEF u
<1>4. u.ptr = w.ptr
  BY <1>1, <1>2, <1>3
<1>5. Bare(u) /\ u.out = w.out /\ Untouched(w, u)
  BY <1>2, <1>3, <1>4 DEF Bare, Untouched
<1> QED
  BY <1>4, <1>5 DEF u, t

LEMMA Mbc1Made ==
  ASSUME NEW w, Bare(w), NEW n_rom \in Nat, NEW n_ram \in Nat, NEW fail
  PROVE  Made(w, Mbc1Instantiate(w, n_rom, n_ram, fail), n_ram)
<1> DEFINE c == Context("mbc1", n_rom, n_ram, n_ram > 0)
           blocks == {"ctx", "rom"} \cup (IF n_ram > 0 THEN {"ram"} ELSE {})
           new == Mbc1Instantiate(w, n_rom, n_ram, fail)
<1>1. CASE new = SetContext(w, NoMbc, {})
  BY <1>1, NothingMade
<1>2. ASSUME NEW taken \in SUBSET {"ctx", "rom"},
             new = SetContext(Free(Take(w, taken), taken), NoMbc, {})
      PROVE  Made(w, new, n_ram)
  <2> DEFINE u == Free(Take(w, taken), taken)
  <2>1. Bare(u) /\ u.ptr = w.ptr /\ u.out = w.out /\ Untouched(w, u)
    BY FreedIsBare
  <2> HIDE DEF u
  <2>2. Made(u, SetContext(u, NoMbc, {}), n_ram)
    BY <2>1, NothingMade
  <2> QED
    BY <1>2, <2>1, <2>2 DEF Made, Untouched, u
<1>3. CASE Mbc1Supports(n_rom, n_ram) /\ new = SetContext(w, c, blocks)
  <2> DEFINE gotRam == n_ram > 0
  <2>1. n_rom \in Nat \ {0} /\ gotRam \in BOOLEAN
    BY <1>3 DEF Mbc1Supports, IsPow2
  <2>2. gotRam => n_ram > 0
    OBVIOUS
  <2>3. ControllerOK(Context("mbc1", n_rom, n_ram, gotRam))
          /\ Context("mbc1", n_rom, n_ram, gotRam) # NoMbc
          /\ Built(Context("mbc1", n_rom, n_ram, gotRam), n_ram)
    <3> HIDE DEF gotRam
    <3> QED
      BY <2>1, <2>2, MadeContextOK
  <2>4. blocks \in SUBSET {"ctx", "rom", "ram"} /\ "ctx" \in blocks
    OBVIOUS
  <2>5. ControllerOK(c) /\ c # NoMbc /\ Built(c, n_ram)
    BY <2>3
  <2> HIDE DEF c, blocks
  <2> QED
    BY <1>3, <2>4, <2>5, ContextMade
<1>4. \/ new = SetContext(w, NoMbc, {})
      \/ new = SetContext(Free(Take(w, {"ctx"}), {"ctx"}), NoMbc, {})
      \/ new = SetContext(Free(Take(w, {"ctx", "rom"}), {"ctx", "rom"}), NoMbc, {})
      \/ Mbc1Supports(n_rom, n_ram) /\ new = SetContext(w, c, blocks)
  <2>1. {"rom", "ctx"} = {"ctx", "rom"}
    OBVIOUS
  <2> QED
    BY <2>1 DEF Mbc1Instantiate
<1> HIDE DEF new, c, blocks
<1> QED
  BY <1>1, <1>2, <1>3, <1>4 DEF new

LEMMA ByTypeMade ==
  ASSUME NEW w, Bare(w), NEW type, NEW n_rom \in Nat, NEW n_ram \in Nat, NEW fail
  PROVE  Made(w, ByType(w, type, n_rom, n_ram, fail), n_ram)
<1> DEFINE new == ByType(w, type, n_rom, n_ram, fail)
<1>1. \/ new = w
      \/ new = DldInstantiate(w, n_rom, n_ram, fail)
      \/ n_ram = 0 /\ new = DldInstantiate(w, n_rom, 0, fail)
      \/ new = Mbc1Instantiate(w, n_rom, n_ram, fail)
  BY DEF ByType, RomRamCase, RomOnly, RomRam, Mbc1Only, Mbc1Ram
<1> HIDE DEF new
<1> QED
  BY <1>1, BareIsMade, DldMade, Mbc1Made DEF new

(***************************************************************************)
(* The steps of cartridge_create.  Each starts from a state with or        *)
(* without an error, and adds what it allocated.                           *)
(***************************************************************************)
\* v follows w in the making of a cartridge: blocks were added, nothing else changed.
Grown(w, v, blocks) ==
  /\ Balanced(v) /\ Untouched(w, v)
  /\ w.ptr \subseteq v.ptr /\ v.ptr \subseteq w.ptr \cup blocks
  /\ Running(v) => Running(w) /\ blocks \subseteq v.ptr

LEMMA AllocStep ==
  ASSUME NEW w, Balanced(w), NEW block \in Blocks, block \notin w.ptr, NEW fail
  PROVE  Grown(w, Alloc(w, block, fail), {block}) /\ Alloc(w, block, fail).mbc = w.mbc
<1>1. CASE ~Running(w)
  BY <1>1 DEF Alloc, Grown, Untouched
<1>2. CASE Running(w) /\ fail = block
  <2> DEFINE v == [w EXCEPT !.out = "err"]
  <2>1. Balanced(v) /\ v.ptr = w.ptr /\ v.mbc = w.mbc /\ v.out = "err" /\ Untouched(w, v)
    BY SetOut
  <2>2. Alloc(w, block, fail) = v
    BY <1>2 DEF Alloc
  <2> HIDE DEF v
  <2> QED
    BY <2>1, <2>2 DEF Grown, Running
<1>3. CASE Running(w) /\ fail # block
  <2> DEFINE v == Take(w, {block})
  <2>1. /\ Balanced(v) /\ v.ptr = w.ptr \cup {block} /\ v.mbc = w.mbc /\ v.out = w.out
        /\ Untouched(w, v)
    BY TakeBalanced
  <2>2. Alloc(w, block, fail) = v
    BY <1>3 DEF Alloc
  <2> HIDE DEF v
  <2> QED
    BY <1>3, <2>1, <2>2 DEF Grown, Running
<1> QED
  BY <1>1, <1>2, <1>3

LEMMA CheckStep ==
  ASSUME NEW w, Balanced(w), NEW ok
  PROVE  Grown(w, Check(w, ok), {}) /\ Check(w, ok).mbc = w.mbc /\ Check(w, ok).ptr = w.ptr
<1>1. CASE Running(w) /\ ~ok
  BY <1>1, SetOut DEF Check, Grown, Running
<1>2. CASE ~(Running(w) /\ ~ok)
  BY <1>2 DEF Check, Grown, Untouched
<1> QED
  BY <1>1, <1>2

LEMMA GrownTwice ==
  ASSUME NEW u, NEW v, NEW w, NEW a, NEW b, Grown(u, v, a), Grown(v, w, b)
  PROVE  Grown(u, w, a \cup b)
BY DEF Grown, Untouched

Located == {"cart", "data_path", "save_path", "rom_path", "rom_file"}

LEMMA FindRomStep ==
  ASSUME NEW w, Balanced(w), w.ptr = {}, w.mbc = NoMbc, NEW fail
  PROVE  Grown(w, FindRom(w, fail), Located) /\ FindRom(w, fail).mbc = NoMbc
<1> DEFINE w1 == Alloc(w, "cart", fail)
           w2 == Alloc(w1, "data_path", fail)
           w3 == Alloc(w2, "save_path", fail)
           w4 == Alloc(w3, "rom_path", fail)
           w5 == Check(w4, fail # "path_info")
           w6 == Alloc(w5, "rom_file", fail)
<1>0. /\ "cart" \in Blocks /\ "data_path" \in Blocks /\ "save_path" \in Blocks
      /\ "rom_path" \in Blocks /\ "rom_file" \in Blocks
  BY DEF Blocks, OwnBlocks, TempBlocks
<1>w. FindRom(w, fail) = w6
  BY DEF FindRom
<1>1. Grown(w, w1, {"cart"}) /\ w1.mbc = NoMbc
  BY <1>0, AllocStep
<1> HIDE DEF w1
<1>2. Grown(w1, w2, {"data_path"}) /\ w2.mbc = NoMbc
  BY <1>0, <1>1, AllocStep DEF Grown
<1> HIDE DEF w2
<1>3. Grown(w, w2, {"cart", "data_path"})
  BY <1>1, <1>2, GrownTwice DEF Grown
<1>4. Grown(w2, w3, {"save_path"}) /\ w3.mbc = NoMbc
  BY <1>0, <1>2, <1>3, AllocStep DEF Grown
<1> HIDE DEF w3
<1>5. Grown(w, w3, {"cart", "data_path", "save_path"})
  BY <1>3, <1>4 DEF Grown, Untouched
<1>6. Grown(w3, w4, {"rom_path"}) /\ w4.mbc = NoMbc
  BY <1>0, <1>4, <1>5, AllocStep DEF Grown
<1> HIDE DEF w4
<1>7. Grown(w, w4, {"cart", "data_path", "save_path", "rom_path"})
  BY <1>5, <1>6 DEF Grown, Untouched
<1>8. Grown(w4, w5, {}) /\ w5.mbc = NoMbc
  BY <1>6, CheckStep DEF Grown
<1> HIDE DEF w5
<1>9. Grown(w, w5, {"cart", "data_path", "save_path", "rom_path"})
  BY <1>7, <1>8 DEF Grown, Untouched
<1>10. Grown(w5, w6, {"rom_file"}) /\ w6.mbc = NoMbc
  BY <1>0, <1>8, <1>9, AllocStep DEF Grown
<1> HIDE DEF w6
<1>11. Grown(w, w6, Located)
  BY <1>9, <1>10 DEF Grown, Untouched, Located
<1> QED
  BY <1>10, <1>11, <1>w

Chips == {"mbc", "ctx", "rom", "ram"}

LEMMA MbcCleanupStep ==
  ASSUME NEW w, Balanced(w)
  PROVE  LET v == MbcCleanup(w)
         IN  /\ Balanced(v) /\ v.ptr = w.ptr \ Chips /\ v.mbc = NoMbc /\ v.out = w.out
             /\ Untouched(w, v)
<1> DEFINE u == Free(w, {"ctx", "rom", "ram", "mbc"})
           v == [u EXCEPT !.mbc = NoMbc]
<1>1. /\ Balanced(u) /\ u.ptr = w.ptr \ Chips /\ u.out = w.out /\ Untouched(w, u)
  BY FreeBalanced DEF Chips
<1>2. MbcCleanup(w) = v
  BY DEF MbcCleanup
<1> HIDE DEF u
<1>3. Balanced(v) /\ v.ptr = u.ptr /\ v.mbc = NoMbc /\ v.out = u.out /\ Untouched(u, v)
  BY <1>1, SetMbc
<1> HIDE DEF v
<1> QED
  BY <1>1, <1>2, <1>3 DEF Untouched

\* v follows w in which no controller has been made: one was, or there was an error.
Equipped(w, v, n_ram) ==
  /\ Balanced(v) /\ Untouched(w, v)
  /\ w.ptr \subseteq v.ptr /\ v.ptr \subseteq w.ptr \cup Chips
  /\ Running(v) => Running(w) /\ Controller(v) /\ Built(v.mbc, n_ram) /\ {"mbc", "ctx"} \subseteq v.ptr

LEMMA MbcCreateStep ==
  ASSUME NEW w, Bare(w), "mbc" \notin w.ptr, NEW h, NEW fail
  PROVE  Equipped(w, MbcCreate(w, h, fail), RamBanks(h.ram))
<1> DEFINE t == Take(w, {"mbc"})
           made == ByType(t, h.type, RomBanks(h.rom), RamBanks(h.ram), fail)
           new == MbcCreate(w, h, fail)
           n == RamBanks(h.ram)
<1>1. CASE new = w /\ ~Running(w)
  BY <1>1 DEF Equipped, Untouched, Bare
<1>2. CASE new = [w EXCEPT !.out = "err"]
  <2> DEFINE v == [w EXCEPT !.out = "err"]
  <2>1. Balanced(v) /\ v.ptr = w.ptr /\ v.out = "err" /\ Untouched(w, v)
    BY SetOut DEF Bare
  <2> HIDE DEF v
  <2>2. Equipped(w, v, n)
    BY <2>1 DEF Equipped, Running
  <2> QED
    BY <1>2, <2>2 DEF v
<1>3. Bare(t) /\ t.ptr = w.ptr \cup {"mbc"} /\ t.out = w.out /\ Untouched(w, t)
  <2>1. {"mbc"} \in SUBSET Blocks /\ {"mbc"} \cap w.ptr = {} /\ Balanced(w)
    BY DEF Bare, Blocks, OwnBlocks
  <2> QED
    BY <2>1, TakeBalanced DEF Bare
<1>4. Made(t, made, n)
  <2> HIDE DEF t
  <2> QED
    BY <1>3, ByTypeMade, BanksAreNumbers
<1>5. CASE Running(w) /\ made.mbc # NoMbc /\ new = made
  <2> HIDE DEF made, t
  <2>1. Equipped(w, made, n)
    BY <1>3, <1>4, <1>5 DEF Made, Equipped, Untouched, Chips, Running
  <2> QED
    BY <1>5, <2>1
<1>6. CASE made.mbc = NoMbc /\ new = [MbcCleanup(made) EXCEPT !.out = "err"]
  <2> DEFINE u == MbcCleanup(made)
             v == [u EXCEPT !.out = "err"]
  <2> HIDE DEF made, t
  <2>1. /\ Balanced(u) /\ u.ptr = made.ptr \ Chips /\ Untouched(made, u)
    BY <1>4, MbcCleanupStep DEF Made
  <2> HIDE DEF u
  <2>2. Balanced(v) /\ v.ptr = u.ptr /\ v.out = "err" /\ Untouched(u, v)
    BY <2>1, SetOut
  <2> HIDE DEF v
  <2>3. w.ptr \cap Chips = {}
    BY DEF Bare, Chips
  <2>4. made.ptr = t.ptr
    BY <1>4, <1>6 DEF Made, Controller
  <2>5. v.ptr = w.ptr
    BY <1>3, <2>1, <2>2, <2>3, <2>4 DEF Chips
  <2>6. Untouched(w, v)
    BY <1>3, <1>4, <2>1, <2>2 DEF Untouched, Made
  <2>7. Equipped(w, v, n)
    BY <2>2, <2>5, <2>6 DEF Equipped, Running
  <2> QED
    BY <1>6, <2>7 DEF v, u
<1>7. \/ new = w /\ ~Running(w)
      \/ new = [w EXCEPT !.out = "err"]
      \/ Running(w) /\ made.mbc # NoMbc /\ new = made
      \/ made.mbc = NoMbc /\ new = [MbcCleanup(made) EXCEPT !.out = "err"]
  <2> HIDE DEF made
  <2> QED
    BY DEF MbcCreate, made
<1> HIDE DEF new, made
<1> QED
  BY <1>1, <1>2, <1>5, <1>6, <1>7 DEF new

LEMMA SetController ==
  ASSUME NEW w, NEW v, NEW n, Equipped(w, v, n), Controller(v),
         NEW c, ControllerOK(c), c # NoMbc, Built(c, n)
  PROVE  Equipped(w, [v EXCEPT !.mbc = c], n)
<1> DEFINE u == [v EXCEPT !.mbc = c]
<1>1. Balanced(u) /\ u.ptr = v.ptr /\ u.mbc = c /\ u.out = v.out /\ Untouched(v, u)
  BY SetMbc DEF Equipped
<1> HIDE DEF u
<1>2. Equipped(w, u, n)
  BY <1>1 DEF Equipped, Untouched, Controller, Running
<1> QED
  BY <1>2 DEF u

LEMMA ParseRomStep ==
  ASSUME NEW w, Bare(w), "mbc" \notin w.ptr, NEW h, NEW fail
  PROVE  Equipped(w, ParseRom(w, h, fail), RamBanks(h.ram))
<1> DEFINE checked == Check(w, h.size >= 336)
           made == MbcCreate(checked, h, fail)
           c == MbcLoadRom(made.mbc, h.size)
<1>1. /\ Bare(checked) /\ "mbc" \notin checked.ptr /\ checked.ptr = w.ptr
      /\ Untouched(w, checked) /\ (Running(checked) => Running(w))
  BY CheckStep DEF Bare, Grown
<1> HIDE DEF checked
<1>2. Equipped(checked, made, RamBanks(h.ram))
  BY <1>1, MbcCreateStep
<1>w. ParseRom(w, h, fail) = IF Running(made) THEN [made EXCEPT !.mbc = c] ELSE made
  BY DEF ParseRom, checked
<1> HIDE DEF made
<1>3. Equipped(w, made, RamBanks(h.ram))
  BY <1>1, <1>2 DEF Equipped, Untouched
<1>4. CASE Running(made)
  <2>1. Controller(made) /\ Built(made.mbc, RamBanks(h.ram))
    BY <1>3, <1>4 DEF Equipped
  <2>2. ControllerOK(c) /\ c # NoMbc
    BY <2>1, LoadWellFormed DEF Controller, ControllerOK, NoMbc
  <2>3. Built(c, RamBanks(h.ram))
    BY <2>1, LoadRomKeepsBuilt DEF Controller
  <2> HIDE DEF c
  <2> QED
    BY <1>3, <1>4, <1>w, <2>1, <2>2, <2>3, SetController
<1> QED
  BY <1>3, <1>4, <1>w

\* The RAM of a cartridge with a battery is that of the file, and nothing behind its end.
Restored(c, h, save) ==
  ContainsBattery(h.type) /\ c.hasRam =>
    \A i \in DOMAIN c.ram : c.ram[i] = IF i \in DOMAIN save THEN save[i] ELSE Junk

LEMMA LoadRestores ==
  ASSUME NEW c, ControllerOK(c), c # NoMbc, Fresh(c), NEW h, NEW save
  PROVE  Restored(MbcLoadRam(c, save), h, save)
BY DEF ControllerOK, MbcLoadRam, WellFormed, ContextFields, Restored, Fresh

LEMMA RestoreRamStep ==
  ASSUME NEW w, NEW v, NEW n, Equipped(w, v, n), w.ptr \subseteq Located,
         NEW h, NEW save, NEW fail
  PROVE  LET u == RestoreRam(v, h, save, fail)
         IN  /\ Balanced(u) /\ Untouched(v, u)
             /\ v.ptr \subseteq u.ptr /\ u.ptr \subseteq v.ptr \cup {"ram_path", "ram_file"}
             /\ Running(u) => Running(v) /\ Controller(u) /\ Fits(u.mbc, n)
             /\ Running(u) => Restored(u.mbc, h, save)
<1> DEFINE named == Alloc(v, "ram_path", fail)
           read == IF save = NoFile THEN named ELSE Alloc(named, "ram_file", fail)
           c == MbcLoadRam(read.mbc, save)
           last == IF Running(read) THEN [read EXCEPT !.mbc = c] ELSE read
           u == RestoreRam(v, h, save, fail)
<1>1. "ram_path" \in Blocks /\ "ram_path" \notin v.ptr
      /\ "ram_file" \in Blocks /\ "ram_file" \notin v.ptr
  BY DEF Equipped, Located, Chips, Blocks, OwnBlocks, TempBlocks
<1>2. Grown(v, named, {"ram_path"}) /\ named.mbc = v.mbc
  BY <1>1, AllocStep DEF Equipped
<1>w. u = IF ~Running(v) \/ ~ContainsBattery(h.type) THEN v ELSE last
  BY DEF RestoreRam
<1> HIDE DEF named, u
<1>3. /\ Balanced(read) /\ Untouched(v, read) /\ read.mbc = v.mbc
      /\ v.ptr \subseteq read.ptr /\ read.ptr \subseteq v.ptr \cup {"ram_path", "ram_file"}
      /\ (Running(read) => Running(v))
  <2>1. CASE save = NoFile
    BY <1>2, <2>1 DEF Grown
  <2>2. CASE save # NoFile
    <3>1. "ram_file" \notin named.ptr /\ Balanced(named)
      BY <1>1, <1>2 DEF Grown
    <3>2. Grown(named, read, {"ram_file"}) /\ read.mbc = named.mbc
      BY <1>1, <2>2, <3>1, AllocStep
    <3> HIDE DEF read
    <3> QED
      BY <1>2, <3>2 DEF Grown, Untouched
  <2> QED
    BY <2>1, <2>2
<1> HIDE DEF read
<1>4. CASE u = v /\ (Running(v) => ~ContainsBattery(h.type))
  <2>1. Running(u) => Restored(u.mbc, h, save)
    BY <1>4 DEF Restored
  <2> QED
    BY <1>4, <2>1 DEF Equipped, Untouched, Built, u
<1>5. CASE u = last /\ ~Running(read)
  BY <1>3, <1>5 DEF u
<1>6. CASE u = last /\ Running(read)
  <2>1. Controller(read) /\ Fits(read.mbc, n) /\ Fresh(read.mbc)
    BY <1>3, <1>6 DEF Equipped, Controller, Built
  <2>2. ControllerOK(c) /\ c # NoMbc
    BY <2>1, LoadWellFormed DEF Controller, ControllerOK, NoMbc
  <2> DEFINE x == [read EXCEPT !.mbc = c]
  <2>3. Balanced(x) /\ x.ptr = read.ptr /\ x.mbc = c /\ x.out = read.out /\ Untouched(read, x)
    BY <1>3, SetMbc
  <2>4. u = x
    BY <1>6
  <2>6. Fits(c, n) /\ Restored(c, h, save)
    BY <2>1, LoadRamKeepsBanks, LoadRestores DEF Controller
  <2> HIDE DEF c, x
  <2>5. /\ Balanced(x) /\ Untouched(v, x) /\ Running(v) /\ Controller(x) /\ Fits(x.mbc, n) /\ Restored(x.mbc, h, save)
        /\ v.ptr \subseteq x.ptr /\ x.ptr \subseteq v.ptr \cup {"ram_path", "ram_file"}
    BY <1>3, <1>6, <2>2, <2>3, <2>6 DEF Untouched, Controller
  <2> QED
    BY <2>4, <2>5 DEF u
<1> QED
  BY <1>4, <1>5, <1>6, <1>w

(***************************************************************************)
(* cartridge_free gives back all that belongs to the cartridge.            *)
(***************************************************************************)
LEMMA FreedCartridge ==
  ASSUME NEW w, Balanced(w)
  PROVE  LET v == CartridgeFree(w)
         IN  /\ Balanced(v) /\ v.ptr = w.ptr \ OwnBlocks /\ v.mbc = NoMbc /\ v.out = w.out
             /\ Untouched(w, v)
<1> DEFINE paths == Free(w, {"rom_path", "ram_path", "save_path"})
           chips == MbcCleanup(paths)
           cart == Free(chips, {"cart"})
           v == [cart EXCEPT !.file = "none"]
<1>w. CartridgeFree(w) = v
  BY DEF CartridgeFree
<1>1. /\ Balanced(paths) /\ paths.ptr = w.ptr \ {"rom_path", "ram_path", "save_path"}
      /\ paths.out = w.out /\ Untouched(w, paths)
  BY FreeBalanced
<1> HIDE DEF paths
<1>2. /\ Balanced(chips) /\ chips.ptr = paths.ptr \ Chips /\ chips.mbc = NoMbc
      /\ chips.out = paths.out /\ Untouched(paths, chips)
  BY <1>1, MbcCleanupStep
<1> HIDE DEF chips
<1>3. /\ Balanced(cart) /\ cart.ptr = chips.ptr \ {"cart"} /\ cart.mbc = NoMbc
      /\ cart.out = chips.out /\ Untouched(chips, cart)
  BY <1>2, FreeBalanced
<1> HIDE DEF cart
<1>4. /\ Balanced(v) /\ v.ptr = cart.ptr /\ v.mbc = NoMbc /\ v.out = cart.out
      /\ Untouched(cart, v)
  BY <1>3, SetFile
<1> HIDE DEF v
<1>5. v.ptr = w.ptr \ OwnBlocks
  BY <1>1, <1>2, <1>3, <1>4 DEF Chips, OwnBlocks
<1>6. v.out = w.out /\ Untouched(w, v)
  BY <1>1, <1>2, <1>3, <1>4 DEF Untouched
<1> QED
  BY <1>4, <1>5, <1>6, <1>w

LEMMA GoodIsInv == Inv <=> Good(s) /\ DumpHeld
BY DEF Inv

LEMMA CartridgeCreateStep ==
  ASSUME Inv, ~s.gCart, NEW f, NEW save, NEW fail
  PROVE  LET v == CartridgeCreate(f, save, fail)
         IN  /\ Balanced(v) /\ Untouched(s, v)
             /\ \/ v.out = "err" /\ v.ptr = {} /\ v.mbc = NoMbc
                \/ /\ v.out = "exit" /\ Controller(v) /\ v.file = f
                   /\ Fits(v.mbc, RamBanks(HeaderOf[f].ram))
                   /\ Restored(v.mbc, HeaderOf[f], save)
                   /\ Parts \subseteq v.ptr /\ v.ptr \subseteq OwnBlocks
<1> DEFINE h == HeaderOf[f]
           found == FindRom(s, fail)
           parsed == ParseRom(found, h, fail)
           made == RestoreRam(parsed, h, save, fail)
           clean == Free(made, {"data_path", "rom_file", "ram_file"})
           done == [[clean EXCEPT !.file = f] EXCEPT !.out = "exit"]
           freed == CartridgeFree(clean)
           gone == [freed EXCEPT !.out = "err"]
           new == CartridgeCreate(f, save, fail)
<1>w. new = IF Running(made) THEN done ELSE gone
  BY DEF CartridgeCreate
<1> HIDE DEF h
<1>1. Grown(s, found, Located) /\ found.mbc = NoMbc
  BY FindRomStep DEF Inv, Good
<1> HIDE DEF found
<1>2. Bare(found) /\ found.ptr \subseteq Located /\ "mbc" \notin found.ptr
  BY <1>1 DEF Grown, Bare, Located, Inv, Good
<1>3. Equipped(found, parsed, RamBanks(h.ram))
  BY <1>2, ParseRomStep
<1> HIDE DEF parsed
<1>4. /\ Balanced(made) /\ Untouched(parsed, made) /\ parsed.ptr \subseteq made.ptr
      /\ made.ptr \subseteq parsed.ptr \cup {"ram_path", "ram_file"}
      /\ (Running(made) => Running(parsed) /\ Controller(made))
      /\ (Running(made) => Fits(made.mbc, RamBanks(h.ram)) /\ Restored(made.mbc, h, save))
  BY <1>2, <1>3, RestoreRamStep
<1> HIDE DEF made
<1>5. /\ Balanced(clean) /\ clean.ptr = made.ptr \ {"data_path", "rom_file", "ram_file"}
      /\ clean.mbc = made.mbc /\ Untouched(made, clean)
  BY <1>4, FreeBalanced
<1> HIDE DEF clean
<1>6. Untouched(s, clean)
  BY <1>1, <1>3, <1>4, <1>5 DEF Untouched, Grown, Equipped
<1>7. clean.ptr \subseteq OwnBlocks
  <2>1. made.ptr \subseteq Located \cup Chips \cup {"ram_path", "ram_file"}
    BY <1>2, <1>3, <1>4 DEF Equipped
  <2> QED
    BY <1>5, <2>1 DEF Located, Chips, OwnBlocks
<1>8. CASE Running(made)
  <2>1. Controller(clean) /\ Fits(clean.mbc, RamBanks(h.ram)) /\ Restored(clean.mbc, h, save)
    BY <1>4, <1>5, <1>8 DEF Controller
  <2>2. Located \subseteq found.ptr /\ {"mbc", "ctx"} \subseteq parsed.ptr
    BY <1>1, <1>3, <1>4, <1>8 DEF Grown, Equipped
  <2>3. Parts \subseteq clean.ptr
    BY <1>3, <1>4, <1>5, <2>2 DEF Parts, Located, Equipped
  <2> DEFINE named == [clean EXCEPT !.file = f]
  <2>4. Balanced(named) /\ named.ptr = clean.ptr /\ named.mbc = clean.mbc /\ Untouched(clean, named)
        /\ named.file = f
    BY <1>5, SetFile
  <2> HIDE DEF named
  <2>5. /\ Balanced(done) /\ done.ptr = named.ptr /\ done.mbc = named.mbc /\ done.out = "exit"
        /\ Untouched(named, done) /\ done.file = named.file
    BY <2>4, SetOut DEF named
  <2> HIDE DEF done
  <2>6. new = done
    BY <1>8, <1>w
  <2>7. /\ Untouched(s, done) /\ Controller(done)
        /\ Fits(done.mbc, RamBanks(h.ram)) /\ Restored(done.mbc, h, save)
    BY <1>6, <2>1, <2>4, <2>5 DEF Untouched, Controller
  <2> HIDE DEF new
  <2>8. /\ Balanced(new) /\ Untouched(s, new) /\ new.out = "exit" /\ Controller(new)
        /\ Parts \subseteq new.ptr /\ new.ptr \subseteq OwnBlocks /\ new.file = f
        /\ Fits(new.mbc, RamBanks(h.ram)) /\ Restored(new.mbc, h, save)
    BY <1>7, <2>3, <2>4, <2>5, <2>6, <2>7
  <2> QED
    BY <2>8 DEF new, h
<1>9. CASE ~Running(made)
  <2>1. /\ Balanced(freed) /\ freed.ptr = clean.ptr \ OwnBlocks /\ freed.mbc = NoMbc
        /\ Untouched(clean, freed)
    BY <1>5, FreedCartridge
  <2> HIDE DEF freed
  <2>2. /\ Balanced(gone) /\ gone.ptr = freed.ptr /\ gone.mbc = freed.mbc /\ gone.out = "err"
        /\ Untouched(freed, gone)
    BY <2>1, SetOut
  <2> HIDE DEF gone
  <2>3. new = gone
    BY <1>9, <1>w
  <2>4. gone.ptr = {}
    BY <1>7, <2>1, <2>2
  <2>5. Untouched(s, gone)
    BY <1>6, <2>1, <2>2 DEF Untouched
  <2> HIDE DEF new
  <2>6. Balanced(new) /\ Untouched(s, new) /\ new.out = "err" /\ new.ptr = {} /\ new.mbc = NoMbc
    BY <2>1, <2>2, <2>3, <2>4, <2>5
  <2> QED
    BY <2>6 DEF new
<1> QED
  BY <1>8, <1>9

(***************************************************************************)
(* The unit's own memories have no part in the invariant.                  *)
(***************************************************************************)
LEMMA SameCartridge ==
  ASSUME NEW w, Good(w), NEW v,
         DOMAIN v = DOMAIN w, v.ptr = w.ptr, v.heap = w.heap, v.out = w.out,
         v.gCart = w.gCart, v.mCart = w.mCart, v.mbc = w.mbc
  PROVE  Good(v) /\ v.ptr = w.ptr
BY DEF Good, Balanced

LEMMA BehindWramGood ==
  ASSUME NEW w, Good(w), NEW value, NEW v \in BehindWram(w, value)
  PROVE  Good(v) /\ v.ptr = w.ptr
<1>1. \/ v = w
      \/ \E i \in DOMAIN w.vram : v = [w EXCEPT !.vram[i] = Byte(value)]
      \/ \E i \in DOMAIN w.oam : v = [w EXCEPT !.oam[i] = Byte(value)]
      \/ \E i \in DOMAIN w.io : v = [w EXCEPT !.io[i] = Byte(value)]
      \/ \E i \in DOMAIN w.hram : v = [w EXCEPT !.hram[i] = Byte(value)]
      \/ v = [w EXCEPT !.ie = Byte(value)]
  BY DEF BehindWram
<1>2. DOMAIN w = Fields
  BY DEF Good, Balanced
<1>3. /\ DOMAIN v = DOMAIN w /\ v.ptr = w.ptr /\ v.heap = w.heap /\ v.out = w.out
      /\ v.gCart = w.gCart /\ v.mCart = w.mCart /\ v.mbc = w.mbc
  BY <1>1, <1>2 DEF Fields
<1> QED
  BY <1>3, SameCartridge

LEMMA WramWriteGood ==
  ASSUME NEW w, Good(w), NEW addr, NEW value, NEW v \in WramWrite(w, addr, value)
  PROVE  Good(v) /\ v.ptr = w.ptr
<1> DEFINE bank == WramBank(w, addr)
           wild == [w EXCEPT !.wild = TRUE]
<1>1. DOMAIN w = Fields
  BY DEF Good, Balanced
<1>2. Good(wild) /\ wild.ptr = w.ptr
  <2>1. /\ DOMAIN wild = DOMAIN w /\ wild.ptr = w.ptr /\ wild.heap = w.heap /\ wild.out = w.out
        /\ wild.gCart = w.gCart /\ wild.mCart = w.mCart /\ wild.mbc = w.mbc
    BY <1>1 DEF Fields
  <2> HIDE DEF wild
  <2> QED
    BY <2>1, SameCartridge
<1>3. \/ v = [w EXCEPT !.wram[bank][addr % WramBankSize] = Byte(value)]
      \/ v \in BehindWram(wild, value)
  BY DEF WramWrite
<1> HIDE DEF wild, bank
<1>4. CASE v = [w EXCEPT !.wram[bank][addr % WramBankSize] = Byte(value)]
  <2>1. /\ DOMAIN v = DOMAIN w /\ v.ptr = w.ptr /\ v.heap = w.heap /\ v.out = w.out
        /\ v.gCart = w.gCart /\ v.mCart = w.mCart /\ v.mbc = w.mbc
    BY <1>1, <1>4 DEF Fields
  <2> QED
    BY <2>1, SameCartridge
<1> QED
  BY <1>2, <1>3, <1>4, BehindWramGood

LEMMA SetMbcGood ==
  ASSUME NEW w, Good(w), w.mbc # NoMbc, w.gCart, NEW addr, NEW value \in 0..255
  PROVE  LET v == [w EXCEPT !.mbc = MbcWrite(w.mbc, addr, value)]
         IN  Good(v) /\ v.ptr = w.ptr
<1> DEFINE c == MbcWrite(w.mbc, addr, value)
           v == [w EXCEPT !.mbc = c]
<1>1. w.mbc.iface \in {"dld", "mbc1"} /\ WellFormed(w.mbc)
  BY DEF Good, ControllerOK
<1>2. WellFormed(c) /\ c.iface = w.mbc.iface
  BY <1>1, DldWriteWellFormed, Mbc1WriteWellFormed DEF MbcWrite
<1> HIDE DEF c
<1>3. ControllerOK(c) /\ c # NoMbc
  BY <1>1, <1>2 DEF ControllerOK, NoMbc
<1>4. Balanced(v) /\ v.ptr = w.ptr /\ v.mbc = c /\ v.out = w.out /\ Untouched(w, v)
  BY SetMbc DEF Good
<1> HIDE DEF v
<1>5. Good(v)
  BY <1>3, <1>4 DEF Good, Untouched
<1> QED
  BY <1>4, <1>5 DEF v, c

LEMMA AddressRange ==
  ASSUME NEW addr \in Addrs
  PROVE  addr \in Nat /\ addr <= 65535
BY AddrsAssumption

LEMMA MmuWriteGood ==
  ASSUME NEW w, Good(w), NEW bus, NEW addr \in Addrs, NEW value \in 0..255,
         NEW v \in MmuWrite(w, bus, addr, value)
  PROVE  Good(v) /\ v.ptr = w.ptr
<1>1. DOMAIN w = Fields
  BY DEF Good, Balanced
<1>2. \/ v = w
      \/ v \in {VramWrite(w, bus, addr, value)}
      \/ v = CartWrite(w, addr, value)
      \/ v \in WramWrite(w, addr, value) \cup EchoWrite(w, addr, value)
      \/ v \in {OamWrite(w, bus, addr, value), IoWrite(w, addr, value),
                HramWrite(w, addr, value), IeWrite(w, value)}
  <2>1. addr \in Nat /\ addr <= 65535
    BY AddressRange
  <2>2. \/ InRom(addr) \/ InVram(addr) \/ InRam(addr) \/ InWram(addr) \/ InEcho(addr)
        \/ InOam(addr) \/ InProhibited(addr) \/ InIo(addr) \/ InHram(addr) \/ addr = AddrIe
    BY <2>1 DEF InRom, InVram, InRam, RamStart, RamEnd, InWram, InEcho, InOam, InProhibited,
                InIo, InHram, AddrIe
  <2> QED
    BY <2>2, SMTT(30) DEF MmuWrite
<1>3. CASE \/ v = w
           \/ v \in {VramWrite(w, bus, addr, value)}
           \/ v \in {OamWrite(w, bus, addr, value), IoWrite(w, addr, value),
                     HramWrite(w, addr, value), IeWrite(w, value)}
  <2>1. /\ DOMAIN v = DOMAIN w /\ v.ptr = w.ptr /\ v.heap = w.heap /\ v.out = w.out
        /\ v.gCart = w.gCart /\ v.mCart = w.mCart /\ v.mbc = w.mbc
    BY <1>1, <1>3 DEF Fields, VramWrite, OamWrite, IoWrite, HramWrite, IeWrite
  <2> QED
    BY <2>1, SameCartridge
<1>4. CASE v = CartWrite(w, addr, value)
  <2>1. CASE w.mCart
    <3>1. w.gCart /\ w.mbc # NoMbc
      BY <2>1 DEF Good
    <3>2. v = [w EXCEPT !.mbc = MbcWrite(w.mbc, addr, value)]
      BY <1>4, <2>1 DEF CartWrite
    <3> QED
      BY <3>1, <3>2, SetMbcGood
  <2>2. CASE ~w.mCart
    BY <1>4, <2>2 DEF CartWrite
  <2> QED
    BY <2>1, <2>2
<1>5. CASE v \in WramWrite(w, addr, value) \cup EchoWrite(w, addr, value)
  BY <1>5, WramWriteGood DEF EchoWrite
<1> QED
  BY <1>2, <1>3, <1>4, <1>5

(***************************************************************************)
(* The invariant is inductive.                                             *)
(***************************************************************************)
LEMMA PowerUpGood == Good(PowerUp)
BY DEF Good, PowerUp, Balanced, Fields, ControllerOK, NoMbc

LEMMA LoadRomGood ==
  ASSUME Inv, NEW f, NEW fail, LoadRom(f, fail)
  PROVE  Good(s') /\ DumpHeld'
<1> DEFINE made == CartridgeCreate(f, saves[f], fail)
           held == [made EXCEPT !.mCart = TRUE, !.gCart = TRUE]
           loaded == IF made.out = "err" THEN made
                     ELSE IF made.mCart THEN CartridgeFree(made) ELSE held
<1>1. s' = [loaded EXCEPT !.out = "run"] /\ ~s.gCart
  BY DEF LoadRom
<1>2. /\ Balanced(made) /\ Untouched(s, made)
      /\ \/ made.out = "err" /\ made.ptr = {} /\ made.mbc = NoMbc
         \/ /\ made.out = "exit" /\ Controller(made)
            /\ Parts \subseteq made.ptr /\ made.ptr \subseteq OwnBlocks
  BY <1>1, CartridgeCreateStep
<1> HIDE DEF made
<1>3. ~made.mCart /\ made.mCart = FALSE /\ made.gCart = FALSE
  BY <1>1, <1>2 DEF Untouched, Inv, Good
<1>4. /\ Balanced(held) /\ held.ptr = made.ptr /\ held.mbc = made.mbc
      /\ held.gCart = TRUE /\ held.mCart = TRUE
  <2> DEFINE u == [made EXCEPT !.gCart = TRUE, !.mCart = TRUE]
  <2>1. /\ Balanced(u) /\ u.ptr = made.ptr /\ u.mbc = made.mbc
        /\ u.gCart = TRUE /\ u.mCart = TRUE
    BY <1>2 DEF Balanced, Fields
  <2>2. held = u
    BY <1>2 DEF Balanced, Fields
  <2> QED
    BY <2>1, <2>2
<1> HIDE DEF held
<1>5. /\ Balanced(loaded) /\ ControllerOK(loaded.mbc) /\ loaded.ptr \subseteq OwnBlocks
      /\ loaded.gCart \in BOOLEAN /\ loaded.mCart = loaded.gCart
      /\ (loaded.gCart => Parts \subseteq loaded.ptr /\ loaded.mbc # NoMbc)
      /\ (~loaded.gCart => loaded.ptr = {} /\ loaded.mbc = NoMbc)
  <2>1. CASE made.out = "err"
    BY <1>2, <1>3, <2>1 DEF ControllerOK
  <2>2. CASE made.out # "err"
    BY <1>2, <1>3, <1>4, <2>2 DEF Controller
  <2> QED
    BY <2>1, <2>2
<1> HIDE DEF loaded
<1> DEFINE v == [loaded EXCEPT !.out = "run"]
<1>6. Balanced(v) /\ v.ptr = loaded.ptr /\ v.mbc = loaded.mbc /\ v.out = "run" /\ Untouched(loaded, v)
  BY <1>5, SetOut
<1> HIDE DEF v
<1>7. Good(v) /\ "dump" \notin v.ptr
  BY <1>5, <1>6 DEF Good, Untouched, OwnBlocks
<1>8. saving' = NoFile
  BY DEF LoadRom
<1> QED
  BY <1>1, <1>7, <1>8 DEF v, DumpHeld

LEMMA EjectCartGood ==
  ASSUME Inv, EjectCart
  PROVE  Good(s') /\ DumpHeld'
<1> DEFINE lone == [s EXCEPT !.mCart = FALSE]
           freed == CartridgeFree(lone)
           v == [freed EXCEPT !.gCart = FALSE]
<1>w. s' = v /\ saving = NoFile /\ saving' = NoFile
  BY DEF EjectCart
<1>1. /\ Balanced(lone) /\ lone.ptr = s.ptr /\ lone.out = "run" /\ lone.mCart = FALSE
  BY DEF Inv, Good, Balanced, Fields
<1> HIDE DEF lone
<1>2. /\ Balanced(freed) /\ freed.ptr = lone.ptr \ OwnBlocks /\ freed.mbc = NoMbc
      /\ freed.out = lone.out /\ freed.mCart = FALSE
  BY <1>1, FreedCartridge DEF Untouched
<1> HIDE DEF freed
<1>3. /\ Balanced(v) /\ v.ptr = freed.ptr /\ v.mbc = NoMbc /\ v.out = freed.out
      /\ v.mCart = FALSE /\ v.gCart = FALSE
  BY <1>2 DEF Balanced, Fields
<1> HIDE DEF v
<1>4. v.ptr = {}
  BY <1>w, <1>1, <1>2, <1>3 DEF Inv, Good, DumpHeld
<1>5. Good(v)
  BY <1>1, <1>2, <1>3, <1>4 DEF Good, ControllerOK
<1> QED
  BY <1>w, <1>4, <1>5 DEF DumpHeld

\* The RAM that is saved is not mistaken for a file that does not exist.
LEMMA RamIsAFile ==
  ASSUME Inv, HasSave
  PROVE  s.mbc.ram # NoFile
<1>1. s.mbc.ram_banks \in Nat /\ DOMAIN s.mbc.ram = Cells(s.mbc.ram_banks)
  BY DEF HasSave, Inv, Good, ControllerOK, WellFormed
<1>2. \A bank \in 0..(s.mbc.ram_banks - 1), a \in RamAddrs :
        bank * RamBankSize + (a - RamStart) # -1
  <2> TAKE bank \in 0..(s.mbc.ram_banks - 1), a \in RamAddrs
  <2>1. bank \in Nat /\ a \in Nat /\ a >= 40960
    BY <1>1, CartRamAssumption DEF InRam, RamStart
  <2> QED
    BY <2>1 DEF RamStart, RamBankSize
<1>3. -1 \notin DOMAIN s.mbc.ram
  BY <1>1, <1>2 DEF Cells
<1> QED
  BY <1>3 DEF NoFile

LEMMA CopyTaken ==
  ASSUME Inv, saving = NoFile
  PROVE  LET t == Take(s, {"dump"})
         IN  /\ Balanced(t) /\ t.ptr = s.ptr \cup {"dump"} /\ t.mbc = s.mbc /\ t.out = s.out
             /\ t.file = s.file /\ Untouched(s, t)
<1>1. {"dump"} \in SUBSET Blocks /\ {"dump"} \cap s.ptr = {}
  BY DEF Inv, Good, DumpHeld, Blocks, TempBlocks
<1> QED
  BY <1>1, TakeBalanced DEF Inv, Good

LEMMA SaveBeginGood ==
  ASSUME Inv, NEW fail, SaveBegin(fail)
  PROVE  Good(s') /\ DumpHeld'
<1> DEFINE t == Take(s, {"dump"})
           v == Free(t, {"dump"})
<1>1. saving = NoFile /\ s.gCart /\ "dump" \notin s.ptr
  BY DEF SaveBegin, HasSave, Inv, DumpHeld
<1>2. /\ Balanced(t) /\ t.ptr = s.ptr \cup {"dump"} /\ t.mbc = s.mbc /\ t.out = s.out
      /\ Untouched(s, t)
  BY <1>1, CopyTaken
<1>3. CASE s' = t /\ saving' = s.mbc.ram
  <2> HIDE DEF t
  <2>1. Good(t)
    BY <1>1, <1>2 DEF Good, Inv, Untouched
  <2>2. s.mbc.ram # NoFile
    BY RamIsAFile DEF SaveBegin
  <2> QED
    BY <1>2, <1>3, <2>1, <2>2 DEF DumpHeld
<1>4. CASE s' = v /\ saving' = saving
  <2> HIDE DEF t
  <2>1. /\ Balanced(v) /\ v.ptr = t.ptr \ {"dump"} /\ v.mbc = t.mbc /\ v.out = t.out
        /\ Untouched(t, v)
    BY <1>2, FreeBalanced
  <2> HIDE DEF v
  <2>2. v.ptr = s.ptr
    BY <1>1, <1>2, <2>1
  <2>3. Good(v)
    BY <1>2, <2>1, <2>2 DEF Good, Inv, Untouched
  <2> QED
    BY <1>1, <1>4, <2>2, <2>3 DEF DumpHeld
<1>5. CASE s' = PowerUp /\ saving' = saving
  BY <1>1, <1>5, PowerUpGood DEF DumpHeld, PowerUp
<1> QED
  BY <1>3, <1>4, <1>5 DEF SaveBegin, DumpRam

LEMMA SaveEndGood ==
  ASSUME Inv, NEW ok, SaveEnd(ok)
  PROVE  Good(s') /\ DumpHeld'
<1> DEFINE v == Free(s, {"dump"})
<1>1. s' = v /\ saving' = NoFile
  BY DEF SaveEnd
<1>2. /\ Balanced(v) /\ v.ptr = s.ptr \ {"dump"} /\ v.mbc = s.mbc /\ v.out = s.out
      /\ Untouched(s, v)
  BY FreeBalanced DEF Inv, Good
<1> HIDE DEF v
<1>3. Good(v)
  BY <1>2 DEF Good, Inv, Untouched, Parts
<1> QED
  BY <1>1, <1>2, <1>3 DEF DumpHeld

LEMMA InvStep == Inv /\ [Next]_vars => Inv'
<1> SUFFICES ASSUME Inv, [Next]_vars PROVE Good(s') /\ DumpHeld'
  BY DEF Inv, Good
<1>0. Good(s) /\ DumpHeld
  BY GoodIsInv
<1>1. ASSUME NEW f \in Files, NEW fail \in FailuresOf[f], LoadRom(f, fail)
      PROVE  Good(s') /\ DumpHeld'
  BY <1>1, LoadRomGood
<1>2. CASE EjectCart
  BY <1>2, EjectCartGood
<1>3. ASSUME NEW fail \in SaveFailures, SaveBegin(fail)
      PROVE  Good(s') /\ DumpHeld'
  BY <1>3, SaveBeginGood
<1>4. CASE SaveWrite
  BY <1>0, <1>4 DEF SaveWrite, DumpHeld
<1>5. ASSUME NEW ok \in BOOLEAN, SaveEnd(ok)
      PROVE  Good(s') /\ DumpHeld'
  BY <1>5, SaveEndGood
<1>6. ASSUME NEW bus \in Buses, NEW addr \in Addrs, NEW v \in ValuesAt[addr],
             BusWrite(bus, addr, v)
      PROVE  Good(s') /\ DumpHeld'
  <2>1. v \in 0..255
    BY MemoryAssumption
  <2>2. s' \in MmuWrite(s, bus, addr, v) /\ saving' = saving
    BY <1>6 DEF BusWrite
  <2>3. Good(s') /\ s'.ptr = s.ptr
    <3>1. \A u \in MmuWrite(s, bus, addr, v) : Good(u) /\ u.ptr = s.ptr
      BY <1>0, <2>1, MmuWriteGood
    <3> QED
      BY <2>2, <3>1
  <2> QED
    BY <1>0, <2>2, <2>3 DEF DumpHeld
<1>7. ASSUME NEW addr \in Addrs, NEW v \in ValuesAt[addr], ControllerWrite(addr, v)
      PROVE  Good(s') /\ DumpHeld'
  <2>1. v \in 0..255
    BY MemoryAssumption
  <2>2. s.mbc # NoMbc /\ s.gCart
    BY <1>0, <1>7 DEF ControllerWrite, Good
  <2>3. Good(s') /\ s'.ptr = s.ptr
    BY <1>0, <1>7, <2>1, <2>2, SetMbcGood DEF ControllerWrite
  <2> QED
    BY <1>0, <1>7, <2>3 DEF ControllerWrite, DumpHeld
<1>8. CASE Restart
  BY <1>8, PowerUpGood DEF Restart, DumpHeld, PowerUp
<1>9. CASE UNCHANGED vars
  BY <1>0, <1>9 DEF vars, DumpHeld
<1> QED
  BY <1>1, <1>2, <1>3, <1>4, <1>5, <1>6, <1>7, <1>8, <1>9 DEF Next

LEMMA InitInv == Init => Inv
BY PowerUpGood DEF Init, Inv, DumpHeld, PowerUp

\* Inv holds in every reachable state: the strengthening of NothingLeaks by the
\* well-formedness of the controller and of what is allocated.
THEOREM Invariance == Spec => []Inv
<1> QED
  BY InitInv, InvStep, PTL DEF Spec

\* Whatever call fails while a cartridge is made or saved, nothing is leaked and nothing is
\* freed twice.
THEOREM NoLeak == Spec => []NothingLeaks
<1>1. Inv => NothingLeaks
  <2> SUFFICES ASSUME Inv PROVE NothingLeaks
    OBVIOUS
  <2>1. \A b \in OwnBlocks : s.heap[b] = IF b \in s.ptr THEN 1 ELSE 0
    BY DEF Inv, Good, Balanced, Blocks
  <2>2. \A b \in TempBlocks : s.heap[b] = IF b = "dump" /\ saving # NoFile THEN 1 ELSE 0
    <3> TAKE b \in TempBlocks
    <3>1. b # "dump" => b \notin s.ptr
      BY DEF Inv, Good, OwnBlocks, TempBlocks
    <3>2. b = "dump" => (b \in s.ptr <=> saving # NoFile)
      BY DEF Inv, DumpHeld
    <3>3. s.heap[b] = IF b \in s.ptr THEN 1 ELSE 0
      BY DEF Inv, Good, Balanced, Blocks
    <3> QED
      BY <3>1, <3>2, <3>3
  <2>3. s.gCart = ("cart" \in s.ptr) /\ s.gCart = s.mCart
    BY DEF Inv, Good, Parts
  <2>4. s.gCart => s.mbc.iface \in {"dld", "mbc1"} /\ Parts \subseteq s.ptr
    BY DEF Inv, Good, ControllerOK
  <2> QED
    BY <2>1, <2>2, <2>3, <2>4 DEF NothingLeaks, Parts, Inv, Good
<1> QED
  BY <1>1, Invariance, PTL

\* Whatever is written to the bank registers, no address of the cartridge is translated
\* to a place outside the memory that was allocated for it.
THEOREM NeverOutside == Spec => []InBounds
<1>1. Inv => InBounds
  <2> SUFFICES ASSUME Inv, s.gCart, s.mbc.iface = "mbc1"
               PROVE  InBounds
    BY DEF InBounds
  <2>1. WellFormed(s.mbc)
    BY DEF Inv, Good, ControllerOK, NoMbc
  <2> QED
    BY <2>1, AddressRange, RomAddrInBounds, RamAddrInBounds DEF InBounds
<1> QED
  BY <1>1, Invariance, PTL

(***************************************************************************)
(* What inserting, ejecting and saving a cartridge do to memories and      *)
(* files.                                                                  *)
(***************************************************************************)
SameOwn(w, v) ==
  /\ v.vram = w.vram /\ v.oam = w.oam /\ v.wram = w.wram /\ v.io = w.io
  /\ v.hram = w.hram /\ v.ie = w.ie /\ v.wild = w.wild

LEMMA LoadRomEffect ==
  ASSUME Inv, NEW f, NEW fail, LoadRom(f, fail)
  PROVE  /\ SameOwn(s, s') /\ ~s.gCart
         /\ s'.gCart => /\ s'.file = f /\ Fits(s'.mbc, RamBanks(HeaderOf[f].ram))
                        /\ Restored(s'.mbc, HeaderOf[f], saves[f])
<1> DEFINE made == CartridgeCreate(f, saves[f], fail)
           held == [made EXCEPT !.mCart = TRUE, !.gCart = TRUE]
           loaded == IF made.out = "err" THEN made
                     ELSE IF made.mCart THEN CartridgeFree(made) ELSE held
           v == [loaded EXCEPT !.out = "run"]
<1>1. s' = v /\ ~s.gCart
  BY DEF LoadRom
<1>2. /\ Balanced(made) /\ Untouched(s, made)
      /\ \/ made.out = "err"
         \/ /\ made.out = "exit" /\ made.file = f
            /\ Fits(made.mbc, RamBanks(HeaderOf[f].ram))
            /\ Restored(made.mbc, HeaderOf[f], saves[f])
  BY <1>1, CartridgeCreateStep
<1> HIDE DEF made
<1>3. made.mCart = FALSE /\ made.gCart = FALSE
  BY <1>1, <1>2 DEF Untouched, Inv, Good
<1>4. CASE made.out = "err"
  <2>1. v = [made EXCEPT !.out = "run"]
    BY <1>4
  <2>2. Untouched(made, v)
    BY <1>2, <2>1, SetOut
  <2> HIDE DEF v
  <2> QED
    BY <1>1, <1>2, <1>3, <2>2 DEF Untouched, SameOwn
<1>5. CASE made.out # "err"
  <2>1. loaded = held
    BY <1>3, <1>5
  <2>2. /\ held.gCart /\ held.mbc = made.mbc /\ held.file = made.file /\ SameOwn(made, held)
        /\ DOMAIN held = Fields
    BY <1>2 DEF Balanced, Fields, SameOwn
  <2> HIDE DEF loaded, held
  <2>3. v.gCart /\ v.mbc = made.mbc /\ v.file = made.file /\ SameOwn(made, v)
    BY <2>1, <2>2 DEF Fields, SameOwn
  <2> HIDE DEF v
  <2> QED
    BY <1>1, <1>2, <1>5, <2>3 DEF Untouched, SameOwn
<1> QED
  BY <1>4, <1>5

LEMMA EjectCartEffect ==
  ASSUME Inv, EjectCart
  PROVE  SameOwn(s, s') /\ ~s'.gCart
<1> DEFINE lone == [s EXCEPT !.mCart = FALSE]
           freed == CartridgeFree(lone)
           v == [freed EXCEPT !.gCart = FALSE]
<1>w. s' = v
  BY DEF EjectCart
<1>1. Balanced(lone) /\ SameOwn(s, lone)
  BY DEF Inv, Good, Balanced, Fields, SameOwn
<1> HIDE DEF lone
<1>2. Balanced(freed) /\ Untouched(lone, freed)
  BY <1>1, FreedCartridge
<1> HIDE DEF freed
<1>3. SameOwn(freed, v) /\ ~v.gCart
  BY <1>2 DEF Balanced, Fields, SameOwn
<1> HIDE DEF v
<1> QED
  BY <1>w, <1>1, <1>2, <1>3 DEF Untouched, SameOwn

SameButBlocks(w, v) == SameOwn(w, v) /\ v.gCart = w.gCart /\ v.mbc = w.mbc /\ v.file = w.file

LEMMA SaveBeginEffect ==
  ASSUME Inv, NEW fail, SaveBegin(fail)
  PROVE  IF fail = "dump" THEN s' = PowerUp ELSE SameButBlocks(s, s')
<1> DEFINE t == Take(s, {"dump"})
           v == Free(t, {"dump"})
<1>1. Balanced(t) /\ t.mbc = s.mbc /\ t.file = s.file /\ Untouched(s, t)
  BY CopyTaken DEF SaveBegin
<1> HIDE DEF t
<1>2. v.mbc = t.mbc /\ v.file = t.file /\ Untouched(t, v)
  BY <1>1, FreeBalanced
<1> HIDE DEF v
<1>3. SameButBlocks(s, t) /\ SameButBlocks(s, v)
  BY <1>1, <1>2 DEF Untouched, SameOwn, SameButBlocks
<1> QED
  BY <1>3 DEF SaveBegin, v, t

LEMMA SaveEndEffect ==
  ASSUME Inv, NEW ok, SaveEnd(ok)
  PROVE  SameButBlocks(s, s')
<1> DEFINE v == Free(s, {"dump"})
<1>1. s' = v
  BY DEF SaveEnd
<1>2. v.mbc = s.mbc /\ v.file = s.file /\ Untouched(s, v)
  BY FreeBalanced DEF Inv, Good
<1> HIDE DEF v
<1> QED
  BY <1>1, <1>2 DEF Untouched, SameOwn, SameButBlocks

(***************************************************************************)
(* Places: different cells are different places.                           *)
(***************************************************************************)
LEMMA WithDomain ==
  ASSUME NEW written, NEW p, NEW byte, NEW q
  PROVE  q \in DOMAIN With(written, p, byte) <=> q = p \/ q \in DOMAIN written
BY DEF With

LEMMA WithValue ==
  ASSUME NEW written, NEW p, NEW byte, NEW q \in DOMAIN With(written, p, byte)
  PROVE  With(written, p, byte)[q] = IF q = p THEN byte ELSE written[q]
BY DEF With

LEMMA WrittenWith ==
  ASSUME NEW written, NEW p, NEW byte, NEW q
  PROVE  Written(With(written, p, byte), q) = IF q = p THEN byte ELSE Written(written, q)
BY DEF With, Written

LEMMA PlacesDiffer ==
  ASSUME NEW a, NEW b, NEW i, NEW c, NEW d
  PROVE  Other(a) # Work(b, i) /\ Other(a) # Cart(c, d) /\ Work(b, i) # Cart(c, d)
BY DEF Other, Work, Cart

LEMMA OtherInjective ==
  ASSUME NEW a, NEW e
  PROVE  Other(a) = Other(e) <=> a = e
BY DEF Other

LEMMA OtherKind == ASSUME NEW a PROVE ~OfCart(Other(a)) /\ ~Behind(Other(a))
BY DEF Other, OfCart, Behind

LEMMA CartKind == ASSUME NEW b, NEW a PROVE OfCart(Cart(b, a)) /\ ~Behind(Cart(b, a))
BY DEF Cart, OfCart, Behind

LEMMA WorkKind ==
  ASSUME NEW b, NEW i
  PROVE  ~OfCart(Work(b, i)) /\ (b - 1 # 7 => ~Behind(Work(b, i)))
BY DEF Work, OfCart, Behind

LEMMA WorkInjective ==
  ASSUME NEW b \in Nat, NEW i \in Nat, NEW c \in Nat, NEW j \in Nat
  PROVE  Work(b, i) = Work(c, j) <=> b = c /\ i = j
BY DEF Work

LEMMA CartInjective ==
  ASSUME NEW b \in Nat, NEW c \in Nat, NEW a \in RamAddrs, NEW d \in RamAddrs
  PROVE  /\ CartIndex(b, a) = CartIndex(c, d) <=> b = c /\ a = d
         /\ Cart(b, a) = Cart(c, d) <=> b = c /\ a = d
<1>1. a \in Nat /\ a >= 40960 /\ a <= 49151 /\ d \in Nat /\ d >= 40960 /\ d <= 49151
  BY CartRamAssumption DEF InRam, RamStart, RamEnd
<1>2. CartIndex(b, a) = b * 8192 + (a - 40960) /\ CartIndex(c, d) = c * 8192 + (d - 40960)
  BY DEF CartIndex, RamBankSize, RamStart
<1>3. CartIndex(b, a) = CartIndex(c, d) <=> b = c /\ a = d
  BY <1>1, <1>2
<1>4. Cart(b, a) = Cart(c, d) <=> b = c /\ a = d
  BY DEF Cart
<1> QED
  BY <1>3, <1>4

(***************************************************************************)
(* A write, region by region of the memory map.                            *)
(***************************************************************************)
LEMMA Regions ==
  ASSUME NEW addr \in Addrs
  PROVE  \/ InRom(addr) \/ InVram(addr) \/ InRam(addr) \/ InWram(addr) \/ InEcho(addr)
         \/ InOam(addr) \/ InProhibited(addr) \/ InIo(addr) \/ InHram(addr) \/ addr = AddrIe
<1>1. addr \in Nat /\ addr <= 65535
  BY AddressRange
<1> QED
  BY <1>1 DEF InRom, InVram, InRam, RamStart, RamEnd, InWram, InEcho, InOam, InProhibited,
              InIo, InHram, AddrIe

LEMMA WriteOutcome ==
  ASSUME NEW w, NEW bus, NEW addr \in Addrs, NEW value, NEW v \in MmuWrite(w, bus, addr, value)
  PROVE  \/ (InRom(addr) \/ InProhibited(addr)) /\ v = w
         \/ InVram(addr) /\ v = VramWrite(w, bus, addr, value)
         \/ InRam(addr) /\ v = CartWrite(w, addr, value)
         \/ InWram(addr) /\ v \in WramWrite(w, addr, value)
         \/ InEcho(addr) /\ v \in WramWrite(w, EchoTarget(addr), value)
         \/ InOam(addr) /\ v = OamWrite(w, bus, addr, value)
         \/ InIo(addr) /\ v = IoWrite(w, addr, value)
         \/ InHram(addr) /\ v = HramWrite(w, addr, value)
         \/ addr = AddrIe /\ v = IeWrite(w, value)
BY Regions, SMTT(30) DEF MmuWrite, EchoWrite

\* A write changes no more of the cartridge than its controller.
SameCart(w, v) == v.gCart = w.gCart /\ v.mCart = w.mCart /\ v.file = w.file

LEMMA BehindWramCart ==
  ASSUME NEW w, DOMAIN w = Fields, NEW value, NEW v \in BehindWram(w, value)
  PROVE  SameCart(w, v) /\ v.mbc = w.mbc /\ v.wild = w.wild
<1>1. \/ v = w
      \/ \E i \in DOMAIN w.vram : v = [w EXCEPT !.vram[i] = Byte(value)]
      \/ \E i \in DOMAIN w.oam : v = [w EXCEPT !.oam[i] = Byte(value)]
      \/ \E i \in DOMAIN w.io : v = [w EXCEPT !.io[i] = Byte(value)]
      \/ \E i \in DOMAIN w.hram : v = [w EXCEPT !.hram[i] = Byte(value)]
      \/ v = [w EXCEPT !.ie = Byte(value)]
  BY DEF BehindWram
<1> QED
  BY <1>1 DEF Fields, SameCart

\* What a write to the work RAM does: it stays inside its bank, or it is a wild one.
LEMMA WramOutcome ==
  ASSUME NEW w, DOMAIN w = Fields, NEW addr, NEW value, NEW v \in WramWrite(w, addr, value)
  PROVE  /\ SameCart(w, v) /\ v.mbc = w.mbc
         /\ IF WramBank(w, addr) < WramBankCount
            THEN v = [w EXCEPT !.wram[WramBank(w, addr)][addr % WramBankSize] = Byte(value)]
            ELSE v.wild
<1> DEFINE bank == WramBank(w, addr)
           wild == [w EXCEPT !.wild = TRUE]
<1>1. CASE bank < WramBankCount
  <2>1. v = [w EXCEPT !.wram[bank][addr % WramBankSize] = Byte(value)]
    BY <1>1 DEF WramWrite
  <2> HIDE DEF bank
  <2>2. SameCart(w, v) /\ v.mbc = w.mbc
    BY <2>1 DEF Fields, SameCart
  <2> QED
    BY <1>1, <2>1, <2>2 DEF bank
<1>2. CASE ~(bank < WramBankCount)
  <2>1. v \in BehindWram(wild, value)
    BY <1>2 DEF WramWrite
  <2>2. DOMAIN wild = Fields /\ SameCart(w, wild) /\ wild.mbc = w.mbc /\ wild.wild
    BY DEF Fields, SameCart
  <2> HIDE DEF wild
  <2>3. SameCart(wild, v) /\ v.mbc = wild.mbc /\ v.wild = wild.wild
    BY <2>1, <2>2, BehindWramCart
  <2> QED
    BY <1>2, <2>2, <2>3 DEF SameCart
<1> QED
  BY <1>1, <1>2

LEMMA OwnOutcome ==
  ASSUME NEW w, DOMAIN w = Fields, NEW bus, NEW addr, NEW value,
         NEW v \in {VramWrite(w, bus, addr, value), OamWrite(w, bus, addr, value),
                    IoWrite(w, addr, value), HramWrite(w, addr, value), IeWrite(w, value)}
  PROVE  SameCart(w, v) /\ v.mbc = w.mbc /\ v.wram = w.wram /\ v.wild = w.wild
BY DEF Fields, VramWrite, OamWrite, IoWrite, HramWrite, IeWrite, SameCart

LEMMA MbcWriteFits ==
  ASSUME NEW c, ControllerOK(c), c # NoMbc, NEW addr, NEW value, NEW n, Fits(c, n)
  PROVE  Fits(MbcWrite(c, addr, value), n)
<1>1. DOMAIN c = ContextFields /\ c # NoMbc
  BY DEF ControllerOK, WellFormed
<1>2. MbcWrite(c, addr, value).hasRam = c.hasRam
      /\ MbcWrite(c, addr, value).ram_banks = c.ram_banks
  BY <1>1 DEF MbcWrite, DldWrite, Mbc1Write, SetRegister, ContextFields
<1> QED
  BY <1>1, <1>2 DEF Fits

LEMMA WriteKeepsCart ==
  ASSUME NEW w, Good(w), NEW bus, NEW addr \in Addrs, NEW value,
         NEW v \in MmuWrite(w, bus, addr, value), NEW n, w.gCart => Fits(w.mbc, n)
  PROVE  SameCart(w, v) /\ (v.gCart => Fits(v.mbc, n))
<1>1. DOMAIN w = Fields /\ w.mCart = w.gCart /\ (w.gCart => ControllerOK(w.mbc) /\ w.mbc # NoMbc)
  BY DEF Good, Balanced
<1>2. CASE v = CartWrite(w, addr, value)
  <2>1. CASE w.mCart
    <3> DEFINE c == MbcWrite(w.mbc, addr, value)
    <3>1. Fits(c, n)
      BY <1>1, <2>1, MbcWriteFits
    <3>2. v = [w EXCEPT !.mbc = c]
      BY <1>2, <2>1 DEF CartWrite
    <3> HIDE DEF c
    <3> QED
      BY <1>1, <3>1, <3>2 DEF Fields, SameCart
  <2>2. CASE ~w.mCart
    BY <1>1, <1>2, <2>2 DEF CartWrite, SameCart
  <2> QED
    BY <2>1, <2>2
<1>3. CASE v = w
  BY <1>3 DEF SameCart
<1>4. CASE v \in {VramWrite(w, bus, addr, value), OamWrite(w, bus, addr, value),
                  IoWrite(w, addr, value), HramWrite(w, addr, value), IeWrite(w, value)}
  BY <1>1, <1>4, OwnOutcome DEF SameCart
<1>5. CASE v \in WramWrite(w, addr, value) \cup WramWrite(w, EchoTarget(addr), value)
  BY <1>1, <1>5, WramOutcome DEF SameCart
<1> QED
  BY <1>2, <1>3, <1>4, <1>5, WriteOutcome

(***************************************************************************)
(* What was saved is restored.                                             *)
(***************************************************************************)
LEMMA MCStep == [MCNext]_mcVars => [Next]_vars
BY DEF MCNext, Next, mcVars, vars

LEMMA InitFiles == MCInit => FileInv
BY DEF MCInit, Init, FileInv, PowerUp, NeverSaved

CartFits == s.gCart => s.file \in Files /\ Fits(s.mbc, RamBanks(HeaderOf[s.file].ram))

LEMMA KeptFiles ==
  ASSUME FileInv, CartFits', UNCHANGED <<saves, kept>>,
         saving' = NoFile \/ (saving' = saving /\ s'.file = s.file)
  PROVE  FileInv'
BY DEF FileInv, CartFits

LEMMA SameFits ==
  ASSUME FileInv, SameButBlocks(s, s')
  PROVE  CartFits'
BY DEF FileInv, SameButBlocks, CartFits

\* The file of the cartridge that is saved.
LEMMA SavedFile ==
  ASSUME Inv, FileInv, saving # NoFile
  PROVE  /\ s.file \in Files /\ saving = kept[s.file].ram /\ ~kept[s.file].done
         /\ Recorded(saves[s.file], kept[s.file], RamBanks(HeaderOf[s.file].ram))
<1>1. s.gCart
  BY DEF Inv, Good, DumpHeld
<1> QED
  BY <1>1 DEF FileInv

LEMMA SaveBeginFiles ==
  ASSUME Inv, FileInv, NEW fail \in SaveFailures, SaveBegin(fail),
         kept' = IF fail = "nothing" THEN Begun ELSE kept
  PROVE  FileInv'
<1>1. ~PowerUp.gCart
  BY DEF PowerUp
<1>2. CASE fail # "nothing"
  <2>1. UNCHANGED <<saves, kept>> /\ saving' = NoFile
    BY <1>2 DEF SaveBegin
  <2>2. CartFits'
    BY <1>1, SaveBeginEffect, SameFits DEF CartFits
  <2> QED
    BY <2>1, <2>2, KeptFiles
<1>3. CASE fail = "nothing"
  <2> DEFINE f == s.file
             n == RamBanks(HeaderOf[f].ram)
             save == [ram |-> s.mbc.ram, done |-> FALSE]
  <2>1. f \in Files /\ DOMAIN s.mbc.ram = Cells(n)
    <3>1. s.gCart /\ s.mbc.hasRam /\ s.mbc # NoMbc /\ WellFormed(s.mbc)
      BY DEF SaveBegin, HasSave, Inv, Good, ControllerOK
    <3> QED
      BY <3>1 DEF FileInv, Fits, WellFormed
  <2>2. SameButBlocks(s, s')
    BY <1>3, SaveBeginEffect
  <2>3. CartFits' /\ s'.file = f
    BY <2>2, SameFits DEF SameButBlocks
  <2>4. /\ kept' = [kept EXCEPT ![f] = save]
        /\ saves' = [saves EXCEPT ![f] = EmptyFile]
        /\ saving' = s.mbc.ram
    BY <1>3 DEF SaveBegin, Begun, DumpRam
  <2>5. Recorded(EmptyFile, save, n)
    BY <2>1 DEF Recorded, FirstPart, EmptyFile
  <2> HIDE DEF f, n
  <2>6. \A g \in Files :
          kept'[g].ram = NoFile \/ Recorded(saves'[g], kept'[g], RamBanks(HeaderOf[g].ram))
    <3> TAKE g \in Files
    <3>1. CASE g # f
      BY <2>4, <3>1 DEF FileInv
    <3>2. CASE g = f
      <4>1. kept'[g] = save /\ saves'[g] = EmptyFile
        BY <2>1, <2>4, <3>2 DEF FileInv
      <4> QED
        BY <2>5, <3>2, <4>1 DEF n
    <3> QED
      BY <3>1, <3>2
  <2>7. kept'[f] = save
    BY <2>1, <2>4 DEF FileInv
  <2>8. DOMAIN saves' = Files /\ DOMAIN kept' = Files
    BY <2>4 DEF FileInv
  <2> QED
    BY <2>3, <2>4, <2>6, <2>7, <2>8 DEF FileInv, CartFits
<1> QED
  BY <1>2, <1>3

LEMMA SaveWriteFiles ==
  ASSUME Inv, FileInv, SaveWrite, UNCHANGED kept
  PROVE  FileInv'
<1> DEFINE f == s.file
           n == RamBanks(HeaderOf[f].ram)
<1>1. saving # NoFile /\ UNCHANGED <<s, saving>>
  BY DEF SaveWrite
<1>2. /\ f \in Files /\ saving = kept[f].ram /\ ~kept[f].done
      /\ Recorded(saves[f], kept[f], n)
  BY <1>1, SavedFile
<1> DEFINE Up(length) == {i \in DOMAIN saving : i < length}
<1>3. PICK length \in TornLengths \cup {s.mbc.ram_size} :
        saves' = [saves EXCEPT ![f] = [i \in Up(length) |-> saving[i]]]
  BY DEF SaveWrite
<1> DEFINE file == [i \in Up(length) |-> saving[i]]
<1>4. length \in Int
  <2>1. s.gCart /\ s.mbc # NoMbc /\ WellFormed(s.mbc)
    BY <1>1 DEF Inv, Good, DumpHeld, ControllerOK
  <2> QED
    BY <2>1, MemoryAssumption DEF WellFormed
<1>5. \A i \in DOMAIN saving : i \in Int
  <2>1. DOMAIN saving = Cells(n) /\ n \in Nat
    BY <1>2, BanksAreNumbers DEF Recorded
  <2> QED
    BY <2>1, CartRamAssumption DEF Cells, RamStart, RamBankSize
<1>6. FirstPart(file, saving)
  <2>1. \A i \in Up(length) : i \in DOMAIN saving /\ file[i] = saving[i]
    OBVIOUS
  <2>2. \A i, j \in DOMAIN saving : i <= j /\ j < length => i < length
    BY <1>4, <1>5
  <2> QED
    BY <2>1, <2>2 DEF FirstPart
<1>7. Recorded(file, kept[f], n)
  BY <1>2, <1>6 DEF Recorded
<1> HIDE DEF file, f, n
<1>8. \A g \in Files :
        kept[g].ram = NoFile \/ Recorded(saves'[g], kept[g], RamBanks(HeaderOf[g].ram))
  <2> TAKE g \in Files
  <2>1. CASE g # f
    BY <1>3, <2>1 DEF FileInv, file
  <2>2. CASE g = f
    <3>1. saves'[g] = file
      BY <1>2, <1>3, <2>2 DEF FileInv, file
    <3> QED
      BY <1>7, <2>2, <3>1 DEF n
  <2> QED
    BY <2>1, <2>2
<1>9. DOMAIN saves' = Files
  BY <1>3 DEF FileInv
<1> QED
  BY <1>1, <1>8, <1>9 DEF FileInv

LEMMA SaveEndFiles ==
  ASSUME Inv, FileInv, NEW ok \in BOOLEAN, SaveEnd(ok), kept' = (IF ok THEN Done ELSE kept)
  PROVE  FileInv'
<1>1. CartFits' /\ saving' = NoFile /\ UNCHANGED saves
  BY SaveEndEffect, SameFits DEF SaveEnd
<1>2. CASE ~ok
  BY <1>1, <1>2, KeptFiles
<1>3. CASE ok
  <2> DEFINE f == s.file
             n == RamBanks(HeaderOf[f].ram)
             save == [ram |-> kept[f].ram, done |-> TRUE]
  <2>1. saving # NoFile /\ saves[f] = saving
    BY <1>3 DEF SaveEnd
  <2>2. f \in Files /\ saving = kept[f].ram /\ Recorded(saves[f], kept[f], n)
    BY <2>1, SavedFile
  <2>3. kept' = [kept EXCEPT ![f] = save]
    BY <1>3 DEF Done
  <2>4. Recorded(saves[f], save, n)
    BY <2>1, <2>2 DEF Recorded
  <2> HIDE DEF f, n, save
  <2>5. \A g \in Files :
          kept'[g].ram = NoFile \/ Recorded(saves[g], kept'[g], RamBanks(HeaderOf[g].ram))
    <3> TAKE g \in Files
    <3>1. CASE g # f
      BY <2>3, <3>1 DEF FileInv
    <3>2. CASE g = f
      <4>1. kept'[g] = save
        BY <2>2, <2>3, <3>2 DEF FileInv
      <4> QED
        BY <2>4, <3>2, <4>1 DEF n
    <3> QED
      BY <3>1, <3>2
  <2>6. DOMAIN kept' = Files
    BY <2>3 DEF FileInv
  <2> QED
    BY <1>1, <2>5, <2>6 DEF FileInv, CartFits
<1> QED
  BY <1>2, <1>3

LEMMA StepKeepsFiles == Inv /\ FileInv /\ [MCNext]_mcVars => FileInv'
<1> SUFFICES ASSUME Inv, FileInv, [MCNext]_mcVars PROVE FileInv'
  OBVIOUS
<1>0. Good(s)
  BY GoodIsInv
<1>1. ASSUME NEW f \in Files, NEW fail \in FailuresOf[f], LoadRom(f, fail),
             UNCHANGED <<shadow, kept>>
      PROVE  FileInv'
  <2>1. CartFits'
    BY <1>1, LoadRomEffect DEF CartFits
  <2>2. UNCHANGED <<saves, kept>> /\ saving' = NoFile
    BY <1>1 DEF LoadRom
  <2> QED
    BY <2>1, <2>2, KeptFiles
<1>2. CASE EjectCart /\ UNCHANGED kept
  <2>1. CartFits'
    BY <1>2, EjectCartEffect DEF CartFits
  <2>2. UNCHANGED <<saves, kept>> /\ saving' = NoFile
    BY <1>2 DEF EjectCart
  <2> QED
    BY <2>1, <2>2, KeptFiles
<1>3. ASSUME NEW fail \in SaveFailures, SaveBegin(fail),
             kept' = IF fail = "nothing" THEN Begun ELSE kept
      PROVE  FileInv'
  BY <1>3, SaveBeginFiles
<1>4. CASE SaveWrite /\ UNCHANGED kept
  BY <1>4, SaveWriteFiles
<1>5. ASSUME NEW ok \in BOOLEAN, SaveEnd(ok), kept' = (IF ok THEN Done ELSE kept)
      PROVE  FileInv'
  BY <1>5, SaveEndFiles
<1>6. ASSUME NEW bus \in Buses, NEW addr \in Addrs, NEW v \in ValuesAt[addr],
             BusWrite(bus, addr, v), UNCHANGED kept
      PROVE  FileInv'
  <2>1. SameCart(s, s') /\ (s'.gCart => Fits(s'.mbc, RamBanks(HeaderOf[s.file].ram)))
    BY <1>0, <1>6, WriteKeepsCart DEF BusWrite, FileInv
  <2>2. CartFits'
    BY <2>1 DEF FileInv, SameCart, CartFits
  <2> QED
    BY <1>6, <2>1, <2>2, KeptFiles DEF BusWrite, SameCart
<1>7. ASSUME NEW addr \in Addrs, NEW v \in ValuesAt[addr], ControllerWrite(addr, v),
             UNCHANGED <<shadow, kept>>
      PROVE  FileInv'
  <2> DEFINE c == MbcWrite(s.mbc, addr, v)
  <2>1. ControllerOK(s.mbc) /\ s.mbc # NoMbc /\ s.gCart /\ DOMAIN s = Fields
    BY <1>7 DEF Inv, Good, ControllerWrite, Balanced
  <2>2. Fits(c, RamBanks(HeaderOf[s.file].ram))
    BY <2>1, MbcWriteFits DEF FileInv
  <2>3. s' = [s EXCEPT !.mbc = c] /\ UNCHANGED <<saves, saving, kept>>
    BY <1>7 DEF ControllerWrite
  <2> HIDE DEF c
  <2>4. s'.gCart = s.gCart /\ s'.file = s.file /\ s'.mbc = c
    BY <2>1, <2>3 DEF Fields
  <2>5. CartFits'
    BY <2>2, <2>4 DEF FileInv, CartFits
  <2> QED
    BY <2>3, <2>4, <2>5, KeptFiles
<1>8. CASE Restart /\ UNCHANGED kept
  BY <1>8, KeptFiles DEF Restart, PowerUp, CartFits
<1>9. CASE UNCHANGED mcVars
  BY <1>9 DEF mcVars, vars, FileInv
<1> QED
  BY <1>1, <1>2, <1>3, <1>4, <1>5, <1>6, <1>7, <1>8, <1>9 DEF MCNext

LEMMA OnlyLoadingInserts ==
  ASSUME Inv, [MCNext]_mcVars, ~s.gCart, s'.gCart
  PROVE  \E f \in Files : \E fail \in FailuresOf[f] : LoadRom(f, fail)
<1>1. CASE EjectCart
  BY <1>1, EjectCartEffect
<1>2. ASSUME NEW fail, SaveBegin(fail)
      PROVE  FALSE
  BY <1>2 DEF SaveBegin, HasSave
<1>3. CASE SaveWrite
  BY <1>3 DEF SaveWrite
<1>4. ASSUME NEW ok, SaveEnd(ok)
      PROVE  FALSE
  BY <1>4, SaveEndEffect DEF SameButBlocks
<1>5. ASSUME NEW bus \in Buses, NEW addr \in Addrs, NEW v \in ValuesAt[addr],
             BusWrite(bus, addr, v)
      PROVE  ~s'.gCart
  <2>1. SameCart(s, s')
    BY <1>5, GoodIsInv, WriteKeepsCart DEF BusWrite
  <2> QED
    BY <2>1 DEF SameCart
<1>6. ASSUME NEW addr \in Addrs, NEW v \in ValuesAt[addr], ControllerWrite(addr, v)
      PROVE  FALSE
  BY <1>6 DEF ControllerWrite
<1>7. CASE Restart
  BY <1>7 DEF Restart, PowerUp
<1>8. CASE UNCHANGED mcVars
  BY <1>8 DEF mcVars, vars
<1> QED
  BY <1>1, <1>2, <1>3, <1>4, <1>5, <1>6, <1>7, <1>8 DEF MCNext

\* What SaveRestores says of a cartridge whose RAM is "ram".
AsSaved(ram, save) ==
  /\ save.done => \A i \in DOMAIN save.ram : ram[i] = save.ram[i]
  /\ \A i, j \in DOMAIN save.ram : i <= j /\ ram[i] # save.ram[i] => ram[j] = Junk

LEMMA LoadingRestores ==
  ASSUME Inv, FileInv, Good(s'), NEW f \in Files, NEW fail, LoadRom(f, fail),
         s'.gCart, s'.mbc.hasRam, ContainsBattery(HeaderOf[s'.file].type),
         kept[s'.file].ram # NoFile
  PROVE  AsSaved(s'.mbc.ram, kept[s'.file])
<1> DEFINE ram == s'.mbc.ram
           save == kept[f]
           file == saves[f]
           n == RamBanks(HeaderOf[f].ram)
<1>1. /\ s'.file = f /\ Fits(s'.mbc, n)
      /\ Restored(s'.mbc, HeaderOf[f], file)
  BY LoadRomEffect
<1>2. DOMAIN ram = Cells(n)
  BY <1>1 DEF Good, ControllerOK, WellFormed, Fits
<1>3. Recorded(file, save, n)
  BY <1>1 DEF FileInv
<1>4. \A i \in DOMAIN save.ram : ram[i] = IF i \in DOMAIN file THEN file[i] ELSE Junk
  BY <1>1, <1>2, <1>3 DEF Restored, Recorded
<1> HIDE DEF ram, save, file, n
<1>5. AsSaved(ram, save)
  <2>1. save.done => \A i \in DOMAIN save.ram : ram[i] = save.ram[i]
    BY <1>3, <1>4 DEF Recorded
  <2>2. ASSUME NEW i \in DOMAIN save.ram, NEW j \in DOMAIN save.ram, i <= j,
               ram[i] # save.ram[i]
        PROVE  ram[j] = Junk
    <3>1. i \notin DOMAIN file
      BY <1>3, <1>4, <2>2 DEF Recorded, FirstPart
    <3>2. j \notin DOMAIN file
      BY <1>3, <2>2, <3>1 DEF Recorded, FirstPart
    <3> QED
      BY <1>4, <3>2
  <2> QED
    BY <2>1, <2>2 DEF AsSaved
<1> QED
  BY <1>1, <1>5 DEF ram, save

\* The RAM of a cartridge with a battery is, when its ROM is inserted, the one that the last
\* cartridge_save to open its file found: byte for byte once that save was done, and
\* otherwise a first part of it with nothing behind, whatever was written, ejected, crashed
\* or restarted during and after it (cartridge_create and cartridge_save, cartridge.c).
THEOREM RamIsRestored == MCSpec => SaveRestores
<1>1. MCInit => Inv /\ FileInv
  BY InitFiles, InitInv DEF MCInit
<1>2. Inv /\ FileInv /\ [MCNext]_mcVars => Inv' /\ FileInv'
  BY MCStep, InvStep, StepKeepsFiles
<1>3. Inv /\ FileInv /\ [MCNext]_mcVars =>
        [LET ram == s'.mbc.ram
             save == kept[s'.file]
         IN  /\ ~s.gCart /\ s'.gCart /\ s'.mbc.hasRam
             /\ ContainsBattery(HeaderOf[s'.file].type) /\ save.ram # NoFile
             => /\ save.done => \A i \in DOMAIN save.ram : ram[i] = save.ram[i]
                /\ \A i, j \in DOMAIN save.ram :
                     i <= j /\ ram[i] # save.ram[i] => ram[j] = Junk]_mcVars
  <2> SUFFICES ASSUME Inv, FileInv, [MCNext]_mcVars, ~s.gCart, s'.gCart, s'.mbc.hasRam,
                      ContainsBattery(HeaderOf[s'.file].type), kept[s'.file].ram # NoFile
               PROVE  AsSaved(s'.mbc.ram, kept[s'.file])
    BY DEF AsSaved
  <2>1. PICK f \in Files : \E fail \in FailuresOf[f] : LoadRom(f, fail)
    BY OnlyLoadingInserts
  <2>2. PICK fail \in FailuresOf[f] : LoadRom(f, fail)
    BY <2>1
  <2>3. Good(s')
    BY <2>2, LoadRomGood
  <2> QED
    BY <2>2, <2>3, LoadingRestores
<1> QED
  BY <1>1, <1>2, <1>3, PTL DEF MCSpec, SaveRestores

(***************************************************************************)
(* The place of an address is the cell that is read and written there.     *)
(***************************************************************************)
LEMMA PlaceOfOther ==
  ASSUME NEW m, NEW a \in OtherAddrs
  PROVE  Place(m, a) = Other(a) /\ Present(m, a) /\ a \in Nat
<1>1. a \in Nat /\ a \in Addrs
  BY AddressRange DEF OtherAddrs
<1>2. ~InRom(a) /\ ~InRam(a) /\ ~InWram(a) /\ ~InEcho(a) /\ ~InProhibited(a)
  BY <1>1 DEF OtherAddrs, InRom, InRam, RamStart, RamEnd, InWram, InEcho, InProhibited, InVram,
              InOam, InIo, InHram, AddrIe
<1> QED
  BY <1>1, <1>2 DEF Place, Present, Other

\* The address in the work RAM that an address of the work RAM or its echo stands for.
Target(a) == IF InEcho(a) THEN EchoTarget(a) ELSE a

LEMMA TargetInWram ==
  ASSUME NEW a \in Addrs, InWram(a) \/ InEcho(a)
  PROVE  /\ Target(a) \in Nat /\ Target(a) >= 49152 /\ Target(a) <= 57343
         /\ Target(a) % WramBankSize \in WramOffsets
<1>1. a \in Nat
  BY AddressRange
<1>2. Target(a) \in Nat /\ Target(a) >= 49152 /\ Target(a) <= 57343
  BY <1>1 DEF Target, InWram, InEcho, EchoTarget
<1>3. a % WramBankSize \in WramOffsets
  BY DEF WramOffsets
<1>4. Target(a) % WramBankSize = a % WramBankSize
  BY <1>1 DEF Target, InEcho, EchoTarget, WramBankSize
<1> QED
  BY <1>2, <1>3, <1>4

LEMMA OffsetOfTarget ==
  ASSUME NEW t \in Nat, t >= 49152, t <= 57343
  PROVE  IF t < 53248 THEN t = 49152 + (t % 4096) ELSE t = 53248 + (t % 4096)
OBVIOUS

LEMMA BankOfTarget ==
  ASSUME NEW m, Shape(m), NEW t
  PROVE  /\ WramBank(m, t) = IF t < 53248 THEN 0 ELSE (Register(m, RegSvbk) % 8) + 1
         /\ Register(m, RegSvbk) % 8 \in 0..7
<1>1. RegSvbk \in DOMAIN m.io
  BY MemoryAssumption DEF Shape, InIo, RegSvbk
<1>2. Register(m, RegSvbk) \in Nat
  BY <1>1 DEF Shape
<1> QED
  BY <1>2 DEF WramBank

LEMMA PlaceOfWork ==
  ASSUME NEW m, Shape(m), NEW a \in Addrs, InWram(a) \/ InEcho(a)
  PROVE  LET bank == WramBank(m, Target(a))
         IN  /\ Present(m, a) /\ bank \in Nat
             /\ IF bank < WramBankCount
                THEN bank \in WramBanks /\ Place(m, a) = Work(bank, Target(a) % WramBankSize)
                ELSE Place(m, a)[2] = 7 /\ Behind(Place(m, a))
<1> DEFINE t == Target(a)
           bank == WramBank(m, t)
           n == Register(m, RegSvbk) % 8
<1>1. a \in Nat /\ t \in Nat /\ t >= 49152 /\ t <= 57343
  BY AddressRange, TargetInWram
<1>2. Present(m, a) /\ ~InRam(a)
  BY <1>1 DEF Present, InRom, InRam, RamStart, RamEnd, InWram, InEcho, InProhibited
<1>3. bank = (IF t < 53248 THEN 0 ELSE n + 1) /\ n \in 0..7
  BY BankOfTarget
<1>4. Place(m, a) = <<"work", IF t < 53248 THEN -1 ELSE n, t>>
  BY <1>1, <1>2 DEF Place, Target, EchoTarget
<1>5. IF t < 53248 THEN t = 49152 + (t % 4096) ELSE t = 53248 + (t % 4096)
  BY <1>1, OffsetOfTarget
<1> HIDE DEF t, bank, n
<1>6. CASE t < 53248
  <2>1. bank = 0 /\ bank - 1 = -1
    BY <1>3, <1>6
  <2>2. Place(m, a) = Work(bank, t % 4096)
    BY <1>4, <1>5, <1>6, <2>1 DEF Work
  <2> QED
    BY <1>2, <2>1, <2>2 DEF t, bank, WramBankCount, WramBanks, WramBankSize
<1>7. CASE ~(t < 53248)
  <2>1. bank = n + 1 /\ bank # 0 /\ bank - 1 = n /\ bank \in 1..8
    BY <1>3, <1>7
  <2>2. Place(m, a) = Work(bank, t % 4096)
    BY <1>4, <1>5, <1>7, <2>1 DEF Work
  <2>3. bank < 8 => bank \in 0..7
    BY <2>1
  <2>4. ~(bank < 8) => n = 7
    BY <2>1
  <2>5. Place(m, a)[2] = n /\ (n = 7 => Behind(Place(m, a)))
    BY <1>4, <1>7 DEF Behind
  <2> QED
    BY <1>2, <2>1, <2>2, <2>3, <2>4, <2>5 DEF t, bank, WramBankCount, WramBanks, WramBankSize
<1> QED
  BY <1>6, <1>7

LEMMA ZeroRemainder ==
  ASSUME NEW n \in Nat \ {0}
  PROVE  0 % n = 0
OBVIOUS

\* The bank of the cartridge's RAM that an address reaches.
Bank(m) ==
  IF m.mbc.iface = "mbc1" /\ m.mbc.banking_mode = 1
  THEN m.mbc.ram_bank_number % m.mbc.ram_banks ELSE 0

LEMMA BankExists ==
  ASSUME NEW m, WellFormed(m.mbc)
  PROVE  Bank(m) \in 0..(m.mbc.ram_banks - 1)
<1> DEFINE n == m.mbc.ram_banks
           i == m.mbc.ram_bank_number
<1>1. n \in Nat \ {0} /\ i \in Nat
  BY DEF WellFormed
<1>2. i % n \in 0..(n - 1) /\ 0 \in 0..(n - 1)
  <2> HIDE DEF n, i
  <2> QED
    BY <1>1, RemainderInRange
<1> QED
  BY <1>2 DEF Bank

LEMMA PlaceOfCart ==
  ASSUME NEW m, Good(m), NEW a \in Addrs, InRam(a), Present(m, a)
  PROVE  /\ Place(m, a) = Cart(Bank(m), a) /\ a \in RamAddrs
         /\ m.gCart /\ m.mCart /\ m.mbc.hasRam /\ WellFormed(m.mbc)
         /\ MbcRead(m.mbc, a) = m.mbc.ram[CartIndex(Bank(m), a)]
         /\ \A value : MbcWrite(m.mbc, a, value)
                         = [m.mbc EXCEPT !.ram[CartIndex(Bank(m), a)] = Byte(value)]
<1> DEFINE c == m.mbc
<1>1. m.gCart /\ m.mCart /\ c.hasRam /\ WellFormed(c) /\ c.iface \in {"dld", "mbc1"}
      /\ (c.iface = "mbc1" => RamEnabled(c))
  BY DEF Present, Good, ControllerOK
<1>2. a \in RamAddrs /\ a \in Nat /\ ~InRom(a)
  BY AddrsAssumption, AddressRange DEF InRam, InRom, RamStart, RamEnd
<1>3. ~InWram(a) /\ ~InEcho(a)
  BY <1>2 DEF InRam, InWram, InEcho, RamStart, RamEnd
<1>4. Place(m, a) = Cart(Bank(m), a)
  <2>1. Place(m, a) = <<"cart", Bank(m), a>>
    BY <1>3 DEF Place, Bank
  <2> QED
    BY <2>1 DEF Cart
<1>5. CASE c.iface = "dld"
  <2>1. Bank(m) = 0 /\ CartIndex(Bank(m), a) = a - RamStart
    BY <1>2, <1>5 DEF Bank, CartIndex, RamBankSize, RamStart
  <2> QED
    BY <1>1, <1>2, <1>4, <1>5, <2>1 DEF MbcRead, MbcWrite, DldRead, DldWrite
<1>6. CASE c.iface = "mbc1"
  <2>1. CalcRamAddr(c, a) = CartIndex(Bank(m), a)
    <3>1. c.banking_mode \in {0, 1} /\ c.ram_banks \in Nat \ {0}
      BY <1>1 DEF WellFormed
    <3> QED
      BY <1>6, <3>1, ZeroRemainder DEF CalcRamAddr, CartIndex, Bank
  <2> QED
    BY <1>1, <1>2, <1>4, <1>6, <2>1 DEF MbcRead, MbcWrite, Mbc1Read, Mbc1Write
<1> QED
  BY <1>1, <1>5, <1>6

LEMMA AbsentCart ==
  ASSUME NEW m, Good(m), NEW a \in Addrs, InRam(a), ~Present(m, a), NEW value
  PROVE  LET v == CartWrite(m, a, value)
         IN  SameOwn(m, v) /\ v.gCart = m.gCart /\ v.mbc = m.mbc
<1>1. ~InRom(a) /\ ~InProhibited(a)
  BY AddressRange DEF InRam, InRom, InProhibited, RamStart, RamEnd
<1>2. CASE ~m.mCart
  BY <1>2 DEF CartWrite, SameOwn
<1>3. CASE m.mCart
  <2>1. m.gCart /\ m.mbc.iface \in {"dld", "mbc1"} /\ DOMAIN m = Fields
    BY <1>3 DEF Good, ControllerOK, Balanced
  <2>2. ~(m.mbc.hasRam /\ (m.mbc.iface = "mbc1" => RamEnabled(m.mbc)))
    BY <1>1, <2>1 DEF Present
  <2>3. MbcWrite(m.mbc, a, value) = m.mbc
    BY <1>1, <2>1, <2>2 DEF MbcWrite, DldWrite, Mbc1Write
  <2>4. CartWrite(m, a, value) = [m EXCEPT !.mbc = m.mbc]
    BY <1>3, <2>3 DEF CartWrite
  <2> QED
    BY <2>1, <2>4 DEF Fields, SameOwn
<1> QED
  BY <1>2, <1>3

(***************************************************************************)
(* What is remembered stays what the cells hold.                           *)
(***************************************************************************)
LEMMA SameOwnHolds ==
  ASSUME NEW w, NEW v, NEW written, SameOwn(w, v), Shape(w), OwnHold(w, written)
  PROVE  Shape(v) /\ OwnHold(v, written)
<1>1. \A a : OtherCell(v, a) = OtherCell(w, a)
  BY DEF SameOwn, OtherCell
<1>2. Shape(v)
  BY DEF SameOwn, Shape, Register
<1> QED
  BY <1>1, <1>2 DEF SameOwn, OwnHold

LEMMA OwnHoldOther ==
  ASSUME NEW w, NEW v, NEW written, OwnHold(w, written), v.wram = w.wram,
         NEW a \in OtherAddrs, NEW byte,
         \A e \in OtherAddrs : OtherCell(v, e) = IF e = a THEN byte ELSE OtherCell(w, e)
  PROVE  OwnHold(v, With(written, Other(a), byte))
<1> DEFINE new == With(written, Other(a), byte)
<1>1. ASSUME NEW b \in WramBanks, NEW i \in WramOffsets
      PROVE  v.wram[b][i] = Written(new, Work(b, i))
  BY WrittenWith, PlacesDiffer DEF OwnHold
<1>2. ASSUME NEW e \in OtherAddrs
      PROVE  OtherCell(v, e) = Written(new, Other(e))
  BY WrittenWith, OtherInjective DEF OwnHold
<1>3. ASSUME NEW p \in DOMAIN new
      PROVE  ~Behind(p)
  BY <1>3, WithDomain, OtherKind DEF OwnHold
<1> HIDE DEF new
<1>4. OwnHold(v, new)
  BY <1>1, <1>2, <1>3 DEF OwnHold
<1> QED
  BY <1>4 DEF new

LEMMA WramOffsetsNat == \A i \in WramOffsets : i \in Nat
BY AddressRange DEF WramOffsets, WramBankSize

LEMMA OwnHoldWork ==
  ASSUME NEW w, NEW v, NEW written, OwnHold(w, written), Shape(w),
         NEW b \in WramBanks, NEW i \in WramOffsets, NEW byte,
         v.wram = [w.wram EXCEPT ![b][i] = byte],
         \A e \in OtherAddrs : OtherCell(v, e) = OtherCell(w, e)
  PROVE  OwnHold(v, With(written, Work(b, i), byte))
<1> DEFINE new == With(written, Work(b, i), byte)
<1>1. ASSUME NEW c \in WramBanks, NEW j \in WramOffsets
      PROVE  v.wram[c][j] = Written(new, Work(c, j))
  <2>1. v.wram[c][j] = IF c = b /\ j = i THEN byte ELSE w.wram[c][j]
    BY DEF Shape
  <2>2. b \in Nat /\ c \in Nat /\ i \in Nat /\ j \in Nat
    BY WramOffsetsNat DEF WramBanks, WramBankCount
  <2> QED
    BY <2>1, <2>2, WrittenWith, WorkInjective DEF OwnHold
<1>2. ASSUME NEW e \in OtherAddrs
      PROVE  OtherCell(v, e) = Written(new, Other(e))
  BY WrittenWith, PlacesDiffer DEF OwnHold
<1>3. ASSUME NEW p \in DOMAIN new
      PROVE  ~Behind(p)
  <2>1. b - 1 # 7
    BY DEF WramBanks, WramBankCount
  <2> QED
    BY <1>3, <2>1, WithDomain, WorkKind DEF OwnHold
<1> HIDE DEF new
<1>4. OwnHold(v, new)
  BY <1>1, <1>2, <1>3 DEF OwnHold
<1> QED
  BY <1>4 DEF new

LEMMA OwnHoldCart ==
  ASSUME NEW w, NEW written, OwnHold(w, written), NEW b, NEW a, NEW byte
  PROVE  OwnHold(w, With(written, Cart(b, a), byte))
<1> DEFINE new == With(written, Cart(b, a), byte)
<1>1. ASSUME NEW c \in WramBanks, NEW j \in WramOffsets
      PROVE  w.wram[c][j] = Written(new, Work(c, j))
  BY WrittenWith, PlacesDiffer DEF OwnHold
<1>2. ASSUME NEW e \in OtherAddrs
      PROVE  OtherCell(w, e) = Written(new, Other(e))
  BY WrittenWith, PlacesDiffer DEF OwnHold
<1>3. ASSUME NEW p \in DOMAIN new
      PROVE  ~Behind(p)
  BY <1>3, WithDomain, CartKind DEF OwnHold
<1> HIDE DEF new
<1>4. OwnHold(w, new)
  BY <1>1, <1>2, <1>3 DEF OwnHold
<1> QED
  BY <1>4 DEF new

\* A place outside the cartridge is no matter of what the cartridge holds.
LEMMA CartHoldsOwn ==
  ASSUME NEW w, NEW v, NEW written, CartHolds(w, written), v.gCart = w.gCart, v.mbc = w.mbc,
         NEW p, ~OfCart(p), NEW byte
  PROVE  CartHolds(v, With(written, p, byte))
<1> DEFINE new == With(written, p, byte)
<1>1. ASSUME v.gCart, v.mbc.hasRam, NEW b \in 0..(v.mbc.ram_banks - 1), NEW a \in RamAddrs,
             Cart(b, a) \in DOMAIN new
      PROVE  v.mbc.ram[CartIndex(b, a)] = new[Cart(b, a)]
  <2>1. Cart(b, a) # p
    BY CartKind
  <2>2. Cart(b, a) \in DOMAIN written /\ new[Cart(b, a)] = written[Cart(b, a)]
    BY <1>1, <2>1, WithDomain, WithValue
  <2> HIDE DEF new
  <2> QED
    BY <1>1, <2>2 DEF CartHolds
<1>2. ASSUME ~v.gCart, NEW q \in DOMAIN new
      PROVE  ~OfCart(q)
  BY <1>2, WithDomain DEF CartHolds
<1> HIDE DEF new
<1>3. CartHolds(v, new)
  BY <1>1, <1>2 DEF CartHolds
<1> QED
  BY <1>3 DEF new

LEMMA CartHoldsCart ==
  ASSUME NEW w, NEW v, NEW written, CartHolds(w, written), w.gCart, w.mbc.hasRam,
         WellFormed(w.mbc), v.gCart, NEW b \in 0..(w.mbc.ram_banks - 1), NEW a \in RamAddrs,
         NEW byte, v.mbc = [w.mbc EXCEPT !.ram[CartIndex(b, a)] = byte]
  PROVE  CartHolds(v, With(written, Cart(b, a), byte))
<1> DEFINE new == With(written, Cart(b, a), byte)
<1>1. v.mbc.hasRam /\ v.mbc.ram_banks = w.mbc.ram_banks /\ w.mbc.ram_banks \in Nat
      /\ v.mbc.ram = [w.mbc.ram EXCEPT ![CartIndex(b, a)] = byte]
  BY DEF WellFormed, ContextFields
<1>2. ASSUME NEW c \in 0..(w.mbc.ram_banks - 1), NEW d \in RamAddrs, Cart(c, d) \in DOMAIN new
      PROVE  v.mbc.ram[CartIndex(c, d)] = new[Cart(c, d)]
  <2>1. b \in Nat /\ c \in Nat
    BY <1>1
  <2>2. CartIndex(c, d) \in DOMAIN w.mbc.ram
    BY DEF WellFormed, Cells, CartIndex
  <2>3. CASE c = b /\ d = a
    BY <1>1, <1>2, <2>2, <2>3, WithValue
  <2>4. CASE ~(c = b /\ d = a)
    <3>1. CartIndex(c, d) # CartIndex(b, a) /\ Cart(c, d) # Cart(b, a)
      BY <2>1, <2>4, CartInjective
    <3>2. v.mbc.ram[CartIndex(c, d)] = w.mbc.ram[CartIndex(c, d)]
      BY <1>1, <2>2, <3>1
    <3>3. Cart(c, d) \in DOMAIN written /\ new[Cart(c, d)] = written[Cart(c, d)]
      BY <1>2, <3>1, WithDomain, WithValue
    <3> QED
      BY <3>2, <3>3 DEF CartHolds
  <2> QED
    BY <2>3, <2>4
<1> HIDE DEF new
<1>3. CartHolds(v, new)
  BY <1>1, <1>2 DEF CartHolds
<1> QED
  BY <1>3 DEF new

(***************************************************************************)
(* A write outside work RAM and cartridge changes the cell of its address  *)
(* and no other.                                                           *)
(***************************************************************************)
Stored(w, v, a, byte) ==
  /\ Shape(v) /\ v.wram = w.wram /\ v.gCart = w.gCart /\ v.mbc = w.mbc
  /\ \A e \in OtherAddrs : OtherCell(v, e) = IF e = a THEN byte ELSE OtherCell(w, e)

LEMMA VramStored ==
  ASSUME NEW w, DOMAIN w = Fields, Shape(w), NEW a \in Addrs, InVram(a), NEW byte
  PROVE  Stored(w, [w EXCEPT !.vram[a - 32768] = byte], a, byte)
<1> DEFINE v == [w EXCEPT !.vram[a - 32768] = byte]
<1>1. /\ v.vram = [w.vram EXCEPT ![a - 32768] = byte]
      /\ v.oam = w.oam /\ v.wram = w.wram /\ v.io = w.io /\ v.hram = w.hram /\ v.ie = w.ie
      /\ v.gCart = w.gCart /\ v.mbc = w.mbc
  BY DEF Fields
<1> HIDE DEF v
<1>2. Shape(v)
  BY <1>1 DEF Shape, Register
<1>3. ASSUME NEW e \in OtherAddrs
      PROVE  OtherCell(v, e) = IF e = a THEN byte ELSE OtherCell(w, e)
  <2>1. CASE InVram(e)
    <3>1. e \in Nat /\ a \in Nat /\ e \in Addrs
      BY AddressRange DEF OtherAddrs
    <3>2. e - 32768 \in DOMAIN w.vram /\ (e - 32768 = a - 32768 <=> e = a)
      BY <2>1, <3>1 DEF Shape
    <3>3. OtherCell(v, e) = v.vram[e - 32768] /\ OtherCell(w, e) = w.vram[e - 32768]
      BY <2>1 DEF OtherCell
    <3> QED
      BY <1>1, <3>2, <3>3
  <2>2. CASE ~InVram(e)
    BY <1>1, <2>2 DEF OtherCell
  <2> QED
    BY <2>1, <2>2
<1>4. Stored(w, v, a, byte)
  BY <1>1, <1>2, <1>3 DEF Stored
<1> QED
  BY <1>4 DEF v

LEMMA OamStored ==
  ASSUME NEW w, DOMAIN w = Fields, Shape(w), NEW a \in Addrs, InOam(a), NEW byte
  PROVE  Stored(w, [w EXCEPT !.oam[a - 65024] = byte], a, byte)
<1> DEFINE v == [w EXCEPT !.oam[a - 65024] = byte]
<1>1. /\ v.oam = [w.oam EXCEPT ![a - 65024] = byte]
      /\ v.vram = w.vram /\ v.wram = w.wram /\ v.io = w.io /\ v.hram = w.hram /\ v.ie = w.ie
      /\ v.gCart = w.gCart /\ v.mbc = w.mbc
  BY DEF Fields
<1> HIDE DEF v
<1>2. Shape(v)
  BY <1>1 DEF Shape, Register
<1>3. ASSUME NEW e \in OtherAddrs
      PROVE  OtherCell(v, e) = IF e = a THEN byte ELSE OtherCell(w, e)
  <2>0. e \in Nat /\ a \in Nat /\ e \in Addrs
    BY AddressRange DEF OtherAddrs
  <2>1. CASE InOam(e)
    <3>1. ~InVram(e)
      BY <2>0, <2>1 DEF InOam, InVram
    <3>2. e - 65024 \in DOMAIN w.oam /\ (e - 65024 = a - 65024 <=> e = a)
      BY <2>0, <2>1 DEF Shape
    <3>3. OtherCell(v, e) = v.oam[e - 65024] /\ OtherCell(w, e) = w.oam[e - 65024]
      BY <2>1, <3>1 DEF OtherCell
    <3> QED
      BY <1>1, <3>2, <3>3
  <2>2. CASE ~InOam(e)
    BY <1>1, <2>2 DEF OtherCell
  <2> QED
    BY <2>1, <2>2
<1>4. Stored(w, v, a, byte)
  BY <1>1, <1>2, <1>3 DEF Stored
<1> QED
  BY <1>4 DEF v

LEMMA IoStored ==
  ASSUME NEW w, DOMAIN w = Fields, Shape(w), NEW a \in Addrs, InIo(a), NEW value \in Nat
  PROVE  Stored(w, IoWrite(w, a, value), a, Byte(value))
<1> DEFINE v == IoWrite(w, a, value)
<1>1. /\ v.io = [w.io EXCEPT ![a] = Byte(value)]
      /\ v.vram = w.vram /\ v.oam = w.oam /\ v.wram = w.wram /\ v.hram = w.hram /\ v.ie = w.ie
      /\ v.gCart = w.gCart /\ v.mbc = w.mbc
  BY DEF Fields, IoWrite
<1> HIDE DEF v
<1>2. Shape(v)
  <2>1. DOMAIN v.io = DOMAIN w.io
    BY <1>1
  <2>2. ASSUME NEW e \in DOMAIN v.io
        PROVE  Register(v, e) \in Nat
    <3>1. v.io[e] = IF e = a THEN Byte(value) ELSE w.io[e]
      BY <1>1, <2>1
    <3>2. Byte(value)[2] = value
      BY DEF Byte
    <3> QED
      BY <2>1, <3>1, <3>2 DEF Register, Shape
  <2> QED
    BY <1>1, <2>1, <2>2 DEF Shape
<1>3. ASSUME NEW e \in OtherAddrs
      PROVE  OtherCell(v, e) = IF e = a THEN Byte(value) ELSE OtherCell(w, e)
  <2>0. e \in Nat /\ a \in Nat /\ e \in Addrs
    BY AddressRange DEF OtherAddrs
  <2>1. CASE InIo(e)
    <3>1. ~InVram(e) /\ ~InOam(e)
      BY <2>0, <2>1 DEF InOam, InVram, InIo
    <3>2. e \in DOMAIN w.io
      BY <2>0, <2>1 DEF Shape
    <3>3. OtherCell(v, e) = v.io[e] /\ OtherCell(w, e) = w.io[e]
      BY <2>1, <3>1 DEF OtherCell
    <3> QED
      BY <1>1, <3>2, <3>3
  <2>2. CASE ~InIo(e)
    BY <1>1, <2>2 DEF OtherCell
  <2> QED
    BY <2>1, <2>2
<1>4. Stored(w, v, a, Byte(value))
  BY <1>1, <1>2, <1>3 DEF Stored
<1> QED
  BY <1>4 DEF v

LEMMA HramStored ==
  ASSUME NEW w, DOMAIN w = Fields, Shape(w), NEW a \in Addrs, InHram(a), NEW value
  PROVE  Stored(w, HramWrite(w, a, value), a, Byte(value))
<1> DEFINE v == HramWrite(w, a, value)
<1>1. /\ v.hram = [w.hram EXCEPT ![a - 65408] = Byte(value)]
      /\ v.vram = w.vram /\ v.oam = w.oam /\ v.wram = w.wram /\ v.io = w.io /\ v.ie = w.ie
      /\ v.gCart = w.gCart /\ v.mbc = w.mbc
  BY DEF Fields, HramWrite
<1> HIDE DEF v
<1>2. Shape(v)
  BY <1>1 DEF Shape, Register
<1>3. ASSUME NEW e \in OtherAddrs
      PROVE  OtherCell(v, e) = IF e = a THEN Byte(value) ELSE OtherCell(w, e)
  <2>0. e \in Nat /\ a \in Nat /\ e \in Addrs
    BY AddressRange DEF OtherAddrs
  <2>1. CASE InHram(e)
    <3>1. ~InVram(e) /\ ~InOam(e) /\ ~InIo(e)
      BY <2>0, <2>1 DEF InOam, InVram, InIo, InHram
    <3>2. e - 65408 \in DOMAIN w.hram /\ (e - 65408 = a - 65408 <=> e = a)
      BY <2>0, <2>1 DEF Shape
    <3>3. OtherCell(v, e) = v.hram[e - 65408] /\ OtherCell(w, e) = w.hram[e - 65408]
      BY <2>1, <3>1 DEF OtherCell
    <3> QED
      BY <1>1, <3>2, <3>3
  <2>2. CASE ~InHram(e)
    BY <1>1, <2>2 DEF OtherCell
  <2> QED
    BY <2>1, <2>2
<1>4. Stored(w, v, a, Byte(value))
  BY <1>1, <1>2, <1>3 DEF Stored
<1> QED
  BY <1>4 DEF v

LEMMA IeStored ==
  ASSUME NEW w, DOMAIN w = Fields, Shape(w), NEW value
  PROVE  Stored(w, IeWrite(w, value), AddrIe, Byte(value))
<1> DEFINE v == IeWrite(w, value)
<1>1. /\ v.ie = Byte(value)
      /\ v.vram = w.vram /\ v.oam = w.oam /\ v.wram = w.wram /\ v.io = w.io
      /\ v.hram = w.hram /\ v.gCart = w.gCart /\ v.mbc = w.mbc
  BY DEF Fields, IeWrite
<1> HIDE DEF v
<1>2. Shape(v)
  BY <1>1 DEF Shape, Register
<1>3. ASSUME NEW e \in OtherAddrs
      PROVE  OtherCell(v, e) = IF e = AddrIe THEN Byte(value) ELSE OtherCell(w, e)
  <2>1. CASE e = AddrIe
    <3>1. ~InVram(e) /\ ~InOam(e) /\ ~InIo(e) /\ ~InHram(e)
      BY <2>1 DEF InOam, InVram, InIo, InHram, AddrIe
    <3> QED
      BY <1>1, <2>1, <3>1 DEF OtherCell
  <2>2. CASE e # AddrIe
    BY <1>1, <2>2 DEF OtherCell, OtherAddrs
  <2> QED
    BY <2>1, <2>2
<1>4. Stored(w, v, AddrIe, Byte(value))
  BY <1>1, <1>2, <1>3 DEF Stored
<1> QED
  BY <1>4 DEF v

LEMMA OtherRegions ==
  ASSUME NEW a \in OtherAddrs
  PROVE  /\ a \in Addrs /\ a \in Nat
         /\ ~InRom(a) /\ ~InRam(a) /\ ~InWram(a) /\ ~InEcho(a) /\ ~InProhibited(a)
         /\ \/ InVram(a) /\ ~InOam(a) /\ ~InIo(a) /\ ~InHram(a) /\ a # AddrIe
            \/ ~InVram(a) /\ InOam(a) /\ ~InIo(a) /\ ~InHram(a) /\ a # AddrIe
            \/ ~InVram(a) /\ ~InOam(a) /\ InIo(a) /\ ~InHram(a) /\ a # AddrIe
            \/ ~InVram(a) /\ ~InOam(a) /\ ~InIo(a) /\ InHram(a) /\ a # AddrIe
            \/ ~InVram(a) /\ ~InOam(a) /\ ~InIo(a) /\ ~InHram(a) /\ a = AddrIe
<1>1. a \in Nat /\ a \in Addrs
  BY AddressRange DEF OtherAddrs
<1> QED
  BY <1>1 DEF OtherAddrs, InRom, InRam, RamStart, RamEnd, InWram, InEcho, InProhibited, InVram,
              InOam, InIo, InHram, AddrIe

LEMMA NeitherLocked ==
  ASSUME NEW w, NEW bus, NEW a, ~InVram(a), ~InOam(a)
  PROVE  ~Locked(w, bus, a)
BY DEF Locked

LEMMA OtherWrite ==
  ASSUME NEW w, DOMAIN w = Fields, Shape(w), NEW bus, NEW a \in OtherAddrs,
         NEW value \in Nat, NEW v \in MmuWrite(w, bus, a, value)
  PROVE  IF Locked(w, bus, a) THEN v = w ELSE Stored(w, v, a, Byte(value))
<1>1. a \in Addrs
  BY OtherRegions
<1>2. CASE InVram(a) /\ v = VramWrite(w, bus, a, value)
  <2>1. ~InOam(a)
    BY <1>2, OtherRegions
  <2>2. Locked(w, bus, a) <=> bus = "CPU" /\ VramBlocked(w)
    BY <1>2, <2>1 DEF Locked, VramBlocked
  <2>3. v = IF Locked(w, bus, a) THEN w ELSE [w EXCEPT !.vram[a - 32768] = Byte(value)]
    BY <1>2, <2>2 DEF VramWrite
  <2> QED
    BY <1>1, <1>2, <2>3, VramStored
<1>3. CASE InOam(a) /\ v = OamWrite(w, bus, a, value)
  <2>1. ~InVram(a)
    BY <1>3, OtherRegions
  <2>2. Locked(w, bus, a) <=> bus = "CPU" /\ OamBlocked(w)
    BY <1>3, <2>1 DEF Locked, OamBlocked
  <2>3. v = IF Locked(w, bus, a) THEN w ELSE [w EXCEPT !.oam[a - 65024] = Byte(value)]
    BY <1>3, <2>2 DEF OamWrite
  <2> QED
    BY <1>1, <1>3, <2>3, OamStored
<1>4. CASE InIo(a) /\ v = IoWrite(w, a, value)
  BY <1>1, <1>4, OtherRegions, NeitherLocked, IoStored
<1>5. CASE InHram(a) /\ v = HramWrite(w, a, value)
  BY <1>1, <1>5, OtherRegions, NeitherLocked, HramStored
<1>6. CASE a = AddrIe /\ v = IeWrite(w, value)
  BY <1>6, OtherRegions, NeitherLocked, IeStored
<1> QED
  BY <1>1, <1>2, <1>3, <1>4, <1>5, <1>6, WriteOutcome, OtherRegions

LEMMA OtherRead ==
  ASSUME NEW w, NEW bus, NEW a \in OtherAddrs
  PROVE  MmuRead(w, bus, a) = IF Locked(w, bus, a) THEN OpenBus ELSE OtherCell(w, a)
<1>1. ~InRom(a) /\ ~InRam(a) /\ ~InWram(a) /\ ~InEcho(a) /\ ~InProhibited(a)
  BY OtherRegions
<1>2. CASE InVram(a)
  <2>1. ~InOam(a) /\ ~InIo(a) /\ ~InHram(a) /\ a # AddrIe
    BY <1>2, OtherRegions
  <2>2. MmuRead(w, bus, a) = VramRead(w, bus, a)
    BY <1>1, <1>2, <2>1 DEF MmuRead
  <2> QED
    BY <1>2, <2>1, <2>2 DEF VramRead, VramBlocked, Locked, OtherCell
<1>3. CASE InOam(a)
  <2>1. ~InVram(a) /\ ~InIo(a) /\ ~InHram(a) /\ a # AddrIe
    BY <1>3, OtherRegions
  <2>2. MmuRead(w, bus, a) = OamRead(w, bus, a)
    BY <1>1, <1>3, <2>1 DEF MmuRead
  <2> QED
    BY <1>3, <2>1, <2>2 DEF OamRead, OamBlocked, Locked, OtherCell
<1>4. CASE InIo(a)
  <2>1. ~InVram(a) /\ ~InOam(a) /\ ~InHram(a) /\ a # AddrIe
    BY <1>4, OtherRegions
  <2>2. MmuRead(w, bus, a) = w.io[a]
    BY <1>1, <1>4, <2>1 DEF MmuRead
  <2> QED
    BY <1>4, <2>1, <2>2, NeitherLocked DEF OtherCell
<1>5. CASE InHram(a)
  <2>1. ~InVram(a) /\ ~InOam(a) /\ ~InIo(a) /\ a # AddrIe
    BY <1>5, OtherRegions
  <2>2. MmuRead(w, bus, a) = w.hram[a - 65408]
    BY <1>1, <1>5, <2>1 DEF MmuRead
  <2> QED
    BY <1>5, <2>1, <2>2, NeitherLocked DEF OtherCell
<1>6. CASE a = AddrIe
  <2>1. ~InVram(a) /\ ~InOam(a) /\ ~InIo(a) /\ ~InHram(a)
    BY <1>6, OtherRegions
  <2>2. MmuRead(w, bus, a) = w.ie
    BY <1>1, <1>6, <2>1 DEF MmuRead
  <2> QED
    BY <2>1, <2>2, NeitherLocked DEF OtherCell
<1> QED
  BY <1>2, <1>3, <1>4, <1>5, <1>6, OtherRegions

(***************************************************************************)
(* Every write keeps what is remembered in step with the cells.            *)
(***************************************************************************)
Kept(m, written) == m.wild \/ (Shape(m) /\ OwnHold(m, written) /\ CartHolds(m, written))

LEMMA OtherWriteKeeps ==
  ASSUME NEW w, DOMAIN w = Fields, NEW written, Shape(w), OwnHold(w, written),
         CartHolds(w, written), NEW bus, NEW a \in OtherAddrs, NEW value \in Nat,
         NEW v \in MmuWrite(w, bus, a, value)
  PROVE  Kept(v, IF Present(w, a) /\ ~Locked(w, bus, a)
                 THEN With(written, Place(w, a), Byte(value)) ELSE written)
<1>1. Place(w, a) = Other(a) /\ Present(w, a)
  BY PlaceOfOther
<1>2. CASE Locked(w, bus, a)
  BY <1>2, OtherWrite DEF Kept
<1>3. CASE ~Locked(w, bus, a)
  <2>1. Stored(w, v, a, Byte(value))
    BY <1>3, OtherWrite
  <2>2. OwnHold(v, With(written, Other(a), Byte(value)))
    BY <2>1, OwnHoldOther DEF Stored
  <2>3. CartHolds(v, With(written, Other(a), Byte(value)))
    BY <2>1, OtherKind, CartHoldsOwn DEF Stored
  <2> QED
    BY <1>1, <1>3, <2>1, <2>2, <2>3 DEF Kept, Stored
<1> QED
  BY <1>2, <1>3

LEMMA WorkWriteKeeps ==
  ASSUME NEW w, DOMAIN w = Fields, NEW written, Shape(w), OwnHold(w, written),
         CartHolds(w, written), NEW bus, NEW a \in Addrs, InWram(a) \/ InEcho(a),
         NEW value \in Nat, NEW v \in WramWrite(w, Target(a), value)
  PROVE  Kept(v, IF Present(w, a) /\ ~Locked(w, bus, a)
                 THEN With(written, Place(w, a), Byte(value)) ELSE written)
<1> DEFINE bank == WramBank(w, Target(a))
           i == Target(a) % WramBankSize
           new == With(written, Work(bank, i), Byte(value))
<1>1. ~Locked(w, bus, a) /\ Present(w, a)
  <2>1. ~InVram(a) /\ ~InOam(a)
    BY AddressRange DEF InWram, InEcho, InVram, InOam
  <2> QED
    BY <2>1, NeitherLocked, PlaceOfWork
<1>2. CASE ~(bank < WramBankCount)
  BY <1>2, WramOutcome DEF Kept
<1>3. CASE bank < WramBankCount
  <2>1. bank \in WramBanks /\ Place(w, a) = Work(bank, i) /\ i \in WramOffsets
    BY <1>3, PlaceOfWork, TargetInWram
  <2>2. v = [w EXCEPT !.wram[bank][i] = Byte(value)]
    BY <1>3, WramOutcome
  <2> HIDE DEF bank, i
  <2>3. /\ v.wram = [w.wram EXCEPT ![bank][i] = Byte(value)]
        /\ v.vram = w.vram /\ v.oam = w.oam /\ v.io = w.io /\ v.hram = w.hram /\ v.ie = w.ie
        /\ v.gCart = w.gCart /\ v.mbc = w.mbc
    BY <2>2 DEF Fields
  <2>4. \A e \in OtherAddrs : OtherCell(v, e) = OtherCell(w, e)
    BY <2>3 DEF OtherCell
  <2>5. OwnHold(v, new)
    BY <2>1, <2>3, <2>4, OwnHoldWork
  <2>6. CartHolds(v, new)
    BY <2>3, WorkKind, CartHoldsOwn
  <2>7. Shape(v)
    <3>1. DOMAIN v.wram = WramBanks /\ \A b \in WramBanks : DOMAIN v.wram[b] = WramOffsets
      BY <2>1, <2>3 DEF Shape
    <3> QED
      BY <2>3, <3>1 DEF Shape, Register
  <2> QED
    BY <1>1, <2>1, <2>5, <2>6, <2>7 DEF Kept
<1> QED
  BY <1>2, <1>3

LEMMA CartWriteKeeps ==
  ASSUME NEW w, Good(w), NEW written, Shape(w), OwnHold(w, written), CartHolds(w, written),
         NEW bus, NEW a \in Addrs, InRam(a), NEW value \in Nat
  PROVE  Kept(CartWrite(w, a, value), IF Present(w, a) /\ ~Locked(w, bus, a)
                 THEN With(written, Place(w, a), Byte(value)) ELSE written)
<1> DEFINE v == CartWrite(w, a, value)
           b == Bank(w)
<1>1. ~Locked(w, bus, a)
  <2>1. ~InVram(a) /\ ~InOam(a)
    BY AddressRange DEF InRam, RamStart, RamEnd, InVram, InOam
  <2> QED
    BY <2>1, NeitherLocked
<1>2. CASE ~Present(w, a)
  <2>1. SameOwn(w, v) /\ v.gCart = w.gCart /\ v.mbc = w.mbc
    BY <1>2, AbsentCart
  <2> HIDE DEF v
  <2>2. Shape(v) /\ OwnHold(v, written)
    BY <2>1, SameOwnHolds
  <2>3. CartHolds(v, written)
    BY <2>1 DEF CartHolds
  <2>4. Kept(v, written)
    BY <2>2, <2>3 DEF Kept
  <2> QED
    BY <1>2, <2>4 DEF v
<1>3. CASE Present(w, a)
  <2>1. /\ Place(w, a) = Cart(b, a) /\ a \in RamAddrs
        /\ w.gCart /\ w.mCart /\ w.mbc.hasRam /\ WellFormed(w.mbc)
        /\ MbcWrite(w.mbc, a, value) = [w.mbc EXCEPT !.ram[CartIndex(b, a)] = Byte(value)]
    BY <1>3, PlaceOfCart
  <2>2. b \in 0..(w.mbc.ram_banks - 1)
    BY <2>1, BankExists
  <2> DEFINE c == [w.mbc EXCEPT !.ram[CartIndex(b, a)] = Byte(value)]
             new == With(written, Cart(b, a), Byte(value))
  <2>3. v = [w EXCEPT !.mbc = c]
    BY <2>1 DEF CartWrite
  <2> HIDE DEF v, c, b
  <2>4. SameOwn(w, v) /\ v.gCart = w.gCart /\ v.mbc = c
    BY <2>3 DEF Good, Balanced, Fields, SameOwn
  <2>5. Shape(v) /\ OwnHold(v, written)
    BY <2>4, SameOwnHolds
  <2>6. OwnHold(v, new)
    BY <2>5, OwnHoldCart
  <2>7. CartHolds(v, new)
    BY <2>1, <2>2, <2>4, CartHoldsCart DEF c
  <2>8. Kept(v, new)
    BY <2>5, <2>6, <2>7 DEF Kept
  <2> QED
    BY <1>1, <1>3, <2>1, <2>8 DEF v
<1> QED
  BY <1>2, <1>3

LEMMA WriteKeeps ==
  ASSUME NEW w, Good(w), NEW written, Shape(w), OwnHold(w, written), CartHolds(w, written),
         NEW bus, NEW a \in Addrs, NEW value \in Nat, NEW v \in MmuWrite(w, bus, a, value)
  PROVE  Kept(v, IF Present(w, a) /\ ~Locked(w, bus, a)
                 THEN With(written, Place(w, a), Byte(value)) ELSE written)
<1>1. DOMAIN w = Fields
  BY DEF Good, Balanced
<1>2. CASE a \in OtherAddrs
  BY <1>1, <1>2, OtherWriteKeeps
<1>3. CASE InRam(a) /\ v = CartWrite(w, a, value)
  BY <1>3, CartWriteKeeps
<1>4. CASE InWram(a) /\ v \in WramWrite(w, a, value)
  <2>1. Target(a) = a
    BY <1>4, AddressRange DEF Target, InWram, InEcho
  <2> QED
    BY <1>1, <1>4, <2>1, WorkWriteKeeps
<1>5. CASE InEcho(a) /\ v \in WramWrite(w, EchoTarget(a), value)
  <2>1. Target(a) = EchoTarget(a)
    BY <1>5 DEF Target
  <2> QED
    BY <1>1, <1>5, <2>1, WorkWriteKeeps
<1>6. CASE (InRom(a) \/ InProhibited(a)) /\ v = w
  <2>1. ~Present(w, a)
    BY <1>6 DEF Present
  <2> QED
    BY <1>6, <2>1 DEF Kept
<1> QED
  BY <1>2, <1>3, <1>4, <1>5, <1>6, WriteOutcome DEF OtherAddrs

LEMMA PowerUpHolds ==
  Shape(PowerUp) /\ OwnHold(PowerUp, NothingWritten) /\ CartHolds(PowerUp, NothingWritten)
<1> DEFINE m == PowerUp
<1>1. /\ m.vram = Memories.vram /\ m.oam = Memories.oam /\ m.wram = Memories.wram
      /\ m.io = Memories.io /\ m.hram = Memories.hram /\ m.ie = Memories.ie /\ ~m.gCart
  BY DEF PowerUp
<1>2. /\ Memories.vram = [i \in {a - 32768 : a \in {x \in Addrs : InVram(x)}} |-> Byte(0)]
      /\ Memories.oam = [i \in {a - 65024 : a \in {x \in Addrs : InOam(x)}} |-> Byte(0)]
      /\ Memories.wram = [b \in WramBanks |-> [i \in WramOffsets |-> Byte(0)]]
      /\ Memories.io = [a \in {x \in Addrs : InIo(x)} |-> Byte(0)]
      /\ Memories.hram = [i \in {a - 65408 : a \in {x \in Addrs : InHram(x)}} |-> Byte(0)]
      /\ Memories.ie = Byte(0)
  BY DEF Memories, Zeros, WramBanks
<1> HIDE DEF m
<1>3. Byte(0)[2] \in Nat
  BY DEF Byte
<1>4. Shape(m)
  BY <1>1, <1>2, <1>3 DEF Shape, Register
<1>5. \A p : Written(NothingWritten, p) = Byte(0)
  BY DEF Written, NothingWritten
<1>6. ASSUME NEW e \in OtherAddrs
      PROVE  OtherCell(m, e) = Byte(0)
  BY <1>1, <1>2, <1>4, OtherRegions DEF OtherCell
<1>7. OwnHold(m, NothingWritten)
  BY <1>1, <1>2, <1>5, <1>6 DEF OwnHold, NothingWritten
<1>8. CartHolds(m, NothingWritten)
  BY <1>1 DEF CartHolds, NothingWritten
<1> QED
  BY <1>4, <1>7, <1>8 DEF m

LEMMA ControllerWriteKeeps ==
  ASSUME Inv, CellInv, NEW addr \in Addrs, NEW value, ControllerWrite(addr, value),
         shadow' = shadow
  PROVE  CellInv'
<1> DEFINE c == MbcWrite(s.mbc, addr, value)
<1>1. ControllerOK(s.mbc) /\ s.mbc # NoMbc /\ s.gCart /\ DOMAIN s = Fields /\ InRom(addr)
  BY DEF Inv, Good, ControllerWrite, Balanced
<1>2. c.ram = s.mbc.ram /\ c.hasRam = s.mbc.hasRam /\ c.ram_banks = s.mbc.ram_banks
  <2>1. DOMAIN s.mbc = ContextFields /\ s.mbc.iface \in {"dld", "mbc1"}
    BY <1>1 DEF ControllerOK, WellFormed
  <2>2. ~InRam(addr)
    BY <1>1, AddressRange DEF InRom, InRam, RamStart, RamEnd
  <2> QED
    BY <1>1, <2>1, <2>2 DEF MbcWrite, DldWrite, Mbc1Write, SetRegister, ContextFields
<1>3. s' = [s EXCEPT !.mbc = c]
  BY DEF ControllerWrite
<1> HIDE DEF c
<1>4. SameOwn(s, s') /\ s'.gCart = s.gCart /\ s'.mbc = c
  BY <1>1, <1>3 DEF Fields, SameOwn
<1>5. ASSUME ~s.wild
      PROVE  Shape(s') /\ OwnHold(s', shadow) /\ CartHolds(s', shadow)
  BY <1>2, <1>4, <1>5, SameOwnHolds DEF CellInv, CartHolds
<1> QED
  BY <1>4, <1>5 DEF CellInv, SameOwn

LEMMA LoadRomKeeps ==
  ASSUME Inv, CellInv, NEW f, NEW fail, LoadRom(f, fail), shadow' = shadow
  PROVE  CellInv'
<1>1. SameOwn(s, s') /\ ~s.gCart
  BY LoadRomEffect
<1>2. ASSUME ~s.wild
      PROVE  Shape(s') /\ OwnHold(s', shadow) /\ CartHolds(s', shadow)
  <2>1. Shape(s') /\ OwnHold(s', shadow)
    BY <1>1, <1>2, SameOwnHolds DEF CellInv
  <2>2. \A p \in DOMAIN shadow : ~OfCart(p)
    BY <1>1, <1>2 DEF CellInv, CartHolds
  <2>3. \A b, a : Cart(b, a) \notin DOMAIN shadow
    BY <2>2, CartKind
  <2> QED
    BY <2>1, <2>2, <2>3 DEF CartHolds
<1> QED
  BY <1>1, <1>2 DEF CellInv, SameOwn

LEMMA EjectCartKeeps ==
  ASSUME Inv, CellInv, EjectCart, shadow' = WithoutCart
  PROVE  CellInv'
<1>1. SameOwn(s, s') /\ ~s'.gCart
  BY EjectCartEffect
<1>2. ASSUME NEW p
      PROVE  /\ p \in DOMAIN WithoutCart <=> p \in DOMAIN shadow /\ ~OfCart(p)
             /\ ~OfCart(p) => Written(WithoutCart, p) = Written(shadow, p)
  BY DEF WithoutCart, Written
<1>3. ASSUME ~s.wild
      PROVE  Shape(s') /\ OwnHold(s', WithoutCart) /\ CartHolds(s', WithoutCart)
  <2>1. Shape(s') /\ OwnHold(s', shadow)
    BY <1>1, <1>3, SameOwnHolds DEF CellInv
  <2>2. \A b \in WramBanks, i \in WramOffsets :
           s'.wram[b][i] = Written(WithoutCart, Work(b, i))
    BY <1>2, <2>1, WorkKind DEF OwnHold
  <2>3. \A a \in OtherAddrs : OtherCell(s', a) = Written(WithoutCart, Other(a))
    BY <1>2, <2>1, OtherKind DEF OwnHold
  <2>4. \A p \in DOMAIN WithoutCart : ~Behind(p)
    BY <1>2, <2>1 DEF OwnHold
  <2>5. OwnHold(s', WithoutCart)
    BY <2>2, <2>3, <2>4 DEF OwnHold
  <2> QED
    BY <1>1, <1>2, <2>1, <2>5 DEF CartHolds
<1> QED
  BY <1>1, <1>3 DEF CellInv, SameOwn

LEMMA BlocksKeepCells ==
  ASSUME CellInv, SameButBlocks(s, s'), shadow' = shadow
  PROVE  CellInv'
<1>1. ASSUME ~s.wild
      PROVE  Shape(s') /\ OwnHold(s', shadow) /\ CartHolds(s', shadow)
  BY <1>1, SameOwnHolds DEF CellInv, CartHolds, SameButBlocks
<1> QED
  BY <1>1 DEF CellInv, SameOwn, SameButBlocks

LEMMA SaveBeginKeeps ==
  ASSUME Inv, CellInv, NEW fail, SaveBegin(fail),
         shadow' = IF fail = "dump" THEN NothingWritten ELSE shadow
  PROVE  CellInv'
<1>1. CASE fail = "dump"
  <2>1. s' = PowerUp /\ shadow' = NothingWritten
    BY <1>1, SaveBeginEffect
  <2> QED
    BY <2>1, PowerUpHolds DEF CellInv
<1>2. CASE fail # "dump"
  BY <1>2, SaveBeginEffect, BlocksKeepCells
<1> QED
  BY <1>1, <1>2

LEMMA InitCells == MCInit => CellInv
<1> SUFFICES ASSUME MCInit PROVE CellInv
  OBVIOUS
<1>1. s = PowerUp /\ shadow = NothingWritten
  BY DEF MCInit, Init
<1> QED
  BY <1>1, PowerUpHolds DEF CellInv

LEMMA StepKeepsCells == Inv /\ CellInv /\ [MCNext]_mcVars => CellInv'
<1> SUFFICES ASSUME Inv, CellInv, [MCNext]_mcVars PROVE CellInv'
  OBVIOUS
<1>1. ASSUME NEW f \in Files, NEW fail \in FailuresOf[f], LoadRom(f, fail),
             UNCHANGED <<shadow, kept>>
      PROVE  CellInv'
  BY <1>1, LoadRomKeeps
<1>2. CASE EjectCart /\ shadow' = WithoutCart
  BY <1>2, EjectCartKeeps
<1>3. ASSUME NEW fail, SaveBegin(fail),
             shadow' = IF fail = "dump" THEN NothingWritten ELSE shadow
      PROVE  CellInv'
  BY <1>3, SaveBeginKeeps
<1>8. CASE SaveWrite /\ shadow' = shadow
  BY <1>8 DEF SaveWrite, CellInv
<1>9. ASSUME NEW ok, SaveEnd(ok), shadow' = shadow
      PROVE  CellInv'
  BY <1>9, SaveEndEffect, BlocksKeepCells
<1>4. ASSUME NEW bus \in Buses, NEW addr \in Addrs, NEW v \in ValuesAt[addr], ~s.wild,
             BusWrite(bus, addr, v), shadow' = Remember(bus, addr, v)
      PROVE  CellInv'
  <2>1. v \in Nat
    BY MemoryAssumption
  <2>2. Shape(s) /\ OwnHold(s, shadow) /\ CartHolds(s, shadow) /\ Good(s)
    BY <1>4, GoodIsInv DEF CellInv
  <2>3. s' \in MmuWrite(s, bus, addr, v)
    BY <1>4 DEF BusWrite
  <2>4. Kept(s', IF Present(s, addr) /\ ~Locked(s, bus, addr)
                 THEN With(shadow, Place(s, addr), Byte(v)) ELSE shadow)
    BY <2>1, <2>2, <2>3, WriteKeeps
  <2>5. Kept(s', shadow')
    BY <1>4, <2>4 DEF Remember
  <2> QED
    BY <2>5 DEF Kept, CellInv
<1>5. ASSUME NEW addr \in Addrs, NEW v, ControllerWrite(addr, v), UNCHANGED <<shadow, kept>>
      PROVE  CellInv'
  BY <1>5, ControllerWriteKeeps
<1>6. CASE Restart /\ shadow' = NothingWritten
  BY <1>6, PowerUpHolds DEF CellInv, Restart
<1>7. CASE UNCHANGED mcVars
  BY <1>7 DEF mcVars, vars, CellInv
<1> QED
  BY <1>1, <1>2, <1>3, <1>4, <1>5, <1>6, <1>7, <1>8, <1>9 DEF MCNext

LEMMA CellsAreRead ==
  ASSUME Inv, CellInv, ~s.wild, NEW a \in Addrs, Present(s, a), NEW bus
  PROVE  IF Locked(s, bus, a) THEN MmuRead(s, bus, a) = OpenBus
         ELSE /\ Place(s, a) \in DOMAIN shadow => MmuRead(s, bus, a) = shadow[Place(s, a)]
              /\ Place(s, a) \notin DOMAIN shadow =>
                   InRam(a) \/ Place(s, a)[2] = 7 \/ MmuRead(s, bus, a) = Byte(0)
<1>1. Shape(s) /\ OwnHold(s, shadow) /\ CartHolds(s, shadow) /\ Good(s)
  BY GoodIsInv DEF CellInv
<1>2. CASE a \in OtherAddrs
  <2>1. MmuRead(s, bus, a) = IF Locked(s, bus, a) THEN OpenBus ELSE OtherCell(s, a)
    BY <1>2, OtherRead
  <2>2. Place(s, a) = Other(a) /\ OtherCell(s, a) = Written(shadow, Other(a))
    BY <1>1, <1>2, PlaceOfOther DEF OwnHold
  <2> QED
    BY <2>1, <2>2 DEF Written
<1>3. CASE InRam(a)
  <2>1. a \in Nat /\ ~InVram(a) /\ ~InOam(a) /\ ~InRom(a)
    BY <1>3, AddressRange DEF InRam, RamStart, RamEnd, InVram, InOam, InRom
  <2>2. ~Locked(s, bus, a)
    BY <2>1, NeitherLocked
  <2>3. /\ Place(s, a) = Cart(Bank(s), a) /\ a \in RamAddrs
        /\ s.gCart /\ s.mCart /\ s.mbc.hasRam /\ WellFormed(s.mbc)
        /\ MbcRead(s.mbc, a) = s.mbc.ram[CartIndex(Bank(s), a)]
    BY <1>1, <1>3, PlaceOfCart
  <2>4. Bank(s) \in 0..(s.mbc.ram_banks - 1)
    BY <2>3, BankExists
  <2>5. MmuRead(s, bus, a) = MbcRead(s.mbc, a)
    <3>1. ~InWram(a) /\ ~InEcho(a) /\ ~InProhibited(a) /\ ~InIo(a) /\ ~InHram(a) /\ a # AddrIe
      BY <1>3, <2>1 DEF InRam, RamStart, RamEnd, InWram, InEcho, InProhibited, InIo, InHram,
                        AddrIe
    <3>2. MmuRead(s, bus, a) = CartRead(s, a)
      BY <1>3, <2>1, <3>1 DEF MmuRead
    <3> QED
      BY <2>3, <3>2 DEF CartRead
  <2> QED
    BY <1>1, <1>3, <2>2, <2>3, <2>4, <2>5 DEF CartHolds
<1>4. CASE InWram(a) \/ InEcho(a)
  <2> DEFINE bank == WramBank(s, Target(a))
             i == Target(a) % WramBankSize
  <2>1. a \in Nat /\ ~InVram(a) /\ ~InOam(a) /\ ~InRom(a) /\ ~InRam(a) /\ ~InProhibited(a)
        /\ ~InIo(a) /\ ~InHram(a) /\ a # AddrIe
    BY <1>4, AddressRange DEF InRam, RamStart, RamEnd, InVram, InOam, InRom, InWram, InEcho,
                              InProhibited, InIo, InHram, AddrIe
  <2>2. ~Locked(s, bus, a)
    BY <2>1, NeitherLocked
  <2>3. MmuRead(s, bus, a) = WramRead(s, Target(a))
    <3>1. CASE InWram(a)
      <4>1. ~InEcho(a)
        BY <2>1, <3>1 DEF InWram, InEcho
      <4>2. MmuRead(s, bus, a) = WramRead(s, a)
        BY <2>1, <3>1, <4>1 DEF MmuRead
      <4> QED
        BY <4>1, <4>2 DEF Target
    <3>2. CASE InEcho(a)
      <4>1. ~InWram(a)
        BY <2>1, <3>2 DEF InWram, InEcho
      <4>2. MmuRead(s, bus, a) = EchoRead(s, a)
        BY <2>1, <3>2, <4>1 DEF MmuRead
      <4> QED
        BY <3>2, <4>2 DEF Target, EchoRead
    <3> QED
      BY <1>4, <3>1, <3>2
  <2>4. CASE bank < WramBankCount
    <3>1. bank \in WramBanks /\ Place(s, a) = Work(bank, i) /\ i \in WramOffsets
      BY <1>1, <1>4, <2>4, PlaceOfWork, TargetInWram
    <3>2. MmuRead(s, bus, a) = s.wram[bank][i]
      BY <2>3, <2>4 DEF WramRead
    <3> HIDE DEF bank, i
    <3>3. MmuRead(s, bus, a) = Written(shadow, Place(s, a))
      BY <1>1, <3>1, <3>2 DEF OwnHold
    <3> QED
      BY <2>2, <3>3 DEF Written
  <2>5. CASE ~(bank < WramBankCount)
    <3>1. Place(s, a)[2] = 7 /\ Behind(Place(s, a))
      BY <1>1, <1>4, <2>5, PlaceOfWork
    <3>2. Place(s, a) \notin DOMAIN shadow
      BY <1>1, <3>1 DEF OwnHold
    <3> QED
      BY <2>2, <3>1, <3>2
  <2> QED
    BY <2>4, <2>5
<1> QED
  BY <1>2, <1>3, <1>4, Regions DEF OtherAddrs, Present

\* A byte is read back, over every bus, as it was last written at its place of the memory
\* map: through the echo, through whatever bank registers and whatever was inserted, ejected
\* or saved in between, at every address (mmu.c and the bank controllers of mbc.c).
THEOREM LastWriteIsRead == MCSpec => []ReadsLastWrite
<1>1. MCInit => Inv /\ CellInv
  BY InitCells, InitInv DEF MCInit
<1>2. Inv /\ CellInv /\ [MCNext]_mcVars => Inv' /\ CellInv'
  BY MCStep, InvStep, StepKeepsCells
<1>3. Inv /\ CellInv => ReadsLastWrite
  BY CellsAreRead DEF ReadsLastWrite
<1> QED
  BY <1>1, <1>2, <1>3, PTL DEF MCSpec
=============================================================================
