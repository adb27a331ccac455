------------------------------- MODULE Memory -------------------------------
(***************************************************************************)
(* The memory of the machine: the memory management unit together with the *)
(* cartridge it holds, from the file of the ROM to the file its RAM is     *)
(* saved in (src/memory/cartridge/cartridge.c, mbc/mbc.c), and the calls   *)
(* of gboy.c that insert and eject it.                                     *)
(*                                                                         *)
(* Making a cartridge is a chain of allocations, each of which may fail.   *)
(* "heap" counts the blocks that are allocated, by what they are for, and  *)
(* "ptr" is the set of those a pointer of the cartridge leads to.  "fail"  *)
(* names the one call that fails.  The program may end at any time and     *)
(* start again; the files are what remains.                                *)
(***************************************************************************)
EXTENDS Mmu

CONSTANTS
  Buses,      \* who reads and writes
  ValuesAt,   \* for each address, the values written there
  Files,      \* the ROM files, by name
  HeaderOf,   \* for each of them its size and the entries of its header
  FailuresOf, \* for each of them the calls that may fail while it is inserted
  TornLengths, \* bound: the lengths at which the writing of a file may be interrupted
  MaxWrites   \* bound: writes of the environment, over all starts of the program

OwnBlocks == {"cart", "rom_path", "ram_path", "save_path", "mbc", "ctx", "rom", "ram"}
TempBlocks == {"data_path", "rom_file", "ram_file", "dump"}
Blocks == OwnBlocks \cup TempBlocks
\* The calls that may fail while a cartridge is made, by the block they allocate.
AllFailures == (Blocks \ {"dump"}) \cup {"nothing", "path_info"}
NoMbc == [iface |-> "none"]
\* The contents of a file are a function on the cells of the RAM that it covers, so that
\* a file that was emptied is not a file that does not exist.
EmptyFile == [i \in {} |-> Junk]
NoFile == [i \in {-1} |-> Junk]

ASSUME MemoryAssumption ==
  /\ "CPU" \in Buses
  /\ \A a \in Addrs : ValuesAt[a] \subseteq 0..255
  /\ {RegStat, RegBank, RegSvbk} \subseteq Addrs
  /\ \A f \in Files : FailuresOf[f] \subseteq AllFailures
  /\ TornLengths \subseteq Nat /\ MaxWrites \in Nat

VARIABLES
  s,        \* the memories and the cartridge
  saves,    \* for each ROM file, the file its RAM was saved in
  saving,   \* the copy of the RAM that cartridge_save is writing, NoFile outside it
  writes    \* writes so far

vars == <<s, saves, saving, writes>>

PowerUp ==
  LET m == Memories
  IN  [ vram |-> m.vram, oam |-> m.oam, wram |-> m.wram, io |-> m.io, hram |-> m.hram,
        ie |-> m.ie, wild |-> FALSE, mCart |-> FALSE, gCart |-> FALSE, file |-> "none",
        mbc |-> NoMbc, ptr |-> {}, heap |-> [b \in Blocks |-> 0], out |-> "run" ]

Init ==
  /\ s = PowerUp
  /\ saves = [f \in Files |-> NoFile]
  /\ saving = NoFile
  /\ writes = 0

-----------------------------------------------------------------------------
(* Blocks.                                                                 *)

Take(w, blocks) ==
  [w EXCEPT !.heap = [b \in Blocks |-> IF b \in blocks THEN @[b] + 1 ELSE @[b]],
            !.ptr = @ \cup blocks]
Free(w, blocks) ==
  [w EXCEPT !.heap = [b \in Blocks |-> IF b \in blocks \cap w.ptr THEN @[b] - 1 ELSE @[b]],
            !.ptr = @ \ blocks]

\* A step of cartridge_create, which the goto of an earlier one may have skipped.
Running(w) == w.out = "run"
Check(w, ok) == IF Running(w) /\ ~ok THEN [w EXCEPT !.out = "err"] ELSE w
Alloc(w, block, fail) ==
  IF ~Running(w) THEN w
  ELSE IF fail = block THEN [w EXCEPT !.out = "err"] ELSE Take(w, {block})

-----------------------------------------------------------------------------
(* mbc_create.  The controller's context replaces the one that mbc->ctx    *)
(* points at, if any.                                                      *)

SetContext(w, context, blocks) ==
  Take([w EXCEPT !.mbc = context, !.ptr = @ \ {"ctx", "rom", "ram"}], blocks)

DldInstantiate(w, n_rom, n_ram, fail) ==
  IF ~DldSupports(n_rom, n_ram) \/ fail = "ctx" THEN SetContext(w, NoMbc, {})
  ELSE LET gotRam == n_ram = 1 /\ fail # "ram"
       IN  SetContext(w, Context("dld", n_rom, n_ram, gotRam),
                      {"ctx"} \cup (IF gotRam THEN {"ram"} ELSE {}))

MutMbc1Instantiate(w, n_rom, n_ram, fail) ==   \* what was allocated is not freed on failure
  IF ~Mbc1Supports(n_rom, n_ram) \/ fail = "ctx" THEN SetContext(w, NoMbc, {})
  ELSE IF fail = "rom" THEN SetContext(Take(w, {"ctx"}), NoMbc, {})
  ELSE IF n_ram > 0 /\ fail = "ram" THEN SetContext(Take(w, {"ctx", "rom"}), NoMbc, {})
  ELSE SetContext(w, Context("mbc1", n_rom, n_ram, n_ram > 0),
                  {"ctx", "rom"} \cup (IF n_ram > 0 THEN {"ram"} ELSE {}))
Mbc1Instantiate(w, n_rom, n_ram, fail) ==
  IF ~Mbc1Supports(n_rom, n_ram) \/ fail = "ctx" THEN SetContext(w, NoMbc, {})
  ELSE IF fail = "rom" THEN SetContext(Free(Take(w, {"ctx"}), {"ctx"}), NoMbc, {})
  ELSE IF n_ram > 0 /\ fail = "ram"
       THEN SetContext(Free(Take(w, {"ctx", "rom"}), {"rom", "ctx"}), NoMbc, {})
  ELSE SetContext(w, Context("mbc1", n_rom, n_ram, n_ram > 0),
                  {"ctx", "rom"} \cup (IF n_ram > 0 THEN {"ram"} ELSE {}))

RomRamCase(w, n_rom, n_ram, fail) ==
  IF n_ram = 0 THEN w ELSE DldInstantiate(w, n_rom, n_ram, fail)
ByType(w, type, n_rom, n_ram, fail) ==
  CASE type = RomOnly ->   \* no break: the next case follows
         IF n_ram # 0 THEN w
         ELSE RomRamCase(DldInstantiate(w, n_rom, 0, fail), n_rom, n_ram, fail)
    [] type \in RomRam -> RomRamCase(w, n_rom, n_ram, fail)
    [] type = Mbc1Only -> IF n_ram # 0 THEN w ELSE Mbc1Instantiate(w, n_rom, n_ram, fail)
    [] type \in Mbc1Ram -> IF n_ram = 0 THEN w ELSE Mbc1Instantiate(w, n_rom, n_ram, fail)
    [] OTHER -> w

MbcCleanup(w) == [Free(w, {"ctx", "rom", "ram", "mbc"}) EXCEPT !.mbc = NoMbc]

MbcCreate(w, h, fail) ==
  IF ~Running(w) THEN w
  ELSE IF ~TypeIsValid(h.type) \/ ~RomSizeIsValid(h.rom) \/ ~RamSizeIsValid(h.ram)
            \/ fail = "mbc"
  THEN [w EXCEPT !.out = "err"]
  ELSE LET made == ByType(Take(w, {"mbc"}), h.type, RomBanks(h.rom), RamBanks(h.ram), fail)
       IN  IF made.mbc = NoMbc THEN [MbcCleanup(made) EXCEPT !.out = "err"] ELSE made

-----------------------------------------------------------------------------
(* The cartridge.                                                          *)

CartridgeFree(w) ==
  [Free(MbcCleanup(Free(w, {"rom_path", "ram_path", "save_path"})), {"cart"})
     EXCEPT !.file = "none"]

FindRom(w, fail) ==
  LET located == Check(Alloc(Alloc(Alloc(Alloc(w, "cart", fail), "data_path", fail),
                                   "save_path", fail), "rom_path", fail),
                       fail # "path_info")
  IN  Alloc(located, "rom_file", fail)
ParseRom(w, h, fail) ==
  LET made == MbcCreate(Check(w, h.size >= 336), h, fail)
  IN  IF Running(made) THEN [made EXCEPT !.mbc = MbcLoadRom(made.mbc, h.size)] ELSE made
RestoreRam(w, h, save, fail) ==
  IF ~Running(w) \/ ~ContainsBattery(h.type) THEN w
  ELSE LET named == Alloc(w, "ram_path", fail)
           read == IF save = NoFile THEN named ELSE Alloc(named, "ram_file", fail)
       IN  IF Running(read) THEN [read EXCEPT !.mbc = MbcLoadRam(read.mbc, save)] ELSE read

CartridgeCreate(f, save, fail) ==
  LET h == HeaderOf[f]
      made == RestoreRam(ParseRom(FindRom(s, fail), h, fail), h, save, fail)
      clean == Free(made, {"data_path", "rom_file", "ram_file"})
  IN  [(IF Running(made) THEN [clean EXCEPT !.file = f] ELSE CartridgeFree(clean))
         EXCEPT !.out = IF Running(made) THEN "exit" ELSE "err"]

LoadRom(f, fail) ==
  /\ ~s.gCart
  /\ saving = NoFile
  /\ LET made == CartridgeCreate(f, saves[f], fail)
         loaded == IF made.out = "err" THEN made
                   ELSE IF made.mCart THEN CartridgeFree(made)
                   ELSE [made EXCEPT !.mCart = TRUE, !.gCart = TRUE]
     IN  s' = [loaded EXCEPT !.out = "run"]
  /\ UNCHANGED <<saves, saving, writes>>

\* gboy_eject_cart: the cartridge goes without being saved.
EjectCart ==
  /\ saving = NoFile
  /\ s' = [CartridgeFree([s EXCEPT !.mCart = FALSE]) EXCEPT !.gCart = FALSE]
  /\ UNCHANGED <<saves, saving, writes>>

\* The bytes that are written to the file.
MutDumpRam(c) == [i \in {i \in DOMAIN c.ram : i < RamBankSize} |-> c.ram[i]]   \* one bank only
DumpRam(c) == c.ram

\* cartridge_save as far as the file is opened, which empties it.  mbc_dump_ram does not
\* look whether its buffer was allocated: without it the program crashes.  A directory
\* or a file that cannot be had leaves everything as it was.  The copy is one step: it
\* takes no lock, so the machine must not write just then; later it may.
HasSave == s.gCart /\ "ram_path" \in s.ptr /\ s.mbc.hasRam
SaveFailures == {"nothing", "dump", "directory", "open"}
SaveBegin(fail) ==
  /\ saving = NoFile
  /\ HasSave
  /\ \/ /\ fail = "nothing"
        /\ s' = Take(s, {"dump"})
        /\ saving' = DumpRam(s.mbc)
        /\ saves' = [saves EXCEPT ![s.file] = EmptyFile]
     \/ /\ fail \in {"directory", "open"}
        /\ s' = Free(Take(s, {"dump"}), {"dump"})
        /\ UNCHANGED <<saves, saving>>
     \/ /\ fail = "dump"
        /\ s' = PowerUp
        /\ UNCHANGED <<saves, saving>>
  /\ UNCHANGED writes

\* The bytes up to the next place where the write may be interrupted are in the file.
SaveWrite ==
  /\ saving # NoFile
  /\ \E length \in TornLengths \cup {s.mbc.ram_size} :
       LET written == {i \in DOMAIN saving : i < length}
       IN  /\ DOMAIN saves[s.file] \subseteq written /\ written # DOMAIN saves[s.file]
           /\ saves' = [saves EXCEPT ![s.file] = [i \in written |-> saving[i]]]
  /\ UNCHANGED <<s, saving, writes>>

\* The end of cartridge_save: a success only if every byte was written.
SaveEnd(ok) ==
  /\ saving # NoFile
  /\ ok => saves[s.file] = saving
  /\ s' = Free(s, {"dump"})
  /\ saving' = NoFile
  /\ UNCHANGED <<saves, writes>>

-----------------------------------------------------------------------------
BusWrite(bus, addr, value) ==
  /\ writes < MaxWrites
  /\ s' \in MmuWrite(s, bus, addr, value)
  /\ writes' = writes + 1
  /\ UNCHANGED <<saves, saving>>

\* cartridge_write on the registers of the controller, which no bus reaches.
ControllerWrite(addr, value) ==
  /\ writes < MaxWrites
  /\ InRom(addr) /\ s.gCart
  /\ s' = [s EXCEPT !.mbc = MbcWrite(s.mbc, addr, value)]
  /\ writes' = writes + 1
  /\ UNCHANGED <<saves, saving>>

\* The program ends, or is ended, in the middle of a save, too, and is started again.
Restart == s' = PowerUp /\ saving' = NoFile /\ UNCHANGED <<saves, writes>>

Next ==
  \/ \E f \in Files : \E fail \in FailuresOf[f] : LoadRom(f, fail)
  \/ EjectCart
  \/ \E fail \in SaveFailures : SaveBegin(fail)
  \/ SaveWrite
  \/ \E ok \in BOOLEAN : SaveEnd(ok)
  \/ \E bus \in Buses, addr \in Addrs : \E v \in ValuesAt[addr] : BusWrite(bus, addr, v)
  \/ \E addr \in Addrs : \E v \in ValuesAt[addr] : ControllerWrite(addr, v)
  \/ Restart

Spec == Init /\ [][Next]_vars

-----------------------------------------------------------------------------
\* Whatever call fails while a cartridge is made, and in whatever order cartridges are
\* inserted, saved and ejected: each block that is allocated belongs to the cartridge
\* that gboy.c holds and is allocated once, and the unit holds that cartridge, too; the
\* copy of the RAM is allocated while it is saved, and only then.
NothingLeaks ==
  /\ \A b \in OwnBlocks : s.heap[b] = IF b \in s.ptr THEN 1 ELSE 0
  /\ \A b \in TempBlocks : s.heap[b] = IF b = "dump" /\ saving # NoFile THEN 1 ELSE 0
  /\ s.gCart = ("cart" \in s.ptr) /\ s.gCart = s.mCart
  /\ s.gCart => s.mbc.iface \in {"dld", "mbc1"} /\ {"rom_path", "save_path", "mbc", "ctx"} \subseteq s.ptr
  /\ ~s.gCart => s.ptr = {}

\* Whatever the registers of a bank controller hold, an address of the cartridge is
\* translated to a byte that was allocated for its ROM or its RAM.
InBounds ==
  s.gCart /\ s.mbc.iface = "mbc1" =>
    /\ \A a \in {x \in Addrs : InRom(x)} : CalcRomAddr(s.mbc, a) \in 0..(s.mbc.rom_size - 1)
    /\ s.mbc.hasRam =>
         \A a \in RamAddrs : /\ CalcRamAddr(s.mbc, a) \in 0..(s.mbc.ram_size - 1)
                             /\ CalcRamAddr(s.mbc, a) \in DOMAIN s.mbc.ram
=============================================================================
