------------------------------ MODULE MCMemory ------------------------------
(***************************************************************************)
(* Instance of Memory for TLC, with what was written (memory) and saved    *)
(* (kept) as history.  The addresses are ends of the regions, the values   *)
(* of the registers those that select something else.  No write follows    *)
(* one behind the banks of the work RAM: nothing is said of what comes     *)
(* after it.                                                               *)
(***************************************************************************)
EXTENDS Memory

VARIABLES
  shadow,   \* what was written last at each place of the memory map
  kept      \* for each ROM file, the RAM that the last save to open its file found, and
            \* whether that save was done

mcVars == <<vars, shadow, kept>>

MCRamAddrs == {40960, 49151}
MCAddrs ==
  {0, 255, 256, 8192, 16384, 24576, 32767, 40959, 49152, 53248, 57344, 61440, 65024, 65184,
   65345, 65360, 65392, 65534, 65535} \cup MCRamAddrs
MCValuesAt ==
  [a \in MCAddrs |->
     CASE a = 0 -> {10, 2} [] a = 8192 -> {31} [] a = 16384 -> {7} [] a = 24576 -> {1}
       [] a = 65345 -> {2, 7} [] a = 65392 -> {1, 7}
       [] a \in {255, 256, 32767, 49151, 49152, 61440, 65184, 65360, 65534, 65535} -> {}
     [] OTHER -> {1}]
MCHeaderOf ==
  [plain |-> [type |-> 0, rom |-> 0, ram |-> 0, size |-> 32768],
   odd |-> [type |-> 0, rom |-> 0, ram |-> 2, size |-> 32768],
   small |-> [type |-> 9, rom |-> 0, ram |-> 2, size |-> 400],
   banked |-> [type |-> 3, rom |-> 2, ram |-> 3, size |-> 131072],
   large |-> [type |-> 1, rom |-> 6, ram |-> 0, size |-> 2097152],
   uneven |-> [type |-> 2, rom |-> 82, ram |-> 3, size |-> 1179648],
   torn |-> [type |-> 2, rom |-> 2, ram |-> 3, size |-> 100]]
MCFailuresOf ==
  [plain |-> {"nothing", "ctx"}, odd |-> {"nothing"}, small |-> {"nothing", "ram"},
   banked |-> AllFailures, large |-> {"nothing"}, uneven |-> {"nothing"}, torn |-> {"nothing"}]

-----------------------------------------------------------------------------
(* The place an address stands for, from the memory map (memory_map.h): the *)
(* echo mirrors the work RAM, and each value of SVBK selects a bank of its  *)
(* upper half.                                                              *)

Place(m, a) ==
  CASE InRam(a) ->
         <<"cart", IF m.mbc.iface = "mbc1" /\ m.mbc.banking_mode = 1
                   THEN m.mbc.ram_bank_number % m.mbc.ram_banks ELSE 0, a>>
    [] InWram(a) \/ InEcho(a) ->
         LET w == IF InEcho(a) THEN a - 8192 ELSE a
         IN  <<"work", IF w < 53248 THEN -1 ELSE Register(m, RegSvbk) % 8, w>>
    [] OTHER -> <<"other", 0, a>>

Locked(m, bus, a) ==
  /\ bus = "CPU"
  /\ PpuMode(m) \in (IF InVram(a) THEN {3} ELSE IF InOam(a) THEN {2, 3} ELSE {})
Present(m, a) ==
  ~InRom(a) /\ ~InProhibited(a)
    /\ (InRam(a) => m.gCart /\ m.mbc.hasRam /\ (m.mbc.iface = "mbc1" => RamEnabled(m.mbc)))

NothingWritten == [p \in {} |-> OpenBus]
NeverSaved == [ram |-> NoFile, done |-> FALSE]
MCInit == Init /\ shadow = NothingWritten /\ kept = [f \in Files |-> NeverSaved]

With(written, place, byte) ==
  [p \in DOMAIN written \cup {place} |-> IF p = place THEN byte ELSE written[p]]
Remember(bus, a, v) ==
  IF Present(s, a) /\ ~Locked(s, bus, a) THEN With(shadow, Place(s, a), Byte(v)) ELSE shadow
OfCart(p) == p[1] = "cart"
WithoutCart == [p \in {x \in DOMAIN shadow : ~OfCart(x)} |-> shadow[p]]

Begun == [kept EXCEPT ![s.file] = [ram |-> s.mbc.ram, done |-> FALSE]]
Done == [kept EXCEPT ![s.file] = [ram |-> @.ram, done |-> TRUE]]

MCNext ==
  \/ \E f \in Files : \E fail \in FailuresOf[f] :
       LoadRom(f, fail) /\ UNCHANGED <<shadow, kept>>
  \/ EjectCart /\ shadow' = WithoutCart /\ UNCHANGED kept
  \/ \E fail \in SaveFailures :
       /\ SaveBegin(fail)
       /\ shadow' = IF fail = "dump" THEN NothingWritten ELSE shadow
       /\ kept' = IF fail = "nothing" THEN Begun ELSE kept
  \/ SaveWrite /\ UNCHANGED <<shadow, kept>>
  \/ \E ok \in BOOLEAN : SaveEnd(ok) /\ kept' = (IF ok THEN Done ELSE kept) /\ UNCHANGED shadow
  \/ \E bus \in Buses, addr \in Addrs : \E v \in ValuesAt[addr] :
       ~s.wild /\ BusWrite(bus, addr, v) /\ shadow' = Remember(bus, addr, v) /\ UNCHANGED kept
  \/ \E addr \in Addrs : \E v \in ValuesAt[addr] :
       ControllerWrite(addr, v) /\ UNCHANGED <<shadow, kept>>
  \/ Restart /\ shadow' = NothingWritten /\ UNCHANGED kept
MCSpec == MCInit /\ [][MCNext]_mcVars

-----------------------------------------------------------------------------
\* A byte is read back, over every bus, as it was last written at its place of the
\* memory map, by whatever address and under whatever bank registers it is reached;
\* where the display holds the memory, the CPU reads the open bus.  (Nothing is said
\* once a write went behind the banks of the work RAM.)
ReadsLastWrite ==
  ~s.wild =>
    \A a \in {x \in Addrs : Present(s, x)}, bus \in Buses :
      IF Locked(s, bus, a) THEN MmuRead(s, bus, a) = OpenBus
      ELSE /\ Place(s, a) \in DOMAIN shadow => MmuRead(s, bus, a) = shadow[Place(s, a)]
           /\ Place(s, a) \notin DOMAIN shadow =>
                InRam(a) \/ Place(s, a)[2] = 7 \/ MmuRead(s, bus, a) = Byte(0)

\* What cartridge_save found in the RAM of a cartridge with a battery, the last time that
\* it opened the file of that RAM, is what the cartridge has when the same ROM is inserted
\* next, as far as the RAM can be allocated: all of it if that save was done, and if it
\* failed, or the program ended before it was done, a first part of it with nothing
\* behind.  A save that fails before it opens the file leaves the earlier one; a save that
\* opens it (SDL_SaveFile, cartridge.c:310) destroys the earlier one, done or not.
SaveRestores ==
  [][LET ram == s'.mbc.ram
         save == kept[s'.file]
     IN  /\ ~s.gCart /\ s'.gCart /\ s'.mbc.hasRam
         /\ ContainsBattery(HeaderOf[s'.file].type) /\ save.ram # NoFile
         => /\ save.done => \A i \in DOMAIN save.ram : ram[i] = save.ram[i]
            /\ \A i, j \in DOMAIN save.ram :
                 i <= j /\ ram[i] # save.ram[i] => ram[j] = Junk]_mcVars
=============================================================================
