------------------------------- MODULE MCPpu -------------------------------
(* Instance of Ppu for TLC: tiles of two pixels, a fetch of two steps,     *)
(* lines of five pixels, four objects of which two fit on a line.          *)
EXTENDS PpuInv

At(x, y) == [y |-> y, x |-> x, flip |-> FALSE]

MCOams ==
  {[i \in 0 .. 3 |-> m[i + 1]] : m \in
     {<<At(4, 4), At(4, 4), At(3, 4), At(1, 4)>>,
      <<Blank, At(0, 4), At(1, 4), Blank>>,
      <<At(2, 5), At(6, 4), At(4, 3), At(2, 5)>>}}

MCValues ==
  [on |-> {TRUE}, objOn |-> BOOLEAN, winOn |-> BOOLEAN, wx |-> {0, 3}, wy |-> {0, 1}]
=============================================================================
