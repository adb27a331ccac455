------------------------------- MODULE MCLcd -------------------------------
(***************************************************************************)
(* Instances of Lcd for TLC.                                               *)
(***************************************************************************)
EXTENDS LcdInv

VARIABLE slowed   \* history: the speed has not been above the boundary all the time

\* Paused and slow (debug path), the boundary of 2 itself (streamed, but not slow for
\* window_update), and fast (normal path).
SpeedsAround == {0, 1, 2, 3}

MCInit == Init /\ slowed = ~NormalMode
MCNext == Next /\ slowed' = (slowed \/ ~NormalMode')
MCSpec == MCInit /\ [][MCNext]_<<vars, slowed>>

\* The emulator is powered on above the boundary and stays there.
InitNormal == MCInit /\ NormalMode
SpecNormal == InitNormal /\ [][MCNext /\ NormalMode']_<<vars, slowed>>

Whole(picture) == \A p, q \in Pixels : picture[p] = picture[q]

\* As long as the speed stays above the boundary: neither thread is on its debug path,
\* the two buffers that are not being written are whole, every pixel the writer has
\* reached shows its frame, and the texture is a copy of the buffer of the UI thread
\* up to the pixel it has reached.
WholeInv ==
  ~slowed =>
    /\ NormalMode
    /\ emu # "locked" /\ ui \notin {"lock", "copy"}
    /\ Whole(buffers[readyIndex]) /\ Whole(buffers[drawIndex])
    /\ \A p \in Pixels : p < emuPixel => buffers[writeIndex][p] = frame
    /\ ui = "draw" => \A p \in Pixels : p < uiPixel => texture[p] = buffers[drawIndex][p]
    /\ Whole(shown)

\* Only completed frames reach the window, never a mixture of two frames, as long as
\* lcd_write_pixel and lcd_request_draw_buffer stay on their normal path.
NormalFrameIsWhole == ~slowed => ShownFrameIsWhole
=============================================================================
