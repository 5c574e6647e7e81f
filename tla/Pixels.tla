------------------------------- MODULE Pixels -------------------------------
(***************************************************************************)
(* Which pixel shows what.  The frame buffer of emulator/main.c shows the  *)
(* CPU's registers and the first 8 KiB of work RAM, one pixel each; the    *)
(* X11 driver scales the frame to the window by picking, for each pixel of *)
(* the window, the column and the row of the frame it lies on.             *)
(***************************************************************************)
EXTENDS Naturals

\* The frame, <<KM8_FRAME_WIDTH, KM8_FRAME_HEIGHT>>, and what it shows.
KM8_FRAME == <<256, 144>>
REGISTER_COUNT == 12
ShownWram == 8192

\* fill_mem_view: <<x, y>> of a register and of a byte of work RAM.
RegisterPixel(i) == <<i * 2 + 1, 1>>
WramPixel(i) == <<(i % 128) * 2 + 1, 3 + (i \div 128) * 2>>

\* Mutation: scaled so that the last column would fall on the last column.
Source_EndToEnd(i, from, to) == (i * (from - 1)) \div to

\* src_x and src_y of km8_platform_window_present: the column (or row), of
\* "from" of them, that column i of "to" shows.
Source(i, from, to) ==
  LET s == (i * from) \div to
  IN  IF s >= from THEN from - 1 ELSE s
=============================================================================
