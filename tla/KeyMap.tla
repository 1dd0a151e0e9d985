-------------------------------- MODULE KeyMap --------------------------------
(***************************************************************************)
(* Key codes: those of macOS and of Windows, and the USB HID usages of     *)
(* src/core/keymap.h that travel between machines.                         *)
(***************************************************************************)
EXTENDS Integers, Sequences, FiniteSetsExt

NoKey == 0          \* the HID usage of a key that has none,
NoMacKey == \hFFFF  \* the macOS key of a usage that has none,
NoWinKey == 0       \* and the Windows key

\* vk_to_hid_table: entry vk + 1 is the usage of the macOS key vk.
MacTable == <<
    \h04, \h16, \h07, \h09, \h0B, \h0A, \h1D, \h1B, \h06, \h19, \h64, \h05, \h14, \h1A, \h08, \h15,
    \h1C, \h17, \h1E, \h1F, \h20, \h21, \h23, \h22, \h2E, \h26, \h24, \h2D, \h25, \h27, \h30, \h12,
    \h18, \h2F, \h0C, \h13, \h28, \h0F, \h0D, \h34, \h0E, \h33, \h31, \h36, \h38, \h11, \h10, \h37,
    \h2B, \h2C, \h35, \h2A, \h00, \h29, \hE7, \hE3, \hE1, \h39, \hE2, \hE0, \hE5, \hE6, \hE4, \h00,
    \h00, \h00, \h00, \h55, \h00, \h57, \h00, \h53, \h00, \h00, \h00, \h54, \h58, \h00, \h56, \h00,
    \h00, \h67, \h62, \h59, \h5A, \h5B, \h5C, \h5D, \h5E, \h5F, \h00, \h60, \h61, \h00, \h00, \h00,
    \h44, \h45, \h40, \h3E, \h41, \h42, \h00, \h43, \h00, \h46, \h00, \h47, \h00, \h3F, \h00, \h44,
    \h00, \h48, \h49, \h4A, \h4B, \h4C, \h3D, \h4D, \h3C, \h4E, \h3A, \h50, \h4F, \h51, \h52, \h00 >>

macos_vk_to_hid == [vk \in 0 .. 255 |-> IF vk < Len(MacTable) THEN MacTable[vk + 1] ELSE NoKey]

\* The first key of the table with that usage; NoMacKey when there is none.
hid_to_macos_vk ==
  [hid \in 0 .. 255 |->
     LET vks == {vk \in 0 .. Len(MacTable) - 1 : macos_vk_to_hid[vk] = hid}
     IN  IF vks = {} THEN NoMacKey ELSE Min(vks)]

\* The switch of win_vk_to_hid, run by run: Windows keys from vks[1] to vks[2] have
\* the usages from hid on.
WinRuns == {
  [vks |-> <<\h41, \h5A>>, hid |-> \h04],   [vks |-> <<\h31, \h39>>, hid |-> \h1E],
  [vks |-> <<\h30, \h30>>, hid |-> \h27],   [vks |-> <<\h0D, \h0D>>, hid |-> \h28],
  [vks |-> <<\h1B, \h1B>>, hid |-> \h29],   [vks |-> <<\h08, \h09>>, hid |-> \h2A],
  [vks |-> <<\h20, \h20>>, hid |-> \h2C],   [vks |-> <<\hBD, \hBD>>, hid |-> \h2D],
  [vks |-> <<\hBB, \hBB>>, hid |-> \h2E],   [vks |-> <<\h70, \h7B>>, hid |-> \h3A],
  [vks |-> <<\h2D, \h2D>>, hid |-> \h49],   [vks |-> <<\h24, \h24>>, hid |-> \h4A],
  [vks |-> <<\h21, \h21>>, hid |-> \h4B],   [vks |-> <<\h2E, \h2E>>, hid |-> \h4C],
  [vks |-> <<\h23, \h23>>, hid |-> \h4D],   [vks |-> <<\h22, \h22>>, hid |-> \h4E],
  [vks |-> <<\h27, \h27>>, hid |-> \h4F],   [vks |-> <<\h25, \h25>>, hid |-> \h50],
  [vks |-> <<\h28, \h28>>, hid |-> \h51],   [vks |-> <<\h26, \h26>>, hid |-> \h52],
  [vks |-> <<\hA2, \hA2>>, hid |-> \hE0],   [vks |-> <<\hA0, \hA0>>, hid |-> \hE1],
  [vks |-> <<\hA4, \hA4>>, hid |-> \hE2],   [vks |-> <<\h5B, \h5B>>, hid |-> \hE3],
  [vks |-> <<\hA3, \hA3>>, hid |-> \hE4],   [vks |-> <<\hA1, \hA1>>, hid |-> \hE5],
  [vks |-> <<\hA5, \hA5>>, hid |-> \hE6],   [vks |-> <<\h5C, \h5C>>, hid |-> \hE7] }

win_vk_to_hid ==
  [vk \in 0 .. 255 |->
     LET runs == {r \in WinRuns : r.vks[1] <= vk /\ vk <= r.vks[2]}
         run  == CHOOSE r \in runs : TRUE
     IN  IF runs = {} THEN NoKey ELSE run.hid + vk - run.vks[1]]

\* The first of the 256 keys with that usage, if there is one.
hid_to_win_vk ==
  [hid \in 0 .. 255 |->
     LET vks == {vk \in 0 .. 255 : win_vk_to_hid[vk] = hid}
     IN  IF vks = {} THEN NoWinKey ELSE Min(vks)]

\* The macOS keys that come as a change of flags.  The modifiers: a left and a right
\* one share the flag that is set while either is down.  Caps Lock: its flag is a
\* toggle.  Fn, whose flag nobody looks at.
ModifierClass == {{\h38, \h3C}, {\h3B, \h3E}, {\h3A, \h3D}, {\h37, \h36}}
CapsLock == \h39
Fn       == \h3F
FlagKeys == (UNION ModifierClass) \cup {CapsLock, Fn}

\* The macOS keys F1 to F12, and the Windows keys.
MacF == <<\h7A, \h78, \h63, \h76, \h60, \h61, \h62, \h64, \h65, \h6D, \h67, \h6F>>
WinF == [n \in 1 .. 12 |-> \h70 + n - 1]
===============================================================================
