------------------------------ MODULE MCKeyboard ------------------------------
(***************************************************************************)
(* Keyboard for TLC, and which keys of whole keyboards can be told apart.  *)
(***************************************************************************)
EXTENDS Keyboard

\* Keys that a client has a key for, but may show down when they are up, or up when
\* they are down.
Confused(h, s, keys) == {vk \in keys : HasKey(h, s, vk) /\ ~Distinct(h, s, keys, vk)}

\* keymap.cpp: no two keys of a Windows keyboard are confused on any client ...
ASSUME WindowsKeysDistinct == \A s \in System : Confused("windows", s, 1 .. 255) = {}

\* ... and of a macOS keyboard F5 with F12, the right modifiers with the left, and Caps
\* Lock, if the client has it.
F5AndF12 == {MacF[5], MacF[12]}
ASSUME MacKeysDistinct ==
  /\ Confused("mac", "windows", 0 .. 127) = F5AndF12 \cup (UNION ModifierClass)
  /\ Confused("mac", "mac", 0 .. 127) = F5AndF12 \cup (UNION ModifierClass) \cup {CapsLock}

\* With one modifier of each kind in use, these are not confused.
RightModifiers == {\h3C, \h3E, \h3D, \h36}
ASSUME LeftModifiersDistinct ==
  \A s \in System :
    Confused("mac", s, (0 .. 127) \ RightModifiers) \subseteq F5AndF12 \cup {CapsLock}
===============================================================================
