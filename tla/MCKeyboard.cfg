\* macOS: both Shifts, left Command, Caps Lock, Fn, F15 (which escapes).
\* Windows: A, F13 (which has no usage), left Shift, Scroll Lock (which escapes).
SPECIFICATION Spec
CONSTANTS
  MacKeys = {56, 60, 55, 57, 63, 113}
  WinKeys = {65, 124, 160, 145}
INVARIANT FreshKeysAreRight
