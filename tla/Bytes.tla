--------------------------------- MODULE Bytes ---------------------------------
(***************************************************************************)
(* Byte sequences kept by their runs of equal bytes, so that a long        *)
(* message is as cheap to carry as a short one: a function from the places *)
(* where a run ends, counted from 1, to the byte it is of.  0 0 7 is the   *)
(* function that maps 2 to 0 and 3 to 7.  Equal sequences are equal        *)
(* functions.                                                              *)
(***************************************************************************)
EXTENDS Integers, Sequences, FiniteSetsExt

Byte == 0 .. 255

\* A sequence of bytes as its runs, and back.
Pack(bytes) ==
  [k \in {i \in 1 .. Len(bytes) : i = Len(bytes) \/ bytes[i] # bytes[i + 1]} |-> bytes[k]]

Size(s)      == IF DOMAIN s = {} THEN 0 ELSE Max(DOMAIN s)
ByteAt(s, k) == s[Min({d \in DOMAIN s : d >= k})]
Unpack(s)    == [k \in 1 .. Size(s) |-> ByteAt(s, k)]

IsBytes(s) ==
  /\ s = [d \in DOMAIN s |-> s[d]]
  /\ Size(s) \in Nat /\ DOMAIN s \subseteq 1 .. Size(s)
  /\ \A d \in DOMAIN s : s[d] \in Byte /\ (d = Size(s) \/ s[d] # ByteAt(s, d + 1))

\* n times the byte b.
Run(b, n) == IF n = 0 THEN <<>> ELSE [d \in {n} |-> b]

\* s followed by t: the last run of s goes on in t if the bytes are the same.
Join(s, t) ==
  LET n    == Size(s)
      goOn == {d \in {n} \cap DOMAIN s : t # <<>> /\ s[d] = ByteAt(t, 1)}
  IN  [d \in (DOMAIN s \ goOn) \cup {n + e : e \in DOMAIN t} |-> IF d <= n THEN s[d] ELSE t[d - n]]

\* Bytes first to last, counted from 1.
Slice(s, first, last) ==
  LET ends == {d \in DOMAIN s : first <= d /\ d < last} \cup {d \in {last} : first <= d}
  IN  [e \in {d - first + 1 : d \in ends} |-> ByteAt(s, e + first - 1)]

Take(s, n) == Slice(s, 1, n)
Drop(s, n) == Slice(s, n + 1, Size(s))
================================================================================
