------------------------------- MODULE MCWire -------------------------------
(* The bytes that Wire sends on its instance for TLC. *)
EXTENDS Wire

\* A short text, and one whose length takes two bytes.
MCTexts == {<<200>>, [i \in 1 .. 128 |-> 65]}

\* A number of two groups, and minus one.
MCNumbers == {300, Words - 1}

\* Fields numbered 15, 20 and 100: a varint, eight bytes, a text, a group with
\* a varint in it, four bytes.
MCUnknown ==
  {<<120, 172, 2>>, <<161, 6>> \o [i \in 1 .. 8 |-> 255], <<162, 1, 2, 7, 8>>,
   <<123, 8, 1, 124>>, <<125, 1, 2, 3, 4>>}
=============================================================================
