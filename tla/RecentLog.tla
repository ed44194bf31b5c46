----------------------------- MODULE RecentLog ------------------------------
(***************************************************************************)
(* What the log, metrics and trace stores promise their readers: a window  *)
(* on the most recent entries, oldest first, that forgets the oldest entry *)
(* when it is full.  RingStore shows that the ring buffers of the code     *)
(* implement it; Hub builds on it.                                         *)
(***************************************************************************)
EXTENDS Naturals, Sequences

CONSTANTS
  Entry,    \* what is stored
  MaxSize   \* how many entries are kept, at least one

VARIABLE window

Push(w, e) == Append(IF Len(w) < MaxSize THEN w ELSE Tail(w), e)

\* The last n entries of w.
LastOf(w, n) == IF n >= Len(w) THEN w ELSE SubSeq(w, Len(w) - n + 1, Len(w))

\* The entries of w that are wanted, in their order.
Matching(w, wanted) ==
  LET upTo[i \in 0 .. Len(w)] ==
        IF i = 0 THEN <<>>
        ELSE IF w[i] \in wanted THEN Append(upTo[i - 1], w[i]) ELSE upTo[i - 1]
  IN upTo[Len(w)]

Init == window = <<>>

Add(e) == window' = Push(window, e)

Next == \E e \in Entry : Add(e)

Spec == Init /\ [][Next]_window
=============================================================================
