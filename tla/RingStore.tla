----------------------------- MODULE RingStore ------------------------------
(***************************************************************************)
(* The ring buffer of the log store (logstore/store.go) and of the metrics *)
(* store (metricsstore/store.go), which is the same code for another entry *)
(* type: a fixed array, the index of the next slot and the number of slots *)
(* in use.  Add and Recent hold the store's lock from end to end, so each  *)
(* is one step here; what Add sends to subscribers after it has unlocked   *)
(* belongs to Hub.                                                         *)
(***************************************************************************)
EXTENDS Integers, Sequences

CONSTANTS
  Entry,      \* log lines, metrics snapshots or spans
  NoEntry,    \* the zero value of a slot not yet written
  MaxSize     \* the size of the ring

ASSUME RingAssumption ==
  /\ MaxSize \in Nat \ {0}
  /\ NoEntry \notin Entry

VARIABLES entries, head, count

vars == <<entries, head, count>>

Slots == 0 .. MaxSize - 1

Init ==
  /\ entries = [i \in Slots |-> NoEntry]
  /\ head = 0
  /\ count = 0

\* Mutant of Add: the count is not raised for the last free slot.
AddCountsShort(e) ==
  /\ entries' = [entries EXCEPT ![head] = e]
  /\ head' = (head + 1) % MaxSize
  /\ count' = IF count < MaxSize - 1 THEN count + 1 ELSE count

Add(e) ==
  /\ entries' = [entries EXCEPT ![head] = e]
  /\ head' = (head + 1) % MaxSize
  /\ count' = IF count < MaxSize THEN count + 1 ELSE count

Next == \E e \in Entry : Add(e)

Spec == Init /\ [][Next]_vars

-----------------------------------------------------------------------------
(* Recent(n, service) *)

\* Mutant of Back: one slot too far back.
BackFromHead(i) == (head - 2 - i + MaxSize) % MaxSize

\* The slot of the entry i places before the newest.
Back(i) == (head - 1 - i + MaxSize) % MaxSize

\* The loop of Recent: from the newest entry back, until n entries pass the
\* filter, which is the set of wanted entries.
Collected(n, wanted) ==
  LET walk[i \in 0 .. count] ==
        IF i = 0 THEN <<>>
        ELSE IF Len(walk[i - 1]) < n /\ entries[Back(i - 1)] \in wanted
             THEN Append(walk[i - 1], entries[Back(i - 1)])
             ELSE walk[i - 1]
  IN walk[count]

\* The swaps at its end, which put the entries in chronological order.
Chronological(s) == [i \in 1 .. Len(s) |-> s[Len(s) + 1 - i]]

Recent(n, wanted) == Chronological(Collected(n, wanted))

-----------------------------------------------------------------------------
(* Refinement *)

\* The slot of the i-th oldest entry of the ring, and the window the ring holds.
SlotOf(i) ==
  IF head - count + i - 1 >= 0 THEN head - count + i - 1 ELSE head - count + i - 1 + MaxSize

Window == [i \in 1 .. count |-> entries[SlotOf(i)]]

Log == INSTANCE RecentLog WITH window <- Window

\* The ring implements the window on the most recent entries, wraps included
\* (logstore/store.go:38-45).
ImplementsRecentLog == Log!Spec

-----------------------------------------------------------------------------
(* Properties *)

\* The indices stay inside the array, and the slots in use are those written,
\* which are the first ones until the ring is full.
TypeOK ==
  /\ entries \in [Slots -> Entry \cup {NoEntry}]
  /\ head \in Slots
  /\ count \in 0 .. MaxSize
  /\ count < MaxSize => head = count
  /\ \A i \in Slots : entries[i] = NoEntry <=> i >= count

\* Recent returns the last n entries of the window that pass the filter, in
\* chronological order, for every n and every filter: the walk back from the
\* head and the swaps at the end (logstore/store.go:62-80) agree with what the
\* window says, before and after the ring has wrapped.
RecentIsLast ==
  \A n \in 0 .. MaxSize + 1, wanted \in SUBSET Entry :
    Recent(n, wanted) = Log!LastOf(Log!Matching(Window, wanted), n)
=============================================================================
