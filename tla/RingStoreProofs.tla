--------------------------- MODULE RingStoreProofs --------------------------
(* The ring buffer implements the window on the most recent entries, and *)
(* Recent returns the last ones that match, for every size of the ring,   *)
(* every set of entries and every filter.                                 *)
EXTENDS RingStore, SequenceTheorems, WellFoundedInduction, TLAPS

\* The head advances by one and wraps at the end of the array.
LEMMA HeadWraps ==
  ASSUME NEW h \in Slots
  PROVE  (h + 1) % MaxSize = IF h = MaxSize - 1 THEN 0 ELSE h + 1
  BY RingAssumption DEF Slots

\* Every step keeps the indices inside the array.
LEMMA StepTypeOK == TypeOK /\ [Next]_vars => TypeOK'
<1> SUFFICES ASSUME TypeOK, [Next]_vars PROVE TypeOK'
  OBVIOUS
<1>1. ASSUME NEW e \in Entry, Add(e) PROVE TypeOK'
  <2>1. head \in Slots /\ head' = IF head = MaxSize - 1 THEN 0 ELSE head + 1
    BY <1>1, HeadWraps DEF Add, TypeOK
  <2> QED
    BY <1>1, <2>1, RingAssumption DEF Add, TypeOK, Slots
<1>2. CASE UNCHANGED vars
  BY <1>2 DEF vars, TypeOK
<1> QED
  BY <1>1, <1>2 DEF Next

\* In every reachable state the indices are inside the array and the slots in
\* use are the ones written (logstore/store.go:41-45).
THEOREM TypeCorrect == Spec => []TypeOK
<1>1. Init => TypeOK
  BY RingAssumption DEF Init, TypeOK, Slots
<1> QED
  BY <1>1, StepTypeOK, PTL DEF Spec

\* The window is a sequence as long as the count, taken from slots of the array.
LEMMA WindowIsSeq ==
  ASSUME TypeOK
  PROVE  /\ \A i \in 1 .. count : SlotOf(i) \in Slots /\ Window[i] = entries[SlotOf(i)]
         /\ Window \in Seq(Entry \cup {NoEntry})
         /\ Len(Window) = count
<1>1. \A i \in 1 .. count : SlotOf(i) \in Slots
  BY RingAssumption DEF TypeOK, Slots, SlotOf
<1>2. Window \in [1 .. count -> Entry \cup {NoEntry}]
  BY <1>1 DEF Window, TypeOK
<1>3. Window \in Seq(Entry \cup {NoEntry}) /\ Len(Window) = count
  BY <1>2, count \in Nat DEF TypeOK
<1> QED
  BY <1>1, <1>3 DEF Window

\* While there is room, the window grows at its end.
LEMMA AddGrows ==
  ASSUME TypeOK, TypeOK', NEW e \in Entry, Add(e), count < MaxSize
  PROVE  Window' = Append(Window, e)
<1>1. count' = count + 1 /\ head = count /\ (head' = IF head = MaxSize - 1 THEN 0 ELSE head + 1)
  BY HeadWraps DEF Add, TypeOK
<1>2. \A i \in 1 .. count + 1 : SlotOf(i)' = i - 1
  BY <1>1, RingAssumption DEF SlotOf, TypeOK, Slots
<1>3. \A i \in 1 .. count : SlotOf(i) = i - 1 /\ i - 1 # head /\ i - 1 \in Slots
  BY <1>1, RingAssumption DEF SlotOf, TypeOK, Slots
<1>4. \A i \in 1 .. count : entries'[i - 1] = entries[i - 1]
  BY <1>3 DEF Add, TypeOK
<1>5. entries'[head] = e
  BY DEF Add, TypeOK
<1>6. \A i \in 1 .. count + 1 : Window'[i] = IF i = count + 1 THEN e ELSE Window[i]
  BY <1>1, <1>2, <1>3, <1>4, <1>5 DEF Window, TypeOK
<1>7. Window' \in Seq(Entry \cup {NoEntry}) /\ Len(Window') = count + 1
  <2>1. Window' \in [1 .. count + 1 -> Entry \cup {NoEntry}]
    BY <1>1, <1>2, RingAssumption DEF Window, TypeOK, Slots
  <2> QED
    BY <2>1, count \in Nat DEF TypeOK
<1>8. LET w == Append(Window, e)
      IN  /\ w \in Seq(Entry \cup {NoEntry}) /\ Len(w) = count + 1
          /\ \A i \in 1 .. count + 1 : w[i] = IF i = count + 1 THEN e ELSE Window[i]
  BY WindowIsSeq, AppendProperties, count \in Nat DEF TypeOK
<1> QED
  BY <1>6, <1>7, <1>8, SeqEqual

\* Once it is full, the window loses its oldest entry and no other one moves.
LEMMA AddShifts ==
  ASSUME TypeOK, TypeOK', NEW e \in Entry, Add(e), count = MaxSize
  PROVE  Window' = Append(Tail(Window), e)
<1>1. count' = MaxSize /\ head \in Slots /\ (head' = IF head = MaxSize - 1 THEN 0 ELSE head + 1)
  BY HeadWraps DEF Add, TypeOK
<1>2. \A i \in 1 .. MaxSize - 1 :
        SlotOf(i)' = SlotOf(i + 1) /\ SlotOf(i + 1) # head /\ SlotOf(i + 1) \in Slots
  BY <1>1, RingAssumption DEF SlotOf, Slots
<1>3. SlotOf(MaxSize)' = head
  BY <1>1, RingAssumption DEF SlotOf, Slots
<1>4. \A i \in 1 .. MaxSize - 1 : entries'[SlotOf(i + 1)] = entries[SlotOf(i + 1)]
  BY <1>2 DEF Add, TypeOK
<1>5. entries'[head] = e
  BY DEF Add, TypeOK
<1>6. \A i \in 1 .. MaxSize : Window'[i] = IF i = MaxSize THEN e ELSE Window[i + 1]
  BY <1>1, <1>2, <1>3, <1>4, <1>5, RingAssumption DEF Window
<1>7. Window' \in Seq(Entry \cup {NoEntry}) /\ Len(Window') = MaxSize
  <2>1. Window' \in [1 .. MaxSize -> Entry \cup {NoEntry}]
    <3>1. \A i \in 1 .. MaxSize : SlotOf(i)' \in Slots
      BY <1>1, <1>2, <1>3, RingAssumption
    <3> QED
      BY <1>1, <3>1 DEF Window, TypeOK
  <2> QED
    BY <2>1, RingAssumption
<1>8. Window \in Seq(Entry \cup {NoEntry}) /\ Len(Window) = MaxSize /\ Window # <<>>
  BY WindowIsSeq, RingAssumption
<1>9. /\ Tail(Window) \in Seq(Entry \cup {NoEntry}) /\ Len(Tail(Window)) = MaxSize - 1
      /\ \A i \in 1 .. MaxSize - 1 : Tail(Window)[i] = Window[i + 1]
  BY <1>8, HeadTailProperties
<1>10. LET w == Append(Tail(Window), e)
       IN  /\ w \in Seq(Entry \cup {NoEntry}) /\ Len(w) = MaxSize
           /\ \A i \in 1 .. MaxSize : w[i] = IF i = MaxSize THEN e ELSE Window[i + 1]
  BY <1>9, AppendProperties, RingAssumption
<1> QED
  BY <1>6, <1>7, <1>10, SeqEqual

\* One Add pushes its entry on the window.
LEMMA AddPushes ==
  ASSUME TypeOK, TypeOK', NEW e \in Entry, Add(e)
  PROVE  Window' = Log!Push(Window, e)
<1>1. count \in Nat /\ count <= MaxSize /\ Len(Window) = count
  BY WindowIsSeq DEF TypeOK
<1>2. CASE count < MaxSize
  BY <1>1, <1>2, AddGrows DEF Log!Push
<1>3. CASE count = MaxSize
  BY <1>1, <1>3, AddShifts, RingAssumption DEF Log!Push
<1> QED
  BY <1>1, <1>2, <1>3, RingAssumption

\* The ring buffer implements RecentLog: however many entries are added and
\* however often the ring wraps, it holds the most recent ones in their order
\* (logstore/store.go:38-45, metricsstore/store.go:57-64).
THEOREM RingImplementsRecentLog == Spec => ImplementsRecentLog
<1>1. Init => Log!Init
  BY DEF Init, Log!Init, Window
<1>2. TypeOK /\ [Next]_vars => [Log!Next]_Window
  <2>1. ASSUME TypeOK, NEW e \in Entry, Add(e) PROVE Log!Next
    <3>1. TypeOK'
      BY <2>1, StepTypeOK DEF Next
    <3> QED
      BY <2>1, <3>1, AddPushes DEF Log!Next, Log!Add
  <2>2. ASSUME UNCHANGED vars PROVE UNCHANGED Window
    BY <2>2 DEF vars, Window, SlotOf
  <2> QED
    BY <2>1, <2>2 DEF Next
<1> QED
  BY <1>1, <1>2, TypeCorrect, PTL DEF Spec, ImplementsRecentLog, Log!Spec

-----------------------------------------------------------------------------
(* Induction, and what the recursive functions of the model come to *)

Less == OpToRel(<, Nat)

\* The order of the natural numbers is well founded, which is induction.
LEMMA LessWF == IsWellFoundedOn(Less, Nat)
  BY NatLessThanWellFounded DEF Less

LEMMA LessIs ==
  ASSUME NEW x \in Nat, NEW y \in Nat, <<x, y>> \notin Less PROVE y <= x
  BY DEF Less, OpToRel

LEMMA Least == ASSUME NEW T, T \subseteq Nat, T # {} PROVE \E x \in T : \A y \in T : x <= y
<1>1. PICK x \in T : \A y \in T : <<y, x>> \notin Less
  BY LessWF, WFMin
<1>2. ASSUME NEW y \in T PROVE x <= y
  BY <1>1, LessIs
<1> QED
  BY <1>2

LEMMA Induction ==
  ASSUME NEW S, 0 \in S, \A n \in Nat : n \in S => n + 1 \in S
  PROVE  Nat \subseteq S
<1> SUFFICES ASSUME Nat \ S # {} PROVE FALSE
  OBVIOUS
<1>1. PICK x \in Nat \ S : \A y \in Nat \ S : x <= y
  BY Least
<1>2. x # 0 /\ x - 1 \in Nat /\ x - 1 \in S /\ x - 1 + 1 = x
  BY <1>1
<1> QED
  BY <1>1, <1>2

\* A walk along 1 .. N that goes on from what it had.
IsWalk(f, N, S, s0, h) ==
  f \in [0 .. N -> S] /\ f[0] = s0 /\ \A i \in 1 .. N : f[i] = h[i][f[i - 1]]

LEMMA WalkExists ==
  ASSUME NEW N \in Nat, NEW S, NEW s0 \in S, NEW h \in [1 .. N -> [S -> S]]
  PROVE  \E f : IsWalk(f, N, S, s0, h)
<1> DEFINE Walks(n) == {f \in [0 .. n -> S] : f[0] = s0 /\ \A i \in 1 .. n : f[i] = h[i][f[i - 1]]}
           Have == {n \in Nat : n <= N => Walks(n) # {}}
<1>1. 0 \in Have
  <2>1. [i \in 0 .. 0 |-> s0] \in Walks(0)
    OBVIOUS
  <2> QED
    BY <2>1
<1>2. ASSUME NEW n \in Nat, n \in Have PROVE n + 1 \in Have
  <2> SUFFICES ASSUME n + 1 <= N PROVE Walks(n + 1) # {}
    BY <1>2
  <2>1. PICK f \in [0 .. n -> S] : f[0] = s0 /\ \A i \in 1 .. n : f[i] = h[i][f[i - 1]]
    BY <1>2
  <2>2. n + 1 \in 1 .. N /\ f[n] \in S
    BY <2>1
  <2>3. PICK s \in S : s = h[n + 1][f[n]]
    BY <2>2
  <2>4. PICK g : g = [i \in 0 .. n + 1 |-> IF i = n + 1 THEN s ELSE f[i]]
    OBVIOUS
  <2>5. g \in [0 .. n + 1 -> S]
    BY <2>1, <2>4
  <2>6. g[0] = s0
    BY <2>1, <2>4
  <2>7. ASSUME NEW i \in 1 .. n + 1 PROVE g[i] = h[i][g[i - 1]]
    <3>1. CASE i = n + 1
      BY <2>3, <2>4, <3>1
    <3>2. CASE i # n + 1
      <4>1. i \in 1 .. n /\ i - 1 \in 0 .. n /\ g[i] = f[i] /\ g[i - 1] = f[i - 1]
        BY <2>4, <3>2
      <4> QED
        BY <2>1, <4>1
    <3> QED
      BY <3>1, <3>2
  <2>8. g \in Walks(n + 1)
    BY <2>5, <2>6, <2>7
  <2> QED
    BY <2>8
<1> HIDE DEF Walks
<1>3. Nat \subseteq Have
  BY <1>1, <1>2, Induction
<1>4. Walks(N) # {}
  BY <1>3
<1> QED
  BY <1>4 DEF Walks, IsWalk

\* Two walks that begin alike and go on alike are alike.
GoAlike(f, g, N) == g[0] = f[0] /\ \A i \in 1 .. N : g[i - 1] = f[i - 1] => g[i] = f[i]

LEMMA WalksAgree ==
  ASSUME NEW N \in Nat, NEW f, NEW g, GoAlike(f, g, N)
  PROVE  g[N] = f[N]
<1> DEFINE Same == {n \in Nat : n <= N => g[n] = f[n]}
<1>1. 0 \in Same
  BY DEF GoAlike
<1>2. ASSUME NEW n \in Nat, n \in Same PROVE n + 1 \in Same
  <2>1. CASE n + 1 <= N
    <3>1. n + 1 \in 1 .. N /\ n + 1 - 1 = n /\ g[n] = f[n]
      BY <1>2, <2>1
    <3>2. g[n + 1] = f[n + 1]
      BY <3>1 DEF GoAlike
    <3> QED
      BY <3>2
  <2>2. CASE ~(n + 1 <= N)
    BY <2>2
  <2> QED
    BY <2>1, <2>2
<1> HIDE DEF Same
<1>3. Nat \subseteq Same
  BY <1>1, <1>2, Induction
<1> QED
  BY <1>3 DEF Same

\* A sequence, and one entry after it if it is wanted.
Kept(s, e, wanted) == IF e \in wanted THEN Append(s, e) ELSE s

\* What Matching goes through.
MatchWalk(upTo, E, w, wanted) ==
  /\ upTo \in [0 .. Len(w) -> Seq(E)]
  /\ upTo[0] = <<>>
  /\ \A i \in 1 .. Len(w) : upTo[i] = Kept(upTo[i - 1], w[i], wanted)

LEMMA MatchingIs ==
  ASSUME NEW E, NEW w \in Seq(E), NEW wanted
  PROVE  \E upTo : MatchWalk(upTo, E, w, wanted) /\ Log!Matching(w, wanted) = upTo[Len(w)]
<1>1. PICK N \in Nat : N = Len(w)
  OBVIOUS
<1>2. PICK S : S = Seq(E)
  OBVIOUS
<1>3. \A i \in 1 .. N, s \in S : Kept(s, w[i], wanted) \in S
  <2>1. \A i \in 1 .. N : w[i] \in E
    BY <1>1
  <2> QED
    BY <1>2, <2>1 DEF Kept
<1>4. PICK h : h = [i \in 1 .. N |-> [s \in S |-> Kept(s, w[i], wanted)]]
  OBVIOUS
<1>5. h \in [1 .. N -> [S -> S]]
  BY <1>3, <1>4
<1>6. PICK none \in S : none = <<>>
  <2>1. <<>> \in Seq(E)
    OBVIOUS
  <2> QED
    BY <1>2, <2>1
<1>16. PICK f : IsWalk(f, N, S, none, h)
  BY <1>1, <1>5, <1>6, WalkExists
<1>7. f \in [0 .. N -> S] /\ f[0] = none /\ \A i \in 1 .. N : f[i] = h[i][f[i - 1]]
  BY <1>16 DEF IsWalk
<1>8. \A i \in 1 .. N : f[i] = Kept(f[i - 1], w[i], wanted)
  <2>1. \A i \in 1 .. N, s \in S : h[i][s] = Kept(s, w[i], wanted)
    BY <1>4
  <2>2. \A i \in 1 .. N : f[i - 1] \in S
    BY <1>1, <1>7
  <2> QED
    BY <1>7, <2>1, <2>2
<1> DEFINE Walk(x) == x = [i \in 0 .. N |-> IF i = 0 THEN none ELSE Kept(x[i - 1], w[i], wanted)]
<1>9. Walk(f)
  BY <1>7, <1>8
<1>10. PICK g : g = CHOOSE x : Walk(x)
  OBVIOUS
<1>11. Walk(g)
  BY <1>9, <1>10
<1>12. Log!Matching(w, wanted) = g[N]
  BY <1>1, <1>6, <1>10, Zenon DEF Log!Matching, Kept
<1>13. g[0] = none /\ \A i \in 1 .. N : g[i] = Kept(g[i - 1], w[i], wanted)
  BY <1>11
<1> HIDE DEF Walk
<1>14. GoAlike(f, g, N)
  BY <1>7, <1>8, <1>13 DEF GoAlike
<1>15. g[N] = f[N]
  BY <1>1, <1>14, WalksAgree
<1> QED
  BY <1>1, <1>2, <1>6, <1>7, <1>8, <1>12, <1>15 DEF MatchWalk

\* The matches are some of the entries, and one more entry comes after them.
LEMMA MatchingAppend ==
  ASSUME NEW E, NEW w \in Seq(E), NEW e \in E, NEW wanted
  PROVE  /\ Log!Matching(w, wanted) \in Seq(E)
         /\ Log!Matching(Append(w, e), wanted) = Kept(Log!Matching(w, wanted), e, wanted)
<1>11. PICK v \in Seq(E) : v = Append(w, e)
  BY AppendProperties
<1>1. PICK N \in Nat : N = Len(w) /\ v = Append(w, e)
  BY <1>11
<1>2. Len(v) = N + 1 /\ (\A i \in 1 .. N : v[i] = w[i]) /\ v[N + 1] = e
  BY <1>1, AppendProperties
<1>3. PICK f : MatchWalk(f, E, w, wanted) /\ Log!Matching(w, wanted) = f[N]
  BY <1>1, MatchingIs
<1>4. PICK g : MatchWalk(g, E, v, wanted) /\ Log!Matching(v, wanted) = g[N + 1]
  BY <1>2, MatchingIs
<1>5. f[0] = <<>> /\ f[N] \in Seq(E) /\ \A i \in 1 .. N : f[i] = Kept(f[i - 1], w[i], wanted)
  BY <1>1, <1>3 DEF MatchWalk
<1>6. g[0] = <<>> /\ \A i \in 1 .. N + 1 : g[i] = Kept(g[i - 1], v[i], wanted)
  BY <1>2, <1>4 DEF MatchWalk
<1>7. GoAlike(f, g, N)
  <2>1. g[0] = f[0]
    BY <1>5, <1>6
  <2>2. ASSUME NEW i \in 1 .. N, g[i - 1] = f[i - 1] PROVE g[i] = f[i]
    <3>1. g[i] = Kept(g[i - 1], v[i], wanted) /\ v[i] = w[i]
      BY <1>2, <1>6
    <3> QED
      BY <1>5, <2>2, <3>1
  <2> QED
    BY <2>1, <2>2 DEF GoAlike
<1>8. g[N] = f[N]
  BY <1>7, WalksAgree
<1>9. N + 1 \in 1 .. N + 1 /\ N + 1 - 1 = N
  OBVIOUS
<1>10. g[N + 1] = Kept(g[N], e, wanted)
  BY <1>2, <1>6, <1>9
<1> QED
  BY <1>1, <1>3, <1>4, <1>5, <1>8, <1>10

\* If every entry is wanted, the matches are all.
LEMMA MatchingAll ==
  ASSUME NEW E, NEW w \in Seq(E), NEW wanted, \A i \in 1 .. Len(w) : w[i] \in wanted
  PROVE  Log!Matching(w, wanted) = w
<1>1. PICK N \in Nat : N = Len(w)
  OBVIOUS
<1>2. PICK f : MatchWalk(f, E, w, wanted) /\ Log!Matching(w, wanted) = f[N]
  BY <1>1, MatchingIs
<1>3. f \in [0 .. N -> Seq(E)] /\ f[0] = <<>> /\ \A i \in 1 .. N : f[i] = Kept(f[i - 1], w[i], wanted)
  BY <1>1, <1>2 DEF MatchWalk
<1> DEFINE All(i) == Len(f[i]) = i /\ \A k \in 1 .. i : f[i][k] = w[k]
           Good == {i \in Nat : i <= N => All(i)}
<1>4. 0 \in Good
  BY <1>3
<1>5. ASSUME NEW i \in Nat, i \in Good PROVE i + 1 \in Good
  <2> SUFFICES ASSUME i + 1 <= N PROVE All(i + 1)
    OBVIOUS
  <2>1. PICK j \in 1 .. N : j = i + 1 /\ j - 1 = i
    OBVIOUS
  <2>2. PICK s \in Seq(E) : s = f[i] /\ Len(s) = i /\ \A k \in 1 .. i : s[k] = w[k]
    <3>1. f[i] \in Seq(E)
      BY <1>1, <1>3, SMTT(30)
    <3>2. All(i)
      BY <1>5
    <3> QED
      BY <3>1, <3>2
  <2>3. PICK e \in E : e = w[j] /\ e \in wanted
    BY <1>1
  <2>4. f[j] = Append(s, e)
    BY <1>3, <2>1, <2>2, <2>3 DEF Kept
  <2>5. Len(f[j]) = j /\ (\A k \in 1 .. i : f[j][k] = s[k]) /\ f[j][j] = e
    BY <2>1, <2>2, <2>4, AppendProperties
  <2>6. \A k \in 1 .. j : f[j][k] = w[k]
    BY <2>1, <2>2, <2>3, <2>5
  <2> QED
    BY <2>1, <2>5, <2>6
<1> HIDE DEF Good
<1>6. Nat \subseteq Good
  BY <1>4, <1>5, Induction
<1>7. All(N)
  BY <1>6 DEF Good
<1>8. PICK s \in Seq(E) : s = f[N]
  BY <1>3
<1>9. s = w
  BY <1>1, <1>7, <1>8, SeqEqual
<1> QED
  BY <1>2, <1>8, <1>9

\* The same, while there are fewer than n.
Taken(s, e, n, wanted) == IF Len(s) < n /\ e \in wanted THEN Append(s, e) ELSE s

\* What the loop of Recent goes through.
CollectWalk(walk, E, n, wanted) ==
  /\ walk \in [0 .. count -> Seq(E)]
  /\ walk[0] = <<>>
  /\ \A i \in 1 .. count : walk[i] = Taken(walk[i - 1], entries[Back(i - 1)], n, wanted)

LEMMA CollectedIs ==
  ASSUME NEW E, NEW n \in Nat, NEW wanted, count \in Nat,
         \A i \in 1 .. count : entries[Back(i - 1)] \in E
  PROVE  \E walk : CollectWalk(walk, E, n, wanted) /\ Collected(n, wanted) = walk[count]
<1>1. PICK N \in Nat : N = count
  OBVIOUS
<1>2. PICK S : S = Seq(E)
  OBVIOUS
<1>17. PICK e : e = [i \in 1 .. N |-> entries[Back(i - 1)]]
  OBVIOUS
<1>18. \A i \in 1 .. N : e[i] \in E /\ e[i] = entries[Back(i - 1)]
  BY <1>1, <1>17
<1>3. \A i \in 1 .. N, s \in S : Taken(s, e[i], n, wanted) \in S
  BY <1>2, <1>18 DEF Taken
<1>4. PICK h : h = [i \in 1 .. N |-> [s \in S |-> Taken(s, e[i], n, wanted)]]
  OBVIOUS
<1>5. h \in [1 .. N -> [S -> S]]
  BY <1>3, <1>4
<1>6. PICK none \in S : none = <<>>
  <2>1. <<>> \in Seq(E)
    OBVIOUS
  <2> QED
    BY <1>2, <2>1
<1>16. PICK f : IsWalk(f, N, S, none, h)
  BY <1>1, <1>5, <1>6, WalkExists
<1>7. f \in [0 .. N -> S] /\ f[0] = none /\ \A i \in 1 .. N : f[i] = h[i][f[i - 1]]
  BY <1>16 DEF IsWalk
<1>8. \A i \in 1 .. N : f[i] = Taken(f[i - 1], e[i], n, wanted)
  <2>1. \A i \in 1 .. N, s \in S : h[i][s] = Taken(s, e[i], n, wanted)
    BY <1>4
  <2>2. \A i \in 1 .. N : f[i - 1] \in S
    BY <1>1, <1>7
  <2> QED
    BY <1>7, <2>1, <2>2
<1> DEFINE Walk(x) == x = [i \in 0 .. N |-> IF i = 0 THEN none ELSE Taken(x[i - 1], entries[Back(i - 1)], n, wanted)]
<1>9. Walk(f)
  BY <1>1, <1>7, <1>8, <1>18
<1>10. PICK g : g = CHOOSE x : Walk(x)
  OBVIOUS
<1>11. Walk(g)
  BY <1>9, <1>10
<1>12. Collected(n, wanted) = g[N]
  BY <1>1, <1>6, <1>10, Zenon DEF Collected, Taken
<1>13. g[0] = none /\ \A i \in 1 .. N : g[i] = Taken(g[i - 1], entries[Back(i - 1)], n, wanted)
  BY <1>1, <1>11
<1> HIDE DEF Walk
<1>14. GoAlike(f, g, N)
  BY <1>7, <1>8, <1>13, <1>18 DEF GoAlike
<1>15. g[N] = f[N]
  BY <1>1, <1>14, WalksAgree
<1> QED
  BY <1>1, <1>2, <1>6, <1>7, <1>8, <1>12, <1>15, <1>18 DEF CollectWalk

\* What appending does, told by lengths and places.
LEMMA AppendIs ==
  ASSUME NEW E, NEW s \in Seq(E), NEW e \in E
  PROVE  /\ Append(s, e) \in Seq(E) /\ Len(Append(s, e)) = Len(s) + 1
         /\ \A k \in 1 .. Len(s) : Append(s, e)[k] = s[k]
         /\ Append(s, e)[Len(s) + 1] = e
  BY AppendProperties

\* What is kept grows at its end.
Begins(s, t) == Len(s) <= Len(t) /\ \A k \in 1 .. Len(s) : t[k] = s[k]

LEMMA KeptGrows ==
  ASSUME NEW E, NEW s \in Seq(E), NEW e \in E, NEW wanted
  PROVE  /\ Kept(s, e, wanted) \in Seq(E) /\ Begins(s, Kept(s, e, wanted))
         /\ Len(Kept(s, e, wanted)) = IF e \in wanted THEN Len(s) + 1 ELSE Len(s)
         /\ e \in wanted => Kept(s, e, wanted)[Len(s) + 1] = e
<1>1. CASE e \in wanted
  BY <1>1, AppendIs DEF Kept, Begins
<1>2. CASE e \notin wanted
  BY <1>2 DEF Kept, Begins
<1> QED
  BY <1>1, <1>2

\* The matches of a part of the window are the first ones of the whole.
LEMMA MatchesBegin ==
  ASSUME NEW E, NEW N \in Nat, NEW upTo \in [0 .. N -> Seq(E)], NEW w, NEW wanted,
         \A i \in 1 .. N : w[i] \in E,
         \A i \in 1 .. N : upTo[i] = Kept(upTo[i - 1], w[i], wanted)
  PROVE  \A d \in 0 .. N : Begins(upTo[N - d], upTo[N])
<1> DEFINE Good == {d \in Nat : d <= N => Begins(upTo[N - d], upTo[N])}
<1>1. 0 \in Good
  BY DEF Begins
<1>2. ASSUME NEW d \in Nat, d \in Good PROVE d + 1 \in Good
  <2> SUFFICES ASSUME d + 1 <= N PROVE Begins(upTo[N - (d + 1)], upTo[N])
    OBVIOUS
  <2>1. PICK j \in 1 .. N : j = N - d /\ j - 1 = N - (d + 1)
    OBVIOUS
  <2>2. PICK s \in Seq(E) : s = upTo[j - 1]
    OBVIOUS
  <2>3. PICK t \in Seq(E) : t = upTo[j]
    OBVIOUS
  <2>4. PICK all \in Seq(E) : all = upTo[N]
    OBVIOUS
  <2>5. Begins(s, t)
    <3>1. PICK e \in E : e = w[j]
      OBVIOUS
    <3>2. t = Kept(s, e, wanted)
      BY <2>2, <2>3, <3>1
    <3> QED
      BY <3>2, KeptGrows
  <2>6. Begins(t, all)
    BY <1>2, <2>1, <2>3, <2>4
  <2>7. Begins(s, all)
    BY <2>5, <2>6 DEF Begins
  <2> QED
    BY <2>1, <2>2, <2>4, <2>7
<1> HIDE DEF Good
<1>3. Nat \subseteq Good
  BY <1>1, <1>2, Induction
<1> QED
  BY <1>3 DEF Good

\* The slots from the newest entry back are those of the window from its end.
LEMMA BackIs ==
  ASSUME TypeOK, NEW i \in 0 .. count - 1
  PROVE  Window[count - i] = entries[Back(i)] /\ count - i \in 1 .. count
<1>1. MaxSize \in Nat \ {0} /\ head \in 0 .. MaxSize - 1 /\ count \in 0 .. MaxSize
  BY RingAssumption DEF TypeOK, Slots
<1>2. PICK x \in 0 .. MaxSize + MaxSize - 1 : x = head - 1 - i + MaxSize
  BY <1>1
<1>3. x % MaxSize = IF x < MaxSize THEN x ELSE x - MaxSize
  BY <1>1
<1>4. SlotOf(count - i) = Back(i)
  BY <1>1, <1>2, <1>3 DEF SlotOf, Back
<1>5. count - i \in 1 .. count
  BY <1>1
<1> QED
  BY <1>4, <1>5 DEF Window

\* What was collected on the way: the last of the matches, newest first, and as
\* many as there were so far, but not more than n.
Newest(s, all, found, n) ==
  /\ Len(s) = IF found < n THEN found ELSE n
  /\ \A k \in 1 .. Len(s) : s[k] = all[Len(all) + 1 - k]

LEMMA TakenIs ==
  ASSUME NEW E, NEW all \in Seq(E), NEW s \in Seq(E), NEW before \in Seq(E), NEW e \in E, NEW n \in Nat, NEW wanted,
         Begins(Kept(before, e, wanted), all),
         Newest(s, all, Len(all) - Len(Kept(before, e, wanted)), n)
  PROVE  Newest(Taken(s, e, n, wanted), all, Len(all) - Len(before), n)
<1>6. Kept(before, e, wanted) \in Seq(E)
  BY KeptGrows
<1>1. PICK t \in Seq(E) : t = Kept(before, e, wanted)
  BY <1>6
<1>2. /\ Len(t) = IF e \in wanted THEN Len(before) + 1 ELSE Len(before)
      /\ e \in wanted => t[Len(before) + 1] = e
  <2>1. /\ Len(Kept(before, e, wanted)) = IF e \in wanted THEN Len(before) + 1 ELSE Len(before)
        /\ e \in wanted => Kept(before, e, wanted)[Len(before) + 1] = e
    BY KeptGrows
  <2> QED
    BY <1>1, <2>1
<1>3. Begins(t, all) /\ Newest(s, all, Len(all) - Len(t), n)
  BY <1>1
<1>4. CASE e \in wanted /\ Len(s) < n
  <2>7. PICK l \in Nat, m \in Nat, b \in Nat, a \in Nat : l = Len(s) /\ m = Len(t) /\ b = Len(before) /\ a = Len(all)
    BY <1>1
  <2>10. l = (IF a - m < n THEN a - m ELSE n) /\ l < n
    BY <1>3, <1>4, <2>7 DEF Newest
  <2>12. m = b + 1
    BY <1>2, <1>4, <2>7
  <2>13. l = a - m
    BY <2>10
  <2>8. l = a - m /\ m = b + 1
    BY <2>12, <2>13
  <2>9. all[m] = e
    BY <1>2, <1>3, <1>4, <2>7, <2>8 DEF Begins
  <2>1. Len(s) = Len(all) - Len(t) /\ Len(t) = Len(before) + 1 /\ all[Len(t)] = e
    BY <2>7, <2>8, <2>9
  <2>2. PICK r \in Seq(E) : r = Taken(s, e, n, wanted)
    BY <1>4, AppendIs DEF Taken
  <2>3. /\ Len(r) = Len(s) + 1
        /\ \A k \in 1 .. Len(s) : r[k] = s[k]
        /\ r[Len(s) + 1] = e
    BY <1>4, <2>2, AppendIs DEF Taken
  <2>4. ASSUME NEW k \in 1 .. Len(r) PROVE r[k] = all[Len(all) + 1 - k]
    <3>1. CASE k \in 1 .. Len(s)
      BY <1>3, <2>3, <3>1 DEF Newest
    <3>2. CASE k = Len(s) + 1
      <4>1. Len(all) + 1 - k = Len(t)
        BY <2>1, <3>2
      <4> QED
        BY <2>1, <2>3, <3>2, <4>1
    <3> QED
      BY <2>3, <3>1, <3>2
  <2>5. Len(r) = Len(all) - Len(before) /\ Len(r) <= n
    BY <1>4, <2>2, <2>3, <2>7, <2>8
  <2>14. l + 1 = a - b /\ l < n
    BY <2>8, <2>10
  <2>15. l + 1 = IF a - b < n THEN a - b ELSE n
    BY <2>14
  <2>11. Len(r) = IF Len(all) - Len(before) < n THEN Len(all) - Len(before) ELSE n
    BY <2>3, <2>7, <2>15
  <2>6. Newest(r, all, Len(all) - Len(before), n)
    BY <2>4, <2>11 DEF Newest
  <2> QED
    BY <2>2, <2>6
<1>5. CASE ~(e \in wanted /\ Len(s) < n)
  <2>1. Taken(s, e, n, wanted) = s
    BY <1>5 DEF Taken
  <2>2. Newest(s, all, Len(all) - Len(before), n)
    BY <1>2, <1>3, <1>5 DEF Newest, Begins
  <2> QED
    BY <2>1, <2>2
<1> QED
  BY <1>4, <1>5

LEMMA CollectedAreNewest ==
  ASSUME TypeOK, NEW n \in Nat, NEW wanted
  PROVE  /\ Collected(n, wanted) \in Seq(Entry \cup {NoEntry})
         /\ Log!Matching(Window, wanted) \in Seq(Entry \cup {NoEntry})
         /\ Newest(Collected(n, wanted), Log!Matching(Window, wanted), Len(Log!Matching(Window, wanted)), n)
<1>1. PICK E : E = Entry \cup {NoEntry}
  OBVIOUS
<1>2. PICK N \in Nat : N = count
  BY DEF TypeOK
<1>3. PICK w \in Seq(E) : w = Window /\ Len(w) = N
  BY <1>1, <1>2, WindowIsSeq
<1>15. PICK upTo : MatchWalk(upTo, E, w, wanted) /\ Log!Matching(w, wanted) = upTo[Len(w)]
  BY <1>3, MatchingIs
<1>4. /\ upTo \in [0 .. N -> Seq(E)]
      /\ upTo[0] = <<>>
      /\ \A i \in 1 .. N : upTo[i] = Kept(upTo[i - 1], w[i], wanted)
      /\ Log!Matching(w, wanted) = upTo[N]
  BY <1>3, <1>15 DEF MatchWalk
<1>5. \A i \in 1 .. N : w[i] \in E
  BY <1>3
<1>6. \A i \in 1 .. N : entries[Back(i - 1)] = w[N - i + 1]
  <2> SUFFICES ASSUME NEW i \in 1 .. N PROVE entries[Back(i - 1)] = w[N - i + 1]
    OBVIOUS
  <2>1. PICK j \in 0 .. count - 1 : j = i - 1
    BY <1>2
  <2>2. Window[count - j] = entries[Back(j)]
    BY BackIs
  <2>3. count - j = N - i + 1
    BY <1>2, <2>1
  <2> QED
    BY <1>3, <2>1, <2>2, <2>3
<1>16. \A i \in 1 .. count : entries[Back(i - 1)] \in E
  BY <1>2, <1>5, <1>6
<1>17. PICK walk : CollectWalk(walk, E, n, wanted) /\ Collected(n, wanted) = walk[count]
  BY <1>2, <1>16, CollectedIs
<1>7. /\ walk \in [0 .. N -> Seq(E)]
      /\ walk[0] = <<>>
      /\ \A i \in 1 .. N : walk[i] = Taken(walk[i - 1], entries[Back(i - 1)], n, wanted)
      /\ Collected(n, wanted) = walk[N]
  BY <1>2, <1>17 DEF CollectWalk
<1>8. PICK all \in Seq(E) : all = upTo[N]
  BY <1>2, <1>4
<1>9. \A d \in 0 .. N : Begins(upTo[N - d], all)
  BY <1>2, <1>4, <1>5, <1>8, MatchesBegin
<1> DEFINE Good == {i \in Nat : i <= N => Newest(walk[i], all, Len(all) - Len(upTo[N - i]), n)}
<1>10. 0 \in Good
  <2>1. Len(walk[0]) = 0
    BY <1>7
  <2>2. upTo[N - 0] = all /\ Len(all) - Len(all) = 0
    BY <1>2, <1>8
  <2>3. Newest(walk[0], all, 0, n)
    BY <2>1 DEF Newest
  <2> QED
    BY <2>2, <2>3
<1>11. ASSUME NEW i \in Nat, i \in Good PROVE i + 1 \in Good
  <2> SUFFICES ASSUME i + 1 <= N PROVE Newest(walk[i + 1], all, Len(all) - Len(upTo[N - (i + 1)]), n)
    OBVIOUS
  <2>1. PICK j \in 1 .. N : j = N - i /\ j - 1 = N - (i + 1)
    BY <1>2
  <2>2. PICK before \in Seq(E) : before = upTo[j - 1]
    BY <1>2, <1>4, <2>1
  <2>3. PICK e \in E : e = w[j]
    BY <1>5
  <2>4. upTo[j] = Kept(before, e, wanted)
    BY <1>4, <2>2, <2>3
  <2>5. PICK s \in Seq(E) : s = walk[i]
    BY <1>2, <1>7
  <2>6. walk[i + 1] = Taken(s, e, n, wanted)
    <3>1. PICK k \in 1 .. N : k = i + 1 /\ k - 1 = i
      OBVIOUS
    <3>2. N - k + 1 = j
      BY <1>2, <2>1, <3>1
    <3>3. walk[k] = Taken(walk[k - 1], entries[Back(k - 1)], n, wanted) /\ entries[Back(k - 1)] = w[N - k + 1]
      BY <1>6, <1>7
    <3> QED
      BY <2>3, <2>5, <3>1, <3>2, <3>3
  <2>7. Begins(upTo[j], all)
    BY <1>2, <1>9, <2>1
  <2>8. Newest(s, all, Len(all) - Len(upTo[j]), n)
    BY <1>11, <2>1, <2>5
  <2>9. Newest(Taken(s, e, n, wanted), all, Len(all) - Len(before), n)
    BY <2>4, <2>7, <2>8, TakenIs
  <2> QED
    BY <2>1, <2>2, <2>6, <2>9
<1> HIDE DEF Good
<1>12. Nat \subseteq Good
  BY <1>10, <1>11, Induction
<1>13. Newest(walk[N], all, Len(all) - Len(upTo[0]), n)
  BY <1>2, <1>12 DEF Good
<1>14. Len(upTo[0]) = 0 /\ Len(all) - 0 = Len(all)
  BY <1>4
<1> QED
  BY <1>1, <1>2, <1>3, <1>4, <1>7, <1>8, <1>13, <1>14

\* The last l entries of a sequence of a entries, told by their places.
IsLast(t, E, all, a, l) ==
  /\ t \in Seq(E) /\ Len(t) = l
  /\ \A i \in 1 .. l : t[i] = all[a - l + i]

LEMMA LastOfIs ==
  ASSUME NEW E, NEW all \in Seq(E), NEW n \in Nat, NEW a \in Nat, NEW l \in Nat,
         a = Len(all), l = (IF a < n THEN a ELSE n)
  PROVE  IsLast(Log!LastOf(all, n), E, all, a, l)
<1>1. CASE n >= a
  <2>1. Log!LastOf(all, n) = all
    BY <1>1 DEF Log!LastOf
  <2>2. l = a
    BY <1>1
  <2>3. ASSUME NEW i \in 1 .. l PROVE all[i] = all[a - l + i]
    <3>1. a - l + i = i
      BY ONLY <2>2, a \in Nat, l \in Nat, i \in 1 .. l
    <3> QED
      BY <3>1
  <2> QED
    BY <2>1, <2>2, <2>3 DEF IsLast
<1>2. CASE ~(n >= a)
  <2>1. Log!LastOf(all, n) = SubSeq(all, a - n + 1, a)
    BY <1>2 DEF Log!LastOf
  <2>2. l = n /\ n < a
    BY <1>2
  <2>3. PICK m \in Int : m = a - n + 1 /\ m <= a + 1 /\ a - m + 1 = l /\ 1 <= m
    BY ONLY <2>2, a \in Nat, l \in Nat, n \in Nat
  <2>4. \A i \in m .. a : all[i] \in E
    BY <2>3
  <2>5. PICK t : t = SubSeq(all, m, a)
    OBVIOUS
  <2>6. t \in Seq(E) /\ Len(t) = (IF m <= a THEN a - m + 1 ELSE 0) /\ \A i \in 1 .. a - m + 1 : t[i] = all[m + i - 1]
    BY <2>3, <2>4, <2>5, SubSeqProperties
  <2>7. Len(t) = l
    BY <2>2, <2>3, <2>6
  <2>8. \A i \in 1 .. l : t[i] = all[a - l + i]
    <3> SUFFICES ASSUME NEW i \in 1 .. l PROVE t[i] = all[a - l + i]
      OBVIOUS
    <3>1. m + i - 1 = a - l + i
      BY ONLY <2>2, <2>3, a \in Nat, l \in Nat, n \in Nat, i \in 1 .. l
    <3> QED
      BY <2>3, <2>6, <3>1
  <2> QED
    BY <2>1, <2>3, <2>5, <2>6, <2>7, <2>8 DEF IsLast
<1> QED
  BY <1>1, <1>2

LEMMA RecentIs == TypeOK => RecentIsLast
<1> SUFFICES ASSUME TypeOK, NEW n \in 0 .. MaxSize + 1, NEW wanted
             PROVE  Recent(n, wanted) = Log!LastOf(Log!Matching(Window, wanted), n)
  BY DEF RecentIsLast
<1>1. PICK E : E = Entry \cup {NoEntry}
  OBVIOUS
<1>2. n \in Nat
  BY RingAssumption
<1>3. PICK s \in Seq(E), all \in Seq(E) :
        s = Collected(n, wanted) /\ all = Log!Matching(Window, wanted) /\ Newest(s, all, Len(all), n)
  BY <1>1, <1>2, CollectedAreNewest
<1>4. PICK l \in Nat, a \in Nat : l = Len(s) /\ a = Len(all) /\ l = (IF a < n THEN a ELSE n)
  BY <1>3 DEF Newest
<1>5. PICK r \in Seq(E) : r = Recent(n, wanted) /\ Len(r) = l /\ \A i \in 1 .. l : r[i] = s[l + 1 - i]
  <2>1. PICK r : r = [i \in 1 .. l |-> s[l + 1 - i]]
    OBVIOUS
  <2>2. r \in Seq(E) /\ Len(r) = l /\ \A i \in 1 .. l : r[i] = s[l + 1 - i]
    <3>1. ASSUME NEW i \in 1 .. l PROVE s[l + 1 - i] \in E
      <4>1. l + 1 - i \in 1 .. l
        BY ONLY l \in Nat, i \in 1 .. l
      <4>2. PICK k \in 1 .. Len(s) : k = l + 1 - i
        BY <1>4, <4>1
      <4>3. s[k] \in E
        OBVIOUS
      <4> QED
        BY <4>2, <4>3
    <3>2. r \in [1 .. l -> E]
      BY <2>1, <3>1
    <3> QED
      BY <2>1, <3>2
  <2>3. r = Recent(n, wanted)
    BY <1>3, <1>4, <2>1 DEF Recent, Chronological
  <2> QED
    BY <2>2, <2>3
<1>6. \A i \in 1 .. l : r[i] = all[a - l + i]
  <2> SUFFICES ASSUME NEW i \in 1 .. l PROVE r[i] = all[a - l + i]
    OBVIOUS
  <2>3. l + 1 - i \in 1 .. l /\ a + 1 - (l + 1 - i) = a - l + i
    BY ONLY l \in Nat, a \in Nat, i \in 1 .. l
  <2>1. PICK k \in 1 .. l : k = l + 1 - i /\ a + 1 - k = a - l + i
    BY <2>3
  <2>2. s[k] = all[a + 1 - k]
    BY <1>3, <1>4 DEF Newest
  <2> QED
    BY <1>5, <2>1, <2>2
<1>7. PICK t \in Seq(E) : t = Log!LastOf(all, n) /\ Len(t) = l /\ \A i \in 1 .. l : t[i] = all[a - l + i]
  <2>1. n \in Nat /\ l \in Nat /\ a \in Nat /\ a = Len(all) /\ l = IF a < n THEN a ELSE n
    BY <1>2, <1>4
  <2>2. IsLast(Log!LastOf(all, n), E, all, a, l)
    BY <2>1, LastOfIs
  <2> QED
    BY <2>2 DEF IsLast
<1>8. r = t
  BY <1>5, <1>6, <1>7, SeqEqual
<1> QED
  BY <1>3, <1>5, <1>7, <1>8

\* Whatever the filter, the walk back from the head and the swaps at its end give
\* the last n matches in chronological order, before and after the ring has
\* wrapped (logstore/store.go:62-80).
THEOREM RecentIsLastMatches == Spec => []RecentIsLast
  BY TypeCorrect, RecentIs, PTL
=============================================================================
