-------------------------- MODULE TraceStoreProofs --------------------------
(* For every size of the ring, every finite set of traces and any number of *)
(* spans: the index of the span store never loses a span that the ring      *)
(* holds, it is exact until the ring wraps, RecentSpans returns the last    *)
(* spans, and the pages of the listing name every trace once.  What holds   *)
(* of every ring comes from RingStoreProofs.                                *)
EXTENDS TraceStore, SequenceTheorems, FiniteSetTheorems, FunctionTheorems, TLAPS

\* The head advances by one and wraps at the end of the array.
LEMMA HeadWraps ==
  ASSUME NEW h \in Ring!Slots
  PROVE  (h + 1) % MaxSize = IF h = MaxSize - 1 THEN 0 ELSE h + 1
  BY StoreAssumption DEF Ring!Slots

\* Every step keeps ring and index well typed.
LEMMA StepTypeOK == TypeOK /\ [Next]_vars => TypeOK'
<1> SUFFICES ASSUME TypeOK, [Next]_vars PROVE TypeOK'
  OBVIOUS
<1> USE StoreAssumption DEF TypeOK, Ring!TypeOK
<1>1. ASSUME NEW s \in Span, Add(s) PROVE TypeOK'
  <2>1. head \in Ring!Slots /\ head' = IF head = MaxSize - 1 THEN 0 ELSE head + 1
    BY <1>1, HeadWraps DEF Add, Ring!Add
  <2>2. Ring!TypeOK'
    BY <1>1, <2>1 DEF Add, Ring!Add, Ring!Slots
  <2>3. byTraceID' \in [Traces -> Seq(Ring!Slots)]
    <3>1. s.trace \in Traces
      BY DEF Span
    <3>2. Append(byTraceID[s.trace], head) \in Seq(Ring!Slots)
      BY <2>1, <3>1, AppendProperties
    <3> QED
      BY <1>1, <3>1, <3>2 DEF Add
  <2>4. adds' \in 0 .. MaxAdds
    BY <1>1 DEF Add
  <2> QED
    BY <2>2, <2>3, <2>4
<1>2. CASE UNCHANGED vars
  BY <1>2 DEF vars
<1> QED
  BY <1>1, <1>2 DEF Next, Stop

\* Every reachable state of the store is well typed.
THEOREM TypeCorrect == Spec => []TypeOK
<1>1. Init => TypeOK
  <2> SUFFICES ASSUME Init PROVE TypeOK
    OBVIOUS
  <2>1. Ring!TypeOK
    BY StoreAssumption DEF Init, Ring!Init, Ring!TypeOK, Ring!Slots
  <2>2. byTraceID \in [Traces -> Seq(Ring!Slots)]
    BY DEF Init
  <2> QED
    BY <2>1, <2>2, StoreAssumption DEF Init, TypeOK
<1> QED
  BY <1>1, StepTypeOK, PTL DEF Spec

\* Add writes one slot and indexes that slot; the other slots keep span and index.
LEMMA StepNoSpanMissed == TypeOK /\ NoSpanMissed /\ [Next]_vars => NoSpanMissed'
<1> SUFFICES ASSUME TypeOK, NoSpanMissed, [Next]_vars PROVE NoSpanMissed'
  OBVIOUS
<1>1. ASSUME NEW s \in Span, Add(s) PROVE NoSpanMissed'
  <2> SUFFICES ASSUME NEW i \in 0 .. count' - 1
               PROVE  \E j \in DOMAIN byTraceID'[spans'[i].trace] :
                        byTraceID'[spans'[i].trace][j] = i
    BY DEF NoSpanMissed
  <2>1. /\ head \in Ring!Slots /\ i \in Ring!Slots
        /\ spans' = [spans EXCEPT ![head] = s]
        /\ byTraceID' = [byTraceID EXCEPT ![s.trace] = Append(@, head)]
    BY <1>1, StoreAssumption DEF Add, Ring!Add, TypeOK, Ring!TypeOK, Ring!Slots
  <2>2. s.trace \in Traces /\ byTraceID[s.trace] \in Seq(Ring!Slots)
    BY DEF Span, TypeOK
  <2>3. CASE i = head
    <3>1. spans'[i] = s /\ byTraceID'[s.trace] = Append(byTraceID[s.trace], head)
      BY <2>1, <2>2, <2>3 DEF TypeOK, Ring!TypeOK
    <3>2. LET q == Append(byTraceID[s.trace], head)
          IN  Len(q) \in DOMAIN q /\ q[Len(q)] = head
      BY <2>1, <2>2, AppendProperties
    <3> QED
      BY <2>3, <3>1, <3>2
  <2>4. CASE i # head
    <3>1. i \in 0 .. count - 1
      BY <1>1, <2>1, <2>4 DEF Add, Ring!Add, TypeOK, Ring!TypeOK, Ring!Slots
    <3>2. spans'[i] = spans[i] /\ spans[i] \in Span
      BY <2>1, <2>4, <3>1 DEF TypeOK, Ring!TypeOK
    <3> DEFINE t == spans[i].trace
    <3>3. PICK j \in DOMAIN byTraceID[t] : byTraceID[t][j] = i
      BY <3>1 DEF NoSpanMissed
    <3>4. t \in Traces
      BY <3>2 DEF Span
    <3>5. CASE t = s.trace
      <4>1. byTraceID'[t] = Append(byTraceID[t], head)
        BY <2>1, <2>2, <3>5 DEF TypeOK
      <4>2. j \in DOMAIN Append(byTraceID[t], head) /\ Append(byTraceID[t], head)[j] = i
        BY <2>1, <2>2, <3>3, <3>5, AppendProperties
      <4> QED
        BY <3>2, <4>1, <4>2
    <3>6. CASE t # s.trace
      <4>1. byTraceID'[t] = byTraceID[t]
        BY <2>1, <3>4, <3>6 DEF TypeOK
      <4> QED
        BY <3>2, <3>3, <4>1
    <3> QED
      BY <3>5, <3>6
  <2> QED
    BY <2>3, <2>4
<1>2. CASE UNCHANGED vars
  BY <1>2 DEF vars, NoSpanMissed
<1> QED
  BY <1>1, <1>2 DEF Next, Stop

\* However often the ring has wrapped, the index leads to every span the ring
\* still holds (tracer/store.go:53-61, 84-94).
THEOREM NoRetainedSpanMissed == Spec => []NoSpanMissed
<1>1. Init => NoSpanMissed
  BY DEF Init, Ring!Init, NoSpanMissed
<1> QED
  BY <1>1, StepNoSpanMissed, TypeCorrect, PTL DEF Spec

-----------------------------------------------------------------------------
(* The ring of the span store is a ring as RingStoreProofs knows it *)

RingFacts == INSTANCE RingStoreProofs WITH Entry <- Span, NoEntry <- NoSpan, entries <- spans

LEMMA Fits == RingFacts!RingAssumption
  BY StoreAssumption DEF RingFacts!RingAssumption

LEMMA SameRing ==
  /\ RingFacts!TypeOK = Ring!TypeOK
  /\ RingFacts!Window = Ring!Window
  /\ RingFacts!Window' = Ring!Window'
  /\ RingFacts!TypeOK' = Ring!TypeOK'
  BY DEF RingFacts!TypeOK, Ring!TypeOK, RingFacts!Window, Ring!Window, RingFacts!SlotOf, Ring!SlotOf,
         RingFacts!Slots, Ring!Slots

LEMMA SameMatching ==
  ASSUME NEW w, NEW wanted
  PROVE  RingFacts!Log!Matching(w, wanted) = Ring!Log!Matching(w, wanted)
  BY DEF RingFacts!Log!Matching, Ring!Log!Matching

LEMMA SameLastOf ==
  ASSUME NEW w, NEW n
  PROVE  RingFacts!Log!LastOf(w, n) = Ring!Log!LastOf(w, n)
  BY DEF RingFacts!Log!LastOf, Ring!Log!LastOf

Spans == Span \cup {NoSpan}

\* The window is a sequence as long as the count.
LEMMA WindowIs ==
  ASSUME TypeOK
  PROVE  /\ Ring!Window \in Seq(Spans) /\ Len(Ring!Window) = count
         /\ \A i \in 1 .. count : Ring!Window[i] = spans[Ring!SlotOf(i)]
<1>1. RingFacts!TypeOK
  BY SameRing DEF TypeOK
<1>2. RingFacts!Window \in Seq(Spans) /\ Len(RingFacts!Window) = count
  BY <1>1, Fits, RingFacts!WindowIsSeq DEF Spans
<1> QED
  BY <1>2, SameRing DEF Ring!Window

-----------------------------------------------------------------------------
(* RecentSpans *)

\* The slot that RecentSpans reads is the one that the window has at that place.
LEMMA RecentSlot ==
  ASSUME TypeOK, NEW m \in 0 .. count, NEW i \in 1 .. m
  PROVE  /\ count - m + i \in 1 .. count
         /\ Ring!SlotOf(count - m + i) = (head - m + (i - 1) + MaxSize) % MaxSize
<1>1. MaxSize \in Nat \ {0} /\ head \in 0 .. MaxSize - 1 /\ count \in 0 .. MaxSize
  BY StoreAssumption DEF TypeOK, Ring!TypeOK, Ring!Slots
<1>2. count - m + i \in 1 .. count
  BY <1>1
<1>3. PICK x \in 0 .. MaxSize + MaxSize - 1 : x = head - m + (i - 1) + MaxSize
  BY <1>1
<1>4. x % MaxSize = IF x < MaxSize THEN x ELSE x - MaxSize
  BY <1>1
<1>5. head - count + (count - m + i) - 1 = x - MaxSize
  BY <1>1, <1>3
<1>6. Ring!SlotOf(count - m + i) = IF x - MaxSize >= 0 THEN x - MaxSize ELSE x - MaxSize + MaxSize
  BY <1>5 DEF Ring!SlotOf
<1> QED
  BY <1>1, <1>2, <1>3, <1>4, <1>6

LEMMA RecentIs == TypeOK => RecentSpansAreLast
<1> SUFFICES ASSUME TypeOK, NEW n \in 0 .. MaxSize + 1
             PROVE  RecentSpans(n) = Ring!Log!LastOf(Ring!Window, n)
  BY DEF RecentSpansAreLast
<1>1. MaxSize \in Nat \ {0} /\ count \in 0 .. MaxSize /\ count \in Nat /\ n \in Nat
  BY StoreAssumption DEF TypeOK, Ring!TypeOK
<1>2. PICK m \in Nat : m = (IF count < n THEN count ELSE n) /\ m <= count
  BY <1>1
<1>3. PICK w \in Seq(Spans) : w = Ring!Window /\ Len(w) = count /\ \A i \in 1 .. count : w[i] = spans[Ring!SlotOf(i)]
  BY WindowIs
<1>4. PICK r : r = [i \in 1 .. m |-> spans[(head - m + (i - 1) + MaxSize) % MaxSize]]
  OBVIOUS
<1>5. r = RecentSpans(n)
  <2>1. m = IF n > count THEN count ELSE n
    BY <1>1, <1>2
  <2> QED
    BY <1>4, <2>1 DEF RecentSpans
<1>6. \A i \in 1 .. m : count - m + i \in 1 .. count /\ r[i] = w[count - m + i]
  <2> SUFFICES ASSUME NEW i \in 1 .. m PROVE count - m + i \in 1 .. count /\ r[i] = w[count - m + i]
    OBVIOUS
  <2>1. m \in 0 .. count
    BY <1>1, <1>2
  <2>2. /\ count - m + i \in 1 .. count
        /\ Ring!SlotOf(count - m + i) = (head - m + (i - 1) + MaxSize) % MaxSize
    BY <2>1, RecentSlot
  <2> QED
    BY <1>3, <1>4, <2>2
<1>7. r \in Seq(Spans) /\ Len(r) = m
  <2>1. \A i \in 1 .. m : r[i] \in Spans
    BY <1>3, <1>6
  <2>2. r \in [1 .. m -> Spans]
    BY <1>4, <2>1
  <2> QED
    BY <1>2, <1>4, <2>2
<1>8. RingFacts!IsLast(Ring!Log!LastOf(w, n), Spans, w, count, m)
  <2>1. RingFacts!IsLast(RingFacts!Log!LastOf(w, n), Spans, w, count, m)
    BY <1>1, <1>2, <1>3, Fits, RingFacts!LastOfIs
  <2> QED
    BY <2>1, SameLastOf
<1>9. PICK t \in Seq(Spans) : t = Ring!Log!LastOf(w, n) /\ Len(t) = m /\ \A i \in 1 .. m : t[i] = w[count - m + i]
  BY <1>8 DEF RingFacts!IsLast
<1>10. r = t
  BY <1>6, <1>7, <1>9, SeqEqual
<1> QED
  BY <1>3, <1>5, <1>9, <1>10

\* The modular arithmetic of RecentSpans, which is not that of the other stores,
\* reads the last n spans in order, for every position of the head
\* (tracer/store.go:177-190).
THEOREM RecentSpansAreTheLast == Spec => []RecentSpansAreLast
  BY TypeCorrect, RecentIs, PTL

-----------------------------------------------------------------------------
(* The index before the ring wraps *)

\* The spans at some slots.
At(slots, arr) == [k \in 1 .. Len(slots) |-> arr[slots[k]]]

\* Until the ring wraps, the count is the number of spans added, no slot of the
\* index is free, and the index of a trace leads to its spans in their order.
ExactIndex(t) ==
  /\ \A k \in 1 .. Len(byTraceID[t]) : byTraceID[t][k] \in 0 .. count - 1
  /\ Retained(t) = At(byTraceID[t], spans)

Exact == adds <= MaxSize => count = adds /\ \A t \in Traces : ExactIndex(t)

\* A span more in the window is a span more of its trace, and of no other.
LEMMA AddRetains ==
  ASSUME TypeOK, TypeOK', NEW s \in Span, Add(s), count < MaxSize, NEW t \in Traces
  PROVE  /\ Retained(t) \in Seq(Spans)
         /\ Retained(t)' = IF t = s.trace THEN Append(Retained(t), s) ELSE Retained(t)
<1>1. PICK w \in Seq(Spans) : w = Ring!Window
  BY WindowIs
<1>2. Ring!Window' = Append(w, s)
  <2>1. RingFacts!TypeOK /\ RingFacts!TypeOK'
    BY SameRing DEF TypeOK
  <2>2. RingFacts!Add(s)
    BY DEF Add, Ring!Add, RingFacts!Add
  <2>3. RingFacts!Window' = Append(RingFacts!Window, s)
    BY <2>1, <2>2, Fits, RingFacts!AddGrows
  <2> QED
    BY <1>1, <2>3, SameRing
<1>3. s \in Of(t) <=> t = s.trace
  BY DEF Of
<1>4. PICK wanted : wanted = Of(t)
  OBVIOUS
<1>5. s \in Spans
  BY DEF Spans
<1>6. /\ RingFacts!Log!Matching(w, wanted) \in Seq(Spans)
      /\ RingFacts!Log!Matching(Append(w, s), wanted) = RingFacts!Kept(RingFacts!Log!Matching(w, wanted), s, wanted)
  BY <1>5, Fits, RingFacts!MatchingAppend
<1>7. PICK old \in Seq(Spans) : old = Ring!Log!Matching(w, wanted)
  BY <1>6, SameMatching
<1>8. Ring!Log!Matching(Append(w, s), wanted) = RingFacts!Kept(old, s, wanted)
  BY <1>6, <1>7, SameMatching
<1>9. Retained(t) = old
  BY <1>1, <1>4, <1>7 DEF Retained
<1>10. Retained(t)' = RingFacts!Kept(old, s, wanted)
  BY <1>2, <1>4, <1>8 DEF Retained, Of
<1> QED
  BY <1>3, <1>4, <1>7, <1>9, <1>10 DEF RingFacts!Kept

LEMMA StepExact == TypeOK /\ TypeOK' /\ Exact /\ [Next]_vars => Exact'
<1> SUFFICES ASSUME TypeOK, TypeOK', Exact, [Next]_vars PROVE Exact'
  OBVIOUS
<1>1. ASSUME NEW s \in Span, Add(s) PROVE Exact'
  <2> SUFFICES ASSUME adds' <= MaxSize PROVE count' = adds' /\ \A t \in Traces : ExactIndex(t)'
    BY DEF Exact
  <2>1. /\ adds' = adds + 1 /\ adds \in Nat /\ MaxSize \in Nat /\ count = adds /\ count < MaxSize
        /\ \A t \in Traces : ExactIndex(t)
    BY <1>1, StoreAssumption DEF Add, TypeOK, Exact
  <2>2. /\ count' = count + 1 /\ head = count /\ head \in Ring!Slots
        /\ spans' = [spans EXCEPT ![head] = s]
    BY <1>1, <2>1 DEF Add, Ring!Add, TypeOK, Ring!TypeOK
  <2>3. ASSUME NEW t \in Traces PROVE ExactIndex(t)'
    <3>1. PICK b \in Seq(Ring!Slots) : b = byTraceID[t]
      BY DEF TypeOK
    <3>2. (\A k \in 1 .. Len(b) : b[k] \in 0 .. count - 1) /\ Retained(t) = At(b, spans)
      BY <2>1, <3>1 DEF ExactIndex
    <3>3. At(b, spans') = At(b, spans)
      <4>1. ASSUME NEW k \in 1 .. Len(b) PROVE spans'[b[k]] = spans[b[k]]
        <5>1. PICK i \in 0 .. count - 1 : i = b[k]
          BY <3>2
        <5>2. i # head /\ i \in Ring!Slots
          BY <2>1, <2>2 DEF Ring!Slots
        <5> QED
          BY <2>2, <5>1, <5>2 DEF TypeOK, Ring!TypeOK
      <4> QED
        BY <4>1 DEF At
    <3>4. CASE t = s.trace
      <4>1. byTraceID'[t] = Append(b, head)
        BY <1>1, <3>1, <3>4 DEF Add, TypeOK
      <4>2. PICK c \in Seq(Ring!Slots) : c = Append(b, head)
        BY <2>2, AppendProperties
      <4>3. /\ Len(c) = Len(b) + 1
            /\ \A k \in 1 .. Len(b) : c[k] = b[k]
            /\ c[Len(b) + 1] = head
        BY <2>2, <4>2, AppendProperties
      <4>4. \A k \in 1 .. Len(c) : c[k] \in 0 .. count' - 1
        <5>1. ASSUME NEW k \in 1 .. Len(c) PROVE c[k] \in 0 .. count' - 1
          <6>1. CASE k \in 1 .. Len(b)
            BY <2>1, <2>2, <3>2, <4>3, <6>1
          <6>2. CASE k = Len(b) + 1
            BY <2>1, <2>2, <4>3, <6>2
          <6> QED
            BY <4>3, <6>1, <6>2
        <5> QED
          BY <5>1
      <4>5. Retained(t)' = Append(At(b, spans), s) /\ At(b, spans) \in Seq(Spans)
        BY <1>1, <2>1, <3>2, <3>4, AddRetains
      <4>6. At(c, spans') = Append(At(b, spans), s)
        <5>1. PICK old \in Seq(Spans) : old = At(b, spans)
          BY <4>5
        <5>2. Len(old) = Len(b) /\ \A k \in 1 .. Len(b) : old[k] = spans'[b[k]]
          BY <3>3, <5>1 DEF At
        <5>3. PICK new \in Seq(Spans) : new = Append(old, s)
          BY AppendProperties DEF Spans
        <5>4. /\ Len(new) = Len(b) + 1 /\ new[Len(b) + 1] = s
              /\ \A k \in 1 .. Len(b) : new[k] = old[k]
          BY <5>2, <5>3, AppendProperties DEF Spans
        <5>5. spans'[head] = s
          BY <2>2 DEF TypeOK, Ring!TypeOK
        <5>6. \A k \in 1 .. Len(new) : new[k] = spans'[c[k]]
          BY <4>3, <5>2, <5>4, <5>5
        <5>7. new = [k \in 1 .. Len(new) |-> new[k]]
          OBVIOUS
        <5>8. Len(new) = Len(c)
          BY <4>3, <5>4
        <5>9. At(c, spans') = [k \in 1 .. Len(new) |-> spans'[c[k]]]
          BY <5>8 DEF At
        <5> QED
          BY <5>1, <5>3, <5>6, <5>7, <5>9
      <4> QED
        BY <4>1, <4>2, <4>4, <4>5, <4>6 DEF ExactIndex
    <3>5. CASE t # s.trace
      <4>1. byTraceID'[t] = b
        BY <1>1, <3>1, <3>5 DEF Add, TypeOK
      <4>2. \A k \in 1 .. Len(b) : b[k] \in 0 .. count' - 1
        BY <2>1, <2>2, <3>2
      <4>3. Retained(t)' = At(b, spans')
        BY <1>1, <2>1, <3>2, <3>3, <3>5, AddRetains
      <4> QED
        BY <4>1, <4>2, <4>3 DEF ExactIndex
    <3> QED
      BY <3>4, <3>5
  <2> QED
    BY <2>1, <2>2, <2>3
<1>2. CASE UNCHANGED vars
  <2>1. Ring!Window' = Ring!Window
    BY <1>2 DEF vars, Ring!Window, Ring!SlotOf
  <2>2. \A t \in Traces : Retained(t)' = Retained(t)
    BY <2>1 DEF Retained, Of
  <2> QED
    BY <1>2, <2>2 DEF vars, Exact, ExactIndex
<1> QED
  BY <1>1, <1>2 DEF Next, Stop

LEMMA InitExact == Init => Exact
<1> SUFFICES ASSUME Init, NEW t \in Traces PROVE ExactIndex(t)
  BY DEF Init, Ring!Init, Exact
<1>1. byTraceID[t] = <<>> /\ count = 0
  BY DEF Init, Ring!Init
<1>2. PICK none \in Seq(Spans) : none = <<>>
  <2>1. <<>> \in Seq(Spans)
    OBVIOUS
  <2> QED
    BY <2>1
<1>3. Ring!Window = none
  BY <1>1, <1>2 DEF Ring!Window
<1>4. RingFacts!Log!Matching(none, Of(t)) = none
  <2>1. \A i \in 1 .. Len(none) : none[i] \in Of(t)
    BY <1>2
  <2> QED
    BY <2>1, Fits, RingFacts!MatchingAll
<1>5. Retained(t) = none
  BY <1>3, <1>4, SameMatching DEF Retained
<1> QED
  BY <1>1, <1>2, <1>5 DEF ExactIndex, At

\* A query reads what the index leads to.
LEMMA ExactIs == TypeOK /\ Exact => ExactUntilWrap
<1> SUFFICES ASSUME TypeOK, Exact, adds <= MaxSize, NEW t \in Traces
             PROVE  GetTrace(t) = Retained(t) /\ Info(t).spanCount = Len(Retained(t))
  BY DEF ExactUntilWrap
<1>1. PICK b \in Seq(Ring!Slots) : b = byTraceID[t]
  BY DEF TypeOK
<1>2. (\A k \in 1 .. Len(b) : b[k] \in 0 .. count - 1) /\ Retained(t) = At(b, spans)
  BY <1>1 DEF Exact, ExactIndex
<1>3. RingFacts!Log!Matching(b, 0 .. count - 1) = b
  BY <1>2, Fits, RingFacts!MatchingAll
<1>4. Indexed(t) = b
  BY <1>1, <1>3, SameMatching DEF Indexed
<1>5. GetTrace(t) = Retained(t)
  BY <1>2, <1>4 DEF GetTrace, At
<1>6. Len(Retained(t)) = Len(b)
  BY <1>2 DEF At
<1> QED
  BY <1>1, <1>5, <1>6 DEF Info

\* Until a slot is overwritten, GetTrace returns exactly the spans of the trace in
\* the order of their arrival and the summary counts them
\* (tracer/store.go:80-96, 129-171).
THEOREM QueriesAreExactUntilWrap == Spec => []ExactUntilWrap
<1>1. TypeOK /\ Exact /\ [Next]_vars => Exact'
  BY StepTypeOK, StepExact
<1> QED
  BY <1>1, InitExact, ExactIs, TypeCorrect, PTL DEF Spec

-----------------------------------------------------------------------------
(* The traces by recency *)

\* The walk back from the head passes every slot in use, and no other one.
LEMMA BackSlots ==
  ASSUME TypeOK
  PROVE  /\ \A i \in 0 .. count - 1 : Ring!Back(i) \in 0 .. count - 1
         /\ \A j \in 0 .. count - 1 : \E i \in 0 .. count - 1 : Ring!Back(i) = j
<1>1. /\ MaxSize \in Nat \ {0} /\ head \in 0 .. MaxSize - 1 /\ count \in 0 .. MaxSize
      /\ count < MaxSize => head = count
  BY StoreAssumption DEF TypeOK, Ring!TypeOK, Ring!Slots
<1>2. ASSUME NEW i \in 0 .. count - 1
      PROVE  Ring!Back(i) = IF i < head THEN head - 1 - i ELSE head - 1 - i + MaxSize
  <2>1. PICK x \in 0 .. MaxSize + MaxSize - 1 : x = head - 1 - i + MaxSize
    BY <1>1
  <2>2. x % MaxSize = IF x < MaxSize THEN x ELSE x - MaxSize
    BY <1>1
  <2> QED
    BY <1>1, <2>1, <2>2 DEF Ring!Back
<1>3. ASSUME NEW j \in 0 .. count - 1 PROVE \E i \in 0 .. count - 1 : Ring!Back(i) = j
  <2>1. CASE j < head
    <3>1. head - 1 - j \in 0 .. count - 1
      BY <1>1, <2>1
    <3>2. Ring!Back(head - 1 - j) = j
      BY <1>1, <1>2, <2>1, <3>1
    <3> QED
      BY <3>1, <3>2
  <2>2. CASE ~(j < head)
    <3>1. head - 1 - j + MaxSize \in 0 .. count - 1 /\ ~(head - 1 - j + MaxSize < head)
      BY <1>1, <2>2
    <3>2. Ring!Back(head - 1 - j + MaxSize) = j
      BY <1>1, <1>2, <2>2, <3>1
    <3> QED
      BY <3>1, <3>2
  <2> QED
    BY <2>1, <2>2
<1> QED
  BY <1>1, <1>2, <1>3

\* A list of traces, and a trace after it that it does not have yet.
WithTrace(s, t) == IF \E j \in DOMAIN s : s[j] = t THEN s ELSE Append(s, t)

\* A list that has the members of T, each once.
ListsOnce(s, T) ==
  /\ s \in Seq(Traces)
  /\ \A i, j \in 1 .. Len(s) : s[i] = s[j] => i = j
  /\ \A t \in Traces : t \in T <=> \E i \in 1 .. Len(s) : s[i] = t

LEMMA WithTraceLists ==
  ASSUME NEW T, NEW s, ListsOnce(s, T), NEW t \in Traces
  PROVE  ListsOnce(WithTrace(s, t), T \cup {t})
<1>1. s \in Seq(Traces)
  BY DEF ListsOnce
<1>2. CASE \E j \in DOMAIN s : s[j] = t
  <2>1. WithTrace(s, t) = s
    BY <1>2 DEF WithTrace
  <2>2. t \in T
    BY <1>1, <1>2 DEF ListsOnce
  <2>3. T \cup {t} = T
    BY <2>2
  <2> QED
    BY <2>1, <2>3
<1>3. CASE ~(\E j \in DOMAIN s : s[j] = t)
  <2>1. PICK r \in Seq(Traces) : r = WithTrace(s, t) /\ r = Append(s, t)
    BY <1>1, <1>3, AppendProperties DEF WithTrace
  <2>2. Len(r) = Len(s) + 1 /\ r[Len(s) + 1] = t /\ \A i \in 1 .. Len(s) : r[i] = s[i]
    BY <1>1, <2>1, AppendProperties
  <2>3. \A i \in 1 .. Len(s) : s[i] # t
    BY <1>1, <1>3
  <2>4. ASSUME NEW i \in 1 .. Len(r), NEW j \in 1 .. Len(r), r[i] = r[j] PROVE i = j
    <3>1. CASE i \in 1 .. Len(s) /\ j \in 1 .. Len(s)
      BY <2>2, <2>4, <3>1 DEF ListsOnce
    <3>2. CASE i = Len(s) + 1 /\ j \in 1 .. Len(s)
      BY <2>2, <2>3, <2>4, <3>2
    <3>3. CASE i \in 1 .. Len(s) /\ j = Len(s) + 1
      BY <2>2, <2>3, <2>4, <3>3
    <3>4. CASE i = Len(s) + 1 /\ j = Len(s) + 1
      BY <3>4
    <3> QED
      BY <2>2, <3>1, <3>2, <3>3, <3>4
  <2>5. ASSUME NEW x \in Traces PROVE x \in T \cup {t} <=> \E i \in 1 .. Len(r) : r[i] = x
    <3>1. x \in T <=> \E i \in 1 .. Len(s) : s[i] = x
      BY DEF ListsOnce
    <3>2. (\E i \in 1 .. Len(r) : r[i] = x) <=> ((\E i \in 1 .. Len(s) : s[i] = x) \/ x = t)
      <4>1. ASSUME NEW i \in 1 .. Len(s), s[i] = x PROVE \E k \in 1 .. Len(r) : r[k] = x
        BY <1>1, <2>2, <4>1
      <4>2. ASSUME x = t PROVE \E k \in 1 .. Len(r) : r[k] = x
        <5>1. Len(s) + 1 \in 1 .. Len(r)
          BY <1>1, <2>2
        <5> QED
          BY <2>2, <4>2, <5>1
      <4>3. ASSUME NEW k \in 1 .. Len(r), r[k] = x, x # t PROVE \E i \in 1 .. Len(s) : s[i] = x
        <5>1. k \in 1 .. Len(s)
          BY <1>1, <2>2, <4>3
        <5> QED
          BY <2>2, <4>3, <5>1
      <4> QED
        BY <4>1, <4>2, <4>3
    <3> QED
      BY <3>1, <3>2
  <2> QED
    BY <2>1, <2>4, <2>5 DEF ListsOnce
<1> QED
  BY <1>2, <1>3

\* What the listing goes through.
RecencyWalk(walk) ==
  /\ walk \in [0 .. count -> Seq(Traces)]
  /\ walk[0] = <<>>
  /\ \A i \in 1 .. count : walk[i] = WithTrace(walk[i - 1], spans[Ring!Back(i - 1)].trace)

LEMMA RecencyIs ==
  ASSUME count \in Nat, \A i \in 1 .. count : spans[Ring!Back(i - 1)].trace \in Traces
  PROVE  \E walk : RecencyWalk(walk) /\ TracesByRecency = walk[count]
<1>1. PICK N \in Nat : N = count
  OBVIOUS
<1>2. PICK S : S = Seq(Traces)
  OBVIOUS
<1>3. PICK e : e = [i \in 1 .. N |-> spans[Ring!Back(i - 1)].trace]
  OBVIOUS
<1>4. \A i \in 1 .. N : e[i] \in Traces /\ e[i] = spans[Ring!Back(i - 1)].trace
  BY <1>1, <1>3
<1>5. \A i \in 1 .. N, s \in S : WithTrace(s, e[i]) \in S
  BY <1>2, <1>4, AppendProperties DEF WithTrace
<1>6. PICK h : h = [i \in 1 .. N |-> [s \in S |-> WithTrace(s, e[i])]]
  OBVIOUS
<1>7. h \in [1 .. N -> [S -> S]]
  BY <1>5, <1>6
<1>8. PICK none \in S : none = <<>>
  <2>1. <<>> \in Seq(Traces)
    OBVIOUS
  <2> QED
    BY <1>2, <2>1
<1>9. PICK f : RingFacts!IsWalk(f, N, S, none, h)
  BY <1>1, <1>7, <1>8, Fits, RingFacts!WalkExists
<1>10. f \in [0 .. N -> S] /\ f[0] = none /\ \A i \in 1 .. N : f[i] = h[i][f[i - 1]]
  BY <1>9 DEF RingFacts!IsWalk
<1>11. \A i \in 1 .. N : f[i] = WithTrace(f[i - 1], e[i])
  <2>1. \A i \in 1 .. N, s \in S : h[i][s] = WithTrace(s, e[i])
    BY <1>6
  <2>2. \A i \in 1 .. N : f[i - 1] \in S
    BY <1>1, <1>10
  <2> QED
    BY <1>10, <2>1, <2>2
<1> DEFINE Walk(x) == x = [i \in 0 .. N |-> IF i = 0 THEN none ELSE WithTrace(x[i - 1], spans[Ring!Back(i - 1)].trace)]
<1>12. Walk(f)
  BY <1>1, <1>4, <1>10, <1>11
<1>13. PICK g : g = CHOOSE x : Walk(x)
  OBVIOUS
<1>14. Walk(g)
  BY <1>12, <1>13
<1>15. TracesByRecency = g[N]
  BY <1>1, <1>8, <1>13, ZenonT(30) DEF TracesByRecency, WithTrace
<1>16. g[0] = none /\ \A i \in 1 .. N : g[i] = WithTrace(g[i - 1], spans[Ring!Back(i - 1)].trace)
  BY <1>1, <1>14
<1> HIDE DEF Walk
<1>17. RingFacts!GoAlike(f, g, N)
  BY <1>4, <1>10, <1>11, <1>16 DEF RingFacts!GoAlike
<1>18. g[N] = f[N]
  BY <1>1, <1>17, Fits, RingFacts!WalksAgree
<1> QED
  BY <1>1, <1>2, <1>4, <1>8, <1>10, <1>11, <1>15, <1>18 DEF RecencyWalk

TracesOfRing == {spans[i].trace : i \in 0 .. count - 1}

\* The listing names the traces of the ring, each once.
LEMMA TracesAreListed == TypeOK => ListsOnce(TracesByRecency, TracesOfRing)
<1> SUFFICES ASSUME TypeOK PROVE ListsOnce(TracesByRecency, TracesOfRing)
  OBVIOUS
<1>1. PICK N \in Nat : N = count
  BY DEF TypeOK, Ring!TypeOK
<1>2. \A i \in 0 .. count - 1 : spans[i].trace \in Traces
  <2> SUFFICES ASSUME NEW i \in 0 .. count - 1 PROVE spans[i].trace \in Traces
    OBVIOUS
  <2>1. i \in Ring!Slots /\ ~(i >= count)
    BY StoreAssumption DEF TypeOK, Ring!TypeOK, Ring!Slots
  <2>2. spans[i] \in Span
    BY <2>1 DEF TypeOK, Ring!TypeOK
  <2> QED
    BY <2>2 DEF Span
<1>3. \A i \in 1 .. N : Ring!Back(i - 1) \in 0 .. count - 1
  <2> SUFFICES ASSUME NEW i \in 1 .. N PROVE Ring!Back(i - 1) \in 0 .. count - 1
    OBVIOUS
  <2>1. PICK k \in 0 .. count - 1 : k = i - 1
    BY <1>1
  <2> QED
    BY <2>1, BackSlots
<1>4. \A i \in 1 .. N : spans[Ring!Back(i - 1)].trace \in Traces
  BY <1>2, <1>3
<1>5. PICK walk : RecencyWalk(walk) /\ TracesByRecency = walk[N]
  BY <1>1, <1>4, RecencyIs
<1>6. /\ walk[0] = <<>>
      /\ \A i \in 1 .. N : walk[i] = WithTrace(walk[i - 1], spans[Ring!Back(i - 1)].trace)
  BY <1>1, <1>5 DEF RecencyWalk
<1> DEFINE Passed(i) == {spans[Ring!Back(k - 1)].trace : k \in 1 .. i}
           Good == {i \in Nat : i <= N => ListsOnce(walk[i], Passed(i))}
<1>7. 0 \in Good
  <2>1. Passed(0) = {}
    OBVIOUS
  <2>2. <<>> \in Seq(Traces) /\ Len(<<>>) = 0
    OBVIOUS
  <2>3. ListsOnce(walk[0], {})
    BY <1>6, <2>2 DEF ListsOnce
  <2> QED
    BY <2>1, <2>3
<1>8. ASSUME NEW i \in Nat, i \in Good PROVE i + 1 \in Good
  <2> SUFFICES ASSUME i + 1 <= N PROVE ListsOnce(walk[i + 1], Passed(i + 1))
    OBVIOUS
  <2>1. PICK j \in 1 .. N : j = i + 1 /\ j - 1 = i
    OBVIOUS
  <2>2. PICK t \in Traces : t = spans[Ring!Back(j - 1)].trace
    BY <1>4
  <2>3. walk[j] = WithTrace(walk[i], t)
    BY <1>6, <2>1, <2>2
  <2>4. Passed(j) = Passed(i) \cup {t}
    <3>1. 1 .. j = (1 .. i) \cup {j}
      BY <2>1
    <3> QED
      BY <2>2, <3>1
  <2>5. ListsOnce(walk[i], Passed(i))
    BY <1>8
  <2> HIDE DEF Passed
  <2>6. ListsOnce(walk[j], Passed(j))
    BY <2>3, <2>4, <2>5, WithTraceLists
  <2> QED
    BY <2>1, <2>6
<1> HIDE DEF Good, Passed
<1>9. Nat \subseteq Good
  BY <1>7, <1>8, Fits, RingFacts!Induction
<1>10. ListsOnce(walk[N], Passed(N))
  <2>1. N \in Good
    BY <1>9
  <2> QED
    BY <2>1 DEF Good
<1>11. Passed(N) = TracesOfRing
  <2>1. ASSUME NEW k \in 1 .. N PROVE spans[Ring!Back(k - 1)].trace \in TracesOfRing
    BY <1>3 DEF TracesOfRing
  <2>2. ASSUME NEW j \in 0 .. count - 1 PROVE spans[j].trace \in Passed(N)
    <3>1. PICK i \in 0 .. count - 1 : Ring!Back(i) = j
      BY BackSlots
    <3>2. i + 1 \in 1 .. N /\ i + 1 - 1 = i
      BY <1>1
    <3> QED
      BY <3>1, <3>2 DEF Passed
  <2> QED
    BY <2>1, <2>2 DEF TracesOfRing, Passed
<1> QED
  BY <1>5, <1>10, <1>11

-----------------------------------------------------------------------------
(* The pages *)

\* Every number is a place on one page, and on one only.
LEMMA PlaceIs ==
  ASSUME NEW l \in Nat \ {0}, NEW n \in Nat
  PROVE  \E q \in 0 .. n, r \in 1 .. l : n + 1 = q * l + r
<1> DEFINE Good == {i \in Nat : \E q \in 0 .. i, r \in 1 .. l : i + 1 = q * l + r}
<1>1. 0 \in Good
  <2>1. 0 + 1 = 0 * l + 1
    OBVIOUS
  <2> QED
    BY <2>1
<1>2. ASSUME NEW i \in Nat, i \in Good PROVE i + 1 \in Good
  <2>1. PICK q \in 0 .. i, r \in 1 .. l : i + 1 = q * l + r
    BY <1>2
  <2>2. CASE r < l
    <3>1. i + 1 + 1 = q * l + (r + 1)
      BY <2>1
    <3>2. q \in 0 .. i + 1 /\ r + 1 \in 1 .. l
      BY <2>2
    <3> QED
      BY <3>1, <3>2
  <2>3. CASE r = l
    <3>1. (q + 1) * l = q * l + l
      OBVIOUS
    <3>2. i + 1 + 1 = (q + 1) * l + 1
      BY <2>1, <2>3, <3>1
    <3>3. q + 1 \in 0 .. i + 1 /\ 1 \in 1 .. l
      OBVIOUS
    <3>4. \E p \in 0 .. i + 1, t \in 1 .. l : i + 1 + 1 = p * l + t
      BY <3>2, <3>3, Zenon
    <3> QED
      BY <3>4
  <2> QED
    BY <2>2, <2>3
<1> HIDE DEF Good
<1>3. Nat \subseteq Good
  BY <1>1, <1>2, Fits, RingFacts!Induction
<1> QED
  BY <1>3 DEF Good

LEMMA NextPage ==
  ASSUME NEW l \in Nat, NEW q \in Nat, NEW p \in Nat, q < p
  PROVE  q * l \in Nat /\ p * l \in Nat /\ q * l + l <= p * l
<1>1. PICK d \in Nat : p = q + 1 + d
  <2>1. p - q - 1 \in Nat /\ p = q + 1 + (p - q - 1)
    OBVIOUS
  <2> QED
    BY <2>1
<1>2. p * l = q * l + l + d * l
  BY <1>1
<1>3. q * l \in Nat /\ d * l \in Nat
  OBVIOUS
<1> QED
  BY <1>2, <1>3

LEMMA PlaceUnique ==
  ASSUME NEW l \in Nat, NEW q \in Nat, NEW p \in Nat, NEW r \in 1 .. l, NEW s \in 1 .. l,
         q * l + r = p * l + s
  PROVE  q = p /\ r = s
<1>1. CASE q < p
  <2>1. q * l \in Nat /\ p * l \in Nat /\ q * l + l <= p * l
    BY <1>1, NextPage
  <2> QED
    BY <2>1
<1>2. CASE p < q
  <2>1. q * l \in Nat /\ p * l \in Nat /\ p * l + l <= q * l
    BY <1>2, NextPage
  <2> QED
    BY <2>1
<1>3. CASE p = q
  <2>1. q * l \in Nat
    OBVIOUS
  <2> QED
    BY <1>3, <2>1
<1> QED
  BY <1>1, <1>2, <1>3

\* A page has the entries from its offset on, up to its limit.
PageHas(page, all, offset, limit) ==
  \A j \in 1 .. limit :
    /\ j \in DOMAIN page <=> offset + j <= Len(all)
    /\ offset + j <= Len(all) => page[j].trace = all[offset + j]

LEMMA PageIs ==
  ASSUME NEW all \in Seq(Traces), all = TracesByRecency, NEW offset \in Nat, NEW limit \in Nat \ {0}
  PROVE  PageHas(ListTraces(offset, limit), all, offset, limit)
<1>1. PICK L \in Nat : L = Len(all)
  OBVIOUS
<1>2. PICK page : page = Page(offset, limit)
  OBVIOUS
<1>3. PICK end \in Nat : end = (IF offset + limit > L THEN L ELSE offset + limit) /\ end <= L
  BY <1>1
<1>4. page = IF offset >= L THEN <<>> ELSE SubSeq(all, offset + 1, end)
  BY <1>1, <1>2, <1>3 DEF Page
<1>5. ASSUME NEW j \in 1 .. limit
      PROVE  (j \in DOMAIN page <=> offset + j <= L) /\ (offset + j <= L => page[j] = all[offset + j])
  <2>1. CASE offset >= L
    BY <1>4, <2>1
  <2>2. CASE offset < L
    <3>1. page = SubSeq(all, offset + 1, end)
      BY <1>1, <1>4, <2>2
    <3>2. PICK m \in Nat : m = offset + 1
      OBVIOUS
    <3>3. \A i \in m .. end : all[i] \in Traces
      BY <1>1, <1>3, <3>2
    <3>4. end - m + 1 \in Nat /\ m <= end
      BY <1>3, <2>2, <3>2
    <3>5. page \in Seq(Traces) /\ Len(page) = end - m + 1 /\ \A i \in 1 .. end - m + 1 : page[i] = all[m + i - 1]
      BY <3>1, <3>2, <3>3, <3>4, SubSeqProperties
    <3>6. end - m + 1 = end - offset
      BY <3>2
    <3>7. j \in 1 .. end - offset <=> offset + j <= L
      BY <1>3
    <3>8. m + j - 1 = offset + j
      BY <3>2
    <3>9. DOMAIN page = 1 .. end - offset
      BY <3>5, <3>6
    <3> QED
      BY <3>5, <3>6, <3>7, <3>8, <3>9
  <2> QED
    BY <1>1, <2>1, <2>2
<1>6. \A t : Info(t).trace = t
  BY DEF Info
<1>7. /\ DOMAIN ListTraces(offset, limit) = DOMAIN page
      /\ \A j \in DOMAIN page : ListTraces(offset, limit)[j].trace = page[j]
  BY <1>2, <1>6 DEF ListTraces
<1> QED
  BY <1>1, <1>5, <1>7 DEF PageHas

\* The traces of the ring are as many as the list has members.
LEMMA ListedIsCounted ==
  ASSUME NEW T, T \subseteq Traces, NEW all, ListsOnce(all, T)
  PROVE  IsFiniteSet(T) /\ Cardinality(T) = Len(all) /\ Len(all) <= Cardinality(Traces) /\ Cardinality(Traces) \in Nat
<1>1. PICK L \in Nat : L = Len(all) /\ all \in [1 .. L -> Traces]
  BY DEF ListsOnce
<1>2. all \in [1 .. L -> T]
  BY <1>1 DEF ListsOnce
<1>3. all \in Bijection(1 .. L, T)
  BY <1>1, <1>2 DEF ListsOnce, Bijection, Injection, Surjection, IsInjective
<1>4. Cardinality(T) = L
  BY <1>3, FS_CountingElements DEF ExistsBijection
<1> QED
  BY <1>1, <1>4, FS_Subset, FS_CardinalityType, StoreAssumption

\* The pages of any size have every trace of the ring at one place.
LEMMA PagesTileListing == TypeOK => PagesTile
<1> SUFFICES ASSUME TypeOK, NEW limit \in 1 .. Cardinality(Traces)
             PROVE  LET pageOf(k) == ListTraces(k * limit, limit)
                        listed == {x \in (0 .. Cardinality(Traces)) \X (1 .. limit) : x[2] \in DOMAIN pageOf(x[1])}
                    IN /\ Cardinality(listed) = Cardinality({spans[i].trace : i \in 0 .. count - 1})
                       /\ {pageOf(x[1])[x[2]].trace : x \in listed} = {spans[i].trace : i \in 0 .. count - 1}
  BY DEF PagesTile
<1> DEFINE pageOf(k) == ListTraces(k * limit, limit)
           listed == {x \in (0 .. Cardinality(Traces)) \X (1 .. limit) : x[2] \in DOMAIN pageOf(x[1])}
<1>1. PICK all \in Seq(Traces) : all = TracesByRecency /\ ListsOnce(all, TracesOfRing)
  BY TracesAreListed DEF ListsOnce
<1>2. PICK L \in Nat : L = Len(all)
  OBVIOUS
<1>3. TracesOfRing \subseteq Traces
  <2> SUFFICES ASSUME NEW i \in 0 .. count - 1 PROVE spans[i].trace \in Traces
    BY DEF TracesOfRing
  <2>1. i \in Ring!Slots /\ ~(i >= count)
    BY StoreAssumption DEF TypeOK, Ring!TypeOK, Ring!Slots
  <2> QED
    BY <2>1 DEF TypeOK, Ring!TypeOK, Span
<1>4. PICK C \in Nat : C = Cardinality(Traces) /\ L <= C /\ Cardinality(TracesOfRing) = L
  BY <1>1, <1>2, <1>3, ListedIsCounted
<1>5. limit \in Nat \ {0}
  BY <1>4
<1> HIDE DEF pageOf
<1>6. ASSUME NEW k \in 0 .. C, NEW j \in 1 .. limit
      PROVE  /\ k * limit \in Nat
             /\ j \in DOMAIN pageOf(k) <=> k * limit + j <= L
             /\ k * limit + j <= L => pageOf(k)[j].trace = all[k * limit + j]
  <2>1. PICK offset \in Nat : offset = k * limit
    BY <1>5
  <2>2. PageHas(ListTraces(offset, limit), all, offset, limit)
    BY <1>1, <1>5, PageIs
  <2> QED
    BY <1>2, <2>1, <2>2 DEF PageHas, pageOf
<1>7. \A x \in listed :
        /\ x[1] \in 0 .. C /\ x[2] \in 1 .. limit /\ x = <<x[1], x[2]>>
        /\ x[1] * limit + x[2] \in 1 .. L
        /\ pageOf(x[1])[x[2]].trace = all[x[1] * limit + x[2]]
  <2> SUFFICES ASSUME NEW x \in listed
               PROVE  /\ x[1] \in 0 .. C /\ x[2] \in 1 .. limit /\ x = <<x[1], x[2]>>
                      /\ x[1] * limit + x[2] \in 1 .. L
                      /\ pageOf(x[1])[x[2]].trace = all[x[1] * limit + x[2]]
    OBVIOUS
  <2>1. x[1] \in 0 .. C /\ x[2] \in 1 .. limit /\ x = <<x[1], x[2]>> /\ x[2] \in DOMAIN pageOf(x[1])
    BY <1>4
  <2>2. PICK k \in 0 .. C, j \in 1 .. limit : k = x[1] /\ j = x[2] /\ j \in DOMAIN pageOf(k)
    BY <2>1
  <2>3. k * limit \in Nat /\ k * limit + j <= L /\ pageOf(k)[j].trace = all[k * limit + j]
    BY <1>6, <2>2
  <2>4. k * limit + j \in 1 .. L
    BY <2>3
  <2> QED
    BY <2>1, <2>2, <2>3, <2>4
<1>8. \A i \in 1 .. L : \E x \in listed : x[1] * limit + x[2] = i
  <2> SUFFICES ASSUME NEW i \in 1 .. L PROVE \E x \in listed : x[1] * limit + x[2] = i
    OBVIOUS
  <2>1. PICK n \in Nat : n + 1 = i
    <3>1. i - 1 \in Nat /\ i - 1 + 1 = i
      OBVIOUS
    <3> QED
      BY <3>1
  <2>2. PICK k \in 0 .. n, j \in 1 .. limit : n + 1 = k * limit + j
    BY <1>5, PlaceIs
  <2>3. k \in 0 .. C /\ k * limit + j <= L
    BY <1>4, <2>1, <2>2
  <2>4. <<k, j>> \in listed
    BY <1>4, <1>6, <2>3
  <2> QED
    BY <2>1, <2>2, <2>4
<1> HIDE DEF listed
<1>9. PICK place : place = [x \in listed |-> x[1] * limit + x[2]]
  OBVIOUS
<1>10. place \in Bijection(listed, 1 .. L)
  <2>1. place \in [listed -> 1 .. L]
    BY <1>7, <1>9
  <2>2. ASSUME NEW x \in listed, NEW y \in listed, place[x] = place[y] PROVE x = y
    <3>1. PICK q \in Nat, r \in 1 .. limit : q = x[1] /\ r = x[2] /\ x = <<q, r>>
      BY <1>7
    <3>2. PICK p \in Nat, s \in 1 .. limit : p = y[1] /\ s = y[2] /\ y = <<p, s>>
      BY <1>7
    <3>3. q * limit + r = p * limit + s
      BY <1>9, <2>2, <3>1, <3>2
    <3>4. q = p /\ r = s
      BY <1>5, <3>3, PlaceUnique
    <3> QED
      BY <3>1, <3>2, <3>4
  <2>3. \A i \in 1 .. L : \E x \in listed : place[x] = i
    BY <1>8, <1>9
  <2> QED
    BY <2>1, <2>2, <2>3 DEF Bijection, Injection, Surjection, IsInjective
<1>11. Cardinality(listed) = L
  <2>1. ExistsBijection(1 .. L, listed)
    BY <1>10, Fun_ExistsBijSymmetric DEF ExistsBijection
  <2> QED
    BY <2>1, FS_CountingElements
<1>12. {pageOf(x[1])[x[2]].trace : x \in listed} = TracesOfRing
  <2>1. ASSUME NEW x \in listed PROVE pageOf(x[1])[x[2]].trace \in TracesOfRing
    <3>1. PICK i \in 1 .. L : pageOf(x[1])[x[2]].trace = all[i]
      BY <1>7
    <3>2. all[i] \in Traces
      BY <1>2
    <3> QED
      BY <1>1, <1>2, <3>1, <3>2 DEF ListsOnce
  <2>2. ASSUME NEW t \in TracesOfRing PROVE \E x \in listed : pageOf(x[1])[x[2]].trace = t
    <3>1. PICK i \in 1 .. L : all[i] = t
      BY <1>1, <1>2, <1>3 DEF ListsOnce
    <3>2. PICK x \in listed : x[1] * limit + x[2] = i
      BY <1>8
    <3> QED
      BY <1>7, <3>1, <3>2
  <2> QED
    BY <2>1, <2>2
<1> QED
  BY <1>4, <1>11, <1>12 DEF TracesOfRing, pageOf, listed

\* Whatever the page size, the pages of ListTraces put together name every trace of
\* the ring once, whatever the index says (tracer/store.go:103-132).
THEOREM PagesTileTheListing == Spec => []PagesTile
  BY TypeCorrect, PagesTileListing, PTL
=============================================================================
