----------------------------- MODULE TraceStore -----------------------------
(***************************************************************************)
(* The span store of the tracer (tracer/store.go): the ring of RingStore   *)
(* and an index from trace IDs to slots, to which Add appends and from     *)
(* which nothing is ever removed.  Every operation holds the store's lock  *)
(* from end to end.                                                        *)
(***************************************************************************)
EXTENDS Integers, Sequences, FiniteSets

CONSTANTS
  Traces,     \* trace IDs
  Services,   \* the services that report spans
  NoSpan,     \* the zero value of a slot not yet written
  MaxSize,    \* the size of the ring
  MaxAdds     \* bound: spans added in a behaviour

VARIABLES
  spans, head, count, byTraceID,
  adds        \* spans added so far, for the bound

vars == <<spans, head, count, byTraceID, adds>>

\* A span, as far as the store tells spans apart: root spans have no parent.
Span == [trace : Traces, service : Services, root : BOOLEAN]

ASSUME StoreAssumption ==
  /\ MaxAdds \in Nat /\ MaxSize \in Nat \ {0}
  /\ IsFiniteSet(Traces)
  /\ NoSpan \notin Span

Ring == INSTANCE RingStore WITH Entry <- Span, NoEntry <- NoSpan, entries <- spans

Init ==
  /\ Ring!Init
  /\ byTraceID = [t \in Traces |-> <<>>]
  /\ adds = 0

\* Mutant of Add: the index takes the slot after the one that was written.
AddIndexesNext(s) ==
  /\ adds < MaxAdds
  /\ Ring!Add(s)
  /\ byTraceID' = [byTraceID EXCEPT ![s.trace] = Append(@, head')]
  /\ adds' = adds + 1

Add(s) ==
  /\ adds < MaxAdds
  /\ Ring!Add(s)
  /\ byTraceID' = [byTraceID EXCEPT ![s.trace] = Append(@, head)]
  /\ adds' = adds + 1

Stop == adds = MaxAdds /\ UNCHANGED vars

Next == (\E s \in Span : Add(s)) \/ Stop

Spec == Init /\ [][Next]_vars

-----------------------------------------------------------------------------
(* Queries *)

\* The slots the index holds for a trace, but for those not yet in use.
Indexed(t) == Ring!Log!Matching(byTraceID[t], 0 .. count - 1)

\* Mutant of GetTrace: compared with the head instead of the count.
GetTraceBelowHead(t) ==
  LET slots == Ring!Log!Matching(byTraceID[t], 0 .. head - 1)
  IN [i \in DOMAIN slots |-> spans[slots[i]]]

GetTrace(t) == [i \in DOMAIN Indexed(t) |-> spans[Indexed(t)[i]]]

\* The traces of the ring, each once, by their newest span.
TracesByRecency ==
  LET walk[i \in 0 .. count] ==
        IF i = 0 THEN <<>>
        ELSE LET t == spans[Ring!Back(i - 1)].trace
             IN IF \E j \in DOMAIN walk[i - 1] : walk[i - 1][j] = t
                THEN walk[i - 1]
                ELSE Append(walk[i - 1], t)
  IN walk[count]

\* Mutant of Page: the end of the page is off by one.
PageShort(offset, limit) ==
  LET all == TracesByRecency
      end == IF offset + limit - 1 > Len(all) THEN Len(all) ELSE offset + limit - 1
  IN IF offset >= Len(all) THEN <<>> ELSE SubSeq(all, offset + 1, end)

\* The page of ListTraces: offset and limit are not negative.
Page(offset, limit) ==
  LET all == TracesByRecency
      end == IF offset + limit > Len(all) THEN Len(all) ELSE offset + limit
  IN IF offset >= Len(all) THEN <<>> ELSE SubSeq(all, offset + 1, end)

\* What ListTraces says of one trace.  The number of spans is the length of
\* the index, slots that were overwritten since included.
Info(t) ==
  [trace |-> t,
   services |-> {GetTrace(t)[i].service : i \in DOMAIN GetTrace(t)},
   hasRoot |-> \E i \in DOMAIN GetTrace(t) : GetTrace(t)[i].root,
   spanCount |-> Len(byTraceID[t])]

ListTraces(offset, limit) ==
  LET page == Page(offset, limit)
  IN [i \in DOMAIN page |-> Info(page[i])]

\* Mutant of RecentSpans: it starts one slot too late.
RecentSpansLate(n) ==
  LET m == IF n > count THEN count ELSE n
  IN [i \in 1 .. m |-> spans[(head - m + i + MaxSize) % MaxSize]]

RecentSpans(n) ==
  LET m == IF n > count THEN count ELSE n
  IN [i \in 1 .. m |-> spans[(head - m + (i - 1) + MaxSize) % MaxSize]]

-----------------------------------------------------------------------------
(* Properties *)

\* Spans the store still holds, of one trace, oldest first.
Of(t)       == {s \in Span : s.trace = t}
Retained(t) == Ring!Log!Matching(Ring!Window, Of(t))

\* The ring, and an index of slots of the array.
TypeOK ==
  /\ Ring!TypeOK
  /\ byTraceID \in [Traces -> Seq(Ring!Slots)]
  /\ adds \in 0 .. MaxAdds

\* No query for a trace misses a span that the ring still holds, however often
\* the ring has wrapped: the index keeps a slot for each (tracer/store.go:53-61,
\* 84-94).
NoSpanMissed ==
  \A i \in 0 .. count - 1 :
    \E j \in DOMAIN byTraceID[spans[i].trace] : byTraceID[spans[i].trace][j] = i

\* Until the ring overwrites a slot, a trace is exactly its spans in the order
\* of their arrival, and its summary counts them (tracer/store.go:80-96, 129-171).
ExactUntilWrap ==
  adds <= MaxSize =>
    \A t \in Traces : GetTrace(t) = Retained(t) /\ Info(t).spanCount = Len(Retained(t))

\* The pages of ListTraces, of any size, put together list every trace of the
\* ring once, whatever the index says (tracer/store.go:103-132).
PagesTile ==
  \A limit \in 1 .. Cardinality(Traces) :
    LET pageOf(k) == ListTraces(k * limit, limit)
        listed == {x \in (0 .. Cardinality(Traces)) \X (1 .. limit) : x[2] \in DOMAIN pageOf(x[1])}
    IN /\ Cardinality(listed) = Cardinality({spans[i].trace : i \in 0 .. count - 1})
       /\ {pageOf(x[1])[x[2]].trace : x \in listed} = {spans[i].trace : i \in 0 .. count - 1}

\* RecentSpans, whose arithmetic differs from that of Recent in the other
\* stores, returns the last n spans in order (tracer/store.go:177-190).
RecentSpansAreLast ==
  \A n \in 0 .. MaxSize + 1 : RecentSpans(n) = Ring!Log!LastOf(Ring!Window, n)

=============================================================================
