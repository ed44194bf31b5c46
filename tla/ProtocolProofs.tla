--------------------------- MODULE ProtocolProofs ---------------------------
(***************************************************************************)
(* What crosses a service's sockets.  First the calls: a call through the  *)
(* proxy is a call, for any number of messages each way and any window,    *)
(* the refinement that the run of Transfer shows on two.  Then, from       *)
(* "Induction, and recursion along a rank" on, the bytes of their          *)
(* messages: whatever a peer makes of a message, Unmarshal reads it, and a *)
(* message whose end is missing is seen, which the run of Wire shows on    *)
(* two texts and two numbers and the theorems state for every message.     *)
(*                                                                         *)
(* The second part goes from the inside out.  A recursive function is one  *)
(* that a rank of its arguments bounds (RecursionExists), which gives      *)
(* varints, skip and the loop of Unmarshal their equations.  What a        *)
(* function reads at a position depends on the bytes it takes only:        *)
(* Stands(e, d, i) says that d has the bytes e there, Begins(e, d, i) that *)
(* d ends within them.  Reached(l, fields, d, base, i, m) says that the    *)
(* loop comes to i having read m, and Takes(l, fields, c, m, m2) that the  *)
(* bytes c take it from m to m2 wherever they stand; chunks that take are  *)
(* put one behind the other.  Messages nest three deep, and what is shown  *)
(* of a level rests on the level below.                                    *)
(***************************************************************************)
EXTENDS Transfer, Wire, SequenceTheorems, FunctionTheorems, WellFoundedInduction, TLAPS

-----------------------------------------------------------------------------
(* Sequences *)

Msgs == Seq(Nat)

\* The provers expand Append, Head, Tail and \o wherever they see them; under
\* names of their own the laws below apply as they stand.
Cat(a, b) == a \o b
Put(q, m) == Append(q, m)
First(q) == Head(q)
Rest(q) == Tail(q)
One(m) == <<m>>

LEMMA CatType == \A a, b \in Msgs : Cat(a, b) \in Msgs
  BY DEF Msgs, Cat

LEMMA CatAssociative == \A a, b, c \in Msgs : Cat(Cat(a, b), c) = Cat(a, Cat(b, c))
  BY ConcatAssociative, SMTT(30) DEF Msgs, Cat

LEMMA CatEmpty == <<>> \in Msgs /\ \A a \in Msgs : Cat(a, <<>>) = a /\ Cat(<<>>, a) = a
  BY DEF Msgs, Cat

LEMMA PutIsCat == \A a \in Msgs, m \in Nat : One(m) \in Msgs /\ Put(a, m) = Cat(a, One(m)) /\ Put(a, m) \in Msgs
  BY AppendIsConcat DEF Msgs, Cat, Put, One

LEMMA FirstAndRest ==
  \A q \in Msgs : q # <<>> => /\ First(q) \in Nat /\ Rest(q) \in Msgs
                              /\ Cat(One(First(q)), Rest(q)) = q
  <1> SUFFICES ASSUME NEW q \in Msgs, q # <<>>
               PROVE  /\ Head(q) \in Nat /\ Tail(q) \in Msgs
                      /\ <<Head(q)>> \o Tail(q) = q
    BY Zenon DEF First, Rest, Cat, One
  <1>1. <<Head(q)>> \in Msgs /\ Tail(q) \in Msgs /\ Len(q) \in Nat /\ Len(q) > 0 /\ Head(q) \in Nat
        /\ Len(Tail(q)) = Len(q) - 1 /\ Len(<<Head(q)>>) = 1
    BY DEF Msgs
  <1>2. Len(<<Head(q)>> \o Tail(q)) = Len(q) /\ <<Head(q)>> \o Tail(q) \in Msgs
    BY <1>1 DEF Msgs
  <1>3. \A i \in 1 .. Len(q) : (<<Head(q)>> \o Tail(q))[i] = q[i]
    BY <1>1 DEF Msgs
  <1> QED
    BY <1>1, <1>2, <1>3, SeqEqual DEF Msgs

LEMMA CatFirstAndRest ==
  \A a, d \in Msgs : a # <<>> => /\ Cat(a, d) # <<>> /\ First(Cat(a, d)) = First(a)
                                 /\ Rest(Cat(a, d)) = Cat(Rest(a), d)
  <1> SUFFICES ASSUME NEW a \in Msgs, NEW d \in Msgs, a # <<>>
               PROVE  a \o d # <<>> /\ Head(a \o d) = Head(a) /\ Tail(a \o d) = Tail(a) \o d
    BY DEF First, Rest, Cat
  <1>1. /\ Len(a) \in Nat /\ Len(a) > 0 /\ Len(d) \in Nat /\ Tail(a) \in Msgs
        /\ a \o d \in Msgs /\ Len(a \o d) = Len(a) + Len(d)
        /\ a \o d # <<>> /\ Tail(a \o d) \in Msgs /\ Tail(a) \o d \in Msgs
    BY DEF Msgs
  <1>2. Head(a \o d) = Head(a)
    BY <1>1 DEF Msgs
  <1>3. Len(Tail(a \o d)) = Len(Tail(a) \o d)
    BY <1>1 DEF Msgs
  <1>4. \A i \in 1 .. Len(Tail(a \o d)) : Tail(a \o d)[i] = (Tail(a) \o d)[i]
    BY <1>1 DEF Msgs
  <1> QED
    BY <1>1, <1>2, <1>3, <1>4, SeqEqual DEF Msgs

LEMMA PrefixOfCat ==
  \A a, d \in Msgs : a \in Call!Prefixes(Cat(a, d))
  <1> SUFFICES ASSUME NEW a \in Msgs, NEW d \in Msgs, NEW t \in Msgs, t = a \o d
               PROVE  a \in Call!Prefixes(t)
    BY CatType DEF Cat
  <1>1. Len(t) = Len(a) + Len(d) /\ Len(a) \in Nat /\ Len(d) \in Nat
    BY DEF Msgs
  <1>2. SubSeq(t, 1, Len(a)) = a
    <2>1. \A i \in 1 .. Len(a) : t[i] = a[i] /\ t[i] \in Nat
      BY <1>1, ConcatProperties DEF Msgs
    <2>2. /\ SubSeq(t, 1, Len(a)) \in Msgs /\ Len(SubSeq(t, 1, Len(a))) = Len(a)
          /\ \A i \in 1 .. Len(a) : SubSeq(t, 1, Len(a))[i] = a[i]
      BY <1>1, <2>1, SubSeqProperties DEF Msgs
    <2> QED
      BY <2>2, SeqEqual DEF Msgs
  <1>3. Len(a) \in 0 .. Len(t)
    BY <1>1
  <1> QED
    BY <1>2, <1>3, Zenon DEF Call!Prefixes

\* What is in three queues, one after the other: seen from its end, from its
\* front, and when a loop takes a message into its hand or gives it on.
Through(a, b, c) == Cat(Cat(a, b), c)

LEMMA ThroughLaws ==
  \A a, b, c \in Msgs :
    /\ Through(a, b, c) \in Msgs
    /\ \A m \in Nat : Through(a, b, Put(c, m)) = Put(Through(a, b, c), m)
    /\ a # <<>> => /\ Through(a, b, c) # <<>> /\ First(Through(a, b, c)) = First(a)
                   /\ Rest(Through(a, b, c)) = Through(Rest(a), b, c)
    /\ c # <<>> => Through(a, One(First(c)), Rest(c)) = Through(a, <<>>, c)
    /\ \A m \in Nat : Through(Put(a, m), <<>>, c) = Through(a, One(m), c)
    /\ a \in Call!Prefixes(Through(a, b, c)) /\ a \in Call!Prefixes(a)
  <1> TAKE a, b, c \in Msgs
  <1> USE DEF Through
  <1>1. Through(a, b, c) \in Msgs /\ Cat(a, b) \in Msgs /\ Cat(b, c) \in Msgs
    BY CatType
  <1>2. ASSUME NEW m \in Nat PROVE Through(a, b, Put(c, m)) = Put(Through(a, b, c), m)
    BY <1>1, PutIsCat, CatAssociative
  <1>3. a # <<>> => /\ Through(a, b, c) # <<>> /\ First(Through(a, b, c)) = First(a)
                    /\ Rest(Through(a, b, c)) = Through(Rest(a), b, c)
    BY <1>1, CatFirstAndRest, FirstAndRest, CatAssociative
  <1>4. c # <<>> => Through(a, One(First(c)), Rest(c)) = Through(a, <<>>, c)
    <2> SUFFICES ASSUME c # <<>> PROVE Through(a, One(First(c)), Rest(c)) = Cat(a, c)
      BY CatEmpty
    <2>1. One(First(c)) \in Msgs /\ Rest(c) \in Msgs /\ Cat(One(First(c)), Rest(c)) = c
      BY FirstAndRest, PutIsCat
    <2> QED
      BY <2>1, CatAssociative
  <1>5. ASSUME NEW m \in Nat PROVE Through(Put(a, m), <<>>, c) = Through(a, One(m), c)
    BY PutIsCat, CatEmpty
  <1>6. a \in Call!Prefixes(Through(a, b, c)) /\ a \in Call!Prefixes(a)
    <2>1. Through(a, b, c) = Cat(a, Cat(b, c)) /\ a = Cat(a, <<>>)
      BY CatAssociative, CatEmpty
    <2> QED
      BY <1>1, <2>1, PrefixOfCat, CatEmpty
  <1> QED
    BY <1>1, <1>2, <1>3, <1>4, <1>5, <1>6

LEMMA HandedOn ==
  \A a, c \in Msgs, m \in Nat : Through(Put(a, m), <<>>, c) = Through(a, One(m), c)
  BY CatEmpty, ThroughLaws

-----------------------------------------------------------------------------
(* The invariant *)

Types ==
  /\ sent \in Nat /\ halfClosed \in BOOLEAN /\ cancelled \in BOOLEAN
  /\ received \in Msgs /\ outcome \in {"none", "ok", "error"}
  /\ got \in Msgs /\ sawEnd \in BOOLEAN /\ replied \in Nat
  /\ ended \in {"no", "ok", "error"}
  /\ srcIn \in Msgs /\ srcOut \in Msgs /\ dstIn \in Msgs /\ dstOut \in Msgs
  /\ sendClosed \in BOOLEAN /\ resErr \in BOOLEAN
  /\ upper \in {"recv", "send", "done"} /\ downer \in {"recv", "send", "wait"}
  /\ upMsg \in Nat \cup {NoMessage} /\ (upMsg # NoMessage <=> upper = "send")
  /\ downMsg \in Nat \cup {NoMessage} /\ (downMsg # NoMessage <=> downer = "send")
  /\ returned \in {"none", "ok", "error"}

\* While the call is on, nothing of what the caller has sent is missing; and the
\* half-close is passed on only when there is nothing left to pass on.
UpInv ==
  /\ ended = "no" /\ ~cancelled =>
       Len(got) + Len(dstOut) + (IF upper = "send" THEN 1 ELSE 0) + Len(srcIn) = sent
  /\ sendClosed => halfClosed /\ upper = "done"
  /\ sendClosed /\ ended = "no" => Len(got) + Len(dstOut) = sent
  /\ upper = "done" => sendClosed \/ cancelled \/ ended # "no"

\* The same of the replies, until the target's error overtakes them; and what
\* the handler is to return is the status of the target.
DownInv ==
  /\ resErr => cancelled \/ ended = "error"
  /\ resErr => downer = "wait"
  /\ ~cancelled /\ ~resErr =>
       Len(received) + Len(srcOut) + (IF downer = "send" THEN 1 ELSE 0) + Len(dstIn) = replied
  /\ downer = "wait" /\ ~cancelled /\ ~resErr => ended = "ok" /\ dstIn = <<>>
  /\ returned # "none" => downer = "wait" /\ returned = (IF resErr THEN "error" ELSE "ok")

TransferInv == Types /\ UpInv /\ DownInv

LEMMA TransferInvInitially == Init => TransferInv
  <1>1. <<>> \in Msgs /\ Len(<<>>) = 0
    BY DEF Msgs
  <1> QED
    <2>1. Init => Types
      <3> SUFFICES ASSUME Init PROVE Types
        OBVIOUS
      <3>1. /\ received \in Msgs /\ got \in Msgs /\ srcIn \in Msgs /\ srcOut \in Msgs
            /\ dstIn \in Msgs /\ dstOut \in Msgs
        BY <1>1 DEF Init
      <3>2. /\ sent \in Nat /\ replied \in Nat
            /\ upMsg = NoMessage /\ upper = "recv" /\ downMsg = NoMessage /\ downer = "recv"
        BY DEF Init
      <3>3. /\ halfClosed = FALSE /\ cancelled = FALSE /\ sawEnd = FALSE
            /\ sendClosed = FALSE /\ resErr = FALSE
            /\ outcome = "none" /\ ended = "no" /\ returned = "none"
        BY DEF Init
      <3> QED
        BY <3>1, <3>2, <3>3 DEF Types
    <2>2. Init => /\ Len(got) = 0 /\ Len(dstOut) = 0 /\ Len(srcIn) = 0 /\ sent = 0
                  /\ Len(received) = 0 /\ Len(srcOut) = 0 /\ Len(dstIn) = 0 /\ replied = 0
      BY <1>1 DEF Init
    <2>3. Init => UpInv /\ DownInv
      BY <2>2 DEF Init, UpInv, DownInv
    <2> QED
      BY <2>1, <2>3 DEF TransferInv

LEMMA QueueLengths ==
  ASSUME NEW q \in Msgs
  PROVE  /\ Len(q) \in Nat
         /\ \A m \in Nat : Append(q, m) \in Msgs /\ Len(Append(q, m)) = Len(q) + 1
         /\ q # <<>> => Head(q) \in Nat /\ Tail(q) \in Msgs /\ Len(Tail(q)) = Len(q) - 1
  BY DEF Msgs

LEMMA TransferInvInductive == TransferInv /\ [Next]_vars => TransferInv'
  <1> SUFFICES ASSUME TransferInv, [Next]_vars PROVE TransferInv'
    OBVIOUS
  <1> USE TransferAssumption DEF TransferInv, Types, UpInv, DownInv,
            caller, target, upLoop, downLoop, InCall, DstLive
  <1>L. Len(<<>>) = 0 /\ <<>> \in Msgs
    BY DEF Msgs
  <1>N. /\ Len(got) \in Nat /\ Len(dstOut) \in Nat /\ Len(srcIn) \in Nat
        /\ Len(received) \in Nat /\ Len(srcOut) \in Nat /\ Len(dstIn) \in Nat
    BY QueueLengths
  <1>1. CASE Send
    BY <1>L, QueueLengths, <1>1, SMTT(30) DEF Send
  <1>2. CASE HalfClose
    BY <1>L, QueueLengths, <1>2 DEF HalfClose
  <1>3. CASE Cancel
    BY <1>L, QueueLengths, <1>3 DEF Cancel
  <1>4. CASE CallerReceives
    <2>1. /\ received' \in Msgs /\ Len(received') = Len(received) + 1
          /\ srcOut' \in Msgs /\ Len(srcOut') = Len(srcOut) - 1
      BY QueueLengths, <1>4 DEF CallerReceives
    <2>2. /\ ~cancelled
          /\ UNCHANGED <<sent, halfClosed, cancelled, outcome, target, srcIn, dstIn, dstOut,
                         sendClosed, upLoop, downLoop, returned>>
      BY <1>4 DEF CallerReceives
    <2> QED
      BY <2>1, <2>2
  <1>5. CASE CallerEnds
    BY <1>L, QueueLengths, <1>5 DEF CallerEnds
  <1>6. CASE TargetReceives
    <2>1. /\ got' \in Msgs /\ Len(got') = Len(got) + 1
          /\ dstOut' \in Msgs /\ Len(dstOut') = Len(dstOut) - 1
      BY QueueLengths, <1>6 DEF TargetReceives
    <2>2. /\ ended = "no"
          /\ UNCHANGED <<caller, sawEnd, replied, ended, srcIn, srcOut, dstIn, sendClosed,
                         upLoop, downLoop, returned>>
      BY <1>6 DEF TargetReceives
    <2>3. Types'
      BY <2>1, <2>2
    <2>4. Len(got') + Len(dstOut') = Len(got) + Len(dstOut)
      BY <2>1, <1>N
    <2>5. UpInv'
      <3>1. /\ UpInv
            /\ UNCHANGED <<sent, halfClosed, cancelled, ended, upper, srcIn, sendClosed>>
            /\ Len(got') + Len(dstOut') = Len(got) + Len(dstOut)
        BY <2>2, <2>4
      <3> QED
        BY ONLY <3>1 DEF UpInv
    <2> QED
      BY <2>2, <2>3, <2>5
  <1>7. CASE TargetSeesEnd
    BY <1>L, QueueLengths, <1>7 DEF TargetSeesEnd
  <1>8. CASE TargetReplies
    <2>1. /\ dstIn' \in Msgs /\ Len(dstIn') = Len(dstIn) + 1
          /\ replied' = replied + 1 /\ replied' \in Nat
      BY QueueLengths, <1>8 DEF TargetReplies
    <2> QED
      BY <2>1, <1>8 DEF TargetReplies
  <1>9. ASSUME NEW s \in {"ok", "error"}, TargetEnds(s) PROVE TransferInv'
    BY <1>L, QueueLengths, <1>9 DEF TargetEnds
  <1>10. CASE UpRecv
    <2>1. /\ srcIn' \in Msgs /\ Len(srcIn') = Len(srcIn) - 1
          /\ upMsg' \in Nat /\ upMsg' # NoMessage
      BY QueueLengths, <1>10 DEF UpRecv
    <2>2. /\ upper = "recv" /\ upper' = "send"
          /\ UNCHANGED <<caller, target, srcOut, dstIn, dstOut, sendClosed, downLoop, returned>>
      BY <1>10 DEF UpRecv
    <2>3. Types'
      BY <2>1, <2>2
    <2>4. /\ UpInv /\ upper = "recv" /\ upper' = "send"
          /\ UNCHANGED <<sent, halfClosed, cancelled, ended, got, dstOut, sendClosed>>
          /\ Len(srcIn') = Len(srcIn) - 1
          /\ Len(got) \in Nat /\ Len(dstOut) \in Nat /\ Len(srcIn) \in Nat
      BY <2>1, <2>2, <1>N
    <2>5. UpInv'
      BY ONLY <2>4 DEF UpInv
    <2> QED
      BY <2>2, <2>3, <2>5
  <1>11. CASE UpEof
    BY <1>L, QueueLengths, <1>11 DEF UpEof
  <1>12. CASE UpError
    BY <1>L, QueueLengths, <1>12 DEF UpError
  <1>13. CASE UpSend
    BY <1>L, QueueLengths, <1>13 DEF UpSend
  <1>14. CASE UpSendFails
    BY <1>L, QueueLengths, <1>14 DEF UpSendFails
  <1>15. CASE DownRecv
    <2>1. /\ dstIn' \in Msgs /\ Len(dstIn') = Len(dstIn) - 1
          /\ downMsg' \in Nat /\ downMsg' # NoMessage
      BY QueueLengths, <1>15 DEF DownRecv
    <2>2. /\ downer = "recv" /\ downer' = "send"
          /\ UNCHANGED <<caller, target, srcIn, srcOut, dstOut, sendClosed, upLoop, resErr, returned>>
      BY <1>15 DEF DownRecv
    <2>3. Types'
      BY <2>1, <2>2
    <2>4. /\ DownInv /\ downer = "recv" /\ downer' = "send"
          /\ UNCHANGED <<cancelled, ended, received, srcOut, replied, resErr, returned>>
          /\ Len(dstIn') = Len(dstIn) - 1
          /\ Len(received) \in Nat /\ Len(srcOut) \in Nat /\ Len(dstIn) \in Nat
      BY <2>1, <2>2, <1>N
    <2>5. DownInv'
      BY ONLY <2>4 DEF DownInv
    <2> QED
      BY <2>2, <2>3, <2>5
  <1>16. CASE DownEof
    BY <1>L, QueueLengths, <1>16 DEF DownEof
  <1>17. CASE DownError
    BY <1>L, QueueLengths, <1>17 DEF DownError
  <1>18. CASE DownSend
    BY <1>L, QueueLengths, <1>18 DEF DownSend
  <1>19. CASE DownSendFails
    BY <1>L, QueueLengths, <1>19 DEF DownSendFails
  <1>20. CASE Return
    BY <1>L, QueueLengths, <1>20 DEF Return
  <1>21. CASE UNCHANGED vars
    BY <1>21 DEF vars
  <1> QED
    BY <1>1, <1>2, <1>3, <1>4, <1>5, <1>6, <1>7, <1>8, <1>9, <1>10, <1>11, <1>12, <1>13,
       <1>14, <1>15, <1>16, <1>17, <1>18, <1>19, <1>20, <1>21
    DEF Next, CallerStep, TargetStep, UpStep, DownStep

-----------------------------------------------------------------------------
(* The refinement *)

LEMMA HeldIs ==
  /\ Held(NoMessage) = <<>> /\ \A m \in Nat : Held(m) = One(m)
  /\ \A m \in Nat \cup {NoMessage} : Held(m) \in Msgs
  BY TransferAssumption DEF Held, Msgs, One

\* What is on its way, by the state of the call.
LEMMA UpIs ==
  /\ ended # "no" => Up = <<>>
  /\ ended = "no" /\ cancelled => Up = dstOut
  /\ ended = "no" /\ ~cancelled => Up = Through(dstOut, Held(upMsg), srcIn)
  BY DEF Up, Through, Cat

LEMMA UpIsPrime ==
  /\ ended' # "no" => Up' = <<>>
  /\ ended' = "no" /\ cancelled' => Up' = dstOut'
  /\ ended' = "no" /\ ~cancelled' => Up' = Through(dstOut', Held(upMsg'), srcIn')
  BY DEF Up, Through, Cat, Held

LEMMA DownIs ==
  /\ cancelled => Down = <<>>
  /\ ~cancelled /\ resErr => Down = srcOut
  /\ ~cancelled /\ ~resErr => Down = Through(srcOut, Held(downMsg), dstIn)
  BY DEF Down, Through, Cat

LEMMA DownIsPrime ==
  /\ cancelled' => Down' = <<>>
  /\ ~cancelled' /\ resErr' => Down' = srcOut'
  /\ ~cancelled' /\ ~resErr' => Down' = Through(srcOut', Held(downMsg'), dstIn')
  BY DEF Down, Through, Cat, Held

LEMMA CallInitially == Init => Call!Init
  <1>1. Through(<<>>, <<>>, <<>>) = <<>>
    BY CatEmpty DEF Through
  <1> QED
    BY <1>1, HeldIs, UpIs, DownIs DEF Init, Call!Init

LEMMA CallStep == TransferInv /\ TransferInv' /\ [Next]_vars => [Call!Next]_(Call!vars)
  <1> SUFFICES ASSUME TransferInv, TransferInv', [Next]_vars PROVE [Call!Next]_(Call!vars)
    OBVIOUS
  <1> USE DEF caller, target, upLoop, downLoop
  <1>T. /\ srcIn \in Msgs /\ srcOut \in Msgs /\ dstIn \in Msgs /\ dstOut \in Msgs
        /\ sent \in Nat /\ replied \in Nat /\ halfClosed \in BOOLEAN /\ cancelled \in BOOLEAN
        /\ sent' \in Nat /\ replied' \in Nat
        /\ upMsg \in Nat \cup {NoMessage} /\ downMsg \in Nat \cup {NoMessage}
        /\ upper = "send" => upMsg \in Nat
        /\ upper # "send" => upMsg = NoMessage
        /\ downer = "send" => downMsg \in Nat
        /\ downer # "send" => downMsg = NoMessage
    BY DEF TransferInv, Types
  <1>H. Held(upMsg) \in Msgs /\ Held(downMsg) \in Msgs /\ <<>> \in Msgs
    BY <1>T, HeldIs, CatEmpty
  \* A step of the loops is none of the call, unless it loses replies.
  <1>S. ASSUME UNCHANGED <<caller, target>>,
               Up' = Up, Down' = Down \/ (ended = "error" /\ Down' \in Call!Prefixes(Down))
        PROVE  [Call!Next]_(Call!vars)
    BY <1>S DEF Call!Next, Call!LoseReplies, Call!vars
  <1>1. CASE Send
    <2>1. /\ Call!InCall /\ ~cancelled /\ ~halfClosed /\ sent < MaxSent /\ sent' = sent + 1
          /\ srcIn' = Put(srcIn, sent')
          /\ UNCHANGED <<halfClosed, cancelled, received, outcome, target, srcOut, dstIn,
                         dstOut, upMsg, downMsg, resErr>>
      BY <1>1 DEF Send, InCall, Call!InCall, Put
    <2>2. Down' = Down
      BY <2>1 DEF Down
    <2>3. Up' = IF ended = "no" THEN Put(Up, sent') ELSE Up
      BY <2>1, <1>H, <1>T, ThroughLaws, UpIs, UpIsPrime
    <2> QED
      BY <2>1, <2>2, <2>3 DEF Call!Next, Call!Send, Call!target, Put
  <1>2. CASE HalfClose
    <2>1. Up' = Up /\ Down' = Down
      BY <1>2 DEF HalfClose, Up, Down
    <2> QED
      BY <1>2, <2>1 DEF HalfClose, InCall, Call!InCall, Call!Next, Call!HalfClose, Call!target
  <1>3. CASE Cancel
    <2>1. /\ Call!InCall /\ ~cancelled /\ cancelled' = TRUE
          /\ UNCHANGED <<sent, halfClosed, received, outcome, target, dstOut>>
      BY <1>3 DEF Cancel, InCall, Call!InCall
    <2>2. Down' = <<>>
      BY <2>1, DownIsPrime
    <2>3. Up' \in Call!Prefixes(Up)
      BY <2>1, <1>H, <1>T, ThroughLaws, UpIs, UpIsPrime
    <2> QED
      BY <2>1, <2>2, <2>3 DEF Call!Next, Call!Cancel
  <1>4. CASE CallerReceives
    <2>1. /\ Call!InCall /\ ~cancelled /\ srcOut # <<>>
          /\ received' = Append(received, First(srcOut)) /\ srcOut' = Rest(srcOut)
          /\ UNCHANGED <<sent, halfClosed, cancelled, outcome, target, srcIn, dstIn, dstOut,
                         upMsg, downMsg, resErr>>
      BY <1>4 DEF CallerReceives, InCall, Call!InCall, First, Rest
    <2>2. Up' = Up
      BY <2>1 DEF Up
    <2>3. Down # <<>> /\ First(Down) = First(srcOut) /\ Down' = Rest(Down)
      BY <2>1, <1>H, <1>T, ThroughLaws, DownIs, DownIsPrime
    <2> QED
      BY <2>1, <2>2, <2>3 DEF Call!Next, Call!CallerReceives, First, Rest
  <1>5. CASE CallerEnds
    <2>1. /\ Call!InCall /\ ~cancelled /\ srcOut = <<>> /\ returned # "none" /\ outcome' = returned
          /\ UNCHANGED <<sent, halfClosed, cancelled, received, target, srcIn, srcOut, dstIn,
                         dstOut, upMsg, downMsg, resErr>>
      BY <1>5 DEF CallerEnds, InCall, Call!InCall
    <2>2. Up' = Up /\ Down' = Down
      BY <2>1 DEF Up, Down
    <2>3. downer = "wait" /\ downMsg = NoMessage
      BY <2>1, <1>T DEF TransferInv, DownInv
    <2>4. returned = ended /\ ended # "no"
      BY <2>1, <2>3 DEF TransferInv, DownInv, Types
    <2>5. Down = <<>>
      <3>1. CASE resErr
        BY <3>1, <2>1, DownIs
      <3>2. CASE ~resErr
        <4>1. dstIn = <<>>
          BY <3>2, <2>1, <2>3 DEF TransferInv, DownInv
        <4>2. Through(<<>>, <<>>, <<>>) = <<>>
          BY CatEmpty DEF Through
        <4> QED
          BY <3>2, <4>1, <4>2, <2>1, <2>3, HeldIs, DownIs
      <3> QED
        BY <3>1, <3>2, <2>1
    <2>6. ended = "ok" => Len(received) = replied
      <3> SUFFICES ASSUME ended = "ok" PROVE Len(received) = replied
        OBVIOUS
      <3>1. ~resErr /\ dstIn = <<>>
        BY <2>1, <2>3 DEF TransferInv, DownInv
      <3>2. Len(received) + 0 + 0 + 0 = replied /\ Len(received) \in Nat
        BY <3>1, <2>1, <2>3 DEF TransferInv, DownInv, Types, Msgs
      <3> QED
        BY <3>2
    <2> QED
      BY <2>1, <2>2, <2>4, <2>5, <2>6 DEF Call!Next, Call!CallerEnds, Call!target
  <1>6. CASE TargetReceives
    <2>1. /\ ended = "no" /\ dstOut # <<>>
          /\ got' = Append(got, First(dstOut)) /\ dstOut' = Rest(dstOut)
          /\ UNCHANGED <<caller, sawEnd, replied, ended, srcIn, srcOut, dstIn, upMsg, downMsg,
                         resErr>>
      BY <1>6 DEF TargetReceives, First, Rest
    <2>2. Down' = Down
      BY <2>1 DEF Down
    <2>3. Up # <<>> /\ First(Up) = First(dstOut) /\ Up' = Rest(Up)
      BY <2>1, <1>H, <1>T, ThroughLaws, UpIs, UpIsPrime
    <2> QED
      BY <2>1, <2>2, <2>3 DEF Call!Next, Call!TargetReceives, First, Rest
  <1>7. CASE TargetSeesEnd
    <2>1. /\ ended = "no" /\ ~sawEnd /\ sendClosed /\ dstOut = <<>> /\ sawEnd' = TRUE
          /\ UNCHANGED <<caller, got, replied, ended, srcIn, srcOut, dstIn, dstOut, upMsg,
                         downMsg, resErr>>
      BY <1>7 DEF TargetSeesEnd
    <2>2. Up' = Up /\ Down' = Down
      BY <2>1 DEF Up, Down
    <2>3. halfClosed /\ Len(got) = sent
      <3>1. halfClosed /\ Len(got) + 0 = sent /\ Len(got) \in Nat
        BY <2>1 DEF TransferInv, UpInv, Types, Msgs
      <3> QED
        BY <3>1
    <2> QED
      BY <2>1, <2>2, <2>3 DEF Call!Next, Call!TargetSeesEnd
  <1>8. CASE TargetReplies
    <2>1. /\ ended = "no" /\ replied < MaxSent /\ replied' = replied + 1
          /\ dstIn' = Put(dstIn, replied')
          /\ UNCHANGED <<caller, got, sawEnd, ended, srcIn, srcOut, dstOut, upMsg, downMsg,
                         resErr>>
      BY <1>8 DEF TargetReplies, Put
    <2>2. Up' = Up
      BY <2>1 DEF Up
    <2>3. cancelled \/ ~resErr
      BY <2>1 DEF TransferInv, DownInv
    <2>4. Down' = IF cancelled THEN Down ELSE Put(Down, replied')
      BY <2>1, <2>3, <1>H, <1>T, ThroughLaws, DownIs, DownIsPrime
    <2> QED
      BY <2>1, <2>2, <2>4 DEF Call!Next, Call!TargetReplies, Put
  <1>9. ASSUME NEW s \in {"ok", "error"}, TargetEnds(s) PROVE [Call!Next]_(Call!vars)
    <2>1. /\ ended = "no" /\ ended' = s
          /\ UNCHANGED <<caller, got, sawEnd, replied, srcIn, srcOut, dstIn, dstOut, upMsg,
                         downMsg, resErr>>
      BY <1>9 DEF TargetEnds
    <2>2. Up' = <<>> /\ Down' = Down
      BY <2>1, UpIsPrime DEF Down
    <2> QED
      BY <2>1, <2>2 DEF Call!Next, Call!TargetEnds
  <1>10. CASE UpRecv
    <2>1. /\ upper = "recv" /\ srcIn # <<>> /\ upMsg' = First(srcIn) /\ srcIn' = Rest(srcIn)
          /\ UNCHANGED <<caller, target, srcOut, dstIn, dstOut, downMsg, resErr>>
      BY <1>10 DEF UpRecv, First, Rest
    <2>2. Down' = Down
      BY <2>1 DEF Down
    <2>3. Held(upMsg) = <<>> /\ Held(upMsg') = One(First(srcIn))
      BY <2>1, <1>T, HeldIs, FirstAndRest
    <2>4. Through(dstOut, One(First(srcIn)), Rest(srcIn)) = Through(dstOut, <<>>, srcIn)
      BY <2>1, <1>T, <1>H, ThroughLaws
    <2>5. Up' = Up
      BY <2>1, <2>3, <2>4, UpIs, UpIsPrime
    <2> QED
      BY <2>1, <2>2, <2>5, <1>S
  <1>11. CASE UpEof
    <2>1. Up' = Up /\ Down' = Down /\ UNCHANGED <<caller, target>>
      BY <1>11 DEF UpEof, Up, Down
    <2> QED
      BY <2>1, <1>S
  <1>12. CASE UpError
    <2>1. Up' = Up /\ Down' = Down /\ UNCHANGED <<caller, target>>
      BY <1>12 DEF UpError, Up, Down
    <2> QED
      BY <2>1, <1>S
  <1>13. CASE UpSend
    <2>1. /\ upper = "send" /\ upMsg' = NoMessage
          /\ DstLive => dstOut' = Put(dstOut, upMsg)
          /\ ~DstLive => dstOut' = dstOut
          /\ UNCHANGED <<caller, target, srcIn, srcOut, dstIn, downMsg, resErr>>
      BY <1>13 DEF UpSend, Put
    <2>2. Down' = Down
      BY <2>1 DEF Down
    <2>3. Held(upMsg') = <<>> /\ Held(upMsg) = One(upMsg)
      BY <2>1, <1>T, HeldIs
    <2>4. Up' = Up
      BY <2>1, <2>3, <1>T, ThroughLaws, UpIs, UpIsPrime DEF DstLive
    <2> QED
      BY <2>1, <2>2, <2>4, <1>S
  <1>14. CASE UpSendFails
    <2>1. /\ ~DstLive
          /\ UNCHANGED <<caller, target, srcIn, srcOut, dstIn, dstOut, downMsg, resErr>>
      BY <1>14 DEF UpSendFails
    <2>2. Up' = Up /\ Down' = Down
      BY <2>1 DEF Up, Down, DstLive
    <2> QED
      BY <2>1, <2>2, <1>S
  <1>15. CASE DownRecv
    <2>1. /\ downer = "recv" /\ dstIn # <<>> /\ downMsg' = First(dstIn) /\ dstIn' = Rest(dstIn)
          /\ UNCHANGED <<caller, target, srcIn, srcOut, dstOut, upMsg, resErr>>
      BY <1>15 DEF DownRecv, First, Rest
    <2>2. Up' = Up
      BY <2>1 DEF Up
    <2>3. Held(downMsg) = <<>> /\ Held(downMsg') = One(First(dstIn))
      BY <2>1, <1>T, HeldIs, FirstAndRest
    <2>4. Through(srcOut, One(First(dstIn)), Rest(dstIn)) = Through(srcOut, <<>>, dstIn)
      BY <2>1, <1>T, <1>H, ThroughLaws
    <2>5. Down' = Down
      BY <2>1, <2>3, <2>4, DownIs, DownIsPrime
    <2> QED
      BY <2>1, <2>2, <2>5, <1>S
  <1>16. CASE DownEof
    <2>1. Up' = Up /\ Down' = Down /\ UNCHANGED <<caller, target>>
      BY <1>16 DEF DownEof, Up, Down
    <2> QED
      BY <2>1, <1>S
  <1>17. CASE DownError
    <2>1. /\ downer = "recv" /\ (ended = "error" \/ cancelled) /\ resErr' = TRUE
          /\ UNCHANGED <<caller, target, srcIn, srcOut, dstIn, dstOut, upMsg, downMsg>>
      BY <1>17 DEF DownError
    <2>2. Up' = Up /\ ~resErr
      BY <2>1 DEF Up, TransferInv, DownInv
    <2>3. Down' = Down \/ (ended = "error" /\ Down' \in Call!Prefixes(Down))
      BY <2>1, <2>2, <1>H, <1>T, ThroughLaws, DownIs, DownIsPrime
    <2> QED
      BY <2>1, <2>2, <2>3, <1>S
  <1>18. CASE DownSend
    <2>1. /\ downer = "send" /\ downMsg' = NoMessage
          /\ ~cancelled => srcOut' = Put(srcOut, downMsg)
          /\ UNCHANGED <<caller, target, srcIn, dstIn, dstOut, upMsg, resErr>>
      BY <1>18 DEF DownSend, Put
    <2>2. Up' = Up /\ ~resErr
      BY <2>1 DEF Up, TransferInv, DownInv
    <2>3. Held(downMsg') = <<>> /\ Held(downMsg) = One(downMsg)
      BY <2>1, <1>T, HeldIs
    <2>4. Through(Put(srcOut, downMsg), <<>>, dstIn) = Through(srcOut, One(downMsg), dstIn)
      BY <2>1, <1>T, HandedOn
    <2>5. Down' = Down
      BY <2>1, <2>2, <2>3, <2>4, DownIs, DownIsPrime
    <2> QED
      BY <2>1, <2>2, <2>5, <1>S
  <1>19. CASE DownSendFails
    <2>1. /\ cancelled
          /\ UNCHANGED <<caller, target, srcIn, dstOut, upMsg>>
      BY <1>19 DEF DownSendFails
    <2>2. Up' = Up /\ Down' = Down
      BY <2>1, DownIs, DownIsPrime DEF Up
    <2> QED
      BY <2>1, <2>2, <1>S
  <1>20. CASE Return
    <2>1. Up' = Up /\ Down' = Down /\ UNCHANGED <<caller, target>>
      BY <1>20 DEF Return, Up, Down
    <2> QED
      BY <2>1, <1>S
  <1>21. CASE UNCHANGED vars
    <2>1. Up' = Up /\ Down' = Down /\ UNCHANGED <<caller, target>>
      BY <1>21 DEF vars, Up, Down
    <2> QED
      BY <2>1, <1>S
  <1> QED
    BY <1>1, <1>2, <1>3, <1>4, <1>5, <1>6, <1>7, <1>8, <1>9, <1>10, <1>11, <1>12, <1>13,
       <1>14, <1>15, <1>16, <1>17, <1>18, <1>19, <1>20, <1>21
    DEF Next, CallerStep, TargetStep, UpStep, DownStep

\* Whatever the two sides do, and in whatever order the two loops run: what
\* transfer makes of the call is a behaviour of a direct one.
THEOREM TransferImplementsRpcCall == Spec => ImplementsRpcCall
  <1>1. Spec => []TransferInv
    BY TransferInvInitially, TransferInvInductive, PTL DEF Spec
  <1>2. TransferInv /\ TransferInv' /\ [Next]_vars => [Call!Next]_(Call!vars)
    BY CallStep
  <1>3. Init => Call!Init
    BY CallInitially
  <1> QED
    BY <1>1, <1>2, <1>3, PTL DEF Spec, ImplementsRpcCall, Call!Spec

-----------------------------------------------------------------------------
(* Induction, and recursion along a rank *)

Below == OpToRel(<, Nat)

\* The order of the naturals, as the theorems on well-founded relations take it.
LEMMA BelowIs ==
  ASSUME NEW x \in Nat, NEW y \in Nat, <<x, y>> \notin Below PROVE y <= x
  BY DEF Below, OpToRel

\* A set of naturals that is not empty has a least one.
LEMMA Least == ASSUME NEW T, T \subseteq Nat, T # {} PROVE \E x \in T : \A y \in T : x <= y
<1>1. IsWellFoundedOn(Below, Nat)
  BY NatLessThanWellFounded, Zenon DEF Below
<1>2. PICK x \in T : \A y \in T : <<y, x>> \notin Below
  BY <1>1, WFMin
<1>3. ASSUME NEW y \in T PROVE x <= y
  BY <1>2, BelowIs
<1> QED
  BY <1>3

\* A set that has a number when it has all below it has them all.
LEMMA Induction ==
  ASSUME NEW S, \A n \in Nat : (\A i \in 0 .. n - 1 : i \in S) => n \in S
  PROVE  Nat \subseteq S
<1> SUFFICES ASSUME Nat \ S # {} PROVE FALSE
  OBVIOUS
<1>1. PICK x \in Nat \ S : \A y \in Nat \ S : x <= y
  BY Least
<1>2. \A i \in 0 .. x - 1 : i \in S
  BY <1>1
<1> QED
  BY <1>1, <1>2

\* The function whose value is b[x] in T, and elsewhere h[x] of its value at p[x],
\* which has a lower rank.
Equation(f, T, b, p, h, x) == f[x] = IF x \in T THEN b[x] ELSE h[x][f[p[x]]]

\* A function of one recursive call exists, if a rank falls with the call: T are the
\* arguments without one, p is what it is called with.
LEMMA RecursionExists ==
  ASSUME NEW D, NEW S, NEW rank \in [D -> Nat], NEW T, NEW b \in [D -> S], NEW p \in [D -> D],
         NEW h \in [D -> [S -> S]], \A x \in D \ T : rank[p[x]] < rank[x]
  PROVE  \E f \in [D -> S] : \A x \in D : Equation(f, T, b, p, h, x)
<1> DEFINE Low(n) == {x \in D : rank[x] < n}
           Starts(n) == {f \in [Low(n) -> S] : \A x \in Low(n) : Equation(f, T, b, p, h, x)}
           Have == {n \in Nat : Starts(n) # {}}
           Alike == {n \in Nat : \A x \in D : rank[x] = n =>
                       \A i, j \in Nat : \A f \in Starts(i), g \in Starts(j) :
                         x \in Low(i) /\ x \in Low(j) => f[x] = g[x]}
<1>a. \A n \in Nat : \A x : x \in Low(n) <=> x \in D /\ rank[x] < n
  OBVIOUS
<1>b. \A n \in Nat : \A f : f \in Starts(n) <=>
                         f \in [Low(n) -> S] /\ \A x \in Low(n) : Equation(f, T, b, p, h, x)
  OBVIOUS
<1>c. \A n : n \in Have <=> n \in Nat /\ Starts(n) # {}
  OBVIOUS
<1> HIDE DEF Low, Starts, Have
<1>1. ASSUME NEW n \in Nat, \A i \in 0 .. n - 1 : i \in Have PROVE n \in Have
  <2>1. CASE n = 0
    <3>1. Low(0) = {}
      BY <1>a
    <3>2. [x \in Low(0) |-> b[x]] \in Starts(0)
      BY <3>1, <1>b
    <3> QED
      BY <2>1, <3>2, <1>c
  <2>2. CASE n # 0
    <3>1. n - 1 \in Nat /\ n - 1 \in Have
      BY <1>1, <2>2
    <3>2. PICK f \in [Low(n - 1) -> S] : \A x \in Low(n - 1) : Equation(f, T, b, p, h, x)
      BY <3>1, <1>b, <1>c
    <3>3. PICK g : g = [x \in Low(n) |-> IF rank[x] < n - 1 THEN f[x]
                                        ELSE IF x \in T THEN b[x] ELSE h[x][f[p[x]]]]
      OBVIOUS
    <3>4. \A x \in Low(n) \ T : p[x] \in Low(n - 1) /\ p[x] \in Low(n) /\ f[p[x]] \in S /\ g[p[x]] = f[p[x]]
      <4> TAKE x \in Low(n) \ T
      <4>1. rank[x] \in Nat /\ rank[x] < n /\ p[x] \in D /\ rank[p[x]] \in Nat /\ rank[p[x]] < rank[x]
        BY <1>a
      <4>2. p[x] \in Low(n - 1) /\ p[x] \in Low(n)
        BY <4>1, <3>1, <1>a
      <4> QED
        BY <4>1, <4>2, <3>1, <3>2, <3>3, <1>a
    <3>5. \A x \in Low(n) : g[x] \in S /\ Equation(g, T, b, p, h, x)
      <4> TAKE x \in Low(n)
      <4>0. x \in D /\ rank[x] \in Nat
        BY <1>a
      <4>1. CASE rank[x] < n - 1
        <5>1. x \in Low(n - 1) /\ g[x] = f[x] /\ f[x] \in S /\ Equation(f, T, b, p, h, x)
          BY <4>0, <4>1, <3>1, <3>2, <3>3, <1>a
        <5>2. x \notin T => x \in Low(n) \ T
          OBVIOUS
        <5> QED
          BY <5>1, <5>2, <3>4 DEF Equation
      <4>2. CASE ~(rank[x] < n - 1) /\ x \in T
        BY <4>0, <4>2, <3>3 DEF Equation
      <4>3. CASE ~(rank[x] < n - 1) /\ x \notin T
        <5>1. g[x] = h[x][f[p[x]]] /\ f[p[x]] \in S /\ g[p[x]] = f[p[x]]
          BY <4>0, <4>3, <3>3, <3>4
        <5> QED
          BY <4>0, <4>3, <5>1 DEF Equation
      <4> QED
        BY <4>1, <4>2, <4>3
    <3>6. g \in Starts(n)
      BY <3>3, <3>5, <1>b
    <3> QED
      BY <3>6, <1>c
  <2> QED
    BY <2>1, <2>2
<1>2. \A n \in Nat : Starts(n) # {}
  <2>1. Nat \subseteq Have
    BY <1>1, Induction
  <2> QED
    BY <2>1, <1>c
<1>3. ASSUME NEW n \in Nat, \A i \in 0 .. n - 1 : i \in Alike PROVE n \in Alike
  <2> SUFFICES ASSUME NEW x \in D, rank[x] = n, NEW i \in Nat, NEW j \in Nat,
                      NEW f \in Starts(i), NEW g \in Starts(j), x \in Low(i), x \in Low(j)
               PROVE  f[x] = g[x]
    BY DEF Alike
  <2>1. Equation(f, T, b, p, h, x) /\ Equation(g, T, b, p, h, x)
    BY <1>b
  <2>2. CASE x \in T
    BY <2>1, <2>2 DEF Equation
  <2>3. CASE x \notin T
    <3>1. p[x] \in D /\ rank[p[x]] \in 0 .. n - 1 /\ rank[x] < i /\ rank[x] < j
      BY <2>3, <1>a
    <3>2. p[x] \in Low(i) /\ p[x] \in Low(j)
      BY <3>1, <1>a
    <3>3. rank[p[x]] \in Alike
      BY <1>3, <3>1
    <3>4. f[p[x]] = g[p[x]]
      BY <3>1, <3>2, <3>3 DEF Alike
    <3> QED
      BY <2>1, <2>3, <3>4 DEF Equation
  <2> QED
    BY <2>2, <2>3
<1> HIDE DEF Alike
<1>4. ASSUME NEW x \in D, NEW i \in Nat, NEW j \in Nat, NEW f \in Starts(i), NEW g \in Starts(j),
             x \in Low(i), x \in Low(j)
      PROVE  f[x] = g[x]
  <2>1. Nat \subseteq Alike
    BY <1>3, Induction
  <2>2. rank[x] \in Alike
    BY <2>1
  <2> QED
    BY <1>4, <2>2 DEF Alike
<1>5. PICK start : \A n \in Nat : start[n] \in Starts(n)
  <2>1. PICK s : s = [n \in Nat |-> CHOOSE f \in Starts(n) : TRUE]
    OBVIOUS
  <2>2. \A n \in Nat : s[n] \in Starts(n)
    BY <1>2, <2>1
  <2> QED
    BY <2>2
<1>6. PICK f : f = [x \in D |-> start[rank[x] + 1][x]]
  OBVIOUS
<1>7. \A x \in D : f[x] \in S /\ Equation(f, T, b, p, h, x)
  <2> TAKE x \in D
  <2>1. rank[x] + 1 \in Nat /\ x \in Low(rank[x] + 1) /\ start[rank[x] + 1] \in Starts(rank[x] + 1)
    BY <1>5, <1>a
  <2>2. f[x] \in S /\ Equation(start[rank[x] + 1], T, b, p, h, x)
    BY <2>1, <1>6, <1>b
  <2>3. CASE x \in T
    BY <2>2, <2>3, <1>6 DEF Equation
  <2>4. CASE x \notin T
    <3>1. /\ p[x] \in D /\ rank[p[x]] + 1 \in Nat /\ rank[p[x]] < rank[x] + 1
          /\ p[x] \in Low(rank[p[x]] + 1) /\ p[x] \in Low(rank[x] + 1)
          /\ start[rank[p[x]] + 1] \in Starts(rank[p[x]] + 1)
      BY <2>1, <2>4, <1>5, <1>a
    <3>2. start[rank[p[x]] + 1][p[x]] = start[rank[x] + 1][p[x]]
      BY <2>1, <3>1, <1>4
    <3> QED
      BY <2>2, <2>4, <3>1, <3>2, <1>6 DEF Equation
  <2> QED
    BY <2>2, <2>3, <2>4
<1>8. f \in [D -> S]
  BY <1>6, <1>7
<1> QED
  BY <1>7, <1>8

-----------------------------------------------------------------------------
(* Numbers *)

\* The equation of the recursive function Pow2.
LEMMA Pow2Is ==
  /\ Pow2[0] = 1
  /\ \A n \in Nat : Pow2[n] \in Nat \ {0} /\ Pow2[n + 1] = 2 * Pow2[n]
<1>1. PICK p : p = [n \in Nat |-> IF n = 0 THEN 0 ELSE n - 1]
  OBVIOUS
<1>2. PICK h : h = [n \in Nat |-> [s \in Nat \ {0} |-> 2 * s]]
  OBVIOUS
<1>3. PICK b : b = [n \in Nat |-> 1]
  OBVIOUS
<1>4. PICK rank : rank = [n \in Nat |-> n]
  OBVIOUS
<1>5. p \in [Nat -> Nat] /\ h \in [Nat -> [Nat \ {0} -> Nat \ {0}]] /\ b \in [Nat -> Nat \ {0}]
      /\ rank \in [Nat -> Nat] /\ \A n \in Nat \ {0} : rank[p[n]] < rank[n]
  BY <1>1, <1>2, <1>3, <1>4
<1>6. PICK f \in [Nat -> Nat \ {0}] : \A n \in Nat : Equation(f, {0}, b, p, h, n)
  BY <1>5, RecursionExists
<1>7. \A n \in Nat : f[n] = IF n = 0 THEN 1 ELSE 2 * f[n - 1]
  <2> TAKE n \in Nat
  <2>1. CASE n = 0
    BY <2>1, <1>6, <1>3 DEF Equation
  <2>2. CASE n # 0
    <3>1. p[n] = n - 1 /\ n - 1 \in Nat /\ f[n - 1] \in Nat \ {0} /\ h[n][f[n - 1]] = 2 * f[n - 1]
      BY <2>2, <1>1, <1>2, <1>6
    <3> QED
      BY <2>2, <3>1, <1>6 DEF Equation
  <2> QED
    BY <2>1, <2>2
<1>8. f = [n \in Nat |-> IF n = 0 THEN 1 ELSE 2 * f[n - 1]]
  BY <1>6, <1>7
<1>9. Pow2 = [n \in Nat |-> IF n = 0 THEN 1 ELSE 2 * Pow2[n - 1]]
  BY <1>8 DEF Pow2
<1>10. \A n \in Nat : Pow2[n] = IF n = 0 THEN 1 ELSE 2 * Pow2[n - 1]
  BY <1>9
<1> DEFINE Good == {n \in Nat : Pow2[n] \in Nat \ {0}}
<1>11. ASSUME NEW n \in Nat, \A i \in 0 .. n - 1 : i \in Good PROVE n \in Good
  <2>1. CASE n = 0
    BY <2>1, <1>10
  <2>2. CASE n # 0
    <3>1. Pow2[n - 1] \in Nat \ {0}
      BY <1>11, <2>2
    <3> QED
      BY <2>2, <3>1, <1>10
  <2> QED
    BY <2>1, <2>2
<1>12. Nat \subseteq Good
  <2> HIDE DEF Good
  <2> QED
    BY <1>11, Induction
<1>13. \A n \in Nat : Pow2[n + 1] = 2 * Pow2[n]
  BY <1>10
<1> QED
  BY <1>10, <1>12, <1>13

\* Powers of two multiply by adding exponents.
LEMMA Pow2Sum == \A n, k \in Nat : Pow2[n + k] = Pow2[n] * Pow2[k]
<1> SUFFICES ASSUME NEW k \in Nat PROVE \A n \in Nat : Pow2[n + k] = Pow2[n] * Pow2[k]
  OBVIOUS
<1> DEFINE Good == {n \in Nat : Pow2[n + k] = Pow2[n] * Pow2[k]}
<1>1. ASSUME NEW n \in Nat, \A i \in 0 .. n - 1 : i \in Good PROVE n \in Good
  <2>1. CASE n = 0
    BY <2>1, Pow2Is
  <2>2. CASE n # 0
    <3>1. PICK i \in 0 .. n - 1 : i \in Nat /\ n = i + 1 /\ n + k = (i + k) + 1 /\ i + k \in Nat
      BY <2>2, n - 1 \in Nat
    <3>2. Pow2[i + k] = Pow2[i] * Pow2[k] /\ Pow2[n + k] = 2 * Pow2[i + k] /\ Pow2[n] = 2 * Pow2[i]
      BY <1>1, <3>1, Pow2Is
    <3>3. Pow2[i] \in Nat /\ Pow2[k] \in Nat
      BY <3>1, Pow2Is
    <3> QED
      BY <3>2, <3>3
  <2> QED
    BY <2>1, <2>2
<1>2. Nat \subseteq Good
  <2> HIDE DEF Good
  <2> QED
    BY <1>1, Induction
<1> QED
  BY <1>2

\* 128 to the power of n.
Weight(n) == Pow2[7 * n]

\* The weights of groups: each 128 times the one before.
LEMMA WeightIs ==
  /\ Weight(0) = 1
  /\ \A n \in Nat : Weight(n) \in Nat \ {0} /\ Weight(n + 1) = 128 * Weight(n)
<1>1. ASSUME NEW n \in Nat PROVE Pow2[n + 7] = 128 * Pow2[n]
  <2>1. Pow2[n + 2] = 4 * Pow2[n]
    <3>1. n + 1 \in Nat /\ n + 2 = n + 1 + 1
      OBVIOUS
    <3> QED
      BY <3>1, Pow2Is
  <2>2. Pow2[n + 4] = 16 * Pow2[n]
    <3>1. n + 2 \in Nat /\ n + 3 \in Nat /\ n + 3 = n + 2 + 1 /\ n + 4 = n + 3 + 1
      OBVIOUS
    <3> QED
      BY <3>1, <2>1, Pow2Is
  <2>3. n + 4 \in Nat /\ n + 5 \in Nat /\ n + 6 \in Nat /\ n + 5 = n + 4 + 1 /\ n + 6 = n + 5 + 1 /\ n + 7 = n + 6 + 1
    OBVIOUS
  <2> QED
    BY <2>2, <2>3, Pow2Is
<1>2. ASSUME NEW n \in Nat PROVE Weight(n + 1) = 128 * Weight(n)
  <2>1. 7 * n \in Nat /\ 7 * (n + 1) = 7 * n + 7
    OBVIOUS
  <2> QED
    BY <2>1, <1>1 DEF Weight
<1>3. \A n \in Nat : 7 * n \in Nat
  OBVIOUS
<1> QED
  BY <1>2, <1>3, Pow2Is DEF Weight

\* The groups of a word: all are full but the last, which has one bit.
Groups == WordBits \div 7 + 1

\* What the assumption on the widths says: a word is full groups and a bit, and a
\* multiple of an int32.
LEMMA WordsAre ==
  /\ Groups \in Nat /\ Groups >= 2
  /\ Words = 2 * Weight(Groups - 1) /\ Words \in Nat /\ Words >= 256 /\ Words < Weight(Groups)
  /\ Halves \in Nat /\ Halves >= 256 /\ \E c \in Nat \ {0} : Words = c * Halves
<1>1. WordBits \in Nat /\ WordBits >= 8 /\ HalfBits \in Nat /\ HalfBits >= 8 /\ HalfBits <= WordBits
  BY WireAssumption
<1>2. PICK g \in Nat : g = WordBits \div 7 /\ WordBits = 7 * g + 1 /\ g >= 1
  BY <1>1, WireAssumption
<1>3. Words = 2 * Weight(g) /\ Weight(g) \in Nat \ {0} /\ Weight(g + 1) = 128 * Weight(g)
  BY <1>2, Pow2Is, WeightIs, 7 * g \in Nat DEF Words, Weight
<1>4. Pow2[8] = 256
  <2>1. Weight(1) = 128
    BY WeightIs, 0 + 1 = 1
  <2>2. Pow2[7] = 128 /\ Pow2[7 + 1] = 2 * Pow2[7]
    BY <2>1, Pow2Is, 7 * 1 = 7, 7 \in Nat DEF Weight
  <2> QED
    BY <2>2, 7 + 1 = 8
<1>5. PICK e \in Nat : HalfBits = 8 + e
  BY <1>1
<1>6. Halves = 256 * Pow2[e] /\ Pow2[e] \in Nat \ {0}
  <2>1. Pow2[8 + e] = Pow2[8] * Pow2[e] /\ Pow2[e] \in Nat \ {0}
    BY Pow2Sum, Pow2Is, 8 \in Nat
  <2> QED
    BY <2>1, <1>4, <1>5 DEF Halves
<1>7. PICK c \in Nat : WordBits = c + HalfBits
  BY <1>1
<1>8. Words = Pow2[c] * Halves /\ Pow2[c] \in Nat \ {0}
  BY <1>1, <1>7, Pow2Sum, Pow2Is DEF Words, Halves
<1>9. Halves \in Nat /\ Halves >= 256
  BY <1>6
<1>10. Words >= 256
  BY <1>8, <1>9
<1>11. Words \in Nat /\ Words < Weight(g + 1)
  BY <1>3
<1>12. Groups = g + 1 /\ Groups - 1 = g
  BY <1>2 DEF Groups
<1> QED
  BY <1>2, <1>3, <1>8, <1>9, <1>10, <1>11, <1>12

\* The equation of the recursive function EncodeVarint.
LEMMA EncodeVarintIs ==
  \A v \in Nat :
    /\ EncodeVarint[v] \in Seq(Octet)
    /\ EncodeVarint[v] = IF v < 128 THEN <<v>> ELSE <<128 + (v % 128)>> \o EncodeVarint[v \div 128]
<1>1. PICK p : p = [v \in Nat |-> v \div 128]
  OBVIOUS
<1>2. PICK h : h = [v \in Nat |-> [s \in Seq(Octet) |-> <<128 + (v % 128)>> \o s]]
  OBVIOUS
<1>3. PICK b : b = [v \in Nat |-> IF v < 128 THEN <<v>> ELSE <<0>>]
  OBVIOUS
<1>4. PICK rank : rank = [v \in Nat |-> v]
  OBVIOUS
<1>5. PICK Small : Small = 0 .. 127
  OBVIOUS
<1>6. p \in [Nat -> Nat] /\ rank \in [Nat -> Nat] /\ \A v \in Nat \ Small : rank[p[v]] < rank[v]
  BY <1>1, <1>4, <1>5
<1>7. b \in [Nat -> Seq(Octet)]
  <2>1. \A o \in Octet : <<o>> \in Seq(Octet)
    OBVIOUS
  <2>2. \A v \in Nat : v < 128 => v \in Octet
    BY DEF Octet
  <2> QED
    BY <2>1, <2>2, <1>3, 0 < 128
<1>8. h \in [Nat -> [Seq(Octet) -> Seq(Octet)]]
  <2>1. ASSUME NEW v \in Nat, NEW s \in Seq(Octet) PROVE <<128 + (v % 128)>> \o s \in Seq(Octet)
    <3>1. 128 + (v % 128) \in Octet
      BY DEF Octet
    <3>2. <<128 + (v % 128)>> \in Seq(Octet)
      BY <3>1
    <3> QED
      BY <3>2
  <2> QED
    BY <2>1, <1>2
<1>9. PICK f \in [Nat -> Seq(Octet)] : \A v \in Nat : Equation(f, Small, b, p, h, v)
  BY <1>6, <1>7, <1>8, RecursionExists
<1>10. \A v \in Nat : f[v] = IF v < 128 THEN <<v>> ELSE <<128 + (v % 128)>> \o f[v \div 128]
  <2> TAKE v \in Nat
  <2>1. CASE v < 128
    <3>1. v \in Small /\ b[v] = <<v>>
      BY <2>1, <1>3, <1>5
    <3> QED
      BY <2>1, <3>1, <1>9 DEF Equation
  <2>2. CASE ~(v < 128)
    <3>1. p[v] = v \div 128 /\ f[v \div 128] \in Seq(Octet)
      BY <1>1, <1>9
    <3>2. h[v][f[v \div 128]] = <<128 + (v % 128)>> \o f[v \div 128]
      BY <3>1, <1>2
    <3>3. v \notin Small
      BY <2>2, <1>5
    <3> QED
      BY <2>2, <3>1, <3>2, <3>3, <1>9 DEF Equation
  <2> QED
    BY <2>1, <2>2
<1>11. f = [v \in Nat |-> IF v < 128 THEN <<v>> ELSE <<128 + (v % 128)>> \o f[v \div 128]]
  BY <1>9, <1>10
<1>12. EncodeVarint = [v \in Nat |-> IF v < 128 THEN <<v>>
                                      ELSE <<128 + (v % 128)>> \o EncodeVarint[v \div 128]]
  BY <1>11, ZenonT(30) DEF EncodeVarint
<1>13. \A v \in Nat :
         EncodeVarint[v] = IF v < 128 THEN <<v>> ELSE <<128 + (v % 128)>> \o EncodeVarint[v \div 128]
  BY <1>12
<1> DEFINE Good == {v \in Nat : EncodeVarint[v] \in Seq(Octet)}
<1>14. ASSUME NEW v \in Nat, \A i \in 0 .. v - 1 : i \in Good PROVE v \in Good
  <2>1. CASE v < 128
    <3>1. v \in Octet
      BY <2>1 DEF Octet
    <3>2. <<v>> \in Seq(Octet)
      BY <3>1
    <3> QED
      BY <2>1, <3>2, <1>13
  <2>2. CASE ~(v < 128)
    <3>1. v \div 128 \in 0 .. v - 1
      BY <2>2
    <3>2. EncodeVarint[v \div 128] \in Seq(Octet) /\ h[v][EncodeVarint[v \div 128]] \in Seq(Octet)
      BY <1>14, <3>1, <1>8
    <3> QED
      BY <2>2, <3>2, <1>13, <1>2
  <2> QED
    BY <2>1, <2>2
<1>15. Nat \subseteq Good
  <2> HIDE DEF Good
  <2> QED
    BY <1>14, Induction
<1> QED
  BY <1>13, <1>15, Zenon

\* The equation of the recursive function BitLen.
LEMMA BitLenIs ==
  \A x \in Nat : BitLen[x] \in Nat /\ BitLen[x] = IF x = 0 THEN 0 ELSE 1 + BitLen[x \div 2]
<1>1. PICK p : p = [x \in Nat |-> x \div 2]
  OBVIOUS
<1>2. PICK h : h = [x \in Nat |-> [s \in Nat |-> 1 + s]]
  OBVIOUS
<1>3. PICK b : b = [x \in Nat |-> 0]
  OBVIOUS
<1>4. PICK rank : rank = [x \in Nat |-> x]
  OBVIOUS
<1>5. p \in [Nat -> Nat] /\ h \in [Nat -> [Nat -> Nat]] /\ b \in [Nat -> Nat]
      /\ rank \in [Nat -> Nat] /\ \A x \in Nat \ {0} : rank[p[x]] < rank[x]
  BY <1>1, <1>2, <1>3, <1>4
<1>6. PICK f \in [Nat -> Nat] : \A x \in Nat : Equation(f, {0}, b, p, h, x)
  BY <1>5, RecursionExists
<1>7. \A x \in Nat : f[x] = IF x = 0 THEN 0 ELSE 1 + f[x \div 2]
  <2> TAKE x \in Nat
  <2>1. CASE x = 0
    BY <2>1, <1>6, <1>3 DEF Equation
  <2>2. CASE x # 0
    <3>1. p[x] = x \div 2 /\ f[x \div 2] \in Nat
      BY <1>1, <1>6
    <3>2. h[x][f[x \div 2]] = 1 + f[x \div 2]
      BY <3>1, <1>2
    <3> QED
      BY <2>2, <3>1, <3>2, <1>6 DEF Equation
  <2> QED
    BY <2>1, <2>2
<1>8. f = [x \in Nat |-> IF x = 0 THEN 0 ELSE 1 + f[x \div 2]]
  BY <1>6, <1>7
<1>9. BitLen = [x \in Nat |-> IF x = 0 THEN 0 ELSE 1 + BitLen[x \div 2]]
  BY <1>8 DEF BitLen
<1>10. \A x \in Nat : BitLen[x] = IF x = 0 THEN 0 ELSE 1 + BitLen[x \div 2]
  BY <1>9
<1> DEFINE Good == {x \in Nat : BitLen[x] \in Nat}
<1>11. ASSUME NEW x \in Nat, \A i \in 0 .. x - 1 : i \in Good PROVE x \in Good
  <2>1. CASE x = 0
    BY <2>1, <1>10
  <2>2. CASE x # 0
    <3>1. x \div 2 \in 0 .. x - 1
      BY <2>2
    <3> QED
      BY <2>2, <3>1, <1>10, <1>11
  <2> QED
    BY <2>1, <2>2
<1>12. Nat \subseteq Good
  <2> HIDE DEF Good
  <2> QED
    BY <1>11, Induction
<1> QED
  BY <1>10, <1>12

-----------------------------------------------------------------------------
(* Varints *)

\* e is v in groups of seven bits, the low ones first, as few as there can be.
InGroups(v, e) ==
  /\ e \in Seq(Octet) /\ Len(e) >= 1
  /\ v < Weight(Len(e)) /\ (Len(e) = 1 \/ v >= Weight(Len(e) - 1))
  /\ \A k \in 1 .. Len(e) :
       e[k] % 128 = (v \div Weight(k - 1)) % 128 /\ (e[k] < 128 <=> k = Len(e))

\* A varint is its number cut into groups of seven bits, the last one unmarked.
LEMMA VarintIsInGroups == \A v \in Nat : InGroups(v, EncodeVarint[v])
<1> DEFINE Good == {v \in Nat : InGroups(v, EncodeVarint[v])}
<1>1. ASSUME NEW v \in Nat, \A i \in 0 .. v - 1 : i \in Good PROVE v \in Good
  <2>1. CASE v < 128
    <3>1. v \in Octet /\ v \div 1 = v /\ v % 128 = v
      BY <2>1 DEF Octet
    <3>2. <<v>> \in Seq(Octet) /\ Len(<<v>>) = 1 /\ <<v>>[1] = v
      BY <3>1
    <3>3. Weight(1) = 128 /\ Weight(1 - 1) = 1
      BY WeightIs, 0 + 1 = 1
    <3>4. EncodeVarint[v] = <<v>>
      BY <2>1, EncodeVarintIs
    <3>5. \A k \in 1 .. Len(<<v>>) : k = 1
      BY <3>2
    <3>6. InGroups(v, <<v>>)
      BY <2>1, <3>1, <3>2, <3>3, <3>5 DEF InGroups
    <3> QED
      BY <3>4, <3>6
  <2>2. CASE ~(v < 128)
    <3>1. PICK q \in Nat : q = v \div 128
      OBVIOUS
    <3>2. q \in 0 .. v - 1 /\ v = 128 * q + (v % 128) /\ v % 128 \in 0 .. 127
      BY <2>2, <3>1
    <3>3. PICK t : t = EncodeVarint[q]
      OBVIOUS
    <3>4. InGroups(q, t)
      BY <1>1, <3>2, <3>3
    <3>5. PICK e : e = EncodeVarint[v]
      OBVIOUS
    <3>6. e = <<128 + (v % 128)>> \o t /\ e \in Seq(Octet) /\ t \in Seq(Octet)
      BY <2>2, <3>1, <3>3, <3>5, EncodeVarintIs, Zenon
    <3>7. Len(e) = Len(t) + 1 /\ e[1] = 128 + (v % 128) /\ \A k \in 1 .. Len(t) : e[k + 1] = t[k]
      BY <3>6
    <3>8. PICK n \in Nat : n = Len(t) /\ n >= 1
      BY <3>4 DEF InGroups
    <3>9. Len(e) = n + 1 /\ Weight(n + 1) = 128 * Weight(n) /\ Weight(n) \in Nat
      BY <3>7, <3>8, WeightIs
    <3>10. v < Weight(Len(e))
      <4>1. q < Weight(n)
        BY <3>4, <3>8 DEF InGroups
      <4>2. Weight(n) \in Nat /\ v < 128 * Weight(n)
        BY <4>1, <3>2, <3>9
      <4> QED
        BY <4>2, <3>9
    <3>11. v >= Weight(Len(e) - 1)
      <4>1. CASE n = 1
        <5>1. Weight(1) = 128
          BY WeightIs, 0 + 1 = 1
        <5> QED
          BY <2>2, <3>9, <4>1, <5>1
      <4>2. CASE n # 1
        <5>1. n - 1 \in Nat /\ Weight(n - 1) \in Nat /\ Weight(n) = 128 * Weight(n - 1)
          <6>1. n - 1 \in Nat /\ n - 1 + 1 = n
            BY <3>8, <4>2
          <6> QED
            BY <6>1, WeightIs
        <5>2. q >= Weight(n - 1)
          BY <3>4, <3>8, <4>2 DEF InGroups
        <5> QED
          BY <5>1, <5>2, <3>2, <3>8, <3>9
      <4> QED
        BY <4>1, <4>2
    <3>12. ASSUME NEW k \in 1 .. Len(e)
           PROVE  e[k] % 128 = (v \div Weight(k - 1)) % 128 /\ (e[k] < 128 <=> k = Len(e))
      <4>1. CASE k = 1
        <5>1. e[1] % 128 = v % 128 /\ ~(e[1] < 128)
          BY <3>2, <3>7
        <5>2. Weight(1 - 1) = 1 /\ v \div 1 = v
          BY WeightIs
        <5> QED
          BY <4>1, <5>1, <5>2, <3>8, <3>9
      <4>2. CASE k # 1
        <5>1. PICK j \in 1 .. n : k = j + 1
          BY <4>2, <3>9
        <5>2. e[k] = t[j] /\ t[j] % 128 = (q \div Weight(j - 1)) % 128 /\ (t[j] < 128 <=> j = n)
          BY <5>1, <3>4, <3>7, <3>8 DEF InGroups
        <5>3. j - 1 \in Nat /\ j - 1 + 1 = j /\ k - 1 = j
          BY <5>1
        <5>4. Weight(j - 1) \in Nat \ {0} /\ Weight(j) = 128 * Weight(j - 1)
          BY <5>3, WeightIs
        <5>5. \A w \in Nat \ {0} : (v \div 128) \div w = v \div (128 * w)
          OBVIOUS
        <5>6. q \div Weight(j - 1) = v \div Weight(k - 1)
          BY <5>3, <5>4, <5>5, <3>1
        <5> QED
          BY <5>1, <5>2, <5>6, <3>9
      <4> QED
        BY <4>1, <4>2
    <3> QED
      <4>1. Len(e) >= 1
        BY <3>8, <3>9
      <4>2. InGroups(v, e)
        BY <4>1, <3>6, <3>10, <3>11, <3>12 DEF InGroups
      <4> QED
        BY <4>2, <3>5
  <2> QED
    BY <2>1, <2>2
<1>2. Nat \subseteq Good
  <2> HIDE DEF Good
  <2> QED
    BY <1>1, Induction
<1> QED
  BY <1>2

\* Bits of a group, and of what is above it.
LEMMA BitsOfGroup ==
  /\ \A x \in 1 .. 127 : BitLen[x] \in 1 .. 7
  /\ \A x \in Nat : x >= 128 => BitLen[x] = 7 + BitLen[x \div 128]
<1> DEFINE AtMost(m, n) == \A x \in Nat : x < m => BitLen[x] <= n
<1>1. AtMost(1, 0)
  BY BitLenIs
<1>2. ASSUME NEW m \in Nat, NEW n \in Nat, AtMost(m, n) PROVE AtMost(2 * m, n + 1)
  <2> SUFFICES ASSUME NEW x \in Nat, x < 2 * m PROVE BitLen[x] <= n + 1
    OBVIOUS
  <2>1. x \div 2 \in Nat /\ x \div 2 < m
    OBVIOUS
  <2>2. BitLen[x \div 2] <= n /\ BitLen[x \div 2] \in Nat
    BY <1>2, <2>1, BitLenIs
  <2> QED
    BY <2>2, BitLenIs
<1> HIDE DEF AtMost
<1>3. AtMost(2, 1) /\ AtMost(4, 2) /\ AtMost(8, 3)
  BY <1>1, <1>2, 2 * 1 = 2, 2 * 2 = 4, 2 * 4 = 8, 0 + 1 = 1, 1 + 1 = 2, 2 + 1 = 3
<1>4. AtMost(16, 4) /\ AtMost(32, 5)
  BY <1>3, <1>2, 2 * 8 = 16, 2 * 16 = 32, 3 + 1 = 4, 4 + 1 = 5
<1>5. AtMost(64, 6) /\ AtMost(128, 7)
  BY <1>4, <1>2, 2 * 32 = 64, 2 * 64 = 128, 5 + 1 = 6, 6 + 1 = 7
<1>6. \A x \in 1 .. 127 : BitLen[x] \in 1 .. 7
  <2> TAKE x \in 1 .. 127
  <2>1. x \in Nat /\ x # 0 /\ x < 128 /\ x \div 2 \in Nat
    OBVIOUS
  <2>2. BitLen[x] \in Nat /\ BitLen[x \div 2] \in Nat /\ BitLen[x] = 1 + BitLen[x \div 2]
    BY <2>1, BitLenIs
  <2> QED
    BY <2>1, <2>2, <1>5 DEF AtMost
<1>7. ASSUME NEW x \in Nat, x >= 128 PROVE BitLen[x] = 7 + BitLen[x \div 128]
  <2>1. /\ x \div 2 \in Nat \ {0} /\ x \div 4 \in Nat \ {0} /\ x \div 8 \in Nat \ {0}
        /\ x \div 16 \in Nat \ {0} /\ x \div 32 \in Nat \ {0} /\ x \div 64 \in Nat \ {0}
        /\ x \div 128 \in Nat
    BY <1>7
  <2>2. /\ (x \div 2) \div 2 = x \div 4 /\ (x \div 4) \div 2 = x \div 8 /\ (x \div 8) \div 2 = x \div 16
        /\ (x \div 16) \div 2 = x \div 32 /\ (x \div 32) \div 2 = x \div 64
        /\ (x \div 64) \div 2 = x \div 128
    OBVIOUS
  <2>3. \A y \in Nat \ {0} : BitLen[y] = 1 + BitLen[y \div 2]
    BY BitLenIs
  <2>4. BitLen[x] = 1 + BitLen[x \div 2] /\ BitLen[x \div 2] = 1 + BitLen[x \div 4]
    BY <1>7, <2>1, <2>2, <2>3
  <2>5. BitLen[x \div 4] = 1 + BitLen[x \div 8] /\ BitLen[x \div 8] = 1 + BitLen[x \div 16]
    BY <2>1, <2>2, <2>3
  <2>6. /\ BitLen[x \div 16] = 1 + BitLen[x \div 32] /\ BitLen[x \div 32] = 1 + BitLen[x \div 64]
        /\ BitLen[x \div 64] = 1 + BitLen[x \div 128]
    BY <2>1, <2>2, <2>3
  <2>7. BitLen[x \div 128] \in Nat
    BY <2>1, BitLenIs
  <2> QED
    BY <2>4, <2>5, <2>6, <2>7
<1> QED
  BY <1>6, <1>7

\* Size reckons with as many bytes as are written: sovDfs and encodeVarintDfs agree on
\* every number (dfs.pb.go:2800-2810, 3314-3316).
THEOREM SovIsLength == \A v \in Nat : sov(v) = Len(EncodeVarint[v])
<1> DEFINE Good == {v \in Nat : v = 0 \/ (BitLen[v] + 6) \div 7 = Len(EncodeVarint[v])}
<1>0. ASSUME NEW v \in Nat, v < 128 PROVE Len(EncodeVarint[v]) = 1
  <2>1. EncodeVarint[v] = <<v>>
    BY <1>0, EncodeVarintIs
  <2> QED
    BY <2>1
<1>1. ASSUME NEW v \in Nat, \A i \in 0 .. v - 1 : i \in Good PROVE v \in Good
  <2>1. CASE v = 0
    BY <2>1
  <2>2. CASE v \in 1 .. 127
    <3>1. BitLen[v] \in 1 .. 7 /\ Len(EncodeVarint[v]) = 1
      BY <2>2, <1>0, BitsOfGroup
    <3>2. (BitLen[v] + 6) \div 7 = 1
      BY <3>1
    <3> QED
      BY <3>1, <3>2
  <2>3. CASE v >= 128
    <3>1. PICK q \in Nat : q = v \div 128 /\ q # 0 /\ q \in 0 .. v - 1
      BY <2>3
    <3>2. BitLen[v] = 7 + BitLen[q] /\ BitLen[q] \in Nat
      BY <2>3, <3>1, BitsOfGroup, BitLenIs
    <3>3. (BitLen[q] + 6) \div 7 = Len(EncodeVarint[q])
      BY <1>1, <3>1
    <3>4. Len(EncodeVarint[v]) = 1 + Len(EncodeVarint[q])
      <4>1. EncodeVarint[q] \in Seq(Octet) /\ EncodeVarint[v] = <<128 + (v % 128)>> \o EncodeVarint[q]
        <5>1. EncodeVarint[q] \in Seq(Octet)
          BY EncodeVarintIs
        <5>2. ~(v < 128)
          BY <2>3
        <5>3. EncodeVarint[v] = <<128 + (v % 128)>> \o EncodeVarint[v \div 128]
          BY <5>2, EncodeVarintIs, Zenon
        <5> QED
          BY <5>1, <5>3, <3>1
      <4>2. PICK t \in Seq(Octet) : t = EncodeVarint[q]
        BY <4>1
      <4>3. PICK o : o = 128 + (v % 128)
        OBVIOUS
      <4>4. Len(<<o>> \o t) = 1 + Len(t)
        BY ConcatProperties, <<o>> \in Seq({o}), t \in Seq(Octet \cup {o}), <<o>> \in Seq(Octet \cup {o})
      <4> QED
        BY <4>1, <4>2, <4>3, <4>4
    <3>5. (BitLen[v] + 6) \div 7 = 1 + (BitLen[q] + 6) \div 7
      BY <3>2
    <3> QED
      BY <3>3, <3>4, <3>5
  <2> QED
    BY <2>1, <2>2, <2>3
<1>2. Nat \subseteq Good
  <2> HIDE DEF Good
  <2> QED
    BY <1>1, Induction
<1>3. ASSUME NEW v \in Nat PROVE sov(v) = Len(EncodeVarint[v])
  <2>1. CASE v = 0
    <3>1. BitLen[1] \in 1 .. 7
      BY BitsOfGroup
    <3>2. (BitLen[1] + 6) \div 7 = 1 /\ Len(EncodeVarint[0]) = 1
      BY <3>1, <1>0
    <3> QED
      BY <2>1, <3>2 DEF sov
  <2>2. CASE v # 0
    BY <2>2, <1>2 DEF sov
  <2> QED
    BY <2>1, <2>2
<1> QED
  BY <1>3

\* A byte, and its low seven bits.
LEMMA OctetIs == \A o \in Octet : o \in Int /\ o >= 0 /\ o <= 255 /\ o % 128 \in 0 .. 127
  BY DEF Octet

\* What a varint at i comes to after each of its first n groups.
Accumulates(w, d, i, n) ==
  /\ w \in [0 .. n -> 0 .. Words - 1] /\ w[0] = 0
  /\ \A k \in 1 .. n : w[k] = (w[k - 1] + (d[i + k] % 128) * Weight(k - 1)) % Words

\* The varint at i is done, or known to have no end, after n groups.
LastGroup(d, i, n) ==
  /\ n \in 1 .. Groups
  /\ i + n > Len(d) \/ d[i + n] < 128
  /\ \A k \in 1 .. n - 1 : i + k <= Len(d) /\ d[i + k] >= 128

\* What the loop that reads a varint comes to, by where its last group is.
LEMMA ReadVarintIs ==
  ASSUME NEW d \in Seq(Octet), NEW i \in Nat
  PROVE  /\ \A n \in Nat : LastGroup(d, i, n) =>
              IF i + n > Len(d) THEN ReadVarint(d, i) = Failed("eof")
              ELSE \E w : Accumulates(w, d, i, n) /\ ReadVarint(d, i) = Read(w[n], i + n)
         /\ (\A n \in Nat : ~LastGroup(d, i, n)) => ReadVarint(d, i) = Failed("overflow")
<1> DEFINE ends == {n \in 1 .. WordBits \div 7 + 1 : i + n > Len(d) \/ d[i + n] < 128}
           last == Min(ends)
           upTo[n \in 0 .. last] ==
             IF n = 0 THEN 0 ELSE (upTo[n - 1] + (d[i + n] % 128) * Pow2[7 * (n - 1)]) % Words
<1>1. ReadVarint(d, i) = IF ends = {} THEN Failed("overflow")
                         ELSE IF i + last > Len(d) THEN Failed("eof")
                         ELSE Read(upTo[last], i + last)
  BY DEF ReadVarint
<1>2. WordBits \div 7 + 1 = Groups /\ Groups \in Nat
  BY WordsAre DEF Groups
<1>3. ends \subseteq 1 .. Groups
  BY <1>2
<1>4. \A n : n \in ends <=> n \in 1 .. Groups /\ (i + n > Len(d) \/ d[i + n] < 128)
  BY <1>2
<1>a. ASSUME NEW k \in 1 .. Groups, i + k <= Len(d) PROVE i + k \in Nat /\ d[i + k] \in Int
  <2>1. i + k \in 1 .. Len(d)
    BY <1>a, <1>2
  <2>2. d[i + k] \in Octet
    BY <2>1
  <2> QED
    BY <2>1, <2>2, OctetIs
<1> HIDE DEF ends
<1>5. ASSUME NEW n \in Nat, LastGroup(d, i, n) PROVE n \in ends /\ last = n
  <2>0. n \in ends
    BY <1>4, <1>5 DEF LastGroup
  <2>1. ASSUME NEW k \in ends PROVE n <= k
    <3>1. k \in 1 .. Groups /\ (i + k > Len(d) \/ d[i + k] < 128)
      BY <1>4
    <3>2. ASSUME k \in 1 .. n - 1 PROVE FALSE
      <4>1. i + k <= Len(d) /\ d[i + k] >= 128
        BY <1>5, <3>2 DEF LastGroup
      <4>2. i + k \in Nat /\ d[i + k] \in Int /\ Len(d) \in Nat
        BY <3>1, <4>1, <1>a
      <4> QED
        BY <3>1, <4>1, <4>2
    <3> QED
      BY <3>1, <3>2, <1>2
  <2>2. \A x, y \in ends : (\A k \in ends : x <= k) /\ (\A k \in ends : y <= k) => x = y
    BY <1>3
  <2> QED
    BY <2>0, <2>1, <2>2 DEF Min
<1>6. ASSUME ends # {} PROVE \E n \in Nat : LastGroup(d, i, n)
  <2>1. ends \subseteq Nat
    BY <1>3
  <2>2. PICK n \in ends : \A k \in ends : n <= k
    <3>1. PICK E : E = ends
      OBVIOUS
    <3>2. \E n \in E : \A k \in E : n <= k
      BY <3>1, <1>6, <2>1, Least
    <3> QED
      BY <3>1, <3>2
  <2>3. n \in 1 .. Groups /\ n \in Nat
    BY <1>3, <1>2
  <2>4. ASSUME NEW k \in 1 .. n - 1 PROVE i + k <= Len(d) /\ d[i + k] >= 128
    <3>1. k \in 1 .. Groups /\ k \notin ends
      BY <1>2, <2>2, <2>3
    <3>2. ~(i + k > Len(d)) /\ ~(d[i + k] < 128)
      BY <3>1, <1>4
    <3>3. i + k <= Len(d)
      BY <3>2, Len(d) \in Nat
    <3>4. d[i + k] \in Int
      BY <3>1, <3>3, <1>a
    <3> QED
      BY <3>2, <3>3, <3>4
  <2>5. LastGroup(d, i, n)
    BY <1>4, <2>2, <2>3, <2>4 DEF LastGroup
  <2> QED
    BY <2>3, <2>5
<1>7. ASSUME NEW n \in Nat, LastGroup(d, i, n), ~(i + n > Len(d))
      PROVE  Accumulates(upTo, d, i, n)
  <2>1. last = n
    BY <1>5, <1>7
  <2>2. PICK W : W = 0 .. Words - 1
    OBVIOUS
  <2>3. PICK p : p = [k \in 0 .. n |-> IF k = 0 THEN 0 ELSE k - 1]
    OBVIOUS
  <2>4. PICK h : h = [k \in 0 .. n |-> [s \in W |->
                        IF k = 0 THEN 0 ELSE (s + (d[i + k] % 128) * Pow2[7 * (k - 1)]) % Words]]
    OBVIOUS
  <2>5. PICK b : b = [k \in 0 .. n |-> 0]
    OBVIOUS
  <2>6. PICK rank : rank = [k \in 0 .. n |-> k]
    OBVIOUS
  <2>7. p \in [0 .. n -> 0 .. n] /\ rank \in [0 .. n -> Nat]
        /\ \A k \in 0 .. n \ {0} : rank[p[k]] < rank[k]
    BY <2>3, <2>6
  <2>8. b \in [0 .. n -> W]
    BY <2>5, <2>2, WordsAre
  <2>9. \A k \in 1 .. n : d[i + k] \in Octet /\ (d[i + k] % 128) * Pow2[7 * (k - 1)] \in Nat
    <3> TAKE k \in 1 .. n
    <3>1. i + k \in 1 .. Len(d)
      BY <1>7
    <3>2. d[i + k] \in Octet
      BY <3>1
    <3>3. Pow2[7 * (k - 1)] \in Nat
      <4>1. PICK j \in Nat : j = k - 1
        OBVIOUS
      <4> QED
        BY <4>1, WeightIs DEF Weight
    <3>4. d[i + k] % 128 \in Nat
      BY <3>2, OctetIs
    <3> QED
      BY <3>2, <3>3, <3>4
  <2>10. h \in [0 .. n -> [W -> W]]
    <3>0. 0 \in W /\ \A s \in W, x \in Nat : (s + x) % Words \in W
      BY <2>2, WordsAre
    <3>1. ASSUME NEW k \in 0 .. n, NEW s \in W
          PROVE  (IF k = 0 THEN 0 ELSE (s + (d[i + k] % 128) * Pow2[7 * (k - 1)]) % Words) \in W
      <4>1. CASE k = 0
        BY <3>0, <4>1
      <4>2. CASE k # 0
        <5>1. (d[i + k] % 128) * Pow2[7 * (k - 1)] \in Nat
          BY <2>9, <4>2
        <5> QED
          BY <3>0, <4>2, <5>1
      <4> QED
        BY <4>1, <4>2
    <3> QED
      BY <3>1, <2>4
  <2>11. PICK f \in [0 .. n -> W] : \A k \in 0 .. n : Equation(f, {0}, b, p, h, k)
    BY <2>7, <2>8, <2>10, RecursionExists
  <2>12. \A k \in 0 .. n : f[k] = IF k = 0 THEN 0
                                  ELSE (f[k - 1] + (d[i + k] % 128) * Pow2[7 * (k - 1)]) % Words
    <3> TAKE k \in 0 .. n
    <3>1. CASE k = 0
      BY <3>1, <2>11, <2>5 DEF Equation
    <3>2. CASE k # 0
      <4>1. p[k] = k - 1 /\ k - 1 \in 0 .. n /\ f[k - 1] \in W
        BY <3>2, <2>3, <2>11
      <4>2. h[k][f[k - 1]] = (f[k - 1] + (d[i + k] % 128) * Pow2[7 * (k - 1)]) % Words
        BY <3>2, <4>1, <2>4
      <4> QED
        BY <3>2, <4>1, <4>2, <2>11 DEF Equation
    <3> QED
      BY <3>1, <3>2
  <2>13. f = [k \in 0 .. last |-> IF k = 0 THEN 0
                                  ELSE (f[k - 1] + (d[i + k] % 128) * Pow2[7 * (k - 1)]) % Words]
    BY <2>1, <2>11, <2>12
  <2>14. upTo = [k \in 0 .. last |-> IF k = 0 THEN 0
                                  ELSE (upTo[k - 1] + (d[i + k] % 128) * Pow2[7 * (k - 1)]) % Words]
    <3> HIDE DEF last
    <3> QED
      BY <2>13
  <2> HIDE DEF upTo, last
  <2>15. \A k \in 0 .. n : upTo[k] = IF k = 0 THEN 0
                                  ELSE (upTo[k - 1] + (d[i + k] % 128) * Pow2[7 * (k - 1)]) % Words
    BY <2>14, <2>1
  <2> DEFINE Good == {k \in Nat : k <= n => upTo[k] \in W}
  <2>16. ASSUME NEW k \in Nat, \A j \in 0 .. k - 1 : j \in Good PROVE k \in Good
    <3> SUFFICES ASSUME k <= n PROVE upTo[k] \in W
      OBVIOUS
    <3>1. CASE k = 0
      BY <3>1, <2>15, <2>2, WordsAre
    <3>2. CASE k # 0
      <4>1. k - 1 \in Nat /\ k - 1 \in Good /\ k \in 0 .. n
        BY <3>2, <2>16
      <4>2. upTo[k - 1] \in W /\ h[k][upTo[k - 1]] \in W
        BY <4>1, <2>10
      <4> QED
        BY <3>2, <4>1, <4>2, <2>15, <2>4
    <3> QED
      BY <3>1, <3>2
  <2> HIDE DEF Good
  <2>17. Nat \subseteq Good
    BY <2>16, Induction
  <2>18. \A k \in 0 .. n : upTo[k] \in W
    BY <2>17 DEF Good
  <2>19. upTo \in [0 .. n -> W]
    BY <2>14, <2>1, <2>18
  <2> QED
    <3>1. upTo[0] = 0
      BY <2>15
    <3>2. \A k \in 1 .. n :
            upTo[k] = (upTo[k - 1] + (d[i + k] % 128) * Pow2[7 * (k - 1)]) % Words
      BY <2>15
    <3> QED
      BY <2>2, <2>19, <3>1, <3>2 DEF Accumulates, Weight
<1> HIDE DEF ends, last, upTo
<1>8. ASSUME NEW n \in Nat, LastGroup(d, i, n)
      PROVE  IF i + n > Len(d) THEN ReadVarint(d, i) = Failed("eof")
             ELSE \E w : Accumulates(w, d, i, n) /\ ReadVarint(d, i) = Read(w[n], i + n)
  BY <1>1, <1>5, <1>7, <1>8
<1>9. (\A n \in Nat : ~LastGroup(d, i, n)) => ReadVarint(d, i) = Failed("overflow")
  BY <1>1, <1>6
<1> QED
  BY <1>8, <1>9

\* Weights grow with the group.
LEMMA WeightGrows == \A a, b \in Nat : a <= b => Weight(a) <= Weight(b)
<1> SUFFICES ASSUME NEW a \in Nat PROVE \A b \in Nat : a <= b => Weight(a) <= Weight(b)
  OBVIOUS
<1> DEFINE Good == {b \in Nat : a <= b => Weight(a) <= Weight(b)}
<1>1. ASSUME NEW b \in Nat, \A i \in 0 .. b - 1 : i \in Good PROVE b \in Good
  <2>1. CASE b <= a
    BY <2>1, WeightIs
  <2>2. CASE a < b
    <3>1. b - 1 \in Nat /\ b - 1 + 1 = b /\ Weight(a) <= Weight(b - 1)
      BY <1>1, <2>2
    <3>2. Weight(b - 1) \in Nat /\ Weight(b) = 128 * Weight(b - 1) /\ Weight(a) \in Nat
      BY <3>1, WeightIs
    <3> QED
      BY <3>1, <3>2
  <2> QED
    BY <2>1, <2>2
<1>2. Nat \subseteq Good
  <2> HIDE DEF Good
  <2> QED
    BY <1>1, Induction
<1> QED
  BY <1>2

\* A byte of an input.
LEMMA ByteIs ==
  ASSUME NEW d \in Seq(Octet), NEW k \in 1 .. Len(d)
  PROVE  d[k] \in Octet /\ d[k] \in Int
<1>1. d[k] \in Octet
  BY ElementOfSeq
<1> QED
  BY <1>1, OctetIs

\* The bytes e stand in d, behind the first i bytes.
Stands(e, d, i) ==
  /\ i \in Nat /\ i + Len(e) <= Len(d)
  /\ \A k \in 1 .. Len(e) : d[i + k] = e[k]

\* What it means that e stands in d at i.
LEMMA StandsAt ==
  ASSUME NEW e \in Seq(Octet), NEW d \in Seq(Octet), NEW i, Stands(e, d, i)
  PROVE  /\ i \in Nat /\ Len(e) \in Nat /\ Len(d) \in Nat /\ i + Len(e) <= Len(d)
         /\ \A k \in 1 .. Len(e) : /\ d[i + k] = e[k] /\ e[k] \in Octet /\ e[k] \in Int
                                   /\ i + k \in 1 .. Len(d) /\ i + k <= Len(d)
<1>1. i \in Nat /\ i + Len(e) <= Len(d) /\ \A k \in 1 .. Len(e) : d[i + k] = e[k]
  BY DEF Stands
<1>2. Len(e) \in Nat /\ Len(d) \in Nat
  BY LenProperties
<1>3. ASSUME NEW k \in 1 .. Len(e) PROVE i + k \in 1 .. Len(d) /\ i + k <= Len(d)
  BY <1>1, <1>2
<1> QED
  BY <1>1, <1>2, <1>3, ByteIs

\* What a result holds.
LEMMA ReadIs ==
  /\ \A v, n : Read(v, n).err = "" /\ Read(v, n).val = v /\ Read(v, n).next = n
  /\ \A e : Failed(e).err = e /\ Failed(e).val = None /\ Failed(e).next = 0
  BY DEF Read, Failed

\* The low bits of a word, and the group above them.
LEMMA GroupAdded ==
  ASSUME NEW v \in Nat, NEW m \in Nat, m > 0
  PROVE  (v % m) + ((v \div m) % 128) * m = v % (128 * m)
  OBVIOUS

\* A word, and its varint.
LEMMA WordIs ==
  ASSUME NEW v \in 0 .. Words - 1
  PROVE  v \in Nat /\ v < Words /\ Words \in Nat \ {0} /\ EncodeVarint[v] \in Seq(Octet)
<1>1. v \in Nat /\ v < Words /\ Words \in Nat \ {0}
  BY WordsAre
<1> QED
  BY <1>1, EncodeVarintIs

\* A word has so many groups at most.
LEMMA GroupsOfWord ==
  ASSUME NEW v \in 0 .. Words - 1
  PROVE  Len(EncodeVarint[v]) \in 1 .. Groups
<1>1. v \in Nat /\ v < Weight(Groups) /\ Groups \in Nat
  BY WordsAre, WeightIs
<1>2. PICK e : e = EncodeVarint[v]
  OBVIOUS
<1>3. InGroups(v, e) /\ Len(e) \in Nat /\ Len(e) >= 1
  BY <1>1, <1>2, VarintIsInGroups DEF InGroups
<1>4. PICK n \in Nat : n = Len(e) /\ n >= 1 /\ (n = 1 \/ v >= Weight(n - 1))
  BY <1>3 DEF InGroups
<1>5. ASSUME n > Groups PROVE FALSE
  <2>1. PICK m \in Nat : m = n - 1
    BY <1>4
  <2>2. Groups <= m /\ n # 1
    BY <1>1, <1>5, <2>1, WordsAre
  <2>3. Weight(Groups) <= Weight(m) /\ Weight(Groups) \in Nat /\ Weight(m) \in Nat
    BY <1>1, <2>1, <2>2, WeightGrows, WeightIs
  <2>4. v >= Weight(m)
    BY <1>4, <2>1, <2>2
  <2> QED
    BY <1>1, <2>3, <2>4
<1> QED
  BY <1>1, <1>2, <1>4, <1>5

\* A varint is read as the word it was written from, wherever it stands
\* (dfs.pb.go:2800-2810, 5792-5805).
THEOREM VarintIsRead ==
  ASSUME NEW v \in 0 .. Words - 1, NEW d \in Seq(Octet), NEW i \in Nat, Stands(EncodeVarint[v], d, i)
  PROVE  ReadVarint(d, i) = Read(v, i + Len(EncodeVarint[v]))
<1>1. PICK e \in Seq(Octet) : e = EncodeVarint[v]
  BY WordIs
<1>2. v \in Nat /\ v < Words /\ Words \in Nat \ {0}
  BY WordsAre
<1>3. PICK n \in 1 .. Groups : n = Len(e)
  BY <1>1, GroupsOfWord
<1>4. InGroups(v, e) /\ n \in Nat \ {0} /\ i + n <= Len(d) /\ Len(d) \in Nat /\ Groups \in Nat
  BY <1>1, <1>2, <1>3, VarintIsInGroups, WordsAre, StandsAt
<1>5. \A k \in 1 .. n : d[i + k] = e[k] /\ e[k] \in Int /\ i + k <= Len(d)
  BY <1>1, <1>3, StandsAt
<1>b. \A k \in 1 .. n : e[k] % 128 = (v \div Weight(k - 1)) % 128 /\ (e[k] < 128 <=> k = n)
  BY <1>3, <1>4 DEF InGroups
<1>6. LastGroup(d, i, n)
  <2>1. n \in 1 .. n /\ d[i + n] < 128
    <3>1. n \in 1 .. n
      BY <1>4
    <3>2. d[i + n] = e[n] /\ e[n] < 128
      BY <3>1, <1>5, <1>b
    <3> QED
      BY <3>1, <3>2
  <2>2. \A k \in 1 .. n - 1 : k \in 1 .. n /\ k # n
    BY <1>4
  <2>3. ASSUME NEW k \in 1 .. n - 1 PROVE i + k <= Len(d) /\ d[i + k] >= 128
    <3>1. k \in 1 .. n /\ k # n
      BY <2>2
    <3>2. d[i + k] = e[k] /\ ~(e[k] < 128) /\ e[k] \in Int /\ i + k <= Len(d)
      BY <3>1, <1>5, <1>b
    <3> QED
      BY <3>2
  <2> QED
    BY <1>3, <2>1, <2>3 DEF LastGroup
<1>7. PICK w : Accumulates(w, d, i, n) /\ ReadVarint(d, i) = Read(w[n], i + n)
  <2>1. ~(i + n > Len(d))
    BY <1>4
  <2> QED
    BY <1>4, <1>6, <2>1, ReadVarintIs
<1>c. w[0] = 0 /\ \A k \in 1 .. n : w[k] = (w[k - 1] + (d[i + k] % 128) * Weight(k - 1)) % Words
  BY <1>7 DEF Accumulates
<1> DEFINE Good == {k \in Nat : k <= n => w[k] = v % Weight(k)}
<1>8. ASSUME NEW k \in Nat, \A j \in 0 .. k - 1 : j \in Good PROVE k \in Good
  <2> SUFFICES ASSUME k <= n PROVE w[k] = v % Weight(k)
    OBVIOUS
  <2>1. CASE k = 0
    <3>1. Weight(0) = 1 /\ v % 1 = 0
      BY WeightIs, <1>2
    <3> QED
      BY <2>1, <3>1, <1>c
  <2>2. CASE k # 0
    <3>1. PICK j \in Nat : k = j + 1 /\ k - 1 = j /\ j \in Good /\ k \in 1 .. n
      BY <1>8, <2>2, k - 1 \in Nat
    <3>2. PICK m \in Nat \ {0} : m = Weight(j) /\ 128 * m = Weight(k)
      BY <3>1, WeightIs
    <3>6. w[j] = v % m
      BY <3>1, <3>2
    <3>7. d[i + k] % 128 = (v \div m) % 128
      BY <1>5, <1>b, <3>1, <3>2
    <3>8. w[k] = (w[j] + (d[i + k] % 128) * m) % Words
      BY <1>c, <3>1, <3>2
    <3>3. w[k] = ((v % m) + ((v \div m) % 128) * m) % Words
      BY <3>6, <3>7, <3>8
    <3>4. (v % m) + ((v \div m) % 128) * m = v % (128 * m)
      BY <1>2, m > 0, GroupAdded
    <3>5. v % (128 * m) \in 0 .. v
      BY <1>2
    <3>9. \A x \in 0 .. v : x % Words = x
      BY <1>2
    <3> QED
      BY <3>2, <3>3, <3>4, <3>5, <3>9
  <2> QED
    BY <2>1, <2>2
<1>9. Nat \subseteq Good
  <2> HIDE DEF Good
  <2> QED
    BY <1>8, Induction
<1>10. w[n] = v % Weight(n) /\ Weight(n) \in Nat \ {0}
  <2>1. n \in Good /\ n <= n
    BY <1>4, <1>9
  <2> QED
    BY <1>4, <2>1, WeightIs
<1>12. v < Weight(n)
  BY <1>3, <1>4 DEF InGroups
<1>11. w[n] = v
  BY <1>2, <1>10, <1>12
<1> QED
  BY <1>1, <1>3, <1>7, <1>11

\* A varint whose end is missing.
LEMMA VarintIsCut ==
  ASSUME NEW v \in 0 .. Words - 1, NEW d \in Seq(Octet), NEW i \in 0 .. Len(d),
         Len(d) < i + Len(EncodeVarint[v]),
         \A k \in 1 .. Len(d) - i : d[i + k] = EncodeVarint[v][k]
  PROVE  ReadVarint(d, i) = Failed("eof")
<1>1. PICK e \in Seq(Octet) : e = EncodeVarint[v]
  BY WordIs
<1>0. Len(d) \in Nat /\ i \in Nat /\ v \in Nat
  BY LenProperties, WordsAre
<1>2. PICK n \in Nat : n = Len(d) - i
  <2>1. Len(d) - i \in Nat
    BY <1>0
  <2> QED
    BY <2>1
<1>3. n + 1 \in 1 .. Len(e) /\ Len(e) \in 1 .. Groups /\ Groups \in Nat
  BY <1>0, <1>1, <1>2, GroupsOfWord, WordsAre
<1>4. i + (n + 1) > Len(d) /\ i \in Nat
  BY <1>0, <1>2
<1>5. \A k \in 1 .. Len(e) : e[k] < 128 <=> k = Len(e)
  BY <1>0, <1>1, VarintIsInGroups DEF InGroups
<1>6. ASSUME NEW k \in 1 .. n PROVE i + k <= Len(d) /\ d[i + k] >= 128
  <2>1. k \in 1 .. Len(e) /\ k # Len(e) /\ k \in 1 .. Len(d) - i /\ i + k <= Len(d)
    BY <1>0, <1>2, <1>3
  <2>2. d[i + k] = e[k]
    BY <2>1, <1>1
  <2>3. ~(e[k] < 128) /\ e[k] \in Int
    BY <2>1, <1>5, ByteIs
  <2> QED
    BY <2>1, <2>2, <2>3
<1>7. n + 1 \in 1 .. Groups /\ n + 1 - 1 = n
  BY <1>3
<1>8. LastGroup(d, i, n + 1)
  BY <1>4, <1>6, <1>7 DEF LastGroup
<1> QED
  BY <1>4, <1>8, ReadVarintIs, n + 1 \in Nat

\* What is read is a word, and ends within d.
LEMMA ReadVarintType ==
  ASSUME NEW d \in Seq(Octet), NEW i \in Nat
  PROVE  \/ \E v \in 0 .. Words - 1, n \in i + 1 .. Len(d) : ReadVarint(d, i) = Read(v, n)
         \/ ReadVarint(d, i) = Failed("eof")
         \/ ReadVarint(d, i) = Failed("overflow")
<1>0. Len(d) \in Nat
  BY LenProperties
<1>1. CASE \A n \in Nat : ~LastGroup(d, i, n)
  BY <1>1, ReadVarintIs
<1>2. CASE \E n \in Nat : LastGroup(d, i, n)
  <2>1. PICK n \in Nat : LastGroup(d, i, n)
    BY <1>2
  <2>2. CASE i + n > Len(d)
    BY <2>1, <2>2, ReadVarintIs
  <2>3. CASE ~(i + n > Len(d))
    <3>1. PICK w : Accumulates(w, d, i, n) /\ ReadVarint(d, i) = Read(w[n], i + n)
      BY <2>1, <2>3, ReadVarintIs
    <3>2. w[n] \in 0 .. Words - 1
      <4>1. w \in [0 .. n -> 0 .. Words - 1]
        BY <3>1 DEF Accumulates
      <4> QED
        BY <4>1
    <3>3. i + n \in i + 1 .. Len(d)
      <4>1. n >= 1
        BY <2>1 DEF LastGroup
      <4> QED
        BY <1>0, <2>3, <4>1
    <3> QED
      BY <3>1, <3>2, <3>3
  <2> QED
    BY <2>2, <2>3
<1> QED
  BY <1>1, <1>2

\* Equal groups add up to equal numbers.
LEMMA AccumulatesOnce ==
  ASSUME NEW n \in Nat, NEW d, NEW i, NEW w, Accumulates(w, d, i, n),
         NEW c, NEW j, NEW x, Accumulates(x, c, j, n), \A k \in 1 .. n : c[j + k] = d[i + k]
  PROVE  x[n] = w[n]
<1>0. /\ w[0] = 0 /\ \A k \in 1 .. n : w[k] = (w[k - 1] + (d[i + k] % 128) * Weight(k - 1)) % Words
      /\ x[0] = 0 /\ \A k \in 1 .. n : x[k] = (x[k - 1] + (c[j + k] % 128) * Weight(k - 1)) % Words
  BY DEF Accumulates
<1> DEFINE Good == {k \in Nat : k <= n => x[k] = w[k]}
<1>1. ASSUME NEW k \in Nat, \A m \in 0 .. k - 1 : m \in Good PROVE k \in Good
  <2>1. CASE k = 0
    BY <2>1, <1>0
  <2>2. CASE k # 0 /\ k <= n
    <3>1. k - 1 \in Nat /\ k \in 1 .. n
      BY <2>2
    <3>2. x[k - 1] = w[k - 1]
      BY <1>1, <2>2, <3>1
    <3>3. w[k] = (w[k - 1] + (d[i + k] % 128) * Weight(k - 1)) % Words
      BY <1>0, <3>1, Zenon
    <3>4. x[k] = (x[k - 1] + (c[j + k] % 128) * Weight(k - 1)) % Words
      BY <1>0, <3>1, Zenon
    <3>5. c[j + k] = d[i + k]
      BY <3>1
    <3> QED
      BY <3>2, <3>3, <3>4, <3>5
  <2> QED
    BY <2>1, <2>2
<1>2. Nat \subseteq Good
  <2> HIDE DEF Good
  <2> QED
    BY <1>1, Induction
<1> QED
  BY <1>2

\* A varint is the same one wherever it stands.
LEMMA VarintStands ==
  ASSUME NEW u \in Seq(Octet), NEW d \in Seq(Octet), NEW i \in Nat, Stands(u, d, i), NEW j \in Nat,
         NEW v, NEW m, ReadVarint(u, j) = Read(v, m)
  PROVE  ReadVarint(d, i + j) = Read(v, i + m)
<1>a. PICK n \in Nat : LastGroup(u, j, n)
  <2>1. (\A n \in Nat : ~LastGroup(u, j, n)) => ReadVarint(u, j) = Failed("overflow")
    BY ReadVarintIs
  <2>2. Read(v, m).err = "" /\ Failed("overflow").err = "overflow"
    BY Zenon DEF Read, Failed
  <2> QED
    BY <2>1, <2>2, Zenon
<1>b. ~(j + n > Len(u))
  <2>1. j + n > Len(u) => ReadVarint(u, j) = Failed("eof")
    BY <1>a, ReadVarintIs
  <2>2. Read(v, m).err = "" /\ Failed("eof").err = "eof"
    BY Zenon DEF Read, Failed
  <2> QED
    BY <2>1, <2>2, Zenon
<1>2. PICK w : Accumulates(w, u, j, n) /\ ReadVarint(u, j) = Read(w[n], j + n)
  BY <1>a, <1>b, ReadVarintIs
<1>3. i + Len(u) <= Len(d) /\ Len(u) \in Nat /\ Len(d) \in Nat /\ j + n <= Len(u)
  BY <1>b, StandsAt
<1>4. ASSUME NEW k \in 1 .. n PROVE d[i + j + k] = u[j + k] /\ i + j + k <= Len(d) /\ j + k <= Len(u)
  <2>1. PICK q : q = j + k
    OBVIOUS
  <2>2. q \in 1 .. Len(u) /\ i + q = i + j + k
    BY <2>1, <1>3
  <2>3. d[i + q] = u[q]
    BY <2>2, StandsAt
  <2> QED
    BY <2>1, <2>2, <2>3, <1>3
<1>5. LastGroup(d, i + j, n) /\ ~(i + j + n > Len(d))
  <2>1. n \in 1 .. Groups /\ (j + n > Len(u) \/ u[j + n] < 128) /\ \A k \in 1 .. n - 1 : u[j + k] >= 128
    BY <1>a DEF LastGroup
  <2>2. n \in 1 .. n /\ \A k \in 1 .. n - 1 : k \in 1 .. n
    BY <2>1
  <2>3. i + j + n <= Len(d) /\ d[i + j + n] < 128
    BY <1>b, <2>1, <2>2, <1>4
  <2>4. \A k \in 1 .. n - 1 : i + j + k <= Len(d) /\ d[i + j + k] >= 128
    BY <2>1, <2>2, <1>4
  <2>5. ~(i + j + n > Len(d))
    BY <2>3, <1>3
  <2> QED
    BY <2>1, <2>3, <2>4, <2>5 DEF LastGroup
<1>6. PICK x : Accumulates(x, d, i + j, n) /\ ReadVarint(d, i + j) = Read(x[n], i + j + n)
  <2>1. i + j \in Nat
    OBVIOUS
  <2> QED
    BY <1>5, <2>1, ReadVarintIs
<1>7. x[n] = w[n]
  <2>1. \A k \in 1 .. n : d[i + j + k] = u[j + k]
    BY <1>4
  <2>2. PICK q : q = i + j
    OBVIOUS
  <2> QED
    <3>1. Accumulates(x, d, q, n) /\ \A k \in 1 .. n : d[q + k] = u[j + k]
      BY <1>6, <2>1, <2>2
    <3> QED
      BY <1>2, <3>1, AccumulatesOnce, SMTT(30)
<1>8. v = w[n] /\ m = j + n
  <2>1. Read(v, m) = Read(w[n], j + n)
    BY <1>2
  <2> QED
    BY <2>1, Zenon DEF Read
<1> QED
  BY <1>6, <1>7, <1>8, i + j + n = i + (j + n)

-----------------------------------------------------------------------------
(* Bytes within bytes *)

\* d ends within the bytes e, which begin behind its first i bytes.
Begins(e, d, i) ==
  /\ i \in Nat /\ i <= Len(d) /\ Len(d) < i + Len(e)
  /\ \A k \in 1 .. Len(d) - i : d[i + k] = e[k]

\* Where two stretches stand, the second stands behind the first.
LEMMA StandsConcat ==
  ASSUME NEW a \in Seq(Octet), NEW b \in Seq(Octet), NEW d \in Seq(Octet), NEW i, Stands(a \o b, d, i)
  PROVE  Stands(a, d, i) /\ i + Len(a) \in Nat /\ Stands(b, d, i + Len(a))
<1>1. /\ a \o b \in Seq(Octet) /\ Len(a \o b) = Len(a) + Len(b) /\ Len(a) \in Nat /\ Len(b) \in Nat
      /\ \A k \in 1 .. Len(a) + Len(b) : (a \o b)[k] = IF k <= Len(a) THEN a[k] ELSE b[k - Len(a)]
  BY ConcatProperties, LenProperties
<1>2. PICK e \in Seq(Octet) : e = a \o b
  BY <1>1
<1>3. /\ i \in Nat /\ Len(d) \in Nat /\ i + Len(a) + Len(b) <= Len(d)
      /\ \A k \in 1 .. Len(a) + Len(b) : d[i + k] = e[k]
  <2>1. /\ i \in Nat /\ Len(d) \in Nat /\ Len(e) \in Nat /\ i + Len(e) <= Len(d)
        /\ \A k \in 1 .. Len(e) : d[i + k] = e[k]
    <3>1. Stands(e, d, i)
      BY <1>2
    <3> QED
      BY <3>1, StandsAt
  <2>2. Len(e) = Len(a) + Len(b)
    BY <1>1, <1>2
  <2>3. i + Len(a) + Len(b) <= Len(d)
    BY <1>1, <2>1, <2>2
  <2> QED
    BY <2>1, <2>2, <2>3
<1>4. Stands(a, d, i)
  <2>1. \A k \in 1 .. Len(a) : k \in 1 .. Len(a) + Len(b) /\ k <= Len(a)
    BY <1>1
  <2>2. \A k \in 1 .. Len(a) : d[i + k] = a[k]
    BY <1>1, <1>2, <1>3, <2>1
  <2>3. i + Len(a) <= Len(d)
    BY <1>1, <1>3
  <2> QED
    BY <1>3, <2>2, <2>3 DEF Stands
<1>5. Stands(b, d, i + Len(a))
  <2>1. ASSUME NEW k \in 1 .. Len(b) PROVE d[i + Len(a) + k] = b[k]
    <3>1. PICK q : q = Len(a) + k
      OBVIOUS
    <3>2. q \in 1 .. Len(a) + Len(b) /\ ~(q <= Len(a)) /\ q - Len(a) = k /\ i + q = i + Len(a) + k
      BY <1>1, <1>3, <3>1
    <3> QED
      BY <1>1, <1>2, <1>3, <3>2
  <2> QED
    BY <1>1, <1>3, <2>1 DEF Stands
<1> QED
  BY <1>1, <1>3, <1>4, <1>5

\* An input that ends within two stretches ends within the first, or has it and
\* ends within the second.
LEMMA BeginsConcat ==
  ASSUME NEW a \in Seq(Octet), NEW b \in Seq(Octet), NEW d \in Seq(Octet), NEW i, Begins(a \o b, d, i)
  PROVE  \/ Begins(a, d, i)
         \/ Stands(a, d, i) /\ i + Len(a) \in Nat /\ Begins(b, d, i + Len(a))
<1>1. /\ Len(a \o b) = Len(a) + Len(b) /\ Len(a) \in Nat /\ Len(b) \in Nat /\ Len(d) \in Nat
      /\ \A k \in 1 .. Len(a) + Len(b) : (a \o b)[k] = IF k <= Len(a) THEN a[k] ELSE b[k - Len(a)]
  BY ConcatProperties, LenProperties
<1>2. PICK e : e = a \o b
  OBVIOUS
<1>3. /\ i \in Nat /\ i <= Len(d) /\ Len(d) < i + (Len(a) + Len(b))
      /\ \A k \in 1 .. Len(d) - i : d[i + k] = e[k]
  BY <1>1, <1>2 DEF Begins
<1>4. CASE Len(d) < i + Len(a)
  <2>1. \A k \in 1 .. Len(d) - i : k \in 1 .. Len(a) + Len(b) /\ k <= Len(a)
    BY <1>1, <1>3, <1>4
  <2>2. \A k \in 1 .. Len(d) - i : d[i + k] = a[k]
    BY <1>1, <1>2, <1>3, <2>1
  <2> QED
    BY <1>3, <1>4, <2>2 DEF Begins
<1>5. CASE ~(Len(d) < i + Len(a))
  <2>0. i + Len(a) \in Nat /\ i + Len(a) <= Len(d) /\ Len(d) < i + Len(a) + Len(b)
    BY <1>1, <1>3, <1>5
  <2>1. Stands(a, d, i)
    <3>1. \A k \in 1 .. Len(a) : k \in 1 .. Len(d) - i /\ k \in 1 .. Len(a) + Len(b) /\ k <= Len(a)
      BY <1>1, <1>3, <2>0
    <3>2. \A k \in 1 .. Len(a) : d[i + k] = a[k]
      BY <1>1, <1>2, <1>3, <3>1
    <3> QED
      BY <1>3, <2>0, <3>2 DEF Stands
  <2>2. ASSUME NEW k \in 1 .. Len(d) - (i + Len(a)) PROVE d[i + Len(a) + k] = b[k]
    <3>1. PICK q : q = Len(a) + k
      OBVIOUS
    <3>2. /\ q \in 1 .. Len(d) - i /\ q \in 1 .. Len(a) + Len(b) /\ ~(q <= Len(a)) /\ q - Len(a) = k
          /\ i + q = i + Len(a) + k
      BY <1>1, <1>3, <2>0, <3>1
    <3> QED
      BY <1>1, <1>2, <1>3, <3>2
  <2> QED
    BY <2>0, <2>1, <2>2 DEF Begins
<1> QED
  BY <1>4, <1>5

\* A stretch that stands is the one a slice expression takes.
LEMMA StandsIs ==
  ASSUME NEW e \in Seq(Octet), NEW d \in Seq(Octet), NEW i, Stands(e, d, i)
  PROVE  SubSeq(d, i + 1, i + Len(e)) = e
<1>1. /\ i \in Nat /\ Len(e) \in Nat /\ Len(d) \in Nat /\ i + Len(e) <= Len(d)
      /\ \A k \in 1 .. Len(e) : d[i + k] = e[k]
  BY StandsAt
<1>2. PICK m \in Int, n \in Int : m = i + 1 /\ n = i + Len(e) /\ n - m + 1 = Len(e)
  BY <1>1
<1>3. \A k \in m .. n : k \in 1 .. Len(d)
  BY <1>1, <1>2
<1>4. \A k \in m .. n : d[k] \in Octet
  BY <1>3, ByteIs
<1>5. PICK s : s = SubSeq(d, m, n)
  OBVIOUS
<1>6. /\ s \in Seq(Octet) /\ Len(s) = (IF m <= n THEN n - m + 1 ELSE 0)
      /\ \A k \in 1 .. n - m + 1 : s[k] = d[m + k - 1]
  BY <1>4, <1>5, SubSeqProperties
<1>7. Len(s) = Len(e) /\ \A k \in 1 .. Len(e) : m + k - 1 = i + k
  BY <1>1, <1>2, <1>6
<1>8. \A k \in 1 .. Len(s) : s[k] = e[k]
  BY <1>1, <1>2, <1>6, <1>7
<1> QED
  BY <1>2, <1>5, <1>6, <1>7, <1>8, SeqEqual

-----------------------------------------------------------------------------
(* What follows a length *)

Short(n) == 2 * n < Words

\* A slice whose length is an int.
LEMMA FitsIs == \A d \in Seq(Octet) : Fits(d) <=> Short(Len(d))
<1> TAKE d \in Seq(Octet)
<1>1. Len(d) \in Nat /\ Words \in Nat
  BY LenProperties, WordsAre
<1> QED
  BY <1>1 DEF Fits, Negative, Short

\* What is within a length that is an int is one too.
LEMMA ShortIs ==
  ASSUME NEW m \in Nat, NEW n \in Nat, Short(n), m <= n
  PROVE  Short(m) /\ ~Negative(m) /\ m \in 0 .. Words - 1
  BY WordsAre DEF Short, Negative

\* Reading bytes behind their length (dfs.pb.go:3563-3587).
LEMMA DelimitedIsRead ==
  ASSUME NEW p \in Seq(Octet), NEW d \in Seq(Octet), NEW i, Fits(d),
         Stands(EncodeVarint[Len(p)] \o p, d, i)
  PROVE  ReadDelimited(d, i) = Read(p, i + Len(EncodeVarint[Len(p)]) + Len(p))
<1>1. Len(p) \in Nat /\ Len(d) \in Nat
  BY LenProperties
<1>2. PICK e \in Seq(Octet) : e = EncodeVarint[Len(p)]
  BY <1>1, EncodeVarintIs
<1>3. Stands(e, d, i) /\ i + Len(e) \in Nat /\ Stands(p, d, i + Len(e)) /\ i \in Nat
  BY <1>2, StandsConcat, StandsAt
<1>4. PICK n \in Nat : n = i + Len(e)
  BY <1>3
<1>5. n + Len(p) <= Len(d) /\ Short(Len(d))
  BY <1>3, <1>4, StandsAt, FitsIs
<1>6. Len(p) \in 0 .. Words - 1 /\ ~Negative(Len(p)) /\ ~Negative(n + Len(p))
  BY <1>1, <1>5, ShortIs, n + Len(p) \in Nat, Len(p) <= Len(d)
<1>7. ReadVarint(d, i) = Read(Len(p), n)
  BY <1>2, <1>3, <1>4, <1>6, VarintIsRead
<1>8. Read(Len(p), n).err = "" /\ Read(Len(p), n).val = Len(p) /\ Read(Len(p), n).next = n
  BY DEF Read
<1>9. ~(n + Len(p) > Len(d))
  BY <1>1, <1>5
<1>10. ReadDelimited(d, i) = Read(SubSeq(d, n + 1, n + Len(p)), n + Len(p))
  BY <1>6, <1>7, <1>8, <1>9, Zenon DEF ReadDelimited
<1>11. SubSeq(d, n + 1, n + Len(p)) = p
  BY <1>3, <1>4, StandsIs
<1> QED
  BY <1>2, <1>4, <1>10, <1>11

\* Bytes behind their length whose end is missing.
LEMMA DelimitedIsCut ==
  ASSUME NEW p \in Seq(Octet), NEW d \in Seq(Octet), NEW i, Short(i + Len(EncodeVarint[Len(p)]) + Len(p)),
         Begins(EncodeVarint[Len(p)] \o p, d, i)
  PROVE  ReadDelimited(d, i) = Failed("eof")
<1>1. Len(p) \in Nat /\ Len(d) \in Nat
  BY LenProperties
<1>2. PICK e \in Seq(Octet) : e = EncodeVarint[Len(p)]
  BY <1>1, EncodeVarintIs
<1>3. i \in Nat /\ Len(e) \in Nat
  BY <1>2, LenProperties DEF Begins
<1>4. PICK n \in Nat : n = i + Len(e)
  BY <1>3
<1>5. Short(n + Len(p)) /\ n + Len(p) \in Nat /\ Len(p) <= n + Len(p)
  BY <1>1, <1>2, <1>4
<1>6. Len(p) \in 0 .. Words - 1 /\ ~Negative(Len(p)) /\ ~Negative(n + Len(p))
  BY <1>1, <1>5, ShortIs
<1>7. CASE Begins(e, d, i)
  <2>1. i \in 0 .. Len(d) /\ Len(d) < i + Len(e) /\ \A k \in 1 .. Len(d) - i : d[i + k] = e[k]
    BY <1>1, <1>7 DEF Begins
  <2>2. ReadVarint(d, i) = Failed("eof")
    BY <1>2, <1>6, <2>1, VarintIsCut
  <2>3. Failed("eof").err = "eof"
    BY DEF Failed
  <2> QED
    BY <2>2, <2>3, Zenon DEF ReadDelimited
<1>8. CASE Stands(e, d, i) /\ Begins(p, d, i + Len(e))
  <2>1. ReadVarint(d, i) = Read(Len(p), n)
    BY <1>2, <1>3, <1>4, <1>6, <1>8, VarintIsRead
  <2>2. Read(Len(p), n).err = "" /\ Read(Len(p), n).val = Len(p) /\ Read(Len(p), n).next = n
    BY DEF Read
  <2>3. n + Len(p) > Len(d)
    BY <1>1, <1>4, <1>8 DEF Begins
  <2> QED
    BY <1>6, <2>1, <2>2, <2>3, Zenon DEF ReadDelimited
<1> QED
  BY <1>2, <1>7, <1>8, BeginsConcat

\* Where what is read ends.
LEMMA ReadDelimitedType ==
  ASSUME NEW d \in Seq(Octet), NEW i \in Nat
  PROVE  \/ \E p : \E n \in i + 1 .. Len(d) : ReadDelimited(d, i) = Read(p, n)
         \/ \E e \in {"eof", "overflow", "length"} : ReadDelimited(d, i) = Failed(e)
<1>1. Len(d) \in Nat
  BY LenProperties
<1>2. ASSUME NEW e \in {"eof", "overflow"}, ReadVarint(d, i) = Failed(e) PROVE ReadDelimited(d, i) = Failed(e)
  <2>1. Failed(e).err = e /\ e # ""
    BY Zenon DEF Failed
  <2> QED
    BY <1>2, <2>1, Zenon DEF ReadDelimited
<1>3. ASSUME NEW v \in 0 .. Words - 1, NEW n \in i + 1 .. Len(d), ReadVarint(d, i) = Read(v, n)
      PROVE  \/ \E p : \E m \in i + 1 .. Len(d) : ReadDelimited(d, i) = Read(p, m)
             \/ \E e \in {"eof", "overflow", "length"} : ReadDelimited(d, i) = Failed(e)
  <2>1. Read(v, n).err = "" /\ Read(v, n).val = v /\ Read(v, n).next = n
    BY DEF Read
  <2>2. v \in Nat
    BY WordIs
  <2>3. n \in Nat /\ n >= i + 1
    BY <1>1
  <2>4. CASE Negative(v) \/ Negative(n + v)
    BY <1>3, <2>1, <2>4, Zenon DEF ReadDelimited
  <2>5. CASE ~(Negative(v) \/ Negative(n + v)) /\ n + v > Len(d)
    BY <1>3, <2>1, <2>5, Zenon DEF ReadDelimited
  <2>6. CASE ~(Negative(v) \/ Negative(n + v)) /\ ~(n + v > Len(d))
    <3>1. ReadDelimited(d, i) = Read(SubSeq(d, n + 1, n + v), n + v)
      BY <1>3, <2>1, <2>6, Zenon DEF ReadDelimited
    <3>2. n + v \in i + 1 .. Len(d)
      BY <1>1, <2>2, <2>3, <2>6
    <3> QED
      BY <3>1, <3>2
  <2> QED
    BY <2>4, <2>5, <2>6
<1> QED
  BY <1>2, <1>3, ReadVarintType

-----------------------------------------------------------------------------
(* Skipping *)

\* A turn of the loop of skip: where it goes on, and how many groups have begun.
Hopped(e, n, k) == [err |-> e, next |-> n, deep |-> k]

\* The turn behind a tag that has been read: w and m are what a varint there is.
HopWith(w, m, n, kind, depth) ==
  LET deep == IF kind = 3 THEN depth + 1 ELSE IF kind = 4 THEN depth - 1 ELSE depth
      next == IF kind = 0 THEN m
              ELSE IF kind = 2 THEN m + w
              ELSE n + (IF kind = 1 THEN 8 ELSE IF kind = 5 THEN 4 ELSE 0)
  IN IF kind = 2 /\ Negative(w) THEN Hopped("length", 0, 0)
     ELSE IF kind = 4 /\ depth = 0 THEN Hopped("group", 0, 0)
     ELSE IF kind \in {6, 7} THEN Hopped("wiretype", 0, 0)
     ELSE IF Negative(next) THEN Hopped("length", 0, 0)
     ELSE Hopped("none", next, deep)

HopBehind(d, n, kind, depth) ==
  LET word == ReadVarint(d, n)
  IN IF kind \in {0, 2} /\ word.err # "" THEN Hopped(word.err, 0, 0)
     ELSE HopWith(word.val, word.next, n, kind, depth)

Hop(d, i, depth) ==
  LET tag == ReadVarint(d, i)
  IN IF i >= Len(d) THEN Hopped("eof", 0, 0)
     ELSE IF tag.err # "" THEN Hopped(tag.err, 0, 0)
     ELSE HopBehind(d, tag.next, tag.val % 8, depth)

\* What the result of a turn of skip holds.
LEMMA HoppedIs ==
  \A e, n, k : Hopped(e, n, k).err = e /\ Hopped(e, n, k).next = n /\ Hopped(e, n, k).deep = k
  BY DEF Hopped

\* What a hop behind a tag has read, if it succeeds.
HopsBehind(d, n, kind, depth, next, deep) ==
  /\ ~Negative(next)
  /\ \/ kind = 0 /\ deep = depth /\ \E w \in 0 .. Words - 1 : ReadVarint(d, n) = Read(w, next)
     \/ kind = 1 /\ deep = depth /\ next = n + 8
     \/ /\ kind = 2 /\ deep = depth
        /\ \E w \in 0 .. Words - 1, m \in n + 1 .. Len(d) :
             ~Negative(w) /\ ReadVarint(d, n) = Read(w, m) /\ next = m + w
     \/ kind = 3 /\ deep = depth + 1 /\ next = n
     \/ kind = 4 /\ depth # 0 /\ deep = depth - 1 /\ next = n
     \/ kind = 5 /\ deep = depth /\ next = n + 4

HopErrors == {"eof", "overflow", "length", "group", "wiretype"}

\* A turn over a varint, and over bytes behind their length.
LEMMA HopWithIs ==
  ASSUME NEW w \in Nat, NEW m \in Nat, NEW n \in Nat, NEW depth \in Nat
  PROVE  /\ Negative(m) => HopWith(w, m, n, 0, depth) = Hopped("length", 0, 0)
         /\ ~Negative(m) => HopWith(w, m, n, 0, depth) = Hopped("none", m, depth)
         /\ Negative(w) \/ Negative(m + w) => HopWith(w, m, n, 2, depth) = Hopped("length", 0, 0)
         /\ ~Negative(w) /\ ~Negative(m + w) => HopWith(w, m, n, 2, depth) = Hopped("none", m + w, depth)
  BY DEF HopWith

\* A turn behind a tag fails, or goes on behind what the tag announces.
LEMMA HopBehindIs ==
  ASSUME NEW d \in Seq(Octet), NEW n \in Nat, NEW kind \in 0 .. 7, NEW depth \in Nat
  PROVE  \/ \E e \in HopErrors : HopBehind(d, n, kind, depth) = Hopped(e, 0, 0)
         \/ \E next \in Nat, deep \in Nat :
              /\ HopBehind(d, n, kind, depth) = Hopped("none", next, deep)
              /\ next >= n /\ HopsBehind(d, n, kind, depth, next, deep)
<1>0. Len(d) \in Nat
  BY LenProperties
<1> DEFINE Goal == \/ \E e \in HopErrors : HopBehind(d, n, kind, depth) = Hopped(e, 0, 0)
                   \/ \E next \in Nat, deep \in Nat :
                        /\ HopBehind(d, n, kind, depth) = Hopped("none", next, deep)
                        /\ next >= n /\ HopsBehind(d, n, kind, depth, next, deep)
<1>1. ASSUME NEW next \in Nat, NEW deep \in Nat, next >= n, HopsBehind(d, n, kind, depth, next, deep),
             HopBehind(d, n, kind, depth) = Hopped("none", next, deep)
      PROVE  Goal
  BY <1>1
<1>2. ASSUME NEW e \in HopErrors, HopBehind(d, n, kind, depth) = Hopped(e, 0, 0) PROVE Goal
  BY <1>2
<1> SUFFICES Goal
  BY DEF Goal
<1> HIDE DEF Goal
<1>4. CASE kind = 1
  <2>1. HopBehind(d, n, kind, depth) = IF Negative(n + 8) THEN Hopped("length", 0, 0) ELSE Hopped("none", n + 8, depth)
    BY <1>4 DEF HopBehind, HopWith
  <2>2. CASE Negative(n + 8)
    BY <2>1, <2>2, <1>2 DEF HopErrors
  <2>3. CASE ~Negative(n + 8)
    <3>1. HopsBehind(d, n, kind, depth, n + 8, depth)
      BY <1>4, <2>3 DEF HopsBehind
    <3>2. n + 8 \in Nat /\ n + 8 >= n
      OBVIOUS
    <3> QED
      BY <2>1, <2>3, <3>1, <3>2, <1>1
  <2> QED
    BY <2>2, <2>3
<1>5. CASE kind = 5
  <2>1. HopBehind(d, n, kind, depth) = IF Negative(n + 4) THEN Hopped("length", 0, 0) ELSE Hopped("none", n + 4, depth)
    BY <1>5 DEF HopBehind, HopWith
  <2>2. CASE Negative(n + 4)
    BY <2>1, <2>2, <1>2 DEF HopErrors
  <2>3. CASE ~Negative(n + 4)
    <3>1. HopsBehind(d, n, kind, depth, n + 4, depth)
      BY <1>5, <2>3 DEF HopsBehind
    <3>2. n + 4 \in Nat /\ n + 4 >= n
      OBVIOUS
    <3> QED
      BY <2>1, <2>3, <3>1, <3>2, <1>1
  <2> QED
    BY <2>2, <2>3
<1>6. CASE kind = 3
  <2>1. HopBehind(d, n, kind, depth) = IF Negative(n) THEN Hopped("length", 0, 0) ELSE Hopped("none", n, depth + 1)
    BY <1>6, n + 0 = n DEF HopBehind, HopWith
  <2>2. CASE Negative(n)
    BY <2>1, <2>2, <1>2 DEF HopErrors
  <2>3. CASE ~Negative(n)
    <3>1. HopsBehind(d, n, kind, depth, n, depth + 1)
      BY <1>6, <2>3 DEF HopsBehind
    <3>2. depth + 1 \in Nat /\ n >= n
      OBVIOUS
    <3> QED
      BY <2>1, <2>3, <3>1, <3>2, <1>1
  <2> QED
    BY <2>2, <2>3
<1>7. CASE kind = 4
  <2>1. CASE depth = 0
    <3>1. HopBehind(d, n, kind, depth) = Hopped("group", 0, 0)
      BY <1>7, <2>1 DEF HopBehind, HopWith
    <3> QED
      BY <3>1, <1>2 DEF HopErrors
  <2>2. CASE depth # 0
    <3>1. HopBehind(d, n, kind, depth) = IF Negative(n) THEN Hopped("length", 0, 0) ELSE Hopped("none", n, depth - 1)
      BY <1>7, <2>2, n + 0 = n DEF HopBehind, HopWith
    <3>2. CASE Negative(n)
      BY <3>1, <3>2, <1>2 DEF HopErrors
    <3>3. CASE ~Negative(n)
      <4>1. HopsBehind(d, n, kind, depth, n, depth - 1)
        BY <1>7, <2>2, <3>3 DEF HopsBehind
      <4>2. depth - 1 \in Nat /\ n >= n
        BY <2>2
      <4> QED
        BY <3>1, <3>3, <4>1, <4>2, <1>1
    <3> QED
      BY <3>2, <3>3
  <2> QED
    BY <2>1, <2>2
<1>8. CASE kind \in {6, 7}
  <2>1. HopBehind(d, n, kind, depth) = Hopped("wiretype", 0, 0)
    <3>1. CASE kind = 6
      BY <3>1 DEF HopBehind, HopWith
    <3>2. CASE kind = 7
      BY <3>2 DEF HopBehind, HopWith
    <3> QED
      BY <1>8, <3>1, <3>2
  <2> QED
    BY <2>1, <1>2 DEF HopErrors
<1>9. ASSUME NEW e \in {"eof", "overflow"}, ReadVarint(d, n) = Failed(e), kind \in {0, 2} PROVE Goal
  <2>1. Failed(e).err = e /\ e # ""
    BY Zenon DEF Failed
  <2>2. HopBehind(d, n, kind, depth) = Hopped(e, 0, 0)
    BY <1>9, <2>1, Zenon DEF HopBehind, HopWith
  <2>3. e \in HopErrors
    BY DEF HopErrors
  <2> QED
    BY <2>2, <2>3, <1>2
<1>10. ASSUME NEW w \in 0 .. Words - 1, NEW m \in n + 1 .. Len(d), ReadVarint(d, n) = Read(w, m), kind = 0
       PROVE  Goal
  <2>1. Read(w, m).err = "" /\ Read(w, m).val = w /\ Read(w, m).next = m
    BY DEF Read
  <2>2. HopBehind(d, n, kind, depth) = HopWith(w, m, n, 0, depth)
    BY <1>10, <2>1, Zenon DEF HopBehind
  <2>3. w \in Nat /\ m \in Nat /\ m >= n
    BY <1>0, WordIs
  <2>4. CASE Negative(m)
    <3>1. HopWith(w, m, n, 0, depth) = Hopped("length", 0, 0)
      BY <2>3, <2>4, HopWithIs
    <3> QED
      BY <2>2, <3>1, <1>2 DEF HopErrors
  <2>5. CASE ~Negative(m)
    <3>1. HopsBehind(d, n, kind, depth, m, depth)
      BY <1>10, <2>5 DEF HopsBehind
    <3>2. HopWith(w, m, n, 0, depth) = Hopped("none", m, depth)
      BY <2>3, <2>5, HopWithIs
    <3> QED
      BY <2>2, <2>3, <3>1, <3>2, <1>1
  <2> QED
    BY <2>4, <2>5
<1>11. ASSUME NEW w \in 0 .. Words - 1, NEW m \in n + 1 .. Len(d), ReadVarint(d, n) = Read(w, m), kind = 2
       PROVE  Goal
  <2>1. Read(w, m).err = "" /\ Read(w, m).val = w /\ Read(w, m).next = m
    BY DEF Read
  <2>2. HopBehind(d, n, kind, depth) = HopWith(w, m, n, 2, depth)
    BY <1>11, <2>1, Zenon DEF HopBehind
  <2>3. w \in Nat /\ m \in Nat /\ m + w \in Nat /\ m + w >= n
    BY <1>0, WordIs
  <2>4. CASE Negative(w) \/ Negative(m + w)
    <3>1. HopWith(w, m, n, 2, depth) = Hopped("length", 0, 0)
      BY <2>3, <2>4, HopWithIs
    <3> QED
      BY <2>2, <3>1, <1>2 DEF HopErrors
  <2>5. CASE ~Negative(w) /\ ~Negative(m + w)
    <3>1. HopsBehind(d, n, kind, depth, m + w, depth)
      BY <1>11, <2>5 DEF HopsBehind
    <3>2. HopWith(w, m, n, 2, depth) = Hopped("none", m + w, depth)
      BY <2>3, <2>5, HopWithIs
    <3> QED
      BY <2>2, <2>3, <3>1, <3>2, <1>1
  <2> QED
    BY <2>4, <2>5
<1>12. CASE kind \in {0, 2}
  <2>1. \/ \E w \in 0 .. Words - 1, m \in n + 1 .. Len(d) : ReadVarint(d, n) = Read(w, m)
        \/ \E e \in {"eof", "overflow"} : ReadVarint(d, n) = Failed(e)
    BY ReadVarintType
  <2>2. CASE \E e \in {"eof", "overflow"} : ReadVarint(d, n) = Failed(e)
    <3>1. PICK e \in {"eof", "overflow"} : ReadVarint(d, n) = Failed(e)
      BY <2>2
    <3> QED
      BY <3>1, <1>9, <1>12
  <2>3. ASSUME NEW w \in 0 .. Words - 1, NEW m \in n + 1 .. Len(d), ReadVarint(d, n) = Read(w, m) PROVE Goal
    BY <2>3, <1>10, <1>11, <1>12
  <2> QED
    BY <2>1, <2>2, <2>3
<1> QED
  <2>1. kind \in {0, 2} \/ kind = 1 \/ kind = 3 \/ kind = 4 \/ kind = 5 \/ kind \in {6, 7}
    OBVIOUS
  <2> QED
    BY <2>1, <1>4, <1>5, <1>6, <1>7, <1>8, <1>12

\* What is announced and is there is gone over.
LEMMA HopBehindFollows ==
  ASSUME NEW d \in Seq(Octet), NEW n \in Nat, NEW kind \in 0 .. 7, NEW depth \in Nat,
         NEW next, NEW deep, HopsBehind(d, n, kind, depth, next, deep)
  PROVE  HopBehind(d, n, kind, depth) = Hopped("none", next, deep)
<1>0. Len(d) \in Nat
  BY LenProperties
<1>1. /\ ~Negative(next)
      /\ \/ kind = 0 /\ deep = depth /\ \E w \in 0 .. Words - 1 : ReadVarint(d, n) = Read(w, next)
         \/ kind = 1 /\ deep = depth /\ next = n + 8
         \/ /\ kind = 2 /\ deep = depth
            /\ \E w \in 0 .. Words - 1, m \in n + 1 .. Len(d) :
                 ~Negative(w) /\ ReadVarint(d, n) = Read(w, m) /\ next = m + w
         \/ kind = 3 /\ deep = depth + 1 /\ next = n
         \/ kind = 4 /\ depth # 0 /\ deep = depth - 1 /\ next = n
         \/ kind = 5 /\ deep = depth /\ next = n + 4
  BY DEF HopsBehind
<1>2. CASE kind = 0
  <2>1. PICK w \in 0 .. Words - 1 : ReadVarint(d, n) = Read(w, next)
    BY <1>1, <1>2
  <2>2. Read(w, next).err = "" /\ Read(w, next).val = w /\ Read(w, next).next = next
    BY DEF Read
  <2>3. HopBehind(d, n, kind, depth) = HopWith(w, next, n, 0, depth)
    BY <1>2, <2>1, <2>2, Zenon DEF HopBehind
  <2>4. deep = depth /\ ~Negative(next)
    BY <1>1, <1>2
  <2> QED
    BY <2>3, <2>4 DEF HopWith
<1>3. CASE kind = 2
  <2>1. PICK w \in 0 .. Words - 1, m \in n + 1 .. Len(d) :
          ~Negative(w) /\ ReadVarint(d, n) = Read(w, m) /\ next = m + w
    BY <1>1, <1>3
  <2>2. Read(w, m).err = "" /\ Read(w, m).val = w /\ Read(w, m).next = m
    BY DEF Read
  <2>3. HopBehind(d, n, kind, depth) = HopWith(w, m, n, 2, depth)
    BY <1>3, <2>1, <2>2, Zenon DEF HopBehind
  <2>4. deep = depth /\ ~Negative(next)
    BY <1>1, <1>3
  <2>5. w \in Nat /\ m \in Nat
    BY <1>0, WordIs
  <2>6. ~Negative(m + w) /\ ~Negative(w)
    BY <2>1, <2>4
  <2>7. HopWith(w, m, n, 2, depth) = Hopped("none", m + w, depth)
    BY <2>5, <2>6, HopWithIs
  <2> QED
    BY <2>1, <2>3, <2>4, <2>7
<1>4. CASE kind = 1
  BY <1>1, <1>4 DEF HopBehind, HopWith
<1>5. CASE kind = 3
  BY <1>1, <1>5, n + 0 = n DEF HopBehind, HopWith
<1>6. CASE kind = 4
  BY <1>1, <1>6, n + 0 = n DEF HopBehind, HopWith
<1>7. CASE kind = 5
  BY <1>1, <1>7 DEF HopBehind, HopWith
<1> QED
  BY <1>1, <1>2, <1>3, <1>4, <1>5, <1>6, <1>7

\* What a hop has read, if it succeeds.
HopsOver(d, i, depth, next, deep) ==
  /\ i < Len(d)
  /\ \E v \in 0 .. Words - 1, n \in i + 1 .. Len(d) :
       ReadVarint(d, i) = Read(v, n) /\ HopsBehind(d, n, v % 8, depth, next, deep)

\* A turn fails, or goes on further behind.
LEMMA HopIs ==
  ASSUME NEW d \in Seq(Octet), NEW i \in Nat, NEW depth \in Nat
  PROVE  \/ \E e \in HopErrors : Hop(d, i, depth) = Hopped(e, 0, 0)
         \/ \E next \in Nat, deep \in Nat :
              /\ Hop(d, i, depth) = Hopped("none", next, deep)
              /\ i < Len(d) /\ next > i /\ HopsOver(d, i, depth, next, deep)
<1> DEFINE Goal == \/ \E e \in HopErrors : Hop(d, i, depth) = Hopped(e, 0, 0)
                   \/ \E next \in Nat, deep \in Nat :
                        /\ Hop(d, i, depth) = Hopped("none", next, deep)
                        /\ i < Len(d) /\ next > i /\ HopsOver(d, i, depth, next, deep)
<1>0. Len(d) \in Nat
  BY LenProperties
<1>1. ASSUME NEW e \in HopErrors, Hop(d, i, depth) = Hopped(e, 0, 0) PROVE Goal
  BY <1>1
<1>2. ASSUME NEW next \in Nat, NEW deep \in Nat, Hop(d, i, depth) = Hopped("none", next, deep),
             i < Len(d), next > i, HopsOver(d, i, depth, next, deep)
      PROVE  Goal
  BY <1>2
<1> SUFFICES Goal
  BY DEF Goal
<1> HIDE DEF Goal
<1>3. CASE i >= Len(d)
  <2>1. Hop(d, i, depth) = Hopped("eof", 0, 0)
    BY <1>3 DEF Hop
  <2> QED
    BY <2>1, <1>1 DEF HopErrors
<1>4. ASSUME ~(i >= Len(d)), NEW e \in {"eof", "overflow"}, ReadVarint(d, i) = Failed(e) PROVE Goal
  <2>1. Failed(e).err = e /\ e # ""
    BY Zenon DEF Failed
  <2>2. Hop(d, i, depth) = Hopped(e, 0, 0)
    BY <1>4, <2>1, Zenon DEF Hop
  <2>3. e \in HopErrors
    BY DEF HopErrors
  <2> QED
    BY <2>2, <2>3, <1>1
<1>5. ASSUME ~(i >= Len(d)), NEW v \in 0 .. Words - 1, NEW n \in i + 1 .. Len(d), ReadVarint(d, i) = Read(v, n)
      PROVE  Goal
  <2>1. Read(v, n).err = "" /\ Read(v, n).val = v /\ Read(v, n).next = n
    BY DEF Read
  <2>2. Hop(d, i, depth) = HopBehind(d, n, v % 8, depth)
    BY <1>5, <2>1, Zenon DEF Hop
  <2>3. v \in Nat
    BY WordIs
  <2>4. v % 8 \in 0 .. 7
    BY <2>3
  <2>5. n \in Nat /\ n > i /\ i < Len(d)
    BY <1>0, <1>5
  <2>6. PICK kind \in 0 .. 7 : kind = v % 8
    BY <2>4
  <2>7. CASE \E e \in HopErrors : HopBehind(d, n, kind, depth) = Hopped(e, 0, 0)
    BY <2>2, <2>6, <2>7, <1>1
  <2>8. ASSUME NEW next \in Nat, NEW deep \in Nat, HopBehind(d, n, kind, depth) = Hopped("none", next, deep),
               next >= n, HopsBehind(d, n, kind, depth, next, deep)
        PROVE  Goal
    <3>1. HopsOver(d, i, depth, next, deep)
      BY <1>5, <2>5, <2>6, <2>8 DEF HopsOver
    <3>2. next > i
      BY <2>5, <2>8
    <3> QED
      BY <1>2, <2>2, <2>5, <2>6, <2>8, <3>1, <3>2
  <2> QED
    BY <2>5, <2>7, <2>8, HopBehindIs
<1>6. CASE ~(i >= Len(d))
  <2>1. \/ \E v \in 0 .. Words - 1, n \in i + 1 .. Len(d) : ReadVarint(d, i) = Read(v, n)
        \/ \E e \in {"eof", "overflow"} : ReadVarint(d, i) = Failed(e)
    BY ReadVarintType
  <2>2. CASE \E e \in {"eof", "overflow"} : ReadVarint(d, i) = Failed(e)
    <3>1. PICK e \in {"eof", "overflow"} : ReadVarint(d, i) = Failed(e)
      BY <2>2
    <3> QED
      BY <3>1, <1>4, <1>6
  <2>3. CASE \E v \in 0 .. Words - 1, n \in i + 1 .. Len(d) : ReadVarint(d, i) = Read(v, n)
    <3>1. PICK v \in 0 .. Words - 1, n \in i + 1 .. Len(d) : ReadVarint(d, i) = Read(v, n)
      BY <2>3
    <3> QED
      BY <3>1, <1>5, <1>6
  <2> QED
    BY <2>1, <2>2, <2>3
<1> QED
  BY <1>3, <1>6

\* A field that is there is gone over.
LEMMA HopFollows ==
  ASSUME NEW d \in Seq(Octet), NEW i \in Nat, NEW depth \in Nat, NEW next, NEW deep,
         HopsOver(d, i, depth, next, deep)
  PROVE  Hop(d, i, depth) = Hopped("none", next, deep)
<1>0. Len(d) \in Nat
  BY LenProperties
<1>1. PICK v \in 0 .. Words - 1, n \in i + 1 .. Len(d) :
        ReadVarint(d, i) = Read(v, n) /\ HopsBehind(d, n, v % 8, depth, next, deep)
  BY DEF HopsOver
<1>2. ~(i >= Len(d))
  BY <1>0 DEF HopsOver
<1>3. Read(v, n).err = "" /\ Read(v, n).val = v /\ Read(v, n).next = n
  BY DEF Read
<1>4. Hop(d, i, depth) = HopBehind(d, n, v % 8, depth)
  BY <1>1, <1>2, <1>3, Zenon DEF Hop
<1>5. v \in Nat
  BY WordIs
<1>6. v % 8 \in 0 .. 7
  BY <1>5
<1>7. n \in Nat
  BY <1>0
<1>8. PICK kind \in 0 .. 7 : kind = v % 8
  BY <1>6
<1>9. HopBehind(d, n, kind, depth) = Hopped("none", next, deep)
  BY <1>1, <1>7, <1>8, HopBehindFollows
<1> QED
  BY <1>4, <1>8, <1>9

\* The body of the function of SkipFrom, cut where Hop is.
BodyWith(f, w, m, n, kind, depth) ==
  LET deep == IF kind = 3 THEN depth + 1 ELSE IF kind = 4 THEN depth - 1 ELSE depth
      next == IF kind = 0 THEN m
              ELSE IF kind = 2 THEN m + w
              ELSE n + (IF kind = 1 THEN 8 ELSE IF kind = 5 THEN 4 ELSE 0)
  IN IF kind = 2 /\ Negative(w) THEN Failed("length")
     ELSE IF kind = 4 /\ depth = 0 THEN Failed("group")
     ELSE IF kind \in {6, 7} THEN Failed("wiretype")
     ELSE IF Negative(next) THEN Failed("length")
     ELSE IF deep = 0 THEN Read(None, next)
     ELSE f[<<next, deep>>]

BodyBehind(f, d, n, kind, depth) ==
  LET word == ReadVarint(d, n)
  IN IF kind \in {0, 2} /\ word.err # "" THEN word
     ELSE BodyWith(f, word.val, word.next, n, kind, depth)

Body(f, d, i, depth) ==
  LET tag == ReadVarint(d, i)
  IN IF i >= Len(d) THEN Failed("eof")
     ELSE IF tag.err # "" THEN tag
     ELSE BodyBehind(f, d, tag.next, tag.val % 8, depth)

\* What comes of a hop: an error, the end of the field, or what comes of the next.
Landed(f, hop) ==
  IF hop.err # "none" THEN Failed(hop.err)
  ELSE IF hop.deep = 0 THEN Read(None, hop.next)
  ELSE f[<<hop.next, hop.deep>>]

\* The body of SkipFrom and the turn agree where no varint is read ...
LEMMA BodyWithout ==
  ASSUME NEW f, NEW w, NEW m, NEW n \in Nat, NEW kind \in 0 .. 7, kind \notin {0, 2}, NEW depth \in Nat
  PROVE  BodyWith(f, w, m, n, kind, depth) = Landed(f, HopWith(w, m, n, kind, depth))
<1>1. \A e : e # "none" => Landed(f, Hopped(e, 0, 0)) = Failed(e)
  BY HoppedIs DEF Landed
<1>2. \A x, y : Landed(f, Hopped("none", x, y)) = IF y = 0 THEN Read(None, x) ELSE f[<<x, y>>]
  BY HoppedIs DEF Landed
<1>3. kind # 0 /\ kind # 2
  OBVIOUS
<1> QED
  BY <1>1, <1>2, <1>3 DEF BodyWith, HopWith

\* ... behind a tag ...
LEMMA BodyBehindIs ==
  ASSUME NEW f, NEW d \in Seq(Octet), NEW n \in Nat, NEW kind \in 0 .. 7, NEW depth \in Nat
  PROVE  BodyBehind(f, d, n, kind, depth) = Landed(f, HopBehind(d, n, kind, depth))
<1>0. Len(d) \in Nat
  BY LenProperties
<1>1. CASE kind \notin {0, 2}
  <2>1. PICK w : w = ReadVarint(d, n)
    OBVIOUS
  <2>2. BodyBehind(f, d, n, kind, depth) = BodyWith(f, w.val, w.next, n, kind, depth)
    BY <1>1, <2>1 DEF BodyBehind
  <2>3. HopBehind(d, n, kind, depth) = HopWith(w.val, w.next, n, kind, depth)
    BY <1>1, <2>1 DEF HopBehind
  <2> QED
    BY <1>1, <2>2, <2>3, BodyWithout
<1>2. ASSUME kind \in {0, 2}, NEW e \in {"eof", "overflow"}, ReadVarint(d, n) = Failed(e)
      PROVE  BodyBehind(f, d, n, kind, depth) = Landed(f, HopBehind(d, n, kind, depth))
  <2>1. Failed(e).err = e /\ e # "" /\ e # "none"
    BY Zenon DEF Failed
  <2>2. BodyBehind(f, d, n, kind, depth) = Failed(e)
    BY <1>2, <2>1, Zenon DEF BodyBehind
  <2>3. HopBehind(d, n, kind, depth) = Hopped(e, 0, 0)
    BY <1>2, <2>1, Zenon DEF HopBehind
  <2>4. Hopped(e, 0, 0).err = e
    BY HoppedIs
  <2> QED
    BY <2>1, <2>2, <2>3, <2>4, Zenon DEF Landed
<1>3. ASSUME NEW w \in 0 .. Words - 1, NEW m \in n + 1 .. Len(d), ReadVarint(d, n) = Read(w, m)
      PROVE  BodyBehind(f, d, n, kind, depth) = Landed(f, HopBehind(d, n, kind, depth))
  <2>1. Read(w, m).err = "" /\ Read(w, m).val = w /\ Read(w, m).next = m
    BY DEF Read
  <2>2. BodyBehind(f, d, n, kind, depth) = BodyWith(f, w, m, n, kind, depth)
    BY <1>3, <2>1, Zenon DEF BodyBehind
  <2>3. HopBehind(d, n, kind, depth) = HopWith(w, m, n, kind, depth)
    BY <1>3, <2>1, Zenon DEF HopBehind
  <2>4. w \in Nat /\ m \in Nat
    BY <1>0, WordIs
  <2>5. BodyWith(f, w, m, n, kind, depth) = Landed(f, HopWith(w, m, n, kind, depth))
    <3>1. \A e : e # "none" => Landed(f, Hopped(e, 0, 0)) = Failed(e)
      BY HoppedIs DEF Landed
    <3>2. \A x, y : Landed(f, Hopped("none", x, y)) = IF y = 0 THEN Read(None, x) ELSE f[<<x, y>>]
      BY HoppedIs DEF Landed
    <3> QED
      BY <2>4, <3>1, <3>2 DEF BodyWith, HopWith
  <2> QED
    BY <2>2, <2>3, <2>5, Zenon
<1>4. \/ \E v \in 0 .. Words - 1, m \in n + 1 .. Len(d) : ReadVarint(d, n) = Read(v, m)
      \/ \E e \in {"eof", "overflow"} : ReadVarint(d, n) = Failed(e)
  BY ReadVarintType
<1>5. CASE \E e \in {"eof", "overflow"} : ReadVarint(d, n) = Failed(e)
  <2>1. PICK e \in {"eof", "overflow"} : ReadVarint(d, n) = Failed(e)
    BY <1>5
  <2> QED
    BY <2>1, <1>1, <1>2
<1>6. CASE \E v \in 0 .. Words - 1, m \in n + 1 .. Len(d) : ReadVarint(d, n) = Read(v, m)
  <2>1. PICK v \in 0 .. Words - 1, m \in n + 1 .. Len(d) : ReadVarint(d, n) = Read(v, m)
    BY <1>6
  <2> QED
    BY <2>1, <1>3
<1> QED
  BY <1>4, <1>5, <1>6

\* ... and from the start: SkipFrom is a turn and what follows it.
LEMMA BodyIs ==
  ASSUME NEW f, NEW d \in Seq(Octet), NEW i \in Nat, NEW depth \in Nat
  PROVE  Body(f, d, i, depth) = Landed(f, Hop(d, i, depth))
<1>0. Len(d) \in Nat
  BY LenProperties
<1>1. CASE i >= Len(d)
  <2>1. Body(f, d, i, depth) = Failed("eof") /\ Hop(d, i, depth) = Hopped("eof", 0, 0)
    BY <1>1 DEF Body, Hop
  <2>2. "eof" # "none"
    OBVIOUS
  <2> QED
    BY <2>1, <2>2, HoppedIs DEF Landed
<1>2. ASSUME ~(i >= Len(d)), NEW e \in {"eof", "overflow"}, ReadVarint(d, i) = Failed(e)
      PROVE  Body(f, d, i, depth) = Landed(f, Hop(d, i, depth))
  <2>1. Failed(e).err = e /\ e # "" /\ e # "none"
    BY Zenon DEF Failed
  <2>2. Body(f, d, i, depth) = Failed(e)
    BY <1>2, <2>1, Zenon DEF Body
  <2>3. Hop(d, i, depth) = Hopped(e, 0, 0)
    BY <1>2, <2>1, Zenon DEF Hop
  <2>4. Hopped(e, 0, 0).err = e
    BY HoppedIs
  <2> QED
    BY <2>1, <2>2, <2>3, <2>4, Zenon DEF Landed
<1>3. ASSUME ~(i >= Len(d)), NEW v \in 0 .. Words - 1, NEW n \in i + 1 .. Len(d), ReadVarint(d, i) = Read(v, n)
      PROVE  Body(f, d, i, depth) = Landed(f, Hop(d, i, depth))
  <2>1. Read(v, n).err = "" /\ Read(v, n).val = v /\ Read(v, n).next = n
    BY DEF Read
  <2>2. Body(f, d, i, depth) = BodyBehind(f, d, n, v % 8, depth)
    BY <1>3, <2>1, Zenon DEF Body
  <2>3. Hop(d, i, depth) = HopBehind(d, n, v % 8, depth)
    BY <1>3, <2>1, Zenon DEF Hop
  <2>4. n \in Nat
    BY <1>0
  <2>5. v \in Nat
    BY WordIs
  <2>6. v % 8 \in 0 .. 7
    BY <2>5
  <2>7. BodyBehind(f, d, n, v % 8, depth) = Landed(f, HopBehind(d, n, v % 8, depth))
    BY <2>4, <2>6, BodyBehindIs, ZenonT(30)
  <2> QED
    BY <2>2, <2>3, <2>7, Zenon
<1>4. \/ \E v \in 0 .. Words - 1, m \in i + 1 .. Len(d) : ReadVarint(d, i) = Read(v, m)
      \/ \E e \in {"eof", "overflow"} : ReadVarint(d, i) = Failed(e)
  BY ReadVarintType
<1>5. CASE ~(i >= Len(d)) /\ \E e \in {"eof", "overflow"} : ReadVarint(d, i) = Failed(e)
  <2>1. PICK e \in {"eof", "overflow"} : ReadVarint(d, i) = Failed(e)
    BY <1>5
  <2> QED
    BY <2>1, <1>2, <1>5
<1>6. CASE ~(i >= Len(d)) /\ \E v \in 0 .. Words - 1, m \in i + 1 .. Len(d) : ReadVarint(d, i) = Read(v, m)
  <2>1. PICK v \in 0 .. Words - 1, m \in i + 1 .. Len(d) : ReadVarint(d, i) = Read(v, m)
    BY <1>6
  <2> QED
    BY <2>1, <1>3, <1>6
<1> QED
  BY <1>1, <1>4, <1>5, <1>6

\* SkipFrom is the function its body describes ...
LEMMA SkipFromText ==
  ASSUME NEW d
  PROVE  SkipFrom(d) = CHOOSE f : f = [at \in Nat \X Nat |-> Body(f, d, at[1], at[2])]
  BY DEF SkipFrom, Body, BodyBehind, BodyWith

\* ... and there is one, as each turn goes further into the input.
LEMMA SkipFromIs ==
  ASSUME NEW d \in Seq(Octet)
  PROVE  \A i, depth \in Nat : SkipFrom(d)[<<i, depth>>] = Landed(SkipFrom(d), Hop(d, i, depth))
<1>0. Len(d) \in Nat
  BY LenProperties
<1>1. PICK D : D = Nat \X Nat
  OBVIOUS
<1>2. \A at \in D : at[1] \in Nat /\ at[2] \in Nat /\ at = <<at[1], at[2]>>
  BY <1>1
<1>3. \A i, depth \in Nat : <<i, depth>> \in D /\ <<i, depth>>[1] = i /\ <<i, depth>>[2] = depth
  BY <1>1
<1>4. PICK hop : hop = [at \in D |-> Hop(d, at[1], at[2])]
  OBVIOUS
<1>5. PICK T : T = {at \in D : hop[at].err # "none" \/ hop[at].deep = 0}
  OBVIOUS
<1>6. PICK S : S = {Failed(hop[at].err) : at \in D} \cup {Read(None, hop[at].next) : at \in D}
  OBVIOUS
<1>7. PICK b : b = [at \in D |-> IF hop[at].err # "none" THEN Failed(hop[at].err) ELSE Read(None, hop[at].next)]
  OBVIOUS
<1>8. PICK p : p = [at \in D |-> IF at \in T THEN at ELSE <<hop[at].next, hop[at].deep>>]
  OBVIOUS
<1>9. PICK h : h = [at \in D |-> [s \in S |-> s]]
  OBVIOUS
<1>10. PICK rank : rank = [at \in D |-> IF at[1] <= Len(d) THEN Len(d) - at[1] ELSE 0]
  OBVIOUS
<1>11. ASSUME NEW at \in D, at \notin T
       PROVE  /\ hop[at].next \in Nat /\ hop[at].deep \in Nat /\ hop[at].err = "none" /\ hop[at].deep # 0
              /\ at[1] < Len(d) /\ hop[at].next > at[1]
  <2>1. hop[at].err = "none" /\ hop[at].deep # 0
    BY <1>5, <1>11
  <2>2. PICK i \in Nat, depth \in Nat : i = at[1] /\ depth = at[2]
    BY <1>2
  <2>3. hop[at] = Hop(d, i, depth)
    BY <1>4, <2>2
  <2>4. ASSUME NEW e \in HopErrors PROVE Hop(d, i, depth) # Hopped(e, 0, 0)
    <3>1. Hopped(e, 0, 0).err = e /\ e # "none"
      BY HoppedIs DEF HopErrors
    <3> QED
      BY <2>1, <2>3, <3>1
  <2>5. PICK next \in Nat, deep \in Nat : Hop(d, i, depth) = Hopped("none", next, deep) /\ i < Len(d) /\ next > i
    BY <2>4, HopIs
  <2>6. Hopped("none", next, deep).next = next /\ Hopped("none", next, deep).deep = deep
    BY HoppedIs
  <2> QED
    BY <2>1, <2>2, <2>3, <2>5, <2>6
<1>12. rank \in [D -> Nat]
  BY <1>0, <1>2, <1>10
<1>13. b \in [D -> S]
  BY <1>6, <1>7
<1>14. p \in [D -> D]
  <2>1. ASSUME NEW at \in D PROVE (IF at \in T THEN at ELSE <<hop[at].next, hop[at].deep>>) \in D
    BY <1>3, <1>11
  <2> QED
    BY <1>8, <2>1
<1>15. h \in [D -> [S -> S]]
  BY <1>9
<1>16. ASSUME NEW at \in D \ T PROVE rank[p[at]] < rank[at]
  <2>1. PICK next \in Nat, deep \in Nat : next = hop[at].next /\ deep = hop[at].deep /\ at[1] < Len(d) /\ next > at[1]
    BY <1>11
  <2>2. p[at] = <<next, deep>> /\ <<next, deep>> \in D /\ <<next, deep>>[1] = next
    BY <1>3, <1>8, <2>1
  <2>3. rank[p[at]] = IF next <= Len(d) THEN Len(d) - next ELSE 0
    BY <1>10, <2>2
  <2>4. rank[at] = Len(d) - at[1] /\ at[1] \in Nat
    BY <1>0, <1>2, <1>10, <2>1
  <2> QED
    BY <1>0, <2>1, <2>3, <2>4
<1>17. PICK f \in [D -> S] : \A at \in D : Equation(f, T, b, p, h, at)
  BY <1>12, <1>13, <1>14, <1>15, <1>16, RecursionExists
<1>18. ASSUME NEW at \in D PROVE f[at] = Body(f, d, at[1], at[2])
  <2>1. Body(f, d, at[1], at[2]) = Landed(f, hop[at])
    BY <1>2, <1>4, BodyIs
  <2>2. CASE at \in T
    <3>1. f[at] = b[at]
      BY <1>17, <2>2 DEF Equation
    <3>2. hop[at].err # "none" \/ hop[at].deep = 0
      BY <1>5, <2>2
    <3> QED
      BY <1>7, <2>1, <3>1, <3>2 DEF Landed
  <2>3. CASE at \notin T
    <3>1. f[at] = h[at][f[p[at]]]
      BY <1>17, <2>3 DEF Equation
    <3>2. f[p[at]] \in S
      BY <1>14, <1>17
    <3>3. f[at] = f[p[at]]
      BY <1>9, <3>1, <3>2
    <3>4. p[at] = <<hop[at].next, hop[at].deep>>
      BY <1>8, <2>3
    <3> QED
      BY <1>11, <2>1, <2>3, <3>3, <3>4 DEF Landed
  <2> QED
    BY <2>2, <2>3
<1>19. f = [at \in D |-> Body(f, d, at[1], at[2])]
  BY <1>17, <1>18
<1>20. SkipFrom(d) = [at \in D |-> Body(SkipFrom(d), d, at[1], at[2])]
  <2>1. \E g : g = [at \in D |-> Body(g, d, at[1], at[2])]
    BY <1>19
  <2>2. SkipFrom(d) = CHOOSE g : g = [at \in D |-> Body(g, d, at[1], at[2])]
    BY <1>1, SkipFromText
  <2> QED
    BY <2>1, <2>2
<1>21. ASSUME NEW i \in Nat, NEW depth \in Nat
       PROVE  SkipFrom(d)[<<i, depth>>] = Landed(SkipFrom(d), Hop(d, i, depth))
  <2>1. SkipFrom(d)[<<i, depth>>] = Body(SkipFrom(d), d, i, depth)
    BY <1>3, <1>20
  <2> QED
    BY <2>1, BodyIs
<1> QED
  BY <1>21, Zenon

\* What follows a turn that failed, one that ends the field, and one within a group.
LEMMA LandedIs ==
  /\ \A f, e : e # "none" => Landed(f, Hopped(e, 0, 0)) = Failed(e)
  /\ \A f, x, y : Landed(f, Hopped("none", x, y)) = IF y = 0 THEN Read(None, x) ELSE f[<<x, y>>]
  BY HoppedIs DEF Landed

\* What the skip of a field comes to.
Skips(d, i, depth) ==
  \/ \E e \in HopErrors : SkipFrom(d)[<<i, depth>>] = Failed(e)
  \/ \E n \in Nat : SkipFrom(d)[<<i, depth>>] = Read(None, n) /\ n > i

\* The end of a field is behind its start.
LEMMA SkipFromType ==
  ASSUME NEW d \in Seq(Octet)
  PROVE  \A i, depth \in Nat : Skips(d, i, depth)
<1>0. Len(d) \in Nat
  BY LenProperties
<1>10. PICK S : S = {k \in Nat : \A i, depth \in Nat : Len(d) <= i + k => Skips(d, i, depth)}
  OBVIOUS
<1>1. ASSUME NEW k \in Nat, \A j \in 0 .. k - 1 : j \in S PROVE k \in S
  <2>1. ASSUME NEW i \in Nat, NEW depth \in Nat, Len(d) <= i + k PROVE Skips(d, i, depth)
    <3>1. SkipFrom(d)[<<i, depth>>] = Landed(SkipFrom(d), Hop(d, i, depth))
      BY SkipFromIs
    <3>2. CASE \E e \in HopErrors : Hop(d, i, depth) = Hopped(e, 0, 0)
      <4>1. PICK e \in HopErrors : Hop(d, i, depth) = Hopped(e, 0, 0)
        BY <3>2
      <4>2. e # "none"
        BY DEF HopErrors
      <4>3. SkipFrom(d)[<<i, depth>>] = Failed(e)
        BY <3>1, <4>1, <4>2, LandedIs
      <4> QED
        BY <4>3 DEF Skips
    <3>3. ASSUME NEW next \in Nat, NEW deep \in Nat, Hop(d, i, depth) = Hopped("none", next, deep),
                 i < Len(d), next > i
          PROVE  Skips(d, i, depth)
      <4>1. SkipFrom(d)[<<i, depth>>] = IF deep = 0 THEN Read(None, next) ELSE SkipFrom(d)[<<next, deep>>]
        BY <3>1, <3>3, LandedIs
      <4>2. CASE deep = 0
        BY <3>3, <4>1, <4>2 DEF Skips
      <4>3. CASE deep # 0
        <5>1. k > 0
          BY <1>0, <2>1, <3>3
        <5>2. k - 1 \in S
          <6>1. k - 1 \in 0 .. k - 1
            BY <5>1
          <6> QED
            BY <1>1, <6>1
        <5>3. Len(d) <= next + (k - 1)
          BY <1>0, <2>1, <3>3
        <5>4. Skips(d, next, deep)
          BY <5>2, <5>3, <1>10
        <5>5. SkipFrom(d)[<<i, depth>>] = SkipFrom(d)[<<next, deep>>]
          BY <4>1, <4>3
        <5>6. CASE \E e \in HopErrors : SkipFrom(d)[<<next, deep>>] = Failed(e)
          BY <5>5, <5>6 DEF Skips
        <5>7. CASE \E n \in Nat : SkipFrom(d)[<<next, deep>>] = Read(None, n) /\ n > next
          <6>1. PICK n \in Nat : SkipFrom(d)[<<next, deep>>] = Read(None, n) /\ n > next
            BY <5>7
          <6>2. n > i
            BY <3>3, <6>1
          <6> QED
            BY <5>5, <6>1, <6>2 DEF Skips
        <5> QED
          BY <5>4, <5>6, <5>7 DEF Skips
      <4> QED
        BY <4>2, <4>3
    <3> QED
      BY <3>2, <3>3, HopIs
  <2> QED
    BY <2>1, <1>10
<1>2. Nat \subseteq S
  BY <1>1, Induction
<1>3. ASSUME NEW i \in Nat, NEW depth \in Nat PROVE Skips(d, i, depth)
  <2>1. Len(d) \in S
    BY <1>0, <1>2
  <2>2. Len(d) <= i + Len(d)
    BY <1>0
  <2> QED
    BY <1>10, <2>1, <2>2
<1> QED
  BY <1>3

\* A hop over what stands at the front of another input.
LEMMA HopsOverStands ==
  ASSUME NEW u \in Seq(Octet), NEW c \in Seq(Octet), Stands(u, c, 0), NEW i \in Nat, NEW depth \in Nat,
         NEW next, NEW deep, HopsOver(u, i, depth, next, deep)
  PROVE  HopsOver(c, i, depth, next, deep)
<1>0. Len(u) \in Nat /\ Len(c) \in Nat /\ Len(u) <= Len(c)
  BY LenProperties DEF Stands
<1>1. PICK v \in 0 .. Words - 1, n \in i + 1 .. Len(u) :
        ReadVarint(u, i) = Read(v, n) /\ HopsBehind(u, n, v % 8, depth, next, deep)
  BY DEF HopsOver
<1>2. i < Len(u)
  BY DEF HopsOver
<1>3. n \in Nat /\ n \in i + 1 .. Len(c) /\ i < Len(c)
  BY <1>0, <1>2
<1>4. ASSUME NEW j \in Nat, NEW w, NEW m \in Nat, ReadVarint(u, j) = Read(w, m) PROVE ReadVarint(c, j) = Read(w, m)
  <2>1. ReadVarint(c, 0 + j) = Read(w, 0 + m)
    BY <1>4, VarintStands
  <2>2. 0 + j = j /\ 0 + m = m
    OBVIOUS
  <2> QED
    BY <2>1, <2>2
<1>5. ReadVarint(c, i) = Read(v, n)
  BY <1>1, <1>3, <1>4
<1>6. PICK kind : kind = v % 8
  OBVIOUS
<1>7. HopsBehind(u, n, kind, depth, next, deep)
  BY <1>1, <1>6
<1>8. HopsBehind(c, n, kind, depth, next, deep)
  <2>1. CASE kind = 0
    <3>1. PICK w \in 0 .. Words - 1 : ReadVarint(u, n) = Read(w, next)
      BY <1>7, <2>1 DEF HopsBehind
    <3>2. \E x \in 0 .. Words - 1, m \in n + 1 .. Len(u) : ReadVarint(u, n) = Read(x, m)
      <4>1. Read(w, next) # Failed("eof") /\ Read(w, next) # Failed("overflow")
        BY Zenon DEF Failed, Read
      <4> QED
        BY <1>3, <3>1, <4>1, ReadVarintType
    <3>3. PICK x \in 0 .. Words - 1, m \in n + 1 .. Len(u) : ReadVarint(u, n) = Read(x, m)
      BY <3>2
    <3>4. m = next
      <4>1. Read(x, m).next = m /\ Read(w, next).next = next
        BY DEF Read
      <4> QED
        BY <3>1, <3>3, <4>1
    <3>5. next \in Nat
      BY <1>0, <1>3, <3>4
    <3>6. ReadVarint(c, n) = Read(w, next)
      BY <1>3, <1>4, <3>1, <3>5
    <3> QED
      BY <1>7, <2>1, <3>6 DEF HopsBehind
  <2>2. CASE kind = 2
    <3>1. PICK w \in 0 .. Words - 1, m \in n + 1 .. Len(u) :
            ~Negative(w) /\ ReadVarint(u, n) = Read(w, m) /\ next = m + w
      BY <1>7, <2>2 DEF HopsBehind
    <3>2. m \in Nat /\ m \in n + 1 .. Len(c)
      BY <1>0, <1>3
    <3>3. ReadVarint(c, n) = Read(w, m)
      BY <1>3, <1>4, <3>1, <3>2
    <3>4. ~Negative(next) /\ deep = depth
      BY <1>7, <2>2 DEF HopsBehind
    <3> QED
      BY <2>2, <3>1, <3>2, <3>3, <3>4 DEF HopsBehind
  <2>3. CASE kind \notin {0, 2}
    BY <1>7, <2>3 DEF HopsBehind
  <2> QED
    BY <2>1, <2>2, <2>3
<1> QED
  BY <1>3, <1>5, <1>6, <1>8 DEF HopsOver

\* The end of a field does not depend on what follows it.
LEMMA SkipFromStands ==
  ASSUME NEW u \in Seq(Octet), NEW c \in Seq(Octet), Stands(u, c, 0), NEW last
  PROVE  \A i, depth \in Nat :
           SkipFrom(u)[<<i, depth>>] = Read(None, last) => SkipFrom(c)[<<i, depth>>] = Read(None, last)
<1>0. Len(u) \in Nat
  BY LenProperties
<1> DEFINE P(i, depth) == SkipFrom(u)[<<i, depth>>] = Read(None, last) => SkipFrom(c)[<<i, depth>>] = Read(None, last)
<1>10. PICK S : S = {k \in Nat : \A i, depth \in Nat : Len(u) <= i + k => P(i, depth)}
  OBVIOUS
<1>1. ASSUME NEW k \in Nat, \A j \in 0 .. k - 1 : j \in S PROVE k \in S
  <2>1. ASSUME NEW i \in Nat, NEW depth \in Nat, Len(u) <= i + k, SkipFrom(u)[<<i, depth>>] = Read(None, last)
        PROVE  SkipFrom(c)[<<i, depth>>] = Read(None, last)
    <3>1. SkipFrom(u)[<<i, depth>>] = Landed(SkipFrom(u), Hop(u, i, depth))
      BY SkipFromIs
    <3>2. ASSUME NEW e \in HopErrors PROVE Hop(u, i, depth) # Hopped(e, 0, 0)
      <4>1. e # "none" /\ e # ""
        BY Zenon DEF HopErrors
      <4>2. Landed(SkipFrom(u), Hopped(e, 0, 0)) = Failed(e)
        BY <4>1, LandedIs, Zenon
      <4>3. Failed(e) # Read(None, last)
        BY <4>1, Zenon DEF Failed, Read
      <4> QED
        BY <2>1, <3>1, <4>2, <4>3
    <3>3. PICK next \in Nat, deep \in Nat :
            /\ Hop(u, i, depth) = Hopped("none", next, deep)
            /\ i < Len(u) /\ next > i /\ HopsOver(u, i, depth, next, deep)
      BY <3>2, HopIs
    <3>4. Hop(c, i, depth) = Hopped("none", next, deep)
      BY <3>3, HopsOverStands, HopFollows
    <3>5. SkipFrom(c)[<<i, depth>>] = Landed(SkipFrom(c), Hop(c, i, depth))
      BY SkipFromIs
    <3>6. SkipFrom(u)[<<i, depth>>] = IF deep = 0 THEN Read(None, next) ELSE SkipFrom(u)[<<next, deep>>]
      BY <3>1, <3>3, LandedIs
    <3>7. SkipFrom(c)[<<i, depth>>] = IF deep = 0 THEN Read(None, next) ELSE SkipFrom(c)[<<next, deep>>]
      BY <3>5, <3>4, LandedIs
    <3>8. CASE deep = 0
      BY <2>1, <3>6, <3>7, <3>8
    <3>9. CASE deep # 0
      <4>1. k > 0
        BY <1>0, <2>1, <3>3
      <4>2. k - 1 \in S
        <5>1. k - 1 \in 0 .. k - 1
          BY <4>1
        <5> QED
          BY <1>1, <5>1
      <4>3. Len(u) <= next + (k - 1)
        BY <1>0, <2>1, <3>3
      <4>4. P(next, deep)
        BY <4>2, <4>3, <1>10
      <4> QED
        BY <2>1, <3>6, <3>7, <3>9, <4>4
    <3> QED
      BY <3>8, <3>9
  <2> QED
    BY <2>1, <1>10
<1>2. Nat \subseteq S
  BY <1>1, Induction
<1>3. ASSUME NEW i \in Nat, NEW depth \in Nat PROVE P(i, depth)
  <2>1. Len(u) \in S
    BY <1>0, <1>2
  <2>2. Len(u) <= i + Len(u)
    BY <1>0
  <2> QED
    BY <1>10, <2>1, <2>2
<1> QED
  BY <1>3

\* The skip of an unknown field ends where the field ends, whatever follows it: groups,
\* texts and numbers (skipDfs, dfs.pb.go:5926-6003).
THEOREM SkipStands ==
  ASSUME NEW u \in Seq(Octet), NEW d \in Seq(Octet), NEW i, Fits(d), Stands(u, d, i), Skip(u, 0) = Read(None, Len(u))
  PROVE  Skip(d, i) = Read(None, i + Len(u))
<1>0. Len(u) \in Nat /\ Len(d) \in Nat /\ i \in Nat /\ i + Len(u) <= Len(d)
  BY StandsAt
<1>1. PICK c : c = SubSeq(d, i + 1, Len(d))
  OBVIOUS
<1>2. /\ c \in Seq(Octet) /\ Len(c) = Len(d) - i
      /\ \A k \in 1 .. Len(d) - i : c[k] = d[i + k]
  <2>1. CASE i < Len(d)
    BY <1>0, <1>1, <2>1, SubSeqProperties
  <2>2. CASE i = Len(d)
    <3>1. c = <<>>
      BY <1>0, <1>1, <2>2, SubSeqProperties
    <3> QED
      BY <1>0, <2>2, <3>1
  <2> QED
    BY <1>0, <2>1, <2>2
<1>3. Stands(u, c, 0)
  <2>1. 0 + Len(u) <= Len(c)
    BY <1>0, <1>2
  <2>2. ASSUME NEW k \in 1 .. Len(u) PROVE c[0 + k] = u[k]
    <3>1. k \in 1 .. Len(d) - i /\ 0 + k = k
      BY <1>0
    <3>2. d[i + k] = u[k]
      BY DEF Stands
    <3> QED
      BY <1>2, <3>1, <3>2
  <2> QED
    BY <2>1, <2>2 DEF Stands
<1>4. SubSeq(u, 0 + 1, Len(u)) = u
  <2>1. 0 + 1 = 1
    OBVIOUS
  <2> QED
    BY <2>1, SubSeqFull
<1>5. Skips(u, 0, 0)
  BY SkipFromType
<1>6. ASSUME NEW e \in HopErrors PROVE SkipFrom(u)[<<0, 0>>] # Failed(e)
  <2>1. SUFFICES ASSUME SkipFrom(u)[<<0, 0>>] = Failed(e) PROVE FALSE
    OBVIOUS
  <2>2. e # ""
    BY Zenon DEF HopErrors
  <2>3. Failed(e).err # ""
    BY <2>2, ReadIs, Zenon
  <2>4. Skip(u, 0) = Failed(e)
    BY <1>4, <2>1, <2>3, Zenon DEF Skip
  <2>5. Read(None, Len(u)).err = ""
    BY ReadIs, Zenon
  <2> QED
    BY <2>3, <2>4, <2>5, Zenon
<1>7. PICK n \in Nat : SkipFrom(u)[<<0, 0>>] = Read(None, n) /\ n > 0
  BY <1>5, <1>6 DEF Skips
<1>8. n = Len(u)
  <2>1. Read(None, n).err = "" /\ Read(None, n).next = n
    BY ReadIs, Zenon
  <2>2. Skip(u, 0) = IF Negative(0 + n) THEN Failed("length") ELSE IF 0 + n > Len(u) THEN Failed("eof") ELSE Read(None, 0 + n)
    BY <1>4, <1>7, <2>1, Zenon DEF Skip
  <2>3. Failed("length").err # "" /\ Failed("eof").err # "" /\ Read(None, Len(u)).err = ""
    BY Zenon DEF Failed, Read
  <2>4. Read(None, 0 + n) = Read(None, Len(u))
    BY <2>2, <2>3, Zenon
  <2>5. Read(None, Len(u)).next = Len(u) /\ Read(None, 0 + n).next = 0 + n
    BY ReadIs, Zenon
  <2> QED
    BY <2>4, <2>5
<1>9. SkipFrom(c)[<<0, 0>>] = Read(None, n)
  BY <1>2, <1>3, <1>7, SkipFromStands
<1>10. Read(None, n).err = "" /\ Read(None, n).next = n
  BY ReadIs, Zenon
<1>11. ~Negative(i + n)
  BY <1>0, <1>8, FitsIs, ShortIs
<1>12. ~(i + n > Len(d))
  BY <1>0, <1>8
<1> QED
  BY <1>1, <1>8, <1>9, <1>10, <1>11, <1>12, Zenon DEF Skip

\* What Skip returns lies within the input and behind its start: the loop of
\* Unmarshal ends.
LEMMA SkipType ==
  ASSUME NEW d \in Seq(Octet), NEW i \in 0 .. Len(d)
  PROVE  \/ \E n \in i + 1 .. Len(d) : Skip(d, i) = Read(None, n)
         \/ \E e \in HopErrors : Skip(d, i) = Failed(e)
<1>0. Len(d) \in Nat /\ i \in Nat /\ i <= Len(d)
  BY LenProperties
<1>1. PICK c : c = SubSeq(d, i + 1, Len(d))
  OBVIOUS
<1>2. c \in Seq(Octet)
  BY <1>0, <1>1, SubSeqProperties
<1>3. Skips(c, 0, 0)
  BY <1>2, SkipFromType
<1>4. CASE \E e \in HopErrors : SkipFrom(c)[<<0, 0>>] = Failed(e)
  <2>1. PICK e \in HopErrors : SkipFrom(c)[<<0, 0>>] = Failed(e)
    BY <1>4
  <2>2. e # ""
    BY Zenon DEF HopErrors
  <2>3. Failed(e).err # ""
    BY <2>2, ReadIs, Zenon
  <2>4. Skip(d, i) = Failed(e)
    BY <1>1, <2>1, <2>3, Zenon DEF Skip
  <2> QED
    BY <2>4
<1>5. ASSUME NEW n \in Nat, SkipFrom(c)[<<0, 0>>] = Read(None, n), n > 0
      PROVE  \/ \E x \in i + 1 .. Len(d) : Skip(d, i) = Read(None, x)
             \/ \E e \in HopErrors : Skip(d, i) = Failed(e)
  <2>1. Read(None, n).err = "" /\ Read(None, n).next = n
    BY ReadIs, Zenon
  <2>2. Skip(d, i) = IF Negative(i + n) THEN Failed("length") ELSE IF i + n > Len(d) THEN Failed("eof") ELSE Read(None, i + n)
    BY <1>1, <1>5, <2>1, Zenon DEF Skip
  <2>3. CASE Negative(i + n)
    BY <2>2, <2>3 DEF HopErrors
  <2>4. CASE ~Negative(i + n) /\ i + n > Len(d)
    BY <2>2, <2>4 DEF HopErrors
  <2>5. CASE ~Negative(i + n) /\ ~(i + n > Len(d))
    <3>1. i + n \in i + 1 .. Len(d)
      BY <1>0, <1>5, <2>5
    <3> QED
      BY <2>2, <2>5, <3>1
  <2> QED
    BY <2>3, <2>4, <2>5
<1> QED
  BY <1>3, <1>4, <1>5 DEF Skips

-----------------------------------------------------------------------------
(* The field at a position *)

Bad(e)             == [err |-> e, of |-> 0, raw |-> None, next |-> 0]
Item(of, raw, next) == [err |-> "", of |-> of, raw |-> raw, next |-> next]

\* What an item holds.
LEMMA ItemIs ==
  /\ \A k, p, n : Item(k, p, n).err = "" /\ Item(k, p, n).of = k /\ Item(k, p, n).raw = p /\ Item(k, p, n).next = n
  /\ \A e : Bad(e).err = e
  BY DEF Item, Bad

\* The field whose number is num, behind its tag.
FieldOf(fields, d, i, n, num, kind) ==
  LET hits == {k \in DOMAIN fields : fields[k].num = num}
      of   == IF hits = {} THEN 0 ELSE CHOOSE k \in hits : TRUE
      raw  == IF of = 0 THEN Skip(d, i)
              ELSE IF Delimited(fields[of]) THEN ReadDelimited(d, n)
              ELSE ReadVarint(d, n)
  IN IF kind = 4 THEN Bad("group")
     ELSE IF num = 0 \/ 2 * num >= Halves THEN Bad("tag")
     ELSE IF of # 0 /\ kind # WireType(fields[of]) THEN Bad("wiretype")
     ELSE IF raw.err # "" THEN Bad(raw.err)
     ELSE Item(of, raw.val, raw.next)

\* FieldAt, cut behind the tag.
LEMMA FieldAtIs ==
  ASSUME NEW fields, NEW d, NEW i
  PROVE  LET tag == ReadVarint(d, i)
         IN FieldAt(fields, d, i) =
              IF tag.err # "" THEN Bad(tag.err)
              ELSE FieldOf(fields, d, i, tag.next, (tag.val \div 8) % Halves, tag.val % 8)
  BY Zenon DEF FieldAt, FieldOf, Bad, Item

\* A field whose tag is there.
LEMMA FieldAtBehind ==
  ASSUME NEW fields, NEW d, NEW i, NEW v, NEW n, ReadVarint(d, i) = Read(v, n)
  PROVE  FieldAt(fields, d, i) = FieldOf(fields, d, i, n, (v \div 8) % Halves, v % 8)
<1>1. Read(v, n).err = "" /\ Read(v, n).val = v /\ Read(v, n).next = n
  BY ReadIs, Zenon
<1> QED
  BY <1>1, FieldAtIs, Zenon

\* A field whose tag is not.
LEMMA FieldAtFails ==
  ASSUME NEW fields, NEW d, NEW i, NEW e, e # "", ReadVarint(d, i) = Failed(e)
  PROVE  FieldAt(fields, d, i) = Bad(e)
<1>1. Failed(e).err = e
  BY ReadIs, Zenon
<1> QED
  BY <1>1, FieldAtIs, Zenon

\* What comes of the position of a field: an error, or a field that ends behind it.
Passes(fields, d, i) ==
  \/ \E e : e # "" /\ FieldAt(fields, d, i) = Bad(e)
  \/ \E k \in {0} \cup DOMAIN fields : \E p : \E n \in i + 1 .. Len(d) : FieldAt(fields, d, i) = Item(k, p, n)

\* The loop of Unmarshal goes further with each field, or stops with an error.
LEMMA FieldAtType ==
  ASSUME NEW fields, NEW d \in Seq(Octet), NEW i \in 0 .. Len(d)
  PROVE  Passes(fields, d, i)
<1>0. Len(d) \in Nat /\ i \in Nat
  BY LenProperties
<1>1. ASSUME NEW e, e # "", ReadVarint(d, i) = Failed(e) PROVE Passes(fields, d, i)
  BY <1>1, FieldAtFails, Zenon DEF Passes
<1>2. ASSUME NEW v \in 0 .. Words - 1, NEW n \in i + 1 .. Len(d), ReadVarint(d, i) = Read(v, n)
      PROVE  Passes(fields, d, i)
  <2>1. PICK num, kind : num = (v \div 8) % Halves /\ kind = v % 8
    OBVIOUS
  <2>2. FieldAt(fields, d, i) = FieldOf(fields, d, i, n, num, kind)
    BY <1>2, <2>1, FieldAtBehind
  <2>3. PICK hits : hits = {k \in DOMAIN fields : fields[k].num = num}
    OBVIOUS
  <2>4. PICK of : of = IF hits = {} THEN 0 ELSE CHOOSE k \in hits : TRUE
    OBVIOUS
  <2>5. of \in {0} \cup DOMAIN fields
    BY <2>3, <2>4
  <2>6. PICK raw : raw = IF of = 0 THEN Skip(d, i)
                         ELSE IF Delimited(fields[of]) THEN ReadDelimited(d, n)
                         ELSE ReadVarint(d, n)
    OBVIOUS
  <2>7. FieldAt(fields, d, i) =
          IF kind = 4 THEN Bad("group")
          ELSE IF num = 0 \/ 2 * num >= Halves THEN Bad("tag")
          ELSE IF of # 0 /\ kind # WireType(fields[of]) THEN Bad("wiretype")
          ELSE IF raw.err # "" THEN Bad(raw.err)
          ELSE Item(of, raw.val, raw.next)
    <3>1. FieldOf(fields, d, i, n, num, kind) =
          IF kind = 4 THEN Bad("group")
          ELSE IF num = 0 \/ 2 * num >= Halves THEN Bad("tag")
          ELSE IF of # 0 /\ kind # WireType(fields[of]) THEN Bad("wiretype")
          ELSE IF raw.err # "" THEN Bad(raw.err)
          ELSE Item(of, raw.val, raw.next)
      <4>1. of = IF {k \in DOMAIN fields : fields[k].num = num} = {} THEN 0 ELSE CHOOSE k \in {k \in DOMAIN fields : fields[k].num = num} : TRUE
        BY <2>3, <2>4
      <4> HIDE DEF Bad, Item
      <4> QED
        BY <4>1, <2>6 DEF FieldOf
    <3> QED
      BY <2>2, <3>1, Zenon
  <2>8. (\E p : \E m \in i + 1 .. Len(d) : raw = Read(p, m)) \/ raw.err # ""
    <3>1. n \in Nat
      BY <1>0
    <3>2. ASSUME NEW e, e # "", raw = Failed(e) PROVE raw.err # ""
      BY <3>2, ReadIs, Zenon
    <3>3. ASSUME NEW p, NEW m \in n + 1 .. Len(d), raw = Read(p, m) PROVE \E q : \E x \in i + 1 .. Len(d) : raw = Read(q, x)
      <4>1. m \in i + 1 .. Len(d)
        BY <1>0
      <4> QED
        BY <3>3, <4>1
    <3>4. CASE of = 0
      <4>1. raw = Skip(d, i)
        BY <2>6, <3>4
      <4>2. CASE \E e \in HopErrors : Skip(d, i) = Failed(e)
        <5>1. PICK e \in HopErrors : Skip(d, i) = Failed(e)
          BY <4>2
        <5>2. e # ""
          BY Zenon DEF HopErrors
        <5> QED
          BY <4>1, <5>1, <5>2, <3>2, Zenon
      <4> QED
        BY <4>1, <4>2, SkipType, Zenon
    <3>5. CASE of # 0 /\ Delimited(fields[of])
      <4>1. raw = ReadDelimited(d, n)
        BY <2>6, <3>5
      <4>2. \/ \E p : \E m \in n + 1 .. Len(d) : ReadDelimited(d, n) = Read(p, m)
            \/ \E e \in {"eof", "overflow", "length"} : ReadDelimited(d, n) = Failed(e)
        BY <3>1, ReadDelimitedType
      <4>3. CASE \E e \in {"eof", "overflow", "length"} : ReadDelimited(d, n) = Failed(e)
        <5>1. PICK e \in {"eof", "overflow", "length"} : ReadDelimited(d, n) = Failed(e)
          BY <4>3
        <5>2. e # ""
          BY Zenon
        <5> QED
          BY <4>1, <5>1, <5>2, <3>2, Zenon
      <4> QED
        BY <4>1, <4>2, <4>3, <3>3, Zenon
    <3>6. CASE of # 0 /\ ~Delimited(fields[of])
      <4>1. raw = ReadVarint(d, n)
        BY <2>6, <3>6
      <4>2. \/ \E p \in 0 .. Words - 1, m \in n + 1 .. Len(d) : ReadVarint(d, n) = Read(p, m)
            \/ \E e \in {"eof", "overflow"} : ReadVarint(d, n) = Failed(e)
        BY <3>1, ReadVarintType
      <4>3. CASE \E e \in {"eof", "overflow"} : ReadVarint(d, n) = Failed(e)
        <5>1. PICK e \in {"eof", "overflow"} : ReadVarint(d, n) = Failed(e)
          BY <4>3
        <5>2. e # ""
          BY Zenon
        <5> QED
          BY <4>1, <5>1, <5>2, <3>2, Zenon
      <4> QED
        BY <4>1, <4>2, <4>3, <3>3, Zenon
    <3> QED
      BY <3>4, <3>5, <3>6, Zenon
  <2>9. CASE raw.err # ""
    <3>1. \E e : e # "" /\ FieldAt(fields, d, i) = Bad(e)
      BY <2>7, <2>9, Zenon
    <3> QED
      BY <3>1, Zenon DEF Passes
  <2>10. ASSUME NEW p, NEW m \in i + 1 .. Len(d), raw = Read(p, m) PROVE Passes(fields, d, i)
    <3>1. raw.err = "" /\ raw.val = p /\ raw.next = m
      BY <2>10, ReadIs, Zenon
    <3>2. (\E e : e # "" /\ FieldAt(fields, d, i) = Bad(e)) \/ FieldAt(fields, d, i) = Item(of, p, m)
      <4>1. "group" # "" /\ "tag" # "" /\ "wiretype" # ""
        OBVIOUS
      <4> QED
        BY <2>7, <3>1, <4>1, Zenon
    <3> QED
      BY <2>5, <3>2, Zenon DEF Passes
  <2> QED
    BY <2>8, <2>9, <2>10, Zenon
<1>3. \/ \E v \in 0 .. Words - 1, n \in i + 1 .. Len(d) : ReadVarint(d, i) = Read(v, n)
      \/ \E e \in {"eof", "overflow"} : ReadVarint(d, i) = Failed(e)
  BY <1>0, ReadVarintType
<1>4. CASE \E e \in {"eof", "overflow"} : ReadVarint(d, i) = Failed(e)
  <2>1. PICK e \in {"eof", "overflow"} : ReadVarint(d, i) = Failed(e)
    BY <1>4
  <2>2. e # ""
    BY Zenon
  <2> QED
    BY <1>1, <2>1, <2>2, Zenon
<1> QED
  BY <1>2, <1>3, <1>4

\* The fields of a message have the numbers one to at most fifteen.
Numbered(fields) ==
  /\ DOMAIN fields \subseteq 1 .. 15
  /\ \A k \in DOMAIN fields : fields[k].num = k

\* What has been read, as the field k.
Got(k, raw) == IF raw.err # "" THEN Bad(raw.err) ELSE Item(k, raw.val, raw.next)

RawOf(f, d, n) == IF Delimited(f) THEN ReadDelimited(d, n) ELSE ReadVarint(d, n)

\* A number and a wire type of the message are those of one of its fields.
LEMMA FieldOfNumber ==
  ASSUME NEW fields, Numbered(fields), NEW k \in DOMAIN fields, NEW d, NEW i, NEW n
  PROVE  FieldOf(fields, d, i, n, k, WireType(fields[k])) = Got(k, RawOf(fields[k], d, n))
<1>1. k \in 1 .. 15 /\ k # 0
  BY DEF Numbered
<1>2. {j \in DOMAIN fields : fields[j].num = k} = {k}
  BY DEF Numbered
<1>3. (CHOOSE j \in {k} : TRUE) = k
  OBVIOUS
<1>4. WireType(fields[k]) # 4
  BY DEF WireType
<1>5. ~(k = 0 \/ 2 * k >= Halves)
  BY <1>1, WordsAre
<1> QED
  BY <1>1, <1>2, <1>3, <1>4, <1>5, Zenon DEF FieldOf, Got, RawOf

\* A tag is one byte, and holds its number and its wire type.
LEMMA TagIs ==
  ASSUME NEW k \in 1 .. 15, NEW t \in {0, 2}
  PROVE  /\ 8 * k + t \in 0 .. 127 /\ 8 * k + t \in 0 .. Words - 1 /\ 8 * k + t \in Octet
         /\ EncodeVarint[8 * k + t] = <<8 * k + t>>
         /\ ((8 * k + t) \div 8) % Halves = k /\ (8 * k + t) % 8 = t
<1>1. 8 * k + t \in 0 .. 127
  OBVIOUS
<1>2. Words \in Nat /\ Words >= 256 /\ Halves \in Nat /\ Halves >= 256
  BY WordsAre
<1>3. 8 * k + t \in 0 .. Words - 1
  BY <1>1, <1>2
<1>4. 8 * k + t \in Octet
  BY <1>1 DEF Octet
<1>5. EncodeVarint[8 * k + t] = <<8 * k + t>>
  <2>1. 8 * k + t \in Nat /\ 8 * k + t < 128
    BY <1>1
  <2> QED
    BY <2>1, EncodeVarintIs
<1>6. (8 * k + t) \div 8 = k /\ (8 * k + t) % 8 = t
  OBVIOUS
<1>7. k % Halves = k
  BY <1>2
<1> QED
  BY <1>1, <1>3, <1>4, <1>5, <1>6, <1>7

\* A tag of the message is read as the field it stands for.
LEMMA FieldIsAt ==
  ASSUME NEW fields, Numbered(fields), NEW k \in DOMAIN fields, NEW d \in Seq(Octet), NEW i \in Nat,
         Stands(<<8 * k + WireType(fields[k])>>, d, i)
  PROVE  FieldAt(fields, d, i) = Got(k, RawOf(fields[k], d, i + 1))
<1>1. k \in 1 .. 15
  BY DEF Numbered
<1>2. PICK t \in {0, 2} : t = WireType(fields[k])
  BY DEF WireType
<1>3. PICK v : v = 8 * k + t
  OBVIOUS
<1>4. /\ v \in 0 .. Words - 1 /\ EncodeVarint[v] = <<v>> /\ (v \div 8) % Halves = k /\ v % 8 = t
  BY <1>1, <1>3, TagIs, ZenonT(30)
<1>5. ReadVarint(d, i) = Read(v, i + 1)
  <2>1. Stands(EncodeVarint[v], d, i)
    BY <1>2, <1>3, <1>4
  <2>2. ReadVarint(d, i) = Read(v, i + Len(EncodeVarint[v]))
    BY <1>4, <2>1, VarintIsRead
  <2>3. Len(EncodeVarint[v]) = 1
    BY <1>4
  <2> QED
    BY <2>2, <2>3
<1>6. PICK n : n = i + 1
  OBVIOUS
<1>7. FieldAt(fields, d, i) = FieldOf(fields, d, i, n, k, WireType(fields[k]))
  BY <1>2, <1>4, <1>5, <1>6, FieldAtBehind
<1> QED
  BY <1>6, <1>7, FieldOfNumber

\* What follows the tag of a field.
Behind(f, p) == IF Delimited(f) THEN EncodeVarint[Len(p)] \o p ELSE p

\* A value behind its tag is bytes, and its tag one of them.
LEMMA TaggedIs ==
  ASSUME NEW f, f.num \in 1 .. 15, NEW p \in Seq(Octet)
  PROVE  /\ Behind(f, p) \in Seq(Octet) /\ <<8 * f.num + WireType(f)>> \in Seq(Octet)
         /\ Tagged(f, p) = <<8 * f.num + WireType(f)>> \o Behind(f, p)
         /\ Tagged(f, p) \in Seq(Octet) /\ Len(Tagged(f, p)) = 1 + Len(Behind(f, p))
<1>1. WireType(f) \in {0, 2}
  BY DEF WireType
<1>2. PICK o : o = 8 * f.num + WireType(f)
  OBVIOUS
<1>3. o \in Octet
  BY <1>1, <1>2, TagIs
<1>4. <<o>> \in Seq(Octet)
  BY <1>3
<1>5. PICK l : l = EncodeVarint[Len(p)]
  OBVIOUS
<1>6. l \in Seq(Octet)
  <2>1. Len(p) \in Nat
    BY LenProperties
  <2> QED
    BY <1>5, <2>1, EncodeVarintIs
<1>7. <<>> \in Seq(Octet)
  OBVIOUS
<1>8. CASE Delimited(f)
  <2>1. Tagged(f, p) = (<<o>> \o l) \o p
    BY <1>2, <1>5, <1>8 DEF Tagged
  <2>2. Behind(f, p) = l \o p
    BY <1>5, <1>8 DEF Behind
  <2>3. l \o p \in Seq(Octet) /\ (<<o>> \o l) \o p = <<o>> \o (l \o p)
    BY <1>4, <1>6, ConcatProperties, ConcatAssociative
  <2>4. <<o>> \o (l \o p) \in Seq(Octet) /\ Len(<<o>> \o (l \o p)) = 1 + Len(l \o p)
    BY <1>4, <2>3, ConcatProperties
  <2> QED
    BY <1>2, <1>4, <2>1, <2>2, <2>3, <2>4
<1>9. CASE ~Delimited(f)
  <2>1. Tagged(f, p) = (<<o>> \o <<>>) \o p
    BY <1>2, <1>9 DEF Tagged
  <2>2. Behind(f, p) = p
    BY <1>9 DEF Behind
  <2>3. <<o>> \o <<>> = <<o>>
    BY <1>4, ConcatEmptySeq
  <2>4. <<o>> \o p \in Seq(Octet) /\ Len(<<o>> \o p) = 1 + Len(p)
    BY <1>4, ConcatProperties
  <2> QED
    BY <1>2, <1>4, <2>1, <2>2, <2>3, <2>4
<1> QED
  BY <1>8, <1>9

\* What a field of a message is read as where it stands: its bytes or its word.
LEMMA DelimitedFieldIsRead ==
  ASSUME NEW fields, Numbered(fields), NEW k \in DOMAIN fields, Delimited(fields[k]), NEW p \in Seq(Octet),
         NEW d \in Seq(Octet), NEW i, Fits(d), Stands(Tagged(fields[k], p), d, i)
  PROVE  FieldAt(fields, d, i) = Item(k, p, i + Len(Tagged(fields[k], p)))
<1>1. PICK f : f = fields[k]
  OBVIOUS
<1>2. f.num = k /\ k \in 1 .. 15 /\ Delimited(f)
  BY <1>1 DEF Numbered
<1>3. PICK b : b = Behind(f, p)
  OBVIOUS
<1>4. PICK h : h = <<8 * f.num + WireType(f)>>
  OBVIOUS
<1>5. h \in Seq(Octet) /\ b \in Seq(Octet) /\ Tagged(f, p) = h \o b /\ Len(Tagged(f, p)) = 1 + Len(b) /\ Len(h) = 1
  BY <1>2, <1>3, <1>4, TaggedIs
<1>6. Stands(h, d, i) /\ i + 1 \in Nat /\ Stands(b, d, i + 1)
  <2>1. Stands(h \o b, d, i)
    BY <1>1, <1>5
  <2> QED
    BY <1>5, <2>1, StandsConcat
<1>7. i \in Nat
  BY <1>6 DEF Stands
<1>8. FieldAt(fields, d, i) = Got(k, RawOf(f, d, i + 1))
  <2>1. Stands(<<8 * k + WireType(fields[k])>>, d, i)
    BY <1>1, <1>2, <1>4, <1>6
  <2> QED
    BY <1>1, <1>7, <2>1, FieldIsAt
<1>9. RawOf(f, d, i + 1) = ReadDelimited(d, i + 1)
  BY <1>2 DEF RawOf
<1>10. b = EncodeVarint[Len(p)] \o p
  BY <1>2, <1>3 DEF Behind
<1>11. Len(p) \in Nat /\ EncodeVarint[Len(p)] \in Seq(Octet) /\ Len(EncodeVarint[Len(p)]) \in Nat
  <2>1. Len(p) \in Nat
    BY LenProperties
  <2>2. EncodeVarint[Len(p)] \in Seq(Octet)
    BY <2>1, EncodeVarintIs
  <2> QED
    BY <2>1, <2>2, LenProperties
<1>12. PICK n : n = i + 1 + Len(EncodeVarint[Len(p)]) + Len(p)
  OBVIOUS
<1>13. ReadDelimited(d, i + 1) = Read(p, n)
  BY <1>6, <1>10, <1>12, DelimitedIsRead
<1>14. n = i + Len(Tagged(f, p))
  <2>1. PICK a \in Nat, c \in Nat, t \in Nat : a = Len(EncodeVarint[Len(p)]) /\ c = Len(p) /\ t = Len(Tagged(f, p))
    BY <1>11
  <2>2. Len(b) = a + c
    BY <1>10, <1>11, <2>1, ConcatProperties
  <2>3. t = 1 + (a + c) /\ n = i + 1 + a + c
    BY <1>5, <1>12, <2>1, <2>2
  <2>4. n = i + t
    BY <1>7, <2>3
  <2> QED
    BY <2>1, <2>4
<1>15. Got(k, Read(p, n)) = Item(k, p, n)
  BY ReadIs, Zenon DEF Got
<1> QED
  BY <1>1, <1>8, <1>9, <1>13, <1>14, <1>15

\* The same for a field that is a varint.
LEMMA WordFieldIsRead ==
  ASSUME NEW fields, Numbered(fields), NEW k \in DOMAIN fields, ~Delimited(fields[k]), NEW w \in 0 .. Words - 1,
         NEW d \in Seq(Octet), NEW i, Stands(Tagged(fields[k], EncodeVarint[w]), d, i)
  PROVE  FieldAt(fields, d, i) = Item(k, w, i + Len(Tagged(fields[k], EncodeVarint[w])))
<1>1. PICK f : f = fields[k]
  OBVIOUS
<1>2. f.num = k /\ k \in 1 .. 15 /\ ~Delimited(f)
  BY <1>1 DEF Numbered
<1>3. PICK p : p = EncodeVarint[w]
  OBVIOUS
<1>4. p \in Seq(Octet) /\ Len(p) \in Nat
  BY <1>3, WordIs, LenProperties
<1>5. PICK h : h = <<8 * f.num + WireType(f)>>
  OBVIOUS
<1>6. h \in Seq(Octet) /\ Behind(f, p) = p /\ Tagged(f, p) = h \o p /\ Len(Tagged(f, p)) = 1 + Len(p) /\ Len(h) = 1
  BY <1>2, <1>4, <1>5, TaggedIs DEF Behind
<1>7. Stands(h, d, i) /\ i + 1 \in Nat /\ Stands(p, d, i + 1)
  <2>1. Stands(h \o p, d, i)
    BY <1>1, <1>3, <1>6
  <2> QED
    BY <1>4, <1>6, <2>1, StandsConcat
<1>8. i \in Nat
  BY <1>7 DEF Stands
<1>9. FieldAt(fields, d, i) = Got(k, RawOf(f, d, i + 1))
  <2>1. Stands(<<8 * k + WireType(fields[k])>>, d, i)
    BY <1>1, <1>2, <1>5, <1>7
  <2> QED
    BY <1>1, <1>8, <2>1, FieldIsAt
<1>10. PICK n : n = i + 1 + Len(p)
  OBVIOUS
<1>11. RawOf(f, d, i + 1) = Read(w, n)
  BY <1>2, <1>3, <1>7, <1>10, VarintIsRead DEF RawOf
<1>12. n = i + Len(Tagged(f, p))
  BY <1>4, <1>6, <1>8, <1>10
<1>13. Got(k, Read(w, n)) = Item(k, w, n)
  BY ReadIs, Zenon DEF Got
<1> QED
  BY <1>1, <1>3, <1>9, <1>11, <1>12, <1>13

\* A field that is cut is an error: the end of the input.
LEMMA FieldIsCut ==
  ASSUME NEW fields, Numbered(fields), NEW k \in DOMAIN fields, NEW p \in Seq(Octet),
         Delimited(fields[k]) \/ \E w \in 0 .. Words - 1 : p = EncodeVarint[w],
         NEW d \in Seq(Octet), NEW i, Begins(Tagged(fields[k], p), d, i), i < Len(d),
         Short(i + Len(Tagged(fields[k], p)))
  PROVE  FieldAt(fields, d, i) = Bad("eof")
<1>1. PICK f : f = fields[k]
  OBVIOUS
<1>2. f.num = k /\ k \in 1 .. 15
  BY <1>1 DEF Numbered
<1>3. PICK b : b = Behind(f, p)
  OBVIOUS
<1>4. PICK h : h = <<8 * f.num + WireType(f)>>
  OBVIOUS
<1>5. h \in Seq(Octet) /\ b \in Seq(Octet) /\ Tagged(f, p) = h \o b /\ Len(Tagged(f, p)) = 1 + Len(b) /\ Len(h) = 1
  BY <1>2, <1>3, <1>4, TaggedIs
<1>6. i \in Nat /\ Len(d) \in Nat
  BY LenProperties DEF Begins
<1>7. ~Begins(h, d, i)
  BY <1>5, <1>6 DEF Begins
<1>8. Stands(h, d, i) /\ i + 1 \in Nat /\ Begins(b, d, i + 1)
  <2>1. Begins(h \o b, d, i)
    BY <1>1, <1>5
  <2> QED
    BY <1>5, <1>7, <2>1, BeginsConcat
<1>9. FieldAt(fields, d, i) = Got(k, RawOf(f, d, i + 1))
  <2>1. Stands(<<8 * k + WireType(fields[k])>>, d, i)
    BY <1>1, <1>2, <1>4, <1>8
  <2> QED
    BY <1>1, <1>6, <2>1, FieldIsAt
<1>10. RawOf(f, d, i + 1) = Failed("eof")
  <2>1. CASE Delimited(f)
    <3>1. b = EncodeVarint[Len(p)] \o p
      BY <1>3, <2>1 DEF Behind
    <3>2. EncodeVarint[Len(p)] \in Seq(Octet) /\ Len(p) \in Nat /\ Len(EncodeVarint[Len(p)]) \in Nat
      <4>1. Len(p) \in Nat
        BY LenProperties
      <4>2. EncodeVarint[Len(p)] \in Seq(Octet)
        BY <4>1, EncodeVarintIs
      <4> QED
        BY <4>1, <4>2, LenProperties
    <3>3. i + Len(Tagged(f, p)) = i + 1 + Len(EncodeVarint[Len(p)]) + Len(p)
      <4>1. PICK a \in Nat, c \in Nat, t \in Nat : a = Len(EncodeVarint[Len(p)]) /\ c = Len(p) /\ t = Len(Tagged(f, p))
        BY <3>2, SMTT(30)
      <4>2. Len(b) = a + c
        BY <3>1, <3>2, <4>1, ConcatProperties
      <4>3. t = 1 + (a + c)
        BY <1>5, <4>1, <4>2
      <4>4. i + t = i + 1 + a + c
        BY <1>6, <4>3
      <4> QED
        BY <4>1, <4>4
    <3>4. PICK j : j = i + 1
      OBVIOUS
    <3>5. Short(j + Len(EncodeVarint[Len(p)]) + Len(p))
      BY <1>1, <3>3, <3>4
    <3>6. Begins(EncodeVarint[Len(p)] \o p, d, j)
      BY <1>8, <3>1, <3>4
    <3>7. ReadDelimited(d, j) = Failed("eof")
      BY <3>5, <3>6, DelimitedIsCut
    <3> QED
      BY <2>1, <3>4, <3>7 DEF RawOf
  <2>2. CASE ~Delimited(f)
    <3>1. PICK w \in 0 .. Words - 1 : p = EncodeVarint[w]
      BY <1>1, <2>2
    <3>2. b = p
      BY <1>3, <2>2 DEF Behind
    <3>3. PICK j : j = i + 1
      OBVIOUS
    <3>4. j \in 0 .. Len(d) /\ Len(d) < j + Len(p) /\ \A m \in 1 .. Len(d) - j : d[j + m] = p[m]
      BY <1>6, <1>8, <3>2, <3>3 DEF Begins
    <3>5. ReadVarint(d, j) = Failed("eof")
      BY <3>1, <3>4, VarintIsCut
    <3> QED
      BY <2>2, <3>3, <3>5 DEF RawOf
  <2> QED
    BY <2>1, <2>2
<1>11. Got(k, Failed("eof")) = Bad("eof")
  <2>1. Failed("eof").err = "eof"
    BY DEF Failed
  <2> QED
    BY <2>1, Zenon DEF Got
<1> QED
  BY <1>9, <1>10, <1>11

\* A field that no field of the message is.
Foreign(fields, u) ==
  /\ UnknownField(u)
  /\ \A k \in DOMAIN fields : fields[k].num # (ReadVarint(u, 0).val \div 8) % Halves

\* The tag of an unknown field is the same wherever the field stands.
LEMMA FirstStands ==
  ASSUME NEW u \in Seq(Octet), NEW d \in Seq(Octet), NEW i, Stands(u, d, i), NEW v, NEW n, ReadVarint(u, 0) = Read(v, n)
  PROVE  ReadVarint(d, i) = Read(v, i + n)
<1>1. i \in Nat
  BY DEF Stands
<1>2. PICK j \in Nat : j = 0
  OBVIOUS
<1>3. ReadVarint(u, j) = Read(v, n)
  BY <1>2
<1>4. ReadVarint(d, i + j) = Read(v, i + n)
  BY <1>1, <1>3, VarintStands
<1> QED
  BY <1>1, <1>2, <1>4

\* A field the message does not have is gone over, wherever it stands.
LEMMA ForeignIsRead ==
  ASSUME NEW fields, NEW u, Foreign(fields, u), NEW d \in Seq(Octet), NEW i, Fits(d), Stands(u, d, i)
  PROVE  FieldAt(fields, d, i) = Item(0, None, i + Len(u))
<1>1. /\ u \in Seq(Octet) /\ ReadVarint(u, 0).err = "" /\ ReadVarint(u, 0).val % 8 # 4
      /\ (ReadVarint(u, 0).val \div 8) % Halves # 0 /\ 2 * ((ReadVarint(u, 0).val \div 8) % Halves) < Halves
      /\ Skip(u, 0) = Read(None, Len(u))
  BY Zenon DEF Foreign, UnknownField
<1>2. PICK v \in 0 .. Words - 1, n \in 0 + 1 .. Len(u) : ReadVarint(u, 0) = Read(v, n)
  <2>1. Failed("eof").err # "" /\ Failed("overflow").err # ""
    BY DEF Failed
  <2> QED
    BY <1>1, <2>1, ReadVarintType, Zenon
<1>3. ReadVarint(u, 0).val = v
  BY <1>2, ReadIs, Zenon
<1>4. PICK num, kind : num = (v \div 8) % Halves /\ kind = v % 8
  OBVIOUS
<1>5. kind # 4 /\ num # 0 /\ 2 * num < Halves /\ \A k \in DOMAIN fields : fields[k].num # num
  BY <1>1, <1>3, <1>4, Zenon DEF Foreign
<1>6. ReadVarint(d, i) = Read(v, i + n)
  <2>1. u \in Seq(Octet)
    BY <1>1, Zenon
  <2>2. ReadVarint(u, 0) = Read(v, n)
    BY <1>2
  <2>3. \A x, y : ReadVarint(u, 0) = Read(x, y) => ReadVarint(d, i) = Read(x, i + y)
    BY <2>1, FirstStands
  <2> QED
    BY <2>2, <2>3, Zenon
<1>7. i \in Nat
  BY DEF Stands
<1>8. PICK m : m = i + n
  OBVIOUS
<1>9. FieldAt(fields, d, i) = FieldOf(fields, d, i, m, num, kind)
  BY <1>4, <1>6, <1>7, <1>8, FieldAtBehind
<1>10. {k \in DOMAIN fields : fields[k].num = num} = {}
  BY <1>5
<1>11. Skip(d, i) = Read(None, i + Len(u))
  BY <1>1, SkipStands, Zenon
<1>12. Skip(d, i).err = "" /\ Skip(d, i).val = None /\ Skip(d, i).next = i + Len(u)
  <2>1. PICK x : x = i + Len(u)
    OBVIOUS
  <2>2. Read(None, x).err = "" /\ Read(None, x).val = None /\ Read(None, x).next = x
    BY DEF Read
  <2> QED
    BY <1>11, <2>1, <2>2, Zenon
<1>13. ~(2 * num >= Halves)
  <2>1. v \in Nat /\ Halves \in Nat \ {0}
    BY WordIs, WordsAre
  <2>2. num \in Nat
    BY <1>4, <2>1
  <2> QED
    BY <1>5, <2>1, <2>2
<1>14. FieldOf(fields, d, i, m, num, kind) = Item(0, None, i + Len(u))
  BY <1>5, <1>10, <1>12, <1>13, Zenon DEF FieldOf
<1> QED
  BY <1>9, <1>14

-----------------------------------------------------------------------------
(* The loop of Unmarshal *)

\* What the loop goes through from each position.
From(fields, d) ==
  CHOOSE from : from = [i \in 0 .. Len(d) |->
    LET with(item) == IF item.err # "" THEN <<item>> ELSE <<item>> \o from[item.next]
    IN IF i = Len(d) THEN <<>> ELSE with(FieldAt(fields, d, i))]

\* Items is what the loop goes through from the start.
LEMMA ItemsAre == \A fields, d : Items(fields, d) = From(fields, d)[0]
  BY DEF Items, From

\* What there is from a position: the item there, and what there is from its end.
GoesOn(fields, d, S, i) ==
  /\ From(fields, d)[i] \in Seq(S)
  /\ i = Len(d) => From(fields, d)[i] = <<>>
  /\ i # Len(d) /\ FieldAt(fields, d, i).err # "" => From(fields, d)[i] = <<FieldAt(fields, d, i)>>
  /\ i # Len(d) /\ FieldAt(fields, d, i).err = "" =>
       /\ FieldAt(fields, d, i).next \in i + 1 .. Len(d)
       /\ FieldAt(fields, d, i) \in S
       /\ From(fields, d)[i] = <<FieldAt(fields, d, i)>> \o From(fields, d)[FieldAt(fields, d, i).next]

\* What the loop goes through from a position is the field there, and what it goes
\* through from the end of that field.
LEMMA FromIs ==
  ASSUME NEW fields, NEW d \in Seq(Octet)
  PROVE  \E S : \A i \in 0 .. Len(d) : GoesOn(fields, d, S, i)
<1>0. Len(d) \in Nat
  BY LenProperties
<1>1. PICK D : D = 0 .. Len(d)
  OBVIOUS
<1>2. PICK item : item = [i \in D |-> FieldAt(fields, d, i)]
  OBVIOUS
<1>3. ASSUME NEW i \in D, i # Len(d), item[i].err = "" PROVE item[i].next \in i + 1 .. Len(d)
  <2>1. item[i] = FieldAt(fields, d, i)
    BY <1>2
  <2>2. Passes(fields, d, i)
    BY <1>1, FieldAtType
  <2>3. CASE \E e : e # "" /\ FieldAt(fields, d, i) = Bad(e)
    <3>1. PICK e : e # "" /\ FieldAt(fields, d, i) = Bad(e)
      BY <2>3, Zenon
    <3> QED
      BY <1>3, <2>1, <3>1, ItemIs, Zenon
  <2>4. ASSUME NEW k, NEW p, NEW n \in i + 1 .. Len(d), FieldAt(fields, d, i) = Item(k, p, n)
        PROVE  item[i].next \in i + 1 .. Len(d)
    <3>1. Item(k, p, n).next = n
      BY DEF Item
    <3> QED
      BY <2>1, <2>4, <3>1
  <2> QED
    BY <2>2, <2>3, <2>4, Zenon DEF Passes
<1>4. PICK I : I = {item[i] : i \in D}
  OBVIOUS
<1>5. PICK S : S = Seq(I)
  OBVIOUS
<1>6. PICK T : T = {i \in D : i = Len(d) \/ item[i].err # ""}
  BY Zenon
<1>7. PICK b : b = [i \in D |-> IF i = Len(d) THEN <<>> ELSE <<item[i]>>]
  OBVIOUS
<1>8. PICK p : p = [i \in D |-> IF i \in T THEN i ELSE item[i].next]
  OBVIOUS
<1>9. PICK h : h = [i \in D |-> [s \in S |-> <<item[i]>> \o s]]
  OBVIOUS
<1>10. PICK rank : rank = [i \in D |-> Len(d) - i]
  OBVIOUS
<1>11. \A i \in D : item[i] \in I /\ <<item[i]>> \in Seq(I)
  BY <1>4
<1>12. rank \in [D -> Nat]
  <2>1. \A i \in D : Len(d) - i \in Nat
    BY <1>0, <1>1
  <2> QED
    BY <1>10, <2>1
<1>13. b \in [D -> S]
  BY <1>5, <1>7, <1>11
<1>14. \A i \in D \ T : item[i].next \in D /\ item[i].next > i /\ i \in Nat /\ item[i].next \in Nat
  <2>1. ASSUME NEW i \in D \ T PROVE item[i].next \in D /\ item[i].next > i /\ i \in Nat /\ item[i].next \in Nat
    <3>1. i # Len(d) /\ item[i].err = ""
      BY <1>6, Zenon
    <3>2. PICK x : x = item[i].next
      OBVIOUS
    <3>3. x \in i + 1 .. Len(d) /\ i \in 0 .. Len(d)
      BY <1>1, <1>3, <3>1, <3>2, Zenon
    <3>4. x \in 0 .. Len(d) /\ x > i /\ i \in Nat /\ x \in Nat
      BY <1>0, <3>3
    <3> QED
      BY <1>1, <3>2, <3>4
  <2> QED
    BY <2>1
<1>15. p \in [D -> D]
  BY <1>8, <1>14
<1>16. h \in [D -> [S -> S]]
  <2>1. \A i \in D : \A s \in S : <<item[i]>> \o s \in S
    BY <1>5, <1>11, ConcatProperties
  <2> QED
    BY <1>9, <2>1
<1>17. \A i \in D \ T : rank[p[i]] < rank[i]
  BY <1>0, <1>8, <1>10, <1>14
<1>18. PICK f \in [D -> S] : \A i \in D : Equation(f, T, b, p, h, i)
  BY <1>12, <1>13, <1>15, <1>16, <1>17, RecursionExists
<1>19. ASSUME NEW i \in D
       PROVE  f[i] = IF i = Len(d) THEN <<>> ELSE IF item[i].err # "" THEN <<item[i]>> ELSE <<item[i]>> \o f[item[i].next]
  <2>1. CASE i \in T
    <3>1. f[i] = b[i]
      BY <1>18, <2>1 DEF Equation
    <3> QED
      BY <1>6, <1>7, <2>1, <3>1, Zenon
  <2>2. CASE i \notin T
    <3>1. f[i] = h[i][f[p[i]]]
      BY <1>18, <2>2 DEF Equation
    <3>2. f[p[i]] \in S /\ p[i] = item[i].next
      BY <1>8, <1>15, <1>18, <2>2
    <3>3. f[i] = <<item[i]>> \o f[item[i].next]
      BY <1>9, <3>1, <3>2
    <3> QED
      BY <1>6, <2>2, <3>3, Zenon
  <2> QED
    BY <2>1, <2>2, Zenon
<1> DEFINE G(g) == [i \in 0 .. Len(d) |->
                     LET it == FieldAt(fields, d, i)
                     IN IF i = Len(d) THEN <<>>
                        ELSE IF it.err # "" THEN <<it>>
                        ELSE <<it>> \o g[it.next]]
<1>20. f = G(f)
  <2>1. f = [i \in D |-> IF i = Len(d) THEN <<>> ELSE IF item[i].err # "" THEN <<item[i]>> ELSE <<item[i]>> \o f[item[i].next]]
    BY <1>18, <1>19, Zenon
  <2> QED
    BY <1>1, <1>2, <2>1, Zenon
<1>21. From(fields, d) = CHOOSE g : g = G(g)
  BY DEF From
<1>22. From(fields, d) = G(From(fields, d))
  <2> HIDE DEF G
  <2>1. \E g : g = G(g)
    BY <1>20
  <2> QED
    BY <1>21, <2>1, Zenon
<1>23. PICK g : g = From(fields, d)
  OBVIOUS
<1>24. \A i \in D : g[i] = IF i = Len(d) THEN <<>> ELSE IF item[i].err # "" THEN <<item[i]>> ELSE <<item[i]>> \o g[item[i].next]
  BY <1>1, <1>2, <1>22, <1>23, Zenon
<1>25. \A i \in D : g[i] \in S
  <2>1. PICK R : R = {n \in Nat : n \in D => g[Len(d) - n] \in S}
    OBVIOUS
  <2>2. ASSUME NEW n \in Nat, \A j \in 0 .. n - 1 : j \in R PROVE n \in R
    <3>1. ASSUME n \in D PROVE g[Len(d) - n] \in S
      <4>1. PICK i : i = Len(d) - n
        OBVIOUS
      <4>2. i \in D /\ n \in 0 .. Len(d)
        BY <1>0, <1>1, <3>1, <4>1
      <4>3. CASE i \in T
        <5>1. g[i] = IF i = Len(d) THEN <<>> ELSE <<item[i]>>
          BY <1>6, <1>24, <4>2, <4>3, Zenon
        <5>2. <<>> \in S /\ <<item[i]>> \in S
          BY <1>5, <1>11, <4>2
        <5> QED
          BY <4>1, <5>1, <5>2
      <4>4. CASE i \notin T
        <5>1. PICK x : x = item[i].next
          OBVIOUS
        <5>2. x \in D /\ x > i /\ x \in 0 .. Len(d)
          BY <1>1, <1>14, <4>2, <4>4, <5>1
        <5>3. Len(d) - x \in 0 .. n - 1 /\ Len(d) - x \in D /\ Len(d) - (Len(d) - x) = x
          BY <1>0, <1>1, <4>1, <4>2, <5>2
        <5>4. g[x] \in S
          BY <2>1, <2>2, <5>3
        <5>5. g[i] = <<item[i]>> \o g[x]
          BY <1>6, <1>24, <4>2, <4>4, <5>1, Zenon
        <5>6. <<item[i]>> \o g[x] \in Seq(I)
          BY <1>5, <1>11, <4>2, <5>4, ConcatProperties
        <5> QED
          BY <1>5, <4>1, <5>5, <5>6
      <4> QED
        BY <4>3, <4>4
    <3> QED
      BY <2>1, <3>1
  <2>3. Nat \subseteq R
    BY <2>2, Induction
  <2>4. ASSUME NEW i \in D PROVE g[i] \in S
    <3>1. Len(d) - i \in Nat /\ Len(d) - i \in D /\ Len(d) - (Len(d) - i) = i
      BY <1>0, <1>1
    <3>2. Len(d) - i \in R
      BY <2>3, <3>1
    <3> QED
      BY <2>1, <3>1, <3>2
  <2> QED
    BY <2>4
<1>26. ASSUME NEW i \in 0 .. Len(d)
       PROVE  /\ g[i] \in Seq(I)
              /\ i = Len(d) => g[i] = <<>>
              /\ i # Len(d) /\ FieldAt(fields, d, i).err # "" => g[i] = <<FieldAt(fields, d, i)>>
              /\ i # Len(d) /\ FieldAt(fields, d, i).err = "" =>
                   /\ FieldAt(fields, d, i).next \in i + 1 .. Len(d)
                   /\ FieldAt(fields, d, i) \in I
                   /\ g[i] = <<FieldAt(fields, d, i)>> \o g[FieldAt(fields, d, i).next]
  <2>1. i \in D /\ item[i] = FieldAt(fields, d, i) /\ item[i] \in I
    BY <1>1, <1>2, <1>11
  <2>2. g[i] \in Seq(I)
    BY <1>5, <1>25, <2>1
  <2>3. i # Len(d) /\ item[i].err = "" => item[i].next \in i + 1 .. Len(d)
    BY <1>3, <2>1, Zenon
  <2> QED
    BY <1>24, <2>1, <2>2, <2>3, Zenon
<1> QED
  BY <1>23, <1>26, Zenon DEF GoesOn

-----------------------------------------------------------------------------
(* Levels: 1 for the messages that have none within, 3 for a message that is sent *)

WithinAt(l, fields, d, base) ==
  IF l = 1 THEN Failed("deep")
  ELSE IF l = 2 THEN LeafUnmarshal(fields, d, base)
  ELSE InnerUnmarshal(fields, d, base)

UnmarshalAt(l, fields, d, base) ==
  IF l = 1 THEN LeafUnmarshal(fields, d, base)
  ELSE IF l = 2 THEN InnerUnmarshal(fields, d, base)
  ELSE ReadFields(InnerUnmarshal, fields, d, base)

TurnAt(l, fields, r, item) ==
  Turn(fields, r, item, WithinAt(l, fields[item.of].fields, item.raw, Into(fields[item.of], r.val[item.of])))

\* The turns of the loop over items.
RunsTo(l, fields, items, base, N, run) ==
  run = [n \in 0 .. N |-> IF n = 0 THEN Read(base, 0) ELSE TurnAt(l, fields, run[n - 1], items[n])]

Runs(l, fields, items, base, run) == RunsTo(l, fields, items, base, Len(items), run)

\* What a level reads is the last value of a run of its loop, if there is one.
LEMMA UnmarshalChooses ==
  ASSUME NEW l \in 1 .. 3, NEW fields, NEW d, NEW base,
         \E run : Runs(l, fields, Items(fields, d), base, run)
  PROVE  \E run : /\ Runs(l, fields, Items(fields, d), base, run)
                  /\ UnmarshalAt(l, fields, d, base) = run[Len(Items(fields, d))]
<1>1. PICK items : items = Items(fields, d)
  OBVIOUS
<1> DEFINE Turned(r, item) ==
      Turn(fields, r, item,
           IF l = 1 THEN Failed("deep")
           ELSE IF l = 2 THEN LeafUnmarshal(fields[item.of].fields, item.raw, Into(fields[item.of], r.val[item.of]))
           ELSE InnerUnmarshal(fields[item.of].fields, item.raw, Into(fields[item.of], r.val[item.of])))
<1>2. \A r, item : Turned(r, item) = TurnAt(l, fields, r, item)
  BY DEF TurnAt, WithinAt
<1> DEFINE Fold(run) == [n \in 0 .. Len(items) |-> IF n = 0 THEN Read(base, 0) ELSE TurnAt(l, fields, run[n - 1], items[n])]
<1>3. PICK run : run = CHOOSE f : f = Fold(f)
  OBVIOUS
<1>4. run = Fold(run)
  <2>1. \E f : f = Fold(f)
    BY <1>1 DEF Runs, RunsTo
  <2> HIDE DEF Fold
  <2> QED
    BY <1>3, <2>1, Zenon
<1>5. Runs(l, fields, items, base, run)
  BY <1>4 DEF Runs, RunsTo
<1>6. UnmarshalAt(l, fields, d, base) = run[Len(items)]
  <2>1. CASE l = 1
    <3>1. UnmarshalAt(l, fields, d, base) = (CHOOSE f : f = [n \in 0 .. Len(items) |-> IF n = 0 THEN Read(base, 0) ELSE TurnAt(1, fields, f[n - 1], items[n])])[Len(items)]
      BY <1>1, <2>1 DEF UnmarshalAt, LeafUnmarshal, ReadFields, TurnAt, WithinAt
    <3> QED
      BY <1>3, <2>1, <3>1
  <2>2. CASE l = 2
    <3>1. UnmarshalAt(l, fields, d, base) = (CHOOSE f : f = [n \in 0 .. Len(items) |-> IF n = 0 THEN Read(base, 0) ELSE TurnAt(2, fields, f[n - 1], items[n])])[Len(items)]
      BY <1>1, <2>2 DEF UnmarshalAt, InnerUnmarshal, ReadFields, TurnAt, WithinAt
    <3> QED
      BY <1>3, <2>2, <3>1
  <2>3. CASE l = 3
    <3>1. UnmarshalAt(l, fields, d, base) = (CHOOSE f : f = [n \in 0 .. Len(items) |-> IF n = 0 THEN Read(base, 0) ELSE TurnAt(3, fields, f[n - 1], items[n])])[Len(items)]
      BY <1>1, <2>3 DEF UnmarshalAt, ReadFields, TurnAt, WithinAt
    <3> QED
      BY <1>3, <2>3, <3>1
  <2> QED
    BY <2>1, <2>2, <2>3
<1> QED
  BY <1>1, <1>5, <1>6

\* There is a run over any items.
LEMMA RunExists ==
  ASSUME NEW l, NEW fields, NEW items, NEW base
  PROVE  \A N \in Nat : \E run : RunsTo(l, fields, items, base, N, run)
<1> DEFINE G(N, run) == [n \in 0 .. N |-> IF n = 0 THEN Read(base, 0) ELSE TurnAt(l, fields, run[n - 1], items[n])]
<1>1. PICK S : S = {N \in Nat : \E run : run = G(N, run)}
  OBVIOUS
<1>2. ASSUME NEW N \in Nat, \A i \in 0 .. N - 1 : i \in S PROVE N \in S
  <2>1. CASE N = 0
    <3>1. PICK run : run = [n \in 0 .. 0 |-> Read(base, 0)]
      OBVIOUS
    <3>2. run = G(0, run)
      BY <3>1
    <3> QED
      BY <1>1, <2>1, <3>2
  <2>2. CASE N # 0
    <3>1. N - 1 \in 0 .. N - 1 /\ N - 1 \in Nat
      BY <2>2
    <3>2. PICK run : run = G(N - 1, run)
      BY <1>1, <1>2, <3>1
    <3>3. PICK longer : longer = [n \in 0 .. N |-> IF n = N THEN TurnAt(l, fields, run[N - 1], items[N]) ELSE run[n]]
      OBVIOUS
    <3>4. ASSUME NEW n \in 0 .. N
          PROVE  longer[n] = IF n = 0 THEN Read(base, 0) ELSE TurnAt(l, fields, longer[n - 1], items[n])
      <4>1. CASE n = N
        <5>1. N - 1 \in 0 .. N /\ N - 1 # N
          BY <2>2
        <5>2. longer[N - 1] = run[N - 1]
          BY <3>3, <5>1
        <5> QED
          BY <2>2, <3>3, <4>1, <5>2
      <4>2. CASE n # N
        <5>1. n \in 0 .. N - 1
          BY <4>2
        <5>2. longer[n] = run[n]
          BY <3>3, <4>2
        <5>3. run[n] = IF n = 0 THEN Read(base, 0) ELSE TurnAt(l, fields, run[n - 1], items[n])
          BY <3>2, <5>1
        <5>4. n # 0 => n - 1 \in 0 .. N /\ n - 1 # N
          BY <5>1
        <5>5. n # 0 => longer[n - 1] = run[n - 1]
          BY <3>3, <5>4
        <5> QED
          BY <5>2, <5>3, <5>5
      <4> QED
        BY <4>1, <4>2
    <3>5. longer = G(N, longer)
      BY <3>3, <3>4
    <3> QED
      BY <1>1, <3>5
  <2> QED
    BY <2>1, <2>2
<1>3. Nat \subseteq S
  BY <1>2, Induction
<1> QED
  BY <1>1, <1>3 DEF RunsTo

\* What the loop has read after each of its turns.
Run(l, fields, d, base) ==
  CHOOSE run : /\ Runs(l, fields, Items(fields, d), base, run)
               /\ UnmarshalAt(l, fields, d, base) = run[Len(Items(fields, d))]

\* A run of the loop of a level, turn by turn, and its result.
LEMMA RunIs ==
  ASSUME NEW l \in 1 .. 3, NEW fields, NEW d, Len(Items(fields, d)) \in Nat, NEW base
  PROVE  /\ Run(l, fields, d, base)[0] = Read(base, 0)
         /\ \A n \in 1 .. Len(Items(fields, d)) :
              Run(l, fields, d, base)[n] = TurnAt(l, fields, Run(l, fields, d, base)[n - 1], Items(fields, d)[n])
         /\ UnmarshalAt(l, fields, d, base) = Run(l, fields, d, base)[Len(Items(fields, d))]
<1>1. PICK items : items = Items(fields, d)
  OBVIOUS
<1>2. \E run : Runs(l, fields, items, base, run)
  BY <1>1, RunExists DEF Runs
<1>3. \E run : Runs(l, fields, items, base, run) /\ UnmarshalAt(l, fields, d, base) = run[Len(items)]
  BY <1>1, <1>2, UnmarshalChooses
<1>4. PICK run : run = Run(l, fields, d, base)
  OBVIOUS
<1>5. Runs(l, fields, items, base, run) /\ UnmarshalAt(l, fields, d, base) = run[Len(items)]
  BY <1>1, <1>3, <1>4, Zenon DEF Run
<1>6. run[0] = Read(base, 0)
  BY <1>1, <1>5 DEF Runs, RunsTo
<1>7. ASSUME NEW n \in 1 .. Len(items) PROVE run[n] = TurnAt(l, fields, run[n - 1], items[n])
  <2>1. n \in 0 .. Len(items) /\ n # 0
    BY <1>1
  <2> QED
    BY <1>5, <2>1 DEF Runs, RunsTo
<1> QED
  BY <1>1, <1>4, <1>5, <1>6, <1>7

\* The loop, begun with base, has come to position i with the message m.
Reached(l, fields, d, base, i, m) ==
  \E n \in Nat :
    /\ i \in 0 .. Len(d)
    /\ Run(l, fields, d, base)[n] = Read(m, i)
    /\ Len(Items(fields, d)) = n + Len(From(fields, d)[i])
    /\ \A k \in 1 .. Len(From(fields, d)[i]) : Items(fields, d)[n + k] = From(fields, d)[i][k]

\* The loop has finitely many turns.
LEMMA ItemsLength ==
  ASSUME NEW fields, NEW d \in Seq(Octet)
  PROVE  /\ Len(Items(fields, d)) \in Nat
         /\ \A i \in 0 .. Len(d) : Len(From(fields, d)[i]) \in Nat
<1>1. PICK S : \A i \in 0 .. Len(d) : From(fields, d)[i] \in Seq(S)
  BY FromIs, Zenon DEF GoesOn
<1>2. 0 \in 0 .. Len(d)
  BY LenProperties
<1> QED
  BY <1>1, <1>2, ItemsAre, LenProperties

\* The loop begins at the start, with the message it was given.
LEMMA ReachedFirst ==
  ASSUME NEW l \in 1 .. 3, NEW fields, NEW d \in Seq(Octet), NEW base
  PROVE  Reached(l, fields, d, base, 0, base)
<1>1. Run(l, fields, d, base)[0] = Read(base, 0)
  <2>1. Len(Items(fields, d)) \in Nat
    BY ItemsLength
  <2> QED
    BY <2>1, RunIs
<1>2. 0 \in 0 .. Len(d)
  BY LenProperties
<1>3. PICK s : s = From(fields, d)[0]
  OBVIOUS
<1>4. Items(fields, d) = s /\ Len(s) \in Nat
  BY <1>2, <1>3, ItemsAre, ItemsLength
<1>5. Len(s) = 0 + Len(s) /\ \A k \in 1 .. Len(s) : s[0 + k] = s[k]
  BY <1>4
<1> QED
  BY <1>1, <1>2, <1>3, <1>4, <1>5 DEF Reached

\* There is no field at the end of the input.
LEMMA ItemPasses ==
  ASSUME NEW fields, NEW d \in Seq(Octet), NEW i \in 0 .. Len(d), NEW k, NEW p, NEW x, FieldAt(fields, d, i) = Item(k, p, x)
  PROVE  i # Len(d)
<1>0. Len(d) \in Nat
  BY LenProperties
<1>1. SUFFICES ASSUME i = Len(d) PROVE FALSE
  OBVIOUS
<1>2. i + 1 .. Len(d) = {}
  BY <1>0, <1>1
<1>3. PICK e : e # "" /\ FieldAt(fields, d, i) = Bad(e)
  BY <1>2, FieldAtType, Zenon DEF Passes
<1>4. Item(k, p, x).err = "" /\ Bad(e).err = e
  BY Zenon DEF Item, Bad
<1> QED
  BY <1>3, <1>4, Zenon

\* A turn takes the loop on, behind the field that stands there.
LEMMA ReachedNext ==
  ASSUME NEW l \in 1 .. 3, NEW fields, NEW d \in Seq(Octet), NEW base, NEW i, NEW m, Reached(l, fields, d, base, i, m),
         NEW k, NEW p, NEW x, FieldAt(fields, d, i) = Item(k, p, x),
         NEW m2, TurnAt(l, fields, Read(m, i), Item(k, p, x)) = Read(m2, x)
  PROVE  Reached(l, fields, d, base, x, m2)
<1>0. Len(d) \in Nat
  BY LenProperties
<1>1. PICK items, s, run : items = Items(fields, d) /\ s = From(fields, d) /\ run = Run(l, fields, d, base)
  OBVIOUS
<1>2. PICK n \in Nat :
        /\ i \in 0 .. Len(d)
        /\ run[n] = Read(m, i)
        /\ Len(items) = n + Len(s[i])
        /\ \A j \in 1 .. Len(s[i]) : items[n + j] = s[i][j]
  BY <1>1 DEF Reached
<1>3. PICK item : item = Item(k, p, x)
  OBVIOUS
<1>4. FieldAt(fields, d, i) = item /\ item.err = "" /\ item.next = x
  BY <1>3, Zenon DEF Item
<1>5. PICK S : \A j \in 0 .. Len(d) : GoesOn(fields, d, S, j)
  BY FromIs
<1>6. x \in i + 1 .. Len(d) /\ item \in S /\ s[i] = <<item>> \o s[x]
  <2>1. i # Len(d)
    BY <1>0, <1>2, ItemPasses
  <2> QED
    BY <1>1, <1>2, <1>4, <1>5, <2>1, Zenon DEF GoesOn
<1>7. x \in 0 .. Len(d)
  BY <1>2, <1>6
<1>8. PICK t : t = s[x]
  OBVIOUS
<1>9. t \in Seq(S) /\ <<item>> \in Seq(S) /\ Len(t) \in Nat /\ s[i] = <<item>> \o t
  <2>1. t \in Seq(S)
    BY <1>1, <1>5, <1>7, <1>8, Zenon DEF GoesOn
  <2>2. <<item>> \in Seq(S)
    BY <1>6
  <2> QED
    BY <1>6, <1>8, <2>1, <2>2, LenProperties
<1>10. Len(s[i]) = 1 + Len(t) /\ s[i][1] = item /\ \A j \in 1 .. Len(t) : s[i][1 + j] = t[j]
  BY <1>9, ConcatProperties
<1>11. PICK n2 \in Nat : n2 = n + 1
  OBVIOUS
<1>12. Len(items) = n2 + Len(t)
  BY <1>2, <1>9, <1>10, <1>11
<1>13. items[n2] = item
  <2>1. 1 \in 1 .. Len(s[i])
    BY <1>9, <1>10
  <2> QED
    BY <1>2, <1>10, <1>11, <2>1
<1>14. ASSUME NEW j \in 1 .. Len(t) PROVE items[n2 + j] = t[j]
  <2>1. 1 + j \in 1 .. Len(s[i]) /\ n + (1 + j) = n2 + j
    BY <1>9, <1>10, <1>11
  <2>2. items[n + (1 + j)] = s[i][1 + j]
    BY <1>2, <2>1
  <2> QED
    BY <1>10, <2>1, <2>2
<1>15. run[n2] = Read(m2, x)
  <2>1. Len(items) \in Nat
    BY <1>9, <1>12
  <2>2. n2 \in 1 .. Len(items) /\ n2 - 1 = n
    BY <1>9, <1>11, <1>12
  <2>3. run[n2] = TurnAt(l, fields, run[n2 - 1], items[n2])
    BY <1>1, <2>1, <2>2, RunIs, SMTT(30)
  <2> QED
    BY <1>2, <1>3, <1>13, <2>2, <2>3
<1> QED
  BY <1>1, <1>7, <1>8, <1>12, <1>14, <1>15 DEF Reached

\* At the end of the input the loop returns what it has read.
LEMMA ReachedEnd ==
  ASSUME NEW l \in 1 .. 3, NEW fields, NEW d \in Seq(Octet), NEW base, NEW m, Reached(l, fields, d, base, Len(d), m)
  PROVE  UnmarshalAt(l, fields, d, base) = Read(m, Len(d))
<1>0. Len(d) \in Nat
  BY LenProperties
<1>1. PICK items, s, run : items = Items(fields, d) /\ s = From(fields, d) /\ run = Run(l, fields, d, base)
  OBVIOUS
<1>2. PICK n \in Nat : run[n] = Read(m, Len(d)) /\ Len(items) = n + Len(s[Len(d)])
  BY <1>1 DEF Reached
<1>3. Len(d) \in 0 .. Len(d)
  BY <1>0
<1>4. s[Len(d)] = <<>>
  BY <1>1, <1>3, FromIs, Zenon DEF GoesOn
<1>5. Len(items) = n
  BY <1>2, <1>4
<1> QED
  BY <1>1, <1>2, <1>5, RunIs

\* At a field that is cut the loop returns the error.
LEMMA ReachedCut ==
  ASSUME NEW l \in 1 .. 3, NEW fields, NEW d \in Seq(Octet), NEW base, NEW i, NEW m,
         Reached(l, fields, d, base, i, m), i # Len(d), FieldAt(fields, d, i) = Bad("eof")
  PROVE  UnmarshalAt(l, fields, d, base) = Failed("eof")
<1>0. Len(d) \in Nat
  BY LenProperties
<1>1. PICK items, s, run : items = Items(fields, d) /\ s = From(fields, d) /\ run = Run(l, fields, d, base)
  OBVIOUS
<1>2. PICK n \in Nat :
        /\ i \in 0 .. Len(d)
        /\ run[n] = Read(m, i)
        /\ Len(items) = n + Len(s[i])
        /\ \A j \in 1 .. Len(s[i]) : items[n + j] = s[i][j]
  BY <1>1 DEF Reached
<1>3. PICK item : item = Bad("eof")
  OBVIOUS
<1>4. FieldAt(fields, d, i) = item /\ item.err = "eof"
  BY <1>3 DEF Bad
<1>5. s[i] = <<item>>
  BY <1>1, <1>2, <1>4, FromIs, Zenon DEF GoesOn
<1>12. Len(<<item>>) = 1 /\ <<item>>[1] = item
  OBVIOUS
<1>6. Len(items) = n + 1 /\ items[n + 1] = item
  <2>1. Len(s[i]) = 1 /\ s[i][1] = item /\ 1 \in 1 .. Len(s[i])
    BY <1>5, <1>12
  <2> QED
    BY <1>2, <2>1
<1>7. PICK n2 \in Nat : n2 = n + 1
  OBVIOUS
<1>8. n2 \in 1 .. Len(items) /\ n2 - 1 = n /\ Len(items) \in Nat /\ Len(items) = n2
  BY <1>6, <1>7
<1>9. run[n2] = TurnAt(l, fields, run[n2 - 1], items[n2])
  BY <1>1, <1>8, RunIs
<1>10. run[n2] = TurnAt(l, fields, Read(m, i), item)
  BY <1>2, <1>6, <1>7, <1>8, <1>9
<1>11. TurnAt(l, fields, Read(m, i), item) = Failed("eof")
  <2>1. Read(m, i).err = ""
    BY DEF Read
  <2> QED
    BY <1>4, <2>1, Zenon DEF TurnAt, Turn
<1> QED
  BY <1>1, <1>8, <1>10, <1>11, RunIs

-----------------------------------------------------------------------------
(* Chunks one behind the other *)

\* F is what there is of P after each of its elements.
Joined(P, F) ==
  /\ F \in [0 .. Len(P) -> Seq(Octet)] /\ F[0] = <<>>
  /\ \A j \in 1 .. Len(P) : F[j] = F[j - 1] \o P[j]

\* Chunks are joined in one way.
LEMMA JoinedOnce ==
  ASSUME NEW P, Len(P) \in Nat, NEW F, Joined(P, F), NEW G, Joined(P, G)
  PROVE  \A n \in 0 .. Len(P) : F[n] = G[n]
<1>1. PICK S : S = {n \in Nat : n <= Len(P) => F[n] = G[n]}
  OBVIOUS
<1>2. ASSUME NEW n \in Nat, \A i \in 0 .. n - 1 : i \in S PROVE n \in S
  <2>1. CASE n = 0
    BY <1>1, <2>1 DEF Joined
  <2>2. CASE n # 0 /\ n <= Len(P)
    <3>1. n \in 1 .. Len(P) /\ n - 1 \in 0 .. n - 1 /\ n - 1 <= Len(P)
      BY <2>2
    <3>2. F[n - 1] = G[n - 1]
      BY <1>1, <1>2, <3>1
    <3>3. F[n] = F[n - 1] \o P[n] /\ G[n] = G[n - 1] \o P[n]
      BY <3>1 DEF Joined
    <3> QED
      BY <1>1, <3>2, <3>3
  <2>3. CASE ~(n <= Len(P))
    BY <1>1, <2>3
  <2> QED
    BY <2>1, <2>2, <2>3
<1>3. Nat \subseteq S
  BY <1>2, Induction
<1> QED
  BY <1>1, <1>3

\* Chunks can be joined.
LEMMA JoinedExists == ASSUME NEW P \in Seq(Seq(Octet)) PROVE \E F : Joined(P, F)
<1>0. Len(P) \in Nat /\ \A j \in 1 .. Len(P) : P[j] \in Seq(Octet)
  BY LenProperties, ElementOfSeq
<1>1. PICK D, S : D = 0 .. Len(P) /\ S = Seq(Octet)
  OBVIOUS
<1>2. PICK rank : rank = [i \in D |-> i]
  OBVIOUS
<1>3. PICK b : b = [i \in D |-> <<>>]
  OBVIOUS
<1>4. PICK p : p = [i \in D |-> IF i = 0 THEN 0 ELSE i - 1]
  OBVIOUS
<1>5. PICK h : h = [i \in D |-> [s \in S |-> IF i = 0 THEN s ELSE s \o P[i]]]
  OBVIOUS
<1>6. rank \in [D -> Nat]
  BY <1>0, <1>1, <1>2
<1>7. b \in [D -> S]
  BY <1>1, <1>3
<1>8. p \in [D -> D]
  <2>1. ASSUME NEW i \in D PROVE (IF i = 0 THEN 0 ELSE i - 1) \in D
    BY <1>0, <1>1
  <2> QED
    BY <1>4, <2>1
<1>9. h \in [D -> [S -> S]]
  <2>1. ASSUME NEW i \in D, NEW s \in S PROVE (IF i = 0 THEN s ELSE s \o P[i]) \in S
    <3>1. CASE i # 0
      <4>1. P[i] \in Seq(Octet)
        BY <1>0, <1>1, <3>1
      <4> QED
        BY <1>1, <3>1, <4>1, ConcatProperties
    <3> QED
      BY <3>1
  <2> QED
    BY <1>5, <2>1
<1>10. \A i \in D \ {0} : rank[p[i]] < rank[i]
  <2>1. ASSUME NEW i \in D \ {0} PROVE rank[p[i]] < rank[i]
    <3>1. i - 1 \in D /\ i \in Nat /\ i # 0
      BY <1>0, <1>1
    <3>2. p[i] = i - 1
      BY <1>4, <3>1
    <3> QED
      BY <1>2, <3>1, <3>2
  <2> QED
    BY <2>1
<1>11. PICK F \in [D -> S] : \A i \in D : Equation(F, {0}, b, p, h, i)
  BY <1>6, <1>7, <1>8, <1>9, <1>10, RecursionExists
<1>12. F[0] = <<>>
  <2>1. 0 \in D
    BY <1>0, <1>1
  <2> QED
    BY <1>3, <1>11, <2>1 DEF Equation
<1>13. ASSUME NEW j \in 1 .. Len(P) PROVE F[j] = F[j - 1] \o P[j]
  <2>1. j \in D /\ j # 0 /\ j - 1 \in D
    BY <1>0, <1>1
  <2>2. F[j] = h[j][F[p[j]]]
    BY <1>11, <2>1 DEF Equation
  <2>3. p[j] = j - 1 /\ F[j - 1] \in S
    BY <1>4, <1>11, <2>1
  <2>4. h[j][F[j - 1]] = F[j - 1] \o P[j]
    BY <1>5, <2>1, <2>3
  <2> QED
    BY <2>2, <2>3, <2>4
<1> QED
  BY <1>1, <1>11, <1>12, <1>13 DEF Joined

\* FlattenSeq joins chunks.
LEMMA FlattenIs ==
  ASSUME NEW P \in Seq(Seq(Octet)), NEW F, Joined(P, F)
  PROVE  FlattenSeq(P) = F[Len(P)] /\ FlattenSeq(P) \in Seq(Octet)
<1>0. Len(P) \in Nat /\ \A j \in 1 .. Len(P) : P[j] \in Seq(Octet)
  BY LenProperties, ElementOfSeq
<1>1. CASE Len(P) = 0
  <2>1. P = <<>>
    BY <1>1, EmptySeq
  <2> QED
    BY <1>1, <2>1 DEF FlattenSeq, Joined
<1>2. CASE Len(P) # 0
  <2> DEFINE G(f) == [i \in 1 .. Len(P) |-> IF i = 1 THEN P[i] ELSE f[i - 1] \o P[i]]
  <2>1. PICK g : g = [i \in 1 .. Len(P) |-> F[i]]
    OBVIOUS
  <2>2. ASSUME NEW i \in 1 .. Len(P) PROVE g[i] = IF i = 1 THEN P[i] ELSE g[i - 1] \o P[i]
    <3>1. F[i] = F[i - 1] \o P[i]
      BY DEF Joined
    <3>2. CASE i = 1
      <4>1. F[0] = <<>> /\ i - 1 = 0
        BY <3>2 DEF Joined
      <4>2. <<>> \o P[i] = P[i]
        BY <1>0, ConcatEmptySeq
      <4> QED
        BY <2>1, <3>1, <3>2, <4>1, <4>2
    <3>3. CASE i # 1
      <4>1. i - 1 \in 1 .. Len(P)
        BY <3>3
      <4> QED
        BY <2>1, <3>1, <3>3, <4>1
    <3> QED
      BY <3>2, <3>3
  <2>3. g = G(g)
    BY <2>1, <2>2
  <2>4. PICK f : f = CHOOSE x : x = G(x)
    OBVIOUS
  <2>5. f = G(f)
    <3> HIDE DEF G
    <3> QED
      BY <2>3, <2>4, Zenon
  <2>6. FlattenSeq(P) = f[Len(P)]
    BY <1>2, <2>4 DEF FlattenSeq
  <2>7. PICK S : S = {n \in Nat : n \in 1 .. Len(P) => f[n] = F[n]}
    OBVIOUS
  <2>8. ASSUME NEW n \in Nat, \A i \in 0 .. n - 1 : i \in S PROVE n \in S
    <3>1. ASSUME n \in 1 .. Len(P) PROVE f[n] = F[n]
      <4>1. f[n] = IF n = 1 THEN P[n] ELSE f[n - 1] \o P[n]
        BY <2>5, <3>1
      <4>2. g[n] = IF n = 1 THEN P[n] ELSE g[n - 1] \o P[n]
        BY <2>2, <3>1
      <4>3. n # 1 => n - 1 \in 0 .. n - 1 /\ n - 1 \in 1 .. Len(P)
        BY <3>1
      <4>4. n # 1 => f[n - 1] = F[n - 1] /\ g[n - 1] = F[n - 1]
        BY <2>1, <2>7, <2>8, <4>3
      <4>5. g[n] = F[n]
        BY <2>1, <3>1
      <4> QED
        BY <4>1, <4>2, <4>4, <4>5
    <3> QED
      BY <2>7, <3>1
  <2>9. Nat \subseteq S
    BY <2>8, Induction
  <2>10. f[Len(P)] = F[Len(P)]
    <3>1. Len(P) \in S /\ Len(P) \in 1 .. Len(P)
      BY <1>0, <1>2, <2>9
    <3> QED
      BY <2>7, <3>1
  <2>11. F[Len(P)] \in Seq(Octet)
    <3>1. Len(P) \in 0 .. Len(P)
      BY <1>0
    <3> QED
      BY <3>1 DEF Joined
  <2> QED
    BY <2>6, <2>10, <2>11
<1> QED
  BY <1>1, <1>2

\* Wherever the bytes c stand, the loop that comes to them with m goes on with m2.
Takes(l, fields, c, m, m2) ==
  \A d \in Seq(Octet) : \A i, base :
    Fits(d) /\ Stands(c, d, i) /\ Reached(l, fields, d, base, i, m) => Reached(l, fields, d, base, i + Len(c), m2)

\* No bytes take a message nowhere.
LEMMA TakesNothing == \A l, fields, m : Takes(l, fields, <<>>, m, m)
<1>1. ASSUME NEW l, NEW fields, NEW m, NEW d \in Seq(Octet), NEW i, NEW base, Stands(<<>>, d, i), Reached(l, fields, d, base, i, m)
      PROVE  Reached(l, fields, d, base, i + Len(<<>>), m)
  <2>1. i \in Nat
    BY <1>1 DEF Stands
  <2>2. i + Len(<<>>) = i
    BY <2>1
  <2> QED
    BY <1>1, <2>2
<1> QED
  BY <1>1 DEF Takes

\* What two stretches take, they take one behind the other.
LEMMA TakesBoth ==
  ASSUME NEW l, NEW fields, NEW a \in Seq(Octet), NEW b \in Seq(Octet), NEW m, NEW m1, NEW m2,
         Takes(l, fields, a, m, m1), Takes(l, fields, b, m1, m2)
  PROVE  Takes(l, fields, a \o b, m, m2)
<1>1. ASSUME NEW d \in Seq(Octet), NEW i, NEW base, Fits(d), Stands(a \o b, d, i), Reached(l, fields, d, base, i, m)
      PROVE  Reached(l, fields, d, base, i + Len(a \o b), m2)
  <2>1. Stands(a, d, i) /\ i + Len(a) \in Nat /\ Stands(b, d, i + Len(a))
    BY <1>1, StandsConcat
  <2>2. PICK j : j = i + Len(a)
    OBVIOUS
  <2>3. Reached(l, fields, d, base, j, m1)
    BY <1>1, <2>1, <2>2 DEF Takes
  <2>4. Reached(l, fields, d, base, j + Len(b), m2)
    BY <1>1, <2>1, <2>2, <2>3 DEF Takes
  <2>5. j + Len(b) = i + Len(a \o b)
    <3>1. i \in Nat
      BY <2>1 DEF Stands
    <3>2. Len(a \o b) = Len(a) + Len(b) /\ Len(a) \in Nat /\ Len(b) \in Nat
      BY ConcatProperties, LenProperties
    <3> QED
      BY <2>2, <3>1, <3>2
  <2> QED
    BY <2>4, <2>5
<1> QED
  BY <1>1 DEF Takes

\* What chunks take, they take joined: as far as any of them ...
LEMMA TakesJoined ==
  ASSUME NEW l, NEW fields, NEW P \in Seq(Seq(Octet)), NEW F, Joined(P, F), NEW M,
         \A j \in 1 .. Len(P) : Takes(l, fields, P[j], M[j - 1], M[j])
  PROVE  \A n \in 0 .. Len(P) : Takes(l, fields, F[n], M[0], M[n])
<1>0. Len(P) \in Nat /\ \A j \in 1 .. Len(P) : P[j] \in Seq(Octet)
  BY LenProperties, ElementOfSeq
<1>1. PICK S : S = {n \in Nat : n <= Len(P) => Takes(l, fields, F[n], M[0], M[n])}
  OBVIOUS
<1>2. ASSUME NEW n \in Nat, \A i \in 0 .. n - 1 : i \in S PROVE n \in S
  <2>1. CASE n = 0
    <3>1. F[0] = <<>>
      BY DEF Joined
    <3>2. Takes(l, fields, F[0], M[0], M[0])
      BY <3>1, TakesNothing
    <3> QED
      BY <1>1, <2>1, <3>2
  <2>2. CASE n # 0 /\ n <= Len(P)
    <3>1. n \in 1 .. Len(P) /\ n - 1 \in 0 .. n - 1 /\ n - 1 <= Len(P) /\ n - 1 \in 0 .. Len(P)
      BY <1>0, <2>2
    <3>2. Takes(l, fields, F[n - 1], M[0], M[n - 1])
      BY <1>1, <1>2, <3>1
    <3>3. F[n] = F[n - 1] \o P[n] /\ F[n - 1] \in Seq(Octet)
      BY <3>1 DEF Joined
    <3>4. P[n] \in Seq(Octet) /\ Takes(l, fields, P[n], M[n - 1], M[n])
      BY <1>0, <3>1
    <3>5. Takes(l, fields, F[n], M[0], M[n])
      BY <3>2, <3>3, <3>4, TakesBoth
    <3> QED
      BY <1>1, <3>5
  <2>3. CASE ~(n <= Len(P))
    BY <1>1, <2>3
  <2> QED
    BY <2>1, <2>2, <2>3
<1>3. Nat \subseteq S
  BY <1>2, Induction
<1> QED
  BY <1>0, <1>1, <1>3

\* ... and all of them.
LEMMA TakesAll ==
  ASSUME NEW l, NEW fields, NEW P \in Seq(Seq(Octet)), NEW M,
         \A j \in 1 .. Len(P) : Takes(l, fields, P[j], M[j - 1], M[j])
  PROVE  FlattenSeq(P) \in Seq(Octet) /\ Takes(l, fields, FlattenSeq(P), M[0], M[Len(P)])
<1>1. PICK F : Joined(P, F)
  BY JoinedExists
<1>2. FlattenSeq(P) = F[Len(P)] /\ FlattenSeq(P) \in Seq(Octet)
  BY <1>1, FlattenIs
<1>3. Len(P) \in 0 .. Len(P)
  BY LenProperties
<1>4. \A n \in 0 .. Len(P) : Takes(l, fields, F[n], M[0], M[n])
  BY <1>1, TakesJoined
<1> QED
  BY <1>2, <1>3, <1>4

\* What Takes is for: a message that a whole input takes.
LEMMA TakenIsRead ==
  ASSUME NEW l \in 1 .. 3, NEW fields, NEW d \in Seq(Octet), Fits(d), NEW base, NEW m, Takes(l, fields, d, base, m)
  PROVE  UnmarshalAt(l, fields, d, base) = Read(m, Len(d))
<1>0. Len(d) \in Nat
  BY LenProperties
<1>1. Reached(l, fields, d, base, 0, base)
  BY ReachedFirst
<1>2. Stands(d, d, 0)
  <2>1. \A k \in 1 .. Len(d) : 0 + k = k
    BY <1>0
  <2> QED
    BY <1>0, <2>1 DEF Stands
<1>3. Reached(l, fields, d, base, 0 + Len(d), m)
  BY <1>1, <1>2 DEF Takes
<1>4. 0 + Len(d) = Len(d)
  BY <1>0
<1> QED
  BY <1>3, <1>4, ReachedEnd

-----------------------------------------------------------------------------
(* Fields that a loop takes *)

\* What the value of a field is, its bytes or its word being raw.
ValueAt(l, f, raw, old) == Value(f, raw, old, WithinAt(l, f.fields, raw, Into(f, old)))

\* A field the message does not have leaves the message as it is.
LEMMA ForeignTakes ==
  ASSUME NEW l \in 1 .. 3, NEW fields, NEW u, Foreign(fields, u), NEW m
  PROVE  u \in Seq(Octet) /\ Takes(l, fields, u, m, m)
<1>1. u \in Seq(Octet)
  BY Zenon DEF Foreign, UnknownField
<1>2. ASSUME NEW d \in Seq(Octet), NEW i, NEW base, Fits(d), Stands(u, d, i), Reached(l, fields, d, base, i, m)
      PROVE  Reached(l, fields, d, base, i + Len(u), m)
  <2>1. PICK x : x = i + Len(u)
    OBVIOUS
  <2>2. FieldAt(fields, d, i) = Item(0, None, x)
    BY <1>2, <2>1, ForeignIsRead
  <2>3. TurnAt(l, fields, Read(m, i), Item(0, None, x)) = Read(m, x)
    <3>1. Read(m, i).err = "" /\ Read(m, i).val = m
      BY DEF Read
    <3>2. Item(0, None, x).err = "" /\ Item(0, None, x).of = 0 /\ Item(0, None, x).next = x
      BY DEF Item
    <3> QED
      BY <3>1, <3>2, Zenon DEF TurnAt, Turn
  <2> QED
    BY <1>2, <2>1, <2>2, <2>3, ReachedNext
<1> QED
  BY <1>1, <1>2 DEF Takes

\* A turn of the loop on a field whose value is read.
LEMMA TurnIs ==
  ASSUME NEW l, NEW fields, NEW m, NEW i, NEW k, k # 0, NEW raw, NEW x,
         NEW v, NEW y, ValueAt(l, fields[k], raw, m[k]) = Read(v, y)
  PROVE  TurnAt(l, fields, Read(m, i), Item(k, raw, x)) = Read(Assign(fields, m, k, v), x)
<1>1. PICK r : r = Read(m, i)
  OBVIOUS
<1>2. PICK item : item = Item(k, raw, x)
  OBVIOUS
<1>3. r.err = "" /\ r.val = m
  BY <1>1, Zenon DEF Read
<1>4. item.err = "" /\ item.of = k /\ item.raw = raw /\ item.next = x
  BY <1>2, Zenon DEF Item
<1>5. PICK within : within = WithinAt(l, fields[item.of].fields, item.raw, Into(fields[item.of], r.val[item.of]))
  OBVIOUS
<1>6. TurnAt(l, fields, r, item) = Turn(fields, r, item, within)
  BY <1>5 DEF TurnAt
<1>7. PICK val : val = Value(fields[item.of], item.raw, r.val[item.of], within)
  OBVIOUS
<1>8. val = Read(v, y)
  BY <1>3, <1>4, <1>5, <1>7, Zenon DEF ValueAt
<1>9. Read(v, y).err = "" /\ Read(v, y).val = v
  BY Zenon DEF Read
<1>10. Turn(fields, r, item, within) = Read(Assign(fields, r.val, item.of, val.val), item.next)
  BY <1>3, <1>4, <1>7, <1>8, <1>9, Zenon DEF Turn
<1> QED
  BY <1>1, <1>2, <1>3, <1>4, <1>6, <1>8, <1>9, <1>10, Zenon

\* A value within a slice whose length is an int has one too.
LEMMA FitsWithin ==
  ASSUME NEW f, f.num \in 1 .. 15, NEW p \in Seq(Octet), NEW d \in Seq(Octet), NEW i, Fits(d), Stands(Tagged(f, p), d, i)
  PROVE  Fits(p)
<1>1. PICK c : c = Tagged(f, p)
  OBVIOUS
<1>2. Len(p) \in Nat /\ c \in Seq(Octet) /\ Len(c) \in Nat /\ Len(p) <= Len(c)
  <2>1. Len(p) \in Nat /\ Behind(f, p) \in Seq(Octet) /\ c \in Seq(Octet) /\ Len(c) = 1 + Len(Behind(f, p))
    BY <1>1, TaggedIs, LenProperties
  <2>2. Len(Behind(f, p)) \in Nat /\ Len(Behind(f, p)) >= Len(p)
    <3>1. PICK e : e = EncodeVarint[Len(p)]
      OBVIOUS
    <3>2. e \in Seq(Octet) /\ Len(e) \in Nat
      BY <2>1, <3>1, EncodeVarintIs, LenProperties
    <3>3. Len(e \o p) = Len(e) + Len(p)
      BY <3>2, ConcatProperties
    <3>4. Behind(f, p) = e \o p \/ Behind(f, p) = p
      BY <3>1 DEF Behind
    <3> QED
      BY <2>1, <3>2, <3>3, <3>4
  <2> QED
    BY <2>1, <2>2, LenProperties
<1>3. i \in Nat /\ i + Len(c) <= Len(d) /\ Len(d) \in Nat
  BY <1>1, <1>2, LenProperties DEF Stands
<1>4. Short(Len(d))
  BY FitsIs
<1>5. Len(p) <= Len(d)
  BY <1>2, <1>3
<1> QED
  BY <1>2, <1>3, <1>4, <1>5, ShortIs, FitsIs

\* A value behind its length takes its field to what it is read as.
LEMMA DelimitedTakes ==
  ASSUME NEW l \in 1 .. 3, NEW fields, Numbered(fields), NEW k \in DOMAIN fields, Delimited(fields[k]),
         NEW p \in Seq(Octet), NEW m, NEW v, NEW y, Fits(p) => ValueAt(l, fields[k], p, m[k]) = Read(v, y)
  PROVE  Takes(l, fields, Tagged(fields[k], p), m, Assign(fields, m, k, v))
<1>1. fields[k].num \in 1 .. 15 /\ k # 0
  BY DEF Numbered
<1>2. PICK c : c = Tagged(fields[k], p)
  OBVIOUS
<1>3. ASSUME NEW d \in Seq(Octet), NEW i, NEW base, Fits(d), Stands(c, d, i), Reached(l, fields, d, base, i, m)
      PROVE  Reached(l, fields, d, base, i + Len(c), Assign(fields, m, k, v))
  <2>1. PICK x : x = i + Len(c)
    OBVIOUS
  <2>2. FieldAt(fields, d, i) = Item(k, p, x)
    BY <1>2, <1>3, <2>1, DelimitedFieldIsRead
  <2>3. Fits(p)
    BY <1>1, <1>2, <1>3, FitsWithin
  <2>4. TurnAt(l, fields, Read(m, i), Item(k, p, x)) = Read(Assign(fields, m, k, v), x)
    BY <1>1, <2>3, TurnIs
  <2> QED
    BY <1>3, <2>1, <2>2, <2>4, ReachedNext
<1> QED
  BY <1>2, <1>3 DEF Takes

\* A varint takes its field to what it is narrowed to.
LEMMA WordTakes ==
  ASSUME NEW l \in 1 .. 3, NEW fields, Numbered(fields), NEW k \in DOMAIN fields, ~Delimited(fields[k]),
         NEW w \in 0 .. Words - 1, NEW m
  PROVE  Takes(l, fields, Tagged(fields[k], EncodeVarint[w]), m, Assign(fields, m, k, Narrow(fields[k], w)))
<1>1. k # 0
  BY DEF Numbered
<1>2. PICK c : c = Tagged(fields[k], EncodeVarint[w])
  OBVIOUS
<1>3. PICK v : v = Narrow(fields[k], w)
  OBVIOUS
<1>4. ValueAt(l, fields[k], w, m[k]) = Read(v, 0)
  <2>1. fields[k].kind \notin {"bytes", "strings", "message", "messages", "oneof"}
    BY DEF Delimited
  <2>2. fields[k].kind # "bytes" /\ fields[k].kind # "strings" /\ fields[k].kind # "messages"
    BY <2>1
  <2>3. fields[k].kind \notin {"message", "oneof"}
    BY <2>1
  <2> QED
    BY <1>3, <2>2, <2>3, Zenon DEF ValueAt, Value
<1>5. ASSUME NEW d \in Seq(Octet), NEW i, NEW base, Fits(d), Stands(c, d, i), Reached(l, fields, d, base, i, m)
      PROVE  Reached(l, fields, d, base, i + Len(c), Assign(fields, m, k, v))
  <2>1. PICK x : x = i + Len(c)
    OBVIOUS
  <2>2. FieldAt(fields, d, i) = Item(k, w, x)
    BY <1>2, <1>5, <2>1, WordFieldIsRead
  <2>3. TurnAt(l, fields, Read(m, i), Item(k, w, x)) = Read(Assign(fields, m, k, v), x)
    BY <1>1, <1>4, TurnIs
  <2> QED
    BY <1>5, <2>1, <2>2, <2>3, ReachedNext
<1> QED
  BY <1>2, <1>3, <1>5 DEF Takes

-----------------------------------------------------------------------------
(* Messages and their fields, by level *)

Plain(f) == f.kind \in {"word", "half", "enum", "flag", "bytes", "strings"}
Nests(f) == f.kind \in {"message", "messages", "oneof"}

IsSeq(v) == \E S : v \in Seq(S)

\* A message's fields have the numbers one to at most fifteen, in that order.
Listed(fields) ==
  /\ IsSeq(fields) /\ Len(fields) <= 15
  /\ \A k \in DOMAIN fields : fields[k].num = k

Laid1(fields) == Listed(fields) /\ \A k \in DOMAIN fields : Plain(fields[k])
Laid2(fields) ==
  Listed(fields) /\ \A k \in DOMAIN fields : Plain(fields[k]) \/ (Nests(fields[k]) /\ Laid1(fields[k].fields))
Laid3(fields) ==
  Listed(fields) /\ \A k \in DOMAIN fields : Plain(fields[k]) \/ (Nests(fields[k]) /\ Laid2(fields[k].fields))

Laid(l, fields) == IF l = 1 THEN Laid1(fields) ELSE IF l = 2 THEN Laid2(fields) ELSE Laid3(fields)

\* The values of a field that holds no message.
Holds(f, v) ==
  /\ f.kind = "word" => v \in 0 .. Words - 1
  /\ f.kind \in {"half", "enum"} => v \in 0 .. Halves - 1
  /\ f.kind = "flag" => v \in BOOLEAN
  /\ f.kind = "bytes" => v \in Seq(Octet)
  /\ f.kind = "strings" => v \in Seq(Seq(Octet))

\* At most one case of a oneof is set.
Single(fields, m) ==
  \A j, k \in DOMAIN fields :
    fields[j].kind = "oneof" /\ fields[k].kind = "oneof" /\ m[j] # None /\ m[k] # None => j = k

Formed(fields, m) ==
  /\ DOMAIN m = DOMAIN fields /\ m = [k \in DOMAIN fields |-> m[k]]
  /\ Single(fields, m)
  /\ \A k \in DOMAIN fields : Holds(fields[k], m[k])

Sound1(fields, m) == Formed(fields, m)
Sound2(fields, m) ==
  /\ Formed(fields, m)
  /\ \A k \in DOMAIN fields :
       /\ fields[k].kind \in {"message", "oneof"} => m[k] = None \/ Sound1(fields[k].fields, m[k])
       /\ fields[k].kind = "messages" => IsSeq(m[k]) /\ \A i \in 1 .. Len(m[k]) : Sound1(fields[k].fields, m[k][i])
Sound3(fields, m) ==
  /\ Formed(fields, m)
  /\ \A k \in DOMAIN fields :
       /\ fields[k].kind \in {"message", "oneof"} => m[k] = None \/ Sound2(fields[k].fields, m[k])
       /\ fields[k].kind = "messages" => IsSeq(m[k]) /\ \A i \in 1 .. Len(m[k]) : Sound2(fields[k].fields, m[k][i])

Sound(l, fields, m) == IF l = 1 THEN Sound1(fields, m) ELSE IF l = 2 THEN Sound2(fields, m) ELSE Sound3(fields, m)

\* A field of a message of level l, and a value it may have.
Kept(l, f, v) ==
  /\ Holds(f, v)
  /\ Plain(f) \/ (l \in 2 .. 3 /\ Nests(f) /\ Laid(l - 1, f.fields))
  /\ f.kind \in {"message", "oneof"} => v = None \/ Sound(l - 1, f.fields, v)
  /\ f.kind = "messages" => IsSeq(v) /\ \A i \in 1 .. Len(v) : Sound(l - 1, f.fields, v[i])

\* A message of a level, and its fields.
LEMMA LaidIs ==
  ASSUME NEW l \in 1 .. 3, NEW fields, Laid(l, fields)
  PROVE  /\ Listed(fields) /\ Numbered(fields)
         /\ \A k \in DOMAIN fields : Plain(fields[k]) \/ (l \in 2 .. 3 /\ Nests(fields[k]) /\ Laid(l - 1, fields[k].fields))
<1>1. Listed(fields)
  BY DEF Laid, Laid1, Laid2, Laid3
<1>2. Numbered(fields)
  <2>1. PICK S : fields \in Seq(S)
    BY <1>1 DEF Listed, IsSeq
  <2>2. DOMAIN fields = 1 .. Len(fields) /\ Len(fields) \in Nat
    BY <2>1, LenProperties
  <2> QED
    BY <1>1, <2>2 DEF Listed, Numbered
<1>3. CASE l = 1
  BY <1>1, <1>2, <1>3 DEF Laid, Laid1
<1>4. CASE l = 2
  <2>1. \A x : Laid(l - 1, x) = Laid1(x)
    BY <1>4 DEF Laid
  <2> QED
    BY <1>1, <1>2, <1>4, <2>1 DEF Laid, Laid2
<1>5. CASE l = 3
  <2>1. \A x : Laid(l - 1, x) = Laid2(x)
    BY <1>5 DEF Laid
  <2> QED
    BY <1>1, <1>2, <1>5, <2>1 DEF Laid, Laid3
<1> QED
  BY <1>3, <1>4, <1>5

\* A message of a level, and its values.
LEMMA SoundIs ==
  ASSUME NEW l \in 1 .. 3, NEW fields, Laid(l, fields), NEW m, Sound(l, fields, m)
  PROVE  Formed(fields, m) /\ \A k \in DOMAIN fields : Kept(l, fields[k], m[k])
<1>1. Formed(fields, m)
  BY DEF Sound, Sound1, Sound2, Sound3
<1>2. ASSUME NEW k \in DOMAIN fields PROVE Kept(l, fields[k], m[k])
  <2>1. Holds(fields[k], m[k])
    BY <1>1 DEF Formed
  <2>2. Plain(fields[k]) \/ (l \in 2 .. 3 /\ Nests(fields[k]) /\ Laid(l - 1, fields[k].fields))
    BY LaidIs
  <2>3. CASE l = 1
    <3>1. Plain(fields[k])
      BY <2>2, <2>3
    <3>2. fields[k].kind \notin {"message", "oneof", "messages"}
      BY <3>1 DEF Plain
    <3> QED
      BY <2>1, <2>2, <3>2 DEF Kept
  <2>4. CASE l = 2
    <3>1. \A x, y : Sound(l - 1, x, y) = Sound1(x, y)
      BY <2>4 DEF Sound
    <3> QED
      BY <2>1, <2>2, <2>4, <3>1 DEF Kept, Sound, Sound2
  <2>5. CASE l = 3
    <3>1. \A x, y : Sound(l - 1, x, y) = Sound2(x, y)
      BY <2>5 DEF Sound
    <3> QED
      BY <2>1, <2>2, <2>5, <3>1 DEF Kept, Sound, Sound3
  <2> QED
    BY <2>3, <2>4, <2>5
<1> QED
  BY <1>1, <1>2

-----------------------------------------------------------------------------
(* Encoding, by level *)

EncodeAt(l, fields, m) ==
  IF l = 1 THEN LeafEncode(fields, m) ELSE IF l = 2 THEN InnerEncode(fields, m) ELSE Encode(fields, m)

\* The values of a field that are written.
Parts1(f, v) == Parts(LAMBDA g, x : <<>>, f, v)
Parts2(f, v) == Parts(LeafEncode, f, v)
Parts3(f, v) == Parts(InnerEncode, f, v)

PartsAt(l, f, v) == IF l = 1 THEN Parts1(f, v) ELSE IF l = 2 THEN Parts2(f, v) ELSE Parts3(f, v)

Tags(f, parts) == [i \in DOMAIN parts |-> Tagged(f, parts[i])]

EncodeFieldAt(l, f, v) == FlattenSeq(Tags(f, PartsAt(l, f, v)))

Chunk(l, fields, m) == [k \in DOMAIN fields |-> EncodeFieldAt(l, fields[k], m[k])]

\* A message is written field by field.
LEMMA EncodeAtIs ==
  ASSUME NEW l \in 1 .. 3, NEW fields, NEW m
  PROVE  EncodeAt(l, fields, m) = FlattenSeq(Chunk(l, fields, m))
<1>1. CASE l = 1
  <2>1. EncodeAt(l, fields, m) = LeafEncode(fields, m)
    BY <1>1 DEF EncodeAt
  <2>2. LeafEncode(fields, m) = FlattenSeq([k \in DOMAIN fields |-> FlattenSeq(Tags(fields[k], Parts1(fields[k], m[k])))])
    BY Zenon DEF LeafEncode, EncodeFields, EncodeField, Tags, Parts1
  <2>3. \A f, v : PartsAt(l, f, v) = Parts1(f, v)
    BY <1>1 DEF PartsAt
  <2>4. Chunk(l, fields, m) = [k \in DOMAIN fields |-> FlattenSeq(Tags(fields[k], Parts1(fields[k], m[k])))]
    BY <2>3 DEF Chunk, EncodeFieldAt
  <2> QED
    BY <2>1, <2>2, <2>4
<1>2. CASE l = 2
  <2>1. EncodeAt(l, fields, m) = InnerEncode(fields, m)
    BY <1>2 DEF EncodeAt
  <2>2. InnerEncode(fields, m) = FlattenSeq([k \in DOMAIN fields |-> FlattenSeq(Tags(fields[k], Parts2(fields[k], m[k])))])
    BY DEF InnerEncode, EncodeFields, EncodeField, Tags, Parts2
  <2>3. \A f, v : PartsAt(l, f, v) = Parts2(f, v)
    BY <1>2 DEF PartsAt
  <2>4. Chunk(l, fields, m) = [k \in DOMAIN fields |-> FlattenSeq(Tags(fields[k], Parts2(fields[k], m[k])))]
    BY <2>3 DEF Chunk, EncodeFieldAt
  <2> QED
    BY <2>1, <2>2, <2>4
<1>3. CASE l = 3
  <2>1. EncodeAt(l, fields, m) = Encode(fields, m)
    BY <1>3 DEF EncodeAt
  <2>2. Encode(fields, m) = FlattenSeq([k \in DOMAIN fields |-> FlattenSeq(Tags(fields[k], Parts3(fields[k], m[k])))])
    BY DEF Encode, EncodeFields, EncodeField, Tags, Parts3
  <2>3. \A f, v : PartsAt(l, f, v) = Parts3(f, v)
    BY <1>3 DEF PartsAt
  <2>4. Chunk(l, fields, m) = [k \in DOMAIN fields |-> FlattenSeq(Tags(fields[k], Parts3(fields[k], m[k])))]
    BY <2>3 DEF Chunk, EncodeFieldAt
  <2> QED
    BY <2>1, <2>2, <2>4
<1> QED
  BY <1>1, <1>2, <1>3

\* Of a zero nothing is written.
LEMMA PartsAtZero ==
  ASSUME NEW l, NEW f
  PROVE  PartsAt(l, f, Zero(f)) = <<>>
  BY DEF PartsAt, Parts1, Parts2, Parts3, Parts

\* What is written of a field that holds no message ...
LEMMA PartsOfPlain ==
  ASSUME NEW l, NEW f, NEW v, v # Zero(f)
  PROVE  /\ Numeric(f) => PartsAt(l, f, v) = <<EncodeVarint[Widen(f, v)]>>
         /\ f.kind = "flag" => PartsAt(l, f, v) = <<<<1>>>>
         /\ f.kind = "bytes" => PartsAt(l, f, v) = <<v>>
         /\ f.kind = "strings" => PartsAt(l, f, v) = v
<1>1. CASE Numeric(f)
  <2>1. f.kind # "flag" /\ f.kind # "bytes" /\ f.kind # "strings" /\ f.kind # "messages" /\ f.kind \notin {"message", "oneof"}
    BY <1>1 DEF Numeric
  <2>2. PartsAt(l, f, v) = <<EncodeVarint[Widen(f, v)]>>
    BY <1>1, <2>1, Zenon DEF PartsAt, Parts1, Parts2, Parts3, Parts
  <2> QED
    BY <2>1, <2>2
<1>2. CASE f.kind = "flag"
  <2>1. ~Numeric(f) /\ f.kind # "bytes" /\ f.kind # "strings" /\ f.kind # "messages" /\ f.kind \notin {"message", "oneof"}
    BY <1>2 DEF Numeric
  <2>2. PartsAt(l, f, v) = <<<<1>>>>
    BY <1>2, <2>1, Zenon DEF PartsAt, Parts1, Parts2, Parts3, Parts
  <2> QED
    BY <2>1, <2>2
<1>3. CASE f.kind = "bytes"
  <2>1. ~Numeric(f) /\ f.kind # "flag" /\ f.kind # "strings" /\ f.kind # "messages" /\ f.kind \notin {"message", "oneof"}
    BY <1>3 DEF Numeric
  <2>2. PartsAt(l, f, v) = <<v>>
    BY <1>3, <2>1, Zenon DEF PartsAt, Parts1, Parts2, Parts3, Parts
  <2> QED
    BY <2>1, <2>2
<1>4. CASE f.kind = "strings"
  <2>1. ~Numeric(f) /\ f.kind # "flag" /\ f.kind # "bytes" /\ f.kind # "messages" /\ f.kind \notin {"message", "oneof"}
    BY <1>4 DEF Numeric
  <2>2. PartsAt(l, f, v) = v
    BY <1>4, <2>1, Zenon DEF PartsAt, Parts1, Parts2, Parts3, Parts
  <2> QED
    BY <2>1, <2>2
<1> QED
  BY <1>1, <1>2, <1>3, <1>4

\* ... and of one that does.
LEMMA PartsOfNested ==
  ASSUME NEW l \in 2 .. 3, NEW f, NEW v, v # Zero(f)
  PROVE  /\ f.kind \in {"message", "oneof"} => PartsAt(l, f, v) = <<EncodeAt(l - 1, f.fields, v)>>
         /\ f.kind = "messages" => PartsAt(l, f, v) = [i \in DOMAIN v |-> EncodeAt(l - 1, f.fields, v[i])]
<1>1. ASSUME f.kind \in {"message", "oneof"} PROVE PartsAt(l, f, v) = <<EncodeAt(l - 1, f.fields, v)>>
  <2>1. ~Numeric(f) /\ f.kind # "flag" /\ f.kind # "bytes" /\ f.kind # "strings" /\ f.kind # "messages"
    BY <1>1 DEF Numeric
  <2>2. CASE l = 2
    <3>1. PartsAt(2, f, v) = <<EncodeAt(1, f.fields, v)>>
      <4>1. 2 # 1
        OBVIOUS
      <4> QED
        BY <1>1, <2>1, <4>1, Zenon DEF PartsAt, Parts1, Parts2, Parts3, Parts, EncodeAt
    <3>2. l - 1 = 1
      BY <2>2
    <3> QED
      BY <2>2, <3>1, <3>2
  <2>3. CASE l = 3
    <3>1. PartsAt(3, f, v) = <<EncodeAt(2, f.fields, v)>>
      <4>1. 2 # 1 /\ 3 # 1 /\ 3 # 2
        OBVIOUS
      <4> QED
        BY <1>1, <2>1, <4>1, Zenon DEF PartsAt, Parts1, Parts2, Parts3, Parts, EncodeAt
    <3>2. l - 1 = 2
      BY <2>3
    <3> QED
      BY <2>3, <3>1, <3>2
  <2> QED
    BY <2>2, <2>3
<1>2. ASSUME f.kind = "messages" PROVE PartsAt(l, f, v) = [i \in DOMAIN v |-> EncodeAt(l - 1, f.fields, v[i])]
  <2>1. ~Numeric(f) /\ f.kind # "flag" /\ f.kind # "bytes" /\ f.kind # "strings" /\ f.kind \notin {"message", "oneof"}
    BY <1>2 DEF Numeric
  <2>2. CASE l = 2
    <3>1. PartsAt(2, f, v) = [i \in DOMAIN v |-> LeafEncode(f.fields, v[i])]
      <4>1. 2 # 1
        OBVIOUS
      <4> QED
        BY <1>2, <2>1, <4>1, Zenon DEF PartsAt, Parts1, Parts2, Parts3, Parts
    <3>2. \A x, y : EncodeAt(l - 1, x, y) = LeafEncode(x, y)
      BY <2>2 DEF EncodeAt
    <3> QED
      BY <2>2, <3>1, <3>2
  <2>3. CASE l = 3
    <3>1. PartsAt(3, f, v) = [i \in DOMAIN v |-> InnerEncode(f.fields, v[i])]
      <4>1. 3 # 1 /\ 3 # 2
        OBVIOUS
      <4> QED
        BY <1>2, <2>1, <4>1, Zenon DEF PartsAt, Parts1, Parts2, Parts3, Parts
    <3>2. \A x, y : EncodeAt(l - 1, x, y) = InnerEncode(x, y)
      BY <2>3 DEF EncodeAt
    <3> QED
      BY <2>3, <3>1, <3>2
  <2> QED
    BY <2>2, <2>3
<1> QED
  BY <1>1, <1>2

-----------------------------------------------------------------------------
(* The value of a field, part by part *)

\* What a field has when j of its parts have been read.
SoFar(f, v, j) ==
  IF j = 0 THEN Zero(f) ELSE IF f.kind \in {"strings", "messages"} THEN SubSeq(v, 1, j) ELSE v

\* What a level reads is what it has written.
Decodes(l) ==
  \A fields, m : Laid(l, fields) /\ Sound(l, fields, m) =>
    /\ EncodeAt(l, fields, m) \in Seq(Octet)
    /\ Fits(EncodeAt(l, fields, m)) =>
         UnmarshalAt(l, fields, EncodeAt(l, fields, m), Empty(fields)) = Read(m, Len(EncodeAt(l, fields, m)))

\* The parts of a field are words, or add up to its value.
Adds(l, f, v, parts) ==
  /\ parts \in Seq(Seq(Octet)) /\ Len(parts) >= 1
  /\ SoFar(f, v, Len(parts)) = v
  /\ ~Delimited(f) => \E w \in 0 .. Words - 1 : parts = <<EncodeVarint[w]>> /\ Narrow(f, w) = v
  /\ Delimited(f) => \A j \in 1 .. Len(parts) :
       Fits(parts[j]) => \E y : ValueAt(l, f, parts[j], SoFar(f, v, j - 1)) = Read(SoFar(f, v, j), y)

\* The zeros, kind by kind.
LEMMA ZeroIs ==
  ASSUME NEW f
  PROVE  /\ Numeric(f) => Zero(f) = 0
         /\ f.kind = "flag" => Zero(f) = FALSE
         /\ f.kind \in {"bytes", "strings", "messages"} => Zero(f) = <<>>
         /\ f.kind \in {"message", "oneof"} => Zero(f) = None
<1>1. ASSUME Numeric(f) PROVE Zero(f) = 0
  <2>1. f.kind # "flag" /\ f.kind \notin {"bytes", "strings", "messages"} /\ f.kind \notin {"message", "oneof"}
    BY <1>1 DEF Numeric
  <2> QED
    BY <1>1, <2>1, Zenon DEF Zero
<1>2. ASSUME f.kind = "flag" PROVE Zero(f) = FALSE
  <2>1. ~Numeric(f) /\ f.kind \notin {"bytes", "strings", "messages"} /\ f.kind \notin {"message", "oneof"}
    BY <1>2 DEF Numeric
  <2> QED
    BY <1>2, <2>1, Zenon DEF Zero
<1>3. ASSUME f.kind \in {"bytes", "strings", "messages"} PROVE Zero(f) = <<>>
  <2>1. ~Numeric(f) /\ f.kind # "flag" /\ f.kind \notin {"message", "oneof"}
    BY <1>3 DEF Numeric
  <2> QED
    BY <1>3, <2>1, Zenon DEF Zero
<1>4. ASSUME f.kind \in {"message", "oneof"} PROVE Zero(f) = None
  <2>1. ~Numeric(f) /\ f.kind # "flag" /\ f.kind \notin {"bytes", "strings", "messages"}
    BY <1>4 DEF Numeric
  <2> QED
    BY <1>4, <2>1, Zenon DEF Zero
<1> QED
  BY <1>1, <1>2, <1>3, <1>4

\* A multiple of h more does not change what is left.
LEMMA ModuloIs == ASSUME NEW c \in Nat, NEW h \in Nat \ {0}, NEW v \in 0 .. h - 1 PROVE (v + c * h) % h = v
<1>1. PICK x : x = c * h
  OBVIOUS
<1>2. x \in Nat /\ x % h = 0
  <2>1. c * h \in Nat /\ (c * h) % h = 0
    OBVIOUS
  <2> QED
    BY <1>1, <2>1
<1>3. (v + x) % h = (v + (x % h)) % h
  BY <1>2
<1> QED
  BY <1>1, <1>2, <1>3

\* A number is a word when it is written, and itself again when it is read: a
\* negative int32 too.
LEMMA WidenIs ==
  ASSUME NEW f, Numeric(f), NEW v, Holds(f, v)
  PROVE  Widen(f, v) \in 0 .. Words - 1 /\ Narrow(f, Widen(f, v)) = v
<1>1. PICK c \in Nat \ {0} : Words = c * Halves
  BY WordsAre
<1>2. Halves \in Nat /\ Halves >= 256 /\ Words \in Nat /\ Words >= 256
  BY WordsAre
<1>3. Halves <= Words
  BY <1>1, <1>2
<1>4. PICK h : h = Halves
  OBVIOUS
<1>5. CASE f.kind = "word"
  <2>1. f.kind # "flag" /\ f.kind \notin {"half", "enum"} /\ f.kind # "enum"
    BY <1>5
  <2>2. Widen(f, v) = v /\ v \in 0 .. Words - 1
    BY <1>5, <2>1 DEF Widen, Holds
  <2>3. Narrow(f, v) = v
    BY <2>1, Zenon DEF Narrow
  <2> QED
    BY <2>2, <2>3
<1>6. CASE f.kind \in {"half", "enum"}
  <2>1. f.kind # "flag"
    BY <1>6
  <2>2. v \in 0 .. Halves - 1
    BY <1>6 DEF Holds
  <2>3. \A w : Narrow(f, w) = w % Halves
    BY <1>6, <2>1, Zenon DEF Narrow
  <2>4. CASE Widen(f, v) = v
    <3>1. v % Halves = v /\ v \in 0 .. Words - 1
      BY <1>2, <1>3, <2>2
    <3> QED
      BY <2>3, <2>4, <3>1
  <2>5. CASE Widen(f, v) # v
    <3>1. Widen(f, v) = v + Words - Halves
      BY <2>5 DEF Widen
    <3>2. PICK e \in Nat : c = e + 1
      <4>1. c - 1 \in Nat /\ c = (c - 1) + 1
        OBVIOUS
      <4> QED
        BY <4>1
    <3>3. Words = e * h + h
      BY <1>1, <1>2, <1>4, <3>2
    <3>4. v + Words - Halves = v + e * h
      <4>1. PICK x : x = e * h
        OBVIOUS
      <4>2. x \in Int
        BY <1>2, <1>4, <4>1
      <4> QED
        BY <1>2, <1>4, <2>2, <3>3, <4>1, <4>2
    <3>5. (v + e * h) % h = v
      BY <1>2, <1>4, <2>2, ModuloIs
    <3>6. v + Words - Halves \in 0 .. Words - 1
      BY <1>2, <1>3, <2>2
    <3> QED
      BY <1>4, <2>3, <3>1, <3>4, <3>5, <3>6
  <2> QED
    BY <2>4, <2>5
<1> QED
  BY <1>5, <1>6 DEF Numeric

\* A field that is written once adds what it is read as.
LEMMA OnePart ==
  ASSUME NEW l, NEW f, NEW v, f.kind \notin {"strings", "messages"}, NEW p \in Seq(Octet),
         ~Delimited(f) => \E w \in 0 .. Words - 1 : p = EncodeVarint[w] /\ Narrow(f, w) = v,
         Delimited(f) => (Fits(p) => \E y : ValueAt(l, f, p, Zero(f)) = Read(v, y))
  PROVE  Adds(l, f, v, <<p>>)
<1>1. PICK q : q = <<p>>
  OBVIOUS
<1>2. q \in Seq(Seq(Octet)) /\ Len(q) = 1 /\ q[1] = p
  BY <1>1
<1>3. SoFar(f, v, 1) = v /\ SoFar(f, v, 0) = Zero(f)
  BY DEF SoFar
<1>4. ASSUME Delimited(f), NEW j \in 1 .. 1, Fits(q[j])
      PROVE \E y : ValueAt(l, f, q[j], SoFar(f, v, j - 1)) = Read(SoFar(f, v, j), y)
  <2>1. j = 1 /\ j - 1 = 0 /\ q[j] = p
    BY <1>2
  <2>2. PICK y : ValueAt(l, f, p, Zero(f)) = Read(v, y)
    BY <1>4, <2>1
  <2> QED
    BY <1>3, <2>1, <2>2
<1>5. ~Delimited(f) => \E w \in 0 .. Words - 1 : q = <<EncodeVarint[w]>> /\ Narrow(f, w) = v
  BY <1>1
<1> QED
  BY <1>1, <1>2, <1>3, <1>4, <1>5 DEF Adds

\* A field that holds no message adds its value.
LEMMA PlainAdds ==
  ASSUME NEW l, NEW f, Plain(f), NEW v, Holds(f, v), v # Zero(f), f.kind # "strings"
  PROVE  Adds(l, f, v, PartsAt(l, f, v))
<1>1. CASE Numeric(f)
  <2>1. f.kind \notin {"strings", "messages"} /\ ~Delimited(f)
    BY <1>1 DEF Numeric, Delimited
  <2>2. PICK w : w = Widen(f, v)
    OBVIOUS
  <2>3. w \in 0 .. Words - 1 /\ Narrow(f, w) = v
    BY <1>1, <2>2, WidenIs
  <2>4. EncodeVarint[w] \in Seq(Octet)
    <3>1. w \in Nat
      BY <2>3
    <3> QED
      BY <3>1, EncodeVarintIs
  <2>5. PartsAt(l, f, v) = <<EncodeVarint[w]>>
    BY <1>1, <2>2, PartsOfPlain
  <2> QED
    BY <2>1, <2>3, <2>4, <2>5, OnePart
<1>2. CASE f.kind = "flag"
  <2>1. f.kind \notin {"strings", "messages"} /\ ~Delimited(f) /\ ~Numeric(f) /\ f.kind \notin {"half", "enum"}
    BY <1>2 DEF Numeric, Delimited
  <2>2. v = TRUE
    BY <1>2, ZeroIs DEF Holds
  <2>3. Narrow(f, 1) = (1 # 0)
    BY <1>2, <2>1, Zenon DEF Narrow
  <2>4. EncodeVarint[1] = <<1>> /\ 1 \in 0 .. Words - 1
    <3>1. EncodeVarint[1] = IF 1 < 128 THEN <<1>> ELSE <<128 + (1 % 128)>> \o EncodeVarint[1 \div 128]
      BY EncodeVarintIs
    <3>2. 1 \in 0 .. Words - 1
      BY WordsAre
    <3> QED
      BY <3>1, <3>2
  <2>5. EncodeVarint[1] \in Seq(Octet)
    BY EncodeVarintIs
  <2>6. PartsAt(l, f, v) = <<EncodeVarint[1]>>
    BY <1>2, <2>4, PartsOfPlain
  <2>7. Narrow(f, 1) = v
    <3>1. (1 # 0) = TRUE
      OBVIOUS
    <3> QED
      BY <2>2, <2>3, <3>1
  <2> QED
    BY <2>1, <2>4, <2>5, <2>6, <2>7, OnePart
<1>3. CASE f.kind = "bytes"
  <2>1. f.kind \notin {"strings", "messages"} /\ Delimited(f) /\ f.kind # "strings" /\ f.kind # "messages" /\ f.kind \notin {"message", "oneof"}
    BY <1>3 DEF Delimited
  <2>2. v \in Seq(Octet) /\ PartsAt(l, f, v) = <<v>>
    BY <1>3, PartsOfPlain DEF Holds
  <2>3. ValueAt(l, f, v, Zero(f)) = Read(v, 0)
    BY <1>3, <2>1, Zenon DEF ValueAt, Value
  <2> QED
    BY <2>1, <2>2, <2>3, OnePart
<1> QED
  BY <1>1, <1>2, <1>3 DEF Plain, Numeric

\* A slice with one element more is the slice with the element appended.
LEMMA SliceGrows ==
  ASSUME NEW S, NEW v \in Seq(S), NEW j \in 1 .. Len(v), NEW f, f.kind \in {"strings", "messages"}
  PROVE  SoFar(f, v, j) = Append(SoFar(f, v, j - 1), v[j])
<1>1. Len(v) \in Nat /\ v[j] \in S
  BY LenProperties, ElementOfSeq
<1>2. SoFar(f, v, j) = SubSeq(v, 1, j)
  BY DEF SoFar
<1>3. SoFar(f, v, j - 1) = SubSeq(v, 1, j - 1)
  <2>1. CASE j = 1
    <3>1. Zero(f) = <<>>
      BY ZeroIs
    <3>2. SubSeq(v, 1, 0) = <<>>
      BY SubSeqEmpty
    <3> QED
      BY <2>1, <3>1, <3>2 DEF SoFar
  <2>2. CASE j # 1
    <3>1. j - 1 # 0
      BY <2>2
    <3> QED
      BY <3>1 DEF SoFar
  <2> QED
    BY <2>1, <2>2
<1>4. SubSeq(v, 1, j - 1) \in Seq(S)
  <2>1. \A i \in 1 .. j - 1 : v[i] \in S
    BY <1>1, ElementOfSeq
  <2> QED
    BY <1>1, <2>1, SubSeqProperties
<1>5. SubSeq(v, 1, j) = SubSeq(v, 1, j - 1) \o <<v[j]>>
  <2>1. 1 \in 1 .. Len(v) /\ j \in 1 .. Len(v)
    BY <1>1
  <2> QED
    BY <2>1, SubSeqRecursiveSecond
<1>6. Append(SubSeq(v, 1, j - 1), v[j]) = SubSeq(v, 1, j - 1) \o <<v[j]>>
  BY <1>1, <1>4, AppendIsConcat
<1> QED
  BY <1>2, <1>3, <1>5, <1>6

\* A slice with all its elements is the slice.
LEMMA SliceIsWhole ==
  ASSUME NEW S, NEW v \in Seq(S), NEW f, f.kind \in {"strings", "messages"}, v # Zero(f)
  PROVE  Len(v) \in Nat /\ Len(v) >= 1 /\ SoFar(f, v, Len(v)) = v
<1>1. v # <<>>
  BY ZeroIs
<1>2. Len(v) \in Nat \ {0}
  BY <1>1, EmptySeq
<1>3. SubSeq(v, 1, Len(v)) = v
  BY SubSeqFull
<1> QED
  BY <1>2, <1>3 DEF SoFar

\* A slice of strings adds its elements, one by one.
LEMMA StringsAdd ==
  ASSUME NEW l, NEW f, f.kind = "strings", NEW v, Holds(f, v), v # Zero(f)
  PROVE  Adds(l, f, v, PartsAt(l, f, v))
<1>1. v \in Seq(Seq(Octet)) /\ PartsAt(l, f, v) = v
  BY PartsOfPlain DEF Holds
<1>2. Len(v) \in Nat /\ Len(v) >= 1 /\ SoFar(f, v, Len(v)) = v
  BY <1>1, SliceIsWhole
<1>3. Delimited(f) /\ f.kind # "bytes" /\ f.kind # "messages" /\ f.kind \notin {"message", "oneof"}
  BY DEF Delimited
<1>4. ASSUME NEW j \in 1 .. Len(v)
      PROVE  \E y : ValueAt(l, f, v[j], SoFar(f, v, j - 1)) = Read(SoFar(f, v, j), y)
  <2>1. SoFar(f, v, j) = Append(SoFar(f, v, j - 1), v[j])
    BY <1>1, SliceGrows
  <2>2. ValueAt(l, f, v[j], SoFar(f, v, j - 1)) = Read(Append(SoFar(f, v, j - 1), v[j]), 0)
    BY <1>3, Zenon DEF ValueAt, Value
  <2> QED
    BY <2>1, <2>2
<1> QED
  BY <1>1, <1>2, <1>3, <1>4 DEF Adds

\* A message within is read by the level below.
LEMMA WithinIsBelow ==
  ASSUME NEW l \in 2 .. 3, NEW fields, NEW d, NEW base
  PROVE  WithinAt(l, fields, d, base) = UnmarshalAt(l - 1, fields, d, base)
<1>1. CASE l = 2
  <2>1. l - 1 = 1
    BY <1>1
  <2> QED
    BY <1>1, <2>1 DEF WithinAt, UnmarshalAt
<1>2. CASE l = 3
  <2>1. l - 1 = 2
    BY <1>2
  <2> QED
    BY <1>2, <2>1 DEF WithinAt, UnmarshalAt
<1> QED
  BY <1>1, <1>2

\* A message within adds what the level below reads.
LEMMA MessageAdds ==
  ASSUME NEW l \in 2 .. 3, Decodes(l - 1), NEW f, f.kind \in {"message", "oneof"}, Laid(l - 1, f.fields),
         NEW v, Sound(l - 1, f.fields, v), v # Zero(f)
  PROVE  Adds(l, f, v, PartsAt(l, f, v))
<1>1. PICK p : p = EncodeAt(l - 1, f.fields, v)
  OBVIOUS
<1>2. p \in Seq(Octet) /\ (Fits(p) => UnmarshalAt(l - 1, f.fields, p, Empty(f.fields)) = Read(v, Len(p)))
  BY <1>1 DEF Decodes
<1>3. PartsAt(l, f, v) = <<p>>
  BY <1>1, PartsOfNested
<1>4. f.kind \notin {"strings", "messages"} /\ Delimited(f) /\ f.kind # "bytes" /\ f.kind # "strings" /\ f.kind # "messages"
  BY DEF Delimited
<1>5. ASSUME Fits(p) PROVE ValueAt(l, f, p, Zero(f)) = Read(v, Len(p))
  <2>1. Into(f, Zero(f)) = Empty(f.fields)
    BY ZeroIs DEF Into
  <2>2. WithinAt(l, f.fields, p, Empty(f.fields)) = Read(v, Len(p))
    BY <1>2, <1>5, WithinIsBelow
  <2>3. ValueAt(l, f, p, Zero(f)) = WithinAt(l, f.fields, p, Into(f, Zero(f)))
    BY <1>4, Zenon DEF ValueAt, Value
  <2> QED
    BY <2>1, <2>2, <2>3
<1> QED
  BY <1>2, <1>3, <1>4, <1>5, OnePart

\* A slice of messages adds its elements, one by one.
LEMMA MessagesAdd ==
  ASSUME NEW l \in 2 .. 3, Decodes(l - 1), NEW f, f.kind = "messages", Laid(l - 1, f.fields),
         NEW v, IsSeq(v), \A i \in 1 .. Len(v) : Sound(l - 1, f.fields, v[i]), v # Zero(f)
  PROVE  Adds(l, f, v, PartsAt(l, f, v))
<1>1. PICK S : v \in Seq(S)
  BY DEF IsSeq
<1>2. Len(v) \in Nat /\ Len(v) >= 1 /\ SoFar(f, v, Len(v)) = v /\ DOMAIN v = 1 .. Len(v)
  BY <1>1, SliceIsWhole, LenProperties
<1>3. PICK P : P = [i \in 1 .. Len(v) |-> EncodeAt(l - 1, f.fields, v[i])]
  OBVIOUS
<1>4. PartsAt(l, f, v) = P
  BY <1>2, <1>3, PartsOfNested
<1>5. \A i \in 1 .. Len(v) :
        /\ P[i] \in Seq(Octet)
        /\ Fits(P[i]) => UnmarshalAt(l - 1, f.fields, P[i], Empty(f.fields)) = Read(v[i], Len(P[i]))
  <2>1. ASSUME NEW i \in 1 .. Len(v)
        PROVE  /\ P[i] \in Seq(Octet)
               /\ Fits(P[i]) => UnmarshalAt(l - 1, f.fields, P[i], Empty(f.fields)) = Read(v[i], Len(P[i]))
    <3>1. P[i] = EncodeAt(l - 1, f.fields, v[i])
      BY <1>3
    <3> QED
      BY <3>1 DEF Decodes
  <2> QED
    BY <2>1
<1>6. P \in Seq(Seq(Octet)) /\ Len(P) = Len(v)
  <2>1. P \in [1 .. Len(v) -> Seq(Octet)]
    BY <1>3, <1>5
  <2> QED
    BY <1>2, <2>1
<1>7. Delimited(f) /\ f.kind # "bytes" /\ f.kind # "strings" /\ f.kind \notin {"message", "oneof"}
  BY DEF Delimited
<1>8. ASSUME NEW j \in 1 .. Len(v), Fits(P[j])
      PROVE  \E y : ValueAt(l, f, P[j], SoFar(f, v, j - 1)) = Read(SoFar(f, v, j), y)
  <2>1. PICK old : old = SoFar(f, v, j - 1)
    OBVIOUS
  <2>2. SoFar(f, v, j) = Append(old, v[j])
    BY <1>1, <2>1, SliceGrows
  <2>3. Into(f, old) = Empty(f.fields)
    BY DEF Into
  <2>4. PICK w : w = WithinAt(l, f.fields, P[j], Into(f, old))
    OBVIOUS
  <2>5. w = Read(v[j], Len(P[j]))
    BY <1>5, <1>8, <2>3, <2>4, WithinIsBelow
  <2>6. ValueAt(l, f, P[j], old) = [w EXCEPT !.val = Append(old, w.val)]
    BY <1>7, <2>4, Zenon DEF ValueAt, Value
  <2>7. w.val = v[j]
    BY <2>5, Zenon DEF Read
  <2>8. [w EXCEPT !.val = Append(old, v[j])] = Read(Append(old, v[j]), Len(P[j]))
    <3>1. PICK a, n, x : a = Append(old, v[j]) /\ n = Len(P[j]) /\ x = v[j]
      OBVIOUS
    <3>2. [Read(x, n) EXCEPT !.val = a] = Read(a, n)
      <4>1. \A e : [[err |-> e, val |-> x, next |-> n] EXCEPT !.val = a] = [err |-> e, val |-> a, next |-> n]
        OBVIOUS
      <4> QED
        BY <4>1, Zenon DEF Read
    <3> QED
      BY <2>5, <3>1, <3>2
  <2> QED
    BY <2>1, <2>2, <2>6, <2>7, <2>8
<1> QED
  BY <1>2, <1>4, <1>6, <1>7, <1>8 DEF Adds

\* Every field adds its value.
LEMMA KeptAdds ==
  ASSUME NEW l \in 1 .. 3, l \in 2 .. 3 => Decodes(l - 1), NEW f, NEW v, Kept(l, f, v), v # Zero(f)
  PROVE  Adds(l, f, v, PartsAt(l, f, v))
<1>1. CASE f.kind = "strings"
  BY <1>1, StringsAdd DEF Kept
<1>2. CASE Plain(f) /\ f.kind # "strings"
  BY <1>2, PlainAdds DEF Kept
<1>3. CASE ~Plain(f) /\ f.kind \in {"message", "oneof"}
  <2>1. v # None
    BY <1>3, ZeroIs
  <2>2. l \in 2 .. 3 /\ Laid(l - 1, f.fields) /\ Sound(l - 1, f.fields, v)
    BY <1>3, <2>1 DEF Kept
  <2> QED
    BY <1>3, <2>2, MessageAdds
<1>4. CASE ~Plain(f) /\ f.kind = "messages"
  <2>1. l \in 2 .. 3 /\ Laid(l - 1, f.fields) /\ IsSeq(v) /\ \A i \in 1 .. Len(v) : Sound(l - 1, f.fields, v[i])
    BY <1>4 DEF Kept
  <2> QED
    BY <1>4, <2>1, MessagesAdd
<1>5. Plain(f) \/ Nests(f)
  BY DEF Kept
<1> QED
  BY <1>1, <1>2, <1>3, <1>4, <1>5 DEF Nests

-----------------------------------------------------------------------------
(* The chunk of a field *)

\* A message in which nothing hinders the field k: it is not set, nor another case of its oneof.
Open(fields, m, k) ==
  /\ m = [j \in DOMAIN fields |-> m[j]]
  /\ m[k] = Zero(fields[k])
  /\ fields[k].kind = "oneof" => \A j \in DOMAIN fields : fields[j].kind = "oneof" => m[j] = None

\* Assigning a field that nothing hinders changes that field only.
LEMMA AssignIs ==
  ASSUME NEW fields, NEW k \in DOMAIN fields, NEW m, Open(fields, m, k), NEW a,
         DOMAIN a = DOMAIN fields, \A j \in DOMAIN fields : j # k => a[j] = m[j], NEW v
  PROVE  Assign(fields, a, k, v) = [m EXCEPT ![k] = v]
<1>1. PICK b : b = [m EXCEPT ![k] = v]
  OBVIOUS
<1>2. DOMAIN m = DOMAIN fields
  BY DEF Open
<1>3. \A j \in DOMAIN fields : b[j] = IF j = k THEN v ELSE m[j]
  BY <1>1, <1>2
<1>4. ASSUME NEW j \in DOMAIN fields
      PROVE  (IF j = k THEN v ELSE IF fields[k].kind = "oneof" /\ fields[j].kind = "oneof" THEN None ELSE a[j]) = b[j]
  <2>1. fields[k].kind = "oneof" /\ fields[j].kind = "oneof" => m[j] = None
    BY DEF Open
  <2> QED
    BY <1>3, <2>1
<1>5. Assign(fields, a, k, v) =
        [j \in DOMAIN fields |->
           IF j = k THEN v ELSE IF fields[k].kind = "oneof" /\ fields[j].kind = "oneof" THEN None ELSE a[j]]
  BY DEF Assign
<1>6. b = [j \in DOMAIN fields |-> b[j]]
  BY <1>1, <1>2
<1> QED
  BY <1>1, <1>4, <1>5, <1>6

\* The tagged parts of a field, one by one.
LEMMA PartTakes ==
  ASSUME NEW l \in 1 .. 3, NEW fields, Numbered(fields), NEW k \in DOMAIN fields, NEW m, Open(fields, m, k),
         NEW v, NEW parts, Adds(l, fields[k], v, parts), NEW j \in 1 .. Len(parts)
  PROVE  /\ Tagged(fields[k], parts[j]) \in Seq(Octet)
         /\ Takes(l, fields, Tagged(fields[k], parts[j]),
                  [m EXCEPT ![k] = SoFar(fields[k], v, j - 1)], [m EXCEPT ![k] = SoFar(fields[k], v, j)])
<1>1. fields[k].num \in 1 .. 15
  BY DEF Numbered
<1>2. parts \in Seq(Seq(Octet))
  BY DEF Adds
<1>3. PICK p \in Seq(Octet) : p = parts[j]
  BY <1>2, ElementOfSeq
<1>4. Tagged(fields[k], p) \in Seq(Octet)
  BY <1>1, TaggedIs
<1>5. PICK a : a = [m EXCEPT ![k] = SoFar(fields[k], v, j - 1)]
  OBVIOUS
<1>6. a[k] = SoFar(fields[k], v, j - 1)
  BY <1>5 DEF Open
<1>7. PICK x : x = SoFar(fields[k], v, j)
  OBVIOUS
<1>8. Assign(fields, a, k, x) = [m EXCEPT ![k] = x]
  <2>1. DOMAIN a = DOMAIN fields /\ \A i \in DOMAIN fields : i # k => a[i] = m[i]
    BY <1>5 DEF Open
  <2> QED
    BY <2>1, AssignIs
<1>9. CASE Delimited(fields[k])
  <2>1. \E y : Fits(p) => ValueAt(l, fields[k], p, a[k]) = Read(x, y)
    BY <1>3, <1>6, <1>7, <1>9 DEF Adds
  <2>2. Takes(l, fields, Tagged(fields[k], p), a, Assign(fields, a, k, x))
    BY <1>9, <2>1, DelimitedTakes
  <2> QED
    BY <1>3, <1>4, <1>5, <1>7, <1>8, <2>2
<1>10. CASE ~Delimited(fields[k])
  <2>1. PICK w \in 0 .. Words - 1 : parts = <<EncodeVarint[w]>> /\ Narrow(fields[k], w) = v
    BY <1>10 DEF Adds
  <2>2. j = 1 /\ Len(parts) = 1 /\ p = EncodeVarint[w]
    <3>1. PICK e : e = EncodeVarint[w]
      OBVIOUS
    <3>2. Len(<<e>>) = 1 /\ <<e>>[1] = e
      OBVIOUS
    <3> QED
      BY <1>3, <2>1, <3>1, <3>2
  <2>3. x = v
    BY <1>7, <2>2 DEF Adds
  <2>4. Takes(l, fields, Tagged(fields[k], EncodeVarint[w]), a, Assign(fields, a, k, Narrow(fields[k], w)))
    BY <1>10, WordTakes
  <2> QED
    BY <1>3, <1>4, <1>5, <1>7, <1>8, <2>1, <2>2, <2>3, <2>4
<1> QED
  BY <1>9, <1>10

\* The tagged parts of a field.
LEMMA TagsAre ==
  ASSUME NEW l \in 1 .. 3, NEW fields, Numbered(fields), NEW k \in DOMAIN fields, NEW m, Open(fields, m, k),
         NEW v, NEW parts, Adds(l, fields[k], v, parts)
  PROVE  /\ Tags(fields[k], parts) \in Seq(Seq(Octet))
         /\ Len(Tags(fields[k], parts)) = Len(parts) /\ Len(parts) \in Nat
         /\ \A j \in 1 .. Len(parts) : Tags(fields[k], parts)[j] = Tagged(fields[k], parts[j])
<1>1. Len(parts) \in Nat /\ DOMAIN parts = 1 .. Len(parts)
  BY LenProperties DEF Adds
<1>2. PICK P : P = Tags(fields[k], parts)
  OBVIOUS
<1>3. P = [j \in 1 .. Len(parts) |-> Tagged(fields[k], parts[j])]
  BY <1>1, <1>2 DEF Tags
<1>4. \A j \in 1 .. Len(parts) : Tagged(fields[k], parts[j]) \in Seq(Octet)
  BY PartTakes
<1>5. P \in [1 .. Len(parts) -> Seq(Octet)]
  BY <1>3, <1>4
<1>6. P \in Seq(Seq(Octet)) /\ Len(P) = Len(parts)
  BY <1>1, <1>5
<1> QED
  BY <1>1, <1>2, <1>3, <1>6

\* No chunks join to no bytes.
LEMMA FlattenNone == FlattenSeq(<<>>) = <<>>
<1>1. Len(<<>>) = 0
  BY EmptySeq
<1> QED
  BY <1>1 DEF FlattenSeq

\* A zero takes no bytes.
LEMMA ZeroChunk == ASSUME NEW l, NEW f PROVE EncodeFieldAt(l, f, Zero(f)) = <<>>
<1>1. Tags(f, <<>>) = <<>>
  BY DEF Tags
<1> QED
  BY <1>1, PartsAtZero, FlattenNone DEF EncodeFieldAt

\* The chunk of a field takes it from zero to its value.
LEMMA ChunkTakes ==
  ASSUME NEW l \in 1 .. 3, NEW fields, Numbered(fields), NEW k \in DOMAIN fields, NEW m, Open(fields, m, k),
         NEW v, v # Zero(fields[k]) => Adds(l, fields[k], v, PartsAt(l, fields[k], v))
  PROVE  /\ EncodeFieldAt(l, fields[k], v) \in Seq(Octet)
         /\ Takes(l, fields, EncodeFieldAt(l, fields[k], v), m, [m EXCEPT ![k] = v])
<1>1. CASE v = Zero(fields[k])
  <2>1. EncodeFieldAt(l, fields[k], v) = <<>>
    BY <1>1, ZeroChunk
  <2>2. [m EXCEPT ![k] = v] = m
    BY <1>1 DEF Open
  <2>3. <<>> \in Seq(Octet)
    BY EmptySeq
  <2> QED
    BY <2>1, <2>2, <2>3, TakesNothing
<1>2. CASE v # Zero(fields[k])
  <2>1. PICK parts : parts = PartsAt(l, fields[k], v)
    OBVIOUS
  <2>2. Adds(l, fields[k], v, parts)
    BY <1>2, <2>1
  <2>3. PICK P : P = Tags(fields[k], parts)
    OBVIOUS
  <2>4. P \in Seq(Seq(Octet)) /\ Len(P) = Len(parts) /\ Len(P) \in Nat
    BY <2>2, <2>3, TagsAre
  <2>5. PICK M : M = [j \in 0 .. Len(P) |-> [m EXCEPT ![k] = SoFar(fields[k], v, j)]]
    OBVIOUS
  <2>6. \A j \in 0 .. Len(P) : M[j] = [m EXCEPT ![k] = SoFar(fields[k], v, j)]
    BY <2>5
  <2>7. ASSUME NEW j \in 1 .. Len(P) PROVE Takes(l, fields, P[j], M[j - 1], M[j])
    <3>1. j \in 0 .. Len(P) /\ j - 1 \in 0 .. Len(P) /\ j \in 1 .. Len(parts)
      BY <2>4
    <3>2. P[j] = Tagged(fields[k], parts[j])
      BY <2>2, <2>3, <3>1, TagsAre
    <3>3. Takes(l, fields, Tagged(fields[k], parts[j]),
                [m EXCEPT ![k] = SoFar(fields[k], v, j - 1)], [m EXCEPT ![k] = SoFar(fields[k], v, j)])
      BY <2>2, <3>1, PartTakes
    <3> QED
      BY <2>6, <3>1, <3>2, <3>3
  <2>8. FlattenSeq(P) \in Seq(Octet) /\ Takes(l, fields, FlattenSeq(P), M[0], M[Len(P)])
    BY <2>4, <2>7, TakesAll
  <2>9. M[0] = m
    <3>1. SoFar(fields[k], v, 0) = m[k]
      BY DEF SoFar, Open
    <3>2. 0 \in 0 .. Len(P)
      BY <2>4
    <3>3. [m EXCEPT ![k] = m[k]] = m
      BY DEF Open
    <3> QED
      BY <2>6, <3>1, <3>2, <3>3
  <2>10. M[Len(P)] = [m EXCEPT ![k] = v]
    <3>1. SoFar(fields[k], v, Len(P)) = v
      BY <2>2, <2>4 DEF Adds
    <3>2. Len(P) \in 0 .. Len(P)
      BY <2>4
    <3> QED
      BY <2>6, <3>1, <3>2
  <2>11. EncodeFieldAt(l, fields[k], v) = FlattenSeq(P)
    BY <2>1, <2>3 DEF EncodeFieldAt
  <2> QED
    BY <2>8, <2>9, <2>10, <2>11
<1> QED
  BY <1>1, <1>2

-----------------------------------------------------------------------------
(* A message, field by field *)

\* The message that has been read when the fields K have.
Upto(fields, m, K) == [k \in DOMAIN fields |-> IF k \in K THEN m[k] ELSE Zero(fields[k])]

\* What is known of the levels below.
Lower(l) == l \in 2 .. 3 => Decodes(l - 1)

\* At first a message has no fields ...
LEMMA UptoNone == ASSUME NEW fields, NEW m PROVE Upto(fields, m, {}) = Empty(fields)
  BY DEF Upto, Empty

\* ... in the end it has all ...
LEMMA UptoAll ==
  ASSUME NEW fields, NEW m, Formed(fields, m), NEW K, DOMAIN fields \subseteq K PROVE Upto(fields, m, K) = m
  BY DEF Upto, Formed

\* ... and in between nothing hinders one that is missing: of a oneof, one case at
\* most is set.
LEMMA UptoOpen ==
  ASSUME NEW l \in 1 .. 3, NEW fields, Laid(l, fields), NEW m, Sound(l, fields, m),
         NEW K, NEW k \in DOMAIN fields, k \notin K, m[k] # Zero(fields[k])
  PROVE  Open(fields, Upto(fields, m, K), k)
<1>1. PICK a : a = Upto(fields, m, K)
  OBVIOUS
<1>2. Formed(fields, m)
  BY SoundIs
<1>3. a = [j \in DOMAIN fields |-> a[j]] /\ a[k] = Zero(fields[k])
  BY <1>1 DEF Upto
<1>4. ASSUME fields[k].kind = "oneof", NEW j \in DOMAIN fields, fields[j].kind = "oneof" PROVE a[j] = None
  <2>1. Zero(fields[k]) = None /\ Zero(fields[j]) = None
    BY <1>4, ZeroIs
  <2>2. m[j] # None => j = k
    BY <1>2, <1>4, <2>1 DEF Formed, Single
  <2>3. a[j] = IF j \in K THEN m[j] ELSE Zero(fields[j])
    BY <1>1 DEF Upto
  <2> QED
    BY <2>1, <2>2, <2>3
<1> QED
  BY <1>1, <1>3, <1>4 DEF Open

\* The chunk of a field takes the message one field further, whatever the order.
LEMMA FieldTakes ==
  ASSUME NEW l \in 1 .. 3, Lower(l), NEW fields, Laid(l, fields), NEW m, Sound(l, fields, m),
         NEW K, NEW k \in DOMAIN fields, k \notin K, NEW L, L = K \cup {k}
  PROVE  /\ EncodeFieldAt(l, fields[k], m[k]) \in Seq(Octet)
         /\ Takes(l, fields, EncodeFieldAt(l, fields[k], m[k]), Upto(fields, m, K), Upto(fields, m, L))
<1>1. Numbered(fields)
  BY LaidIs
<1>2. Formed(fields, m) /\ Kept(l, fields[k], m[k])
  BY SoundIs
<1>3. PICK a, b : a = Upto(fields, m, K) /\ b = Upto(fields, m, L)
  OBVIOUS
<1>4. CASE m[k] = Zero(fields[k])
  <2>1. a = b
    <3>1. \A j \in DOMAIN fields :
            (IF j \in K THEN m[j] ELSE Zero(fields[j])) = (IF j \in L THEN m[j] ELSE Zero(fields[j]))
      BY <1>4
    <3> QED
      BY <1>3, <3>1 DEF Upto
  <2>2. EncodeFieldAt(l, fields[k], m[k]) = <<>>
    BY <1>4, ZeroChunk
  <2>3. <<>> \in Seq(Octet)
    BY EmptySeq
  <2> QED
    BY <1>3, <2>1, <2>2, <2>3, TakesNothing
<1>5. CASE m[k] # Zero(fields[k])
  <2>1. Open(fields, a, k)
    BY <1>3, <1>5, UptoOpen
  <2>2. b = [a EXCEPT ![k] = m[k]]
    <3>1. \A j \in DOMAIN fields : b[j] = IF j = k THEN m[j] ELSE a[j]
      BY <1>3 DEF Upto
    <3>2. b = [j \in DOMAIN fields |-> b[j]] /\ a = [j \in DOMAIN fields |-> a[j]]
      BY <1>3 DEF Upto
    <3> QED
      BY <3>1, <3>2
  <2>3. Adds(l, fields[k], m[k], PartsAt(l, fields[k], m[k]))
    BY <1>2, <1>5, KeptAdds DEF Lower
  <2>4. PICK v : v = m[k]
    OBVIOUS
  <2>5. /\ EncodeFieldAt(l, fields[k], v) \in Seq(Octet)
        /\ Takes(l, fields, EncodeFieldAt(l, fields[k], v), a, [a EXCEPT ![k] = v])
    BY <1>1, <2>1, <2>3, <2>4, ChunkTakes
  <2> QED
    BY <1>3, <2>2, <2>4, <2>5
<1> QED
  BY <1>4, <1>5

\* The chunks of a message.
LEMMA ChunkIs ==
  ASSUME NEW l \in 1 .. 3, Lower(l), NEW fields, Laid(l, fields), NEW m, Sound(l, fields, m)
  PROVE  /\ Len(fields) \in Nat /\ DOMAIN fields = 1 .. Len(fields)
         /\ Chunk(l, fields, m) \in Seq(Seq(Octet)) /\ Len(Chunk(l, fields, m)) = Len(fields)
         /\ \A k \in 1 .. Len(fields) : Chunk(l, fields, m)[k] = EncodeFieldAt(l, fields[k], m[k])
<1>1. PICK S : fields \in Seq(S)
  BY LaidIs DEF Listed, IsSeq
<1>2. Len(fields) \in Nat /\ DOMAIN fields = 1 .. Len(fields)
  BY <1>1, LenProperties
<1>3. PICK P, n : P = Chunk(l, fields, m) /\ n = Len(fields)
  OBVIOUS
<1>4. P = [k \in 1 .. n |-> EncodeFieldAt(l, fields[k], m[k])]
  BY <1>2, <1>3 DEF Chunk
<1>5. \A k \in 1 .. n : EncodeFieldAt(l, fields[k], m[k]) \in Seq(Octet)
  <2>1. ASSUME NEW k \in DOMAIN fields PROVE EncodeFieldAt(l, fields[k], m[k]) \in Seq(Octet)
    <3>1. PICK K, L : K = {} /\ L = {k}
      OBVIOUS
    <3>2. L = K \cup {k} /\ k \notin K
      BY <3>1
    <3> QED
      BY <3>2, FieldTakes
  <2> QED
    BY <1>2, <1>3, <2>1
<1>6. P \in [1 .. n -> Seq(Octet)]
  BY <1>4, <1>5
<1>7. P \in Seq(Seq(Octet)) /\ Len(P) = n
  BY <1>2, <1>3, <1>6
<1> QED
  BY <1>2, <1>3, <1>4, <1>7

\* The fields in the order of their numbers.
LEMMA InOrder ==
  ASSUME NEW l \in 1 .. 3, Lower(l), NEW fields, Laid(l, fields), NEW m, Sound(l, fields, m)
  PROVE  /\ EncodeAt(l, fields, m) \in Seq(Octet)
         /\ Takes(l, fields, EncodeAt(l, fields, m), Empty(fields), m)
<1>0. Len(fields) \in Nat
  BY ChunkIs
<1>1. PICK P, n : P = Chunk(l, fields, m) /\ n = Len(fields) /\ n \in Nat
  BY <1>0
<1>2. DOMAIN fields = 1 .. n /\ P \in Seq(Seq(Octet)) /\ Len(P) = n
  BY <1>1, ChunkIs
<1>3. PICK M : M = [j \in 0 .. n |-> Upto(fields, m, 1 .. j)]
  OBVIOUS
<1>4. ASSUME NEW j \in 1 .. Len(P) PROVE Takes(l, fields, P[j], M[j - 1], M[j])
  <2>1. j \in 0 .. n /\ j - 1 \in 0 .. n /\ j \in DOMAIN fields
    BY <1>2
  <2>2. M[j - 1] = Upto(fields, m, 1 .. j - 1) /\ M[j] = Upto(fields, m, 1 .. j)
    BY <1>3, <2>1
  <2>3. PICK K, L : K = 1 .. j - 1 /\ L = 1 .. j
    OBVIOUS
  <2>4. L = K \cup {j} /\ j \notin K
    BY <2>1, <2>3
  <2>5. Takes(l, fields, EncodeFieldAt(l, fields[j], m[j]), Upto(fields, m, K), Upto(fields, m, L))
    BY <2>1, <2>4, FieldTakes
  <2>6. P[j] = EncodeFieldAt(l, fields[j], m[j])
    <3>1. j \in 1 .. Len(fields)
      BY <1>1, <1>2
    <3> QED
      BY <1>1, <3>1, ChunkIs
  <2> QED
    BY <2>2, <2>3, <2>5, <2>6
<1>5. FlattenSeq(P) \in Seq(Octet) /\ Takes(l, fields, FlattenSeq(P), M[0], M[Len(P)])
  BY <1>2, <1>4, TakesAll
<1>6. M[0] = Empty(fields)
  <2>1. 1 .. 0 = {} /\ 0 \in 0 .. n
    BY <1>1
  <2>2. M[0] = Upto(fields, m, 1 .. 0)
    BY <1>3, <2>1
  <2> QED
    BY <2>1, <2>2, UptoNone
<1>7. M[Len(P)] = m
  <2>1. Formed(fields, m)
    BY SoundIs
  <2>2. M[n] = Upto(fields, m, 1 .. n)
    <3>1. n \in 0 .. n
      BY <1>1
    <3> QED
      BY <1>3, <3>1
  <2> QED
    BY <1>2, <2>1, <2>2, UptoAll
<1> QED
  BY <1>1, <1>5, <1>6, <1>7, EncodeAtIs

\* A level reads what it wrote, if the level below does ...
LEMMA LevelDecodes == ASSUME NEW l \in 1 .. 3, Lower(l) PROVE Decodes(l)
<1>1. ASSUME NEW fields, NEW m, Laid(l, fields), Sound(l, fields, m)
      PROVE  /\ EncodeAt(l, fields, m) \in Seq(Octet)
             /\ Fits(EncodeAt(l, fields, m)) =>
                  UnmarshalAt(l, fields, EncodeAt(l, fields, m), Empty(fields)) = Read(m, Len(EncodeAt(l, fields, m)))
  <2>1. PICK e : e = EncodeAt(l, fields, m)
    OBVIOUS
  <2>2. e \in Seq(Octet) /\ Takes(l, fields, e, Empty(fields), m)
    BY <1>1, <2>1, InOrder
  <2> QED
    BY <2>1, <2>2, TakenIsRead
<1> QED
  BY <1>1 DEF Decodes

\* ... and all levels do.
LEMMA AllDecode == \A l \in 1 .. 3 : Lower(l) /\ Decodes(l)
<1>1. Lower(1) /\ Decodes(1)
  <2>1. Lower(1)
    BY DEF Lower
  <2> QED
    BY <2>1, LevelDecodes
<1>2. Lower(2) /\ Decodes(2)
  <2>1. Lower(2)
    BY <1>1 DEF Lower
  <2> QED
    BY <2>1, LevelDecodes
<1>3. Lower(3) /\ Decodes(3)
  <2>1. Lower(3)
    BY <1>2 DEF Lower
  <2> QED
    BY <2>1, LevelDecodes
<1> QED
  BY <1>1, <1>2, <1>3

-----------------------------------------------------------------------------
(* The ways a peer may write a message *)

\* A stretch of the fields, in order.
LEMMA StretchTakes ==
  ASSUME NEW l \in 1 .. 3, Lower(l), NEW fields, Laid(l, fields), NEW m, Sound(l, fields, m),
         NEW a \in 1 .. Len(fields) + 1, NEW b \in a - 1 .. Len(fields)
  PROVE  /\ FlattenSeq(SubSeq(Chunk(l, fields, m), a, b)) \in Seq(Octet)
         /\ Takes(l, fields, FlattenSeq(SubSeq(Chunk(l, fields, m), a, b)),
                  Upto(fields, m, 1 .. a - 1), Upto(fields, m, 1 .. b))
<1>0. Len(fields) \in Nat /\ DOMAIN fields = 1 .. Len(fields)
  BY ChunkIs
<1>1. PICK C, n : C = Chunk(l, fields, m) /\ n = Len(fields) /\ n \in Nat
  BY <1>0
<1>2. C \in Seq(Seq(Octet)) /\ Len(C) = n
  BY <1>1, ChunkIs
<1>3. a \in Int /\ b \in Int /\ a >= 1 /\ b <= n /\ b >= a - 1
  BY <1>0, <1>1
<1>4. \A i \in a .. b : C[i] \in Seq(Octet)
  <2>1. \A i \in a .. b : i \in 1 .. Len(C)
    BY <1>2, <1>3
  <2> QED
    BY <1>2, <2>1, ElementOfSeq
<1>5. PICK P : P = SubSeq(C, a, b)
  OBVIOUS
<1>6. P \in Seq(Seq(Octet)) /\ Len(P) = b - a + 1 /\ \A i \in 1 .. b - a + 1 : P[i] = C[a + i - 1]
  <2>1. (IF a <= b THEN b - a + 1 ELSE 0) = b - a + 1
    BY <1>3
  <2> QED
    BY <1>3, <1>4, <1>5, <2>1, SubSeqProperties
<1>7. PICK M : M = [j \in 0 .. Len(P) |-> Upto(fields, m, 1 .. a + j - 1)]
  OBVIOUS
<1>8. ASSUME NEW j \in 1 .. Len(P) PROVE Takes(l, fields, P[j], M[j - 1], M[j])
  <2>1. j \in 0 .. Len(P) /\ j - 1 \in 0 .. Len(P) /\ j \in 1 .. b - a + 1
    BY <1>3, <1>6
  <2>2. PICK k, K, L : k = a + j - 1 /\ K = 1 .. k - 1 /\ L = 1 .. k
    OBVIOUS
  <2>3. k \in 1 .. n /\ k \in DOMAIN fields /\ k \in 1 .. Len(fields) /\ a + (j - 1) - 1 = k - 1
    BY <1>0, <1>1, <1>3, <2>1, <2>2
  <2>4. M[j - 1] = Upto(fields, m, K) /\ M[j] = Upto(fields, m, L)
    BY <1>7, <2>1, <2>2, <2>3
  <2>5. L = K \cup {k} /\ k \notin K
    BY <2>2, <2>3
  <2>6. Takes(l, fields, EncodeFieldAt(l, fields[k], m[k]), Upto(fields, m, K), Upto(fields, m, L))
    BY <2>3, <2>5, FieldTakes
  <2>7. C[k] = EncodeFieldAt(l, fields[k], m[k])
    BY <1>1, <2>3, ChunkIs
  <2>8. P[j] = C[k]
    BY <1>6, <2>1, <2>2
  <2> QED
    BY <2>4, <2>6, <2>7, <2>8
<1>9. FlattenSeq(P) \in Seq(Octet) /\ Takes(l, fields, FlattenSeq(P), M[0], M[Len(P)])
  BY <1>6, <1>8, TakesAll
<1>10. M[0] = Upto(fields, m, 1 .. a - 1) /\ M[Len(P)] = Upto(fields, m, 1 .. b)
  <2>1. 0 \in 0 .. Len(P) /\ Len(P) \in 0 .. Len(P) /\ a + 0 - 1 = a - 1 /\ a + Len(P) - 1 = b
    BY <1>3, <1>6
  <2> QED
    BY <1>7, <2>1
<1> QED
  BY <1>1, <1>5, <1>9, <1>10

\* A field more, between two others.
LEMMA ForeignWithin ==
  ASSUME NEW l \in 1 .. 3, Lower(l), NEW fields, Laid(l, fields), NEW m, Sound(l, fields, m),
         NEW k \in 0 .. Len(fields), NEW u, Foreign(fields, u), NEW d,
         d = FlattenSeq(SubSeq(Chunk(l, fields, m), 1, k)) \o u
               \o FlattenSeq(SubSeq(Chunk(l, fields, m), k + 1, Len(fields)))
  PROVE  d \in Seq(Octet) /\ Takes(l, fields, d, Empty(fields), m)
<1>0. Len(fields) \in Nat /\ DOMAIN fields = 1 .. Len(fields)
  BY ChunkIs
<1>1. PICK n \in Nat : n = Len(fields)
  BY <1>0, Zenon
<1>2. PICK a, c, x : /\ a = FlattenSeq(SubSeq(Chunk(l, fields, m), 1, k))
                     /\ c = FlattenSeq(SubSeq(Chunk(l, fields, m), k + 1, n))
                     /\ x = Upto(fields, m, 1 .. k)
  OBVIOUS
<1>3. a \in Seq(Octet) /\ Takes(l, fields, a, Empty(fields), x)
  <2>1. 1 \in 1 .. Len(fields) + 1 /\ k \in 1 - 1 .. Len(fields)
    BY <1>0
  <2>2. a \in Seq(Octet) /\ Takes(l, fields, a, Upto(fields, m, 1 .. 1 - 1), x)
    BY <1>2, <2>1, StretchTakes
  <2>3. 1 .. 1 - 1 = {}
    OBVIOUS
  <2> QED
    BY <2>2, <2>3, UptoNone
<1>4. c \in Seq(Octet) /\ Takes(l, fields, c, x, m)
  <2>1. PICK i : i = k + 1
    OBVIOUS
  <2>2. i \in 1 .. Len(fields) + 1 /\ n \in i - 1 .. Len(fields) /\ i - 1 = k
    BY <1>1, <2>1
  <2>3. c \in Seq(Octet) /\ Takes(l, fields, c, Upto(fields, m, 1 .. i - 1), Upto(fields, m, 1 .. n))
    BY <1>2, <2>1, <2>2, StretchTakes
  <2>4. Upto(fields, m, 1 .. n) = m
    BY <1>0, <1>1, UptoAll, SoundIs
  <2> QED
    BY <1>2, <2>2, <2>3, <2>4
<1>5. u \in Seq(Octet) /\ Takes(l, fields, u, x, x)
  BY ForeignTakes
<1>6. a \o u \in Seq(Octet) /\ Takes(l, fields, a \o u, Empty(fields), x)
  BY <1>3, <1>5, TakesBoth, ConcatProperties
<1>7. PICK b \in Seq(Octet) : b = a \o u
  BY <1>6
<1>8. b \o c \in Seq(Octet) /\ Takes(l, fields, b \o c, Empty(fields), m)
  BY <1>4, <1>6, <1>7, TakesBoth, ConcatProperties
<1>9. d = b \o c
  BY <1>1, <1>2, <1>7
<1> QED
  BY <1>8, <1>9

\* The fields from the last to the first.
LEMMA InReverse ==
  ASSUME NEW l \in 1 .. 3, Lower(l), NEW fields, Laid(l, fields), NEW m, Sound(l, fields, m),
         NEW d, d = FlattenSeq(Reverse(Chunk(l, fields, m)))
  PROVE  d \in Seq(Octet) /\ Takes(l, fields, d, Empty(fields), m)
<1>0. Len(fields) \in Nat /\ DOMAIN fields = 1 .. Len(fields)
  BY ChunkIs
<1>1. PICK C, n : C = Chunk(l, fields, m) /\ n = Len(fields) /\ n \in Nat
  BY <1>0
<1>2. C \in Seq(Seq(Octet)) /\ Len(C) = n /\ \A k \in 1 .. n : C[k] \in Seq(Octet)
  <2>1. C \in Seq(Seq(Octet)) /\ Len(C) = n
    BY <1>1, ChunkIs
  <2> QED
    BY <2>1, ElementOfSeq
<1>3. PICK P : P = [i \in 1 .. n |-> C[(n - i) + 1]]
  OBVIOUS
<1>4. d = FlattenSeq(P)
  BY <1>1, <1>2, <1>3 DEF Reverse
<1>5. P \in Seq(Seq(Octet)) /\ Len(P) = n
  <2>1. \A i \in 1 .. n : (n - i) + 1 \in 1 .. n
    BY <1>1
  <2>2. P \in [1 .. n -> Seq(Octet)]
    BY <1>2, <1>3, <2>1
  <2> QED
    BY <1>1, <2>2
<1>6. PICK M : M = [j \in 0 .. n |-> Upto(fields, m, (n - j) + 1 .. n)]
  OBVIOUS
<1>7. ASSUME NEW j \in 1 .. Len(P) PROVE Takes(l, fields, P[j], M[j - 1], M[j])
  <2>1. j \in 0 .. n /\ j - 1 \in 0 .. n /\ j \in 1 .. n
    BY <1>1, <1>5
  <2>2. PICK k, K, L : k = (n - j) + 1 /\ K = k + 1 .. n /\ L = k .. n
    OBVIOUS
  <2>3. k \in 1 .. n /\ k \in DOMAIN fields /\ k \in 1 .. Len(fields) /\ (n - (j - 1)) + 1 = k + 1
    BY <1>0, <1>1, <2>1, <2>2
  <2>4. M[j - 1] = Upto(fields, m, K) /\ M[j] = Upto(fields, m, L)
    BY <1>6, <2>1, <2>2, <2>3
  <2>5. L = K \cup {k} /\ k \notin K
    BY <2>2, <2>3
  <2>6. Takes(l, fields, EncodeFieldAt(l, fields[k], m[k]), Upto(fields, m, K), Upto(fields, m, L))
    BY <2>3, <2>5, FieldTakes
  <2>7. C[k] = EncodeFieldAt(l, fields[k], m[k])
    BY <1>1, <2>3, ChunkIs
  <2>8. P[j] = C[k]
    BY <1>3, <2>1, <2>2
  <2> QED
    BY <2>4, <2>6, <2>7, <2>8
<1>8. FlattenSeq(P) \in Seq(Octet) /\ Takes(l, fields, FlattenSeq(P), M[0], M[Len(P)])
  BY <1>5, <1>7, TakesAll
<1>9. M[0] = Empty(fields)
  <2>1. 0 \in 0 .. n /\ (n - 0) + 1 .. n = {}
    BY <1>1
  <2>2. M[0] = Upto(fields, m, (n - 0) + 1 .. n)
    BY <1>6, <2>1
  <2> QED
    BY <2>1, <2>2, UptoNone
<1>10. M[Len(P)] = m
  <2>1. n \in 0 .. n /\ (n - n) + 1 = 1
    BY <1>1
  <2>2. M[n] = Upto(fields, m, 1 .. n)
    BY <1>6, <2>1
  <2>3. Upto(fields, m, 1 .. n) = m
    BY <1>0, <1>1, UptoAll, SoundIs
  <2> QED
    BY <1>5, <2>2, <2>3
<1> QED
  BY <1>4, <1>8, <1>9, <1>10

\* Assigning what a field has already changes nothing.
LEMMA AssignsNothing ==
  ASSUME NEW fields, NEW m, NEW K, NEW k \in DOMAIN fields, fields[k].kind # "oneof", NEW a, a = Upto(fields, m, K)
  PROVE  Assign(fields, a, k, a[k]) = a
<1>1. DOMAIN a = DOMAIN fields /\ a = [j \in DOMAIN fields |-> a[j]]
  BY DEF Upto
<1>2. \A j \in DOMAIN fields :
        (IF j = k THEN a[k] ELSE IF fields[k].kind = "oneof" /\ fields[j].kind = "oneof" THEN None ELSE a[j]) = a[j]
  OBVIOUS
<1> QED
  BY <1>1, <1>2 DEF Assign

\* A zero on the wire is read as the zero.
LEMMA NarrowZero == ASSUME NEW f, Numeric(f) \/ f.kind = "flag" PROVE Narrow(f, 0) = Zero(f)
<1>1. CASE f.kind = "flag"
  <2>1. f.kind \notin {"half", "enum"}
    BY <1>1
  <2>2. Narrow(f, 0) = (0 # 0)
    BY <1>1, <2>1, Zenon DEF Narrow
  <2>3. (0 # 0) = FALSE
    OBVIOUS
  <2> QED
    BY <1>1, <2>2, <2>3, ZeroIs
<1>2. CASE f.kind = "word"
  <2>1. f.kind # "flag" /\ f.kind \notin {"half", "enum"}
    BY <1>2
  <2>2. Narrow(f, 0) = 0
    BY <2>1, Zenon DEF Narrow
  <2>3. Numeric(f)
    BY <1>2 DEF Numeric
  <2> QED
    BY <2>2, <2>3, ZeroIs
<1>3. CASE f.kind \in {"half", "enum"}
  <2>1. f.kind # "flag"
    BY <1>3
  <2>2. Narrow(f, 0) = 0 % Halves
    BY <1>3, <2>1, Zenon DEF Narrow
  <2>3. 0 % Halves = 0
    BY WordsAre
  <2>4. Numeric(f)
    BY <1>3 DEF Numeric
  <2> QED
    BY <2>2, <2>3, <2>4, ZeroIs
<1> QED
  BY <1>1, <1>2, <1>3 DEF Numeric

\* A zero that is written leaves the message as it is.
LEMMA ZeroFieldTakes ==
  ASSUME NEW l \in 1 .. 3, NEW fields, Numbered(fields), NEW m, NEW K, NEW k \in DOMAIN fields,
         m[k] = Zero(fields[k]), NEW a, a = Upto(fields, m, K)
  PROVE  ZeroField(fields[k]) \in Seq(Octet) /\ Takes(l, fields, ZeroField(fields[k]), a, a)
<1>1. PICK f : f = fields[k]
  OBVIOUS
<1>2. f.num \in 1 .. 15
  BY <1>1 DEF Numbered
<1>3. a[k] = Zero(f)
  BY <1>1 DEF Upto
<1>4. CASE Numeric(f) \/ f.kind = "flag"
  <2>1. ZeroField(f) = Tagged(f, <<0>>)
    BY <1>4 DEF ZeroField
  <2>2. EncodeVarint[0] = <<0>> /\ EncodeVarint[0] \in Seq(Octet)
    <3>1. EncodeVarint[0] = IF 0 < 128 THEN <<0>> ELSE <<128 + (0 % 128)>> \o EncodeVarint[0 \div 128]
      BY EncodeVarintIs
    <3>2. EncodeVarint[0] \in Seq(Octet)
      BY EncodeVarintIs
    <3> QED
      BY <3>1, <3>2
  <2>3. ~Delimited(f) /\ f.kind # "oneof"
    BY <1>4 DEF Numeric, Delimited
  <2>4. 0 \in 0 .. Words - 1
    BY WordsAre
  <2>5. Takes(l, fields, Tagged(f, EncodeVarint[0]), a, Assign(fields, a, k, Narrow(f, 0)))
    BY <1>1, <2>3, <2>4, WordTakes
  <2>6. Assign(fields, a, k, a[k]) = a
    BY <1>1, <2>3, AssignsNothing
  <2>7. Narrow(f, 0) = a[k]
    BY <1>3, <1>4, NarrowZero
  <2>8. Tagged(f, EncodeVarint[0]) \in Seq(Octet)
    BY <1>2, <2>2, TaggedIs
  <2> QED
    BY <1>1, <2>1, <2>2, <2>5, <2>6, <2>7, <2>8
<1>5. CASE f.kind = "bytes"
  <2>1. ~Numeric(f) /\ f.kind # "flag" /\ f.kind # "oneof" /\ Delimited(f) /\ f.kind # "strings" /\ f.kind # "messages"
        /\ f.kind \notin {"message", "oneof"}
    BY <1>5 DEF Numeric, Delimited
  <2>2. PICK p : p = <<>>
    OBVIOUS
  <2>3. p \in Seq(Octet)
    BY <2>2, EmptySeq
  <2>4. ZeroField(f) = Tagged(f, p)
    BY <1>5, <2>1, <2>2 DEF ZeroField
  <2>5. ValueAt(l, f, p, a[k]) = Read(p, 0)
    BY <1>5, <2>1, Zenon DEF ValueAt, Value
  <2>6. Takes(l, fields, Tagged(f, p), a, Assign(fields, a, k, p))
    BY <1>1, <2>1, <2>3, <2>5, DelimitedTakes
  <2>7. p = a[k]
    BY <1>3, <1>5, <2>2, ZeroIs
  <2>8. Assign(fields, a, k, a[k]) = a
    BY <1>1, <2>1, AssignsNothing
  <2>9. Tagged(f, p) \in Seq(Octet)
    BY <1>2, <2>3, TaggedIs
  <2> QED
    BY <1>1, <2>4, <2>6, <2>7, <2>8, <2>9
<1>6. CASE ~(Numeric(f) \/ f.kind = "flag" \/ f.kind = "bytes")
  <2>1. ZeroField(f) = <<>>
    BY <1>6 DEF ZeroField
  <2>2. <<>> \in Seq(Octet)
    BY EmptySeq
  <2> QED
    BY <1>1, <2>1, <2>2, TakesNothing
<1> QED
  BY <1>4, <1>5, <1>6

\* The fields in order, zeros too.
LEMMA ZerosTake ==
  ASSUME NEW l \in 1 .. 3, Lower(l), NEW fields, Laid(l, fields), NEW m, Sound(l, fields, m), NEW d,
         d = FlattenSeq([k \in DOMAIN fields |->
                           IF m[k] = Zero(fields[k]) THEN ZeroField(fields[k]) ELSE Chunk(l, fields, m)[k]])
  PROVE  d \in Seq(Octet) /\ Takes(l, fields, d, Empty(fields), m)
<1>0. Len(fields) \in Nat /\ DOMAIN fields = 1 .. Len(fields) /\ Numbered(fields)
  BY ChunkIs, LaidIs
<1>1. PICK C, n : C = Chunk(l, fields, m) /\ n = Len(fields) /\ n \in Nat
  BY <1>0
<1>2. PICK P : P = [k \in 1 .. n |-> IF m[k] = Zero(fields[k]) THEN ZeroField(fields[k]) ELSE C[k]]
  OBVIOUS
<1>3. d = FlattenSeq(P)
  BY <1>0, <1>1, <1>2
<1>4. ASSUME NEW k \in 1 .. n
      PROVE  P[k] \in Seq(Octet) /\ Takes(l, fields, P[k], Upto(fields, m, 1 .. k - 1), Upto(fields, m, 1 .. k))
  <2>1. PICK K, L : K = 1 .. k - 1 /\ L = 1 .. k
    OBVIOUS
  <2>2. k \in DOMAIN fields /\ k \in 1 .. Len(fields) /\ L = K \cup {k} /\ k \notin K
    BY <1>0, <1>1, <2>1
  <2>3. CASE m[k] = Zero(fields[k])
    <3>1. P[k] = ZeroField(fields[k])
      BY <1>2, <2>3
    <3>2. PICK a : a = Upto(fields, m, K)
      OBVIOUS
    <3>3. Upto(fields, m, L) = a
      <4>1. \A j \in DOMAIN fields :
              (IF j \in K THEN m[j] ELSE Zero(fields[j])) = (IF j \in L THEN m[j] ELSE Zero(fields[j]))
        BY <2>2, <2>3
      <4> QED
        BY <3>2, <4>1 DEF Upto
    <3>4. ZeroField(fields[k]) \in Seq(Octet) /\ Takes(l, fields, ZeroField(fields[k]), a, a)
      BY <1>0, <2>2, <2>3, <3>2, ZeroFieldTakes
    <3> QED
      BY <2>1, <3>1, <3>2, <3>3, <3>4
  <2>4. CASE m[k] # Zero(fields[k])
    <3>1. P[k] = C[k]
      BY <1>2, <2>4
    <3>2. C[k] = EncodeFieldAt(l, fields[k], m[k])
      BY <1>1, <2>2, ChunkIs
    <3>3. /\ EncodeFieldAt(l, fields[k], m[k]) \in Seq(Octet)
          /\ Takes(l, fields, EncodeFieldAt(l, fields[k], m[k]), Upto(fields, m, K), Upto(fields, m, L))
      BY <2>2, FieldTakes
    <3> QED
      BY <2>1, <3>1, <3>2, <3>3
  <2> QED
    BY <2>3, <2>4
<1>5. P \in Seq(Seq(Octet)) /\ Len(P) = n
  <2>1. P = [k \in 1 .. n |-> P[k]]
    BY <1>2
  <2>2. P \in [1 .. n -> Seq(Octet)]
    BY <1>4, <2>1
  <2> QED
    BY <1>1, <2>2
<1>6. PICK M : M = [j \in 0 .. n |-> Upto(fields, m, 1 .. j)]
  OBVIOUS
<1>7. ASSUME NEW j \in 1 .. Len(P) PROVE Takes(l, fields, P[j], M[j - 1], M[j])
  <2>1. j \in 0 .. n /\ j - 1 \in 0 .. n /\ j \in 1 .. n
    BY <1>1, <1>5
  <2>2. M[j - 1] = Upto(fields, m, 1 .. j - 1) /\ M[j] = Upto(fields, m, 1 .. j)
    BY <1>6, <2>1
  <2> QED
    BY <1>4, <2>1, <2>2
<1>8. FlattenSeq(P) \in Seq(Octet) /\ Takes(l, fields, FlattenSeq(P), M[0], M[Len(P)])
  BY <1>5, <1>7, TakesAll
<1>9. M[0] = Empty(fields)
  <2>1. 1 .. 0 = {} /\ 0 \in 0 .. n
    BY <1>1
  <2>2. M[0] = Upto(fields, m, 1 .. 0)
    BY <1>6, <2>1
  <2> QED
    BY <2>1, <2>2, UptoNone
<1>10. M[Len(P)] = m
  <2>1. n \in 0 .. n
    BY <1>1
  <2>2. M[n] = Upto(fields, m, 1 .. n)
    BY <1>6, <2>1
  <2>3. Upto(fields, m, 1 .. n) = m
    BY <1>0, <1>1, UptoAll, SoundIs
  <2> QED
    BY <1>5, <2>2, <2>3
<1> QED
  BY <1>3, <1>8, <1>9, <1>10

-----------------------------------------------------------------------------
(* Where chunks end *)

\* Joined chunks grow.
LEMMA JoinedGrows ==
  ASSUME NEW P \in Seq(Seq(Octet)), NEW F, Joined(P, F), NEW q \in 0 .. Len(P), NEW r \in q .. Len(P)
  PROVE  Len(F[q]) \in Nat /\ Len(F[r]) \in Nat /\ Len(F[q]) <= Len(F[r])
<1>0. Len(P) \in Nat /\ \A j \in 1 .. Len(P) : P[j] \in Seq(Octet)
  BY LenProperties, ElementOfSeq
<1>1. \A j \in 0 .. Len(P) : F[j] \in Seq(Octet) /\ Len(F[j]) \in Nat
  BY LenProperties DEF Joined
<1>2. PICK S : S = {n \in Nat : q + n <= Len(P) => Len(F[q]) <= Len(F[q + n])}
  OBVIOUS
<1>3. ASSUME NEW n \in Nat, \A i \in 0 .. n - 1 : i \in S PROVE n \in S
  <2>1. CASE n = 0
    <3>1. q + n = q
      BY <2>1
    <3> QED
      BY <1>1, <1>2, <3>1
  <2>2. CASE n # 0 /\ q + n <= Len(P)
    <3>1. n - 1 \in 0 .. n - 1 /\ q + (n - 1) <= Len(P)
      BY <1>0, <2>2
    <3>2. Len(F[q]) <= Len(F[q + (n - 1)])
      BY <1>2, <1>3, <3>1
    <3>3. PICK k : k = q + n
      OBVIOUS
    <3>4. k \in 1 .. Len(P) /\ k - 1 = q + (n - 1) /\ k - 1 \in 0 .. Len(P) /\ k \in 0 .. Len(P) /\ q \in 0 .. Len(P)
      BY <1>0, <2>2, <3>1, <3>3
    <3>5. F[k] = F[k - 1] \o P[k]
      BY <3>4 DEF Joined
    <3>6. Len(F[k]) = Len(F[k - 1]) + Len(P[k]) /\ Len(P[k]) \in Nat
      <4>1. F[k - 1] \in Seq(Octet) /\ P[k] \in Seq(Octet)
        BY <1>0, <1>1, <3>4
      <4> QED
        BY <3>5, <4>1, ConcatProperties, LenProperties
    <3>7. PICK x \in Nat, y \in Nat, z \in Nat : x = Len(F[q]) /\ y = Len(F[k - 1]) /\ z = Len(P[k])
      BY <1>1, <3>4, <3>6
    <3>8. x <= y + z
      <4>1. Len(F[q]) <= Len(F[k - 1])
        BY <3>2, <3>4
      <4>2. x <= y
        BY <3>7, <4>1
      <4>3. \A a, b, c \in Nat : a <= b => a <= b + c
        OBVIOUS
      <4> QED
        BY <4>2, <4>3
    <3> QED
      BY <1>2, <3>3, <3>6, <3>7, <3>8
  <2>3. CASE ~(q + n <= Len(P))
    BY <1>2, <2>3
  <2> QED
    BY <2>1, <2>2, <2>3
<1>4. Nat \subseteq S
  BY <1>3, Induction
<1>5. PICK n : n = r - q
  OBVIOUS
<1>6. n \in Nat /\ q + n = r /\ r \in 0 .. Len(P)
  BY <1>0, <1>5
<1>7. Len(F[q]) <= Len(F[q + n])
  <2>1. n \in S /\ q + n <= Len(P)
    BY <1>0, <1>4, <1>6
  <2> QED
    BY <1>2, <2>1
<1>8. q \in 0 .. Len(P)
  OBVIOUS
<1> QED
  BY <1>1, <1>6, <1>7, <1>8

\* An input that ends within chunks ends within one of them, and has those before.
LEMMA CutWithin ==
  ASSUME NEW P \in Seq(Seq(Octet)), NEW F, Joined(P, F), NEW d \in Seq(Octet), NEW i, Begins(F[Len(P)], d, i)
  PROVE  \E j \in 1 .. Len(P) :
           Stands(F[j - 1], d, i) /\ i + Len(F[j - 1]) \in Nat /\ Begins(P[j], d, i + Len(F[j - 1]))
<1>0. Len(P) \in Nat /\ \A j \in 1 .. Len(P) : P[j] \in Seq(Octet)
  BY LenProperties, ElementOfSeq
<1>1. PICK S : S = {n \in Nat : n <= Len(P) /\ Begins(F[n], d, i) =>
                      \E j \in 1 .. n :
                        Stands(F[j - 1], d, i) /\ i + Len(F[j - 1]) \in Nat /\ Begins(P[j], d, i + Len(F[j - 1]))}
  OBVIOUS
<1>2. ASSUME NEW n \in Nat, \A k \in 0 .. n - 1 : k \in S PROVE n \in S
  <2> SUFFICES ASSUME n <= Len(P), Begins(F[n], d, i)
               PROVE  \E j \in 1 .. n :
                        Stands(F[j - 1], d, i) /\ i + Len(F[j - 1]) \in Nat /\ Begins(P[j], d, i + Len(F[j - 1]))
    BY <1>1
  <2>1. n # 0
    <3>1. ASSUME n = 0 PROVE FALSE
      <4>1. F[0] = <<>> /\ Len(<<>>) = 0
        BY EmptySeq DEF Joined
      <4>2. i \in Nat /\ i <= Len(d) /\ Len(d) < i + Len(F[n])
        BY DEF Begins
      <4>3. Len(d) \in Nat
        BY LenProperties
      <4> QED
        BY <3>1, <4>1, <4>2, <4>3
    <3> QED
      BY <3>1
  <2>2. n \in 1 .. n /\ n \in 1 .. Len(P) /\ n - 1 \in 0 .. n - 1 /\ n - 1 \in 0 .. Len(P) /\ n - 1 <= Len(P) /\ n - 1 \in Nat
    BY <1>0, <2>1
  <2>3. F[n] = F[n - 1] \o P[n] /\ F[n - 1] \in Seq(Octet) /\ P[n] \in Seq(Octet)
    BY <1>0, <2>2 DEF Joined
  <2>4. PICK a \in Seq(Octet), b \in Seq(Octet) : a = F[n - 1] /\ b = P[n]
    BY <2>3
  <2>5. Begins(a, d, i) \/ (Stands(a, d, i) /\ i + Len(a) \in Nat /\ Begins(b, d, i + Len(a)))
    <3>1. Begins(a \o b, d, i)
      BY <2>3, <2>4
    <3> QED
      BY <3>1, BeginsConcat
  <2>6. CASE Begins(a, d, i)
    <3>1. n - 1 \in S
      BY <1>2, <2>2
    <3>2. PICK j \in 1 .. n - 1 :
            Stands(F[j - 1], d, i) /\ i + Len(F[j - 1]) \in Nat /\ Begins(P[j], d, i + Len(F[j - 1]))
      BY <1>1, <2>2, <2>4, <2>6, <3>1
    <3>3. j \in 1 .. n
      OBVIOUS
    <3> QED
      BY <3>2, <3>3
  <2>7. CASE Stands(a, d, i) /\ i + Len(a) \in Nat /\ Begins(b, d, i + Len(a))
    BY <2>2, <2>4, <2>7
  <2> QED
    BY <2>5, <2>6, <2>7
<1>3. Nat \subseteq S
  BY <1>2, Induction
<1>4. Len(P) \in S
  BY <1>0, <1>3
<1> QED
  BY <1>0, <1>1, <1>4

\* The first bytes of e.
LEMMA CutBegins ==
  ASSUME NEW e \in Seq(Octet), NEW n \in 0 .. Len(e) - 1, NEW d, d = SubSeq(e, 1, n)
  PROVE  d \in Seq(Octet) /\ Len(d) = n /\ Begins(e, d, 0)
<1>0. Len(e) \in Nat
  BY LenProperties
<1>1. \A k \in 1 .. n : e[k] \in Octet
  <2>1. \A k \in 1 .. n : k \in 1 .. Len(e)
    BY <1>0
  <2> QED
    BY <2>1, ElementOfSeq
<1>2. /\ d \in Seq(Octet) /\ Len(d) = (IF 1 <= n THEN n - 1 + 1 ELSE 0)
      /\ \A k \in 1 .. n - 1 + 1 : d[k] = e[1 + k - 1]
  BY <1>0, <1>1, SubSeqProperties
<1>3. Len(d) = n
  BY <1>0, <1>2
<1>4. \A k \in 1 .. n : d[0 + k] = e[k]
  <2>1. \A k \in 1 .. n : k \in 1 .. n - 1 + 1 /\ 1 + k - 1 = k /\ 0 + k = k
    BY <1>0
  <2> QED
    BY <1>2, <2>1
<1>5. 0 <= Len(d) /\ Len(d) < 0 + Len(e) /\ Len(d) - 0 = n
  BY <1>0, <1>3
<1> QED
  BY <1>2, <1>3, <1>4, <1>5 DEF Begins

\* An input of two stretches is the one behind the other.
LEMMA StandsTogether ==
  ASSUME NEW a \in Seq(Octet), NEW b \in Seq(Octet), NEW d \in Seq(Octet), Stands(a, d, 0), Stands(b, d, Len(a)),
         Len(d) = Len(a) + Len(b)
  PROVE  d = a \o b
<1>1. PICK e : e = a \o b
  OBVIOUS
<1>2. /\ e \in Seq(Octet) /\ Len(e) = Len(a) + Len(b) /\ Len(a) \in Nat /\ Len(b) \in Nat
      /\ \A k \in 1 .. Len(a) + Len(b) : e[k] = IF k <= Len(a) THEN a[k] ELSE b[k - Len(a)]
  BY <1>1, ConcatProperties, LenProperties
<1>3. ASSUME NEW k \in 1 .. Len(d) PROVE d[k] = e[k]
  <2>1. CASE k <= Len(a)
    <3>1. k \in 1 .. Len(a) /\ 0 + k = k /\ k \in 1 .. Len(a) + Len(b)
      BY <1>2, <2>1
    <3>2. d[0 + k] = a[k]
      BY <3>1 DEF Stands
    <3> QED
      BY <1>2, <2>1, <3>1, <3>2
  <2>2. CASE ~(k <= Len(a))
    <3>1. PICK q : q = k - Len(a)
      OBVIOUS
    <3>2. q \in 1 .. Len(b) /\ Len(a) + q = k /\ k \in 1 .. Len(a) + Len(b)
      BY <1>2, <2>2, <3>1
    <3>3. d[Len(a) + q] = b[q]
      BY <3>2 DEF Stands
    <3> QED
      BY <1>2, <2>2, <3>1, <3>2, <3>3
  <2> QED
    BY <2>1, <2>2
<1>4. Len(e) = Len(d)
  BY <1>2
<1> QED
  BY <1>1, <1>2, <1>3, <1>4, SeqEqual

-----------------------------------------------------------------------------
(* A message whose end is missing *)

\* A value that has some of its parts only is written as these.
LEMMA PartialParts ==
  ASSUME NEW l \in 1 .. 3, Lower(l), NEW f, NEW v, Kept(l, f, v), v # Zero(f), NEW parts, parts = PartsAt(l, f, v),
         NEW j \in 1 .. Len(parts) - 1
  PROVE  PartsAt(l, f, SoFar(f, v, j)) = SubSeq(parts, 1, j)
<1>1. parts \in Seq(Seq(Octet)) /\ Len(parts) \in Nat
  <2>1. Adds(l, f, v, parts)
    BY KeptAdds DEF Lower
  <2> QED
    BY <2>1, LenProperties DEF Adds
<1>2. \A x : parts # <<x>>
  <2>1. \A x : Len(<<x>>) = 1
    OBVIOUS
  <2>2. Len(parts) # 1
    <3>1. PICK n : n = Len(parts) /\ n \in Nat /\ j \in 1 .. n - 1
      BY <1>1
    <3> QED
      BY <3>1
  <2> QED
    BY <2>1, <2>2
<1>3. Plain(f) \/ (l \in 2 .. 3 /\ Nests(f))
  BY DEF Kept
<1>4. f.kind \in {"strings", "messages"}
  <2>1. CASE Plain(f)
    <3>1. ~Numeric(f) /\ f.kind # "flag" /\ f.kind # "bytes"
      BY <1>2, PartsOfPlain
    <3> QED
      BY <2>1, <3>1 DEF Plain, Numeric
  <2>2. CASE l \in 2 .. 3 /\ Nests(f)
    <3>1. f.kind \notin {"message", "oneof"}
      BY <1>2, <2>2, PartsOfNested
    <3> QED
      BY <2>2, <3>1 DEF Nests
  <2> QED
    BY <1>3, <2>1, <2>2
<1>5. j \in Nat /\ j # 0 /\ j \in 1 .. Len(parts) /\ 1 <= j /\ j - 1 + 1 = j
  BY <1>1
<1>6. PICK w : w = SubSeq(v, 1, j)
  OBVIOUS
<1>7. SoFar(f, v, j) = w
  BY <1>4, <1>5, <1>6 DEF SoFar
<1>8. CASE f.kind = "strings"
  <2>1. parts = v
    BY <1>8, PartsOfPlain
  <2>2. \A i \in 1 .. j : v[i] \in Seq(Octet)
    BY <1>1, <2>1, ElementOfSeq
  <2>3. Len(w) = j
    BY <1>5, <1>6, <2>2, SubSeqProperties
  <2>4. w # Zero(f)
    <3>1. Zero(f) = <<>> /\ Len(<<>>) = 0
      BY <1>8, ZeroIs, EmptySeq
    <3> QED
      BY <1>5, <2>3, <3>1
  <2>5. PartsAt(l, f, w) = w
    BY <1>8, <2>4, PartsOfPlain
  <2> QED
    BY <1>6, <1>7, <2>1, <2>5
<1>9. CASE f.kind = "messages"
  <2>1. l \in 2 .. 3 /\ IsSeq(v)
    BY <1>3, <1>9 DEF Kept, Plain
  <2>2. PICK S : v \in Seq(S)
    BY <2>1 DEF IsSeq
  <2>3. DOMAIN v = 1 .. Len(v) /\ Len(v) \in Nat
    BY <2>2, LenProperties
  <2>4. parts = [i \in 1 .. Len(v) |-> EncodeAt(l - 1, f.fields, v[i])]
    BY <1>9, <2>1, <2>3, PartsOfNested
  <2>5. Len(parts) = Len(v)
    <3>1. DOMAIN parts = 1 .. Len(parts) /\ DOMAIN parts = 1 .. Len(v)
      BY <1>1, <2>4, LenProperties
    <3>2. PICK a, b : a = Len(parts) /\ b = Len(v) /\ a \in Nat /\ b \in Nat /\ 1 .. a = 1 .. b
      BY <1>1, <2>3, <3>1
    <3>3. a = b
      <4>1. a <= b
        <5>1. a = 0 \/ a \in 1 .. a
          BY <3>2
        <5> QED
          BY <3>2, <5>1
      <4>2. b <= a
        <5>1. b = 0 \/ b \in 1 .. b
          BY <3>2
        <5> QED
          BY <3>2, <5>1
      <4> QED
        BY <3>2, <4>1, <4>2
    <3> QED
      BY <3>2, <3>3
  <2>6. \A i \in 1 .. j : v[i] \in S /\ parts[i] \in Seq(Octet) /\ i \in 1 .. Len(v)
    <3>1. \A i \in 1 .. j : i \in 1 .. Len(v) /\ i \in 1 .. Len(parts)
      BY <1>1, <1>5, <2>5
    <3> QED
      BY <1>1, <2>2, <3>1, ElementOfSeq
  <2>7. w \in Seq(S) /\ Len(w) = j /\ \A i \in 1 .. j : w[i] = v[i]
    <3>1. /\ w \in Seq(S) /\ Len(w) = (IF 1 <= j THEN j - 1 + 1 ELSE 0)
          /\ \A i \in 1 .. j - 1 + 1 : w[i] = v[1 + i - 1]
      BY <1>5, <1>6, <2>6, SubSeqProperties
    <3>2. \A i \in 1 .. j : i \in 1 .. j - 1 + 1 /\ 1 + i - 1 = i
      BY <1>5
    <3> QED
      BY <1>5, <3>1, <3>2
  <2>8. PICK q : q = SubSeq(parts, 1, j)
    OBVIOUS
  <2>9. q \in Seq(Seq(Octet)) /\ Len(q) = j /\ \A i \in 1 .. j : q[i] = parts[i]
    <3>1. /\ q \in Seq(Seq(Octet)) /\ Len(q) = (IF 1 <= j THEN j - 1 + 1 ELSE 0)
          /\ \A i \in 1 .. j - 1 + 1 : q[i] = parts[1 + i - 1]
      BY <1>5, <2>6, <2>8, SubSeqProperties
    <3>2. \A i \in 1 .. j : i \in 1 .. j - 1 + 1 /\ 1 + i - 1 = i
      BY <1>5
    <3> QED
      BY <1>5, <3>1, <3>2
  <2>10. w # Zero(f)
    <3>1. Zero(f) = <<>> /\ Len(<<>>) = 0
      BY <1>9, ZeroIs, EmptySeq
    <3> QED
      BY <1>5, <2>7, <3>1
  <2>11. DOMAIN w = 1 .. j
    BY <2>7, LenProperties
  <2>12. PartsAt(l, f, w) = [i \in 1 .. j |-> EncodeAt(l - 1, f.fields, w[i])]
    BY <1>9, <2>1, <2>10, <2>11, PartsOfNested
  <2>13. \A i \in 1 .. j : q[i] = EncodeAt(l - 1, f.fields, w[i])
    BY <2>4, <2>6, <2>7, <2>9
  <2>14. q = [i \in 1 .. j |-> q[i]]
    BY <2>9, LenProperties
  <2> QED
    BY <1>7, <2>8, <2>12, <2>13, <2>14
<1> QED
  BY <1>4, <1>8, <1>9

\* The first chunks join to what there is of all after them.
LEMMA JoinedFirst ==
  ASSUME NEW P \in Seq(Seq(Octet)), NEW G, Joined(P, G), NEW j \in 0 .. Len(P), NEW Q \in Seq(Seq(Octet)), Len(Q) = j,
         \A i \in 1 .. j : Q[i] = P[i]
  PROVE  FlattenSeq(Q) = G[j]
<1>1. Len(P) \in Nat
  BY LenProperties
<1>2. PICK F : F = [i \in 0 .. j |-> G[i]]
  OBVIOUS
<1>3. F \in [0 .. j -> Seq(Octet)] /\ F[0] = <<>> /\ F[j] = G[j]
  <2>1. \A i \in 0 .. j : i \in 0 .. Len(P)
    BY <1>1
  <2>2. 0 \in 0 .. j /\ j \in 0 .. j
    BY <1>1
  <2> QED
    BY <1>2, <2>1, <2>2 DEF Joined
<1>4. ASSUME NEW i \in 1 .. j PROVE F[i] = F[i - 1] \o Q[i]
  <2>1. i \in 1 .. Len(P) /\ i \in 0 .. j /\ i - 1 \in 0 .. j
    BY <1>1
  <2>2. G[i] = G[i - 1] \o P[i]
    BY <2>1 DEF Joined
  <2> QED
    BY <1>2, <2>1, <2>2
<1>5. Joined(Q, F)
  BY <1>3, <1>4 DEF Joined
<1>6. FlattenSeq(Q) = F[Len(Q)]
  BY <1>5, FlattenIs
<1> QED
  BY <1>3, <1>6

\* A value with some of its parts is written as these: the chunk, cut.
LEMMA PartialChunk ==
  ASSUME NEW l \in 1 .. 3, Lower(l), NEW fields, Numbered(fields), NEW k \in DOMAIN fields, NEW m0, Open(fields, m0, k),
         NEW v, Kept(l, fields[k], v), v # Zero(fields[k]), NEW parts, parts = PartsAt(l, fields[k], v),
         NEW G, Joined(Tags(fields[k], parts), G), NEW j \in 0 .. Len(parts) - 1
  PROVE  EncodeFieldAt(l, fields[k], SoFar(fields[k], v, j)) = G[j]
<1>1. PICK f : f = fields[k]
  OBVIOUS
<1>2. Adds(l, f, v, parts)
  BY <1>1, KeptAdds DEF Lower
<1>3. PICK P : P = Tags(f, parts)
  OBVIOUS
<1>4. /\ P \in Seq(Seq(Octet)) /\ Len(P) = Len(parts) /\ Len(parts) \in Nat /\ parts \in Seq(Seq(Octet))
      /\ \A i \in 1 .. Len(parts) : P[i] = Tagged(f, parts[i])
  <2>1. /\ P \in Seq(Seq(Octet)) /\ Len(P) = Len(parts) /\ Len(parts) \in Nat
        /\ \A i \in 1 .. Len(parts) : P[i] = Tagged(f, parts[i])
    BY <1>1, <1>2, <1>3, TagsAre
  <2> QED
    BY <1>2, <2>1 DEF Adds
<1>5. CASE j = 0
  <2>1. EncodeFieldAt(l, f, Zero(f)) = <<>>
    BY ZeroChunk
  <2>2. SoFar(f, v, 0) = Zero(f)
    BY DEF SoFar
  <2>3. G[0] = <<>>
    BY DEF Joined
  <2> QED
    BY <1>1, <1>5, <2>1, <2>2, <2>3
<1>6. CASE j # 0
  <2>1. j \in 1 .. Len(parts) - 1 /\ j \in Nat /\ 1 <= j /\ j - 1 + 1 = j
    BY <1>4, <1>6
  <2>2. PICK q : q = SubSeq(parts, 1, j)
    OBVIOUS
  <2>3. PartsAt(l, f, SoFar(f, v, j)) = q
    BY <1>1, <2>1, <2>2, PartialParts
  <2>4. \A i \in 1 .. j : parts[i] \in Seq(Octet) /\ i \in 1 .. Len(parts)
    <3>1. \A i \in 1 .. j : i \in 1 .. Len(parts)
      BY <1>4, <2>1
    <3> QED
      BY <1>4, <3>1, ElementOfSeq
  <2>5. DOMAIN q = 1 .. j /\ \A i \in 1 .. j : q[i] = parts[i]
    <3>1. /\ q \in Seq(Seq(Octet)) /\ Len(q) = (IF 1 <= j THEN j - 1 + 1 ELSE 0)
          /\ \A i \in 1 .. j - 1 + 1 : q[i] = parts[1 + i - 1]
      BY <2>1, <2>2, <2>4, SubSeqProperties
    <3>2. \A i \in 1 .. j : i \in 1 .. j - 1 + 1 /\ 1 + i - 1 = i
      BY <2>1
    <3>3. DOMAIN q = 1 .. Len(q)
      BY <3>1, LenProperties
    <3> QED
      BY <2>1, <3>1, <3>2, <3>3
  <2>6. PICK Q : Q = Tags(f, q)
    OBVIOUS
  <2>7. Q = [i \in 1 .. j |-> P[i]]
    <3>1. \A i \in 1 .. j : Tagged(f, q[i]) = P[i]
      BY <1>4, <2>4, <2>5
    <3> QED
      BY <2>5, <2>6, <3>1 DEF Tags
  <2>8. \A i \in 1 .. j : P[i] \in Seq(Octet)
    BY <1>4, <2>4, ElementOfSeq
  <2>9. Q \in Seq(Seq(Octet)) /\ Len(Q) = j /\ \A i \in 1 .. j : Q[i] = P[i]
    <3>1. Q \in [1 .. j -> Seq(Octet)]
      BY <2>7, <2>8
    <3> QED
      BY <2>1, <2>7, <3>1
  <2>10. FlattenSeq(Q) = G[j]
    <3>1. j \in 0 .. Len(P) /\ Joined(P, G)
      BY <1>1, <1>3, <1>4, <2>1
    <3> QED
      BY <1>4, <2>9, <3>1, JoinedFirst, ZenonT(40)
  <2> QED
    BY <1>1, <2>3, <2>6, <2>10 DEF EncodeFieldAt
<1> QED
  BY <1>5, <1>6

\* m2 has the fields before k, which are x, and j of the parts of k, which are y.
Partial(l, fields, m, F, k, G, j, m2, x, y) ==
  /\ x = F[k - 1] /\ y = G[j]
  /\ Joined(Chunk(l, fields, m), F) /\ k \in 1 .. Len(fields) /\ m[k] # Zero(fields[k])
  /\ Joined(Tags(fields[k], PartsAt(l, fields[k], m[k])), G)
  /\ j \in 0 .. Len(PartsAt(l, fields[k], m[k])) - 1 /\ G[j] \in Seq(Octet)
  /\ m2[k] = SoFar(fields[k], m[k], j)
  /\ \A q \in DOMAIN fields : q # k => m2[q] = Upto(fields, m, 1 .. k - 1)[q]

\* A message that ends after some parts of a field is written as the bytes before
\* the cut.
LEMMA PartialEncode ==
  ASSUME NEW l \in 1 .. 3, Lower(l), NEW fields, Laid(l, fields), NEW m, Sound(l, fields, m),
         NEW F, NEW k, NEW G, NEW j, NEW m2, NEW x \in Seq(Octet), NEW y \in Seq(Octet),
         Partial(l, fields, m, F, k, G, j, m2, x, y), NEW e, e = x \o y
  PROVE  EncodeAt(l, fields, m2) = e
<1>p. PICK parts, a : parts = PartsAt(l, fields[k], m[k]) /\ a = Upto(fields, m, 1 .. k - 1)
  OBVIOUS
<1>h. /\ x = F[k - 1] /\ y = G[j]
      /\ Joined(Chunk(l, fields, m), F) /\ k \in 1 .. Len(fields) /\ m[k] # Zero(fields[k])
      /\ Joined(Tags(fields[k], parts), G) /\ j \in 0 .. Len(parts) - 1 /\ G[j] \in Seq(Octet)
      /\ m2[k] = SoFar(fields[k], m[k], j) /\ \A q \in DOMAIN fields : q # k => m2[q] = a[q]
  BY <1>p DEF Partial
<1>0. Len(fields) \in Nat /\ DOMAIN fields = 1 .. Len(fields) /\ Numbered(fields)
  BY ChunkIs, LaidIs
<1>1. PICK C, n : C = Chunk(l, fields, m) /\ n = Len(fields) /\ n \in Nat
  BY <1>0
<1>2. C \in Seq(Seq(Octet)) /\ Len(C) = n /\ \A q \in 1 .. n : C[q] = EncodeFieldAt(l, fields[q], m[q]) /\ C[q] \in Seq(Octet)
  <2>1. C \in Seq(Seq(Octet)) /\ Len(C) = n /\ \A q \in 1 .. n : C[q] = EncodeFieldAt(l, fields[q], m[q])
    BY <1>1, ChunkIs
  <2> QED
    BY <2>1, ElementOfSeq
<1>3. k \in DOMAIN fields /\ k \in 1 .. n
  BY <1>0, <1>1, <1>h
<1>4. PICK K : K = 1 .. k - 1 /\ a = Upto(fields, m, K)
  BY <1>p
<1>5. k \notin K
  BY <1>3, <1>4
<1>6. Open(fields, a, k)
  BY <1>3, <1>4, <1>5, <1>h, UptoOpen
<1>7. Kept(l, fields[k], m[k])
  BY <1>3, SoundIs
<1>8. EncodeFieldAt(l, fields[k], SoFar(fields[k], m[k], j)) = G[j]
  BY <1>0, <1>3, <1>6, <1>7, <1>h, <1>p, PartialChunk
<1>9. PICK C2 : C2 = Chunk(l, fields, m2)
  OBVIOUS
<1>10. C2 = [q \in 1 .. n |-> EncodeFieldAt(l, fields[q], m2[q])]
  BY <1>0, <1>1, <1>9 DEF Chunk
<1>12. ASSUME NEW q \in 1 .. n PROVE C2[q] = IF q < k THEN C[q] ELSE IF q = k THEN G[j] ELSE <<>>
  <2>1. CASE q = k
    <3>1. m2[q] = SoFar(fields[k], m[k], j)
      BY <1>h, <2>1
    <3> QED
      BY <1>8, <1>10, <2>1, <3>1
  <2>2. CASE q # k
    <3>1. m2[q] = a[q]
      BY <1>0, <1>1, <1>h, <2>2
    <3>2. a[q] = IF q \in K THEN m[q] ELSE Zero(fields[q])
      BY <1>0, <1>1, <1>4 DEF Upto
    <3>3. C2[q] = EncodeFieldAt(l, fields[q], a[q])
      BY <1>10, <3>1
    <3>4. CASE q < k
      <4>1. q \in K
        BY <1>3, <1>4, <3>4
      <4> QED
        BY <1>2, <3>2, <3>3, <3>4, <4>1
    <3>5. CASE ~(q < k)
      <4>1. q \notin K
        BY <1>3, <1>4, <3>5
      <4>2. EncodeFieldAt(l, fields[q], Zero(fields[q])) = <<>>
        BY ZeroChunk
      <4> QED
        BY <2>2, <3>2, <3>3, <3>5, <4>1, <4>2
    <3> QED
      BY <3>4, <3>5
  <2> QED
    BY <2>1, <2>2
<1>13. <<>> \in Seq(Octet)
  BY EmptySeq
<1>14. C2 \in Seq(Seq(Octet)) /\ Len(C2) = n
  <2>1. \A q \in 1 .. n : C2[q] \in Seq(Octet)
    BY <1>2, <1>12, <1>13, <1>h
  <2>2. C2 = [q \in 1 .. n |-> C2[q]]
    BY <1>10
  <2>3. C2 \in [1 .. n -> Seq(Octet)]
    BY <2>1, <2>2
  <2> QED
    BY <1>1, <2>3
<1>15. PICK b : b = F[k - 1] \o G[j]
  OBVIOUS
<1>16. F[k - 1] \in Seq(Octet) /\ b \in Seq(Octet)
  <2>1. k - 1 \in 0 .. Len(C) /\ Joined(C, F)
    BY <1>1, <1>2, <1>3, <1>h
  <2>2. F[k - 1] \in Seq(Octet)
    BY <2>1 DEF Joined
  <2> QED
    BY <1>15, <1>h, <2>2, ConcatProperties
<1>17. PICK F2 : F2 = [q \in 0 .. n |-> IF q < k THEN F[q] ELSE b]
  OBVIOUS
<1>18. F \in [0 .. n -> Seq(Octet)] /\ F[0] = <<>> /\ \A q \in 1 .. n : F[q] = F[q - 1] \o C[q]
  <2>1. Joined(C, F)
    BY <1>1, <1>h
  <2> QED
    BY <1>2, <2>1 DEF Joined
<1>19. F2 \in [0 .. n -> Seq(Octet)] /\ F2[0] = <<>> /\ F2[n] = b
  <2>1. 0 \in 0 .. n /\ n \in 0 .. n /\ 0 < k /\ ~(n < k)
    BY <1>1, <1>3
  <2> QED
    BY <1>16, <1>17, <1>18, <2>1
<1>20. ASSUME NEW q \in 1 .. n PROVE F2[q] = F2[q - 1] \o C2[q]
  <2>0. q \in 0 .. n /\ q - 1 \in 0 .. n
    BY <1>1
  <2>1. F2[q] = (IF q < k THEN F[q] ELSE b) /\ F2[q - 1] = (IF q - 1 < k THEN F[q - 1] ELSE b)
    BY <1>17, <2>0
  <2>2. CASE q < k
    <3>1. q - 1 < k
      BY <1>1, <1>3, <2>2
    <3> QED
      BY <1>12, <1>18, <2>1, <2>2, <3>1
  <2>3. CASE q = k
    <3>1. q - 1 < k /\ ~(q < k)
      BY <1>1, <1>3, <2>3
    <3> QED
      BY <1>12, <1>15, <2>1, <2>3, <3>1
  <2>4. CASE q > k
    <3>1. ~(q - 1 < k) /\ ~(q < k) /\ q # k
      BY <1>1, <1>3, <2>4
    <3>2. b \o <<>> = b
      BY <1>16, ConcatEmptySeq
    <3> QED
      BY <1>12, <2>1, <3>1, <3>2
  <2>5. q < k \/ q = k \/ q > k
    BY <1>1, <1>3
  <2> QED
    BY <2>2, <2>3, <2>4, <2>5
<1>21. Joined(C2, F2)
  BY <1>14, <1>19, <1>20 DEF Joined
<1>22. FlattenSeq(C2) = b
  BY <1>14, <1>19, <1>21, FlattenIs
<1> QED
  BY <1>9, <1>15, <1>22, <1>h, EncodeAtIs

\* The loop comes to the part in which the input ends, with what stands before it.
LEMMA ComesToCut ==
  ASSUME NEW l \in 1 .. 3, Lower(l), NEW fields, Laid(l, fields), NEW m, Sound(l, fields, m),
         NEW F, Joined(Chunk(l, fields, m), F), NEW k \in 1 .. Len(fields), m[k] # Zero(fields[k]),
         NEW parts, parts = PartsAt(l, fields[k], m[k]), NEW G, Joined(Tags(fields[k], parts), G),
         NEW j \in 1 .. Len(parts),
         NEW m2, m2 = [Upto(fields, m, 1 .. k - 1) EXCEPT ![k] = SoFar(fields[k], m[k], j - 1)],
         NEW d \in Seq(Octet), Fits(d), Stands(F[k - 1], d, 0), Stands(G[j - 1], d, Len(F[k - 1]))
  PROVE  Reached(l, fields, d, Empty(fields), Len(F[k - 1]) + Len(G[j - 1]), m2)
<1>0. Len(fields) \in Nat /\ DOMAIN fields = 1 .. Len(fields) /\ Numbered(fields)
  BY ChunkIs, LaidIs
<1>1. PICK C, n : C = Chunk(l, fields, m) /\ n = Len(fields) /\ n \in Nat
  BY <1>0
<1>2. C \in Seq(Seq(Octet)) /\ Len(C) = n /\ \A q \in 1 .. n : C[q] = EncodeFieldAt(l, fields[q], m[q])
  BY <1>1, ChunkIs, SMTT(30)
<1>3. k \in DOMAIN fields /\ k \in 1 .. n
  BY <1>0, <1>1
<1>4. PICK M : M = [q \in 0 .. n |-> Upto(fields, m, 1 .. q)]
  OBVIOUS
<1>5. ASSUME NEW q \in 1 .. Len(C) PROVE Takes(l, fields, C[q], M[q - 1], M[q])
  <2>1. q \in 0 .. n /\ q - 1 \in 0 .. n /\ q \in DOMAIN fields /\ q \in 1 .. n
    BY <1>0, <1>1, <1>2
  <2>2. M[q - 1] = Upto(fields, m, 1 .. q - 1) /\ M[q] = Upto(fields, m, 1 .. q)
    BY <1>4, <2>1
  <2>3. PICK K, L : K = 1 .. q - 1 /\ L = 1 .. q
    OBVIOUS
  <2>4. L = K \cup {q} /\ q \notin K
    BY <2>1, <2>3
  <2>5. Takes(l, fields, EncodeFieldAt(l, fields[q], m[q]), Upto(fields, m, K), Upto(fields, m, L))
    BY <2>1, <2>4, FieldTakes
  <2> QED
    BY <1>2, <2>1, <2>2, <2>3, <2>5
<1>6. PICK a : a = Upto(fields, m, 1 .. k - 1)
  OBVIOUS
<1>7. Takes(l, fields, F[k - 1], Empty(fields), a)
  <2>1. \A q \in 0 .. Len(C) : Takes(l, fields, F[q], M[0], M[q])
    <3>1. Joined(C, F)
      BY <1>1
    <3> QED
      BY <1>2, <1>5, <3>1, TakesJoined
  <2>2. k - 1 \in 0 .. Len(C) /\ k - 1 \in 0 .. n /\ 0 \in 0 .. n /\ 1 .. 0 = {}
    BY <1>1, <1>2, <1>3
  <2>3. M[k - 1] = a /\ M[0] = Upto(fields, m, {})
    BY <1>4, <1>6, <2>2
  <2> QED
    BY <2>1, <2>2, <2>3, UptoNone
<1>8. PICK f, v : f = fields[k] /\ v = m[k]
  OBVIOUS
<1>9. Open(fields, a, k)
  <2>1. PICK K : K = 1 .. k - 1
    OBVIOUS
  <2>2. k \notin K
    BY <1>3, <2>1
  <2> QED
    BY <1>3, <1>6, <2>1, <2>2, UptoOpen
<1>10. Adds(l, f, v, parts)
  <2>1. Kept(l, f, v)
    BY <1>3, <1>8, SoundIs
  <2> QED
    BY <1>8, <2>1, KeptAdds DEF Lower
<1>11. PICK P : P = Tags(f, parts)
  OBVIOUS
<1>12. P \in Seq(Seq(Octet)) /\ Len(P) = Len(parts) /\ Len(P) \in Nat /\ \A q \in 1 .. Len(parts) : P[q] = Tagged(f, parts[q])
  BY <1>0, <1>3, <1>8, <1>9, <1>10, <1>11, TagsAre, SMTT(30)
<1>13. PICK N : N = [q \in 0 .. Len(P) |-> [a EXCEPT ![k] = SoFar(f, v, q)]]
  OBVIOUS
<1>14. ASSUME NEW q \in 1 .. Len(P) PROVE Takes(l, fields, P[q], N[q - 1], N[q])
  <2>1. q \in 0 .. Len(P) /\ q - 1 \in 0 .. Len(P) /\ q \in 1 .. Len(parts)
    BY <1>12
  <2>2. N[q - 1] = [a EXCEPT ![k] = SoFar(f, v, q - 1)] /\ N[q] = [a EXCEPT ![k] = SoFar(f, v, q)]
    BY <1>13, <2>1
  <2>3. Takes(l, fields, Tagged(fields[k], parts[q]),
              [a EXCEPT ![k] = SoFar(fields[k], v, q - 1)], [a EXCEPT ![k] = SoFar(fields[k], v, q)])
    BY <1>0, <1>3, <1>8, <1>9, <1>10, <2>1, PartTakes
  <2> QED
    BY <1>8, <1>12, <2>1, <2>2, <2>3
<1>15. Takes(l, fields, G[j - 1], a, m2)
  <2>1. \A q \in 0 .. Len(P) : Takes(l, fields, G[q], N[0], N[q])
    <3>1. Joined(P, G)
      BY <1>8, <1>11
    <3> QED
      BY <1>12, <1>14, <3>1, TakesJoined
  <2>2. j - 1 \in 0 .. Len(P) /\ 0 \in 0 .. Len(P)
    BY <1>12
  <2>3. N[j - 1] = m2
    BY <1>6, <1>8, <1>13, <2>2
  <2>4. N[0] = a
    <3>1. SoFar(f, v, 0) = a[k]
      BY <1>8, <1>9 DEF SoFar, Open
    <3>2. [a EXCEPT ![k] = a[k]] = a
      BY <1>9 DEF Open
    <3>3. N[0] = [a EXCEPT ![k] = SoFar(f, v, 0)]
      BY <1>13, <2>2
    <3> QED
      BY <3>1, <3>2, <3>3
  <2> QED
    BY <2>1, <2>2, <2>3, <2>4
<1>16. PICK x, y : x = F[k - 1] /\ y = G[j - 1]
  OBVIOUS
<1>17. 0 + Len(x) = Len(x)
  <2>1. k - 1 \in 0 .. Len(C) /\ Joined(C, F)
    BY <1>1, <1>2, <1>3
  <2>2. x \in Seq(Octet)
    BY <1>16, <2>1 DEF Joined
  <2>3. Len(x) \in Nat
    BY <2>2, LenProperties
  <2> QED
    BY <2>3
<1>18. Reached(l, fields, d, Empty(fields), 0, Empty(fields))
  BY ReachedFirst
<1>19. Reached(l, fields, d, Empty(fields), Len(x), a)
  <2>1. Reached(l, fields, d, Empty(fields), 0 + Len(x), a)
    BY <1>7, <1>16, <1>18 DEF Takes
  <2> QED
    BY <1>17, <2>1
<1>20. Reached(l, fields, d, Empty(fields), Len(x) + Len(y), m2)
  BY <1>15, <1>16, <1>19 DEF Takes
<1> QED
  BY <1>16, <1>20

\* What is left of a message is an error, or all there is of another message.
CutRead(l, fields, d) ==
  \/ UnmarshalAt(l, fields, d, Empty(fields)) = Failed("eof")
  \/ \E m2 : UnmarshalAt(l, fields, d, Empty(fields)) = Read(m2, Len(d)) /\ EncodeAt(l, fields, m2) = d

\* Reading a message whose end is missing is the error eof, unless the cut is
\* between two parts: then the message so far is read, which is written as what is there.
LEMMA CutIsRead ==
  ASSUME NEW l \in 1 .. 3, Lower(l), NEW fields, Laid(l, fields), NEW m, Sound(l, fields, m),
         NEW e, e = EncodeAt(l, fields, m), Fits(e), NEW n \in 0 .. Len(e) - 1, NEW d, d = SubSeq(e, 1, n)
  PROVE  CutRead(l, fields, d)
<1>0. Len(fields) \in Nat /\ DOMAIN fields = 1 .. Len(fields) /\ Numbered(fields)
  BY ChunkIs, LaidIs
<1>1. PICK C : C = Chunk(l, fields, m)
  OBVIOUS
<1>2. C \in Seq(Seq(Octet)) /\ Len(C) = Len(fields) /\ \A q \in 1 .. Len(fields) : C[q] = EncodeFieldAt(l, fields[q], m[q])
  BY <1>1, ChunkIs
<1>3. PICK F : Joined(C, F)
  BY <1>2, JoinedExists
<1>4. e = F[Len(C)] /\ e \in Seq(Octet)
  BY <1>1, <1>2, <1>3, FlattenIs, EncodeAtIs
<1>5. d \in Seq(Octet) /\ Len(d) = n /\ Begins(e, d, 0) /\ Len(e) \in Nat /\ Len(d) \in Nat
  BY <1>4, CutBegins, LenProperties
<1>6. Short(Len(e)) /\ Fits(d)
  <2>1. Short(Len(e))
    BY <1>4, FitsIs
  <2>2. Len(d) <= Len(e)
    BY <1>5
  <2>3. Short(Len(d))
    BY <1>5, <2>1, <2>2, ShortIs
  <2> QED
    BY <1>5, <2>1, <2>3, FitsIs
<1>7. PICK k \in 1 .. Len(C) : Stands(F[k - 1], d, 0) /\ Begins(C[k], d, 0 + Len(F[k - 1]))
  <2>1. Begins(F[Len(C)], d, 0)
    BY <1>4, <1>5
  <2> QED
    BY <1>2, <1>3, <1>5, <2>1, CutWithin
<1>8. PICK f, v, a : f = fields[k] /\ v = m[k] /\ a = F[k - 1]
  OBVIOUS
<1>9. k \in 1 .. Len(fields) /\ k \in DOMAIN fields /\ C[k] = EncodeFieldAt(l, f, v) /\ k - 1 \in 0 .. Len(C) /\ k \in k - 1 .. Len(C)
      /\ Len(C) \in 0 .. Len(C) /\ k \in 0 .. Len(C) /\ Len(C) \in k .. Len(C)
  BY <1>0, <1>2, <1>8
<1>10. a \in Seq(Octet) /\ Len(a) \in Nat /\ Begins(C[k], d, Len(a))
  <2>1. a \in Seq(Octet)
    BY <1>3, <1>8, <1>9 DEF Joined
  <2>2. Len(a) \in Nat
    BY <2>1, LenProperties
  <2>3. 0 + Len(a) = Len(a)
    BY <2>2
  <2> QED
    BY <1>7, <1>8, <2>1, <2>2, <2>3
<1>11. v # Zero(f)
  <2>1. ASSUME v = Zero(f) PROVE FALSE
    <3>1. C[k] = <<>>
      BY <1>9, <2>1, ZeroChunk
    <3>2. Len(<<>>) = 0
      BY EmptySeq
    <3>3. Len(a) <= Len(d) /\ Len(d) < Len(a) + Len(C[k])
      BY <1>10 DEF Begins
    <3> QED
      BY <1>5, <1>10, <3>1, <3>2, <3>3
  <2> QED
    BY <2>1
<1>12. PICK parts, P : parts = PartsAt(l, f, v) /\ P = Tags(f, parts)
  OBVIOUS
<1>13. Kept(l, f, v) /\ Adds(l, f, v, parts)
  <2>1. Kept(l, f, v)
    BY <1>8, <1>9, SoundIs
  <2> QED
    BY <1>11, <1>12, <2>1, KeptAdds DEF Lower
<1>14. PICK K, b : K = 1 .. k - 1 /\ b = Upto(fields, m, K)
  OBVIOUS
<1>15. Open(fields, b, k)
  <2>1. k \notin K
    BY <1>9, <1>14
  <2> QED
    BY <1>8, <1>9, <1>11, <1>14, <2>1, UptoOpen
<1>16. P \in Seq(Seq(Octet)) /\ Len(P) = Len(parts) /\ Len(P) \in Nat /\ \A q \in 1 .. Len(parts) : P[q] = Tagged(f, parts[q])
  BY <1>0, <1>8, <1>9, <1>12, <1>13, <1>15, TagsAre, SMTT(30)
<1>17. PICK G : Joined(P, G)
  BY <1>16, JoinedExists
<1>18. C[k] = G[Len(P)]
  BY <1>9, <1>12, <1>16, <1>17, FlattenIs DEF EncodeFieldAt
<1>19. PICK j \in 1 .. Len(P) : Stands(G[j - 1], d, Len(a)) /\ Begins(P[j], d, Len(a) + Len(G[j - 1]))
  <2>1. Begins(G[Len(P)], d, Len(a))
    BY <1>10, <1>18
  <2> QED
    BY <1>5, <1>16, <1>17, <2>1, CutWithin
<1>20. PICK c, m2 : c = G[j - 1] /\ m2 = [b EXCEPT ![k] = SoFar(f, v, j - 1)]
  OBVIOUS
<1>21. j \in 1 .. Len(parts) /\ j - 1 \in 0 .. Len(parts) - 1 /\ j - 1 \in 0 .. Len(P) /\ j \in 0 .. Len(P) /\ Len(P) \in j .. Len(P)
  BY <1>16
<1>22. c \in Seq(Octet) /\ Len(c) \in Nat
  <2>1. c \in Seq(Octet)
    BY <1>17, <1>20, <1>21 DEF Joined
  <2> QED
    BY <2>1, LenProperties
<1>23. PICK y : y = Len(a) + Len(c)
  OBVIOUS
<1>24. Reached(l, fields, d, Empty(fields), y, m2)
  <2>1. Joined(Chunk(l, fields, m), F) /\ m[k] # Zero(fields[k]) /\ parts = PartsAt(l, fields[k], m[k])
        /\ Joined(Tags(fields[k], parts), G)
    BY <1>1, <1>3, <1>8, <1>11, <1>12, <1>17
  <2>2. m2 = [Upto(fields, m, 1 .. k - 1) EXCEPT ![k] = SoFar(fields[k], m[k], j - 1)]
    BY <1>8, <1>14, <1>20
  <2>3. Stands(F[k - 1], d, 0) /\ Stands(G[j - 1], d, Len(F[k - 1]))
    BY <1>7, <1>8, <1>19
  <2>4. Reached(l, fields, d, Empty(fields), Len(F[k - 1]) + Len(G[j - 1]), m2)
    BY <1>5, <1>6, <1>9, <1>21, <2>1, <2>2, <2>3, ComesToCut
  <2> QED
    BY <1>8, <1>20, <1>23, <2>4
<1>25. CASE y = Len(d)
  <2>1. UnmarshalAt(l, fields, d, Empty(fields)) = Read(m2, Len(d))
    <3>1. Reached(l, fields, d, Empty(fields), Len(d), m2)
      BY <1>24, <1>25
    <3>2. \A x, z : Reached(l, fields, d, x, Len(d), z) => UnmarshalAt(l, fields, d, x) = Read(z, Len(d))
      BY <1>5, ReachedEnd, Zenon
    <3> QED
      BY <3>1, <3>2
  <2>2. d = a \o c
    BY <1>5, <1>7, <1>8, <1>10, <1>19, <1>20, <1>22, <1>23, <1>25, StandsTogether
  <2>3. EncodeAt(l, fields, m2) = a \o c
    <3>1. Joined(Chunk(l, fields, m), F) /\ m[k] # Zero(fields[k]) /\ parts = PartsAt(l, fields[k], m[k])
          /\ Joined(Tags(fields[k], parts), G)
      BY <1>1, <1>3, <1>8, <1>11, <1>12, <1>17
    <3>2. PICK h : h = j - 1
      OBVIOUS
    <3>3. h \in 0 .. Len(parts) - 1 /\ G[h] \in Seq(Octet)
      BY <1>20, <1>21, <1>22, <3>2
    <3>4. b = Upto(fields, m, 1 .. k - 1)
      BY <1>14
    <3>5. m2[k] = SoFar(fields[k], m[k], h) /\ \A q \in DOMAIN fields : q # k => m2[q] = b[q]
      BY <1>8, <1>9, <1>15, <1>20, <3>2 DEF Open
    <3>6. a = F[k - 1] /\ c = G[h]
      BY <1>8, <1>20, <3>2
    <3>7. Partial(l, fields, m, F, k, G, h, m2, a, c)
      BY <1>9, <3>1, <3>3, <3>4, <3>5, <3>6 DEF Partial
    <3> QED
      BY <1>10, <1>22, <3>7, PartialEncode
  <2> QED
    BY <2>1, <2>2, <2>3 DEF CutRead
<1>26. CASE y # Len(d)
  <2>1. PICK p \in Seq(Octet) : p = parts[j]
    BY <1>13, <1>21, ElementOfSeq DEF Adds
  <2>2. P[j] = Tagged(f, p)
    BY <1>16, <1>21, <2>1
  <2>3. Begins(Tagged(f, p), d, y) /\ y < Len(d)
    <3>1. Begins(P[j], d, y)
      BY <1>19, <1>20, <1>23
    <3>2. y <= Len(d)
      BY <3>1 DEF Begins
    <3> QED
      BY <1>5, <1>10, <1>22, <1>23, <1>26, <2>2, <3>1, <3>2
  <2>4. Delimited(f) \/ \E w \in 0 .. Words - 1 : p = EncodeVarint[w]
    <3>1. CASE ~Delimited(f)
      <4>1. PICK w \in 0 .. Words - 1 : parts = <<EncodeVarint[w]>>
        BY <1>13, <3>1 DEF Adds
      <4>2. PICK z : z = EncodeVarint[w]
        OBVIOUS
      <4>3. Len(<<z>>) = 1 /\ <<z>>[1] = z
        OBVIOUS
      <4>4. j = 1
        BY <1>21, <4>1, <4>2, <4>3
      <4> QED
        BY <2>1, <4>1, <4>2, <4>3, <4>4
    <3> QED
      BY <3>1
  <2>5. Short(y + Len(Tagged(f, p)))
    <3>1. G[j] = c \o P[j] /\ F[k] = a \o C[k] /\ P[j] \in Seq(Octet) /\ C[k] \in Seq(Octet)
      <4>1. G[j] = c \o P[j] /\ F[k] = a \o C[k]
        BY <1>3, <1>8, <1>9, <1>17, <1>20, <1>21 DEF Joined
      <4> QED
        BY <1>2, <1>9, <1>16, <1>21, <4>1, ElementOfSeq
    <3>2. Len(G[j]) = Len(c) + Len(P[j]) /\ Len(F[k]) = Len(a) + Len(C[k])
      BY <1>10, <1>22, <3>1, ConcatProperties
    <3>3. Len(G[j]) \in Nat /\ Len(G[Len(P)]) \in Nat /\ Len(G[j]) <= Len(G[Len(P)])
      BY <1>16, <1>17, <1>21, JoinedGrows
    <3>4. Len(F[k]) \in Nat /\ Len(F[k]) <= Len(F[Len(C)])
      BY <1>2, <1>3, <1>9, JoinedGrows
    <3>5. Len(P[j]) \in Nat /\ Len(C[k]) \in Nat
      BY <3>1, LenProperties
    <3>6. PICK x : x = y + Len(P[j])
      OBVIOUS
    <3>7. x \in Nat /\ x <= Len(e)
      <4>1. PICK g, h, i, o : g = Len(P[j]) /\ h = Len(C[k]) /\ i = Len(a) /\ o = Len(c)
        OBVIOUS
      <4>2. g \in Nat /\ h \in Nat /\ i \in Nat /\ o \in Nat /\ o + g <= h /\ i + h <= Len(e)
        BY <1>4, <1>10, <1>18, <1>22, <3>2, <3>3, <3>4, <3>5, <4>1
      <4>3. x = (i + o) + g
        BY <1>23, <3>6, <4>1
      <4> QED
        BY <1>5, <4>2, <4>3
    <3>8. Short(x)
      BY <1>5, <1>6, <3>7, ShortIs
    <3> QED
      BY <2>2, <3>6, <3>8
  <2>6. FieldAt(fields, d, y) = Bad("eof")
    BY <1>0, <1>5, <1>8, <1>9, <2>1, <2>3, <2>4, <2>5, FieldIsCut, Zenon
  <2>7. UnmarshalAt(l, fields, d, Empty(fields)) = Failed("eof")
    BY <1>5, <1>24, <1>26, <2>6, ReachedCut
  <2> QED
    BY <2>7 DEF CutRead
<1> QED
  BY <1>25, <1>26

-----------------------------------------------------------------------------
(* Size counts what MarshalToSizedBuffer writes *)

\* The lengths of chunks add up to the length of what they join to.
LEMMA TotalIs ==
  ASSUME NEW P \in Seq(Seq(Octet)), NEW s, s = [i \in 1 .. Len(P) |-> Len(P[i])]
  PROVE  Total(s) = Len(FlattenSeq(P))
<1>0. Len(P) \in Nat /\ \A j \in 1 .. Len(P) : P[j] \in Seq(Octet) /\ Len(P[j]) \in Nat
  BY LenProperties, ElementOfSeq
<1>1. PICK n : n = Len(P) /\ n \in Nat
  BY <1>0
<1>2. Len(s) = n
  <2>1. s \in [1 .. n -> Nat]
    BY <1>0, <1>1
  <2> QED
    BY <1>1, <2>1
<1>3. PICK F : Joined(P, F)
  BY JoinedExists
<1>4. \A i \in 0 .. n : F[i] \in Seq(Octet) /\ Len(F[i]) \in Nat
  BY <1>1, <1>3, LenProperties DEF Joined
<1>5. \A i \in 1 .. n : Len(F[i]) = Len(F[i - 1]) + s[i]
  <2>1. ASSUME NEW i \in 1 .. n PROVE Len(F[i]) = Len(F[i - 1]) + s[i]
    <3>1. i - 1 \in 0 .. n /\ i \in 1 .. Len(P)
      BY <1>1
    <3>2. F[i] = F[i - 1] \o P[i]
      BY <1>3, <3>1 DEF Joined
    <3>3. F[i - 1] \in Seq(Octet) /\ P[i] \in Seq(Octet)
      BY <1>0, <1>4, <3>1
    <3>4. Len(F[i]) = Len(F[i - 1]) + Len(P[i])
      BY <3>2, <3>3, ConcatProperties
    <3> QED
      BY <3>1, <3>4
  <2> QED
    BY <2>1
<1> DEFINE H(u) == [i \in 0 .. Len(s) |-> IF i = 0 THEN 0 ELSE u[i - 1] + s[i]]
<1>6. PICK g : g = [i \in 0 .. n |-> Len(F[i])]
  OBVIOUS
<1>7. g = H(g)
  <2>1. ASSUME NEW i \in 0 .. n PROVE g[i] = IF i = 0 THEN 0 ELSE g[i - 1] + s[i]
    <3>1. CASE i = 0
      <4>1. F[0] = <<>> /\ Len(<<>>) = 0
        BY <1>3, EmptySeq DEF Joined
      <4> QED
        BY <1>6, <3>1, <4>1
    <3>2. CASE i # 0
      <4>1. i \in 1 .. n /\ i - 1 \in 0 .. n
        BY <1>1, <3>2
      <4> QED
        BY <1>5, <1>6, <3>2, <4>1
    <3> QED
      BY <3>1, <3>2
  <2> QED
    BY <1>2, <1>6, <2>1
<1>8. PICK u : u = CHOOSE x : x = H(x)
  OBVIOUS
<1>9. u = H(u)
  <2> HIDE DEF H
  <2> QED
    BY <1>7, <1>8, Zenon
<1>10. Total(s) = u[n]
  BY <1>2, <1>8 DEF Total
<1>11. PICK S : S = {k \in Nat : k <= n => u[k] = Len(F[k])}
  OBVIOUS
<1>12. ASSUME NEW k \in Nat, \A i \in 0 .. k - 1 : i \in S PROVE k \in S
  <2>1. ASSUME k <= n PROVE u[k] = Len(F[k])
    <3>1. k \in 0 .. n
      BY <1>1, <2>1
    <3>2. u[k] = IF k = 0 THEN 0 ELSE u[k - 1] + s[k]
      BY <1>2, <1>9, <3>1
    <3>3. CASE k = 0
      <4>1. F[0] = <<>> /\ Len(<<>>) = 0
        BY <1>3, EmptySeq DEF Joined
      <4> QED
        BY <3>2, <3>3, <4>1
    <3>4. CASE k # 0
      <4>1. k - 1 \in 0 .. k - 1 /\ k - 1 <= n /\ k \in 1 .. n
        BY <1>1, <2>1, <3>4
      <4>2. u[k - 1] = Len(F[k - 1])
        BY <1>11, <1>12, <4>1
      <4>3. Len(F[k]) = Len(F[k - 1]) + s[k]
        BY <1>5, <4>1
      <4> QED
        BY <3>2, <3>4, <4>2, <4>3
    <3> QED
      BY <3>3, <3>4
  <2> QED
    BY <1>11, <2>1
<1>13. Nat \subseteq S
  BY <1>12, Induction
<1>14. u[n] = Len(F[n])
  <2>1. n \in S
    BY <1>1, <1>13
  <2> QED
    BY <1>1, <1>11, <2>1
<1>15. FlattenSeq(P) = F[n]
  BY <1>1, <1>3, FlattenIs
<1> QED
  BY <1>10, <1>14, <1>15

\* One chunk joins to itself.
LEMMA FlattenOne == ASSUME NEW c \in Seq(Octet) PROVE FlattenSeq(<<c>>) = c
<1>1. PICK P : P = <<c>>
  OBVIOUS
<1>2. P \in Seq(Seq(Octet)) /\ Len(P) = 1 /\ P[1] = c
  BY <1>1
<1>3. PICK F : F = [i \in 0 .. 1 |-> IF i = 0 THEN <<>> ELSE c]
  OBVIOUS
<1>4. <<>> \in Seq(Octet) /\ <<>> \o c = c
  BY EmptySeq, ConcatEmptySeq
<1>5. F \in [0 .. 1 -> Seq(Octet)] /\ F[0] = <<>> /\ F[1] = c
  BY <1>3, <1>4
<1>6. \A j \in 1 .. 1 : F[j] = F[j - 1] \o P[j]
  <2>1. \A j \in 1 .. 1 : j = 1 /\ j - 1 = 0
    OBVIOUS
  <2> QED
    BY <1>2, <1>4, <1>5, <2>1
<1>7. Joined(P, F)
  BY <1>2, <1>5, <1>6 DEF Joined
<1> QED
  BY <1>1, <1>2, <1>5, <1>7, FlattenIs

\* The bytes of a value that has a length before it.
OneSize(n) == 1 + n + sov(n)

\* The length of a value behind its tag.
LEMMA TaggedLength ==
  ASSUME NEW f, f.num \in 1 .. 15, NEW p \in Seq(Octet)
  PROVE  /\ Tagged(f, p) \in Seq(Octet)
         /\ Delimited(f) => Len(Tagged(f, p)) = OneSize(Len(p))
         /\ ~Delimited(f) => Len(Tagged(f, p)) = 1 + Len(p)
<1>1. Len(p) \in Nat /\ Tagged(f, p) \in Seq(Octet) /\ Len(Tagged(f, p)) = 1 + Len(Behind(f, p))
  BY TaggedIs, LenProperties
<1>2. PICK n \in Nat : n = Len(p)
  BY <1>1
<1>3. ASSUME Delimited(f) PROVE Len(Tagged(f, p)) = OneSize(n)
  <2>1. PICK e : e = EncodeVarint[n]
    OBVIOUS
  <2>2. e \in Seq(Octet) /\ Len(e) \in Nat /\ Len(e) = sov(n)
    BY <2>1, EncodeVarintIs, SovIsLength, LenProperties
  <2>3. Behind(f, p) = e \o p
    BY <1>2, <1>3, <2>1 DEF Behind
  <2>4. Len(e \o p) = Len(e) + n
    BY <1>2, <2>2, ConcatProperties
  <2> QED
    BY <1>1, <2>2, <2>3, <2>4 DEF OneSize
<1>4. ASSUME ~Delimited(f) PROVE Behind(f, p) = p
  BY <1>4 DEF Behind
<1> QED
  BY <1>1, <1>2, <1>3, <1>4

SizeAt(l, fields, m) ==
  IF l = 1 THEN LeafSize(fields, m) ELSE IF l = 2 THEN InnerSize(fields, m) ELSE Size(fields, m)

FieldSize1(f, v) == FieldSize(LAMBDA g, x : 0, f, v)
FieldSize2(f, v) == FieldSize(LeafSize, f, v)
FieldSize3(f, v) == FieldSize(InnerSize, f, v)

FieldSizeAt(l, f, v) == IF l = 1 THEN FieldSize1(f, v) ELSE IF l = 2 THEN FieldSize2(f, v) ELSE FieldSize3(f, v)

\* The size of a message is that of its fields.
LEMMA SizeAtIs ==
  ASSUME NEW l \in 1 .. 3, NEW fields, NEW m
  PROVE  SizeAt(l, fields, m) = Total([k \in DOMAIN fields |-> FieldSizeAt(l, fields[k], m[k])])
<1>1. CASE l = 1
  <2>1. SizeAt(l, fields, m) = LeafSize(fields, m)
    BY <1>1 DEF SizeAt
  <2>2. LeafSize(fields, m) = Total([k \in DOMAIN fields |-> FieldSize1(fields[k], m[k])])
    BY Zenon DEF LeafSize, SizeOf, FieldSize1
  <2>3. \A f, v : FieldSizeAt(l, f, v) = FieldSize1(f, v)
    BY <1>1 DEF FieldSizeAt
  <2> QED
    BY <2>1, <2>2, <2>3
<1>2. CASE l = 2
  <2>1. SizeAt(l, fields, m) = InnerSize(fields, m)
    BY <1>2 DEF SizeAt
  <2>2. InnerSize(fields, m) = Total([k \in DOMAIN fields |-> FieldSize2(fields[k], m[k])])
    BY DEF InnerSize, SizeOf, FieldSize2
  <2>3. \A f, v : FieldSizeAt(l, f, v) = FieldSize2(f, v)
    BY <1>2 DEF FieldSizeAt
  <2> QED
    BY <2>1, <2>2, <2>3
<1>3. CASE l = 3
  <2>1. SizeAt(l, fields, m) = Size(fields, m)
    BY <1>3 DEF SizeAt
  <2>2. Size(fields, m) = Total([k \in DOMAIN fields |-> FieldSize3(fields[k], m[k])])
    BY DEF Size, SizeOf, FieldSize3
  <2>3. \A f, v : FieldSizeAt(l, f, v) = FieldSize3(f, v)
    BY <1>3 DEF FieldSizeAt
  <2> QED
    BY <2>1, <2>2, <2>3
<1> QED
  BY <1>1, <1>2, <1>3

\* A zero has no size.
LEMMA FieldSizeOfZero == ASSUME NEW l, NEW f PROVE FieldSizeAt(l, f, Zero(f)) = 0
  BY DEF FieldSizeAt, FieldSize1, FieldSize2, FieldSize3, FieldSize

\* The size of a field that holds no message ...
LEMMA FieldSizeOfPlain ==
  ASSUME NEW l, NEW f, NEW v, v # Zero(f)
  PROVE  /\ Numeric(f) => FieldSizeAt(l, f, v) = 1 + sov(Widen(f, v))
         /\ f.kind = "flag" => FieldSizeAt(l, f, v) = 2
         /\ f.kind = "bytes" => FieldSizeAt(l, f, v) = OneSize(Len(v))
         /\ f.kind = "strings" => FieldSizeAt(l, f, v) = Total([i \in DOMAIN v |-> OneSize(Len(v[i]))])
<1>1. CASE Numeric(f)
  <2>1. f.kind # "flag" /\ f.kind # "bytes" /\ f.kind # "strings" /\ f.kind # "messages" /\ f.kind \notin {"message", "oneof"}
    BY <1>1 DEF Numeric
  <2>2. FieldSizeAt(l, f, v) = 1 + sov(Widen(f, v))
    BY <1>1, <2>1, Zenon DEF FieldSizeAt, FieldSize1, FieldSize2, FieldSize3, FieldSize
  <2> QED
    BY <2>1, <2>2
<1>2. CASE f.kind = "flag"
  <2>1. ~Numeric(f) /\ f.kind # "bytes" /\ f.kind # "strings" /\ f.kind # "messages" /\ f.kind \notin {"message", "oneof"}
    BY <1>2 DEF Numeric
  <2>2. FieldSizeAt(l, f, v) = 2
    BY <1>2, <2>1, Zenon DEF FieldSizeAt, FieldSize1, FieldSize2, FieldSize3, FieldSize
  <2> QED
    BY <2>1, <2>2
<1>3. CASE f.kind = "bytes"
  <2>1. ~Numeric(f) /\ f.kind # "flag" /\ f.kind # "strings" /\ f.kind # "messages" /\ f.kind \notin {"message", "oneof"}
    BY <1>3 DEF Numeric
  <2>2. FieldSizeAt(l, f, v) = OneSize(Len(v))
    BY <1>3, <2>1, Zenon DEF FieldSizeAt, FieldSize1, FieldSize2, FieldSize3, FieldSize, OneSize
  <2> QED
    BY <2>1, <2>2
<1>4. CASE f.kind = "strings"
  <2>1. ~Numeric(f) /\ f.kind # "flag" /\ f.kind # "bytes" /\ f.kind # "messages" /\ f.kind \notin {"message", "oneof"}
    BY <1>4 DEF Numeric
  <2>2. FieldSizeAt(l, f, v) = Total([i \in DOMAIN v |-> OneSize(Len(v[i]))])
    BY <1>4, <2>1, Zenon DEF FieldSizeAt, FieldSize1, FieldSize2, FieldSize3, FieldSize, OneSize
  <2> QED
    BY <2>1, <2>2
<1> QED
  BY <1>1, <1>2, <1>3, <1>4

\* ... and of one that does.
LEMMA FieldSizeOfNested ==
  ASSUME NEW l \in 2 .. 3, NEW f, NEW v, v # Zero(f)
  PROVE  /\ f.kind \in {"message", "oneof"} => FieldSizeAt(l, f, v) = OneSize(SizeAt(l - 1, f.fields, v))
         /\ f.kind = "messages" => FieldSizeAt(l, f, v) = Total([i \in DOMAIN v |-> OneSize(SizeAt(l - 1, f.fields, v[i]))])
<1>1. ASSUME f.kind \in {"message", "oneof"} PROVE FieldSizeAt(l, f, v) = OneSize(SizeAt(l - 1, f.fields, v))
  <2>1. ~Numeric(f) /\ f.kind # "flag" /\ f.kind # "bytes" /\ f.kind # "strings" /\ f.kind # "messages"
    BY <1>1 DEF Numeric
  <2>2. CASE l = 2
    <3>1. FieldSizeAt(2, f, v) = OneSize(SizeAt(1, f.fields, v))
      <4>1. 2 # 1
        OBVIOUS
      <4> QED
        BY <1>1, <2>1, <4>1, Zenon DEF FieldSizeAt, FieldSize1, FieldSize2, FieldSize3, FieldSize, OneSize, SizeAt
    <3>2. l - 1 = 1
      BY <2>2
    <3> QED
      BY <2>2, <3>1, <3>2
  <2>3. CASE l = 3
    <3>1. FieldSizeAt(3, f, v) = OneSize(SizeAt(2, f.fields, v))
      <4>1. 2 # 1 /\ 3 # 1 /\ 3 # 2
        OBVIOUS
      <4> QED
        BY <1>1, <2>1, <4>1, Zenon DEF FieldSizeAt, FieldSize1, FieldSize2, FieldSize3, FieldSize, OneSize, SizeAt
    <3>2. l - 1 = 2
      BY <2>3
    <3> QED
      BY <2>3, <3>1, <3>2
  <2> QED
    BY <2>2, <2>3
<1>2. ASSUME f.kind = "messages"
      PROVE  FieldSizeAt(l, f, v) = Total([i \in DOMAIN v |-> OneSize(SizeAt(l - 1, f.fields, v[i]))])
  <2>1. ~Numeric(f) /\ f.kind # "flag" /\ f.kind # "bytes" /\ f.kind # "strings" /\ f.kind \notin {"message", "oneof"}
    BY <1>2 DEF Numeric
  <2>2. CASE l = 2
    <3>1. FieldSizeAt(2, f, v) = Total([i \in DOMAIN v |-> OneSize(LeafSize(f.fields, v[i]))])
      <4>1. 2 # 1
        OBVIOUS
      <4> QED
        BY <1>2, <2>1, <4>1, Zenon DEF FieldSizeAt, FieldSize1, FieldSize2, FieldSize3, FieldSize, OneSize
    <3>2. \A x, y : SizeAt(l - 1, x, y) = LeafSize(x, y)
      BY <2>2 DEF SizeAt
    <3> QED
      BY <2>2, <3>1, <3>2
  <2>3. CASE l = 3
    <3>1. FieldSizeAt(3, f, v) = Total([i \in DOMAIN v |-> OneSize(InnerSize(f.fields, v[i]))])
      <4>1. 3 # 1 /\ 3 # 2
        OBVIOUS
      <4> QED
        BY <1>2, <2>1, <4>1, Zenon DEF FieldSizeAt, FieldSize1, FieldSize2, FieldSize3, FieldSize, OneSize
    <3>2. \A x, y : SizeAt(l - 1, x, y) = InnerSize(x, y)
      BY <2>3 DEF SizeAt
    <3> QED
      BY <2>3, <3>1, <3>2
  <2> QED
    BY <2>2, <2>3
<1> QED
  BY <1>1, <1>2

\* A level counts what it writes.
Counts(l) ==
  \A fields, m : Laid(l, fields) /\ Sound(l, fields, m) => SizeAt(l, fields, m) = Len(EncodeAt(l, fields, m))

CountsBelow(l) == l \in 2 .. 3 => Counts(l - 1)

\* The tags of a field's parts, and how long they are.
LEMMA TagsLength ==
  ASSUME NEW f, f.num \in 1 .. 15, Delimited(f), NEW parts \in Seq(Seq(Octet))
  PROVE  Len(FlattenSeq(Tags(f, parts))) = Total([i \in 1 .. Len(parts) |-> OneSize(Len(parts[i]))])
<1>1. Len(parts) \in Nat /\ DOMAIN parts = 1 .. Len(parts) /\ \A i \in 1 .. Len(parts) : parts[i] \in Seq(Octet)
  BY LenProperties, ElementOfSeq
<1>2. PICK n : n = Len(parts) /\ n \in Nat
  BY <1>1
<1>3. PICK P : P = Tags(f, parts)
  OBVIOUS
<1>4. P = [i \in 1 .. n |-> Tagged(f, parts[i])]
  BY <1>1, <1>2, <1>3 DEF Tags
<1>5. \A i \in 1 .. n : Tagged(f, parts[i]) \in Seq(Octet) /\ Len(Tagged(f, parts[i])) = OneSize(Len(parts[i]))
  <2>1. ASSUME NEW p \in Seq(Octet) PROVE Tagged(f, p) \in Seq(Octet) /\ Len(Tagged(f, p)) = OneSize(Len(p))
    BY TaggedLength
  <2> QED
    BY <1>1, <1>2, <2>1
<1>6. P \in Seq(Seq(Octet)) /\ Len(P) = n
  <2>1. n \in Nat
    BY <1>2
  <2>2. ASSUME NEW i \in 1 .. n PROVE P[i] \in Seq(Octet)
    BY <1>4, <1>5
  <2>3. P \in [1 .. n -> Seq(Octet)]
    BY <1>4, <2>2
  <2> QED
    BY <2>1, <2>3
<1>7. PICK s : s = [i \in 1 .. Len(P) |-> Len(P[i])]
  OBVIOUS
<1>8. Total(s) = Len(FlattenSeq(P))
  BY <1>6, <1>7, TotalIs
<1>9. s = [i \in 1 .. n |-> OneSize(Len(parts[i]))]
  BY <1>4, <1>5, <1>6, <1>7
<1> QED
  BY <1>2, <1>3, <1>8, <1>9

\* The length of a field that is written once.
LEMMA OnePartLength ==
  ASSUME NEW l, NEW f, f.num \in 1 .. 15, NEW v, NEW p \in Seq(Octet), PartsAt(l, f, v) = <<p>>
  PROVE  /\ Delimited(f) => Len(EncodeFieldAt(l, f, v)) = OneSize(Len(p))
         /\ ~Delimited(f) => Len(EncodeFieldAt(l, f, v)) = 1 + Len(p)
<1>1. PICK c : c = Tagged(f, p)
  OBVIOUS
<1>2. /\ c \in Seq(Octet)
      /\ Delimited(f) => Len(c) = OneSize(Len(p))
      /\ ~Delimited(f) => Len(c) = 1 + Len(p)
  BY <1>1, TaggedLength
<1>3. Tags(f, <<p>>) = <<c>>
  <2>1. Tags(f, <<p>>) = [i \in 1 .. 1 |-> Tagged(f, <<p>>[i])]
    BY DEF Tags
  <2>2. \A i \in 1 .. 1 : <<p>>[i] = p
    OBVIOUS
  <2>3. Tags(f, <<p>>) = [i \in 1 .. 1 |-> c]
    BY <1>1, <2>1, <2>2
  <2> QED
    BY <2>3
<1>4. EncodeFieldAt(l, f, v) = c
  BY <1>2, <1>3, FlattenOne DEF EncodeFieldAt
<1> QED
  BY <1>2, <1>4

\* The size of a field is the length of what is written of it.
LEMMA FieldSizeIs ==
  ASSUME NEW l \in 1 .. 3, CountsBelow(l), NEW f, f.num \in 1 .. 15, NEW v, Kept(l, f, v)
  PROVE  FieldSizeAt(l, f, v) = Len(EncodeFieldAt(l, f, v))
<1>1. CASE v = Zero(f)
  <2>1. EncodeFieldAt(l, f, v) = <<>> /\ Len(<<>>) = 0
    BY <1>1, ZeroChunk, EmptySeq
  <2> QED
    BY <1>1, <2>1, FieldSizeOfZero
<1>2. CASE v # Zero(f) /\ Numeric(f)
  <2>1. PICK w : w = Widen(f, v)
    OBVIOUS
  <2>2. w \in Nat
    <3>1. w \in 0 .. Words - 1
      BY <1>2, <2>1, WidenIs DEF Kept
    <3> QED
      BY <3>1
  <2>3. PICK p : p = EncodeVarint[w]
    OBVIOUS
  <2>4. p \in Seq(Octet) /\ Len(p) = sov(w)
    BY <2>2, <2>3, EncodeVarintIs, SovIsLength
  <2>5. PartsAt(l, f, v) = <<p>> /\ FieldSizeAt(l, f, v) = 1 + sov(w)
    <3>1. PartsAt(l, f, v) = <<p>>
      BY <1>2, <2>1, <2>3, PartsOfPlain
    <3>2. FieldSizeAt(l, f, v) = 1 + sov(w)
      BY <1>2, <2>1, FieldSizeOfPlain
    <3> QED
      BY <3>1, <3>2
  <2>6. ~Delimited(f)
    BY <1>2 DEF Numeric, Delimited
  <2> QED
    BY <2>4, <2>5, <2>6, OnePartLength
<1>3. CASE v # Zero(f) /\ f.kind = "flag"
  <2>1. PICK p : p = <<1>>
    OBVIOUS
  <2>2. p \in Seq(Octet) /\ Len(p) = 1
    BY <2>1 DEF Octet
  <2>3. PartsAt(l, f, v) = <<p>> /\ FieldSizeAt(l, f, v) = 2
    <3>1. PartsAt(l, f, v) = <<p>>
      BY <1>3, <2>1, PartsOfPlain
    <3>2. FieldSizeAt(l, f, v) = 2
      BY <1>3, FieldSizeOfPlain
    <3> QED
      BY <3>1, <3>2
  <2>4. ~Delimited(f)
    BY <1>3 DEF Delimited
  <2>5. Len(EncodeFieldAt(l, f, v)) = 1 + Len(p)
    BY <2>2, <2>3, <2>4, OnePartLength
  <2> QED
    BY <2>2, <2>3, <2>5
<1>4. CASE v # Zero(f) /\ f.kind = "bytes"
  <2>1. v \in Seq(Octet)
    BY <1>4 DEF Kept, Holds
  <2>2. PartsAt(l, f, v) = <<v>> /\ FieldSizeAt(l, f, v) = OneSize(Len(v))
    <3>1. PartsAt(l, f, v) = <<v>>
      BY <1>4, PartsOfPlain
    <3>2. FieldSizeAt(l, f, v) = OneSize(Len(v))
      BY <1>4, FieldSizeOfPlain
    <3> QED
      BY <3>1, <3>2
  <2>3. Delimited(f)
    BY <1>4 DEF Delimited
  <2> QED
    BY <2>1, <2>2, <2>3, OnePartLength
<1>5. CASE v # Zero(f) /\ f.kind = "strings"
  <2>1. v \in Seq(Seq(Octet))
    BY <1>5 DEF Kept, Holds
  <2>2. PartsAt(l, f, v) = v /\ FieldSizeAt(l, f, v) = Total([i \in DOMAIN v |-> OneSize(Len(v[i]))])
    <3>1. PartsAt(l, f, v) = v
      BY <1>5, PartsOfPlain
    <3>2. FieldSizeAt(l, f, v) = Total([i \in DOMAIN v |-> OneSize(Len(v[i]))])
      BY <1>5, FieldSizeOfPlain
    <3> QED
      BY <3>1, <3>2
  <2>3. Delimited(f) /\ DOMAIN v = 1 .. Len(v)
    BY <1>5, <2>1, LenProperties DEF Delimited
  <2>4. Len(FlattenSeq(Tags(f, v))) = Total([i \in 1 .. Len(v) |-> OneSize(Len(v[i]))])
    BY <2>1, <2>3, TagsLength
  <2> QED
    BY <2>2, <2>3, <2>4 DEF EncodeFieldAt
<1>6. CASE v # Zero(f) /\ ~Plain(f) /\ f.kind \in {"message", "oneof"}
  <2>1. l \in 2 .. 3 /\ Laid(l - 1, f.fields) /\ Sound(l - 1, f.fields, v)
    <3>1. v # None
      BY <1>6, ZeroIs
    <3> QED
      BY <1>6, <3>1 DEF Kept
  <2>2. PICK p : p = EncodeAt(l - 1, f.fields, v)
    OBVIOUS
  <2>3. l - 1 \in 1 .. 3
    BY <2>1
  <2>4. p \in Seq(Octet)
    BY <2>1, <2>2, <2>3, AllDecode DEF Decodes
  <2>5. SizeAt(l - 1, f.fields, v) = Len(p)
    BY <2>1, <2>2 DEF CountsBelow, Counts
  <2>6. PartsAt(l, f, v) = <<p>> /\ FieldSizeAt(l, f, v) = OneSize(Len(p))
    <3>1. PartsAt(l, f, v) = <<p>>
      BY <1>6, <2>1, <2>2, PartsOfNested
    <3>2. FieldSizeAt(l, f, v) = OneSize(Len(p))
      <4>1. FieldSizeAt(l, f, v) = OneSize(SizeAt(l - 1, f.fields, v))
        BY <1>6, <2>1, FieldSizeOfNested
      <4> QED
        BY <2>5, <4>1
    <3> QED
      BY <3>1, <3>2
  <2>7. Delimited(f)
    BY <1>6 DEF Delimited
  <2> QED
    BY <2>4, <2>6, <2>7, OnePartLength
<1>7. CASE v # Zero(f) /\ ~Plain(f) /\ f.kind = "messages"
  <2>1. l \in 2 .. 3 /\ Laid(l - 1, f.fields) /\ IsSeq(v) /\ \A i \in 1 .. Len(v) : Sound(l - 1, f.fields, v[i])
    BY <1>7 DEF Kept
  <2>2. PICK S : v \in Seq(S)
    BY <2>1 DEF IsSeq
  <2>3. PICK n : n = Len(v) /\ n \in Nat /\ DOMAIN v = 1 .. n
    BY <2>2, LenProperties
  <2>4. PICK parts : parts = [i \in 1 .. n |-> EncodeAt(l - 1, f.fields, v[i])]
    OBVIOUS
  <2>5. l - 1 \in 1 .. 3
    BY <2>1
  <2>6. ASSUME NEW i \in 1 .. n
        PROVE  /\ EncodeAt(l - 1, f.fields, v[i]) \in Seq(Octet)
               /\ SizeAt(l - 1, f.fields, v[i]) = Len(EncodeAt(l - 1, f.fields, v[i]))
    <3>1. Sound(l - 1, f.fields, v[i])
      BY <2>1, <2>3
    <3>2. EncodeAt(l - 1, f.fields, v[i]) \in Seq(Octet)
      BY <2>1, <2>5, <3>1, AllDecode DEF Decodes
    <3>3. SizeAt(l - 1, f.fields, v[i]) = Len(EncodeAt(l - 1, f.fields, v[i]))
      BY <2>1, <3>1 DEF CountsBelow, Counts
    <3> QED
      BY <3>2, <3>3
  <2>7. parts \in Seq(Seq(Octet)) /\ Len(parts) = n
    <3>1. parts \in [1 .. n -> Seq(Octet)]
      BY <2>4, <2>6
    <3> QED
      BY <2>3, <3>1
  <2>8. PartsAt(l, f, v) = parts /\ FieldSizeAt(l, f, v) = Total([i \in 1 .. n |-> OneSize(SizeAt(l - 1, f.fields, v[i]))])
    <3>1. PartsAt(l, f, v) = parts
      BY <1>7, <2>1, <2>3, <2>4, PartsOfNested
    <3>2. FieldSizeAt(l, f, v) = Total([i \in 1 .. n |-> OneSize(SizeAt(l - 1, f.fields, v[i]))])
      BY <1>7, <2>1, <2>3, FieldSizeOfNested
    <3> QED
      BY <3>1, <3>2
  <2>9. Delimited(f)
    BY <1>7 DEF Delimited
  <2>10. Len(FlattenSeq(Tags(f, parts))) = Total([i \in 1 .. Len(parts) |-> OneSize(Len(parts[i]))])
    BY <2>7, <2>9, TagsLength
  <2>11. [i \in 1 .. n |-> OneSize(SizeAt(l - 1, f.fields, v[i]))] = [i \in 1 .. Len(parts) |-> OneSize(Len(parts[i]))]
    BY <2>4, <2>6, <2>7
  <2> QED
    BY <2>8, <2>10, <2>11 DEF EncodeFieldAt
<1>8. Plain(f) \/ Nests(f)
  BY DEF Kept
<1> QED
  BY <1>1, <1>2, <1>3, <1>4, <1>5, <1>6, <1>7, <1>8 DEF Plain, Nests, Numeric

\* A level counts what it writes, if the level below does ...
LEMMA LevelCounts == ASSUME NEW l \in 1 .. 3, CountsBelow(l) PROVE Counts(l)
<1>1. ASSUME NEW fields, NEW m, Laid(l, fields), Sound(l, fields, m)
      PROVE  SizeAt(l, fields, m) = Len(EncodeAt(l, fields, m))
  <2>0. Lower(l)
    BY AllDecode
  <2>1. PICK P, n : P = Chunk(l, fields, m) /\ n = Len(fields)
    OBVIOUS
  <2>2. /\ n \in Nat /\ DOMAIN fields = 1 .. n /\ P \in Seq(Seq(Octet)) /\ Len(P) = n /\ Numbered(fields)
        /\ \A k \in 1 .. n : P[k] = EncodeFieldAt(l, fields[k], m[k])
    BY <1>1, <2>0, <2>1, ChunkIs, LaidIs
  <2>3. \A k \in 1 .. n : FieldSizeAt(l, fields[k], m[k]) = Len(P[k])
    <3>1. ASSUME NEW k \in DOMAIN fields PROVE FieldSizeAt(l, fields[k], m[k]) = Len(EncodeFieldAt(l, fields[k], m[k]))
      <4>1. fields[k].num \in 1 .. 15
        BY <2>2 DEF Numbered
      <4>2. Kept(l, fields[k], m[k])
        BY <1>1, SoundIs
      <4> QED
        BY <4>1, <4>2, FieldSizeIs
    <3> QED
      BY <2>2, <3>1
  <2>4. PICK s : s = [k \in 1 .. Len(P) |-> Len(P[k])]
    OBVIOUS
  <2>5. s = [k \in DOMAIN fields |-> FieldSizeAt(l, fields[k], m[k])]
    BY <2>2, <2>3, <2>4
  <2>6. Total(s) = Len(FlattenSeq(P))
    BY <2>2, <2>4, TotalIs
  <2> QED
    BY <2>1, <2>5, <2>6, SizeAtIs, EncodeAtIs
<1> QED
  BY <1>1 DEF Counts

\* ... and all levels do.
LEMMA AllCount == \A l \in 1 .. 3 : Counts(l)
<1>1. Counts(1)
  <2>1. CountsBelow(1)
    BY DEF CountsBelow
  <2> QED
    BY <2>1, LevelCounts
<1>2. Counts(2)
  <2>1. CountsBelow(2)
    BY <1>1 DEF CountsBelow
  <2> QED
    BY <2>1, LevelCounts
<1>3. Counts(3)
  <2>1. CountsBelow(3)
    BY <1>2 DEF CountsBelow
  <2> QED
    BY <2>1, LevelCounts
<1> QED
  BY <1>1, <1>2, <1>3

\* Marshal never panics, and returns what it has written: the buffer it fills from the end
\* has the size that it needs, for every message and all its values (dfs.pb.go:1707-1760).
THEOREM MarshalFillsItsBuffer ==
  ASSUME NEW fields, Laid(3, fields), NEW m, Sound(3, fields, m)
  PROVE  Marshal(fields, m) = [panic |-> FALSE, bytes |-> Encode(fields, m)]
<1>1. PICK e : e = Encode(fields, m)
  OBVIOUS
<1>2. EncodeAt(3, fields, m) = e /\ SizeAt(3, fields, m) = Size(fields, m)
  BY <1>1 DEF EncodeAt, SizeAt
<1>3. e \in Seq(Octet)
  BY <1>2, AllDecode DEF Decodes
<1>4. Size(fields, m) = Len(e)
  BY <1>2, AllCount DEF Counts
<1>5. Len(e) \in Nat
  BY <1>3, LenProperties
<1>6. Len(e) - Len(e) = 0
  BY <1>5
<1>7. SubSeq([i \in 1 .. 0 |-> 0] \o e, 1, Len(e)) = e
  <2>1. [i \in 1 .. 0 |-> 0] = <<>>
    OBVIOUS
  <2>2. <<>> \o e = e
    BY <1>3, ConcatEmptySeq
  <2> QED
    BY <1>3, <2>1, <2>2, SubSeqFull
<1>8. PICK free : free = Size(fields, m) - Len(Encode(fields, m))
  OBVIOUS
<1>9. free = 0 /\ ~(free < 0)
  BY <1>1, <1>4, <1>6, <1>8
<1>10. SubSeq([i \in 1 .. free |-> 0] \o Encode(fields, m), 1, Len(Encode(fields, m))) = Encode(fields, m)
  BY <1>1, <1>7, <1>9
<1>11. Marshal(fields, m) =
         IF free < 0 THEN [panic |-> TRUE, bytes |-> <<>>]
         ELSE [panic |-> FALSE,
               bytes |-> SubSeq([i \in 1 .. free |-> 0] \o Encode(fields, m), 1, Len(Encode(fields, m)))]
  BY <1>8 DEF Marshal
<1> QED
  BY <1>9, <1>10, <1>11

-----------------------------------------------------------------------------
(* The messages of the program are laid out as the proofs need it *)

\* What is a message of a level is one of the levels above.
LEMMA LaidGrows == \A x : (Laid1(x) => Laid2(x) /\ Laid3(x)) /\ (Laid2(x) => Laid3(x))
  BY DEF Laid1, Laid2, Laid3

\* The fields of WireMessages, and their numbers.
LEMMA FieldIs ==
  \A n, x :
    /\ Bytes(n).num = n /\ Plain(Bytes(n)) /\ Strings(n).num = n /\ Plain(Strings(n))
    /\ Word(n).num = n /\ Plain(Word(n)) /\ Half(n).num = n /\ Plain(Half(n))
    /\ Enum(n).num = n /\ Plain(Enum(n)) /\ Flag(n).num = n /\ Plain(Flag(n))
    /\ Message(n, x).num = n /\ Nests(Message(n, x)) /\ Message(n, x).fields = x
    /\ Messages(n, x).num = n /\ Nests(Messages(n, x)) /\ Messages(n, x).fields = x
    /\ OneOf(n, x).num = n /\ Nests(OneOf(n, x)) /\ OneOf(n, x).fields = x
  BY DEF Field, Bytes, Strings, Word, Half, Enum, Flag, Message, Messages, OneOf, Plain, Nests

\* The kinds of field that hold no message.
LEMMA PlainIs ==
  \A n : /\ Plain(Bytes(n)) /\ Plain(Strings(n)) /\ Plain(Word(n))
        /\ Plain(Half(n)) /\ Plain(Enum(n)) /\ Plain(Flag(n))
  BY FieldIs

\* A message without fields.
LEMMA Lists0 ==
  Listed(<<>>) /\ DOMAIN <<>> = {}
<1>1. PICK s : s = <<>>
  OBVIOUS
<1>2. s \in Seq({}) /\ Len(s) = 0 /\ DOMAIN s = 1 .. 0
  BY <1>1
<1> QED
  BY <1>1, <1>2 DEF Listed, IsSeq

\* A message of one field.
LEMMA Lists1 ==
  ASSUME NEW a, a.num = 1
  PROVE  Listed(<<a>>) /\ \A k \in DOMAIN <<a>> : <<a>>[k] \in {a}
<1>1. PICK s : s = <<a>>
  OBVIOUS
<1>2. s \in Seq({a}) /\ Len(s) = 1 /\ DOMAIN s = 1 .. 1
  BY <1>1
<1>3. s[1] = a
  BY <1>1
<1>4. \A k \in 1 .. 1 : s[k] \in {a} /\ s[k].num = k
  BY <1>3
<1>5. Listed(s) /\ \A k \in DOMAIN s : s[k] \in {a}
  BY <1>2, <1>4 DEF Listed, IsSeq
<1> QED
  BY <1>1, <1>5

\* A message of 2 fields.
LEMMA Lists2 ==
  ASSUME NEW a, NEW b, a.num = 1, b.num = 2
  PROVE  Listed(<<a, b>>) /\ \A k \in DOMAIN <<a, b>> : <<a, b>>[k] \in {a, b}
<1>1. PICK s : s = <<a, b>>
  OBVIOUS
<1>2. s \in Seq({a, b}) /\ Len(s) = 2 /\ DOMAIN s = 1 .. 2
  BY <1>1
<1>3. s[1] = a /\ s[2] = b
  BY <1>1
<1>4. \A k \in 1 .. 2 : s[k] \in {a, b} /\ s[k].num = k
  BY <1>3
<1>5. Listed(s) /\ \A k \in DOMAIN s : s[k] \in {a, b}
  BY <1>2, <1>4 DEF Listed, IsSeq
<1> QED
  BY <1>1, <1>5

\* A message of 3 fields.
LEMMA Lists3 ==
  ASSUME NEW a, NEW b, NEW c, a.num = 1, b.num = 2, c.num = 3
  PROVE  Listed(<<a, b, c>>) /\ \A k \in DOMAIN <<a, b, c>> : <<a, b, c>>[k] \in {a, b, c}
<1>1. PICK s : s = <<a, b, c>>
  OBVIOUS
<1>2. s \in Seq({a, b, c}) /\ Len(s) = 3 /\ DOMAIN s = 1 .. 3
  BY <1>1
<1>3. s[1] = a /\ s[2] = b /\ s[3] = c
  BY <1>1
<1>4. \A k \in 1 .. 3 : s[k] \in {a, b, c} /\ s[k].num = k
  BY <1>3
<1>5. Listed(s) /\ \A k \in DOMAIN s : s[k] \in {a, b, c}
  BY <1>2, <1>4 DEF Listed, IsSeq
<1> QED
  BY <1>1, <1>5

\* A message of 4 fields.
LEMMA Lists4 ==
  ASSUME NEW a, NEW b, NEW c, NEW d, a.num = 1, b.num = 2, c.num = 3, d.num = 4
  PROVE  Listed(<<a, b, c, d>>) /\ \A k \in DOMAIN <<a, b, c, d>> : <<a, b, c, d>>[k] \in {a, b, c, d}
<1>1. PICK s : s = <<a, b, c, d>>
  OBVIOUS
<1>2. s \in Seq({a, b, c, d}) /\ Len(s) = 4 /\ DOMAIN s = 1 .. 4
  BY <1>1
<1>3. s[1] = a /\ s[2] = b /\ s[3] = c /\ s[4] = d
  BY <1>1
<1>4. \A k \in 1 .. 4 : s[k] \in {a, b, c, d} /\ s[k].num = k
  BY <1>3
<1>5. Listed(s) /\ \A k \in DOMAIN s : s[k] \in {a, b, c, d}
  BY <1>2, <1>4 DEF Listed, IsSeq
<1> QED
  BY <1>1, <1>5

\* A message of 7 fields.
LEMMA Lists7 ==
  ASSUME NEW a, NEW b, NEW c, NEW d, NEW e, NEW f, NEW g, a.num = 1, b.num = 2, c.num = 3, d.num = 4, e.num = 5, f.num = 6, g.num = 7
  PROVE  Listed(<<a, b, c, d, e, f, g>>) /\ \A k \in DOMAIN <<a, b, c, d, e, f, g>> : <<a, b, c, d, e, f, g>>[k] \in {a, b, c, d, e, f, g}
<1>1. PICK s : s = <<a, b, c, d, e, f, g>>
  OBVIOUS
<1>2. s \in Seq({a, b, c, d, e, f, g}) /\ Len(s) = 7 /\ DOMAIN s = 1 .. 7
  BY <1>1
<1>3. s[1] = a /\ s[2] = b /\ s[3] = c /\ s[4] = d /\ s[5] = e /\ s[6] = f /\ s[7] = g
  BY <1>1
<1>4. \A k \in 1 .. 7 : s[k] \in {a, b, c, d, e, f, g} /\ s[k].num = k
  BY <1>3
<1>5. Listed(s) /\ \A k \in DOMAIN s : s[k] \in {a, b, c, d, e, f, g}
  BY <1>2, <1>4 DEF Listed, IsSeq
<1> QED
  BY <1>1, <1>5

\* A message of 8 fields.
LEMMA Lists8 ==
  ASSUME NEW a, NEW b, NEW c, NEW d, NEW e, NEW f, NEW g, NEW h, a.num = 1, b.num = 2, c.num = 3, d.num = 4, e.num = 5, f.num = 6, g.num = 7, h.num = 8
  PROVE  Listed(<<a, b, c, d, e, f, g, h>>) /\ \A k \in DOMAIN <<a, b, c, d, e, f, g, h>> : <<a, b, c, d, e, f, g, h>>[k] \in {a, b, c, d, e, f, g, h}
<1>1. PICK s : s = <<a, b, c, d, e, f, g, h>>
  OBVIOUS
<1>2. s \in Seq({a, b, c, d, e, f, g, h}) /\ Len(s) = 8 /\ DOMAIN s = 1 .. 8
  BY <1>1
<1>3. s[1] = a /\ s[2] = b /\ s[3] = c /\ s[4] = d /\ s[5] = e /\ s[6] = f /\ s[7] = g /\ s[8] = h
  BY <1>1
<1>4. \A k \in 1 .. 8 : s[k] \in {a, b, c, d, e, f, g, h} /\ s[k].num = k
  BY <1>3
<1>5. Listed(s) /\ \A k \in DOMAIN s : s[k] \in {a, b, c, d, e, f, g, h}
  BY <1>2, <1>4 DEF Listed, IsSeq
<1> QED
  BY <1>1, <1>5

\* A message of 9 fields.
LEMMA Lists9 ==
  ASSUME NEW a, NEW b, NEW c, NEW d, NEW e, NEW f, NEW g, NEW h, NEW i, a.num = 1, b.num = 2, c.num = 3, d.num = 4, e.num = 5, f.num = 6, g.num = 7, h.num = 8, i.num = 9
  PROVE  Listed(<<a, b, c, d, e, f, g, h, i>>) /\ \A k \in DOMAIN <<a, b, c, d, e, f, g, h, i>> : <<a, b, c, d, e, f, g, h, i>>[k] \in {a, b, c, d, e, f, g, h, i}
<1>1. PICK s : s = <<a, b, c, d, e, f, g, h, i>>
  OBVIOUS
<1>2. s \in Seq({a, b, c, d, e, f, g, h, i}) /\ Len(s) = 9 /\ DOMAIN s = 1 .. 9
  BY <1>1
<1>3. s[1] = a /\ s[2] = b /\ s[3] = c /\ s[4] = d /\ s[5] = e /\ s[6] = f /\ s[7] = g /\ s[8] = h /\ s[9] = i
  BY <1>1
<1>4. \A k \in 1 .. 9 : s[k] \in {a, b, c, d, e, f, g, h, i} /\ s[k].num = k
  BY <1>3
<1>5. Listed(s) /\ \A k \in DOMAIN s : s[k] \in {a, b, c, d, e, f, g, h, i}
  BY <1>2, <1>4 DEF Listed, IsSeq
<1> QED
  BY <1>1, <1>5

\* A message of 10 fields.
LEMMA Lists10 ==
  ASSUME NEW a, NEW b, NEW c, NEW d, NEW e, NEW f, NEW g, NEW h, NEW i, NEW j, a.num = 1, b.num = 2, c.num = 3, d.num = 4, e.num = 5, f.num = 6, g.num = 7, h.num = 8, i.num = 9, j.num = 10
  PROVE  Listed(<<a, b, c, d, e, f, g, h, i, j>>) /\ \A k \in DOMAIN <<a, b, c, d, e, f, g, h, i, j>> : <<a, b, c, d, e, f, g, h, i, j>>[k] \in {a, b, c, d, e, f, g, h, i, j}
<1>1. PICK s : s = <<a, b, c, d, e, f, g, h, i, j>>
  OBVIOUS
<1>2. s \in Seq({a, b, c, d, e, f, g, h, i, j}) /\ Len(s) = 10 /\ DOMAIN s = 1 .. 10
  BY <1>1
<1>3. s[1] = a /\ s[2] = b /\ s[3] = c /\ s[4] = d /\ s[5] = e /\ s[6] = f /\ s[7] = g /\ s[8] = h /\ s[9] = i /\ s[10] = j
  BY <1>1
<1>4. \A k \in 1 .. 10 : s[k] \in {a, b, c, d, e, f, g, h, i, j} /\ s[k].num = k
  BY <1>3
<1>5. Listed(s) /\ \A k \in DOMAIN s : s[k] \in {a, b, c, d, e, f, g, h, i, j}
  BY <1>2, <1>4 DEF Listed, IsSeq
<1> QED
  BY <1>1, <1>5

\* The messages that have none within.
LEMMA Level1 ==
  /\ Laid1(FileReqOpen)
  /\ Laid1(FileReqSeek)
  /\ Laid1(FileReqWrite)
  /\ Laid1(FileReqRead)
  /\ Laid1(FileReqClose)
  /\ Laid1(FileReqReadDir)
  /\ Laid1(FileReqStat)
  /\ Laid1(StatResp)
  /\ Laid1(FileRespError)
  /\ Laid1(MkDirReq)
  /\ Laid1(RemoveAllReq)
  /\ Laid1(RenameReq)
  /\ Laid1(StatReq)
  /\ Laid1(ResolveMailboxReq)
  /\ Laid1(ResolveMailboxResp)
  /\ Laid1(Attachment)
  /\ Laid1(Header)
  /\ Laid1(SendEmailResp)
  /\ Laid1(ListMessagesReq)
  /\ Laid1(MessageSummary)
  /\ Laid1(GetMessageReq)
  /\ Laid1(DeleteMessageReq)
  /\ Laid1(MoveMessageReq)
  /\ Laid1(GetSecretReq)
  /\ Laid1(GetSecretResp)
  /\ Laid1(GetDsnReq)
  /\ Laid1(GetDsnResp)
<1>1. Laid1(FileReqOpen)
  <2>1. \A f \in {Bytes(1), Bytes(2), Word(3)} : Plain(f)
    BY PlainIs
  <2>2. Bytes(1).num = 1 /\ Bytes(2).num = 2 /\ Word(3).num = 3
    BY FieldIs
  <2>3. Listed(FileReqOpen) /\ \A k \in DOMAIN FileReqOpen : FileReqOpen[k] \in {Bytes(1), Bytes(2), Word(3)}
    BY <2>2, Lists3 DEF FileReqOpen
  <2> QED
    BY <2>1, <2>3 DEF Laid1
<1>2. Laid1(FileReqSeek)
  <2>1. \A f \in {Word(1), Word(2)} : Plain(f)
    BY PlainIs
  <2>2. Word(1).num = 1 /\ Word(2).num = 2
    BY FieldIs
  <2>3. Listed(FileReqSeek) /\ \A k \in DOMAIN FileReqSeek : FileReqSeek[k] \in {Word(1), Word(2)}
    BY <2>2, Lists2 DEF FileReqSeek
  <2> QED
    BY <2>1, <2>3 DEF Laid1
<1>3. Laid1(FileReqWrite)
  <2>1. \A f \in {Bytes(1)} : Plain(f)
    BY PlainIs
  <2>2. Bytes(1).num = 1
    BY FieldIs
  <2>3. Listed(FileReqWrite) /\ \A k \in DOMAIN FileReqWrite : FileReqWrite[k] \in {Bytes(1)}
    BY <2>2, Lists1 DEF FileReqWrite
  <2> QED
    BY <2>1, <2>3 DEF Laid1
<1>4. Laid1(FileReqRead)
  <2>1. \A f \in {Word(1)} : Plain(f)
    BY PlainIs
  <2>2. Word(1).num = 1
    BY FieldIs
  <2>3. Listed(FileReqRead) /\ \A k \in DOMAIN FileReqRead : FileReqRead[k] \in {Word(1)}
    BY <2>2, Lists1 DEF FileReqRead
  <2> QED
    BY <2>1, <2>3 DEF Laid1
<1>5. Laid1(FileReqClose)
  BY FieldIs, Lists0 DEF FileReqClose, Laid1
<1>6. Laid1(FileReqReadDir)
  <2>1. \A f \in {Word(1)} : Plain(f)
    BY PlainIs
  <2>2. Word(1).num = 1
    BY FieldIs
  <2>3. Listed(FileReqReadDir) /\ \A k \in DOMAIN FileReqReadDir : FileReqReadDir[k] \in {Word(1)}
    BY <2>2, Lists1 DEF FileReqReadDir
  <2> QED
    BY <2>1, <2>3 DEF Laid1
<1>7. Laid1(FileReqStat)
  BY FieldIs, Lists0 DEF FileReqStat, Laid1
<1>8. Laid1(StatResp)
  <2>1. \A f \in {Bytes(1), Word(2), Word(3), Flag(4)} : Plain(f)
    BY PlainIs
  <2>2. Bytes(1).num = 1 /\ Word(2).num = 2 /\ Word(3).num = 3 /\ Flag(4).num = 4
    BY FieldIs
  <2>3. Listed(StatResp) /\ \A k \in DOMAIN StatResp : StatResp[k] \in {Bytes(1), Word(2), Word(3), Flag(4)}
    BY <2>2, Lists4 DEF StatResp
  <2> QED
    BY <2>1, <2>3 DEF Laid1
<1>9. Laid1(FileRespError)
  <2>1. \A f \in {Enum(1), Bytes(2)} : Plain(f)
    BY PlainIs
  <2>2. Enum(1).num = 1 /\ Bytes(2).num = 2
    BY FieldIs
  <2>3. Listed(FileRespError) /\ \A k \in DOMAIN FileRespError : FileRespError[k] \in {Enum(1), Bytes(2)}
    BY <2>2, Lists2 DEF FileRespError
  <2> QED
    BY <2>1, <2>3 DEF Laid1
<1>10. Laid1(MkDirReq)
  <2>1. \A f \in {Bytes(1), Bytes(2)} : Plain(f)
    BY PlainIs
  <2>2. Bytes(1).num = 1 /\ Bytes(2).num = 2
    BY FieldIs
  <2>3. Listed(MkDirReq) /\ \A k \in DOMAIN MkDirReq : MkDirReq[k] \in {Bytes(1), Bytes(2)}
    BY <2>2, Lists2 DEF MkDirReq
  <2> QED
    BY <2>1, <2>3 DEF Laid1
<1>11. Laid1(RemoveAllReq)
  <2>1. \A f \in {Bytes(1), Bytes(2)} : Plain(f)
    BY PlainIs
  <2>2. Bytes(1).num = 1 /\ Bytes(2).num = 2
    BY FieldIs
  <2>3. Listed(RemoveAllReq) /\ \A k \in DOMAIN RemoveAllReq : RemoveAllReq[k] \in {Bytes(1), Bytes(2)}
    BY <2>2, Lists2 DEF RemoveAllReq
  <2> QED
    BY <2>1, <2>3 DEF Laid1
<1>12. Laid1(RenameReq)
  <2>1. \A f \in {Bytes(1), Bytes(2), Bytes(3)} : Plain(f)
    BY PlainIs
  <2>2. Bytes(1).num = 1 /\ Bytes(2).num = 2 /\ Bytes(3).num = 3
    BY FieldIs
  <2>3. Listed(RenameReq) /\ \A k \in DOMAIN RenameReq : RenameReq[k] \in {Bytes(1), Bytes(2), Bytes(3)}
    BY <2>2, Lists3 DEF RenameReq
  <2> QED
    BY <2>1, <2>3 DEF Laid1
<1>13. Laid1(StatReq)
  <2>1. \A f \in {Bytes(1), Bytes(2)} : Plain(f)
    BY PlainIs
  <2>2. Bytes(1).num = 1 /\ Bytes(2).num = 2
    BY FieldIs
  <2>3. Listed(StatReq) /\ \A k \in DOMAIN StatReq : StatReq[k] \in {Bytes(1), Bytes(2)}
    BY <2>2, Lists2 DEF StatReq
  <2> QED
    BY <2>1, <2>3 DEF Laid1
<1>14. Laid1(ResolveMailboxReq)
  <2>1. \A f \in {Bytes(1)} : Plain(f)
    BY PlainIs
  <2>2. Bytes(1).num = 1
    BY FieldIs
  <2>3. Listed(ResolveMailboxReq) /\ \A k \in DOMAIN ResolveMailboxReq : ResolveMailboxReq[k] \in {Bytes(1)}
    BY <2>2, Lists1 DEF ResolveMailboxReq
  <2> QED
    BY <2>1, <2>3 DEF Laid1
<1>15. Laid1(ResolveMailboxResp)
  <2>1. \A f \in {Word(1)} : Plain(f)
    BY PlainIs
  <2>2. Word(1).num = 1
    BY FieldIs
  <2>3. Listed(ResolveMailboxResp) /\ \A k \in DOMAIN ResolveMailboxResp : ResolveMailboxResp[k] \in {Word(1)}
    BY <2>2, Lists1 DEF ResolveMailboxResp
  <2> QED
    BY <2>1, <2>3 DEF Laid1
<1>16. Laid1(Attachment)
  <2>1. \A f \in {Bytes(1), Bytes(2), Bytes(3)} : Plain(f)
    BY PlainIs
  <2>2. Bytes(1).num = 1 /\ Bytes(2).num = 2 /\ Bytes(3).num = 3
    BY FieldIs
  <2>3. Listed(Attachment) /\ \A k \in DOMAIN Attachment : Attachment[k] \in {Bytes(1), Bytes(2), Bytes(3)}
    BY <2>2, Lists3 DEF Attachment
  <2> QED
    BY <2>1, <2>3 DEF Laid1
<1>17. Laid1(Header)
  <2>1. \A f \in {Bytes(1), Bytes(2)} : Plain(f)
    BY PlainIs
  <2>2. Bytes(1).num = 1 /\ Bytes(2).num = 2
    BY FieldIs
  <2>3. Listed(Header) /\ \A k \in DOMAIN Header : Header[k] \in {Bytes(1), Bytes(2)}
    BY <2>2, Lists2 DEF Header
  <2> QED
    BY <2>1, <2>3 DEF Laid1
<1>18. Laid1(SendEmailResp)
  <2>1. \A f \in {Bytes(1)} : Plain(f)
    BY PlainIs
  <2>2. Bytes(1).num = 1
    BY FieldIs
  <2>3. Listed(SendEmailResp) /\ \A k \in DOMAIN SendEmailResp : SendEmailResp[k] \in {Bytes(1)}
    BY <2>2, Lists1 DEF SendEmailResp
  <2> QED
    BY <2>1, <2>3 DEF Laid1
<1>19. Laid1(ListMessagesReq)
  <2>1. \A f \in {Word(1), Bytes(2), Half(3), Half(4)} : Plain(f)
    BY PlainIs
  <2>2. Word(1).num = 1 /\ Bytes(2).num = 2 /\ Half(3).num = 3 /\ Half(4).num = 4
    BY FieldIs
  <2>3. Listed(ListMessagesReq) /\ \A k \in DOMAIN ListMessagesReq : ListMessagesReq[k] \in {Word(1), Bytes(2), Half(3), Half(4)}
    BY <2>2, Lists4 DEF ListMessagesReq
  <2> QED
    BY <2>1, <2>3 DEF Laid1
<1>20. Laid1(MessageSummary)
  <2>1. \A f \in {Bytes(1), Bytes(2), Bytes(3), Word(4), Flag(5), Flag(6), Half(7), Strings(8)} : Plain(f)
    <3>1. Plain(Bytes(1))
      BY PlainIs
    <3>2. Plain(Bytes(2))
      BY PlainIs
    <3>3. Plain(Bytes(3))
      BY PlainIs
    <3>4. Plain(Word(4))
      BY PlainIs
    <3>5. Plain(Flag(5))
      BY PlainIs
    <3>6. Plain(Flag(6))
      BY PlainIs
    <3>7. Plain(Half(7))
      BY PlainIs
    <3>8. Plain(Strings(8))
      BY PlainIs
    <3> QED
      BY <3>1, <3>2, <3>3, <3>4, <3>5, <3>6, <3>7, <3>8
  <2>2. Bytes(1).num = 1 /\ Bytes(2).num = 2 /\ Bytes(3).num = 3 /\ Word(4).num = 4 /\ Flag(5).num = 5 /\ Flag(6).num = 6 /\ Half(7).num = 7 /\ Strings(8).num = 8
    BY FieldIs
  <2>3. Listed(MessageSummary) /\ \A k \in DOMAIN MessageSummary : MessageSummary[k] \in {Bytes(1), Bytes(2), Bytes(3), Word(4), Flag(5), Flag(6), Half(7), Strings(8)}
    BY <2>2, Lists8 DEF MessageSummary
  <2> QED
    BY <2>1, <2>3 DEF Laid1
<1>21. Laid1(GetMessageReq)
  <2>1. \A f \in {Word(1), Bytes(2), Bytes(3)} : Plain(f)
    BY PlainIs
  <2>2. Word(1).num = 1 /\ Bytes(2).num = 2 /\ Bytes(3).num = 3
    BY FieldIs
  <2>3. Listed(GetMessageReq) /\ \A k \in DOMAIN GetMessageReq : GetMessageReq[k] \in {Word(1), Bytes(2), Bytes(3)}
    BY <2>2, Lists3 DEF GetMessageReq
  <2> QED
    BY <2>1, <2>3 DEF Laid1
<1>22. Laid1(DeleteMessageReq)
  <2>1. \A f \in {Word(1), Bytes(2), Bytes(3)} : Plain(f)
    BY PlainIs
  <2>2. Word(1).num = 1 /\ Bytes(2).num = 2 /\ Bytes(3).num = 3
    BY FieldIs
  <2>3. Listed(DeleteMessageReq) /\ \A k \in DOMAIN DeleteMessageReq : DeleteMessageReq[k] \in {Word(1), Bytes(2), Bytes(3)}
    BY <2>2, Lists3 DEF DeleteMessageReq
  <2> QED
    BY <2>1, <2>3 DEF Laid1
<1>23. Laid1(MoveMessageReq)
  <2>1. \A f \in {Word(1), Bytes(2), Bytes(3)} : Plain(f)
    BY PlainIs
  <2>2. Word(1).num = 1 /\ Bytes(2).num = 2 /\ Bytes(3).num = 3
    BY FieldIs
  <2>3. Listed(MoveMessageReq) /\ \A k \in DOMAIN MoveMessageReq : MoveMessageReq[k] \in {Word(1), Bytes(2), Bytes(3)}
    BY <2>2, Lists3 DEF MoveMessageReq
  <2> QED
    BY <2>1, <2>3 DEF Laid1
<1>24. Laid1(GetSecretReq)
  <2>1. \A f \in {Bytes(1)} : Plain(f)
    BY PlainIs
  <2>2. Bytes(1).num = 1
    BY FieldIs
  <2>3. Listed(GetSecretReq) /\ \A k \in DOMAIN GetSecretReq : GetSecretReq[k] \in {Bytes(1)}
    BY <2>2, Lists1 DEF GetSecretReq
  <2> QED
    BY <2>1, <2>3 DEF Laid1
<1>25. Laid1(GetSecretResp)
  <2>1. \A f \in {Bytes(1)} : Plain(f)
    BY PlainIs
  <2>2. Bytes(1).num = 1
    BY FieldIs
  <2>3. Listed(GetSecretResp) /\ \A k \in DOMAIN GetSecretResp : GetSecretResp[k] \in {Bytes(1)}
    BY <2>2, Lists1 DEF GetSecretResp
  <2> QED
    BY <2>1, <2>3 DEF Laid1
<1>26. Laid1(GetDsnReq)
  <2>1. \A f \in {Bytes(1)} : Plain(f)
    BY PlainIs
  <2>2. Bytes(1).num = 1
    BY FieldIs
  <2>3. Listed(GetDsnReq) /\ \A k \in DOMAIN GetDsnReq : GetDsnReq[k] \in {Bytes(1)}
    BY <2>2, Lists1 DEF GetDsnReq
  <2> QED
    BY <2>1, <2>3 DEF Laid1
<1>27. Laid1(GetDsnResp)
  <2>1. \A f \in {Bytes(1)} : Plain(f)
    BY PlainIs
  <2>2. Bytes(1).num = 1
    BY FieldIs
  <2>3. Listed(GetDsnResp) /\ \A k \in DOMAIN GetDsnResp : GetDsnResp[k] \in {Bytes(1)}
    BY <2>2, Lists1 DEF GetDsnResp
  <2> QED
    BY <2>1, <2>3 DEF Laid1
<1> QED
  BY <1>1, <1>2, <1>3, <1>4, <1>5, <1>6, <1>7, <1>8, <1>9, <1>10, <1>11, <1>12, <1>13, <1>14, <1>15, <1>16, <1>17, <1>18, <1>19, <1>20, <1>21, <1>22, <1>23, <1>24, <1>25, <1>26, <1>27

\* The messages that have some of these within.
LEMMA Level2 ==
  /\ Laid2(FileReq)
  /\ Laid2(FileRespOpen)
  /\ Laid2(FileRespSeek)
  /\ Laid2(FileRespWrite)
  /\ Laid2(FileRespRead)
  /\ Laid2(FileRespClose)
  /\ Laid2(FileRespReadDir)
  /\ Laid2(FileRespStat)
  /\ Laid2(SendEmailReq)
  /\ Laid2(ListMessagesResp)
  /\ Laid2(GetMessageResp)
<1>1. Laid2(FileReq)
  <2>1. \A f \in {OneOf(1, FileReqOpen), OneOf(2, FileReqSeek), OneOf(3, FileReqWrite), OneOf(4, FileReqRead), OneOf(5, FileReqClose), OneOf(6, FileReqReadDir), OneOf(7, FileReqStat)} : Plain(f) \/ (Nests(f) /\ Laid1(f.fields))
    BY FieldIs, Level1, LaidGrows
  <2>2. OneOf(1, FileReqOpen).num = 1 /\ OneOf(2, FileReqSeek).num = 2 /\ OneOf(3, FileReqWrite).num = 3 /\ OneOf(4, FileReqRead).num = 4 /\ OneOf(5, FileReqClose).num = 5 /\ OneOf(6, FileReqReadDir).num = 6 /\ OneOf(7, FileReqStat).num = 7
    BY FieldIs
  <2>3. Listed(FileReq) /\ \A k \in DOMAIN FileReq : FileReq[k] \in {OneOf(1, FileReqOpen), OneOf(2, FileReqSeek), OneOf(3, FileReqWrite), OneOf(4, FileReqRead), OneOf(5, FileReqClose), OneOf(6, FileReqReadDir), OneOf(7, FileReqStat)}
    BY <2>2, Lists7 DEF FileReq
  <2> QED
    BY <2>1, <2>3 DEF Laid2
<1>2. Laid2(FileRespOpen)
  <2>1. \A f \in {Message(1, FileRespError)} : Plain(f) \/ (Nests(f) /\ Laid1(f.fields))
    BY FieldIs, Level1, LaidGrows
  <2>2. Message(1, FileRespError).num = 1
    BY FieldIs
  <2>3. Listed(FileRespOpen) /\ \A k \in DOMAIN FileRespOpen : FileRespOpen[k] \in {Message(1, FileRespError)}
    BY <2>2, Lists1 DEF FileRespOpen
  <2> QED
    BY <2>1, <2>3 DEF Laid2
<1>3. Laid2(FileRespSeek)
  <2>1. \A f \in {Word(1), Message(2, FileRespError)} : Plain(f) \/ (Nests(f) /\ Laid1(f.fields))
    BY FieldIs, Level1, LaidGrows
  <2>2. Word(1).num = 1 /\ Message(2, FileRespError).num = 2
    BY FieldIs
  <2>3. Listed(FileRespSeek) /\ \A k \in DOMAIN FileRespSeek : FileRespSeek[k] \in {Word(1), Message(2, FileRespError)}
    BY <2>2, Lists2 DEF FileRespSeek
  <2> QED
    BY <2>1, <2>3 DEF Laid2
<1>4. Laid2(FileRespWrite)
  <2>1. \A f \in {Word(1), Message(2, FileRespError)} : Plain(f) \/ (Nests(f) /\ Laid1(f.fields))
    BY FieldIs, Level1, LaidGrows
  <2>2. Word(1).num = 1 /\ Message(2, FileRespError).num = 2
    BY FieldIs
  <2>3. Listed(FileRespWrite) /\ \A k \in DOMAIN FileRespWrite : FileRespWrite[k] \in {Word(1), Message(2, FileRespError)}
    BY <2>2, Lists2 DEF FileRespWrite
  <2> QED
    BY <2>1, <2>3 DEF Laid2
<1>5. Laid2(FileRespRead)
  <2>1. \A f \in {Bytes(1), Message(2, FileRespError)} : Plain(f) \/ (Nests(f) /\ Laid1(f.fields))
    BY FieldIs, Level1, LaidGrows
  <2>2. Bytes(1).num = 1 /\ Message(2, FileRespError).num = 2
    BY FieldIs
  <2>3. Listed(FileRespRead) /\ \A k \in DOMAIN FileRespRead : FileRespRead[k] \in {Bytes(1), Message(2, FileRespError)}
    BY <2>2, Lists2 DEF FileRespRead
  <2> QED
    BY <2>1, <2>3 DEF Laid2
<1>6. Laid2(FileRespClose)
  <2>1. \A f \in {Message(1, FileRespError)} : Plain(f) \/ (Nests(f) /\ Laid1(f.fields))
    BY FieldIs, Level1, LaidGrows
  <2>2. Message(1, FileRespError).num = 1
    BY FieldIs
  <2>3. Listed(FileRespClose) /\ \A k \in DOMAIN FileRespClose : FileRespClose[k] \in {Message(1, FileRespError)}
    BY <2>2, Lists1 DEF FileRespClose
  <2> QED
    BY <2>1, <2>3 DEF Laid2
<1>7. Laid2(FileRespReadDir)
  <2>1. \A f \in {Messages(1, StatResp), Message(2, FileRespError)} : Plain(f) \/ (Nests(f) /\ Laid1(f.fields))
    BY FieldIs, Level1, LaidGrows
  <2>2. Messages(1, StatResp).num = 1 /\ Message(2, FileRespError).num = 2
    BY FieldIs
  <2>3. Listed(FileRespReadDir) /\ \A k \in DOMAIN FileRespReadDir : FileRespReadDir[k] \in {Messages(1, StatResp), Message(2, FileRespError)}
    BY <2>2, Lists2 DEF FileRespReadDir
  <2> QED
    BY <2>1, <2>3 DEF Laid2
<1>8. Laid2(FileRespStat)
  <2>1. \A f \in {Message(1, StatResp), Message(2, FileRespError)} : Plain(f) \/ (Nests(f) /\ Laid1(f.fields))
    BY FieldIs, Level1, LaidGrows
  <2>2. Message(1, StatResp).num = 1 /\ Message(2, FileRespError).num = 2
    BY FieldIs
  <2>3. Listed(FileRespStat) /\ \A k \in DOMAIN FileRespStat : FileRespStat[k] \in {Message(1, StatResp), Message(2, FileRespError)}
    BY <2>2, Lists2 DEF FileRespStat
  <2> QED
    BY <2>1, <2>3 DEF Laid2
<1>9. Laid2(SendEmailReq)
  <2>1. \A f \in {Word(1), Strings(2), Strings(3), Bytes(4), Bytes(5), Bytes(6), Messages(7, Attachment), Strings(8), Messages(9, Header), Bytes(10)} : Plain(f) \/ (Nests(f) /\ Laid1(f.fields))
    <3>1. Plain(Word(1))
      BY FieldIs, Level1
    <3>2. Plain(Strings(2))
      BY FieldIs, Level1
    <3>3. Plain(Strings(3))
      BY FieldIs, Level1
    <3>4. Plain(Bytes(4))
      BY FieldIs, Level1
    <3>5. Plain(Bytes(5))
      BY FieldIs, Level1
    <3>6. Plain(Bytes(6))
      BY FieldIs, Level1
    <3>7. Nests(Messages(7, Attachment)) /\ Laid1(Messages(7, Attachment).fields)
      BY FieldIs, Level1
    <3>8. Plain(Strings(8))
      BY FieldIs, Level1
    <3>9. Nests(Messages(9, Header)) /\ Laid1(Messages(9, Header).fields)
      BY FieldIs, Level1
    <3>10. Plain(Bytes(10))
      BY FieldIs, Level1
    <3> QED
      BY <3>1, <3>2, <3>3, <3>4, <3>5, <3>6, <3>7, <3>8, <3>9, <3>10
  <2>2. Word(1).num = 1 /\ Strings(2).num = 2 /\ Strings(3).num = 3 /\ Bytes(4).num = 4 /\ Bytes(5).num = 5 /\ Bytes(6).num = 6 /\ Messages(7, Attachment).num = 7 /\ Strings(8).num = 8 /\ Messages(9, Header).num = 9 /\ Bytes(10).num = 10
    BY FieldIs
  <2>3. Listed(SendEmailReq) /\ \A k \in DOMAIN SendEmailReq : SendEmailReq[k] \in {Word(1), Strings(2), Strings(3), Bytes(4), Bytes(5), Bytes(6), Messages(7, Attachment), Strings(8), Messages(9, Header), Bytes(10)}
    BY <2>2, Lists10 DEF SendEmailReq
  <2> QED
    BY <2>1, <2>3 DEF Laid2
<1>10. Laid2(ListMessagesResp)
  <2>1. \A f \in {Messages(1, MessageSummary), Half(2)} : Plain(f) \/ (Nests(f) /\ Laid1(f.fields))
    BY FieldIs, Level1, LaidGrows
  <2>2. Messages(1, MessageSummary).num = 1 /\ Half(2).num = 2
    BY FieldIs
  <2>3. Listed(ListMessagesResp) /\ \A k \in DOMAIN ListMessagesResp : ListMessagesResp[k] \in {Messages(1, MessageSummary), Half(2)}
    BY <2>2, Lists2 DEF ListMessagesResp
  <2> QED
    BY <2>1, <2>3 DEF Laid2
<1>11. Laid2(GetMessageResp)
  <2>1. \A f \in {Bytes(1), Strings(2), Strings(3), Bytes(4), Word(5), Bytes(6), Bytes(7), Messages(8, Attachment), Bytes(9)} : Plain(f) \/ (Nests(f) /\ Laid1(f.fields))
    <3>1. Plain(Bytes(1))
      BY FieldIs, Level1
    <3>2. Plain(Strings(2))
      BY FieldIs, Level1
    <3>3. Plain(Strings(3))
      BY FieldIs, Level1
    <3>4. Plain(Bytes(4))
      BY FieldIs, Level1
    <3>5. Plain(Word(5))
      BY FieldIs, Level1
    <3>6. Plain(Bytes(6))
      BY FieldIs, Level1
    <3>7. Plain(Bytes(7))
      BY FieldIs, Level1
    <3>8. Nests(Messages(8, Attachment)) /\ Laid1(Messages(8, Attachment).fields)
      BY FieldIs, Level1
    <3>9. Plain(Bytes(9))
      BY FieldIs, Level1
    <3> QED
      BY <3>1, <3>2, <3>3, <3>4, <3>5, <3>6, <3>7, <3>8, <3>9
  <2>2. Bytes(1).num = 1 /\ Strings(2).num = 2 /\ Strings(3).num = 3 /\ Bytes(4).num = 4 /\ Word(5).num = 5 /\ Bytes(6).num = 6 /\ Bytes(7).num = 7 /\ Messages(8, Attachment).num = 8 /\ Bytes(9).num = 9
    BY FieldIs
  <2>3. Listed(GetMessageResp) /\ \A k \in DOMAIN GetMessageResp : GetMessageResp[k] \in {Bytes(1), Strings(2), Strings(3), Bytes(4), Word(5), Bytes(6), Bytes(7), Messages(8, Attachment), Bytes(9)}
    BY <2>2, Lists9 DEF GetMessageResp
  <2> QED
    BY <2>1, <2>3 DEF Laid2
<1> QED
  BY <1>1, <1>2, <1>3, <1>4, <1>5, <1>6, <1>7, <1>8, <1>9, <1>10, <1>11

\* The message that has some of those.
LEMMA Level3 ==
  /\ Laid3(FileResp)
<1>1. Laid3(FileResp)
  <2>1. \A f \in {OneOf(1, FileRespOpen), OneOf(2, FileRespSeek), OneOf(3, FileRespWrite), OneOf(4, FileRespRead), OneOf(5, FileRespClose), OneOf(6, FileRespReadDir), OneOf(7, FileRespStat)} : Plain(f) \/ (Nests(f) /\ Laid2(f.fields))
    BY FieldIs, Level2, LaidGrows, Level1
  <2>2. OneOf(1, FileRespOpen).num = 1 /\ OneOf(2, FileRespSeek).num = 2 /\ OneOf(3, FileRespWrite).num = 3 /\ OneOf(4, FileRespRead).num = 4 /\ OneOf(5, FileRespClose).num = 5 /\ OneOf(6, FileRespReadDir).num = 6 /\ OneOf(7, FileRespStat).num = 7
    BY FieldIs
  <2>3. Listed(FileResp) /\ \A k \in DOMAIN FileResp : FileResp[k] \in {OneOf(1, FileRespOpen), OneOf(2, FileRespSeek), OneOf(3, FileRespWrite), OneOf(4, FileRespRead), OneOf(5, FileRespClose), OneOf(6, FileRespReadDir), OneOf(7, FileRespStat)}
    BY <2>2, Lists7 DEF FileResp
  <2> QED
    BY <2>1, <2>3 DEF Laid3
<1> QED
  BY <1>1

\* All messages of the program nest three deep at most, and number their fields from
\* one to fifteen at most.
LEMMA LayoutIsLaid == \A n \in DOMAIN Layout : Laid(3, Layout[n])
<1>1. \A n \in DOMAIN Layout : Laid3(Layout[n])
  BY Level1, Level2, Level3, LaidGrows DEF Layout
<1>2. \A x : Laid3(x) => Laid(3, x)
  BY DEF Laid
<1> QED
  BY <1>1, <1>2

-----------------------------------------------------------------------------
(* The messages that are sent are sound *)

\* A field of a message of level l.
Fielded(l, f) == Plain(f) \/ (l \in 2 .. 3 /\ Nests(f) /\ Laid(l - 1, f.fields))

\* What makes a message of a level sound.
LEMMA SoundFrom ==
  ASSUME NEW l \in 1 .. 3, NEW fields, NEW m, Formed(fields, m), \A k \in DOMAIN fields : Kept(l, fields[k], m[k])
  PROVE  Sound(l, fields, m)
<1>1. CASE l = 1
  BY <1>1 DEF Sound, Sound1
<1>2. CASE l = 2
  <2>1. \A x, y : Sound(l - 1, x, y) = Sound1(x, y)
    BY <1>2 DEF Sound
  <2>2. Sound2(fields, m)
    BY <2>1 DEF Sound2, Kept
  <2> QED
    BY <1>2, <2>2 DEF Sound
<1>3. CASE l = 3
  <2>1. \A x, y : Sound(l - 1, x, y) = Sound2(x, y)
    BY <1>3 DEF Sound
  <2>2. Sound3(fields, m)
    BY <2>1 DEF Sound3, Kept
  <2> QED
    BY <1>3, <2>2 DEF Sound
<1> QED
  BY <1>1, <1>2, <1>3

\* The fields of a message of a level.
LEMMA LaidFields == ASSUME NEW l \in 1 .. 3, NEW fields, Laid(l, fields) PROVE \A k \in DOMAIN fields : Fielded(l, fields[k])
  BY LaidIs DEF Fielded

\* A field may be zero.
LEMMA ZeroKept == ASSUME NEW l, NEW f, Fielded(l, f) PROVE Kept(l, f, Zero(f))
<1>1. CASE Numeric(f)
  <2>1. Zero(f) = 0 /\ 0 \in 0 .. Words - 1 /\ 0 \in 0 .. Halves - 1
    <3>1. Zero(f) = 0
      BY <1>1, ZeroIs
    <3>2. 0 \in 0 .. Words - 1 /\ 0 \in 0 .. Halves - 1
      BY WordsAre
    <3> QED
      BY <3>1, <3>2
  <2>2. f.kind # "flag" /\ f.kind # "bytes" /\ f.kind # "strings" /\ f.kind # "messages" /\ f.kind \notin {"message", "oneof"}
    BY <1>1 DEF Numeric
  <2> QED
    BY <2>1, <2>2 DEF Kept, Holds, Fielded
<1>2. CASE f.kind = "flag"
  <2>1. Zero(f) = FALSE
    BY <1>2, ZeroIs
  <2> QED
    BY <1>2, <2>1 DEF Kept, Holds, Fielded
<1>3. CASE f.kind = "bytes"
  <2>1. Zero(f) = <<>> /\ <<>> \in Seq(Octet)
    <3>1. Zero(f) = <<>>
      BY <1>3, ZeroIs
    <3>2. <<>> \in Seq(Octet)
      OBVIOUS
    <3> QED
      BY <3>1, <3>2
  <2> QED
    BY <1>3, <2>1 DEF Kept, Holds, Fielded
<1>4. CASE f.kind = "strings"
  <2>1. Zero(f) = <<>> /\ <<>> \in Seq(Seq(Octet))
    <3>1. Zero(f) = <<>>
      BY <1>4, ZeroIs
    <3>2. <<>> \in Seq(Seq(Octet))
      OBVIOUS
    <3> QED
      BY <3>1, <3>2
  <2> QED
    BY <1>4, <2>1 DEF Kept, Holds, Fielded
<1>5. CASE f.kind \in {"message", "oneof"}
  <2>1. Zero(f) = None
    BY <1>5, ZeroIs
  <2>2. ~Numeric(f) /\ f.kind # "flag" /\ f.kind # "bytes" /\ f.kind # "strings" /\ f.kind # "messages"
    BY <1>5 DEF Numeric
  <2> QED
    BY <2>1, <2>2 DEF Kept, Holds, Fielded, Numeric
<1>6. CASE f.kind = "messages"
  <2>1. PICK z : z = Zero(f)
    OBVIOUS
  <2>2. z = <<>>
    BY <1>6, <2>1, ZeroIs
  <2>3. IsSeq(z) /\ \A i \in 1 .. Len(z) : FALSE
    <3>1. z \in Seq({}) /\ Len(z) = 0
      BY <2>2
    <3> QED
      BY <3>1 DEF IsSeq
  <2> QED
    BY <1>6, <2>1, <2>3 DEF Kept, Holds, Fielded
<1> QED
  BY <1>1, <1>2, <1>3, <1>4, <1>5, <1>6 DEF Fielded, Plain, Nests, Numeric

\* A message without values is sound ...
LEMMA EmptySound == ASSUME NEW l \in 1 .. 3, NEW fields, Laid(l, fields) PROVE Sound(l, fields, Empty(fields))
<1>1. PICK z : z = Empty(fields)
  OBVIOUS
<1>2. z = [k \in DOMAIN fields |-> Zero(fields[k])] /\ DOMAIN z = DOMAIN fields
  BY <1>1 DEF Empty
<1>3. \A k \in DOMAIN fields : z[k] = Zero(fields[k])
  BY <1>2
<1>4. \A k \in DOMAIN fields : Kept(l, fields[k], z[k])
  BY <1>3, LaidFields, ZeroKept
<1>5. Formed(fields, z)
  <2>1. z = [k \in DOMAIN fields |-> z[k]]
    BY <1>2, <1>3
  <2>2. Single(fields, z)
    <3>1. \A k \in DOMAIN fields : fields[k].kind = "oneof" => z[k] = None
      BY <1>3, ZeroIs
    <3> QED
      BY <3>1 DEF Single
  <2>3. \A k \in DOMAIN fields : Holds(fields[k], z[k])
    BY <1>4 DEF Kept
  <2> QED
    BY <1>2, <2>1, <2>2, <2>3 DEF Formed
<1> QED
  BY <1>1, <1>4, <1>5, SoundFrom

\* ... and stays so when a field is set.
LEMMA AssignSound ==
  ASSUME NEW l \in 1 .. 3, NEW fields, Laid(l, fields), NEW m, Sound(l, fields, m),
         NEW k \in DOMAIN fields, NEW v, Kept(l, fields[k], v)
  PROVE  Sound(l, fields, Assign(fields, m, k, v))
<1>1. Formed(fields, m) /\ \A j \in DOMAIN fields : Kept(l, fields[j], m[j])
  BY SoundIs
<1>2. PICK x : x = Assign(fields, m, k, v)
  OBVIOUS
<1>3. DOMAIN m = DOMAIN fields
  BY <1>1 DEF Formed
<1>4. /\ DOMAIN x = DOMAIN fields /\ x = [j \in DOMAIN fields |-> x[j]]
      /\ \A j \in DOMAIN fields :
           x[j] = IF j = k THEN v ELSE IF fields[k].kind = "oneof" /\ fields[j].kind = "oneof" THEN None ELSE m[j]
  BY <1>2, <1>3 DEF Assign
<1>5. ASSUME NEW j \in DOMAIN fields PROVE Kept(l, fields[j], x[j])
  <2>1. CASE j # k /\ fields[k].kind = "oneof" /\ fields[j].kind = "oneof"
    <3>1. x[j] = Zero(fields[j])
      BY <1>4, <2>1, ZeroIs
    <3> QED
      BY <3>1, LaidFields, ZeroKept
  <2>2. CASE j = k
    BY <1>4, <2>2
  <2>3. CASE j # k /\ ~(fields[k].kind = "oneof" /\ fields[j].kind = "oneof")
    BY <1>1, <1>4, <2>3
  <2> QED
    BY <2>1, <2>2, <2>3
<1>6. Formed(fields, x)
  <2>1. Single(fields, m)
    BY <1>1 DEF Formed
  <2>2. Single(fields, x)
    BY <1>4, <2>1 DEF Single
  <2>3. \A j \in DOMAIN fields : Holds(fields[j], x[j])
    BY <1>5 DEF Kept
  <2> QED
    BY <1>4, <2>2, <2>3 DEF Formed
<1> QED
  BY <1>2, <1>5, <1>6, SoundFrom

FullAt(l, fields) ==
  IF l = 0 THEN Empty(fields) ELSE IF l = 1 THEN LeafFull(fields) ELSE IF l = 2 THEN InnerFull(fields) ELSE Full(fields)

Values1(f) == Values(Empty, f)
Values2(f) == Values(LeafFull, f)
Values3(f) == Values(InnerFull, f)

ValuesAt(l, f) == IF l = 1 THEN Values1(f) ELSE IF l = 2 THEN Values2(f) ELSE Values3(f)

\* The message with every field set, by level.
LEMMA FullIs ==
  ASSUME NEW l \in 1 .. 3, NEW fields
  PROVE  FullAt(l, fields) =
           [k \in DOMAIN fields |->
              IF fields[k].kind = "oneof" THEN None ELSE CHOOSE v \in ValuesAt(l, fields[k]) : TRUE]
<1>1. CASE l = 1
  <2>1. \A f : ValuesAt(l, f) = Values1(f)
    BY <1>1 DEF ValuesAt
  <2>2. FullAt(l, fields) = LeafFull(fields)
    BY <1>1 DEF FullAt
  <2> QED
    BY <2>1, <2>2 DEF LeafFull, Filled, Values1
<1>2. CASE l = 2
  <2>1. \A f : ValuesAt(l, f) = Values2(f)
    BY <1>2 DEF ValuesAt
  <2>2. FullAt(l, fields) = InnerFull(fields)
    BY <1>2 DEF FullAt
  <2> QED
    BY <2>1, <2>2 DEF InnerFull, Filled, Values2
<1>3. CASE l = 3
  <2>1. \A f : ValuesAt(l, f) = Values3(f)
    BY <1>3 DEF ValuesAt
  <2>2. FullAt(l, fields) = Full(fields)
    BY <1>3 DEF FullAt
  <2> QED
    BY <2>1, <2>2 DEF Full, Filled, Values3
<1> QED
  BY <1>1, <1>2, <1>3

\* The values of a field that are sent, if it holds no message ...
LEMMA ValuesOfPlain ==
  ASSUME NEW l, NEW f
  PROVE  /\ f.kind = "word" => ValuesAt(l, f) = Numbers
         /\ f.kind \in {"half", "enum"} => ValuesAt(l, f) = {n % Halves : n \in Numbers} \ {0}
         /\ f.kind = "flag" => ValuesAt(l, f) = {TRUE}
         /\ f.kind = "bytes" => ValuesAt(l, f) = Texts
         /\ f.kind = "strings" => ValuesAt(l, f) = {<<t, <<>>>> : t \in Texts}
<1>1. ASSUME f.kind = "word" PROVE ValuesAt(l, f) = Numbers
  <2>1. f.kind \notin {"half", "enum"} /\ f.kind # "flag" /\ f.kind # "bytes" /\ f.kind # "strings" /\ f.kind # "messages" /\ f.kind \notin {"message", "oneof"}
    BY <1>1
  <2> QED
    BY <1>1, <2>1, Zenon DEF ValuesAt, Values1, Values2, Values3, Values
<1>2. ASSUME f.kind \in {"half", "enum"} PROVE ValuesAt(l, f) = {n % Halves : n \in Numbers} \ {0}
  <2>1. f.kind # "word" /\ f.kind # "flag" /\ f.kind # "bytes" /\ f.kind # "strings" /\ f.kind # "messages" /\ f.kind \notin {"message", "oneof"}
    BY <1>2
  <2> QED
    BY <1>2, <2>1, Zenon DEF ValuesAt, Values1, Values2, Values3, Values
<1>3. ASSUME f.kind = "flag" PROVE ValuesAt(l, f) = {TRUE}
  <2>1. f.kind # "word" /\ f.kind \notin {"half", "enum"} /\ f.kind # "bytes" /\ f.kind # "strings" /\ f.kind # "messages" /\ f.kind \notin {"message", "oneof"}
    BY <1>3
  <2> QED
    BY <1>3, <2>1, Zenon DEF ValuesAt, Values1, Values2, Values3, Values
<1>4. ASSUME f.kind = "bytes" PROVE ValuesAt(l, f) = Texts
  <2>1. f.kind # "word" /\ f.kind \notin {"half", "enum"} /\ f.kind # "flag" /\ f.kind # "strings" /\ f.kind # "messages" /\ f.kind \notin {"message", "oneof"}
    BY <1>4
  <2> QED
    BY <1>4, <2>1, Zenon DEF ValuesAt, Values1, Values2, Values3, Values
<1>5. ASSUME f.kind = "strings" PROVE ValuesAt(l, f) = {<<t, <<>>>> : t \in Texts}
  <2>1. f.kind # "word" /\ f.kind \notin {"half", "enum"} /\ f.kind # "flag" /\ f.kind # "bytes" /\ f.kind # "messages" /\ f.kind \notin {"message", "oneof"}
    BY <1>5
  <2> QED
    BY <1>5, <2>1, Zenon DEF ValuesAt, Values1, Values2, Values3, Values
<1> QED
  BY <1>1, <1>2, <1>3, <1>4, <1>5

\* ... and if it does.
LEMMA ValuesOfNested ==
  ASSUME NEW l \in 2 .. 3, NEW f
  PROVE  /\ f.kind \in {"message", "oneof"} => ValuesAt(l, f) = {Empty(f.fields), FullAt(l - 1, f.fields)}
         /\ f.kind = "messages" => ValuesAt(l, f) = {<<Empty(f.fields), FullAt(l - 1, f.fields)>>}
<1>1. ASSUME f.kind \in {"message", "oneof"} PROVE ValuesAt(l, f) = {Empty(f.fields), FullAt(l - 1, f.fields)}
  <2>1. f.kind # "word" /\ f.kind \notin {"half", "enum"} /\ f.kind # "flag" /\ f.kind # "bytes" /\ f.kind # "strings" /\ f.kind # "messages"
    BY <1>1
  <2>2. CASE l = 2
    <3>1. Values2(f) = {Empty(f.fields), LeafFull(f.fields)}
      BY <1>1, <2>1, Zenon DEF Values2, Values
    <3> QED
      BY <2>2, <3>1 DEF ValuesAt, FullAt
  <2>3. CASE l = 3
    <3>1. Values3(f) = {Empty(f.fields), InnerFull(f.fields)}
      BY <1>1, <2>1, Zenon DEF Values3, Values
    <3> QED
      BY <2>3, <3>1 DEF ValuesAt, FullAt
  <2> QED
    BY <2>2, <2>3
<1>2. ASSUME f.kind = "messages" PROVE ValuesAt(l, f) = {<<Empty(f.fields), FullAt(l - 1, f.fields)>>}
  <2>1. f.kind # "word" /\ f.kind \notin {"half", "enum"} /\ f.kind # "flag" /\ f.kind # "bytes" /\ f.kind # "strings" /\ f.kind \notin {"message", "oneof"}
    BY <1>2
  <2>2. CASE l = 2
    <3>1. Values2(f) = {<<Empty(f.fields), LeafFull(f.fields)>>}
      BY <1>2, <2>1, Zenon DEF Values2, Values
    <3> QED
      BY <2>2, <3>1 DEF ValuesAt, FullAt
  <2>3. CASE l = 3
    <3>1. Values3(f) = {<<Empty(f.fields), InnerFull(f.fields)>>}
      BY <1>2, <2>1, Zenon DEF Values3, Values
    <3> QED
      BY <2>3, <3>1 DEF ValuesAt, FullAt
  <2> QED
    BY <2>2, <2>3
<1> QED
  BY <1>1, <1>2

\* Whatever is put into a message of a level is sound.
FullBelow(l) == l \in 2 .. 3 => \A x : Laid(l - 1, x) => Sound(l - 1, x, FullAt(l - 1, x))

\* There are such values, and they are of the kind of the field ...
LEMMA PlainValuesKept ==
  ASSUME NEW l, NEW f, Plain(f)
  PROVE  ValuesAt(l, f) # {} /\ \A v \in ValuesAt(l, f) : Kept(l, f, v)
<1>0. Words \in Nat /\ Halves \in Nat \ {0} /\ Numbers \subseteq 1 .. Words - 1
  <2>1. Words \in Nat /\ Halves \in Nat \ {0}
    BY WordsAre
  <2> QED
    BY <2>1, WireAssumption
<1>1. PICK n \in Numbers : n % Halves # 0
  BY WireAssumption
<1>2. PICK t \in Texts : TRUE
  BY WireAssumption
<1>3. Texts \subseteq Seq(Octet)
  BY WireAssumption
<1>4. CASE f.kind = "word"
  <2>1. ValuesAt(l, f) = Numbers
    BY <1>4, ValuesOfPlain
  <2>2. ASSUME NEW v \in ValuesAt(l, f) PROVE Kept(l, f, v)
    <3>1. v \in Numbers
      BY <2>1
    <3>2. PICK w : w = Words
      OBVIOUS
    <3>3. w \in Nat /\ v \in 1 .. w - 1
      BY <1>0, <3>1, <3>2
    <3>4. v \in 0 .. w - 1
      BY <3>3
    <3>5. v \in 0 .. Words - 1
      BY <3>2, <3>4
    <3> QED
      BY <1>4, <3>5 DEF Kept, Holds, Plain
  <2> QED
    BY <1>1, <2>1, <2>2
<1>5. CASE f.kind \in {"half", "enum"}
  <2>1. ValuesAt(l, f) = {x % Halves : x \in Numbers} \ {0}
    BY <1>5, ValuesOfPlain
  <2>2. PICK h : h = Halves
    OBVIOUS
  <2>3. \A x \in Numbers : x % h \in 0 .. h - 1
    <3>1. h \in Nat \ {0} /\ \A x \in Numbers : x \in Nat
      BY <1>0, <2>2
    <3>2. \A x \in Nat : x % h \in 0 .. h - 1
      BY <3>1
    <3> QED
      BY <3>1, <3>2
  <2>4. ValuesAt(l, f) # {}
    BY <1>1, <2>1
  <2>5. ASSUME NEW v \in ValuesAt(l, f) PROVE Kept(l, f, v)
    <3>1. v \in 0 .. Halves - 1
      BY <2>1, <2>2, <2>3
    <3> QED
      BY <1>5, <3>1 DEF Kept, Holds, Plain
  <2> QED
    BY <2>4, <2>5
<1>6. CASE f.kind = "flag"
  <2>1. ValuesAt(l, f) = {TRUE}
    BY <1>6, ValuesOfPlain
  <2>2. Kept(l, f, TRUE)
    BY <1>6 DEF Kept, Holds, Plain
  <2> QED
    BY <2>1, <2>2
<1>7. CASE f.kind = "bytes"
  <2>1. ValuesAt(l, f) = Texts
    BY <1>7, ValuesOfPlain
  <2> QED
    BY <1>2, <1>3, <1>7, <2>1 DEF Kept, Holds, Plain
<1>8. CASE f.kind = "strings"
  <2>1. ValuesAt(l, f) = {<<x, <<>>>> : x \in Texts}
    BY <1>8, ValuesOfPlain
  <2>2. ASSUME NEW x \in Texts PROVE Kept(l, f, <<x, <<>>>>)
    <3>1. PICK v : v = <<x, <<>>>>
      OBVIOUS
    <3>2. x \in Seq(Octet) /\ <<>> \in Seq(Octet)
      <4>1. x \in Seq(Octet)
        BY <1>3
      <4>2. <<>> \in Seq(Octet)
        OBVIOUS
      <4> QED
        BY <4>1, <4>2
    <3>3. v \in Seq(Seq(Octet))
      BY <3>1, <3>2
    <3> QED
      BY <1>8, <3>1, <3>3 DEF Kept, Holds, Plain
  <2> QED
    BY <1>2, <2>1, <2>2
<1> QED
  BY <1>4, <1>5, <1>6, <1>7, <1>8 DEF Plain

\* ... if it holds messages, too ...
LEMMA NestedValuesKept ==
  ASSUME NEW l \in 2 .. 3, FullBelow(l), NEW f, Nests(f), Laid(l - 1, f.fields)
  PROVE  ValuesAt(l, f) # {} /\ \A v \in ValuesAt(l, f) : Kept(l, f, v)
<1>1. PICK e, x : e = Empty(f.fields) /\ x = FullAt(l - 1, f.fields)
  OBVIOUS
<1>2. l - 1 \in 1 .. 3
  OBVIOUS
<1>3. Sound(l - 1, f.fields, e)
  BY <1>1, <1>2, EmptySound
<1>4. Sound(l - 1, f.fields, x)
  BY <1>1 DEF FullBelow
<1>5. CASE f.kind \in {"message", "oneof"}
  <2>1. ValuesAt(l, f) = {e, x}
    BY <1>1, <1>5, ValuesOfNested
  <2>2. ASSUME NEW v, Sound(l - 1, f.fields, v) PROVE Kept(l, f, v)
    BY <1>5, <2>2 DEF Kept, Holds
  <2> QED
    BY <1>3, <1>4, <2>1, <2>2
<1>6. CASE f.kind = "messages"
  <2>1. PICK v : v = <<e, x>>
    OBVIOUS
  <2>2. ValuesAt(l, f) = {v}
    BY <1>1, <1>6, <2>1, ValuesOfNested
  <2>3. v \in Seq({e, x}) /\ Len(v) = 2 /\ v[1] = e /\ v[2] = x
    BY <2>1
  <2>4. IsSeq(v) /\ \A i \in 1 .. Len(v) : Sound(l - 1, f.fields, v[i])
    <3>1. \A i \in 1 .. 2 : i = 1 \/ i = 2
      OBVIOUS
    <3> QED
      BY <1>3, <1>4, <2>3, <3>1 DEF IsSeq
  <2>5. Kept(l, f, v)
    BY <1>6, <2>4 DEF Kept, Holds
  <2> QED
    BY <2>2, <2>5
<1> QED
  BY <1>5, <1>6 DEF Nests

\* ... and so for every field.
LEMMA ValuesKept ==
  ASSUME NEW l \in 1 .. 3, FullBelow(l), NEW f, Fielded(l, f)
  PROVE  ValuesAt(l, f) # {} /\ \A v \in ValuesAt(l, f) : Kept(l, f, v)
  BY PlainValuesKept, NestedValuesKept DEF Fielded

\* The message with every field set is sound, if the ones within are ...
LEMMA FullSound == ASSUME NEW l \in 1 .. 3, FullBelow(l), NEW fields, Laid(l, fields) PROVE Sound(l, fields, FullAt(l, fields))
<1>1. PICK x : x = FullAt(l, fields)
  OBVIOUS
<1>0. x = [k \in DOMAIN fields |->
             IF fields[k].kind = "oneof" THEN None ELSE CHOOSE v \in ValuesAt(l, fields[k]) : TRUE]
  BY <1>1, FullIs
<1>2. DOMAIN x = DOMAIN fields /\ x = [k \in DOMAIN fields |-> x[k]]
  BY <1>0
<1>3. \A k \in DOMAIN fields :
        x[k] = IF fields[k].kind = "oneof" THEN None ELSE CHOOSE v \in ValuesAt(l, fields[k]) : TRUE
  BY <1>0, Zenon
<1>4. ASSUME NEW k \in DOMAIN fields PROVE Kept(l, fields[k], x[k])
  <2>1. Fielded(l, fields[k])
    BY LaidFields
  <2>2. CASE fields[k].kind = "oneof"
    <3>1. x[k] = Zero(fields[k])
      BY <1>3, <2>2, ZeroIs
    <3> QED
      BY <2>1, <3>1, ZeroKept
  <2>3. CASE fields[k].kind # "oneof"
    <3>1. x[k] \in ValuesAt(l, fields[k])
      BY <1>3, <2>1, <2>3, ValuesKept
    <3> QED
      BY <2>1, <3>1, ValuesKept
  <2> QED
    BY <2>2, <2>3
<1>5. Formed(fields, x)
  <2>1. Single(fields, x)
    BY <1>3 DEF Single
  <2>2. \A k \in DOMAIN fields : Holds(fields[k], x[k])
    BY <1>4 DEF Kept
  <2> QED
    BY <1>2, <2>1, <2>2 DEF Formed
<1> QED
  BY <1>1, <1>4, <1>5, SoundFrom

\* ... which they are.
LEMMA AllFull == \A l \in 1 .. 3 : FullBelow(l)
<1>1. FullBelow(1)
  BY DEF FullBelow
<1>2. FullBelow(2)
  BY <1>1, FullSound DEF FullBelow
<1>3. FullBelow(3)
  BY <1>2, FullSound DEF FullBelow
<1> QED
  BY <1>1, <1>2, <1>3

\* What is sent is sound.
LEMMA SamplesSound ==
  ASSUME NEW fields, Laid(3, fields), NEW m \in Samples(fields)
  PROVE  Sound(3, fields, m)
<1>1. Sound(3, fields, Empty(fields))
  BY EmptySound
<1>2. Sound(3, fields, Full(fields))
  <2>1. Sound(3, fields, FullAt(3, fields))
    BY AllFull, FullSound
  <2> QED
    BY <2>1 DEF FullAt
<1>3. ASSUME NEW k \in DOMAIN fields, NEW v \in Values(InnerFull, fields[k]) PROVE Kept(3, fields[k], v)
  <2>1. ValuesAt(3, fields[k]) = Values(InnerFull, fields[k])
    BY DEF ValuesAt, Values3
  <2>2. Fielded(3, fields[k])
    BY LaidFields
  <2> QED
    BY <2>1, <2>2, AllFull, ValuesKept
<1> DEFINE A == UNION {{Assign(fields, Empty(fields), k, v) : v \in Values(InnerFull, fields[k])} : k \in DOMAIN fields}
           B == UNION {{Assign(fields, x, k, v) : x \in A, v \in Values(InnerFull, fields[k])} : k \in DOMAIN fields}
<1>5. m \in {Empty(fields), Full(fields)} \cup A \cup B
  BY DEF Samples
<1>6. ASSUME NEW x \in A PROVE Sound(3, fields, x)
  <2>1. PICK k \in DOMAIN fields : x \in {Assign(fields, Empty(fields), k, v) : v \in Values(InnerFull, fields[k])}
    BY <1>6
  <2>2. PICK v \in Values(InnerFull, fields[k]) : x = Assign(fields, Empty(fields), k, v)
    BY <2>1
  <2> QED
    BY <1>1, <1>3, <2>2, AssignSound
<1>7. ASSUME NEW y \in B PROVE Sound(3, fields, y)
  <2>1. PICK k \in DOMAIN fields : y \in {Assign(fields, x, k, v) : x \in A, v \in Values(InnerFull, fields[k])}
    BY <1>7
  <2>2. PICK x \in A, v \in Values(InnerFull, fields[k]) : y = Assign(fields, x, k, v)
    BY <2>1
  <2> QED
    BY <1>3, <1>6, <2>2, AssignSound
<1> HIDE DEF A, B
<1> QED
  BY <1>1, <1>2, <1>5, <1>6, <1>7

-----------------------------------------------------------------------------
(* One message from a peer to another *)

\* What a reader may make of a message whose end is missing.
Seen(r) == IF r.err = "" THEN Encode(Fields, r.val) = bytes ELSE r.err = "eof"

\* The inductive invariant: what is on the wire at each stage, and what reading
\* it will return.
WrittenInv ==
  stage = "written" => Sound(3, Fields, message) /\ bytes = Encode(Fields, message) /\ Fits(bytes)
ChangedInv == stage = "changed" => Unmarshal(Fields, bytes) = Read(message, Len(bytes))
CutInv     == stage = "cut" => Seen(Unmarshal(Fields, bytes))

WireInv ==
  /\ name \in DOMAIN Layout
  /\ WrittenInv /\ ChangedInv /\ CutInv
  /\ RoundTrip /\ CutIsSeen

\* The chunks that SendMessage writes are those of the highest level.
LEMMA ChunksAre == ASSUME NEW fields, NEW m PROVE [k \in DOMAIN fields |-> EncodeField(InnerEncode, fields[k], m[k])] = Chunk(3, fields, m)
<1>1. \A f, v : EncodeFieldAt(3, f, v) = EncodeField(InnerEncode, f, v)
  <2> TAKE f, v
  <2>1. PartsAt(3, f, v) = Parts(InnerEncode, f, v)
    BY DEF PartsAt, Parts3
  <2>2. EncodeFieldAt(3, f, v) = FlattenSeq(Tags(f, Parts(InnerEncode, f, v)))
    BY <2>1 DEF EncodeFieldAt
  <2> QED
    BY <2>2 DEF EncodeField, Tags
<1> QED
  BY <1>1 DEF Chunk

\* Unmarshal returns the message that its whole input takes.
LEMMA WholeIsRead ==
  ASSUME NEW fields, NEW d \in Seq(Octet), Fits(d), NEW m, Takes(3, fields, d, Empty(fields), m)
  PROVE  Unmarshal(fields, d) = Read(m, Len(d))
<1>1. UnmarshalAt(3, fields, d, Empty(fields)) = Read(m, Len(d))
  BY TakenIsRead
<1> QED
  BY <1>1 DEF UnmarshalAt, Unmarshal

\* What SendMessage sends is a sound message, and its Marshal does not panic.
LEMMA SentIs ==
  ASSUME NEW n \in DOMAIN Layout, NEW m \in Samples(Layout[n])
  PROVE  Sound(3, Layout[n], m) /\ Marshal(Layout[n], m) = [panic |-> FALSE, bytes |-> Encode(Layout[n], m)]
<1>1. PICK fields : fields = Layout[n]
  OBVIOUS
<1>2. Laid(3, fields)
  BY <1>1, LayoutIsLaid
<1>3. Sound(3, fields, m)
  BY <1>1, <1>2, SamplesSound
<1>4. Marshal(fields, m) = [panic |-> FALSE, bytes |-> Encode(fields, m)]
  BY <1>2, <1>3, MarshalFillsItsBuffer
<1> QED
  BY <1>1, <1>3, <1>4

\* A message is read the same with a field between two others that only a newer
\* peer knows (the default case of every Unmarshal: skip).
THEOREM NewerPeerIsRead ==
  ASSUME NEW n \in DOMAIN Layout, NEW m, Sound(3, Layout[n], m), NEW k \in 0 .. Len(Layout[n]), NEW u \in Unknown,
         NEW d, Fits(d),
         d = FlattenSeq(SubSeq(Chunk(3, Layout[n], m), 1, k)) \o u
               \o FlattenSeq(SubSeq(Chunk(3, Layout[n], m), k + 1, Len(Layout[n])))
  PROVE  Unmarshal(Layout[n], d) = Read(m, Len(d))
<1>1. PICK fields : fields = Layout[n]
  OBVIOUS
<1>2. Laid(3, fields) /\ Lower(3)
  BY <1>1, LayoutIsLaid, AllDecode
<1>3. Foreign(fields, u)
  <2>1. UnknownField(u)
    BY UnknownAssumption
  <2>2. \A x \in DOMAIN Layout : \A j \in DOMAIN Layout[x] : Layout[x][j].num # (ReadVarint(u, 0).val \div 8) % Halves
    BY <2>1, Zenon DEF UnknownField
  <2> QED
    BY <1>1, <2>1, <2>2 DEF Foreign
<1>4. d \in Seq(Octet) /\ Takes(3, fields, d, Empty(fields), m)
  <2>1. 3 \in 1 .. 3 /\ Sound(3, fields, m) /\ k \in 0 .. Len(fields)
    BY <1>1
  <2>2. d = FlattenSeq(SubSeq(Chunk(3, fields, m), 1, k)) \o u \o FlattenSeq(SubSeq(Chunk(3, fields, m), k + 1, Len(fields)))
    BY <1>1
  <2> QED
    BY <1>2, <1>3, <2>1, <2>2, ForeignWithin
<1> QED
  BY <1>1, <1>4, WholeIsRead

\* A message is read the same with its fields in the reverse order.
THEOREM OtherOrderIsRead ==
  ASSUME NEW n \in DOMAIN Layout, NEW m, Sound(3, Layout[n], m), NEW d, Fits(d),
         d = FlattenSeq(Reverse(Chunk(3, Layout[n], m)))
  PROVE  Unmarshal(Layout[n], d) = Read(m, Len(d))
<1>1. PICK fields : fields = Layout[n]
  OBVIOUS
<1>2. Laid(3, fields) /\ Lower(3)
  BY <1>1, LayoutIsLaid, AllDecode
<1>3. d \in Seq(Octet) /\ Takes(3, fields, d, Empty(fields), m)
  BY <1>1, <1>2, InReverse
<1> QED
  BY <1>1, <1>3, WholeIsRead

\* A message is read the same with its zeros written.
THEOREM ZerosAreRead ==
  ASSUME NEW n \in DOMAIN Layout, NEW m, Sound(3, Layout[n], m), NEW d, Fits(d),
         d = FlattenSeq([k \in DOMAIN Layout[n] |->
                           IF m[k] = Zero(Layout[n][k]) THEN ZeroField(Layout[n][k]) ELSE Chunk(3, Layout[n], m)[k]])
  PROVE  Unmarshal(Layout[n], d) = Read(m, Len(d))
<1>1. PICK fields : fields = Layout[n]
  OBVIOUS
<1>2. Laid(3, fields) /\ Lower(3)
  BY <1>1, LayoutIsLaid, AllDecode
<1>3. d \in Seq(Octet) /\ Takes(3, fields, d, Empty(fields), m)
  BY <1>1, <1>2, ZerosTake
<1> QED
  BY <1>1, <1>3, WholeIsRead

\* For every message of the program and all its values, whatever the width of the
\* words: Unmarshal returns what Marshal was given (dfs.pb.go:1707-1760, 3320-3601 and the
\* like for every message), if it is short enough for its length to be an int.
THEOREM EveryMessageIsRead ==
  ASSUME NEW n \in DOMAIN Layout, NEW m, Sound(3, Layout[n], m), Fits(Encode(Layout[n], m))
  PROVE  Unmarshal(Layout[n], Encode(Layout[n], m)) = Read(m, Len(Encode(Layout[n], m)))
<1>1. PICK fields, e : fields = Layout[n] /\ e = Encode(fields, m)
  OBVIOUS
<1>2. Laid(3, fields) /\ Lower(3)
  BY <1>1, LayoutIsLaid, AllDecode
<1>3. EncodeAt(3, fields, m) = e
  BY <1>1 DEF EncodeAt
<1>4. e \in Seq(Octet) /\ Takes(3, fields, e, Empty(fields), m)
  BY <1>1, <1>2, <1>3, InOrder
<1> QED
  BY <1>1, <1>4, WholeIsRead

\* What a reader makes of a message whose end is missing, cut anywhere: io.ErrUnexpectedEOF,
\* or exactly the message that what is there is the encoding of.
THEOREM EveryCutIsSeen ==
  ASSUME NEW n \in DOMAIN Layout, NEW m, Sound(3, Layout[n], m), Fits(Encode(Layout[n], m)),
         NEW c \in 0 .. Len(Encode(Layout[n], m)) - 1, NEW d, d = SubSeq(Encode(Layout[n], m), 1, c)
  PROVE  IF Unmarshal(Layout[n], d).err = ""
         THEN Encode(Layout[n], Unmarshal(Layout[n], d).val) = d
         ELSE Unmarshal(Layout[n], d).err = "eof"
<1>1. PICK fields, e : fields = Layout[n] /\ e = Encode(fields, m)
  OBVIOUS
<1>2. Laid(3, fields) /\ Lower(3)
  BY <1>1, LayoutIsLaid, AllDecode
<1>3. EncodeAt(3, fields, m) = e
  BY <1>1 DEF EncodeAt
<1>4. PICK r : r = UnmarshalAt(3, fields, d, Empty(fields))
  OBVIOUS
<1>5. r = Failed("eof") \/ \E m2 : r = Read(m2, Len(d)) /\ EncodeAt(3, fields, m2) = d
  <2>1. Sound(3, fields, m) /\ Fits(e) /\ c \in 0 .. Len(e) - 1 /\ d = SubSeq(e, 1, c) /\ e = EncodeAt(3, fields, m)
    BY <1>1, <1>3
  <2>2. \/ UnmarshalAt(3, fields, d, Empty(fields)) = Failed("eof")
        \/ \E m2 : UnmarshalAt(3, fields, d, Empty(fields)) = Read(m2, Len(d)) /\ EncodeAt(3, fields, m2) = d
    <3>1. CutRead(3, fields, d)
      <4>1. PICK l \in 1 .. 3 : l = 3
        OBVIOUS
      <4>2. Lower(l) /\ Laid(l, fields) /\ Sound(l, fields, m) /\ e = EncodeAt(l, fields, m)
        BY <1>2, <2>1, <4>1
      <4>3. CutRead(l, fields, d)
        BY <2>1, <4>2, CutIsRead
      <4> QED
        BY <4>1, <4>3
    <3> QED
      BY <3>1 DEF CutRead
  <2> QED
    BY <1>4, <2>2
<1>6. IF r.err = "" THEN Encode(fields, r.val) = d ELSE r.err = "eof"
  <2>1. CASE r = Failed("eof")
    <3>1. r.err = "eof"
      BY <2>1, ReadIs, Zenon
    <3> QED
      BY <3>1
  <2>2. ASSUME NEW m2, r = Read(m2, Len(d)), EncodeAt(3, fields, m2) = d
        PROVE  r.err = "" /\ Encode(fields, r.val) = d
    <3>1. r.err = "" /\ r.val = m2
      BY <2>2, ReadIs, Zenon
    <3>2. EncodeAt(3, fields, m2) = Encode(fields, m2)
      BY DEF EncodeAt
    <3> QED
      BY <2>2, <3>1, <3>2, Zenon
  <2> QED
    BY <1>5, <2>1, <2>2, Zenon
<1>7. Unmarshal(fields, d) = r
  BY <1>4 DEF UnmarshalAt, Unmarshal
<1> QED
  BY <1>1, <1>6, <1>7, Zenon

\* The invariant holds at first.
LEMMA WireStarts == WireInit => WireInv
  BY DEF WireInit, WireInv, WrittenInv, ChangedInv, CutInv, RoundTrip, CutIsSeen

\* Every step keeps the invariant.
LEMMA WireSteps == WireInv /\ [WireNext]_wireVars => WireInv'
<1> SUFFICES ASSUME WireInv, [WireNext]_wireVars PROVE WireInv'
  OBVIOUS
<1>0. name \in DOMAIN Layout /\ Fields = Layout[name]
  BY DEF WireInv, Fields
<1>1. CASE SendMessage
  <2>1. PICK m \in Samples(Fields) :
          /\ message' = m /\ bytes' = Marshal(Fields, m).bytes
          /\ stage' = IF Marshal(Fields, m).panic THEN "panicked" ELSE "written"
    BY <1>1 DEF SendMessage
  <2>2. Sound(3, Fields, m) /\ Marshal(Fields, m) = [panic |-> FALSE, bytes |-> Encode(Fields, m)]
    BY <1>0, SentIs
  <2>3. stage' = "written" /\ bytes' = Encode(Fields, m)
    BY <2>1, <2>2
  <2>4. name' = name /\ Fields' = Fields /\ Fits(bytes')
    BY <1>1 DEF SendMessage, Fields
  <2>5. WrittenInv'
    BY <2>1, <2>2, <2>3, <2>4 DEF WrittenInv
  <2> QED
    BY <1>0, <2>3, <2>4, <2>5, Zenon DEF WireInv, ChangedInv, CutInv, RoundTrip, CutIsSeen
<1>2. ASSUME stage = "written", stage' = "changed", name' = name, message' = message,
             Unmarshal(Fields, bytes') = Read(message, Len(bytes'))
      PROVE  WireInv'
  <2>1. Fields' = Fields
    BY <1>2 DEF Fields
  <2> QED
    BY <1>0, <1>2, <2>1 DEF WireInv, WrittenInv, ChangedInv, CutInv, RoundTrip, CutIsSeen
<1>3. stage = "written" => Sound(3, Layout[name], message) /\ bytes = Encode(Layout[name], message) /\ Fits(bytes)
  BY <1>0 DEF WireInv, WrittenInv
<1>4. Chunks = Chunk(3, Layout[name], message)
  BY <1>0, ChunksAre DEF Chunks
<1>5. CASE NewerPeer
  <2>1. PICK k \in 0 .. Len(Fields), u \in Unknown :
          bytes' = FlattenSeq(SubSeq(Chunks, 1, k)) \o u \o FlattenSeq(SubSeq(Chunks, k + 1, Len(Fields)))
    BY <1>5 DEF NewerPeer
  <2>2. stage = "written" /\ Fits(bytes') /\ stage' = "changed" /\ name' = name /\ message' = message
    BY <1>5 DEF NewerPeer
  <2>3. PICK d : d = bytes'
    OBVIOUS
  <2>4. Unmarshal(Layout[name], d) = Read(message, Len(d))
    <3>1. d = FlattenSeq(SubSeq(Chunk(3, Layout[name], message), 1, k)) \o u
               \o FlattenSeq(SubSeq(Chunk(3, Layout[name], message), k + 1, Len(Layout[name])))
      BY <1>0, <1>4, <2>1, <2>3
    <3> QED
      BY <1>0, <1>3, <2>2, <2>3, <3>1, NewerPeerIsRead
  <2> QED
    BY <1>0, <1>2, <2>2, <2>3, <2>4
<1>6. CASE OtherOrder
  <2>1. stage = "written" /\ Fits(bytes') /\ stage' = "changed" /\ name' = name /\ message' = message
    BY <1>6 DEF OtherOrder
  <2>2. PICK d : d = bytes'
    OBVIOUS
  <2>3. d = FlattenSeq(Reverse(Chunk(3, Layout[name], message)))
    BY <1>4, <1>6, <2>2 DEF OtherOrder
  <2>4. Unmarshal(Layout[name], d) = Read(message, Len(d))
    BY <1>0, <1>3, <2>1, <2>2, <2>3, OtherOrderIsRead
  <2> QED
    BY <1>0, <1>2, <2>1, <2>2, <2>4
<1>7. CASE WithZeros
  <2>1. stage = "written" /\ Fits(bytes') /\ stage' = "changed" /\ name' = name /\ message' = message
    BY <1>7 DEF WithZeros
  <2>2. PICK d : d = bytes'
    OBVIOUS
  <2>3. d = FlattenSeq([k \in DOMAIN Layout[name] |->
                          IF message[k] = Zero(Layout[name][k]) THEN ZeroField(Layout[name][k])
                          ELSE Chunk(3, Layout[name], message)[k]])
    BY <1>0, <1>4, <1>7, <2>2 DEF WithZeros
  <2>4. Unmarshal(Layout[name], d) = Read(message, Len(d))
    BY <1>0, <1>3, <2>1, <2>2, <2>3, ZerosAreRead
  <2> QED
    BY <1>0, <1>2, <2>1, <2>2, <2>4
<1>8. CASE Cut
  <2>1. PICK n \in 0 .. Len(bytes) - 1 : bytes' = SubSeq(bytes, 1, n)
    BY <1>8 DEF Cut
  <2>2. stage = "written" /\ stage' = "cut" /\ name' = name /\ message' = message
    BY <1>8 DEF Cut
  <2>3. PICK d : d = bytes'
    OBVIOUS
  <2>4. IF Unmarshal(Layout[name], d).err = ""
        THEN Encode(Layout[name], Unmarshal(Layout[name], d).val) = d
        ELSE Unmarshal(Layout[name], d).err = "eof"
    BY <1>0, <1>3, <2>1, <2>2, <2>3, EveryCutIsSeen, Zenon
  <2>5. Fields' = Fields
    BY <2>2 DEF Fields
  <2>6. CutInv'
    BY <1>0, <2>3, <2>4, <2>5, Zenon DEF CutInv, Seen
  <2> QED
    BY <1>0, <2>2, <2>6 DEF WireInv, WrittenInv, ChangedInv, RoundTrip, CutIsSeen
<1>9. CASE ReceiveMessage
  <2>1. /\ stage \in {"written", "changed", "cut"} /\ stage' = "read"
        /\ name' = name /\ message' = message /\ bytes' = bytes /\ Fields' = Fields
        /\ result'.whole = (stage # "cut") /\ result'.got = Unmarshal(Fields, bytes)
    BY <1>9 DEF ReceiveMessage, Fields
  <2>2. stage = "written" => Unmarshal(Fields, bytes) = Read(message, Len(bytes))
    BY <1>0, <1>3, EveryMessageIsRead
  <2>3. RoundTrip'
    BY <2>1, <2>2 DEF RoundTrip, WireInv, ChangedInv
  <2>4. CutIsSeen'
    BY <2>1, Zenon DEF CutIsSeen, WireInv, CutInv, Seen
  <2> QED
    BY <1>0, <2>1, <2>3, <2>4 DEF WireInv, WrittenInv, ChangedInv, CutInv
<1>10. CASE UNCHANGED wireVars
  BY <1>10, Zenon DEF wireVars, WireInv, WrittenInv, ChangedInv, CutInv, RoundTrip, CutIsSeen, Seen, Fields
<1> QED
  BY <1>1, <1>5, <1>6, <1>7, <1>8, <1>9, <1>10 DEF WireNext

\* The inductive invariant holds: what reading will return is settled when the bytes are
\* on the wire.
THEOREM WireIsInvariant == WireSpec => []WireInv
  BY WireStarts, WireSteps, PTL DEF WireSpec

\* Every message is read as it was sent, and Marshal never panics: for all widths,
\* texts, numbers and unknown fields.
THEOREM RoundTripHolds == WireSpec => []RoundTrip
<1>1. WireInv => RoundTrip
  BY DEF WireInv
<1> QED
  BY <1>1, WireIsInvariant, PTL

\* A message whose end is missing is an error or a message of its own, for all widths,
\* texts, numbers and bounds.
THEOREM CutIsSeenHolds == WireSpec => []CutIsSeen
<1>1. WireInv => CutIsSeen
  BY DEF WireInv
<1> QED
  BY <1>1, WireIsInvariant, PTL
=============================================================================
