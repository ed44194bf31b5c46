------------------------------ MODULE Transfer ------------------------------
(***************************************************************************)
(* One call through the gRPC proxy (transport/grpcproxy): the function     *)
(* transfer and its two loops, between the stream of the caller (src) and  *)
(* the stream to the target (dst).  One goroutine copies the caller's      *)
(* messages to the target, the handler itself copies the target's replies  *)
(* back, waits for the other loop, and returns the status of the call.     *)
(* The streams are the gRPC library's and are modelled from their use: a   *)
(* stream delivers in order, and once the call is cancelled or the target  *)
(* has ended it, an operation on it may fail or lose its message.          *)
(***************************************************************************)
EXTENDS Naturals, Sequences

CONSTANTS
  MaxSent,    \* bound: messages each side sends
  Window,     \* messages of replies the caller's stream takes before a send blocks
  NoMessage

ASSUME TransferAssumption ==
  MaxSent \in Nat /\ Window \in Nat \ {0} /\ NoMessage \notin Nat

VARIABLES
  \* The caller.
  sent, halfClosed, cancelled, received, outcome,
  \* The target.
  got, sawEnd, replied, ended,
  \* The streams: towards the proxy and away from it.
  srcIn, srcOut, dstIn, dstOut,
  sendClosed,          \* CloseSend has been called on dst
  \* The two loops, and the message each holds.
  upper, upMsg,        \* recv, send, done
  downer, downMsg,     \* recv, send, wait
  resErr,              \* transfer's resErr is set
  returned             \* none, ok, error: what the handler has returned

caller == <<sent, halfClosed, cancelled, received, outcome>>
target == <<got, sawEnd, replied, ended>>
upLoop == <<upper, upMsg>>
downLoop == <<downer, downMsg, resErr>>
vars == <<sent, halfClosed, cancelled, received, outcome, got, sawEnd, replied, ended,
          srcIn, srcOut, dstIn, dstOut, sendClosed, upper, upMsg, downer, downMsg,
          resErr, returned>>

Init ==
  /\ sent = 0 /\ halfClosed = FALSE /\ cancelled = FALSE
  /\ received = <<>> /\ outcome = "none"
  /\ got = <<>> /\ sawEnd = FALSE /\ replied = 0 /\ ended = "no"
  /\ srcIn = <<>> /\ srcOut = <<>> /\ dstIn = <<>> /\ dstOut = <<>>
  /\ sendClosed = FALSE
  /\ upper = "recv" /\ upMsg = NoMessage
  /\ downer = "recv" /\ downMsg = NoMessage
  /\ resErr = FALSE
  /\ returned = "none"

\* The context of dst is that of src: a cancelled call is off on both streams.
DstLive == ended = "no" /\ ~cancelled

-----------------------------------------------------------------------------
(* The caller and the target *)

InCall == ~cancelled /\ outcome = "none"

Send ==
  /\ InCall /\ ~halfClosed /\ sent < MaxSent
  /\ sent' = sent + 1
  /\ srcIn' = Append(srcIn, sent')
  /\ UNCHANGED <<halfClosed, cancelled, received, outcome, target, srcOut, dstIn,
                 dstOut, sendClosed, upLoop, downLoop, returned>>

HalfClose ==
  /\ InCall /\ ~halfClosed
  /\ halfClosed' = TRUE
  /\ UNCHANGED <<sent, cancelled, received, outcome, target, srcIn, srcOut, dstIn,
                 dstOut, sendClosed, upLoop, downLoop, returned>>

Cancel ==
  /\ InCall
  /\ cancelled' = TRUE
  /\ UNCHANGED <<sent, halfClosed, received, outcome, target, srcIn, srcOut, dstIn,
                 dstOut, sendClosed, upLoop, downLoop, returned>>

CallerReceives ==
  /\ InCall /\ srcOut # <<>>
  /\ received' = Append(received, Head(srcOut))
  /\ srcOut' = Tail(srcOut)
  /\ UNCHANGED <<sent, halfClosed, cancelled, outcome, target, srcIn, dstIn, dstOut,
                 sendClosed, upLoop, downLoop, returned>>

CallerEnds ==
  /\ InCall /\ returned # "none" /\ srcOut = <<>>
  /\ outcome' = returned
  /\ UNCHANGED <<sent, halfClosed, cancelled, received, target, srcIn, srcOut, dstIn,
                 dstOut, sendClosed, upLoop, downLoop, returned>>

TargetReceives ==
  /\ ended = "no" /\ dstOut # <<>>
  /\ got' = Append(got, Head(dstOut))
  /\ dstOut' = Tail(dstOut)
  /\ UNCHANGED <<caller, sawEnd, replied, ended, srcIn, srcOut, dstIn, sendClosed,
                 upLoop, downLoop, returned>>

TargetSeesEnd ==
  /\ ended = "no" /\ ~sawEnd /\ sendClosed /\ dstOut = <<>>
  /\ sawEnd' = TRUE
  /\ UNCHANGED <<caller, got, replied, ended, srcIn, srcOut, dstIn, dstOut, sendClosed,
                 upLoop, downLoop, returned>>

TargetReplies ==
  /\ ended = "no" /\ replied < MaxSent
  /\ replied' = replied + 1
  /\ dstIn' = Append(dstIn, replied')
  /\ UNCHANGED <<caller, got, sawEnd, ended, srcIn, srcOut, dstOut, sendClosed, upLoop,
                 downLoop, returned>>

TargetEnds(s) ==
  /\ ended = "no"
  /\ ended' = s
  /\ UNCHANGED <<caller, got, sawEnd, replied, srcIn, srcOut, dstIn, dstOut, sendClosed,
                 upLoop, downLoop, returned>>

-----------------------------------------------------------------------------
(* Src -> Dst: the goroutine *)

UpRecv ==
  /\ upper = "recv" /\ srcIn # <<>>
  /\ upMsg' = Head(srcIn)
  /\ srcIn' = Tail(srcIn)
  /\ upper' = "send"
  /\ UNCHANGED <<caller, target, srcOut, dstIn, dstOut, sendClosed, downLoop, returned>>

\* Mutant of UpEof: the loop goes round again.
UpEofGoesOn ==
  /\ upper = "recv" /\ srcIn = <<>> /\ halfClosed /\ ~cancelled
  /\ sendClosed' = TRUE
  /\ UNCHANGED <<caller, target, srcIn, srcOut, dstIn, dstOut, upLoop, downLoop, returned>>

\* RecvMsg says EOF: the half-close is passed on.
UpEof ==
  /\ upper = "recv" /\ srcIn = <<>> /\ halfClosed /\ ~cancelled
  /\ sendClosed' = TRUE
  /\ upper' = "done"
  /\ UNCHANGED <<caller, target, srcIn, srcOut, dstIn, dstOut, upMsg, downLoop, returned>>

\* Mutant of UpError: every error of RecvMsg is passed on as a half-close.
UpErrorCloses ==
  /\ upper = "recv" /\ cancelled
  /\ sendClosed' = TRUE
  /\ upper' = "done"
  /\ UNCHANGED <<caller, target, srcIn, srcOut, dstIn, dstOut, upMsg, downLoop, returned>>

\* RecvMsg fails otherwise: the call was cancelled.
UpError ==
  /\ upper = "recv" /\ cancelled
  /\ upper' = "done"
  /\ UNCHANGED <<caller, target, srcIn, srcOut, dstIn, dstOut, sendClosed, upMsg,
                 downLoop, returned>>

UpSend ==
  /\ upper = "send"
  /\ dstOut' = IF DstLive THEN Append(dstOut, upMsg) ELSE dstOut
  /\ upMsg' = NoMessage
  /\ upper' = "recv"
  /\ UNCHANGED <<caller, target, srcIn, srcOut, dstIn, sendClosed, downLoop, returned>>

UpSendFails ==
  /\ upper = "send" /\ ~DstLive
  /\ upMsg' = NoMessage
  /\ upper' = "done"
  /\ UNCHANGED <<caller, target, srcIn, srcOut, dstIn, dstOut, sendClosed, downLoop, returned>>

UpStep == UpRecv \/ UpEof \/ UpError \/ UpSend \/ UpSendFails

-----------------------------------------------------------------------------
(* Dst -> Src: the handler *)

DownRecv ==
  /\ downer = "recv" /\ dstIn # <<>>
  /\ downMsg' = Head(dstIn)
  /\ dstIn' = Tail(dstIn)
  /\ downer' = "send"
  /\ UNCHANGED <<caller, target, srcIn, srcOut, dstOut, sendClosed, upLoop, resErr, returned>>

\* RecvMsg says EOF: the target has ended the call with the status ok.
DownEof ==
  /\ downer = "recv" /\ dstIn = <<>> /\ ended = "ok"
  /\ downer' = "wait"
  /\ UNCHANGED <<caller, target, srcIn, srcOut, dstIn, dstOut, sendClosed, upLoop, downMsg,
                 resErr, returned>>

\* RecvMsg fails: the target has ended the call with an error, which may
\* overtake its replies, or the call was cancelled.
DownError ==
  /\ downer = "recv" /\ (ended = "error" \/ cancelled)
  /\ downer' = "wait"
  /\ resErr' = TRUE
  /\ UNCHANGED <<caller, target, srcIn, srcOut, dstIn, dstOut, sendClosed, upLoop, downMsg,
                 returned>>

\* A send waits for the caller to read, for as long as the call is on.
DownSend ==
  /\ downer = "send"
  /\ cancelled \/ Len(srcOut) < Window
  /\ srcOut' = IF cancelled THEN srcOut ELSE Append(srcOut, downMsg)
  /\ downMsg' = NoMessage
  /\ downer' = "recv"
  /\ UNCHANGED <<caller, target, srcIn, dstIn, dstOut, sendClosed, upLoop, resErr, returned>>

\* SendMsg fails: the loop ends without an error of its own.
DownSendFails ==
  /\ downer = "send" /\ cancelled
  /\ downMsg' = NoMessage
  /\ downer' = "wait"
  /\ UNCHANGED <<caller, target, srcIn, srcOut, dstIn, dstOut, sendClosed, upLoop, resErr,
                 returned>>

\* wg.Wait, and the return.
Return ==
  /\ downer = "wait" /\ upper = "done" /\ returned = "none"
  /\ returned' = IF resErr THEN "error" ELSE "ok"
  /\ UNCHANGED <<caller, target, srcIn, srcOut, dstIn, dstOut, sendClosed, upLoop, downLoop>>

DownStep == DownRecv \/ DownEof \/ DownError \/ DownSend \/ DownSendFails \/ Return

-----------------------------------------------------------------------------
CallerStep == Send \/ HalfClose \/ Cancel \/ CallerReceives \/ CallerEnds

TargetStep ==
  TargetReceives \/ TargetSeesEnd \/ TargetReplies \/ TargetEnds("ok") \/ TargetEnds("error")

\* The call is over for both sides.
Over ==
  /\ returned # "none" /\ ended # "no"
  /\ outcome # "none" \/ cancelled

Next == CallerStep \/ TargetStep \/ UpStep \/ DownStep \/ (Over /\ UNCHANGED vars)

Spec == Init /\ [][Next]_vars

\* The proxy's goroutines run when they can; the caller and the target may stop
\* at any point.
FairSpec == Spec /\ WF_vars(UpStep) /\ WF_vars(DownStep)

-----------------------------------------------------------------------------
(* Properties *)

Held(m) == IF m = NoMessage THEN <<>> ELSE <<m>>

Up ==
  CASE ended # "no" -> <<>>
    [] ended = "no" /\ cancelled -> dstOut
    [] OTHER -> dstOut \o Held(upMsg) \o srcIn

Down ==
  CASE cancelled -> <<>>
    [] ~cancelled /\ resErr -> srcOut
    [] OTHER -> srcOut \o Held(downMsg) \o dstIn

Call == INSTANCE RpcCall WITH up <- Up, down <- Down

\* A call through the proxy is a call: for the caller and the target nothing
\* tells it from a direct one.  Messages arrive in order and once; the target
\* sees the end of its input only after all of it, never for a cancellation;
\* the caller's status is the target's, and ok only after every reply.
ImplementsRpcCall == Call!Spec

\* Once the caller has cancelled, or has no more to say and the target has ended
\* the call, the proxy's handler returns, with both its loops, unless the caller
\* for ever leaves replies unread.
ReturnsWhenBothDone ==
  cancelled \/ (halfClosed /\ ended # "no") ~>
    returned # "none" \/ [](~cancelled /\ Len(srcOut) = Window)
=============================================================================
