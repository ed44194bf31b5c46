------------------------------ MODULE RpcCall -------------------------------
(***************************************************************************)
(* One streaming gRPC call between a caller and a target, as the two see   *)
(* it when nothing stands between them: what the runner's proxy promises   *)
(* both sides of.  Each side's messages are numbered in the order sent.    *)
(***************************************************************************)
EXTENDS Naturals, Sequences

CONSTANT MaxSent  \* bound: messages each side sends

VARIABLES
  sent, up,          \* messages the caller has sent; those on their way
  halfClosed,        \* the caller has said that it will send no more
  cancelled,         \* the caller has cancelled, or its connection is gone
  got, sawEnd,       \* what the target has received; it has seen the half-close
  replied, down,     \* messages the target has sent; those on their way
  ended,             \* no, ok, error: how the target has ended the call
  received, outcome  \* what the caller has received: messages, and the status

vars == <<sent, up, halfClosed, cancelled, got, sawEnd, replied, down, ended,
          received, outcome>>

target == <<got, sawEnd, replied, down, ended>>

Prefixes(s) == {SubSeq(s, 1, n) : n \in 0 .. Len(s)}

Init ==
  /\ sent = 0 /\ up = <<>> /\ halfClosed = FALSE /\ cancelled = FALSE
  /\ got = <<>> /\ sawEnd = FALSE
  /\ replied = 0 /\ down = <<>> /\ ended = "no"
  /\ received = <<>> /\ outcome = "none"

InCall == ~cancelled /\ outcome = "none"

Send ==
  /\ InCall /\ ~halfClosed /\ sent < MaxSent
  /\ sent' = sent + 1
  /\ up' = IF ended = "no" THEN Append(up, sent') ELSE up
  /\ UNCHANGED <<halfClosed, cancelled, target, received, outcome>>

HalfClose ==
  /\ InCall /\ ~halfClosed
  /\ halfClosed' = TRUE
  /\ UNCHANGED <<sent, up, cancelled, target, received, outcome>>

\* What has not reached the other side may be lost, the newest first.
Cancel ==
  /\ InCall
  /\ cancelled' = TRUE
  /\ up' \in Prefixes(up)
  /\ down' = <<>>
  /\ UNCHANGED <<sent, halfClosed, got, sawEnd, replied, ended, received, outcome>>

TargetReceives ==
  /\ ended = "no" /\ up # <<>>
  /\ got' = Append(got, Head(up))
  /\ up' = Tail(up)
  /\ UNCHANGED <<sent, halfClosed, cancelled, sawEnd, replied, down, ended, received, outcome>>

\* The target takes the end of its input for the end of what was sent.
TargetSeesEnd ==
  /\ ended = "no" /\ ~sawEnd
  /\ halfClosed /\ Len(got) = sent
  /\ sawEnd' = TRUE
  /\ UNCHANGED <<sent, up, halfClosed, cancelled, got, replied, down, ended, received, outcome>>

TargetReplies ==
  /\ ended = "no" /\ replied < MaxSent
  /\ replied' = replied + 1
  /\ down' = IF cancelled THEN down ELSE Append(down, replied')
  /\ UNCHANGED <<sent, up, halfClosed, cancelled, got, sawEnd, ended, received, outcome>>

TargetEnds(s) ==
  /\ ended = "no"
  /\ ended' = s
  /\ up' = <<>>
  /\ UNCHANGED <<sent, halfClosed, cancelled, got, sawEnd, replied, down, received, outcome>>

\* An error may overtake the replies sent before it.
LoseReplies ==
  /\ ended = "error"
  /\ down' \in Prefixes(down)
  /\ UNCHANGED <<sent, up, halfClosed, cancelled, got, sawEnd, replied, ended, received, outcome>>

CallerReceives ==
  /\ InCall /\ down # <<>>
  /\ received' = Append(received, Head(down))
  /\ down' = Tail(down)
  /\ UNCHANGED <<sent, up, halfClosed, cancelled, got, sawEnd, replied, ended, outcome>>

\* The status comes last and is the target's; ok means that nothing was lost.
CallerEnds ==
  /\ InCall /\ ended # "no" /\ down = <<>>
  /\ ended = "ok" => Len(received) = replied
  /\ outcome' = ended
  /\ UNCHANGED <<sent, up, halfClosed, cancelled, target, received>>

Next ==
  \/ Send \/ HalfClose \/ Cancel
  \/ TargetReceives \/ TargetSeesEnd \/ TargetReplies
  \/ TargetEnds("ok") \/ TargetEnds("error") \/ LoseReplies
  \/ CallerReceives \/ CallerEnds

Spec == Init /\ [][Next]_vars
=============================================================================
