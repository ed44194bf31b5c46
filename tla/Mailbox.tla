------------------------------ MODULE Mailbox -------------------------------
(***************************************************************************)
(* The email server of the services (email/email.go) for one mailbox: what *)
(* it does with IMAP and SMTP commands for ListMessages, GetMessage,       *)
(* DeleteMessage, MoveMessage and SendEmail.  Every call has a connection  *)
(* of its own, and any command may fail.                                   *)
(*                                                                         *)
(* The mail server is external, and only what the calls rely on: a folder  *)
(* is a set of messages, whose UIDs grow in order of arrival and are not   *)
(* used again in that folder; a session numbers them by UID as they are    *)
(* when it selects the folder; EXPUNGE removes whatever is marked.  A      *)
(* message is an identity.  One client walks the listing of a folder page  *)
(* by page; others delete and move messages; one sends an email.           *)
(***************************************************************************)
EXTENDS Integers, FiniteSets, SequencesExt

CONSTANTS
  FolderList,  \* the folders, in the order LIST returns them
  Inbox,       \* the one that receives messages and is listed
  Clients,     \* clients that delete and move messages
  Recipients,  \* of the email that is sent, as a sequence
  Refused,     \* a recipient the server does not take
  PageSize,    \* the limit the listing client asks for
  StartSize,   \* bound: messages at the start, in every folder
  MaxArrivals, \* bound: messages that arrive
  MaxCalls,    \* bound: calls that delete or move
  MaxSends     \* bound: attempts to send

ASSUME MailboxAssumption ==
  /\ FolderList \in Seq(ToSet(FolderList))
  /\ Inbox \in ToSet(FolderList)
  /\ IsInjective(FolderList)
  /\ Recipients \in Seq(ToSet(Recipients))
  /\ PageSize \in Nat \ {0}
  /\ StartSize \in Nat /\ MaxArrivals \in Nat /\ MaxCalls \in Nat /\ MaxSends \in Nat

VARIABLES
  box,       \* per folder the set of its messages, [uid, id, marked]
  uidNext,   \* per folder the next UID
  calls,     \* per client its call, of which at is where it is, done at the end
  begun,     \* calls so far, for the bound
  arrived,   \* messages that have arrived, for the bound
  named,     \* messages a call was asked to delete
  gone,      \* messages that were expunged
  deleted,   \* what was answered as deleted: <<folder, uid>>
  list,      \* the client that lists
  smtp       \* the client that sends

mailVars == <<box, uidNext, calls, begun, arrived, named, gone, deleted, list, smtp>>

Folders == ToSet(FolderList)

\* A message is where it first was, and its UID there.
NewMessage(f, u) == [uid |-> u, id |-> <<f, u>>, marked |-> FALSE]

UidsOf(f) == {m.uid : m \in box[f]}
Holds(f, u) == u \in UidsOf(f)

MailInit ==
  /\ box = [f \in Folders |-> {NewMessage(f, u) : u \in 1 .. StartSize}]
  /\ uidNext = [f \in Folders |-> StartSize + 1]
  /\ calls = [c \in Clients |-> [op |-> "none", at |-> "done", answer |-> "none"]]
  /\ begun = 0 /\ arrived = 0
  /\ named = {} /\ gone = {} /\ deleted = {}
  /\ list = [at |-> "start", got |-> <<>>, first |-> {}, next |-> 0, view |-> {}]
  /\ smtp = [at |-> "idle", to |-> <<>>, tries |-> 0, accepted |-> <<>>, oks |-> 0, late |-> 0]

\* A message from elsewhere.
Arrive ==
  /\ arrived < MaxArrivals
  /\ arrived' = arrived + 1
  /\ box' = [box EXCEPT ![Inbox] = @ \cup {NewMessage(Inbox, uidNext[Inbox])}]
  /\ uidNext' = [uidNext EXCEPT ![Inbox] = @ + 1]
  /\ UNCHANGED <<calls, begun, named, gone, deleted, list, smtp>>

-----------------------------------------------------------------------------
(* ListMessages, called for one page after another *)

\* Mutant of PageRange: the page ends one message too early.
PageRangeShort(total, offset, limit) ==
  LET end  == total - offset - 1
      size == IF limit = 0 THEN 50 ELSE limit
  IN IF total = 0 \/ offset >= total THEN {} ELSE (IF end > size THEN end - size + 1 ELSE 1) .. end

\* The sequence numbers of a page, which counts from the newest message.
PageRange(total, offset, limit) ==
  LET end  == total - offset
      size == IF limit = 0 THEN 50 ELSE limit
  IN IF total = 0 \/ offset >= total THEN {} ELSE (IF end > size THEN end - size + 1 ELSE 1) .. end

\* SELECT: the session numbers the messages as they are now.
ListSelect ==
  /\ list.at \in {"start", "paging"}
  /\ list' = IF list.at = "start"
             THEN [list EXCEPT !.at = "selected", !.view = UidsOf(Inbox), !.first = UidsOf(Inbox),
                               !.next = uidNext[Inbox]]
             ELSE [list EXCEPT !.at = "selected", !.view = UidsOf(Inbox)]
  /\ UNCHANGED <<box, uidNext, calls, begun, arrived, named, gone, deleted, smtp>>

\* The sequence number of a message among those with the UIDs v, and its place
\* from the newest.
Number(v, u) == Cardinality({w \in v : w <= u})
Rank(v, u)   == Cardinality({w \in v : w >= u})

\* What FETCH returns in the order of the numbers, turned round.
NewestFirst(v) == [i \in 1 .. Cardinality(v) |-> CHOOSE u \in v : Rank(v, u) = i]

\* FETCH, of those of the page that are still there.
\* The client goes on behind what it has got, until a page is empty.
ListFetch ==
  /\ list.at = "selected"
  /\ LET range == PageRange(Cardinality(list.view), Len(list.got), PageSize)
         page  == {u \in list.view : Number(list.view, u) \in range /\ Holds(Inbox, u)}
     IN list' = [list EXCEPT !.got = @ \o NewestFirst(page), !.view = {},
                             !.at = IF range = {} THEN "done" ELSE "paging"]
  /\ UNCHANGED <<box, uidNext, calls, begun, arrived, named, gone, deleted, smtp>>

-----------------------------------------------------------------------------
(* GetMessage, DeleteMessage and MoveMessage *)

\* A client calls for a message it has seen in a folder.
Begin(c) ==
  /\ calls[c].at = "done" /\ begun < MaxCalls
  /\ \E f \in Folders : \E to \in Folders, op \in {"get", "delete", "move"}, m \in box[f] :
       /\ op = "move" <=> to # f
       /\ calls' = [calls EXCEPT ![c] =
             [op |-> op, at |-> "connect", answer |-> "none", folder |-> f, uid |-> m.uid, to |-> to,
              turn |-> 1, skipped |-> {},
              there |-> IF op = "move" THEN {g \in Folders : Holds(g, m.uid)} ELSE {f}]]
       /\ named' = IF op = "delete" THEN named \cup {m.id} ELSE named
  /\ begun' = begun + 1
  /\ UNCHANGED <<box, uidNext, arrived, gone, deleted, list, smtp>>

\* A command has its effect; the call goes on, or its answer is lost and it fails.
GoesOn(c, at)     == calls' \in {[calls EXCEPT ![c].at = at], [calls EXCEPT ![c].at = "done", ![c].answer = "error"]}
Answers(c, answer) == calls' = [calls EXCEPT ![c].at = "done", ![c].answer = answer]

\* withIMAP: dial and log in.
Connect(c) ==
  /\ calls[c].at = "connect"
  /\ GoesOn(c, "select")
  /\ UNCHANGED <<box, uidNext, begun, arrived, named, gone, deleted, list, smtp>>

Select(c) ==
  /\ calls[c].at = "select" /\ calls[c].op # "move"
  /\ GoesOn(c, IF calls[c].op = "get" THEN "fetch" ELSE "store")
  /\ UNCHANGED <<box, uidNext, begun, arrived, named, gone, deleted, list, smtp>>

GetFetch(c) ==
  /\ calls[c].at = "fetch" /\ calls[c].op = "get"
  /\ Answers(c, IF Holds(calls[c].folder, calls[c].uid) THEN "found" ELSE "notFound")
  /\ UNCHANGED <<box, uidNext, begun, arrived, named, gone, deleted, list, smtp>>

\* The message is marked, if it is still in the folder.
Store(c) ==
  /\ calls[c].at = "store"
  /\ box' = [box EXCEPT ![calls[c].folder] =
       {IF m.uid = calls[c].uid THEN [m EXCEPT !.marked = TRUE] ELSE m : m \in @}]
  /\ GoesOn(c, "expunge")
  /\ UNCHANGED <<uidNext, begun, arrived, named, gone, deleted, list, smtp>>

\* Every message of the folder that is marked goes, by whichever call it was.
Expunged(f) == {m \in box[f] : m.marked}

\* Mutant of Expunge: a failure is not reported.
ExpungeUnchecked(c) ==
  /\ calls[c].at = "expunge"
  /\ LET f == calls[c].folder
     IN /\ \/ /\ box' = [box EXCEPT ![f] = @ \ Expunged(f)]
              /\ gone' = gone \cup {m.id : m \in Expunged(f)}
           \/ UNCHANGED <<box, gone>>
        /\ Answers(c, "ok")
        /\ deleted' = deleted \cup {<<f, calls[c].uid>>}
  /\ UNCHANGED <<uidNext, begun, arrived, named, list, smtp>>

\* The call may also fail with nothing expunged: the mark stays then.
Expunge(c) ==
  /\ calls[c].at = "expunge"
  /\ LET f == calls[c].folder
     IN \/ /\ box' = [box EXCEPT ![f] = @ \ Expunged(f)]
           /\ gone' = gone \cup {m.id : m \in Expunged(f)}
           /\ \/ Answers(c, "ok") /\ deleted' = deleted \cup {<<f, calls[c].uid>>}
              \/ Answers(c, "error") /\ UNCHANGED deleted
        \/ Answers(c, "error") /\ UNCHANGED <<box, gone, deleted>>
  /\ UNCHANGED <<uidNext, begun, arrived, named, list, smtp>>

\* MoveMessage looks for the UID in one folder after another; a folder that
\* cannot be selected or read is passed over.
Turn(c) == FolderList[calls[c].turn]

\* Mutant of MoveSearch: a folder without the UID ends the search.
MoveSearchOne(c) ==
  /\ calls[c].op = "move" /\ calls[c].at = "select"
  /\ \/ /\ Holds(Turn(c), calls[c].uid)
        /\ calls' = [calls EXCEPT ![c].at = "move"]
     \/ /\ ~Holds(Turn(c), calls[c].uid)
        /\ Answers(c, "notFound")
  /\ UNCHANGED <<box, uidNext, begun, arrived, named, gone, deleted, list, smtp>>

MoveSearch(c) ==
  /\ calls[c].op = "move" /\ calls[c].at = "select"
  /\ \/ /\ Holds(Turn(c), calls[c].uid)
        /\ calls' = [calls EXCEPT ![c].at = "move"]
     \/ \E failed \in {{}, {Turn(c)}} :
          /\ failed = {} => ~Holds(Turn(c), calls[c].uid)
          /\ calls' = [calls EXCEPT ![c].turn = @ + 1, ![c].skipped = @ \cup failed,
                 ![c].at = IF calls[c].turn < Len(FolderList) THEN "select" ELSE "done",
                 ![c].answer = IF calls[c].turn < Len(FolderList) THEN "none" ELSE "notFound"]
  /\ UNCHANGED <<box, uidNext, begun, arrived, named, gone, deleted, list, smtp>>

\* MOVE: the message, if it is still there, gets a new UID in the other folder
\* and keeps its mark.
Move(c) ==
  /\ calls[c].at = "move"
  /\ LET f  == Turn(c)
         to == calls[c].to
         moved == {m \in box[f] : m.uid = calls[c].uid}
     IN \/ /\ box' = [[box EXCEPT ![f] = @ \ moved] EXCEPT ![to] =
                        @ \cup {[m EXCEPT !.uid = uidNext[to]] : m \in moved}]
           /\ uidNext' = IF moved = {} THEN uidNext ELSE [uidNext EXCEPT ![to] = @ + 1]
           /\ \/ Answers(c, "ok")
              \/ Answers(c, "error")
        \/ Answers(c, "error") /\ UNCHANGED <<box, uidNext>>
  /\ UNCHANGED <<begun, arrived, named, gone, deleted, list, smtp>>

-----------------------------------------------------------------------------
(* SendEmail: sendSMTP, called again when it has failed *)

SmtpUnchanged == UNCHANGED <<box, uidNext, calls, begun, arrived, named, gone, deleted, list>>

\* Dial, STARTTLS, AUTH and MAIL FROM; a failure before the recipients has no effect.
SmtpConnect ==
  /\ smtp.at \in {"idle", "failed"} /\ smtp.tries < MaxSends
  /\ \E at \in {"rcpt", "failed"} :
       smtp' = [smtp EXCEPT !.at = at, !.to = <<>>, !.tries = @ + 1]
  /\ SmtpUnchanged

\* Mutant of SmtpRcpt: a recipient that is refused is left out.
SmtpRcptSkips ==
  /\ smtp.at = "rcpt" /\ Len(smtp.to) < Len(Recipients)
  /\ \E refused \in BOOLEAN :
       smtp' = [smtp EXCEPT !.to = Append(@, IF refused THEN Refused ELSE Recipients[Len(smtp.to) + 1])]
  /\ SmtpUnchanged

\* RCPT TO, for one recipient after another.
SmtpRcpt ==
  /\ smtp.at = "rcpt" /\ Len(smtp.to) < Len(Recipients)
  /\ \/ smtp' = [smtp EXCEPT !.at = "failed"]
     \/ smtp' = [smtp EXCEPT !.to = Append(@, Recipients[Len(smtp.to) + 1])]
  /\ SmtpUnchanged

\* DATA, the message, and the dot that ends it: the server may accept the
\* message and its answer be lost.
SmtpData ==
  /\ smtp.at = "rcpt" /\ Len(smtp.to) = Len(Recipients)
  /\ \/ smtp' = [smtp EXCEPT !.at = "failed"]
     \/ smtp' = [smtp EXCEPT !.at = "failed", !.accepted = Append(@, smtp.to), !.late = @ + 1]
     \/ smtp' = [smtp EXCEPT !.at = "quit", !.accepted = Append(@, smtp.to)]
  /\ SmtpUnchanged

\* The answer of QUIT is the answer of the call.
SmtpQuit ==
  /\ smtp.at = "quit"
  /\ \/ smtp' = [smtp EXCEPT !.at = "sent", !.oks = @ + 1]
     \/ smtp' = [smtp EXCEPT !.at = "failed", !.late = @ + 1]
  /\ SmtpUnchanged

-----------------------------------------------------------------------------

ImapNext ==
  \/ Arrive \/ ListSelect \/ ListFetch
  \/ \E c \in Clients :
       \/ Begin(c) \/ Connect(c) \/ Select(c) \/ GetFetch(c)
       \/ Store(c) \/ Expunge(c) \/ MoveSearch(c) \/ Move(c)

SmtpNext == SmtpConnect \/ SmtpRcpt \/ SmtpData \/ SmtpQuit

MailNext == ImapNext \/ SmtpNext

MailSpec == MailInit /\ [][MailNext]_mailVars

-----------------------------------------------------------------------------
(* Properties *)

\* A client that goes through a folder page by page, behind what it has got,
\* gets every message that was there when it began, if none has left the folder
\* meanwhile, not even one that has come since; and gets exactly those, newest
\* first, if none has come either (email/email.go:210-231, 244-276).
PagesCover ==
  list.at = "done" /\ list.first \cup (list.next .. uidNext[Inbox] - 1) \subseteq UidsOf(Inbox) =>
    /\ list.first \subseteq ToSet(list.got)
    /\ uidNext[Inbox] = list.next => list.got = NewestFirst(list.first)

\* Only what some call named is ever expunged, though EXPUNGE takes whatever is
\* marked, and a call that failed between the two commands leaves a mark behind
\* (email/email.go:433-444); and what is answered as deleted is not in the folder.
DeletesWhatWasNamed ==
  /\ gone \subseteq named
  /\ \A d \in deleted : ~Holds(d[1], d[2])

\* A call answers that there is no such message only if none with this UID
\* stayed all along in the folder, or for a move in any folder that could be
\* read (email/email.go:324, 470-488).
NotFoundIsTrue ==
  \A c \in Clients :
    calls[c].at = "done" /\ calls[c].answer = "notFound" =>
      \A f \in calls[c].there : Holds(f, calls[c].uid) => f \in calls[c].skipped

\* The email goes to all its recipients or to none; it is sent as often as a
\* call succeeded, and once more for each call that failed with the message
\* already accepted, which a client that tries again cannot tell from the
\* others (email/email.go:565-582).
SentToAllOrNone ==
  /\ \A i \in DOMAIN smtp.accepted : smtp.accepted[i] = Recipients
  /\ Len(smtp.accepted) = smtp.oks + smtp.late + (IF smtp.at = "quit" THEN 1 ELSE 0)
=============================================================================
