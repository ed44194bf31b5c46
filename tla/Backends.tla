------------------------------ MODULE Backends ------------------------------
(***************************************************************************)
(* The servers behind a service's sockets that all instances share         *)
(* (main.go:54, 67): files and email.  They have no state in common, so    *)
(* what they do together is an interleaving of what each does alone, and   *)
(* a behaviour is of one of them: files, folders (IMAP), or outgoing mail  *)
(* (SMTP).                                                                 *)
(***************************************************************************)
EXTENDS DfsFile, Mailbox

VARIABLE served    \* what this behaviour is about

vars == <<dfsVars, mailVars, served>>

Init ==
  /\ DfsInit
  /\ MailInit
  /\ served \in {"files", "folders", "outgoing"}
  /\ served # "files" => buckets = {} /\ place[Outside] = [n \in Names |-> NoFile]

Files    == served = "files" /\ DfsNext /\ UNCHANGED <<mailVars, served>>
MailCall == served = "folders" /\ ImapNext /\ UNCHANGED <<dfsVars, served>>
Outgoing == served = "outgoing" /\ SmtpNext /\ UNCHANGED <<dfsVars, served>>

Next == Files \/ MailCall \/ Outgoing

Spec == Init /\ [][Next]_vars
=============================================================================
