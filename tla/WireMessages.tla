---------------------------- MODULE WireMessages ----------------------------
(***************************************************************************)
(* The messages that cross a service's sockets, as the generated code of   *)
(* dfs/dfspb, email/emailpb, secrets/secretspb and transport/mysql/pb      *)
(* reads and writes them.  Every message has Size, Marshal and Unmarshal   *)
(* written out for its fields; they are the same functions for another     *)
(* list of fields, so a message is the list of its fields here, and the    *)
(* functions are the operators of Wire.                                    *)
(***************************************************************************)
EXTENDS Integers, Sequences

-----------------------------------------------------------------------------
(* Fields *)

Field(n, k, fields) == [num |-> n, kind |-> k, fields |-> fields]

Bytes(n)       == Field(n, "bytes", <<>>)        \* string and []byte
Strings(n)     == Field(n, "strings", <<>>)      \* []string
Word(n)        == Field(n, "word", <<>>)         \* int64 and uint64
Half(n)        == Field(n, "half", <<>>)         \* uint32
Enum(n)        == Field(n, "enum", <<>>)         \* int32
Flag(n)        == Field(n, "flag", <<>>)         \* bool
Message(n, m)  == Field(n, "message", m)         \* a pointer to a message
Messages(n, m) == Field(n, "messages", m)        \* a slice of them
OneOf(n, m)    == Field(n, "oneof", m)           \* one case of the oneof Msg

-----------------------------------------------------------------------------
(* Messages: dfs/dfspb *)

FileReqOpen    == <<Bytes(1), Bytes(2), Word(3)>>
FileReqSeek    == <<Word(1), Word(2)>>
FileReqWrite   == <<Bytes(1)>>
FileReqRead    == <<Word(1)>>
FileReqClose   == <<>>
FileReqReadDir == <<Word(1)>>
FileReqStat    == <<>>

FileReq ==
  <<OneOf(1, FileReqOpen), OneOf(2, FileReqSeek), OneOf(3, FileReqWrite), OneOf(4, FileReqRead),
    OneOf(5, FileReqClose), OneOf(6, FileReqReadDir), OneOf(7, FileReqStat)>>

StatResp        == <<Bytes(1), Word(2), Word(3), Flag(4)>>
FileRespError   == <<Enum(1), Bytes(2)>>
FileRespOpen    == <<Message(1, FileRespError)>>
FileRespSeek    == <<Word(1), Message(2, FileRespError)>>
FileRespWrite   == <<Word(1), Message(2, FileRespError)>>
FileRespRead    == <<Bytes(1), Message(2, FileRespError)>>
FileRespClose   == <<Message(1, FileRespError)>>
FileRespReadDir == <<Messages(1, StatResp), Message(2, FileRespError)>>
FileRespStat    == <<Message(1, StatResp), Message(2, FileRespError)>>

FileResp ==
  <<OneOf(1, FileRespOpen), OneOf(2, FileRespSeek), OneOf(3, FileRespWrite), OneOf(4, FileRespRead),
    OneOf(5, FileRespClose), OneOf(6, FileRespReadDir), OneOf(7, FileRespStat)>>

MkDirReq     == <<Bytes(1), Bytes(2)>>
RemoveAllReq == <<Bytes(1), Bytes(2)>>
RenameReq    == <<Bytes(1), Bytes(2), Bytes(3)>>
StatReq      == <<Bytes(1), Bytes(2)>>

-----------------------------------------------------------------------------
(* Messages: email/emailpb, secrets/secretspb and transport/mysql/pb *)

ResolveMailboxReq  == <<Bytes(1)>>
ResolveMailboxResp == <<Word(1)>>
Attachment         == <<Bytes(1), Bytes(2), Bytes(3)>>
Header             == <<Bytes(1), Bytes(2)>>
SendEmailReq ==
  <<Word(1), Strings(2), Strings(3), Bytes(4), Bytes(5), Bytes(6), Messages(7, Attachment),
    Strings(8), Messages(9, Header), Bytes(10)>>
SendEmailResp      == <<Bytes(1)>>
ListMessagesReq    == <<Word(1), Bytes(2), Half(3), Half(4)>>
MessageSummary ==
  <<Bytes(1), Bytes(2), Bytes(3), Word(4), Flag(5), Flag(6), Half(7), Strings(8)>>
ListMessagesResp   == <<Messages(1, MessageSummary), Half(2)>>
GetMessageReq      == <<Word(1), Bytes(2), Bytes(3)>>
GetMessageResp ==
  <<Bytes(1), Strings(2), Strings(3), Bytes(4), Word(5), Bytes(6), Bytes(7),
    Messages(8, Attachment), Bytes(9)>>
DeleteMessageReq   == <<Word(1), Bytes(2), Bytes(3)>>
MoveMessageReq     == <<Word(1), Bytes(2), Bytes(3)>>

GetSecretReq       == <<Bytes(1)>>
GetSecretResp      == <<Bytes(1)>>
GetDsnReq          == <<Bytes(1)>>
GetDsnResp         == <<Bytes(1)>>

-----------------------------------------------------------------------------
(* Every message by its name *)

Layout ==
  [FileReq |-> FileReq, FileReqOpen |-> FileReqOpen, FileReqSeek |-> FileReqSeek,
   FileReqWrite |-> FileReqWrite, FileReqRead |-> FileReqRead, FileReqClose |-> FileReqClose,
   FileReqReadDir |-> FileReqReadDir, FileReqStat |-> FileReqStat, FileResp |-> FileResp,
   FileRespError |-> FileRespError, FileRespOpen |-> FileRespOpen, FileRespSeek |-> FileRespSeek,
   FileRespWrite |-> FileRespWrite, FileRespRead |-> FileRespRead, FileRespClose |-> FileRespClose,
   FileRespReadDir |-> FileRespReadDir, FileRespStat |-> FileRespStat, StatResp |-> StatResp,
   MkDirReq |-> MkDirReq, RemoveAllReq |-> RemoveAllReq, RenameReq |-> RenameReq,
   StatReq |-> StatReq, ResolveMailboxReq |-> ResolveMailboxReq, ResolveMailboxResp |-> ResolveMailboxResp,
   Attachment |-> Attachment, Header |-> Header, SendEmailReq |-> SendEmailReq,
   SendEmailResp |-> SendEmailResp, ListMessagesReq |-> ListMessagesReq, MessageSummary |-> MessageSummary,
   ListMessagesResp |-> ListMessagesResp, GetMessageReq |-> GetMessageReq, GetMessageResp |-> GetMessageResp,
   DeleteMessageReq |-> DeleteMessageReq, MoveMessageReq |-> MoveMessageReq, GetSecretReq |-> GetSecretReq,
   GetSecretResp |-> GetSecretResp, GetDsnReq |-> GetDsnReq, GetDsnResp |-> GetDsnResp]
=============================================================================
