------------------------------- MODULE DfsFile ------------------------------
(***************************************************************************)
(* The file server of the services (dfs/dfs.go): one call of File, the     *)
(* stream a client opens, seeks, reads and writes files through; the calls *)
(* that change a tree without a stream; and the buckets, which the web UI  *)
(* and the MCP tools add and remove while calls are served.  The lock of   *)
(* the buckets is held for the lookup only.                                *)
(*                                                                         *)
(* The file system is external, and only as deep as the calls need: a      *)
(* directory per bucket, one for paths outside any bucket (the server's    *)
(* working directory), files by inode with a length, directories without   *)
(* contents.  Sizes count in units of data.  A bucket's name stands for    *)
(* its folder.                                                             *)
(***************************************************************************)
EXTENDS Integers, FiniteSets, SequencesExt

CONSTANTS
  Buckets,      \* names of buckets; a name not configured at the time is unknown
  Names,        \* names of files and directories
  NoFile,       \* no file, folder, request or call
  Outside,      \* the folder of an unknown bucket
  Modes,        \* the sets of flags that clients open files with
  MaxChunk,     \* the largest read
  MaxRequests,  \* bound: requests on the stream
  MaxSize,      \* bound: the length of a file
  MaxChanges    \* bound: changes to the buckets, and calls without a stream

\* The flags of an open that files and offsets depend on; O_RDWR is both of the
\* first two.
Flags == {"read", "write", "create", "excl", "trunc", "append"}

\* Those that an open file keeps.
Kept == {"read", "write", "append"}

ASSUME DfsAssumption ==
  /\ Outside \notin Buckets /\ NoFile \notin Buckets \cup {Outside}
  /\ NoFile \notin Nat /\ NoFile \notin [ino : Nat, pos : Nat, flags : SUBSET Kept]
  /\ Modes \subseteq {m \in SUBSET Flags : m \cap {"read", "write"} # {}}
  /\ MaxChunk \in Nat \ {0}
  /\ MaxRequests \in Nat /\ MaxSize \in Nat /\ MaxChanges \in Nat

VARIABLES
  buckets,   \* the names that are configured
  place,     \* what a name in a folder leads to: an inode or NoFile
  inodes,    \* every file there was: [dir, size]
  current,   \* the request the loop has received, or NoFile
  handled,   \* how many requests it has answered
  folder,    \* the folder the stream's Open has looked up, or NoFile
  file,      \* the variable f: NoFile, or [ino, pos, flags]
  answers,   \* what was sent on the stream: [of, what, ok, n, append]
  stream,    \* open, or ended
  unary,     \* a call without a stream that has looked its bucket up, or NoFile
  changes,   \* changes and calls so far, for the bound
  up         \* the program runs

dfsVars == <<buckets, place, inodes, current, handled, folder, file, answers, stream, unary,
             changes, up>>

Places == Buckets \cup {Outside}

\* What a client sends.  A client of a later version may send a request that
\* this server's messages do not have: it arrives with no message set.
Request ==
  [what : {"open"}, bucket : Buckets, name : Names, flags : Modes]
    \cup [what : {"seek"}, to : {0, 1}]
    \cup [what : {"read"}, n : {-1, 1, MaxChunk + 1}]
    \cup [what : {"write", "readDir"}, n : {1, MaxChunk + 1}]
    \cup [what : {"close", "stat", "unset"}]

DfsInit ==
  /\ buckets \in {{}, Buckets}
  /\ inodes = <<[dir |-> FALSE, size |-> 2]>>
  /\ \E b \in Places, n \in Names :
       place = [d \in Places |-> [m \in Names |-> IF d = b /\ m = n THEN 1 ELSE NoFile]]
  /\ current = NoFile /\ handled = 0
  /\ folder = NoFile /\ file = NoFile
  /\ answers = <<>>
  /\ stream = "open"
  /\ unary = NoFile
  /\ changes = 0
  /\ up = TRUE

-----------------------------------------------------------------------------
(* Buckets *)

AddBucket(b) ==
  /\ up /\ changes < MaxChanges
  /\ buckets' = buckets \cup {b}
  /\ changes' = changes + 1
  /\ UNCHANGED <<place, inodes, current, handled, folder, file, answers, stream, unary, up>>

RemoveBucket(b) ==
  /\ up /\ changes < MaxChanges
  /\ buckets' = buckets \ {b}
  /\ changes' = changes + 1
  /\ UNCHANGED <<place, inodes, current, handled, folder, file, answers, stream, unary, up>>

-----------------------------------------------------------------------------
(* The stream *)

\* The loop receives one request at a time: what a client sends ahead waits in
\* the stream and is left out.
ClientSends ==
  /\ up /\ stream = "open"
  /\ current = NoFile /\ handled < MaxRequests
  /\ current' \in Request
  /\ UNCHANGED <<buckets, place, inodes, handled, folder, file, answers, stream, unary, changes, up>>

\* The client ends the call, or is gone: Recv returns an error, or Send does
\* when the request has had its effect, which is as if the client had left then.
ClientLeaves ==
  /\ up /\ stream = "open" /\ folder = NoFile
  /\ stream' = "ended"
  /\ UNCHANGED <<buckets, place, inodes, current, handled, folder, file, answers, unary, changes, up>>

\* The loop has a request of this kind.
Asked(what) == current # NoFile /\ current.what = what
Serving(what) == up /\ stream = "open" /\ Asked(what)

\* Beside what was sent: whether it answers an Open to append, as its client knows.
Answer(ok, n) ==
  [of |-> handled + 1, what |-> current.what, ok |-> ok, n |-> n,
   append |-> current.what = "open" /\ "append" \in current.flags]

\* The end of a round of the loop: the answer is sent.
Reply(ok, n) ==
  /\ answers' = Append(answers, Answer(ok, n))
  /\ handled' = handled + 1
  /\ current' = NoFile
  /\ UNCHANGED <<buckets, stream, unary, changes>>

\* An unknown bucket is answered at once, and its folder is the empty path.
OpenLookup ==
  /\ Serving("open") /\ folder = NoFile
  /\ folder' = IF current.bucket \in buckets THEN current.bucket ELSE Outside
  /\ answers' = IF current.bucket \in buckets THEN answers ELSE Append(answers, Answer(FALSE, 0))
  /\ UNCHANGED <<buckets, place, inodes, current, handled, file, stream, unary, changes, up>>

\* os.OpenFile, with whatever flags the client sends: what the name leads to,
\* whether the open succeeds,
Target == place[folder][current.name]
CanOpen ==
  IF Target = NoFile
  THEN "create" \in current.flags
  ELSE /\ ~({"create", "excl"} \subseteq current.flags)
       /\ inodes[Target].dir => current.flags \cap {"write", "create", "trunc"} = {}

\* and the files after one that does.
Opened ==
  IF Target = NoFile THEN Append(inodes, [dir |-> FALSE, size |-> 0])
  ELSE IF "trunc" \in current.flags THEN [inodes EXCEPT ![Target].size = 0] ELSE inodes

\* f is overwritten whether the open succeeds or not, and never closed.
OpenFile ==
  /\ Serving("open") /\ folder # NoFile
  /\ inodes' = IF CanOpen THEN Opened ELSE inodes
  /\ place' = IF CanOpen /\ Target = NoFile
              THEN [place EXCEPT ![folder][current.name] = Len(inodes')] ELSE place
  /\ file' = IF CanOpen
             THEN [ino |-> place'[folder][current.name], pos |-> 0, flags |-> current.flags \cap Kept]
             ELSE NoFile
  /\ folder' = NoFile
  /\ Reply(CanOpen, 0)
  /\ UNCHANGED up

\* Mutant of Close: the file is closed and forgotten.
CloseForgets ==
  /\ Serving("close")
  /\ file' = NoFile
  /\ Reply(TRUE, 0)
  /\ UNCHANGED <<place, inodes, folder, up>>

\* Close answers, and does nothing else.
Close ==
  /\ Serving("close")
  /\ Reply(TRUE, 0)
  /\ UNCHANGED <<place, inodes, folder, file, up>>

Seek ==
  /\ Serving("seek")
  /\ file' = IF file = NoFile THEN NoFile ELSE [file EXCEPT !.pos = current.to]
  /\ Reply(file # NoFile, IF file = NoFile THEN 0 ELSE current.to)
  /\ UNCHANGED <<place, inodes, folder, up>>

\* What a read may return: no more than MaxChunk, nor than the file has left.
Smaller(a, b) == IF a < b THEN a ELSE b
Rest == IF file.pos < inodes[file.ino].size THEN inodes[file.ino].size - file.pos ELSE 0

\* Mutant of Read: the answer is as long as what was asked for.
ReadAsAsked ==
  /\ Serving("read") /\ current.n >= 0
  /\ LET readable == file # NoFile /\ "read" \in file.flags /\ ~inodes[file.ino].dir
         count    == IF readable THEN Smaller(Smaller(current.n, MaxChunk), Rest) ELSE 0
     IN /\ file' = IF readable THEN [file EXCEPT !.pos = @ + count] ELSE file
        /\ Reply(readable /\ count > 0, Smaller(current.n, MaxChunk))
  /\ UNCHANGED <<place, inodes, folder, up>>

\* With no file or one opened to write only, with a directory, and at the end of the file, an error.
Read ==
  /\ Serving("read") /\ current.n >= 0
  /\ LET readable == file # NoFile /\ "read" \in file.flags /\ ~inodes[file.ino].dir
         count    == IF readable THEN Smaller(Smaller(current.n, MaxChunk), Rest) ELSE 0
     IN /\ file' = IF readable THEN [file EXCEPT !.pos = @ + count] ELSE file
        /\ Reply(readable /\ count > 0, count)
  /\ UNCHANGED <<place, inodes, folder, up>>

\* A file opened to append is written at its end, wherever the offset is.
WritesAt == IF "append" \in file.flags THEN inodes[file.ino].size ELSE file.pos

\* The offset is then behind what was written; the answer says only how much that was.
Write ==
  /\ Serving("write")
  /\ LET writable == file # NoFile /\ "write" \in file.flags
         end      == WritesAt + current.n
     IN /\ writable => end <= MaxSize
        /\ inodes' = IF writable /\ end > inodes[file.ino].size
                     THEN [inodes EXCEPT ![file.ino].size = end] ELSE inodes
        /\ file' = IF writable THEN [file EXCEPT !.pos = end] ELSE file
        /\ Reply(writable, IF writable THEN current.n ELSE 0)
  /\ UNCHANGED <<place, folder, up>>

\* The names of a directory, which are not told apart here.
ReadDir ==
  /\ Serving("readDir")
  /\ Reply(file # NoFile /\ inodes[file.ino].dir, 0)
  /\ UNCHANGED <<place, inodes, folder, file, up>>

\* Mutant of Stat: the error is answered, and then an empty result.
StatAnswersTwice ==
  /\ Serving("stat")
  /\ answers' = IF file = NoFile
                THEN answers \o <<Answer(FALSE, 0), Answer(TRUE, 0)>>
                ELSE Append(answers, Answer(TRUE, 0))
  /\ handled' = handled + 1
  /\ current' = NoFile
  /\ UNCHANGED <<buckets, place, inodes, folder, file, stream, unary, changes, up>>

\* Stat without a file answers, and then uses the result it did not get, which
\* panics in a goroutine nothing recovers.
Stat ==
  /\ Serving("stat")
  /\ Reply(file # NoFile, 0)
  /\ up' = (file # NoFile)
  /\ UNCHANGED <<place, inodes, folder, file>>

\* A request this version does not know ends the program, and so does the buffer
\* for a read of less than nothing.
Unserved ==
  /\ Serving("unset") \/ (Serving("read") /\ current.n < 0)
  /\ up' = FALSE
  /\ UNCHANGED <<buckets, place, inodes, current, handled, folder, file, answers, stream, unary, changes>>

-----------------------------------------------------------------------------
(* The calls without a stream: MkDir, RemoveAll, Rename; Stat changes nothing *)

UnaryLookup ==
  /\ up /\ unary = NoFile /\ changes < MaxChanges
  /\ \E op \in {"mkDir", "removeAll", "rename"}, b \in buckets, n \in Names, m \in Names :
       unary' = [op |-> op, folder |-> b, name |-> n, new |-> m]
  /\ changes' = changes + 1
  /\ UNCHANGED <<buckets, place, inodes, current, handled, folder, file, answers, stream, up>>

\* What the operating system does with it: MkdirAll, RemoveAll and Rename.
MkDir ==
  /\ unary.op = "mkDir"
  /\ IF place[unary.folder][unary.name] = NoFile
     THEN /\ inodes' = Append(inodes, [dir |-> TRUE, size |-> 0])
          /\ place' = [place EXCEPT ![unary.folder][unary.name] = Len(inodes')]
     ELSE UNCHANGED <<inodes, place>>

RemoveAll ==
  /\ unary.op = "removeAll"
  /\ place' = [place EXCEPT ![unary.folder][unary.name] = NoFile]
  /\ UNCHANGED inodes

\* Only a file replaces a file, and nothing a directory.
Rename ==
  /\ unary.op = "rename"
  /\ LET from == place[unary.folder][unary.name]
         to   == place[unary.folder][unary.new]
     IN place' = IF /\ from # NoFile /\ unary.name # unary.new
                    /\ to # NoFile => ~inodes[from].dir /\ ~inodes[to].dir
                 THEN [place EXCEPT ![unary.folder] =
                         [@ EXCEPT ![unary.name] = NoFile, ![unary.new] = from]]
                 ELSE place
  /\ UNCHANGED inodes

UnaryActs ==
  /\ up /\ unary # NoFile
  /\ MkDir \/ RemoveAll \/ Rename
  /\ unary' = NoFile
  /\ UNCHANGED <<buckets, current, handled, folder, file, answers, stream, changes, up>>

-----------------------------------------------------------------------------

DfsNext ==
  \/ \E b \in Buckets : AddBucket(b) \/ RemoveBucket(b)
  \/ ClientSends \/ ClientLeaves
  \/ OpenLookup \/ OpenFile \/ Close \/ Seek \/ Read \/ Write \/ ReadDir \/ Stat \/ Unserved
  \/ UnaryLookup \/ UnaryActs

DfsSpec == DfsInit /\ [][DfsNext]_dfsVars

-----------------------------------------------------------------------------
(* Properties *)

\* How many of the first i answers repeat the one before them.
Repeats(s, i) == Cardinality({j \in 2 .. i : s[j].of = s[j - 1].of})

\* The client, which gets answers without a number, can tell which request each
\* is for by counting, but for an Open of an unknown bucket, which is answered
\* twice (dfs/dfs.go:68-83); no other request is answered twice or not at all.
InStep ==
  /\ \A i \in DOMAIN answers :
       /\ answers[i].of = i - Repeats(answers, i)
       /\ i > 1 /\ answers[i].of = answers[i - 1].of =>
            answers[i].what = "open" /\ ~answers[i - 1].ok
  /\ folder = NoFile => handled = Len(answers) - Repeats(answers, Len(answers))

\* What the client makes of an answer: whether it has a file, and where in it; and
\* when it does not know where, since its last write went to the end of the file.
Told(c, a) ==
  CASE a.what = "open"  -> [open |-> a.ok, append |-> a.append, told |-> TRUE, pos |-> 0]
    [] a.what = "seek"  -> IF a.ok THEN [c EXCEPT !.told = TRUE, !.pos = a.n] ELSE c
    [] a.what = "read"  -> [c EXCEPT !.pos = @ + a.n]
    [] a.what = "write" -> [c EXCEPT !.pos = @ + a.n, !.told = @ /\ ~(a.ok /\ c.append)]
    [] OTHER            -> c

SeenIn(s) ==
  LET upTo[i \in 0 .. Len(s)] ==
        IF i = 0 THEN [open |-> FALSE, append |-> FALSE, told |-> TRUE, pos |-> 0]
                 ELSE Told(upTo[i - 1], s[i])
  IN upTo[Len(s)]

\* What it makes of the answers so far.
Seen == SeenIn(answers)

\* The answers tell a client whether it has a file and where in it, reads that
\* are cut to MaxChunk and refused writes included (dfs/dfs.go:78-125): the last Open
\* decides, and Close changes nothing.  A write to a file opened to append moves the
\* offset to where the answer does not say, and the client knows it again only when
\* it has sought or opened.
ClientKnowsPosition ==
  folder = NoFile /\ up /\ file # NoFile =>
    Seen.open /\ (Seen.told => Seen.pos = file.pos)

\* A request ends the program only if this version does not know it, if it reads
\* less than nothing, or if it is a Stat of a client whose last Open was refused or
\* that has opened nothing (dfs/dfs.go:107, 147-163, 167); no removal or renaming of
\* the file, no removal of its bucket and no Close makes a Stat fail.
CrashExplained ==
  ~up => \/ Asked("unset")
         \/ Asked("read") /\ current.n < 0
         \/ answers # <<>> /\ Last(answers).what = "stat" /\ ~Seen.open
=============================================================================
