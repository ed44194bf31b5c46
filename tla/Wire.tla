-------------------------------- MODULE Wire --------------------------------
(***************************************************************************)
(* The wire format of the messages of WireMessages: Size, Marshal and      *)
(* Unmarshal, generated once per message (dfs/dfspb, email/emailpb,        *)
(* secrets/secretspb, transport/mysql/pb).  One message is written, and    *)
(* read by a peer.  The peers are processes of their own and may be of     *)
(* another version or written with another library: they may know more     *)
(* fields, write them in another order, and write zeros that this code     *)
(* leaves out.                                                             *)
(*                                                                         *)
(* Bytes keep their eight bits and a varint its groups of seven.  Words    *)
(* are narrower than in the program: WordBits is two full groups and a bit *)
(* more where 64 is nine groups and a bit more, HalfBits stands for 32.    *)
(***************************************************************************)
EXTENDS WireMessages, SequencesExt

CONSTANTS
  WordBits,   \* the width of int, int64 and uint64
  HalfBits,   \* the width of int32 and uint32
  Texts,      \* strings and byte slices that are sent, as bytes, but for the empty one
  Numbers,    \* words that are sent, as bit patterns, but for zero
  Unknown,    \* encoded fields that only a newer peer knows
  MaxCut,     \* bound: messages are cut in their first bytes, or before the last
  None        \* no message: a nil pointer

Octet == 0 .. 255

Pow2[n \in Nat] == IF n = 0 THEN 1 ELSE 2 * Pow2[n - 1]

\* How many values a word has, and half of one.
Words  == Pow2[WordBits]
Halves == Pow2[HalfBits]

ASSUME WireAssumption ==
  /\ WordBits \in Nat /\ WordBits % 7 = 1
  /\ HalfBits \in 8 .. WordBits
  /\ Texts \subseteq Seq(Octet) \ {<<>>} /\ Texts # {}
  /\ Numbers \subseteq 1 .. Words - 1 /\ \E n \in Numbers : n % Halves # 0

-----------------------------------------------------------------------------
(* Values *)

\* Half of the words are negative, as int sees them.
Negative(w) == 2 * w >= Words

\* The length of a slice is an int.
Fits(d) == ~Negative(Len(d))

Numeric(f)   == f.kind \in {"word", "half", "enum"}
Delimited(f) == f.kind \in {"bytes", "strings", "message", "messages", "oneof"}
WireType(f)  == IF Delimited(f) THEN 2 ELSE 0

Zero(f) ==
  CASE Numeric(f)                                  -> 0
    [] f.kind = "flag"                             -> FALSE
    [] f.kind \in {"bytes", "strings", "messages"} -> <<>>
    [] f.kind \in {"message", "oneof"}             -> None

Empty(fields) == [k \in DOMAIN fields |-> Zero(fields[k])]

\* A negative int32 is written as a negative int64.
Widen(f, v) == IF f.kind = "enum" /\ 2 * v >= Halves THEN v + Words - Halves ELSE v

Narrow(f, w) ==
  CASE f.kind = "flag"             -> w # 0
    [] f.kind \in {"half", "enum"} -> w % Halves
    [] OTHER                       -> w

-----------------------------------------------------------------------------
(* Size and Marshal.  Messages nest three deep, and an operator on messages is   *)
(* here for each level: inner is the one for the messages within.                *)

\* The number of bits of x, as math/bits.Len64.
BitLen[x \in Nat] == IF x = 0 THEN 0 ELSE 1 + BitLen[x \div 2]

\* Mutant of sov: a group is counted too late.
sovShort(x) == (BitLen[IF x = 0 THEN 1 ELSE x] + 5) \div 7

sov(x) == (BitLen[IF x = 0 THEN 1 ELSE x] + 6) \div 7

EncodeVarint[v \in Nat] ==
  IF v < 128 THEN <<v>> ELSE <<128 + (v % 128)>> \o EncodeVarint[v \div 128]

Total(s) ==
  LET upTo[i \in 0 .. Len(s)] == IF i = 0 THEN 0 ELSE upTo[i - 1] + s[i]
  IN upTo[Len(s)]

\* The bytes a field takes: nothing for the zero value, a tag and a value for
\* each element of a slice, the empty ones too (FileResp_ReadDir.Size in dfs.pb.go).
FieldSize(inner(_, _), f, v) ==
  LET one(l) == 1 + l + sov(l)
  IN IF v = Zero(f) THEN 0
     ELSE CASE Numeric(f)                      -> 1 + sov(Widen(f, v))
            [] f.kind = "flag"                 -> 2
            [] f.kind = "bytes"                -> one(Len(v))
            [] f.kind = "strings"              -> Total([i \in DOMAIN v |-> one(Len(v[i]))])
            [] f.kind \in {"message", "oneof"} -> one(inner(f.fields, v))
            [] f.kind = "messages"             -> Total([i \in DOMAIN v |-> one(inner(f.fields, v[i]))])

\* The fields one after the other (SendEmailReq.Size in qemail.pb.go).
SizeOf(inner(_, _), fields, m) ==
  Total([k \in DOMAIN fields |-> FieldSize(inner, fields[k], m[k])])

LeafSize(fields, m)  == SizeOf(LAMBDA f, v : 0, fields, m)
InnerSize(fields, m) == SizeOf(LeafSize, fields, m)
Size(fields, m)      == SizeOf(InnerSize, fields, m)

\* The values of a field that are written (GetMessageResp.MarshalToSizedBuffer in
\* qemail.pb.go).
Parts(inner(_, _), f, v) ==
  IF v = Zero(f) THEN <<>>
  ELSE CASE Numeric(f)                      -> <<EncodeVarint[Widen(f, v)]>>
         [] f.kind = "flag"                 -> <<<<1>>>>
         [] f.kind = "bytes"                -> <<v>>
         [] f.kind = "strings"              -> v
         [] f.kind \in {"message", "oneof"} -> <<inner(f.fields, v)>>
         [] f.kind = "messages"             -> [i \in DOMAIN v |-> inner(f.fields, v[i])]

\* A value behind its tag and, if it has one, its length.
Tagged(f, part) ==
  <<8 * f.num + WireType(f)>> \o (IF Delimited(f) THEN EncodeVarint[Len(part)] ELSE <<>>) \o part

\* A field: its parts, each behind a tag of its own (the same).
EncodeField(inner(_, _), f, v) ==
  FlattenSeq([i \in DOMAIN Parts(inner, f, v) |-> Tagged(f, Parts(inner, f, v)[i])])

\* The fields in the order of their numbers (SendEmailReq.MarshalToSizedBuffer).
EncodeFields(inner(_, _), fields, m) ==
  FlattenSeq([k \in DOMAIN fields |-> EncodeField(inner, fields[k], m[k])])

LeafEncode(fields, m)  == EncodeFields(LAMBDA f, v : <<>>, fields, m)
InnerEncode(fields, m) == EncodeFields(LeafEncode, fields, m)
Encode(fields, m)      == EncodeFields(InnerEncode, fields, m)

\* Marshal: a buffer of Size bytes is filled from its end, which panics if it
\* is too short, and its first bytes are returned, as many as were written.
Marshal(fields, m) ==
  LET body == Encode(fields, m)
      free == Size(fields, m) - Len(body)
  IN IF free < 0
     THEN [panic |-> TRUE, bytes |-> <<>>]
     ELSE [panic |-> FALSE, bytes |-> SubSeq([i \in 1 .. free |-> 0] \o body, 1, Len(body))]

-----------------------------------------------------------------------------
(* Unmarshal: positions count from zero *)

Failed(e)     == [err |-> e, val |-> None, next |-> 0]
Read(v, next) == [err |-> "", val |-> v, next |-> next]

\* A varint: as many groups as a word has, the last of them the first without
\* its high bit; bits past the width of a word are lost.
ReadVarint(d, i) ==
  LET ends == {n \in 1 .. WordBits \div 7 + 1 : i + n > Len(d) \/ d[i + n] < 128}
      last == Min(ends)
      upTo[n \in 0 .. last] ==
        IF n = 0 THEN 0 ELSE (upTo[n - 1] + (d[i + n] % 128) * Pow2[7 * (n - 1)]) % Words
  IN IF ends = {} THEN Failed("overflow")
     ELSE IF i + last > Len(d) THEN Failed("eof")
     ELSE Read(upTo[last], i + last)

\* skip: the end of the field at i, which may be a group of fields; depth groups
\* have begun.
SkipFrom(d) ==
  LET end[at \in Nat \X Nat] ==
        LET i == at[1]  depth == at[2]
            tag  == ReadVarint(d, i)
            kind == tag.val % 8
            word == ReadVarint(d, tag.next)
            deep == IF kind = 3 THEN depth + 1 ELSE IF kind = 4 THEN depth - 1 ELSE depth
            next == IF kind = 0 THEN word.next
                    ELSE IF kind = 2 THEN word.next + word.val
                    ELSE tag.next + (IF kind = 1 THEN 8 ELSE IF kind = 5 THEN 4 ELSE 0)
        IN IF i >= Len(d) THEN Failed("eof")
           ELSE IF tag.err # "" THEN tag
           ELSE IF kind \in {0, 2} /\ word.err # "" THEN word
           ELSE IF kind = 2 /\ Negative(word.val) THEN Failed("length")
           ELSE IF kind = 4 /\ depth = 0 THEN Failed("group")
           ELSE IF kind \in {6, 7} THEN Failed("wiretype")
           ELSE IF Negative(next) THEN Failed("length")
           ELSE IF deep = 0 THEN Read(None, next)
           ELSE end[<<next, deep>>]
  IN end

Skip(d, i) ==
  LET s == SkipFrom(SubSeq(d, i + 1, Len(d)))[<<0, 0>>]
  IN IF s.err # "" THEN s
     ELSE IF Negative(i + s.next) THEN Failed("length")
     ELSE IF i + s.next > Len(d) THEN Failed("eof")
     ELSE Read(None, i + s.next)

\* Mutant of ReadDelimited: it takes what there is.
ReadWhatIsThere(d, i) ==
  LET len == ReadVarint(d, i)
      end == IF len.next + len.val > Len(d) THEN Len(d) ELSE len.next + len.val
  IN IF len.err # "" THEN len
     ELSE IF Negative(len.val) \/ Negative(len.next + len.val) THEN Failed("length")
     ELSE Read(SubSeq(d, len.next + 1, end), end)

\* What follows a length: its bytes, if they are all there.
ReadDelimited(d, i) ==
  LET len == ReadVarint(d, i)
      end == len.next + len.val
  IN IF len.err # "" THEN len
     ELSE IF Negative(len.val) \/ Negative(end) THEN Failed("length")
     ELSE IF end > Len(d) THEN Failed("eof")
     ELSE Read(SubSeq(d, len.next + 1, end), end)

\* The field that stands at i: which one of the message it is, none if it is not
\* one of them, and what follows its tag.
FieldAt(fields, d, i) ==
  LET bad(e) == [err |-> e, of |-> 0, raw |-> None, next |-> 0]
      with(of, raw) ==
        IF raw.err # "" THEN bad(raw.err)
        ELSE [err |-> "", of |-> of, raw |-> raw.val, next |-> raw.next]
      behind(tag) ==
        LET num  == (tag.val \div 8) % Halves
            kind == tag.val % 8
            hits == {k \in DOMAIN fields : fields[k].num = num}
            of   == IF hits = {} THEN 0 ELSE CHOOSE k \in hits : TRUE
        IN IF tag.err # "" THEN bad(tag.err)
           ELSE IF kind = 4 THEN bad("group")
           ELSE IF num = 0 \/ 2 * num >= Halves THEN bad("tag")
           ELSE IF of # 0 /\ kind # WireType(fields[of]) THEN bad("wiretype")
           ELSE IF of = 0 THEN with(0, Skip(d, i))
           ELSE IF Delimited(fields[of]) THEN with(of, ReadDelimited(d, tag.next))
           ELSE with(of, ReadVarint(d, tag.next))
  IN behind(ReadVarint(d, i))

\* What the loop of Unmarshal goes through, up to the end or an error.
Items(fields, d) ==
  LET from[i \in 0 .. Len(d)] ==
        LET with(item) == IF item.err # "" THEN <<item>> ELSE <<item>> \o from[item.next]
        IN IF i = Len(d) THEN <<>> ELSE with(FieldAt(fields, d, i))
  IN from[0]

\* Setting a case of the oneof clears the others.
Assign(fields, m, k, v) ==
  [j \in DOMAIN m |->
     IF j = k THEN v
     ELSE IF fields[k].kind = "oneof" /\ fields[j].kind = "oneof" THEN None
     ELSE m[j]]

\* What the bytes of a field are read into: a message that came before is merged
\* with, a case of the oneof is not.
Into(f, old) == IF f.kind = "message" /\ old # None THEN old ELSE Empty(f.fields)

\* A field whose value so far is old, within being the message its bytes are;
\* slices grow.
Value(f, raw, old, within) ==
  CASE ~Delimited(f)                   -> Read(Narrow(f, raw), 0)
    [] f.kind = "bytes"                -> Read(raw, 0)
    [] f.kind = "strings"              -> Read(Append(old, raw), 0)
    [] f.kind = "messages"             -> [within EXCEPT !.val = Append(old, within.val)]
    [] f.kind \in {"message", "oneof"} -> within

\* A turn of the loop, r being what it has read so far.
Turn(fields, r, item, within) ==
  LET v == Value(fields[item.of], item.raw, r.val[item.of], within)
  IN IF r.err # "" THEN r
     ELSE IF item.err # "" THEN Failed(item.err)
     ELSE IF item.of = 0 THEN Read(r.val, item.next)
     ELSE IF v.err # "" THEN Failed(v.err)
     ELSE Read(Assign(fields, r.val, item.of, v.val), item.next)

\* Unmarshal into base: the items in their order, up to the end or an error
\* (StatResp.Unmarshal in dfs.pb.go).
ReadFields(inner(_, _, _), fields, d, base) ==
  LET within(r, item) ==
        inner(fields[item.of].fields, item.raw, Into(fields[item.of], r.val[item.of]))
      turn(r, item) == Turn(fields, r, item, within(r, item))
      last(items) ==
        LET run[n \in 0 .. Len(items)] ==
              IF n = 0 THEN Read(base, 0) ELSE turn(run[n - 1], items[n])
        IN run[Len(items)]
  IN last(Items(fields, d))

LeafUnmarshal(fields, d, base)  == ReadFields(LAMBDA f, b, m : Failed("deep"), fields, d, base)
InnerUnmarshal(fields, d, base) == ReadFields(LeafUnmarshal, fields, d, base)
Unmarshal(fields, d)            == ReadFields(InnerUnmarshal, fields, d, Empty(fields))

-----------------------------------------------------------------------------
(* Messages that are sent *)

\* Values of a field that are written.
Values(full(_), f) ==
  CASE f.kind = "word"                 -> Numbers
    [] f.kind \in {"half", "enum"}     -> {n % Halves : n \in Numbers} \ {0}
    [] f.kind = "flag"                 -> {TRUE}
    [] f.kind = "bytes"                -> Texts
    [] f.kind = "strings"              -> {<<t, <<>>>> : t \in Texts}
    [] f.kind \in {"message", "oneof"} -> {Empty(f.fields), full(f.fields)}
    [] f.kind = "messages"             -> {<<Empty(f.fields), full(f.fields)>>}

\* Every field set, but for a oneof.
Filled(full(_), fields) ==
  [k \in DOMAIN fields |->
     IF fields[k].kind = "oneof" THEN None ELSE CHOOSE v \in Values(full, fields[k]) : TRUE]

LeafFull(fields)  == Filled(Empty, fields)
InnerFull(fields) == Filled(LeafFull, fields)
Full(fields)      == Filled(InnerFull, fields)

\* Messages with every field set, none, one or two.
Samples(fields) ==
  LET some(k) == Values(InnerFull, fields[k])
      one  == UNION {{Assign(fields, Empty(fields), k, v) : v \in some(k)} : k \in DOMAIN fields}
      more == UNION {{Assign(fields, m, k, v) : m \in one, v \in some(k)} : k \in DOMAIN fields}
  IN {Empty(fields), Full(fields)} \cup one \cup more

\* A field no message has, whole: its tag is one that a peer may write, and skip
\* finds its end.
UnknownField(u) ==
  LET tag == ReadVarint(u, 0)
      num == (tag.val \div 8) % Halves
  IN /\ u \in Seq(Octet)
     /\ tag.err = "" /\ tag.val % 8 # 4
     /\ num # 0 /\ 2 * num < Halves
     /\ \A n \in DOMAIN Layout : \A k \in DOMAIN Layout[n] : Layout[n][k].num # num
     /\ Skip(u, 0) = Read(None, Len(u))

ASSUME UnknownAssumption == \A u \in Unknown : UnknownField(u)

-----------------------------------------------------------------------------
(* One message from a peer to another *)

VARIABLES
  stage,    \* idle, written, changed (by the peer's library), cut, read, panicked
  name,     \* which message
  message,  \* the message
  bytes,    \* what is on the wire
  result    \* what Unmarshal returned

wireVars == <<stage, name, message, bytes, result>>

Fields == Layout[name]

WireInit ==
  /\ stage = "idle"
  /\ name \in DOMAIN Layout
  /\ message = None
  /\ bytes = <<>>
  /\ result = None

SendMessage ==
  /\ stage = "idle"
  /\ \E m \in Samples(Fields) :
       LET out == Marshal(Fields, m)
       IN /\ message' = m
          /\ bytes' = out.bytes
          /\ stage' = IF out.panic THEN "panicked" ELSE "written"
  /\ Fits(bytes')
  /\ UNCHANGED <<name, result>>

\* What each field of the message took.
Chunks == [k \in DOMAIN Fields |-> EncodeField(InnerEncode, Fields[k], message[k])]

\* The peer knows a field more, and writes it between two others.
NewerPeer ==
  /\ stage = "written"
  /\ \E k \in 0 .. Len(Fields), u \in Unknown :
       /\ k \in {0, 1, Len(Fields)}
       /\ bytes' = FlattenSeq(SubSeq(Chunks, 1, k)) \o u \o FlattenSeq(SubSeq(Chunks, k + 1, Len(Fields)))
  /\ Fits(bytes')
  /\ stage' = "changed"
  /\ UNCHANGED <<name, message, result>>

\* The peer's library writes the fields in another order.
OtherOrder ==
  /\ stage = "written"
  /\ bytes' = FlattenSeq(Reverse(Chunks))
  /\ Fits(bytes')
  /\ stage' = "changed"
  /\ UNCHANGED <<name, message, result>>

\* A zero that is written.
ZeroField(f) ==
  IF Numeric(f) \/ f.kind = "flag" THEN Tagged(f, <<0>>) ELSE IF f.kind = "bytes" THEN Tagged(f, <<>>) ELSE <<>>

\* The peer's library writes the zeros too.
WithZeros ==
  /\ stage = "written"
  /\ bytes' = FlattenSeq([k \in DOMAIN Fields |->
                           IF message[k] = Zero(Fields[k]) THEN ZeroField(Fields[k]) ELSE Chunks[k]])
  /\ Fits(bytes')
  /\ stage' = "changed"
  /\ UNCHANGED <<name, message, result>>

\* The end of the message is missing.
Cut ==
  /\ stage = "written"
  /\ \E n \in 0 .. Len(bytes) - 1 :
       /\ n < MaxCut \/ n = Len(bytes) - 1
       /\ bytes' = SubSeq(bytes, 1, n)
  /\ stage' = "cut"
  /\ UNCHANGED <<name, message, result>>

ReceiveMessage ==
  /\ stage \in {"written", "changed", "cut"}
  /\ result' = [whole |-> stage # "cut", got |-> Unmarshal(Fields, bytes)]
  /\ stage' = "read"
  /\ UNCHANGED <<name, message, bytes>>

WireNext == SendMessage \/ NewerPeer \/ OtherOrder \/ WithZeros \/ Cut \/ ReceiveMessage

WireSpec == WireInit /\ [][WireNext]_wireVars

-----------------------------------------------------------------------------
(* Properties *)

\* Every message is read as it was sent, with the fields a newer peer adds left
\* out, in whatever order the fields come and whether zeros are written or not;
\* and the buffer Marshal fills from its end has exactly the size it needs.
RoundTrip ==
  /\ stage # "panicked"
  /\ stage = "read" /\ result.whole => result.got = Read(message, Len(bytes))

\* A message whose end is missing is an error, unless what is there is a message
\* of its own: then that one is read, and nothing of what is missing made up.
CutIsSeen ==
  stage = "read" /\ ~result.whole =>
    IF result.got.err = ""
    THEN Encode(Fields, result.got.val) = bytes
    ELSE result.got.err = "eof"
=============================================================================
