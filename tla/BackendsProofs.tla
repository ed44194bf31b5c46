--------------------------- MODULE BackendsProofs ---------------------------
(***************************************************************************)
(* What holds of the servers for any buckets, requests and mailboxes: the  *)
(* answers of a file stream are in step with its requests but for the one  *)
(* that is known, and tell a client where in its file it is; an email goes *)
(* to all of its recipients or to none; only messages that were named are  *)
(* deleted, what is not found was not there, and a client that pages       *)
(* through a folder misses nothing.                                        *)
(***************************************************************************)
EXTENDS Backends, SequenceTheorems, FiniteSetTheorems, FunctionTheorems, TLAPS

SmtpType ==
  smtp \in [at : {"idle", "failed", "rcpt", "quit", "sent"}, to : Seq(ToSet(Recipients)), tries : Nat,
            accepted : Seq(Seq(ToSet(Recipients))), oks : Nat, late : Nat]

\* The recipients the server has taken are the first ones of the email, which is
\* what makes those it has when the data is sent all of them.
Taken ==
  /\ Len(smtp.to) <= Len(Recipients)
  /\ \A i \in 1 .. Len(smtp.to) : smtp.to[i] = Recipients[i]

SmtpInv == SmtpType /\ Taken /\ SentToAllOrNone

LEMMA SmtpInvInitially == Init => SmtpInv
  BY MailboxAssumption DEF Init, MailInit, SmtpInv, SmtpType, Taken, SentToAllOrNone

\* A step that sends no message keeps the count, if a call that ends with the
\* message accepted is counted.
LEMMA CountKept ==
  ASSUME SmtpType, SmtpType', SentToAllOrNone, smtp'.accepted = smtp.accepted,
         smtp'.oks + smtp'.late + (IF smtp'.at = "quit" THEN 1 ELSE 0)
           = smtp.oks + smtp.late + (IF smtp.at = "quit" THEN 1 ELSE 0)
  PROVE  SentToAllOrNone'
  BY DEF SentToAllOrNone

LEMMA SmtpInvInductive == SmtpInv /\ [Next]_vars => SmtpInv'
<1> SUFFICES ASSUME SmtpInv, [Next]_vars PROVE SmtpInv'
  OBVIOUS
<1> DEFINE R == ToSet(Recipients)
<1>0. Recipients \in Seq(R)
  BY MailboxAssumption
<1> HIDE DEF R
<1>1. CASE UNCHANGED smtp
  BY <1>1 DEF SmtpInv, SmtpType, Taken, SentToAllOrNone
<1>2. CASE SmtpConnect
  <2>1. PICK at \in {"rcpt", "failed"} : smtp' = [smtp EXCEPT !.at = at, !.to = <<>>, !.tries = @ + 1]
    BY <1>2 DEF SmtpConnect
  <2>2. smtp.at # "quit"
    BY <1>2 DEF SmtpConnect
  <2>3. SmtpType' /\ smtp'.to = <<>> /\ smtp'.at = at
    <3>1. <<>> \in Seq(R) /\ smtp.tries + 1 \in Nat
      BY DEF SmtpInv, SmtpType
    <3>2. smtp' = [at |-> at, to |-> <<>>, tries |-> smtp.tries + 1, accepted |-> smtp.accepted,
                   oks |-> smtp.oks, late |-> smtp.late]
      BY <2>1 DEF SmtpInv, SmtpType
    <3> QED
      BY <3>1, <3>2 DEF SmtpInv, SmtpType, R
  <2>4. Taken'
    BY <1>0, <2>3 DEF Taken
  <2>5. smtp'.accepted = smtp.accepted /\ smtp'.oks = smtp.oks /\ smtp'.late = smtp.late
    BY <2>1 DEF SmtpInv, SmtpType
  <2> QED
    BY <2>2, <2>3, <2>4, <2>5, CountKept DEF SmtpInv
<1>3. CASE SmtpRcpt
  <2> DEFINE k == Len(smtp.to) + 1
  <2>0. smtp.at = "rcpt" /\ k \in 1 .. Len(Recipients) /\ Recipients[k] \in R /\ smtp.to \in Seq(R)
    BY <1>0, <1>3 DEF SmtpRcpt, SmtpInv, SmtpType, R
  <2>1. CASE smtp' = [smtp EXCEPT !.at = "failed"]
    <3>1. SmtpType' /\ smtp'.to = smtp.to /\ smtp'.at = "failed" /\ smtp'.accepted = smtp.accepted
          /\ smtp'.oks = smtp.oks /\ smtp'.late = smtp.late
      BY <2>1 DEF SmtpInv, SmtpType
    <3> QED
      BY <2>0, <3>1, CountKept DEF SmtpInv, Taken
  <2>2. CASE smtp' = [smtp EXCEPT !.to = Append(@, Recipients[k])]
    <3>1. Append(smtp.to, Recipients[k]) \in Seq(R)
      BY <2>0
    <3>2. SmtpType' /\ smtp'.to = Append(smtp.to, Recipients[k]) /\ smtp'.at = smtp.at
          /\ smtp'.accepted = smtp.accepted /\ smtp'.oks = smtp.oks /\ smtp'.late = smtp.late
      BY <2>2, <3>1 DEF SmtpInv, SmtpType, R
    <3>3. Taken'
      BY <1>0, <2>0, <3>2 DEF SmtpInv, Taken
    <3> QED
      BY <2>0, <3>2, <3>3, CountKept DEF SmtpInv
  <2> QED
    BY <1>3, <2>1, <2>2 DEF SmtpRcpt
<1>4. CASE SmtpData
  <2>0. smtp.at = "rcpt" /\ smtp.to \in Seq(R) /\ smtp.accepted \in Seq(Seq(R))
        /\ Len(smtp.to) = Len(Recipients)
    BY <1>4 DEF SmtpData, SmtpInv, SmtpType, R
  <2>1. smtp.to = Recipients
    <3>1. \A i \in 1 .. Len(smtp.to) : smtp.to[i] = Recipients[i]
      BY DEF SmtpInv, Taken
    <3> QED
      BY <1>0, <2>0, <3>1, SeqEqual
  <2>2. CASE smtp' = [smtp EXCEPT !.at = "failed"]
    <3>1. SmtpType' /\ smtp'.to = smtp.to /\ smtp'.at = "failed" /\ smtp'.accepted = smtp.accepted
          /\ smtp'.oks = smtp.oks /\ smtp'.late = smtp.late
      BY <2>2 DEF SmtpInv, SmtpType
    <3> QED
      BY <2>0, <3>1, CountKept DEF SmtpInv, Taken
  <2>3. CASE /\ smtp'.accepted = Append(smtp.accepted, smtp.to)
             /\ smtp'.to = smtp.to /\ smtp'.oks = smtp.oks
             /\ \/ smtp'.at = "failed" /\ smtp'.late = smtp.late + 1
                \/ smtp'.at = "quit" /\ smtp'.late = smtp.late
             /\ SmtpType'
    <3>1. Len(smtp'.accepted) = Len(smtp.accepted) + 1
      BY <2>0, <2>3
    <3>2. \A i \in DOMAIN smtp'.accepted : smtp'.accepted[i] = Recipients
      BY <2>0, <2>1, <2>3 DEF SmtpInv, SentToAllOrNone
    <3>3. smtp.oks \in Nat /\ smtp.late \in Nat
      BY DEF SmtpInv, SmtpType
    <3> QED
      BY <2>0, <2>3, <3>1, <3>2, <3>3, SMTT(30) DEF SmtpInv, Taken, SentToAllOrNone
  <2>4. Append(smtp.accepted, smtp.to) \in Seq(Seq(R))
    BY <2>0
  <2>5. CASE smtp' = [smtp EXCEPT !.at = "failed", !.accepted = Append(@, smtp.to), !.late = @ + 1]
    <3>1. smtp' = [at |-> "failed", to |-> smtp.to, tries |-> smtp.tries,
                   accepted |-> Append(smtp.accepted, smtp.to), oks |-> smtp.oks, late |-> smtp.late + 1]
      BY <2>5 DEF SmtpInv, SmtpType
    <3>2. SmtpType'
      BY <2>4, <3>1 DEF SmtpInv, SmtpType, R
    <3> QED
      BY <2>3, <3>1, <3>2
  <2>6. CASE smtp' = [smtp EXCEPT !.at = "quit", !.accepted = Append(@, smtp.to)]
    <3>1. smtp' = [at |-> "quit", to |-> smtp.to, tries |-> smtp.tries,
                   accepted |-> Append(smtp.accepted, smtp.to), oks |-> smtp.oks, late |-> smtp.late]
      BY <2>6 DEF SmtpInv, SmtpType
    <3>2. SmtpType'
      BY <2>4, <3>1 DEF SmtpInv, SmtpType, R
    <3> QED
      BY <2>3, <3>1, <3>2
  <2> QED
    BY <1>4, <2>2, <2>5, <2>6 DEF SmtpData
<1>5. CASE SmtpQuit
  <2>1. smtp.at = "quit" /\ smtp'.accepted = smtp.accepted /\ smtp'.to = smtp.to /\ smtp'.at # "quit"
    BY <1>5 DEF SmtpQuit, SmtpInv, SmtpType
  <2>2. SmtpType' /\ smtp'.oks + smtp'.late = smtp.oks + smtp.late + 1
    <3>1. \/ smtp' = [at |-> "sent", to |-> smtp.to, tries |-> smtp.tries, accepted |-> smtp.accepted,
                     oks |-> smtp.oks + 1, late |-> smtp.late]
          \/ smtp' = [at |-> "failed", to |-> smtp.to, tries |-> smtp.tries, accepted |-> smtp.accepted,
                     oks |-> smtp.oks, late |-> smtp.late + 1]
      BY <1>5 DEF SmtpQuit, SmtpInv, SmtpType
    <3> QED
      BY <3>1 DEF SmtpInv, SmtpType
  <2> QED
    BY <2>1, <2>2, CountKept DEF SmtpInv, SmtpType, Taken
<1>6. ASSUME ImapNext PROVE UNCHANGED smtp
  BY <1>6 DEF ImapNext, Arrive, ListSelect, ListFetch, Begin, Connect, Select, GetFetch, Store, Expunge,
     MoveSearch, Move
<1> QED
  BY <1>1, <1>2, <1>3, <1>4, <1>5, <1>6
  DEF Next, Files, MailCall, Outgoing, SmtpNext, vars, mailVars

\* Whatever fails and however often it is tried again, the server that takes a
\* message has been told all its recipients (email/email.go:565-582).
THEOREM EmailSentToAllOrNone == Spec => []SentToAllOrNone
<1>1. SmtpInv => SentToAllOrNone
  BY DEF SmtpInv
<1> QED
  BY <1>1, SmtpInvInitially, SmtpInvInductive, PTL DEF Spec

-----------------------------------------------------------------------------

\* A page holds the messages as far from the newest as its offset and limit say.
LEMMA PageOf ==
  ASSUME NEW total \in Nat, NEW offset \in Nat, NEW limit \in Nat \ {0}, NEW k \in 1 .. total
  PROVE  k \in PageRange(total, offset, limit) <=> offset <= total - k /\ total - k < offset + limit
  BY DEF PageRange

\* The pages of a listing that does not change hold every message, and each in
\* one page only (email/email.go:213-231).
THEOREM PagesPartition ==
  ASSUME NEW total \in Nat, NEW limit \in Nat \ {0}, NEW k \in 1 .. total
  PROVE  /\ \E i \in Nat : k \in PageRange(total, i * limit, limit)
         /\ \A i, j \in Nat :
              k \in PageRange(total, i * limit, limit) /\ k \in PageRange(total, j * limit, limit) => i = j
<1> DEFINE d == total - k
<1>0. d \in Nat
  OBVIOUS
<1>1. \E i \in Nat : k \in PageRange(total, i * limit, limit)
  <2>1. /\ d \div limit \in Nat /\ (d \div limit) * limit \in Nat
        /\ (d \div limit) * limit <= d /\ d < (d \div limit) * limit + limit
    BY <1>0
  <2>2. k \in PageRange(total, (d \div limit) * limit, limit)
    BY <2>1, PageOf
  <2> QED
    BY <2>1, <2>2
<1>2. ASSUME NEW i \in Nat, NEW j \in Nat, i < j,
             k \in PageRange(total, i * limit, limit), k \in PageRange(total, j * limit, limit)
      PROVE  FALSE
  <2>1. i * limit \in Nat /\ j * limit \in Nat
    OBVIOUS
  <2>2. j * limit <= d /\ d < i * limit + limit
    BY <1>2, <2>1, PageOf
  <2>3. i * limit + limit <= j * limit
    <3>1. i * limit + limit = (i + 1) * limit
      OBVIOUS
    <3>2. (i + 1) * limit <= j * limit
      BY <1>2
    <3> QED
      BY <3>1, <3>2
  <2> QED
    BY <2>1, <2>2, <2>3
<1> QED
  BY <1>1, <1>2, SMTT(30)

-----------------------------------------------------------------------------

\* How many answers repeat the one before them depends on no later answer.
LEMMA RepeatsSame ==
  ASSUME NEW n \in Nat, NEW s, NEW t, \A j \in 1 .. n : t[j] = s[j], NEW i \in 0 .. n
  PROVE  Repeats(t, i) = Repeats(s, i)
<1>1. \A j \in 2 .. i : j \in 1 .. n /\ j - 1 \in 1 .. n
  OBVIOUS
<1>2. {j \in 2 .. i : t[j].of = t[j - 1].of} = {j \in 2 .. i : s[j].of = s[j - 1].of}
  BY <1>1
<1> QED
  BY <1>2 DEF Repeats

\* One more if the next answer repeats.
LEMMA RepeatsNext ==
  ASSUME NEW n \in Nat, NEW s
  PROVE  /\ Repeats(s, n) \in Nat /\ Repeats(s, n + 1) \in Nat
         /\ n > 0 /\ s[n + 1].of = s[n].of => Repeats(s, n + 1) = Repeats(s, n) + 1
         /\ ~(n > 0 /\ s[n + 1].of = s[n].of) => Repeats(s, n + 1) = Repeats(s, n)
<1> DEFINE In(i) == {j \in 2 .. i : s[j].of = s[j - 1].of}
<1>1. IsFiniteSet(In(n)) /\ IsFiniteSet(In(n + 1))
  <2>1. IsFiniteSet(2 .. n) /\ IsFiniteSet(2 .. (n + 1))
    BY FS_Interval
  <2> QED
    BY <2>1, FS_Subset
<1>2. n + 1 \notin In(n)
  OBVIOUS
<1>3. \A j : j \in 2 .. (n + 1) <=> j \in 2 .. n \/ (j = n + 1 /\ n > 0)
  OBVIOUS
<1>4. n > 0 /\ s[n + 1].of = s[n].of => In(n + 1) = In(n) \cup {n + 1}
  <2>1. n > 0 => s[n + 1 - 1] = s[n]
    OBVIOUS
  <2> QED
    BY <1>3, <2>1
<1>5. ~(n > 0 /\ s[n + 1].of = s[n].of) => In(n + 1) = In(n)
  <2>1. n > 0 => s[n + 1 - 1] = s[n]
    OBVIOUS
  <2> QED
    BY <1>3, <2>1
<1>6. Repeats(s, n) = Cardinality(In(n)) /\ Repeats(s, n + 1) = Cardinality(In(n + 1))
  BY DEF Repeats
<1> HIDE DEF In
<1> QED
  BY <1>1, <1>2, <1>4, <1>5, <1>6, FS_CardinalityType, FS_AddElement

\* Between two requests as many are answered as there are answers without the
\* repeated ones.  Between the two answers to an Open of an unknown bucket the
\* first is one ahead.
InStepInv ==
  /\ \E S : answers \in Seq(S)
  /\ handled \in Nat /\ buckets \subseteq Buckets
  /\ InStep
  /\ folder \in Buckets \cup {NoFile, Outside}
  /\ folder # Outside => handled = Len(answers) - Repeats(answers, Len(answers))
  /\ folder # NoFile => Asked("open")
  /\ folder = Outside =>
       /\ answers # <<>> /\ ~answers[Len(answers)].ok
       /\ handled + 1 = Len(answers) - Repeats(answers, Len(answers))

LEMMA InStepInvInitially == Init => InStepInv
<1> SUFFICES ASSUME Init PROVE InStepInv
  OBVIOUS
<1>1. answers = <<>> /\ handled = 0 /\ folder = NoFile /\ buckets \subseteq Buckets /\ answers \in Seq({})
  BY DEF Init, DfsInit
<1>2. 2 .. 0 = {} /\ Len(answers) = 0
  BY <1>1
<1>3. Repeats(answers, 0) = 0
  <2>1. {j \in 2 .. 0 : answers[j].of = answers[j - 1].of} = {}
    BY <1>2
  <2> QED
    BY <2>1, FS_EmptySet DEF Repeats
<1> QED
  BY <1>1, <1>2, <1>3, DfsAssumption DEF InStepInv, InStep

\* The answers t are in step when one more request is answered than handled says.
OneAhead(t, ok, n) ==
  /\ \E S : t \in Seq(S)
  /\ \A i \in DOMAIN t :
       /\ t[i].of = i - Repeats(t, i)
       /\ i > 1 /\ t[i].of = t[i - 1].of => t[i].what = "open" /\ ~t[i - 1].ok
  /\ handled + 1 = Len(t) - Repeats(t, Len(t))
  /\ t # <<>> /\ t[Len(t)] = Answer(ok, n)

\* An answer to the request that is being served keeps the answers in step, if
\* none was sent for it yet or it is an Open that was refused at once.
LEMMA AnswerInStep ==
  ASSUME InStepInv, NEW ok, NEW n, NEW t, t = Append(answers, Answer(ok, n)),
         folder = Outside => current.what = "open"
  PROVE  OneAhead(t, ok, n)
<1> DEFINE a == Answer(ok, n)
<1>1. PICK S : answers \in Seq(S)
  BY DEF InStepInv
<1>2. PICK m \in Nat : m = Len(answers)
  BY <1>1
<1>3. /\ t = Append(answers, a) /\ t \in Seq(S \cup {a}) /\ Len(t) = m + 1
      /\ t[m + 1] = a /\ \A i \in 1 .. m : t[i] = answers[i]
      /\ DOMAIN answers = 1 .. m /\ DOMAIN t = 1 .. (m + 1)
  BY <1>1, <1>2
<1>4. a.of = handled + 1 /\ a.what = current.what
  BY DEF Answer
<1> HIDE DEF a
<1>5. /\ \A i \in 0 .. m : Repeats(t, i) = Repeats(answers, i)
      /\ Repeats(answers, m) \in Nat /\ Repeats(t, m + 1) \in Nat
      /\ m > 0 /\ a.of = answers[m].of => Repeats(t, m + 1) = Repeats(answers, m) + 1
      /\ ~(m > 0 /\ a.of = answers[m].of) => Repeats(t, m + 1) = Repeats(answers, m)
  <2>1. \A i \in 0 .. m : Repeats(t, i) = Repeats(answers, i)
    <3>1. \A j \in 1 .. m : t[j] = answers[j]
      BY <1>3
    <3> QED
      BY <3>1, RepeatsSame
  <2>2. Repeats(t, m) = Repeats(answers, m) /\ t[m + 1] = a /\ (m > 0 => t[m] = answers[m])
    BY <1>3, <2>1
  <2> QED
    BY <2>1, <2>2, RepeatsNext
<1>6. m > 0 => answers[m].of = m - Repeats(answers, m)
  BY <1>2, <1>3 DEF InStepInv, InStep
<1>7. /\ handled + 1 = m + 1 - Repeats(t, m + 1)
      /\ m > 0 /\ a.of = answers[m].of => a.what = "open" /\ ~answers[m].ok
  <2>1. CASE folder = Outside
    <3>1. m > 0 /\ ~answers[m].ok /\ handled + 1 = m - Repeats(answers, m)
      BY <1>1, <1>2, <2>1 DEF InStepInv
    <3> QED
      BY <1>4, <1>5, <1>6, <2>1, <3>1
  <2>2. CASE folder # Outside
    <3>1. handled = m - Repeats(answers, m) /\ handled \in Nat
      BY <1>2, <2>2 DEF InStepInv
    <3> QED
      BY <1>4, <1>5, <1>6, <3>1
  <2> QED
    BY <2>1, <2>2
<1>8. ASSUME NEW i \in 1 .. (m + 1)
      PROVE  /\ t[i].of = i - Repeats(t, i)
             /\ i > 1 /\ t[i].of = t[i - 1].of =>
                  t[i].what = "open" /\ ~t[i - 1].ok
  <2>1. CASE i = m + 1
    <3>1. i - Repeats(t, i) = m + 1 - Repeats(t, m + 1)
      BY <1>5, <2>1
    <3>2. t[i] = a /\ (i > 1 => m > 0 /\ t[i - 1] = answers[m])
      BY <1>3, <2>1
    <3>3. t[i].of = i - Repeats(t, i)
      BY <1>4, <1>7, <2>1, <3>1, <3>2
    <3>4. i > 1 /\ t[i].of = t[i - 1].of => t[i].what = "open" /\ ~t[i - 1].ok
      BY <1>7, <3>2
    <3> QED
      BY <3>3, <3>4
  <2>2. CASE i # m + 1
    <3>1. i \in 1 .. m /\ (i > 1 => i - 1 \in 1 .. m)
      BY <2>2
    <3>2. t[i] = answers[i] /\ (i > 1 => t[i - 1] = answers[i - 1]) /\ Repeats(t, i) = Repeats(answers, i)
      BY <1>3, <1>5, <3>1
    <3> QED
      BY <1>3, <3>1, <3>2 DEF InStepInv, InStep
  <2> QED
    BY <2>1, <2>2
<1> QED
  <2>1. \E X : t \in Seq(X)
    BY <1>3
  <2>2. t # <<>> /\ t[Len(t)] = Answer(ok, n)
    <3>1. t[Len(t)] = a /\ t # <<>>
      BY <1>3
    <3> QED
      BY <3>1, Zenon DEF a
  <2>3. handled + 1 = Len(t) - Repeats(t, Len(t))
    <3>1. Len(t) = m + 1 /\ handled + 1 = m + 1 - Repeats(t, m + 1)
      BY <1>3, <1>7
    <3>2. Repeats(t, Len(t)) = Repeats(t, m + 1) /\ Repeats(t, m + 1) \in Nat
      BY <1>5, <3>1
    <3> QED
      BY <3>1, <3>2
  <2>4. \A i \in DOMAIN t :
          /\ t[i].of = i - Repeats(t, i)
          /\ i > 1 /\ t[i].of = t[i - 1].of => t[i].what = "open" /\ ~t[i - 1].ok
    <3> TAKE i \in DOMAIN t
    <3>1. i \in 1 .. (m + 1)
      BY <1>3
    <3> QED
      BY <1>8, <3>1, Zenon
  <2> QED
    BY <2>1, <2>2, <2>3, <2>4, Zenon DEF OneAhead

\* The end of a round, with the one answer of the request or the second one.
LEMMA ReplyInStep ==
  ASSUME InStepInv, NEW ok, NEW n, Reply(ok, n), folder' = NoFile, folder = Outside => current.what = "open"
  PROVE  InStepInv'
<1>1. answers' = Append(answers, Answer(ok, n)) /\ handled' = handled + 1 /\ buckets' = buckets
  BY DEF Reply
<1>2. handled \in Nat
  BY DEF InStepInv
<1>3. /\ \E S : answers' \in Seq(S)
      /\ \A i \in DOMAIN answers' :
           /\ answers'[i].of = i - Repeats(answers', i)
           /\ i > 1 /\ answers'[i].of = answers'[i - 1].of =>
                answers'[i].what = "open" /\ ~answers'[i - 1].ok
      /\ handled + 1 = Len(answers') - Repeats(answers', Len(answers'))
  <2>1. OneAhead(answers', ok, n)
    BY <1>1, AnswerInStep
  <2> QED
    BY <2>1 DEF OneAhead
<1>4. InStep'
  BY <1>1, <1>3 DEF InStep
<1> QED
  <2>1. (folder # Outside => handled = Len(answers) - Repeats(answers, Len(answers)))'
    BY <1>1, <1>3
  <2>2. folder' # Outside /\ handled' \in Nat /\ (buckets \subseteq Buckets)'
    BY <1>1, <1>2, DfsAssumption DEF InStepInv
  <2>3. (\E S : answers \in Seq(S))'
    BY <1>3
  <2> QED
    BY <1>4, <2>1, <2>2, <2>3, Zenon DEF InStepInv

LEMMA InStepInvInductive == InStepInv /\ [Next]_vars => InStepInv'
<1> SUFFICES ASSUME InStepInv, [Next]_vars PROVE InStepInv'
  OBVIOUS
<1>1. CASE UNCHANGED <<answers, handled, folder, current>> /\ buckets' \subseteq Buckets
  BY <1>1 DEF InStepInv, InStep, Repeats, Asked
<1>2. CASE ClientSends
  <2>1. folder = NoFile /\ UNCHANGED <<answers, handled, folder, buckets>>
    BY <1>2 DEF ClientSends, InStepInv, Asked
  <2> QED
    BY <2>1, DfsAssumption DEF InStepInv, InStep, Repeats, Asked
<1>3. CASE OpenLookup
  <2>1. folder = NoFile /\ Asked("open") /\ UNCHANGED <<handled, current, buckets>>
    BY <1>3 DEF OpenLookup, Serving
  <2>2. CASE current.bucket \in buckets
    <3>1. folder' = current.bucket /\ answers' = answers /\ current.bucket \in Buckets
      BY <1>3, <2>2 DEF OpenLookup, InStepInv
    <3> QED
      BY <2>1, <2>2, <3>1, DfsAssumption DEF InStepInv, InStep, Repeats, Asked
  <2>3. CASE current.bucket \notin buckets
    <3>1. folder' = Outside /\ answers' = Append(answers, Answer(FALSE, 0))
      BY <1>3, <2>3 DEF OpenLookup
    <3>2. Answer(FALSE, 0).ok = FALSE
      BY DEF Answer
    <3>3. folder # Outside /\ handled \in Nat
      BY <2>1, DfsAssumption DEF InStepInv
    <3>4. /\ \E S : answers' \in Seq(S)
          /\ \A i \in DOMAIN answers' :
               /\ answers'[i].of = i - Repeats(answers', i)
               /\ i > 1 /\ answers'[i].of = answers'[i - 1].of =>
                    answers'[i].what = "open" /\ ~answers'[i - 1].ok
          /\ handled + 1 = Len(answers') - Repeats(answers', Len(answers'))
          /\ answers' # <<>> /\ answers'[Len(answers')] = Answer(FALSE, 0)
      <4>1. OneAhead(answers', FALSE, 0)
        BY <3>1, <3>3, AnswerInStep
      <4> QED
        BY <4>1 DEF OneAhead
    <3>5. InStep'
      BY <3>1, <3>4, DfsAssumption DEF InStep
    <3>6. (answers # <<>> /\ ~answers[Len(answers)].ok)'
      BY <3>2, <3>4
    <3>7. (handled + 1 = Len(answers) - Repeats(answers, Len(answers)))'
      BY <2>1, <3>4
    <3>8. handled' \in Nat /\ (buckets \subseteq Buckets)' /\ Asked("open")'
      BY <2>1 DEF InStepInv, Asked
    <3>9. (\E S : answers \in Seq(S))'
      BY <3>4
    <3> QED
      BY <3>1, <3>5, <3>6, <3>7, <3>8, <3>9, Zenon DEF InStepInv
  <2> QED
    BY <2>2, <2>3
<1>4. CASE OpenFile
  <2>1. Reply(CanOpen, 0) /\ folder' = NoFile /\ current.what = "open"
    BY <1>4 DEF OpenFile, Serving, Asked
  <2> QED
    BY <2>1, ReplyInStep
<1>5. ASSUME Close \/ Seek \/ Read \/ Write \/ ReadDir \/ Stat PROVE InStepInv'
  <2>1. folder = NoFile /\ folder' = folder
    BY <1>5 DEF Close, Seek, Read, Write, ReadDir, Stat, Serving, Asked, InStepInv
  <2>2. \E ok, n : Reply(ok, n)
    BY <1>5 DEF Close, Seek, Read, Write, ReadDir, Stat
  <2> QED
    BY <2>1, <2>2, ReplyInStep, DfsAssumption
<1>6. ASSUME NEW b \in Buckets, AddBucket(b) \/ RemoveBucket(b) PROVE InStepInv'
  BY <1>1, <1>6 DEF AddBucket, RemoveBucket, InStepInv
<1>7. CASE ClientLeaves \/ Unserved \/ UnaryLookup \/ UnaryActs \/ UNCHANGED dfsVars
  BY <1>1, <1>7 DEF ClientLeaves, Unserved, UnaryLookup, UnaryActs, dfsVars, InStepInv
<1> QED
  BY <1>2, <1>3, <1>4, <1>5, <1>6, <1>7 DEF Next, Files, MailCall, Outgoing, vars, dfsVars, DfsNext

\* For any buckets, requests and changes to them, a client is out of step by the
\* second answer to an Open of an unknown bucket only (dfs/dfs.go:68-83).
THEOREM AnswersInStep == Spec => []InStep
<1>1. InStepInv => InStep
  BY DEF InStepInv
<1> QED
  BY <1>1, InStepInvInitially, InStepInvInductive, PTL DEF Spec

-----------------------------------------------------------------------------
(* What a client knows of its file *)

\* What is known of walks along a sequence does not depend on the ring.
Walks == INSTANCE RingStoreProofs WITH
           Entry <- {}, NoEntry <- NoFile, MaxSize <- 1, entries <- <<>>, head <- 0, count <- 0

LEMMA AnyRing == Walks!RingAssumption
  BY DEF Walks!RingAssumption

Report ==
  [of : Nat, what : {"open", "seek", "read", "write", "readDir", "close", "stat"}, ok : BOOLEAN, n : Nat,
   append : BOOLEAN]

View == [open : BOOLEAN, append : BOOLEAN, told : BOOLEAN, pos : Nat]

Nothing == [open |-> FALSE, append |-> FALSE, told |-> TRUE, pos |-> 0]

LEMMA ToldIs ==
  ASSUME NEW c \in View, NEW a \in Report
  PROVE  /\ Told(c, a) \in View
         /\ a.what = "open" => /\ Told(c, a).open = a.ok /\ Told(c, a).pos = 0
                               /\ Told(c, a).append = a.append
         /\ a.what # "open" => Told(c, a).open = c.open /\ Told(c, a).append = c.append
         /\ a.what = "seek" /\ a.ok => Told(c, a).pos = a.n
         /\ a.what \in {"read", "write"} => /\ Told(c, a).pos = c.pos + a.n
                                            /\ Told(c, a).told => c.told
         /\ a.what = "write" /\ Told(c, a).told => ~(a.ok /\ c.append)
         /\ a.what \in {"readDir", "close", "stat"} => Told(c, a) = c
<1>1. CASE a.what = "open"
  <2>1. Told(c, a) = [open |-> a.ok, append |-> a.append, told |-> TRUE, pos |-> 0]
    BY <1>1 DEF Told
  <2> QED
    BY <1>1, <2>1 DEF View, Report
<1>2. CASE a.what = "seek"
  <2>1. Told(c, a) = IF a.ok THEN [c EXCEPT !.told = TRUE, !.pos = a.n] ELSE c
    BY <1>2 DEF Told
  <2> QED
    BY <1>2, <2>1 DEF View, Report
<1>3. CASE a.what = "read"
  <2>1. Told(c, a) = [c EXCEPT !.pos = c.pos + a.n]
    BY <1>3 DEF Told
  <2>2. c.pos \in Nat /\ a.n \in Nat /\ c.pos + a.n \in Nat
    BY DEF View, Report
  <2> QED
    BY <1>3, <2>1, <2>2 DEF View
<1>5. CASE a.what = "write"
  <2>1. PICK t \in BOOLEAN : t = (c.told /\ ~(a.ok /\ c.append))
    OBVIOUS
  <2>2. Told(c, a) = [c EXCEPT !.pos = c.pos + a.n, !.told = t]
    BY <1>5, <2>1 DEF Told
  <2>3. c.pos \in Nat /\ a.n \in Nat /\ c.pos + a.n \in Nat
    BY DEF View, Report
  <2>4. /\ Told(c, a) \in View /\ Told(c, a).open = c.open /\ Told(c, a).append = c.append
        /\ Told(c, a).pos = c.pos + a.n /\ Told(c, a).told = t
    BY <2>2, <2>3 DEF View
  <2> QED
    BY <1>5, <2>1, <2>4
<1>4. CASE a.what \in {"readDir", "close", "stat"}
  <2>1. Told(c, a) = c
    BY <1>4 DEF Told
  <2> QED
    BY <1>4, <2>1
<1> QED
  BY <1>1, <1>2, <1>3, <1>4, <1>5 DEF Report

\* What the client goes through.
SeenWalk(upTo, s) ==
  /\ upTo \in [0 .. Len(s) -> View]
  /\ upTo[0] = Nothing
  /\ \A i \in 1 .. Len(s) : upTo[i] = Told(upTo[i - 1], s[i])

LEMMA SeenIs ==
  ASSUME NEW s \in Seq(Report)
  PROVE  \E upTo : SeenWalk(upTo, s) /\ SeenIn(s) = upTo[Len(s)]
<1>1. PICK N \in Nat : N = Len(s)
  OBVIOUS
<1>2. \A i \in 1 .. N : s[i] \in Report
  BY <1>1
<1>3. \A i \in 1 .. N, c \in View : Told(c, s[i]) \in View
  BY <1>2, ToldIs
<1>4. PICK h : h = [i \in 1 .. N |-> [c \in View |-> Told(c, s[i])]]
  OBVIOUS
<1>5. h \in [1 .. N -> [View -> View]]
  BY <1>3, <1>4
<1>6. PICK none \in View : none = Nothing
  BY DEF View, Nothing
<1>7. PICK f : Walks!IsWalk(f, N, View, none, h)
  BY <1>1, <1>5, <1>6, AnyRing, Walks!WalkExists
<1>8. f \in [0 .. N -> View] /\ f[0] = none /\ \A i \in 1 .. N : f[i] = h[i][f[i - 1]]
  BY <1>7 DEF Walks!IsWalk
<1>9. \A i \in 1 .. N : f[i] = Told(f[i - 1], s[i])
  <2>1. \A i \in 1 .. N, c \in View : h[i][c] = Told(c, s[i])
    BY <1>4
  <2>2. \A i \in 1 .. N : f[i - 1] \in View
    BY <1>1, <1>8
  <2> QED
    BY <1>8, <2>1, <2>2
<1> DEFINE Walk(x) == x = [i \in 0 .. N |-> IF i = 0 THEN none ELSE Told(x[i - 1], s[i])]
<1>10. Walk(f)
  BY <1>8, <1>9
<1>11. PICK g : g = CHOOSE x : Walk(x)
  OBVIOUS
<1>12. Walk(g)
  BY <1>10, <1>11
<1>13. SeenIn(s) = g[N]
  BY <1>1, <1>6, <1>11, Zenon DEF SeenIn, Nothing
<1>14. g[0] = none /\ \A i \in 1 .. N : g[i] = Told(g[i - 1], s[i])
  BY <1>12
<1> HIDE DEF Walk
<1>15. Walks!GoAlike(f, g, N)
  BY <1>8, <1>9, <1>14 DEF Walks!GoAlike
<1>16. g[N] = f[N]
  BY <1>1, <1>15, AnyRing, Walks!WalksAgree
<1> QED
  BY <1>1, <1>6, <1>8, <1>9, <1>13, <1>16 DEF SeenWalk

LEMMA SeenNone == SeenIn(<<>>) = Nothing
<1>1. PICK s \in Seq(Report) : s = <<>>
  <2>1. <<>> \in Seq(Report)
    OBVIOUS
  <2> QED
    BY <2>1
<1>2. PICK f : SeenWalk(f, s) /\ SeenIn(s) = f[Len(s)]
  BY SeenIs
<1>3. Len(s) = 0
  BY <1>1
<1> QED
  BY <1>1, <1>2, <1>3 DEF SeenWalk

\* One answer more.
LEMMA SeenNext ==
  ASSUME NEW s \in Seq(Report), NEW a \in Report
  PROVE  SeenIn(s) \in View /\ SeenIn(Append(s, a)) = Told(SeenIn(s), a)
<1>1. PICK v \in Seq(Report) : v = Append(s, a)
  BY AppendProperties
<1>2. PICK N \in Nat : N = Len(s)
  OBVIOUS
<1>3. Len(v) = N + 1 /\ (\A i \in 1 .. N : v[i] = s[i]) /\ v[N + 1] = a
  BY <1>1, <1>2, AppendProperties
<1>4. PICK f : SeenWalk(f, s) /\ SeenIn(s) = f[N]
  BY <1>2, SeenIs
<1>5. PICK g : SeenWalk(g, v) /\ SeenIn(v) = g[N + 1]
  BY <1>3, SeenIs
<1>6. f[0] = Nothing /\ f[N] \in View /\ \A i \in 1 .. N : f[i] = Told(f[i - 1], s[i])
  BY <1>2, <1>4 DEF SeenWalk
<1>7. g[0] = Nothing /\ \A i \in 1 .. N + 1 : g[i] = Told(g[i - 1], v[i])
  BY <1>3, <1>5 DEF SeenWalk
<1>8. Walks!GoAlike(f, g, N)
  <2>1. ASSUME NEW i \in 1 .. N, g[i - 1] = f[i - 1] PROVE g[i] = f[i]
    <3>1. g[i] = Told(g[i - 1], v[i]) /\ v[i] = s[i]
      BY <1>3, <1>7
    <3> QED
      BY <1>6, <2>1, <3>1
  <2> QED
    BY <1>6, <1>7, <2>1 DEF Walks!GoAlike
<1>9. g[N] = f[N]
  BY <1>2, <1>8, AnyRing, Walks!WalksAgree
<1>10. N + 1 \in 1 .. N + 1 /\ N + 1 - 1 = N
  OBVIOUS
<1>11. g[N + 1] = Told(g[N], a)
  BY <1>3, <1>7, <1>10
<1> QED
  BY <1>1, <1>4, <1>5, <1>6, <1>9, <1>11

\* An open file, of those there were.
Handles(k) == [ino : 1 .. k, pos : Nat, flags : SUBSET Kept]

Inode == [dir : BOOLEAN, size : Nat]

\* What a name may lead to.
Leads(k) == (1 .. k) \cup {NoFile}

FilesType ==
  /\ inodes \in Seq(Inode)
  /\ place \in [Places -> [Names -> Leads(Len(inodes))]]
  /\ file \in Handles(Len(inodes)) \cup {NoFile}

StreamType ==
  /\ current \in Request \cup {NoFile}
  /\ handled \in Nat
  /\ folder \in Places \cup {NoFile}
  /\ answers \in Seq(Report)
  /\ up \in BOOLEAN

UnaryType ==
  /\ buckets \subseteq Buckets
  /\ unary \in [op : {"mkDir", "removeAll", "rename"}, folder : Buckets, name : Names, new : Names] \cup {NoFile}

\* Between two requests the client knows what the server has.  While an Open is
\* under way the answers may be one ahead, and nothing is said of them.
Known ==
  /\ Seen.open <=> file # NoFile
  /\ file # NoFile => /\ Seen.append <=> "append" \in file.flags
                      /\ Seen.told => Seen.pos = file.pos

SeenInv ==
  /\ FilesType /\ StreamType /\ UnaryType
  /\ folder # NoFile => up /\ Asked("open")
  /\ up /\ folder = NoFile => Known
  /\ CrashExplained

LEMMA RequestIs ==
  ASSUME NEW r \in Request
  PROVE  /\ r.what = "open" => r.bucket \in Buckets /\ r.name \in Names
         /\ r.what = "seek" => r.to \in {0, 1}
         /\ r.what = "read" => r.n \in {-1, 1, MaxChunk + 1}
         /\ r.what = "write" => r.n \in {1, MaxChunk + 1}
  BY DEF Request

\* The end of a round, whatever was asked.
LEMMA ReplyIs ==
  ASSUME SeenInv, NEW ok \in BOOLEAN, NEW n \in Nat, Reply(ok, n),
         current.what \in {"open", "seek", "read", "write", "readDir", "close", "stat"}
  PROVE  \E a \in Report :
           /\ a.what = current.what /\ a.ok = ok /\ a.n = n
           /\ a.append <=> current.what = "open" /\ "append" \in current.flags
           /\ answers' = Append(answers, a) /\ answers' \in Seq(Report)
           /\ answers' # <<>> /\ Last(answers') = a
           /\ Seen \in View /\ Seen' = Told(Seen, a)
           /\ current' = NoFile /\ handled' \in Nat /\ UNCHANGED <<buckets, unary>>
<1>1. handled \in Nat /\ answers \in Seq(Report)
  BY DEF SeenInv, StreamType
<1>2. PICK a \in Report : a = Answer(ok, n)
  <2>1. PICK h \in Nat : h = handled + 1
    BY <1>1
  <2>2. PICK w \in {"open", "seek", "read", "write", "readDir", "close", "stat"} : w = current.what
    OBVIOUS
  <2>3. PICK b \in BOOLEAN : b = (current.what = "open" /\ "append" \in current.flags)
    OBVIOUS
  <2>4. [of |-> h, what |-> w, ok |-> ok, n |-> n, append |-> b] \in Report
    BY DEF Report
  <2> QED
    BY <2>1, <2>2, <2>3, <2>4 DEF Answer
<1>3. /\ a.what = current.what /\ a.ok = ok /\ a.n = n
      /\ a.append <=> current.what = "open" /\ "append" \in current.flags
  BY <1>2 DEF Answer
<1>4. answers' = Append(answers, a) /\ handled' = handled + 1 /\ current' = NoFile /\ UNCHANGED <<buckets, unary>>
  BY <1>2 DEF Reply
<1>5. answers' \in Seq(Report) /\ answers' # <<>> /\ Last(answers') = a
  BY <1>1, <1>4, AppendProperties DEF Last
<1>6. Seen \in View /\ Seen' = Told(Seen, a)
  BY <1>1, <1>4, SeenNext DEF Seen
<1> QED
  BY <1>1, <1>3, <1>4, <1>5, <1>6

\* A step that the stream takes no part in.
LEMMA StreamRests ==
  ASSUME SeenInv, UNCHANGED <<current, handled, folder, file, answers, up>>, FilesType', UnaryType'
  PROVE  SeenInv'
<1>1. StreamType'
  BY DEF SeenInv, StreamType
<1>2. Seen' = Seen
  BY DEF Seen
<1>3. Asked("open")' = Asked("open") /\ Asked("unset")' = Asked("unset") /\ Asked("read")' = Asked("read")
  BY DEF Asked
<1> QED
  BY <1>1, <1>2, <1>3 DEF SeenInv, Known, CrashExplained

\* A round that leaves the tree alone and the program running.
LEMMA RoundEnds ==
  ASSUME SeenInv, FilesType', StreamType', UnaryType', up', folder' = NoFile, Known'
  PROVE  SeenInv'
  BY DEF SeenInv, CrashExplained

LEMMA OpenLookupStep == SeenInv /\ OpenLookup => SeenInv'
<1> SUFFICES ASSUME SeenInv, OpenLookup PROVE SeenInv'
  OBVIOUS
<1>1. /\ up /\ Asked("open") /\ folder = NoFile /\ current \in Request
      /\ UNCHANGED <<buckets, place, inodes, current, handled, file, unary, up>>
  BY DEF OpenLookup, Serving, Asked, SeenInv, StreamType
<1>2. current.what = "open" /\ current.bucket \in Buckets
  BY <1>1, RequestIs DEF Asked
<1>3. folder' \in Places
  BY <1>2 DEF OpenLookup, Places
<1>4. answers' \in Seq(Report)
  <2>1. Answer(FALSE, 0) \in Report
    <3>1. PICK b \in BOOLEAN : b = (current.what = "open" /\ "append" \in current.flags)
      OBVIOUS
    <3>2. PICK h \in Nat : h = handled + 1
      BY DEF SeenInv, StreamType
    <3>3. [of |-> h, what |-> "open", ok |-> FALSE, n |-> 0, append |-> b] \in Report
      BY DEF Report
    <3> QED
      BY <1>2, <3>1, <3>2, <3>3 DEF Answer
  <2>2. answers \in Seq(Report)
    BY DEF SeenInv, StreamType
  <2>3. answers' = answers \/ answers' = Append(answers, Answer(FALSE, 0))
    BY DEF OpenLookup
  <2>4. Append(answers, Answer(FALSE, 0)) \in Seq(Report)
    BY <2>1, <2>2, AppendProperties
  <2> QED
    BY <2>2, <2>3, <2>4
<1>5. folder' # NoFile /\ up' /\ Asked("open")'
  BY <1>1, <1>3, DfsAssumption DEF Asked, Places
<1>6. FilesType' /\ StreamType' /\ UnaryType'
  BY <1>1, <1>3, <1>4 DEF SeenInv, FilesType, StreamType, UnaryType
<1> QED
  BY <1>1, <1>5, <1>6 DEF SeenInv, CrashExplained

LEMMA OpenFileStep == SeenInv /\ OpenFile => SeenInv'
<1> SUFFICES ASSUME SeenInv, OpenFile PROVE SeenInv'
  OBVIOUS
<1>1. up /\ folder \in Places /\ current \in Request /\ current.what = "open" /\ up' = up /\ folder' = NoFile
  BY DEF OpenFile, Serving, Asked, SeenInv, StreamType
<1>2. current.name \in Names
  BY <1>1, RequestIs
<1>3. PICK k \in Nat : k = Len(inodes) /\ inodes \in Seq(Inode) /\ place \in [Places -> [Names -> Leads(k)]]
  BY DEF SeenInv, FilesType
<1>4. Target \in Leads(k) /\ Target = place[folder][current.name]
  BY <1>1, <1>2, <1>3 DEF Target
<1>5. CanOpen \in BOOLEAN
  <2>1. CASE Target = NoFile
    BY <1>2, <2>1 DEF CanOpen
  <2>2. CASE Target # NoFile
    BY <2>2 DEF CanOpen
  <2> QED
    BY <2>1, <2>2
<1>6. PICK a \in Report :
        /\ a.what = "open" /\ a.ok = CanOpen /\ a.n = 0 /\ (a.append <=> "append" \in current.flags)
        /\ answers' \in Seq(Report) /\ Seen \in View /\ Seen' = Told(Seen, a)
        /\ current' = NoFile /\ handled' \in Nat /\ UNCHANGED <<buckets, unary>>
  <2>1. Reply(CanOpen, 0)
    BY DEF OpenFile
  <2> QED
    BY <1>1, <1>5, <2>1, ReplyIs
<1>7. Seen'.open = CanOpen /\ Seen'.pos = 0 /\ (Seen'.append <=> "append" \in current.flags)
  BY <1>6, ToldIs
<1> DEFINE kept == current.flags \cap Kept
<1>10. kept \in SUBSET Kept /\ ("append" \in kept <=> "append" \in current.flags)
  BY DEF Kept
<1> HIDE DEF kept
<1>8. CASE CanOpen /\ Target = NoFile
  <2>1. inodes' = Append(inodes, [dir |-> FALSE, size |-> 0])
    BY <1>8 DEF OpenFile, Opened
  <2>2. inodes' \in Seq(Inode) /\ Len(inodes') = k + 1
    BY <1>3, <2>1, AppendProperties DEF Inode
  <2>3. place' = [place EXCEPT ![folder][current.name] = k + 1]
    BY <1>8, <2>2 DEF OpenFile
  <2>4. place' \in [Places -> [Names -> Leads(k + 1)]] /\ place'[folder][current.name] = k + 1
    BY <1>1, <1>2, <1>3, <2>3 DEF Leads
  <2>5. file' = [ino |-> k + 1, pos |-> 0, flags |-> kept]
    BY <1>8, <2>4 DEF OpenFile, kept
  <2>6. file' \in Handles(k + 1) /\ file' # NoFile /\ file'.pos = 0 /\ file'.flags = kept
    BY <1>3, <1>10, <2>5, DfsAssumption DEF Handles
  <2>7. FilesType'
    BY <2>2, <2>4, <2>6 DEF FilesType
  <2>8. StreamType' /\ UnaryType'
    BY <1>1, <1>6 DEF SeenInv, StreamType, UnaryType
  <2>9. Known'
    BY <1>7, <1>8, <1>10, <2>6 DEF Known
  <2> QED
    BY <1>1, <2>7, <2>8, <2>9, RoundEnds
<1>9. CASE ~(CanOpen /\ Target = NoFile)
  <2>1. place' = place
    BY <1>9 DEF OpenFile
  <2>2. file' = IF CanOpen THEN [ino |-> Target, pos |-> 0, flags |-> kept] ELSE NoFile
    BY <1>4, <2>1 DEF OpenFile, kept
  <2>3. CanOpen => Target \in 1 .. k
    BY <1>4, <1>9 DEF Leads
  <2>4. CanOpen => file' \in Handles(k) /\ file' # NoFile /\ file'.pos = 0 /\ file'.flags = kept
    BY <1>3, <1>10, <2>2, <2>3, DfsAssumption DEF Handles
  <2>8. inodes' \in Seq(Inode) /\ Len(inodes') = k
    <3>1. CASE inodes' = inodes
      BY <1>3, <3>1
    <3>2. CASE inodes' # inodes
      <4>1. CanOpen /\ inodes' = [inodes EXCEPT ![Target].size = 0]
        BY <1>9, <3>2 DEF OpenFile, Opened
      <4>2. PICK i \in 1 .. k : i = Target
        BY <2>3, <4>1
      <4>3. PICK old \in Inode : old = inodes[i]
        BY <1>3
      <4>4. PICK new \in Inode : new = [old EXCEPT !.size = 0]
        <5>1. [old EXCEPT !.size = 0] \in Inode
          BY DEF Inode
        <5> QED
          BY <5>1
      <4>5. inodes' = [inodes EXCEPT ![i] = new]
        BY <4>1, <4>2, <4>3, <4>4
      <4> QED
        BY <1>3, <4>5
    <3> QED
      BY <3>1, <3>2
  <2>5. FilesType'
    BY <1>3, <2>1, <2>2, <2>4, <2>8 DEF FilesType
  <2>6. StreamType' /\ UnaryType'
    BY <1>1, <1>6 DEF SeenInv, StreamType, UnaryType
  <2>7. Known'
    BY <1>7, <1>10, <2>2, <2>4 DEF Known
  <2> QED
    BY <1>1, <2>5, <2>6, <2>7, RoundEnds
<1> QED
  BY <1>8, <1>9

\* What a round has to begin with: the client knows where its file is.
LEMMA RoundBegins ==
  ASSUME SeenInv, NEW what, Serving(what), what # "open"
  PROVE  /\ up /\ folder = NoFile /\ Known /\ current \in Request /\ current.what = what
         /\ Len(inodes) \in Nat
         /\ file # NoFile => /\ file.ino \in 1 .. Len(inodes) /\ file.pos \in Nat /\ file.flags \subseteq Kept
                             /\ file \in Handles(Len(inodes))
                             /\ inodes[file.ino] \in Inode
  BY DEF SeenInv, FilesType, StreamType, Serving, Asked, Handles

\* A file that has moved to another place.
LEMMA MovedTo ==
  ASSUME NEW k \in Nat, NEW f \in Handles(k), NEW p \in Nat
  PROVE  /\ [f EXCEPT !.pos = p] \in Handles(k) /\ [f EXCEPT !.pos = p] # NoFile
         /\ [f EXCEPT !.pos = p].pos = p /\ [f EXCEPT !.pos = p].flags = f.flags
<1>1. [f EXCEPT !.pos = p] = [ino |-> f.ino, pos |-> p, flags |-> f.flags]
  BY DEF Handles
<1>2. f.ino \in Nat /\ f.ino \in 1 .. k /\ f.flags \in SUBSET Kept
  BY DEF Handles
<1> QED
  BY <1>1, <1>2, DfsAssumption DEF Handles

\* Close, ReadDir and Stat of a file.
LEMMA LooksStep ==
  ASSUME SeenInv, NEW ok \in BOOLEAN, Reply(ok, 0), UNCHANGED <<place, inodes, folder, file>>, up',
         NEW what \in {"close", "readDir", "stat"}, Serving(what)
  PROVE  SeenInv'
<1>1. up /\ folder = NoFile /\ Known /\ current.what = what
  BY RoundBegins
<1>2. PICK a \in Report :
        /\ a.what = what /\ answers' \in Seq(Report) /\ Seen \in View /\ Seen' = Told(Seen, a)
        /\ current' = NoFile /\ handled' \in Nat /\ UNCHANGED <<buckets, unary>>
  BY <1>1, ReplyIs
<1>3. Seen' = Seen
  BY <1>2, ToldIs
<1>4. FilesType' /\ StreamType' /\ UnaryType' /\ Known'
  BY <1>1, <1>2, <1>3 DEF SeenInv, FilesType, StreamType, UnaryType, Known
<1> QED
  BY <1>1, <1>4, RoundEnds

\* A file that moves as the answer says, but when it is written at its end.
LEMMA MovesStep ==
  ASSUME SeenInv, NEW what \in {"seek", "read", "write"}, Serving(what),
         NEW ok \in BOOLEAN, NEW n \in Nat, Reply(ok, n), UNCHANGED <<folder, up>>,
         FilesType', file' = NoFile <=> file = NoFile,
         file # NoFile => file'.flags = file.flags,
         file # NoFile /\ ~(what = "write" /\ ok /\ "append" \in file.flags) =>
           file'.pos = IF what = "seek" THEN n ELSE file.pos + n,
         what = "seek" => ok = (file # NoFile)
  PROVE  SeenInv'
<1>1. up /\ folder = NoFile /\ Known /\ current.what = what
  BY RoundBegins
<1>2. PICK a \in Report :
        /\ a.what = what /\ a.ok = ok /\ a.n = n
        /\ answers' \in Seq(Report) /\ Seen \in View /\ Seen' = Told(Seen, a)
        /\ current' = NoFile /\ handled' \in Nat /\ UNCHANGED <<buckets, unary>>
  BY <1>1, ReplyIs
<1>3. /\ Seen'.open = Seen.open /\ Seen'.append = Seen.append
      /\ what = "seek" /\ ok => Seen'.pos = n
      /\ what # "seek" => Seen'.pos = Seen.pos + n /\ (Seen'.told => Seen.told)
      /\ what = "write" /\ Seen'.told => ~(ok /\ Seen.append)
  BY <1>2, ToldIs
<1>4. Known'
  BY <1>1, <1>3 DEF Known
<1>5. StreamType' /\ UnaryType'
  BY <1>1, <1>2 DEF SeenInv, StreamType, UnaryType
<1> QED
  BY <1>1, <1>4, <1>5, RoundEnds

LEMMA SeekStep == SeenInv /\ Seek => SeenInv'
<1> SUFFICES ASSUME SeenInv, Seek PROVE SeenInv'
  OBVIOUS
<1>1. PICK n \in Nat : n = IF file = NoFile THEN 0 ELSE current.to
  <2>1. current \in Request /\ current.what = "seek"
    BY RoundBegins DEF Seek
  <2> QED
    BY <2>1, RequestIs
<1>2. Reply(file # NoFile, n) /\ UNCHANGED <<place, inodes, folder, up>> /\ Serving("seek")
  BY <1>1 DEF Seek
<1>3. PICK ok \in BOOLEAN : ok = (file # NoFile) /\ Reply(ok, n)
  BY <1>2
<1>4. file' = IF file = NoFile THEN NoFile ELSE [file EXCEPT !.pos = n]
  BY <1>1 DEF Seek
<1>5. /\ FilesType' /\ (file' = NoFile <=> file = NoFile)
      /\ file # NoFile => file'.pos = n /\ file'.flags = file.flags
  <2>1. CASE file = NoFile
    BY <1>2, <1>4, <2>1 DEF SeenInv, FilesType
  <2>2. CASE file # NoFile
    <3>1. Len(inodes) \in Nat /\ file \in Handles(Len(inodes)) /\ file' = [file EXCEPT !.pos = n]
      BY <1>2, <1>4, <2>2, RoundBegins
    <3>2. /\ file' \in Handles(Len(inodes)) /\ file' # NoFile
          /\ file'.pos = n /\ file'.flags = file.flags
      BY <3>1, MovedTo
    <3> QED
      BY <1>2, <2>2, <3>2 DEF SeenInv, FilesType
  <2> QED
    BY <2>1, <2>2
<1> QED
  BY <1>2, <1>3, <1>5, MovesStep

LEMMA ReadStep == SeenInv /\ Read => SeenInv'
<1> SUFFICES ASSUME SeenInv, Read PROVE SeenInv'
  OBVIOUS
<1>1. PICK readable \in BOOLEAN : readable = (file # NoFile /\ "read" \in file.flags /\ ~inodes[file.ino].dir)
  OBVIOUS
<1>2. /\ Serving("read") /\ current.n \in Nat
      /\ file # NoFile => file.pos \in Nat /\ file \in Handles(Len(inodes)) /\ inodes[file.ino] \in Inode
      /\ Len(inodes) \in Nat
  <2>1. current \in Request /\ current.what = "read"
    BY RoundBegins DEF Read
  <2> QED
    BY <2>1, RequestIs, RoundBegins, DfsAssumption DEF Read
<1>3. file # NoFile => Rest \in Nat
  BY <1>2 DEF Rest, Inode
<1>4. PICK n \in Nat : n = IF readable THEN Smaller(Smaller(current.n, MaxChunk), Rest) ELSE 0
  BY <1>1, <1>2, <1>3, DfsAssumption DEF Smaller
<1>5. /\ file' = IF readable THEN [file EXCEPT !.pos = file.pos + n] ELSE file
      /\ Reply(readable /\ n > 0, n)
      /\ UNCHANGED <<place, inodes, folder, up>>
  BY <1>1, <1>4 DEF Read
<1>6. PICK ok \in BOOLEAN : Reply(ok, n)
  BY <1>5
<1>7. /\ FilesType' /\ (file' = NoFile <=> file = NoFile)
      /\ file # NoFile => file'.pos = file.pos + n /\ file'.flags = file.flags
  <2>1. CASE readable
    <3>2. file # NoFile
      BY <1>1, <2>1, Zenon
    <3>3. file.pos + n \in Nat
      BY <1>2, <3>2
    <3>1. PICK p \in Nat : p = file.pos + n /\ file # NoFile
      BY <3>2, <3>3
    <3> QED
      BY <1>2, <1>5, <2>1, <3>1, MovedTo DEF SeenInv, FilesType
  <2>2. CASE ~readable
    <3>1. n = 0 /\ file' = file
      BY <1>4, <1>5, <2>2
    <3> QED
      BY <1>2, <1>5, <3>1 DEF SeenInv, FilesType
  <2> QED
    BY <2>1, <2>2
<1> QED
  BY <1>2, <1>5, <1>6, <1>7, MovesStep

LEMMA WriteStep == SeenInv /\ Write => SeenInv'
<1> SUFFICES ASSUME SeenInv, Write PROVE SeenInv'
  OBVIOUS
<1>1. PICK writable \in BOOLEAN : writable = (file # NoFile /\ "write" \in file.flags)
  OBVIOUS
<1>2. /\ Serving("write") /\ current.n \in Nat
      /\ file # NoFile => file.ino \in 1 .. Len(inodes) /\ file.pos \in Nat /\ file \in Handles(Len(inodes)) /\ inodes[file.ino] \in Inode
      /\ Len(inodes) \in Nat
  <2>1. current \in Request /\ current.what = "write"
    BY RoundBegins DEF Write
  <2> QED
    BY <2>1, RequestIs, RoundBegins, DfsAssumption DEF Write
<1>3. PICK n \in Nat : n = IF writable THEN current.n ELSE 0
  BY <1>2
<1>8. file # NoFile => WritesAt \in Nat /\ ("append" \notin file.flags => WritesAt = file.pos)
  BY <1>2 DEF WritesAt, Inode
<1>4. /\ Reply(writable, n) /\ UNCHANGED <<place, folder, up>>
      /\ file' = IF writable THEN [file EXCEPT !.pos = WritesAt + current.n] ELSE file
      /\ inodes' = IF writable /\ WritesAt + current.n > inodes[file.ino].size
                   THEN [inodes EXCEPT ![file.ino].size = WritesAt + current.n] ELSE inodes
  BY <1>1, <1>3 DEF Write
<1>5. PICK k \in Nat : k = Len(inodes) /\ inodes \in Seq(Inode)
  BY <1>2 DEF SeenInv, FilesType
<1>6. inodes' \in Seq(Inode) /\ Len(inodes') = k
  <2>1. CASE inodes' = inodes
    BY <1>5, <2>1
  <2>2. CASE inodes' # inodes
    <3>6. writable /\ WritesAt + current.n > inodes[file.ino].size
      BY <1>4, <2>2
    <3>7. file # NoFile
      BY <1>1, <3>6, Zenon
    <3>8. WritesAt + current.n \in Nat
      BY <1>2, <1>8, <3>7
    <3>1. PICK e \in Nat : e = WritesAt + current.n /\ file # NoFile
      BY <3>7, <3>8
    <3>2. PICK i \in 1 .. k : i = file.ino
      BY <1>2, <1>5, <3>1
    <3>3. PICK old \in Inode : old = inodes[i]
      BY <1>2, <3>1, <3>2
    <3>4. PICK new \in Inode : new = [old EXCEPT !.size = e]
      <4>1. [old EXCEPT !.size = e] \in Inode
        BY DEF Inode
      <4> QED
        BY <4>1
    <3>5. inodes' = [inodes EXCEPT ![i] = new]
      BY <1>4, <3>1, <3>2, <3>3, <3>4, <3>6
    <3> QED
      BY <1>5, <3>5
  <2> QED
    BY <2>1, <2>2
<1>7. /\ FilesType' /\ (file' = NoFile <=> file = NoFile)
      /\ file # NoFile => file'.flags = file.flags
      /\ file # NoFile => file'.pos = IF writable THEN WritesAt + n ELSE file.pos + n
  <2>1. place' \in [Places -> [Names -> Leads(k)]]
    BY <1>4, <1>5 DEF SeenInv, FilesType
  <2>2. CASE writable
    <3>3. file # NoFile
      BY <1>1, <2>2, Zenon
    <3>4. WritesAt + n \in Nat /\ n = current.n
      BY <1>2, <1>3, <1>8, <2>2, <3>3
    <3>5. file' = [file EXCEPT !.pos = WritesAt + n]
      BY <1>4, <2>2, <3>4
    <3>1. PICK p \in Nat : p = WritesAt + n /\ file # NoFile /\ file' = [file EXCEPT !.pos = p]
      BY <3>3, <3>4, <3>5
    <3>2. file' \in Handles(k) /\ file' # NoFile /\ file'.pos = p /\ file'.flags = file.flags
      BY <1>2, <1>5, <3>1, MovedTo
    <3>6. FilesType'
      BY <1>6, <2>1, <3>2 DEF FilesType
    <3> QED
      BY <2>2, <3>1, <3>2, <3>6
  <2>3. CASE ~writable
    <3>1. n = 0 /\ file' = file
      BY <1>3, <1>4, <2>3
    <3>2. file \in Handles(k) \cup {NoFile}
      BY <1>5 DEF SeenInv, FilesType
    <3> QED
      BY <1>2, <1>6, <2>1, <2>3, <3>1, <3>2 DEF FilesType
  <2> QED
    BY <2>2, <2>3
<1>9. ASSUME file # NoFile, ~(writable /\ "append" \in file.flags) PROVE file'.pos = file.pos + n
  <2>1. CASE writable
    <3>1. "append" \notin file.flags
      BY <1>9, <2>1
    <3>2. file'.pos = WritesAt + n /\ WritesAt = file.pos
      BY <1>7, <1>8, <1>9, <2>1, <3>1
    <3> QED
      BY <3>2
  <2>2. CASE ~writable
    BY <1>7, <1>9, <2>2
  <2> QED
    BY <2>1, <2>2
<1> QED
  BY <1>2, <1>4, <1>7, <1>9, MovesStep

\* Stat without a file is the one request of this version that ends the program.
LEMMA StatStep == SeenInv /\ Stat => SeenInv'
<1> SUFFICES ASSUME SeenInv, Stat PROVE SeenInv'
  OBVIOUS
<1>1. up /\ folder = NoFile /\ Known /\ current.what = "stat" /\ Serving("stat")
  BY RoundBegins DEF Stat
<1>2. PICK ok \in BOOLEAN : ok = (file # NoFile) /\ Reply(ok, 0)
  BY DEF Stat
<1>3. UNCHANGED <<place, inodes, folder, file>> /\ up' = ok
  BY <1>2 DEF Stat
<1>4. CASE file # NoFile
  BY <1>1, <1>2, <1>3, <1>4, LooksStep
<1>5. CASE file = NoFile
  <2>1. up' = FALSE /\ ~Seen.open
    BY <1>1, <1>2, <1>3, <1>5 DEF Known
  <2>2. PICK a \in Report :
          /\ a.what = "stat" /\ answers' \in Seq(Report) /\ answers' # <<>> /\ Last(answers') = a
          /\ Seen \in View /\ Seen' = Told(Seen, a)
          /\ current' = NoFile /\ handled' \in Nat /\ UNCHANGED <<buckets, unary>>
    BY <1>1, <1>2, ReplyIs
  <2>3. Seen' = Seen
    BY <2>2, ToldIs
  <2>4. CrashExplained'
    BY <2>1, <2>2, <2>3 DEF CrashExplained
  <2>5. FilesType' /\ StreamType' /\ UnaryType'
    BY <1>3, <2>1, <2>2 DEF SeenInv, FilesType, StreamType, UnaryType
  <2> QED
    BY <1>1, <1>3, <2>1, <2>4, <2>5 DEF SeenInv
<1> QED
  BY <1>4, <1>5

LEMMA UnservedStep == SeenInv /\ Unserved => SeenInv'
<1> SUFFICES ASSUME SeenInv, Unserved PROVE SeenInv'
  OBVIOUS
<1>1. /\ up' = FALSE /\ folder = NoFile
      /\ UNCHANGED <<buckets, place, inodes, current, handled, folder, file, answers, unary>>
      /\ Asked("unset") \/ (Asked("read") /\ current.n < 0)
  BY RoundBegins DEF Unserved, Serving
<1>2. CrashExplained'
  BY <1>1 DEF CrashExplained, Asked
<1>3. FilesType' /\ StreamType' /\ UnaryType'
  BY <1>1 DEF SeenInv, FilesType, StreamType, UnaryType
<1> QED
  BY <1>1, <1>2, <1>3 DEF SeenInv

LEMMA ClientSendsStep == SeenInv /\ ClientSends => SeenInv'
<1> SUFFICES ASSUME SeenInv, ClientSends PROVE SeenInv'
  OBVIOUS
<1>1. /\ up /\ current = NoFile /\ current' \in Request
      /\ UNCHANGED <<buckets, place, inodes, handled, folder, file, answers, unary, up>>
  BY DEF ClientSends
<1>2. folder = NoFile /\ Known
  BY <1>1 DEF SeenInv, Asked
<1>3. FilesType' /\ StreamType' /\ UnaryType'
  BY <1>1 DEF SeenInv, FilesType, StreamType, UnaryType
<1>4. Known'
  BY <1>1, <1>2 DEF Known, Seen
<1> QED
  BY <1>1, <1>2, <1>3, <1>4, RoundEnds

\* The calls without a stream change what names lead to, and open files stay.
LEMMA UnaryActsStep == SeenInv /\ UnaryActs => SeenInv'
<1> SUFFICES ASSUME SeenInv, UnaryActs PROVE SeenInv'
  OBVIOUS
<1>1. /\ UNCHANGED <<buckets, current, handled, folder, file, answers, up>> /\ unary' = NoFile
      /\ MkDir \/ RemoveAll \/ Rename
  BY DEF UnaryActs
<1>2. PICK k \in Nat : k = Len(inodes) /\ inodes \in Seq(Inode) /\ place \in [Places -> [Names -> Leads(k)]]
                      /\ file \in Handles(k) \cup {NoFile}
  BY DEF SeenInv, FilesType
<1>3. PICK d \in Places, n \in Names, m \in Names : d = unary.folder /\ n = unary.name /\ m = unary.new
  BY DEF SeenInv, UnaryType, UnaryActs, Places
<1>4. NoFile \in Leads(k) /\ NoFile \in Leads(k + 1) /\ Leads(k) \subseteq Leads(k + 1)
  BY DEF Leads
<1>5. FilesType'
  <2>1. CASE inodes' = inodes /\ place' = place
    BY <1>1, <2>1 DEF SeenInv, FilesType
  <2>2. CASE MkDir /\ ~(inodes' = inodes /\ place' = place)
    <3>1. inodes' = Append(inodes, [dir |-> TRUE, size |-> 0])
      BY <2>2 DEF MkDir
    <3>2. inodes' \in Seq(Inode) /\ Len(inodes') = k + 1
      BY <1>2, <3>1, AppendProperties DEF Inode
    <3>3. place' = [place EXCEPT ![d][n] = k + 1]
      BY <1>3, <2>2, <3>2 DEF MkDir
    <3>4. place' \in [Places -> [Names -> Leads(k + 1)]]
      BY <1>2, <1>4, <3>3 DEF Leads
    <3>5. file' \in Handles(k + 1) \cup {NoFile}
      BY <1>1, <1>2 DEF Handles
    <3> QED
      BY <3>2, <3>4, <3>5 DEF FilesType
  <2>3. CASE RemoveAll
    <3>1. inodes' = inodes /\ place' = [place EXCEPT ![d][n] = NoFile]
      BY <1>3, <2>3 DEF RemoveAll
    <3>2. place' \in [Places -> [Names -> Leads(k)]]
      BY <1>2, <1>4, <3>1
    <3> QED
      BY <1>1, <1>2, <3>1, <3>2 DEF FilesType
  <2>4. CASE Rename /\ ~(inodes' = inodes /\ place' = place)
    <3>1. PICK from \in Leads(k) : from = place[d][n]
      BY <1>2
    <3>2. inodes' = inodes /\ place' = [place EXCEPT ![d] = [place[d] EXCEPT ![n] = NoFile, ![m] = from]]
      BY <1>3, <2>4, <3>1 DEF Rename
    <3>3. PICK row \in [Names -> Leads(k)] : row = [place[d] EXCEPT ![n] = NoFile, ![m] = from]
      BY <1>2, <1>4
    <3>4. place' \in [Places -> [Names -> Leads(k)]]
      BY <1>2, <3>2, <3>3
    <3> QED
      BY <1>1, <1>2, <3>2, <3>4 DEF FilesType
  <2> QED
    BY <1>1, <2>1, <2>2, <2>3, <2>4
<1>6. UnaryType'
  BY <1>1 DEF SeenInv, UnaryType
<1> QED
  BY <1>1, <1>5, <1>6, StreamRests

LEMMA SeenInvInitially == Init => SeenInv
<1> SUFFICES ASSUME Init PROVE SeenInv
  OBVIOUS
<1>1. /\ buckets \subseteq Buckets /\ inodes = <<[dir |-> FALSE, size |-> 2]>>
      /\ current = NoFile /\ handled = 0 /\ folder = NoFile /\ file = NoFile /\ answers = <<>>
      /\ unary = NoFile /\ up = TRUE
  BY DEF Init, DfsInit
<1>2. inodes \in Seq(Inode) /\ Len(inodes) = 1
  BY <1>1 DEF Inode
<1>3. place \in [Places -> [Names -> Leads(1)]]
  <2>1. PICK b \in Places, n \in Names :
          place = [d \in Places |-> [m \in Names |-> IF d = b /\ m = n THEN 1 ELSE NoFile]]
    BY DEF Init, DfsInit
  <2> QED
    BY <2>1 DEF Leads
<1>4. Known
  BY <1>1, SeenNone DEF Known, Seen, Nothing
<1>5. <<>> \in Seq(Report)
  OBVIOUS
<1> QED
  BY <1>1, <1>2, <1>3, <1>4, <1>5 DEF SeenInv, FilesType, StreamType, UnaryType, CrashExplained

LEMMA SeenInvInductive == SeenInv /\ [Next]_vars => SeenInv'
<1> SUFFICES ASSUME SeenInv, [Next]_vars PROVE SeenInv'
  OBVIOUS
<1>1. ASSUME NEW b \in Buckets, AddBucket(b) \/ RemoveBucket(b) PROVE SeenInv'
  <2>1. /\ UNCHANGED <<place, inodes, current, handled, folder, file, answers, unary, up>>
        /\ buckets' \subseteq Buckets
    BY <1>1 DEF AddBucket, RemoveBucket, SeenInv, UnaryType
  <2> QED
    BY <2>1, StreamRests DEF SeenInv, FilesType, UnaryType
<1>2. CASE ClientLeaves \/ UNCHANGED dfsVars
  <2>1. UNCHANGED <<buckets, place, inodes, current, handled, folder, file, answers, unary, up>>
    BY <1>2 DEF ClientLeaves, dfsVars
  <2> QED
    BY <2>1, StreamRests DEF SeenInv, FilesType, UnaryType
<1>3. ASSUME Close \/ ReadDir PROVE SeenInv'
  <2>1. UNCHANGED <<place, inodes, folder, file, up>>
    BY <1>3 DEF Close, ReadDir
  <2>2. PICK what \in {"close", "readDir"} : Serving(what)
    BY <1>3 DEF Close, ReadDir
  <2>3. up'
    BY <2>1, <2>2, RoundBegins
  <2>4. \E ok \in BOOLEAN : Reply(ok, 0)
    <3>1. CASE Close
      BY <3>1 DEF Close
    <3>2. CASE ReadDir
      <4>1. (file # NoFile /\ inodes[file.ino].dir) \in BOOLEAN
        OBVIOUS
      <4> QED
        BY <3>2, <4>1 DEF ReadDir
    <3> QED
      BY <1>3, <3>1, <3>2
  <2> QED
    BY <2>1, <2>2, <2>3, <2>4, LooksStep
<1>4. CASE UnaryLookup
  <2>1. UNCHANGED <<buckets, place, inodes, current, handled, folder, file, answers, up>>
    BY <1>4 DEF UnaryLookup
  <2>2. UnaryType'
    BY <1>4, <2>1 DEF UnaryLookup, SeenInv, UnaryType
  <2> QED
    BY <2>1, <2>2, StreamRests DEF SeenInv, FilesType
<1> QED
  BY <1>1, <1>2, <1>3, <1>4, ClientSendsStep, OpenLookupStep, OpenFileStep, SeekStep, ReadStep, WriteStep, StatStep,
     UnservedStep, UnaryActsStep DEF Next, Files, MailCall, Outgoing, vars, dfsVars, DfsNext

\* For any buckets, names, sizes, flags and requests, a client that adds up the answers
\* knows whether it has a file and, but after a write at the end of one opened to
\* append, where in it, though Close closes nothing and calls of others rename and
\* remove the file (dfs/dfs.go:78-125).
THEOREM ClientFollows == Spec => []ClientKnowsPosition
<1>1. SeenInv => ClientKnowsPosition
  BY DEF SeenInv, Known, ClientKnowsPosition
<1> QED
  BY <1>1, SeenInvInitially, SeenInvInductive, PTL DEF Spec

\* The program ends by a request only if that is one it does not know, a read of
\* less than nothing, or a Stat when the answers say that no file is open
\* (dfs/dfs.go:107, 147-163, 167).
THEOREM CrashesAreExplained == Spec => []CrashExplained
<1>1. SeenInv => CrashExplained
  BY DEF SeenInv
<1> QED
  BY <1>1, SeenInvInitially, SeenInvInductive, PTL DEF Spec

-----------------------------------------------------------------------------
(* The folders and the calls on them *)

Message == [uid : Nat, id : Folders \X Nat, marked : BOOLEAN]

NoCall == [op : {"none"}, at : {"done"}, answer : {"none"}]

SomeCall ==
  [op : {"get", "delete", "move"},
   at : {"connect", "select", "fetch", "store", "expunge", "move", "done"},
   answer : {"none", "ok", "found", "notFound", "error"},
   folder : Folders, uid : Nat, to : Folders, turn : Nat \ {0}, skipped : SUBSET Folders, there : SUBSET Folders]

MailType ==
  /\ box \in [Folders -> SUBSET Message]
  /\ uidNext \in [Folders -> Nat]
  /\ calls \in [Clients -> NoCall \cup SomeCall]
  /\ named \subseteq Folders \X Nat
  /\ deleted \subseteq Folders \X Nat

\* A UID is one message's, and below the next one.
UidsAreOnce ==
  \A f \in Folders :
    /\ \A m \in box[f] : m.uid < uidNext[f]
    /\ \A m, n \in box[f] : m.uid = n.uid => m = n

\* Where a call is tells what it asks for, and which folder it has come to.
InPlace(r) ==
  /\ r.at \in {"store", "expunge"} => r.op = "delete"
  /\ r.at = "fetch" => r.op = "get"
  /\ r.at = "move" => r.op = "move"
  /\ r.op = "none" => r.at = "done"
  /\ r.at # "done" => r.answer = "none"
  /\ r.op = "move" /\ r.at # "done" => r.turn <= Len(FolderList)
  /\ r.answer = "notFound" => r.op = "get" \/ (r.op = "move" /\ r.turn > Len(FolderList))

MailBase == MailType /\ UidsAreOnce /\ \A c \in Clients : InPlace(calls[c])

LEMMA FoldersAre ==
  /\ Inbox \in Folders
  /\ FolderList \in Seq(Folders)
  /\ Folders = {FolderList[i] : i \in 1 .. Len(FolderList)}
  BY MailboxAssumption DEF Folders, ToSet, IsInjective

\* The request of a call, with another place and answer.
With(r, at, answer) ==
  [op |-> r.op, at |-> at, answer |-> answer, folder |-> r.folder, uid |-> r.uid, to |-> r.to,
   turn |-> r.turn, skipped |-> r.skipped, there |-> r.there]

LEMMA CallUnderWay ==
  ASSUME MailBase, NEW c \in Clients, calls[c].at # "done"
  PROVE  calls[c] \in SomeCall /\ InPlace(calls[c])
  BY DEF MailBase, MailType, NoCall

LEMMA WithIs ==
  ASSUME NEW r \in SomeCall, NEW at, NEW answer
  PROVE  /\ With(r, at, answer).op = r.op /\ With(r, at, answer).at = at
         /\ With(r, at, answer).answer = answer /\ With(r, at, answer).folder = r.folder
         /\ With(r, at, answer).uid = r.uid /\ With(r, at, answer).to = r.to
         /\ With(r, at, answer).turn = r.turn /\ With(r, at, answer).skipped = r.skipped
         /\ With(r, at, answer).there = r.there
         /\ at \in {"connect", "select", "fetch", "store", "expunge", "move", "done"}
            /\ answer \in {"none", "ok", "found", "notFound", "error"} => With(r, at, answer) \in SomeCall
  BY DEF With, SomeCall

LEMMA AnswerField ==
  ASSUME NEW r \in SomeCall, NEW a
  PROVE  [r EXCEPT !.answer = a] = With(r, r.at, a)
  BY DEF With, SomeCall

LEMMA TwoFields ==
  ASSUME NEW r \in SomeCall, NEW a
  PROVE  [r EXCEPT !.at = "done", !.answer = a] = With(r, "done", a)
<1>1. PICK s : s = With(r, "done", r.answer)
  OBVIOUS
<1>2. s \in SomeCall
  BY <1>1, WithIs DEF SomeCall
<1>3. [r EXCEPT !.at = "done"] = s
  BY <1>1 DEF With, SomeCall
<1>4. [s EXCEPT !.answer = a] = With(s, s.at, a)
  BY <1>2, AnswerField
<1>5. With(s, s.at, a) = With(r, "done", a)
  BY <1>1 DEF With
<1>6. [r EXCEPT !.at = "done", !.answer = a] = [[r EXCEPT !.at = "done"] EXCEPT !.answer = a]
  OBVIOUS
<1> QED
  BY <1>3, <1>4, <1>5, <1>6

LEMMA AnswersIs ==
  ASSUME MailBase, NEW c \in Clients, calls[c].at # "done", NEW a, Answers(c, a)
  PROVE  calls' = [calls EXCEPT ![c] = With(calls[c], "done", a)]
<1>1. PICK r \in SomeCall : r = calls[c]
  BY CallUnderWay
<1>2. calls' = [calls EXCEPT ![c] = [r EXCEPT !.at = "done", !.answer = a]]
  BY <1>1 DEF Answers, MailBase, MailType
<1>3. [r EXCEPT !.at = "done", !.answer = a] = With(r, "done", a)
  BY TwoFields
<1> QED
  BY <1>1, <1>2, <1>3

LEMMA GoesOnIs ==
  ASSUME MailBase, NEW c \in Clients, calls[c].at # "done", NEW at, GoesOn(c, at)
  PROVE  \E a \in {at, "done"}, r \in {"none", "error"} :
           /\ a = "done" \/ r = "none"
           /\ calls' = [calls EXCEPT ![c] = With(calls[c], a, r)]
<1>1. calls[c] \in SomeCall /\ calls[c].answer = "none"
  BY CallUnderWay DEF InPlace
<1>2. calls' = [calls EXCEPT ![c].at = at] => calls' = [calls EXCEPT ![c] = With(calls[c], at, "none")]
  BY <1>1 DEF With, SomeCall, MailBase, MailType
<1>3. calls' = [calls EXCEPT ![c].at = "done", ![c].answer = "error"]
        => calls' = [calls EXCEPT ![c] = With(calls[c], "done", "error")]
  BY <1>1 DEF With, SomeCall, MailBase, MailType
<1> QED
  BY <1>2, <1>3 DEF GoesOn

\* What a step may make of a folder: its next UID grows, a message with an older
\* UID was there before, and keeps its mark.
FoldersGrow ==
  \A f \in Folders :
    /\ uidNext[f] <= uidNext'[f]
    /\ \A m \in box'[f] :
         m.uid < uidNext[f] =>
           \E n \in box[f] : n.uid = m.uid /\ n.id = m.id /\ (n.marked => m.marked)

imapVars == <<box, uidNext, calls, named, gone, deleted>>

\* The type of what each action leaves, and what it makes of the folders.
LEMMA ArriveStep == MailBase /\ Arrive => MailBase' /\ FoldersGrow
<1> SUFFICES ASSUME MailBase, Arrive PROVE MailBase' /\ FoldersGrow
  OBVIOUS
<1>0. Inbox \in Folders
  BY FoldersAre
<1> USE <1>0 DEF MailBase
<1>1. PICK u \in Nat : u = uidNext[Inbox]
  BY DEF MailType
<1>2. PICK new \in Message : new = NewMessage(Inbox, u) /\ new.uid = u /\ ~new.marked
  <2>1. NewMessage(Inbox, u) \in Message
    BY DEF NewMessage, Message
  <2>2. NewMessage(Inbox, u).uid = u /\ NewMessage(Inbox, u).marked = FALSE
    BY DEF NewMessage
  <2> QED
    BY <2>1, <2>2
<1>3. /\ box' = [box EXCEPT ![Inbox] = box[Inbox] \cup {new}]
      /\ uidNext' = [uidNext EXCEPT ![Inbox] = u + 1]
      /\ UNCHANGED <<calls, named, deleted>>
  BY <1>1, <1>2 DEF Arrive
<1>4. MailType'
  BY <1>3 DEF MailType
<1>5. UidsAreOnce'
  <2> SUFFICES ASSUME NEW f \in Folders
               PROVE  /\ \A m \in box'[f] : m.uid < uidNext'[f]
                      /\ \A m, n \in box'[f] : m.uid = n.uid => m = n
    BY DEF UidsAreOnce
  <2>1. box[f] \subseteq Message /\ uidNext[f] \in Nat
    BY DEF MailType
  <2>2. CASE f = Inbox
    BY <1>1, <1>2, <1>3, <2>1, <2>2 DEF UidsAreOnce, MailType, Message
  <2>3. CASE f # Inbox
    BY <1>3, <2>1, <2>3 DEF UidsAreOnce, MailType
  <2> QED
    BY <2>2, <2>3
<1>6. (\A c \in Clients : InPlace(calls[c]))'
  BY <1>3
<1>7. FoldersGrow
  <2> SUFFICES ASSUME NEW f \in Folders
               PROVE  /\ uidNext[f] <= uidNext'[f]
                      /\ \A m \in box'[f] :
                           m.uid < uidNext[f] =>
                             \E n \in box[f] : n.uid = m.uid /\ n.id = m.id /\ (n.marked => m.marked)
    BY DEF FoldersGrow
  <2>1. box[f] \subseteq Message /\ uidNext[f] \in Nat
    BY DEF MailType
  <2>2. CASE f = Inbox
    BY <1>1, <1>2, <1>3, <2>1, <2>2 DEF UidsAreOnce, MailType, Message
  <2>3. CASE f # Inbox
    BY <1>3, <2>1, <2>3 DEF UidsAreOnce, MailType
  <2> QED
    BY <2>2, <2>3
<1> QED
  BY <1>4, <1>5, <1>6, <1>7

\* A step that leaves the folders alone and the calls well formed.
LEMMA FoldersStill ==
  ASSUME MailBase, UNCHANGED <<box, uidNext>>, named' \subseteq Folders \X Nat, UNCHANGED deleted,
         NEW c \in Clients, NEW r \in SomeCall, InPlace(r), calls' = [calls EXCEPT ![c] = r]
  PROVE  MailBase' /\ FoldersGrow
<1>1. MailType'
  BY DEF MailBase, MailType
<1>2. UidsAreOnce' /\ FoldersGrow
  BY DEF MailBase, MailType, UidsAreOnce, FoldersGrow
<1>3. (\A d \in Clients : InPlace(calls[d]))'
  BY DEF MailBase, MailType
<1> QED
  BY <1>1, <1>2, <1>3 DEF MailBase

\* The calls that only look at the folders.
LEMMA LookingIs ==
  ASSUME MailBase, NEW c \in Clients, Connect(c) \/ Select(c) \/ GetFetch(c), NEW r \in SomeCall, r = calls[c]
  PROVE  /\ UNCHANGED <<box, uidNext, named, gone, deleted>> /\ InPlace(r) /\ r.at # "done"
         /\ \E at \in {"select", "fetch", "store", "done"}, a \in {"none", "found", "notFound", "error"} :
              /\ at = "store" => r.op = "delete"
              /\ at = "fetch" => r.op = "get"
              /\ at # "done" => a = "none"
              /\ a = "notFound" => r.op = "get" /\ ~Holds(r.folder, r.uid)
              /\ calls' = [calls EXCEPT ![c] = With(r, at, a)]
<1>1. InPlace(r) /\ r.at # "done"
  BY CallUnderWay DEF Connect, Select, GetFetch
<1>2. UNCHANGED <<box, uidNext, named, gone, deleted>>
  BY DEF Connect, Select, GetFetch
<1>3. CASE Connect(c)
  BY <1>1, <1>2, <1>3, GoesOnIs DEF Connect
<1>4. CASE Select(c)
  BY <1>1, <1>2, <1>4, GoesOnIs DEF Select, SomeCall
<1>5. CASE GetFetch(c)
  BY <1>1, <1>2, <1>5, AnswersIs DEF GetFetch
<1> QED
  BY <1>3, <1>4, <1>5

LEMMA LookingStep ==
  ASSUME MailBase, NEW c \in Clients, Connect(c) \/ Select(c) \/ GetFetch(c)
  PROVE  MailBase' /\ FoldersGrow
<1>1. PICK r \in SomeCall : r = calls[c]
  BY CallUnderWay DEF Connect, Select, GetFetch
<1>2. UNCHANGED <<box, uidNext, named, deleted>> /\ InPlace(r) /\ r.at # "done"
  BY <1>1, LookingIs
<1>3. PICK at \in {"select", "fetch", "store", "done"}, a \in {"none", "found", "notFound", "error"} :
        /\ at = "store" => r.op = "delete"
        /\ at = "fetch" => r.op = "get"
        /\ at # "done" => a = "none"
        /\ a = "notFound" => r.op = "get"
        /\ calls' = [calls EXCEPT ![c] = With(r, at, a)]
  BY <1>1, LookingIs
<1>4. PICK q \in SomeCall : q = With(r, at, a)
  BY WithIs
<1>5. q.op = r.op /\ q.at = at /\ q.answer = a /\ q.turn = r.turn
  BY <1>4, WithIs
<1>6. r.op # "none" /\ (r.op = "move" => at \in {"select", "done"} /\ r.turn <= Len(FolderList))
  BY <1>2, <1>3 DEF InPlace, SomeCall
<1>7. InPlace(q)
  BY <1>3, <1>5, <1>6 DEF InPlace
<1>8. named' \subseteq Folders \X Nat
  BY <1>2 DEF MailBase, MailType
<1> QED
  BY <1>2, <1>3, <1>4, <1>7, <1>8, FoldersStill

LEMMA BeginIs ==
  ASSUME MailBase, NEW c \in Clients, Begin(c)
  PROVE  /\ UNCHANGED <<box, uidNext, gone, deleted>>
         /\ \E r \in SomeCall : \E m \in box[r.folder] :
              /\ m.uid = r.uid /\ r.at = "connect" /\ r.answer = "none" /\ r.turn = 1
              /\ r.op = "move" => r.there = {g \in Folders : Holds(g, m.uid)}
              /\ r.op # "move" => r.there = {r.folder}
              /\ calls' = [calls EXCEPT ![c] = r]
              /\ named' = IF r.op = "delete" THEN named \cup {m.id} ELSE named
<1>0. PICK f \in Folders : \E to \in Folders, op \in {"get", "delete", "move"}, m \in box[f] :
        /\ op = "move" <=> to # f
        /\ calls' = [calls EXCEPT ![c] =
             [op |-> op, at |-> "connect", answer |-> "none", folder |-> f, uid |-> m.uid, to |-> to,
              turn |-> 1, skipped |-> {},
              there |-> IF op = "move" THEN {g \in Folders : Holds(g, m.uid)} ELSE {f}]]
        /\ named' = IF op = "delete" THEN named \cup {m.id} ELSE named
  BY DEF Begin
<1>1. PICK to \in Folders, op \in {"get", "delete", "move"}, m \in box[f] :
        /\ calls' = [calls EXCEPT ![c] =
             [op |-> op, at |-> "connect", answer |-> "none", folder |-> f, uid |-> m.uid, to |-> to,
              turn |-> 1, skipped |-> {},
              there |-> IF op = "move" THEN {g \in Folders : Holds(g, m.uid)} ELSE {f}]]
        /\ named' = IF op = "delete" THEN named \cup {m.id} ELSE named
  BY <1>0
<1>2. PICK there \in SUBSET Folders : there = IF op = "move" THEN {g \in Folders : Holds(g, m.uid)} ELSE {f}
  OBVIOUS
<1>3. m.uid \in Nat
  BY DEF MailBase, MailType, Message
<1>4. PICK r : r = [op |-> op, at |-> "connect", answer |-> "none", folder |-> f, uid |-> m.uid, to |-> to,
                    turn |-> 1, skipped |-> {}, there |-> there]
  OBVIOUS
<1>5. r \in SomeCall
  BY <1>3, <1>4 DEF SomeCall
<1>6. calls' = [calls EXCEPT ![c] = r]
  BY <1>1, <1>2, <1>4
<1>7. r.folder = f /\ r.op = op /\ r.there = there /\ r.uid = m.uid /\ r.at = "connect"
      /\ r.answer = "none" /\ r.turn = 1
  BY <1>4
<1>8. m \in box[r.folder]
  BY <1>7
<1>9. UNCHANGED <<box, uidNext, gone, deleted>>
  BY DEF Begin
<1> QED
  BY <1>1, <1>2, <1>5, <1>6, <1>7, <1>8, <1>9

LEMMA BeginStep == ASSUME MailBase, NEW c \in Clients, Begin(c) PROVE MailBase' /\ FoldersGrow
<1>1. PICK r \in SomeCall : \E m \in box[r.folder] :
        /\ r.at = "connect" /\ r.answer = "none" /\ r.turn = 1
        /\ calls' = [calls EXCEPT ![c] = r]
        /\ named' = IF r.op = "delete" THEN named \cup {m.id} ELSE named
  BY BeginIs
<1>2. 1 <= Len(FolderList)
  BY FoldersAre
<1>3. InPlace(r)
  BY <1>1, <1>2 DEF InPlace, SomeCall
<1>4. named' \subseteq Folders \X Nat
  BY <1>1 DEF MailBase, MailType, Message, SomeCall
<1> QED
  BY <1>1, <1>3, <1>4, FoldersStill, BeginIs

\* What STORE makes of the messages of the folder.
LEMMA StoreIs ==
  ASSUME MailBase, NEW c \in Clients, Store(c), NEW r \in SomeCall, r = calls[c]
  PROVE  /\ UNCHANGED <<uidNext, named, gone, deleted>> /\ r.op = "delete"
         /\ \A f \in Folders : f # r.folder => box'[f] = box[f]
         /\ box'[r.folder] = {IF m.uid = r.uid THEN [m EXCEPT !.marked = TRUE] ELSE m : m \in box[r.folder]}
         /\ \E at \in {"expunge", "done"}, a \in {"none", "error"} :
              (at = "done" \/ a = "none") /\ calls' = [calls EXCEPT ![c] = With(r, at, a)]
<1>1. r.at = "store"
  BY DEF Store
<1>2. InPlace(r)
  BY <1>1, CallUnderWay
<1>3. GoesOn(c, "expunge")
  BY DEF Store
<1>4. \E at \in {"expunge", "done"}, a \in {"none", "error"} :
        (at = "done" \/ a = "none") /\ calls' = [calls EXCEPT ![c] = With(r, at, a)]
  BY <1>1, <1>3, GoesOnIs
<1>5. box' = [box EXCEPT ![r.folder] =
                {IF m.uid = r.uid THEN [m EXCEPT !.marked = TRUE] ELSE m : m \in box[r.folder]}]
  BY DEF Store
<1>6. r.folder \in Folders /\ box \in [Folders -> SUBSET Message]
  BY DEF SomeCall, MailBase, MailType
<1>7. r.op = "delete"
  BY <1>1, <1>2 DEF InPlace
<1>8. UNCHANGED <<uidNext, named, gone, deleted>>
  BY DEF Store
<1> QED
  BY <1>4, <1>5, <1>6, <1>7, <1>8

\* Each message is one there was, with its mark set if it is the one.
LEMMA MarkedIs ==
  ASSUME NEW S \in SUBSET Message, NEW u,
         NEW k \in {IF m.uid = u THEN [m EXCEPT !.marked = TRUE] ELSE m : m \in S}
  PROVE  k \in Message /\ \E n \in S :
           /\ n.uid = k.uid /\ n.id = k.id /\ (n.marked => k.marked)
           /\ k = IF n.uid = u THEN [n EXCEPT !.marked = TRUE] ELSE n
           /\ k.uid = u => k.marked
           /\ k.uid # u => k.marked = n.marked
<1>1. PICK n \in S : k = IF n.uid = u THEN [n EXCEPT !.marked = TRUE] ELSE n
  OBVIOUS
<1>2. n \in Message
  OBVIOUS
<1>3. CASE n.uid = u
  <2>1. k = [n EXCEPT !.marked = TRUE]
    BY <1>1, <1>3
  <2>2. k.uid = n.uid /\ k.id = n.id /\ k.marked = TRUE /\ k \in Message
    BY <1>2, <2>1 DEF Message
  <2> QED
    BY <1>1, <1>3, <2>2
<1>4. CASE n.uid # u
  BY <1>1, <1>2, <1>4
<1> QED
  BY <1>3, <1>4

\* A call that goes on, or is over.
LEMMA CallMoved ==
  ASSUME MailBase, NEW c \in Clients, NEW r \in SomeCall, r = calls[c], InPlace(r), r.at # "done",
         NEW at \in {"select", "expunge", "done"}, NEW a \in {"none", "ok", "error"},
         at = "done" \/ a = "none", at = "expunge" => r.op = "delete",
         calls' = [calls EXCEPT ![c] = With(r, at, a)]
  PROVE  calls' \in [Clients -> NoCall \cup SomeCall] /\ (\A d \in Clients : InPlace(calls[d]))'
<1>1. PICK q : q = With(r, at, a)
  OBVIOUS
<1>2. q \in SomeCall /\ q.op = r.op /\ q.at = at /\ q.answer = a /\ q.turn = r.turn
  BY <1>1, WithIs
<1>3. r.op # "none" /\ (r.op = "move" => r.turn <= Len(FolderList))
  BY DEF InPlace, SomeCall
<1>4. InPlace(q)
  BY <1>2, <1>3 DEF InPlace
<1>5. calls' = [calls EXCEPT ![c] = q]
  BY <1>1
<1>6. ASSUME NEW d \in Clients PROVE InPlace(calls'[d])
  BY <1>4, <1>5 DEF MailBase, MailType
<1> QED
  BY <1>2, <1>5, <1>6 DEF MailBase, MailType

LEMMA StoreStep == ASSUME MailBase, NEW c \in Clients, Store(c) PROVE MailBase' /\ FoldersGrow
<1>1. PICK r \in SomeCall : r = calls[c] /\ InPlace(r) /\ r.at = "store"
  BY CallUnderWay DEF Store
<1>2. PICK at \in {"expunge", "done"}, a \in {"none", "error"} :
        (at = "done" \/ a = "none") /\ calls' = [calls EXCEPT ![c] = With(r, at, a)]
  BY <1>1, StoreIs
<1>3. UNCHANGED <<uidNext, named, gone, deleted>> /\ r.op = "delete"
  BY <1>1, StoreIs
<1>4. calls' \in [Clients -> NoCall \cup SomeCall] /\ (\A d \in Clients : InPlace(calls[d]))'
  BY <1>1, <1>2, <1>3, CallMoved
<1>5. ASSUME NEW f \in Folders, NEW k \in box'[f]
      PROVE  k \in Message /\ \E n \in box[f] :
               /\ n.uid = k.uid /\ n.id = k.id /\ (n.marked => k.marked)
               /\ \/ k = n
                  \/ f = r.folder /\ k = IF n.uid = r.uid THEN [n EXCEPT !.marked = TRUE] ELSE n
  <2>1. box[f] \in SUBSET Message
    BY DEF MailBase, MailType
  <2>2. CASE f # r.folder
    BY <1>1, <2>1, <2>2, StoreIs
  <2>3. CASE f = r.folder
    <3>1. PICK S \in SUBSET Message : S = box[f]
      BY <2>1
    <3>2. k \in {IF m.uid = r.uid THEN [m EXCEPT !.marked = TRUE] ELSE m : m \in S}
      BY <1>1, <2>3, <3>1, StoreIs
    <3>3. k \in Message /\ \E n \in S :
            /\ n.uid = k.uid /\ n.id = k.id /\ (n.marked => k.marked)
            /\ k = IF n.uid = r.uid THEN [n EXCEPT !.marked = TRUE] ELSE n
      BY <3>2, MarkedIs
    <3> QED
      BY <2>3, <3>1, <3>3
  <2> QED
    BY <2>2, <2>3
<1>6. box' \in [Folders -> SUBSET Message]
  <2>1. box' = [box EXCEPT ![r.folder] = box'[r.folder]]
    BY <1>1 DEF Store, MailBase, MailType, SomeCall
  <2>2. box'[r.folder] \in SUBSET Message
    BY <1>5 DEF SomeCall
  <2> QED
    BY <2>1, <2>2 DEF MailBase, MailType
<1>7. MailType'
  BY <1>3, <1>4, <1>6 DEF MailBase, MailType
<1>8. UidsAreOnce'
  <2> SUFFICES ASSUME NEW f \in Folders
               PROVE  /\ \A m \in box'[f] : m.uid < uidNext[f]
                      /\ \A m, n \in box'[f] : m.uid = n.uid => m = n
    BY <1>3 DEF UidsAreOnce
  <2>1. \A m, n \in box[f] : m.uid = n.uid => m = n
    BY DEF MailBase, UidsAreOnce
  <2>2. ASSUME NEW m \in box'[f], NEW n \in box'[f], m.uid = n.uid PROVE m = n
    <3>1. PICK m0 \in box[f] : m0.uid = m.uid /\ 
            (m = m0 \/ (f = r.folder /\ m = IF m0.uid = r.uid THEN [m0 EXCEPT !.marked = TRUE] ELSE m0))
      BY <1>5
    <3>2. PICK n0 \in box[f] : n0.uid = n.uid /\ 
            (n = n0 \/ (f = r.folder /\ n = IF n0.uid = r.uid THEN [n0 EXCEPT !.marked = TRUE] ELSE n0))
      BY <1>5
    <3>3. m0 = n0
      BY <2>1, <2>2, <3>1, <3>2
    <3>4. CASE f # r.folder
      BY <3>1, <3>2, <3>3, <3>4
    <3>5. CASE f = r.folder
      <4>1. ASSUME NEW k \in box'[f], k.uid = m.uid
            PROVE  k = IF m0.uid = r.uid THEN [m0 EXCEPT !.marked = TRUE] ELSE m0
        <5>1. PICK S \in SUBSET Message : S = box[f]
          BY DEF MailBase, MailType
        <5>2. k \in {IF x.uid = r.uid THEN [x EXCEPT !.marked = TRUE] ELSE x : x \in S}
          BY <1>1, <3>5, <5>1, StoreIs
        <5>5. \E x \in S : x.uid = k.uid /\ k = IF x.uid = r.uid THEN [x EXCEPT !.marked = TRUE] ELSE x
          BY <5>2, MarkedIs
        <5>3. PICK x \in box[f] : x.uid = k.uid /\ k = IF x.uid = r.uid THEN [x EXCEPT !.marked = TRUE] ELSE x
          BY <5>1, <5>5
        <5>4. x = m0
          BY <2>1, <3>1, <4>1, <5>3
        <5> QED
          BY <5>3, <5>4
      <4> QED
        BY <2>2, <4>1
    <3> QED
      BY <3>4, <3>5
  <2>3. \A m \in box'[f] : m.uid < uidNext[f]
    BY <1>5 DEF MailBase, UidsAreOnce
  <2> QED
    BY <2>2, <2>3
<1>9. FoldersGrow
  BY <1>3, <1>5 DEF FoldersGrow, MailBase, MailType
<1> QED
  BY <1>4, <1>7, <1>8, <1>9 DEF MailBase

LEMMA ExpungeIs ==
  ASSUME MailBase, NEW c \in Clients, Expunge(c), NEW r \in SomeCall, r = calls[c]
  PROVE  /\ UNCHANGED <<uidNext, named>> /\ r.op = "delete"
         /\ \E a \in {"ok", "error"} :
              /\ calls' = [calls EXCEPT ![c] = With(r, "done", a)]
              /\ \/ /\ box' = [box EXCEPT ![r.folder] = box[r.folder] \ Expunged(r.folder)]
                    /\ gone' = gone \cup {m.id : m \in Expunged(r.folder)}
                    /\ deleted' = IF a = "ok" THEN deleted \cup {<<r.folder, r.uid>>} ELSE deleted
                 \/ a = "error" /\ UNCHANGED <<box, gone, deleted>>
<1>1. r.at = "expunge" /\ InPlace(r)
  BY CallUnderWay DEF Expunge
<1>2. \A a : Answers(c, a) => calls' = [calls EXCEPT ![c] = With(r, "done", a)]
  BY <1>1, AnswersIs
<1>3. r.op = "delete"
  BY <1>1 DEF InPlace
<1> QED
  BY <1>2, <1>3 DEF Expunge

LEMMA ExpungeStep == ASSUME MailBase, NEW c \in Clients, Expunge(c) PROVE MailBase' /\ FoldersGrow
<1>1. PICK r \in SomeCall : r = calls[c] /\ InPlace(r) /\ r.at = "expunge"
  BY CallUnderWay DEF Expunge
<1>2. PICK a \in {"ok", "error"} :
        /\ calls' = [calls EXCEPT ![c] = With(r, "done", a)]
        /\ \/ /\ box' = [box EXCEPT ![r.folder] = box[r.folder] \ Expunged(r.folder)]
              /\ deleted' = IF a = "ok" THEN deleted \cup {<<r.folder, r.uid>>} ELSE deleted
           \/ a = "error" /\ UNCHANGED <<box, gone, deleted>>
  BY <1>1, ExpungeIs
<1>3. UNCHANGED <<uidNext, named>>
  BY <1>1, ExpungeIs
<1>4. calls' \in [Clients -> NoCall \cup SomeCall] /\ (\A d \in Clients : InPlace(calls[d]))'
  BY <1>1, <1>2, CallMoved
<1>5. box' \in [Folders -> SUBSET Message] /\ \A f \in Folders : box'[f] \subseteq box[f]
  BY <1>2 DEF MailBase, MailType, SomeCall
<1>6. deleted' \subseteq Folders \X Nat
  BY <1>2 DEF MailBase, MailType, SomeCall
<1>7. MailType'
  BY <1>3, <1>4, <1>5, <1>6 DEF MailBase, MailType
<1>8. UidsAreOnce'
  BY <1>3, <1>5 DEF MailBase, UidsAreOnce
<1>9. FoldersGrow
  BY <1>3, <1>5 DEF FoldersGrow, MailBase, MailType
<1> QED
  BY <1>4, <1>7, <1>8, <1>9 DEF MailBase

LEMMA SearchIs ==
  ASSUME MailBase, NEW c \in Clients, MoveSearch(c), NEW r \in SomeCall, r = calls[c]
  PROVE  /\ UNCHANGED <<box, uidNext, named, gone, deleted>>
         /\ r.op = "move" /\ r.at = "select" /\ r.answer = "none"
         /\ r.turn \in 1 .. Len(FolderList)
         /\ \E q \in SomeCall :
              /\ q.op = r.op /\ q.uid = r.uid /\ q.there = r.there /\ q.folder = r.folder
              /\ calls' = [calls EXCEPT ![c] = q]
              /\ \/ /\ q.at = "move" /\ q.turn = r.turn /\ q.skipped = r.skipped /\ q.answer = "none"
                 \/ /\ q.turn = r.turn + 1
                    /\ r.skipped \subseteq q.skipped
                    /\ FolderList[r.turn] \in q.skipped \/ ~Holds(FolderList[r.turn], r.uid)
                    /\ \/ q.at = "select" /\ q.answer = "none" /\ r.turn < Len(FolderList)
                       \/ q.at = "done" /\ q.answer = "notFound" /\ r.turn >= Len(FolderList)
<1>1. r.op = "move" /\ r.at = "select"
  BY DEF MoveSearch
<1>2. InPlace(r)
  BY <1>1, CallUnderWay
<1>3. r.answer = "none" /\ r.turn \in 1 .. Len(FolderList)
  BY <1>1, <1>2, FoldersAre DEF InPlace, SomeCall
<1>4. PICK n \in Nat : n = Len(FolderList)
  BY FoldersAre
<1>5. PICK g \in Folders : g = FolderList[r.turn]
  BY <1>3, FoldersAre
<1>6. UNCHANGED <<box, uidNext, named, gone, deleted>>
  BY DEF MoveSearch
<1>7. calls \in [Clients -> NoCall \cup SomeCall]
  BY DEF MailBase, MailType
<1>8. CASE calls' = [calls EXCEPT ![c].at = "move"]
  <2>1. PICK q : q = With(r, "move", r.answer)
    OBVIOUS
  <2>2. q = [r EXCEPT !.at = "move"]
    BY <2>1 DEF With, SomeCall
  <2>3. calls' = [calls EXCEPT ![c] = q]
    BY <1>7, <1>8, <2>2
  <2>4. /\ q \in SomeCall /\ q.op = r.op /\ q.uid = r.uid /\ q.there = r.there /\ q.folder = r.folder
        /\ q.at = "move" /\ q.turn = r.turn /\ q.skipped = r.skipped /\ q.answer = "none"
    BY <1>3, <2>1, WithIs
  <2> QED
    BY <1>1, <1>3, <1>6, <2>3, <2>4
<1>9. CASE \E failed \in {{}, {Turn(c)}} :
             /\ failed = {} => ~Holds(Turn(c), calls[c].uid)
             /\ calls' = [calls EXCEPT ![c].turn = @ + 1, ![c].skipped = @ \cup failed,
                    ![c].at = IF calls[c].turn < Len(FolderList) THEN "select" ELSE "done",
                    ![c].answer = IF calls[c].turn < Len(FolderList) THEN "none" ELSE "notFound"]
  <2>1. Turn(c) = g
    BY <1>5 DEF Turn
  <2>2. PICK failed \in {{}, {g}} :
             /\ failed = {} => ~Holds(g, r.uid)
             /\ calls' = [calls EXCEPT ![c].turn = @ + 1, ![c].skipped = @ \cup failed,
                    ![c].at = IF r.turn < n THEN "select" ELSE "done",
                    ![c].answer = IF r.turn < n THEN "none" ELSE "notFound"]
    BY <1>4, <1>9, <2>1
  <2>3. PICK at \in {"select", "done"}, a \in {"none", "notFound"} :
          /\ at = IF r.turn < n THEN "select" ELSE "done"
          /\ a = IF r.turn < n THEN "none" ELSE "notFound"
    OBVIOUS
  <2>4. PICK next \in Nat \ {0} : next = r.turn + 1
    BY DEF SomeCall
  <2>5. PICK skipped \in SUBSET Folders : skipped = r.skipped \cup failed
    BY DEF SomeCall
  <2>6. calls' = [calls EXCEPT ![c] =
                    [[[[r EXCEPT !.turn = next] EXCEPT !.skipped = skipped] EXCEPT !.at = at] EXCEPT !.answer = a]]
    <3>1. calls' = [calls EXCEPT ![c].turn = @ + 1, ![c].skipped = @ \cup failed, ![c].at = at, ![c].answer = a]
      BY <2>2, <2>3
    <3>2. [calls EXCEPT ![c].turn = @ + 1, ![c].skipped = @ \cup failed, ![c].at = at, ![c].answer = a]
          = [calls EXCEPT ![c] = [r EXCEPT !.turn = @ + 1, !.skipped = @ \cup failed, !.at = at, !.answer = a]]
      BY <1>7
    <3> QED
      BY <2>4, <2>5, <3>1, <3>2 DEF SomeCall
  <2>7. PICK q : q = [op |-> r.op, at |-> at, answer |-> a, folder |-> r.folder, uid |-> r.uid, to |-> r.to,
                      turn |-> next, skipped |-> skipped, there |-> r.there]
    OBVIOUS
  <2>8. q \in SomeCall
    BY <2>7 DEF SomeCall
  <2>9. q = [[[[r EXCEPT !.turn = next] EXCEPT !.skipped = skipped] EXCEPT !.at = at] EXCEPT !.answer = a]
    <3>1. PICK q1 : q1 = [r EXCEPT !.turn = next]
      OBVIOUS
    <3>2. q1 = [op |-> r.op, at |-> r.at, answer |-> r.answer, folder |-> r.folder, uid |-> r.uid, to |-> r.to,
                turn |-> next, skipped |-> r.skipped, there |-> r.there]
      BY <3>1 DEF SomeCall
    <3>3. PICK q2 : q2 = [q1 EXCEPT !.skipped = skipped]
      OBVIOUS
    <3>4. q2 = [op |-> r.op, at |-> r.at, answer |-> r.answer, folder |-> r.folder, uid |-> r.uid, to |-> r.to,
                turn |-> next, skipped |-> skipped, there |-> r.there]
      BY <3>2, <3>3
    <3>5. q2 \in SomeCall
      BY <3>4 DEF SomeCall
    <3>6. PICK q3 : q3 = With(q2, at, q2.answer)
      OBVIOUS
    <3>7. q3 \in SomeCall /\ q3 = [q2 EXCEPT !.at = at]
      BY <3>5, <3>6 DEF With, SomeCall
    <3>8. [q3 EXCEPT !.answer = a] = With(q3, q3.at, a)
      BY <3>7, AnswerField
    <3>9. With(q3, q3.at, a) = q
      BY <2>7, <3>4, <3>6 DEF With
    <3> QED
      BY <3>1, <3>3, <3>7, <3>8, <3>9
  <2>10. calls' = [calls EXCEPT ![c] = q]
    BY <2>6, <2>9
  <2>11. /\ q.op = r.op /\ q.uid = r.uid /\ q.there = r.there /\ q.folder = r.folder
         /\ q.turn = r.turn + 1 /\ r.skipped \subseteq q.skipped /\ q.at = at /\ q.answer = a
         /\ g \in q.skipped \/ ~Holds(g, r.uid)
    BY <2>2, <2>4, <2>5, <2>7
  <2>12. \/ at = "select" /\ a = "none" /\ r.turn < n
         \/ at = "done" /\ a = "notFound" /\ r.turn >= n
    BY <2>3 DEF SomeCall
  <2> QED
    BY <1>1, <1>3, <1>4, <1>5, <1>6, <2>8, <2>10, <2>11, <2>12
<1> QED
  BY <1>8, <1>9 DEF MoveSearch

LEMMA SearchStep == ASSUME MailBase, NEW c \in Clients, MoveSearch(c) PROVE MailBase' /\ FoldersGrow
<1>1. PICK r \in SomeCall : r = calls[c] /\ InPlace(r)
  BY CallUnderWay DEF MoveSearch
<1>2. UNCHANGED <<box, uidNext, named, gone, deleted>> /\ r.op = "move" /\ r.turn \in 1 .. Len(FolderList)
  BY <1>1, SearchIs
<1>3. PICK q \in SomeCall :
        /\ q.op = r.op
        /\ calls' = [calls EXCEPT ![c] = q]
        /\ \/ q.at = "move" /\ q.turn = r.turn /\ q.answer = "none"
           \/ /\ q.turn = r.turn + 1
              /\ \/ q.at = "select" /\ q.answer = "none" /\ r.turn < Len(FolderList)
                 \/ q.at = "done" /\ q.answer = "notFound" /\ r.turn >= Len(FolderList)
  BY <1>1, SearchIs
<1>4. Len(FolderList) \in Nat
  BY FoldersAre
<1>5. InPlace(q)
  BY <1>2, <1>3, <1>4 DEF InPlace, SomeCall
<1>6. named' \subseteq Folders \X Nat
  BY <1>2 DEF MailBase, MailType
<1> QED
  BY <1>2, <1>3, <1>5, <1>6, FoldersStill

\* A move takes the message, if it is there, from one folder to another, which
\* may be the same, under the next UID of that.
LEMMA MoveIs ==
  ASSUME MailBase, NEW c \in Clients, Move(c), NEW r \in SomeCall, r = calls[c]
  PROVE  /\ UNCHANGED <<named, gone, deleted>> /\ r.op = "move"
         /\ \E a \in {"ok", "error"} : calls' = [calls EXCEPT ![c] = With(r, "done", a)]
         /\ \/ UNCHANGED <<box, uidNext>>
            \/ \E f \in Folders : \E m \in box[f] : \E new \in Message :
                 /\ new.uid = uidNext[r.to] /\ new.id = m.id /\ new.marked = m.marked
                 /\ uidNext' = [uidNext EXCEPT ![r.to] = @ + 1]
                 /\ box' \in [Folders -> SUBSET Message]
                 /\ \A g \in Folders :
                      box'[g] = (IF g = f THEN box[g] \ {m} ELSE box[g]) \cup (IF g = r.to THEN {new} ELSE {})
<1>1. r.at = "move" /\ InPlace(r)
  BY CallUnderWay DEF Move
<1>2. r.op = "move" /\ r.turn \in 1 .. Len(FolderList)
  BY <1>1, FoldersAre DEF InPlace, SomeCall
<1>3. \A a : Answers(c, a) => calls' = [calls EXCEPT ![c] = With(r, "done", a)]
  BY <1>1, AnswersIs
<1>4. \E a \in {"ok", "error"} : calls' = [calls EXCEPT ![c] = With(r, "done", a)]
  BY <1>3 DEF Move
<1>5. PICK f \in Folders : f = Turn(c)
  BY <1>2, FoldersAre DEF Turn
<1>6. r.to \in Folders /\ box \in [Folders -> SUBSET Message] /\ uidNext \in [Folders -> Nat]
  BY DEF SomeCall, MailBase, MailType
<1>7. PICK moved \in SUBSET box[f] : moved = {m \in box[f] : m.uid = r.uid}
  OBVIOUS
<1>8. \/ /\ box' = [[box EXCEPT ![f] = @ \ moved] EXCEPT ![r.to] =
                       @ \cup {[m EXCEPT !.uid = uidNext[r.to]] : m \in moved}]
         /\ uidNext' = IF moved = {} THEN uidNext ELSE [uidNext EXCEPT ![r.to] = @ + 1]
      \/ UNCHANGED <<box, uidNext>>
  BY <1>5, <1>7 DEF Move
<1>9. CASE UNCHANGED <<box, uidNext>>
  BY <1>2, <1>4, <1>9 DEF Move
<1>10. CASE moved = {} /\ ~UNCHANGED <<box, uidNext>>
  <2>1. box[f] \ moved = box[f] /\ {[m EXCEPT !.uid = uidNext[r.to]] : m \in moved} = {}
    BY <1>10
  <2>2. [box EXCEPT ![f] = @ \ moved] = box
    BY <1>6, <2>1
  <2>3. [box EXCEPT ![r.to] = @ \cup {[m EXCEPT !.uid = uidNext[r.to]] : m \in moved}] = box
    BY <1>6, <2>1
  <2> QED
    BY <1>8, <1>10, <2>2, <2>3
<1>11. CASE moved # {} /\ ~UNCHANGED <<box, uidNext>>
  <2>1. PICK m \in box[f] : moved = {m} /\ m.uid = r.uid
    <3>1. PICK m \in moved : TRUE
      BY <1>11
    <3>2. \A n \in moved : n = m
      BY <1>7, <3>1 DEF MailBase, UidsAreOnce
    <3> QED
      BY <1>7, <3>1, <3>2
  <2>2. PICK new : new = [m EXCEPT !.uid = uidNext[r.to]]
    OBVIOUS
  <2>3. m \in Message /\ uidNext[r.to] \in Nat
    BY <1>6
  <2>4. new \in Message /\ new.uid = uidNext[r.to] /\ new.id = m.id /\ new.marked = m.marked
    BY <2>2, <2>3 DEF Message
  <2>5. {[n EXCEPT !.uid = uidNext[r.to]] : n \in moved} = {new}
    BY <2>1, <2>2
  <2>6. box' = [[box EXCEPT ![f] = @ \ {m}] EXCEPT ![r.to] = @ \cup {new}]
    BY <1>8, <1>11, <2>1, <2>5
  <2>7. \A g \in Folders :
          box'[g] = (IF g = f THEN box[g] \ {m} ELSE box[g]) \cup (IF g = r.to THEN {new} ELSE {})
    BY <1>6, <2>6
  <2>8. box' \in [Folders -> SUBSET Message]
    BY <1>6, <2>4, <2>6
  <2>9. uidNext' = [uidNext EXCEPT ![r.to] = @ + 1]
    BY <1>8, <1>11
  <2>10. \E g \in Folders : \E n \in box[g] : \E k \in Message :
           /\ k.uid = uidNext[r.to] /\ k.id = n.id /\ k.marked = n.marked
           /\ uidNext' = [uidNext EXCEPT ![r.to] = @ + 1]
           /\ box' \in [Folders -> SUBSET Message]
           /\ \A h \in Folders :
                box'[h] = (IF h = g THEN box[h] \ {n} ELSE box[h]) \cup (IF h = r.to THEN {k} ELSE {})
    BY <2>4, <2>7, <2>8, <2>9
  <2>11. UNCHANGED <<named, gone, deleted>>
    BY DEF Move
  <2> QED
    BY <1>2, <1>4, <2>10, <2>11
<1> QED
  BY <1>8, <1>9, <1>10, <1>11

LEMMA MoveStep == ASSUME MailBase, NEW c \in Clients, Move(c) PROVE MailBase' /\ FoldersGrow
<1>1. PICK r \in SomeCall : r = calls[c] /\ InPlace(r) /\ r.at = "move"
  BY CallUnderWay DEF Move
<1>2. UNCHANGED <<named, gone, deleted>>
  BY <1>1, MoveIs
<1>3. PICK a \in {"ok", "error"} : calls' = [calls EXCEPT ![c] = With(r, "done", a)]
  BY <1>1, MoveIs
<1>4. calls' \in [Clients -> NoCall \cup SomeCall] /\ (\A d \in Clients : InPlace(calls[d]))'
  BY <1>1, <1>3, CallMoved
<1>5. CASE UNCHANGED <<box, uidNext>>
  BY <1>2, <1>4, <1>5 DEF MailBase, MailType, UidsAreOnce, FoldersGrow
<1>6. ASSUME NEW f \in Folders, NEW m \in box[f], NEW new \in Message,
             new.uid = uidNext[r.to], new.id = m.id, new.marked = m.marked,
             uidNext' = [uidNext EXCEPT ![r.to] = @ + 1],
             box' \in [Folders -> SUBSET Message],
             \A g \in Folders :
               box'[g] = (IF g = f THEN box[g] \ {m} ELSE box[g]) \cup (IF g = r.to THEN {new} ELSE {})
      PROVE  MailBase' /\ FoldersGrow
  <2>1. r.to \in Folders
    BY DEF SomeCall
  <2>2. MailType'
    BY <1>2, <1>4, <1>6, <2>1 DEF MailBase, MailType
  <2>3. ASSUME NEW g \in Folders
        PROVE  /\ \A k \in box'[g] : k.uid < uidNext'[g]
               /\ \A k, n \in box'[g] : k.uid = n.uid => k = n
               /\ uidNext[g] <= uidNext'[g]
               /\ \A k \in box'[g] : k.uid < uidNext[g] => k \in box[g]
    <3>1. /\ \A k \in box[g] : k \in Message /\ k.uid < uidNext[g] /\ k.uid \in Nat
          /\ \A k, n \in box[g] : k.uid = n.uid => k = n
      BY DEF MailBase, MailType, UidsAreOnce, Message
    <3>2. PICK u \in Nat : u = uidNext[g]
      BY DEF MailBase, MailType
    <3>3. CASE g # r.to
      BY <1>6, <3>1, <3>2, <3>3 DEF MailBase, MailType
    <3>4. CASE g = r.to
      <4>1. uidNext'[g] = u + 1 /\ new.uid = u
        BY <1>6, <3>2, <3>4 DEF MailBase, MailType
      <4>2. \A k \in box'[g] : k \in box[g] \/ k = new
        BY <1>6, <3>4
      <4> QED
        BY <3>1, <3>2, <4>1, <4>2
    <3> QED
      BY <3>3, <3>4
  <2> QED
    BY <1>4, <2>2, <2>3 DEF MailBase, UidsAreOnce, FoldersGrow
<1> QED
  BY <1>1, <1>5, <1>6, MoveIs

LEMMA MailBaseInitially == Init => MailBase
<1> SUFFICES ASSUME MailInit PROVE MailBase
  BY DEF Init
<1>1. StartSize \in Nat
  BY MailboxAssumption
<1>2. \A f \in Folders : box[f] = {NewMessage(f, u) : u \in 1 .. StartSize} /\ uidNext[f] = StartSize + 1
  BY DEF MailInit
<1>3. \A f \in Folders : \A m \in box[f] :
        \E u \in 1 .. StartSize : m = NewMessage(f, u) /\ m \in Message /\ m.uid = u /\ ~m.marked
  <2> SUFFICES ASSUME NEW f \in Folders, NEW m \in box[f]
               PROVE  \E u \in 1 .. StartSize : m = NewMessage(f, u) /\ m \in Message /\ m.uid = u /\ ~m.marked
    OBVIOUS
  <2>1. PICK u \in 1 .. StartSize : m = NewMessage(f, u)
    BY <1>2
  <2>2. u \in Nat
    BY <1>1
  <2>3. m.uid = u /\ m.marked = FALSE /\ m \in Message
    BY <2>1, <2>2 DEF NewMessage, Message
  <2> QED
    BY <2>1, <2>3
<1>4. MailType
  <2>1. box \in [Folders -> SUBSET Message]
    BY <1>3 DEF MailInit
  <2>2. uidNext \in [Folders -> Nat]
    BY <1>1 DEF MailInit
  <2>3. calls \in [Clients -> NoCall \cup SomeCall]
    BY DEF MailInit, NoCall
  <2>4. named \subseteq Folders \X Nat /\ deleted \subseteq Folders \X Nat
    BY DEF MailInit
  <2> QED
    BY <2>1, <2>2, <2>3, <2>4 DEF MailType
<1>6. UidsAreOnce
  <2> SUFFICES ASSUME NEW f \in Folders
               PROVE  /\ \A m \in box[f] : m.uid < uidNext[f]
                      /\ \A m, n \in box[f] : m.uid = n.uid => m = n
    BY DEF UidsAreOnce
  <2>1. \A m \in box[f] : m.uid < uidNext[f]
    BY <1>1, <1>2, <1>3
  <2>2. \A m, n \in box[f] : m.uid = n.uid => m = n
    BY <1>3
  <2> QED
    BY <2>1, <2>2
<1>5. ASSUME NEW c \in Clients PROVE InPlace(calls[c])
  BY DEF MailInit, InPlace
<1> QED
  BY <1>4, <1>5, <1>6 DEF MailBase

\* What leaves the folders and the calls on them alone.
LEMMA FoldersIdle ==
  ASSUME MailBase, UNCHANGED imapVars
  PROVE  MailBase' /\ FoldersGrow
<1>1. UNCHANGED <<box, uidNext, calls, named, gone, deleted>>
  BY DEF imapVars
<1>2. MailType' /\ UidsAreOnce' /\ FoldersGrow
  BY <1>1 DEF MailBase, MailType, UidsAreOnce, FoldersGrow
<1>3. (\A c \in Clients : InPlace(calls[c]))'
  BY <1>1 DEF MailBase
<1> QED
  BY <1>2, <1>3 DEF MailBase

\* The steps, as far as the folders and the calls on them go.
CallStep(c) ==
  \/ Begin(c) \/ Connect(c) \/ Select(c) \/ GetFetch(c)
  \/ Store(c) \/ Expunge(c) \/ MoveSearch(c) \/ Move(c)

LEMMA ImapSteps == [Next]_vars => Arrive \/ (\E c \in Clients : CallStep(c)) \/ UNCHANGED imapVars
<1> SUFFICES ASSUME [Next]_vars PROVE Arrive \/ (\E c \in Clients : CallStep(c)) \/ UNCHANGED imapVars
  OBVIOUS
<1>1. CASE MailCall
  BY <1>1 DEF MailCall, ImapNext, CallStep, ListSelect, ListFetch, imapVars
<1>2. CASE Files \/ UNCHANGED vars
  BY <1>2 DEF Files, vars, mailVars, imapVars
<1>3. CASE Outgoing
  BY <1>3 DEF Outgoing, SmtpNext, SmtpConnect, SmtpRcpt, SmtpData, SmtpQuit, SmtpUnchanged, imapVars
<1> QED
  BY <1>1, <1>2, <1>3 DEF Next

LEMMA MailBaseInductive == MailBase /\ [Next]_vars => MailBase' /\ FoldersGrow
<1> SUFFICES ASSUME MailBase, [Next]_vars PROVE MailBase' /\ FoldersGrow
  OBVIOUS
<1>1. CASE Arrive
  BY <1>1, ArriveStep
<1>2. CASE UNCHANGED imapVars
  BY <1>2, FoldersIdle
<1>3. ASSUME NEW c \in Clients, CallStep(c) PROVE MailBase' /\ FoldersGrow
  BY <1>3, BeginStep, LookingStep, StoreStep, ExpungeStep, SearchStep, MoveStep DEF CallStep
<1> QED
  BY <1>1, <1>2, <1>3, ImapSteps

-----------------------------------------------------------------------------
(* What is expunged was named *)

\* The message a call is about to delete has been named, and is marked between
\* the two commands; under the UID there will be no other.
NamedIn(r) ==
  /\ r.uid < uidNext[r.folder]
  /\ \A m \in box[r.folder] : m.uid = r.uid => m.id \in named /\ (r.at = "expunge" => m.marked)

MarkedAreNamed == \A f \in Folders : \A m \in box[f] : m.marked => m.id \in named

DeletesKnow == \A c \in Clients : calls[c].op = "delete" /\ calls[c].at # "done" => NamedIn(calls[c])

DeletedAreGone == \A d \in deleted : d[2] < uidNext[d[1]] /\ ~Holds(d[1], d[2])

NamedInv == gone \subseteq named /\ MarkedAreNamed /\ DeletesKnow /\ DeletedAreGone

\* A UID below the next one does not come back.
LEMMA HeldBefore ==
  ASSUME MailBase, MailBase', FoldersGrow, NEW f \in Folders, NEW u \in Nat, u < uidNext[f]
  PROVE  u < uidNext'[f] /\ (Holds(f, u)' => Holds(f, u))
<1>1. uidNext[f] \in Nat /\ uidNext'[f] \in Nat /\ uidNext[f] <= uidNext'[f]
  BY DEF MailBase, MailType, FoldersGrow
<1>2. ASSUME Holds(f, u)' PROVE Holds(f, u)
  <2>1. PICK m \in box'[f] : m.uid = u
    BY <1>2 DEF Holds, UidsOf
  <2>2. PICK n \in box[f] : n.uid = u
    BY <2>1 DEF FoldersGrow
  <2> QED
    BY <2>2 DEF Holds, UidsOf
<1> QED
  BY <1>1, <1>2

LEMMA NamedInKept ==
  ASSUME MailBase, MailBase', FoldersGrow, named \subseteq named', NEW r \in SomeCall, NamedIn(r)
  PROVE  NamedIn(r)'
<1>1. r.folder \in Folders /\ r.uid \in Nat
  BY DEF SomeCall
<1>2. uidNext[r.folder] \in Nat /\ uidNext'[r.folder] \in Nat /\ uidNext[r.folder] <= uidNext'[r.folder]
  BY <1>1 DEF MailBase, MailType, FoldersGrow
<1>3. ASSUME NEW m \in box'[r.folder], m.uid = r.uid
      PROVE  m.id \in named' /\ (r.at = "expunge" => m.marked)
  <2>1. PICK n \in box[r.folder] : n.uid = r.uid /\ n.id = m.id /\ (n.marked => m.marked)
    BY <1>1, <1>3 DEF FoldersGrow, NamedIn
  <2> QED
    BY <2>1 DEF NamedIn
<1> QED
  BY <1>1, <1>2, <1>3 DEF NamedIn

LEMMA NamedKept ==
  ASSUME MailBase, MailBase', FoldersGrow, NamedInv, named \subseteq named', gone' \subseteq named', MarkedAreNamed',
         NEW c \in Clients, \A d \in Clients \ {c} : calls'[d] = calls[d],
         (calls[c].op = "delete" /\ calls[c].at # "done" => NamedIn(calls[c]))',
         \A d \in deleted' : d \notin deleted => d[2] < uidNext'[d[1]] /\ ~Holds(d[1], d[2])'
  PROVE  NamedInv'
<1>1. DeletesKnow'
  <2> SUFFICES ASSUME NEW d \in Clients, d # c, calls'[d].op = "delete", calls'[d].at # "done"
               PROVE  NamedIn(calls[d])'
    BY DEF DeletesKnow
  <2>1. PICK r : r = calls[d]
    OBVIOUS
  <2>2. calls'[d] = r
    BY <2>1
  <2>3. r \in SomeCall /\ NamedIn(r)
    BY <2>1, <2>2, CallUnderWay DEF NamedInv, DeletesKnow
  <2>4. NamedIn(r)'
    BY <2>3, NamedInKept
  <2> QED
    BY <2>2, <2>4 DEF NamedIn
<1>2. DeletedAreGone'
  <2> SUFFICES ASSUME NEW d \in deleted' PROVE d[2] < uidNext'[d[1]] /\ ~Holds(d[1], d[2])'
    BY DEF DeletedAreGone
  <2>1. CASE d \in deleted
    <3>1. d[1] \in Folders /\ d[2] \in Nat
      BY <2>1 DEF MailBase, MailType
    <3>2. d[2] < uidNext[d[1]] /\ ~Holds(d[1], d[2])
      BY <2>1 DEF NamedInv, DeletedAreGone
    <3> QED
      BY <3>1, <3>2, HeldBefore
  <2> QED
    BY <2>1
<1> QED
  BY <1>1, <1>2 DEF NamedInv

\* The folders stay as they are, and one call goes on.
LEMMA NamedLooking ==
  ASSUME MailBase, MailBase', FoldersGrow, NamedInv, UNCHANGED <<box, uidNext, named, gone, deleted>>,
         NEW c \in Clients, NEW r \in SomeCall, r = calls[c], r.at # "done",
         NEW q \in SomeCall, calls' = [calls EXCEPT ![c] = q],
         q.op = r.op, q.folder = r.folder, q.uid = r.uid, q.op = "delete" => q.at # "expunge"
  PROVE  NamedInv'
<1>1. MarkedAreNamed'
  BY DEF NamedInv, MarkedAreNamed
<1>2. calls'[c] = q /\ \A d \in Clients \ {c} : calls'[d] = calls[d]
  BY DEF MailBase, MailType
<1>3. ASSUME q.op = "delete" PROVE NamedIn(q)'
  <2>1. NamedIn(r)
    BY <1>3 DEF NamedInv, DeletesKnow
  <2>2. NamedIn(q)
    BY <1>3, <2>1 DEF NamedIn
  <2> QED
    BY <2>2 DEF NamedIn
<1>4. (calls[c].op = "delete" /\ calls[c].at # "done" => NamedIn(calls[c]))'
  BY <1>2, <1>3 DEF NamedIn
<1>5. gone' \subseteq named'
  BY DEF NamedInv
<1> QED
  BY <1>1, <1>2, <1>4, <1>5, NamedKept

LEMMA NamedBegin ==
  ASSUME MailBase, MailBase', FoldersGrow, NamedInv, NEW c \in Clients, Begin(c) PROVE NamedInv'
<1>1. UNCHANGED <<box, uidNext, gone, deleted>>
  BY BeginIs
<1>2. PICK r \in SomeCall : \E m \in box[r.folder] :
              /\ m.uid = r.uid /\ r.at = "connect"
              /\ calls' = [calls EXCEPT ![c] = r]
              /\ named' = IF r.op = "delete" THEN named \cup {m.id} ELSE named
  BY BeginIs
<1>3. PICK m \in box[r.folder] :
              /\ m.uid = r.uid
              /\ calls' = [calls EXCEPT ![c] = r]
              /\ named' = IF r.op = "delete" THEN named \cup {m.id} ELSE named
  BY <1>2
<1>4. r.folder \in Folders
  BY DEF SomeCall
<1>5. ASSUME r.op = "delete" PROVE NamedIn(r)'
  <2>1. r.uid < uidNext[r.folder] /\ \A n \in box[r.folder] : n.uid = r.uid => n = m
    BY <1>3, <1>4 DEF MailBase, UidsAreOnce
  <2> QED
    BY <1>1, <1>2, <1>3, <1>5, <2>1 DEF NamedIn
<1>6. named \subseteq named'
  BY <1>3
<1>7. MarkedAreNamed' /\ gone' \subseteq named'
  BY <1>1, <1>6 DEF NamedInv, MarkedAreNamed
<1>8. calls'[c] = r /\ \A d \in Clients \ {c} : calls'[d] = calls[d]
  BY <1>3 DEF MailBase, MailType
<1>9. (calls[c].op = "delete" /\ calls[c].at # "done" => NamedIn(calls[c]))'
  BY <1>5, <1>8 DEF NamedIn
<1> QED
  BY <1>1, <1>6, <1>7, <1>8, <1>9, NamedKept

LEMMA NamedStore ==
  ASSUME MailBase, MailBase', FoldersGrow, NamedInv, NEW c \in Clients, Store(c) PROVE NamedInv'
<1>1. PICK r \in SomeCall : r = calls[c] /\ r.at = "store"
  BY CallUnderWay DEF Store
<1>2. UNCHANGED <<uidNext, named, gone, deleted>> /\ r.op = "delete"
  BY <1>1, StoreIs
<1>3. PICK at \in {"expunge", "done"}, a \in {"none", "error"} : calls' = [calls EXCEPT ![c] = With(r, at, a)]
  BY <1>1, StoreIs
<1>4. PICK q : q = With(r, at, a)
  OBVIOUS
<1>5. q.op = "delete" /\ q.at = at /\ q.uid = r.uid /\ q.folder = r.folder /\ r.folder \in Folders
  BY <1>2, <1>4, WithIs DEF SomeCall
<1>6. NamedIn(r)
  BY <1>1, <1>2 DEF NamedInv, DeletesKnow
<1>7. \A f \in Folders : f # r.folder => box'[f] = box[f]
  BY <1>1, StoreIs
<1>8. ASSUME NEW k \in box'[r.folder]
      PROVE  \E n \in box[r.folder] :
               n.uid = k.uid /\ n.id = k.id /\ (k.uid = r.uid => k.marked) /\ (k.uid # r.uid => k.marked = n.marked)
  <2>1. PICK S \in SUBSET Message : S = box[r.folder]
    BY <1>5 DEF MailBase, MailType
  <2>2. k \in {IF m.uid = r.uid THEN [m EXCEPT !.marked = TRUE] ELSE m : m \in S}
    BY <1>1, <2>1, StoreIs
  <2>3. \E n \in S :
          n.uid = k.uid /\ n.id = k.id /\ (k.uid = r.uid => k.marked) /\ (k.uid # r.uid => k.marked = n.marked)
    BY <2>2, MarkedIs
  <2> QED
    BY <2>1, <2>3
<1>9. MarkedAreNamed'
  <2> SUFFICES ASSUME NEW f \in Folders, NEW k \in box'[f], k.marked PROVE k.id \in named
    BY <1>2 DEF MarkedAreNamed
  <2>1. CASE f # r.folder
    BY <1>7, <2>1 DEF NamedInv, MarkedAreNamed
  <2>2. CASE f = r.folder
    <3>1. PICK n \in box[r.folder] : n.uid = k.uid /\ n.id = k.id /\ (k.uid # r.uid => k.marked = n.marked)
      BY <1>8, <2>2
    <3> QED
      BY <1>5, <1>6, <3>1 DEF NamedInv, MarkedAreNamed, NamedIn
  <2> QED
    BY <2>1, <2>2
<1>10. NamedIn(q)'
  <2>1. \A k \in box'[q.folder] : k.uid = q.uid => k.id \in named' /\ k.marked
    BY <1>2, <1>5, <1>6, <1>8 DEF NamedIn
  <2>2. q.uid < uidNext'[q.folder]
    BY <1>2, <1>5, <1>6 DEF NamedIn
  <2> QED
    BY <2>1, <2>2 DEF NamedIn
<1>11. calls'[c] = q /\ \A d \in Clients \ {c} : calls'[d] = calls[d]
  BY <1>3, <1>4 DEF MailBase, MailType
<1>12. (calls[c].op = "delete" /\ calls[c].at # "done" => NamedIn(calls[c]))'
  BY <1>10, <1>11 DEF NamedIn
<1>13. gone' \subseteq named' /\ named \subseteq named'
  BY <1>2 DEF NamedInv
<1> QED
  BY <1>2, <1>9, <1>11, <1>12, <1>13, NamedKept

LEMMA NamedExpunge ==
  ASSUME MailBase, MailBase', FoldersGrow, NamedInv, NEW c \in Clients, Expunge(c) PROVE NamedInv'
<1>1. PICK r \in SomeCall : r = calls[c] /\ r.at = "expunge"
  BY CallUnderWay DEF Expunge
<1>2. UNCHANGED <<uidNext, named>> /\ r.op = "delete"
  BY <1>1, ExpungeIs
<1>3. PICK a \in {"ok", "error"} :
        /\ calls' = [calls EXCEPT ![c] = With(r, "done", a)]
        /\ \/ /\ box' = [box EXCEPT ![r.folder] = box[r.folder] \ Expunged(r.folder)]
              /\ gone' = gone \cup {m.id : m \in Expunged(r.folder)}
              /\ deleted' = IF a = "ok" THEN deleted \cup {<<r.folder, r.uid>>} ELSE deleted
           \/ a = "error" /\ UNCHANGED <<box, gone, deleted>>
  BY <1>1, ExpungeIs
<1>4. r.folder \in Folders /\ r.uid \in Nat
  BY DEF SomeCall
<1>5. NamedIn(r)
  BY <1>1, <1>2 DEF NamedInv, DeletesKnow
<1>6. calls'[c] = With(r, "done", a) /\ \A d \in Clients \ {c} : calls'[d] = calls[d]
  BY <1>3 DEF MailBase, MailType
<1>7. calls'[c].at = "done"
  BY <1>6, WithIs
<1>8. MarkedAreNamed'
  <2>1. \A f \in Folders : box'[f] \subseteq box[f]
    BY <1>3 DEF MailBase, MailType
  <2> QED
    BY <1>2, <2>1 DEF NamedInv, MarkedAreNamed
<1>9. gone' \subseteq named'
  <2>1. \A m \in Expunged(r.folder) : m.id \in named
    BY <1>4 DEF Expunged, NamedInv, MarkedAreNamed
  <2> QED
    BY <1>2, <1>3, <2>1 DEF NamedInv
<1>10. ASSUME NEW d \in deleted', d \notin deleted
       PROVE  d[2] < uidNext'[d[1]] /\ ~Holds(d[1], d[2])'
  <2>1. d = <<r.folder, r.uid>> /\ box' = [box EXCEPT ![r.folder] = box[r.folder] \ Expunged(r.folder)]
    BY <1>3, <1>10
  <2>2. r.uid < uidNext'[r.folder]
    BY <1>2, <1>5 DEF NamedIn
  <2>3. ASSUME NEW m \in box'[r.folder] PROVE m.uid # r.uid
    <3>1. m \in box[r.folder] /\ m \notin Expunged(r.folder)
      BY <1>4, <2>1 DEF MailBase, MailType
    <3> QED
      BY <1>1, <1>5, <3>1 DEF NamedIn, Expunged
  <2>4. ~Holds(r.folder, r.uid)'
    BY <2>3 DEF Holds, UidsOf
  <2> QED
    BY <2>1, <2>2, <2>4
<1>11. (calls[c].op = "delete" /\ calls[c].at # "done" => NamedIn(calls[c]))'
  BY <1>7
<1>12. named \subseteq named'
  BY <1>2
<1> QED
  BY <1>6, <1>8, <1>9, <1>10, <1>11, <1>12, NamedKept

LEMMA NamedMove ==
  ASSUME MailBase, MailBase', FoldersGrow, NamedInv, NEW c \in Clients, Move(c) PROVE NamedInv'
<1>1. PICK r \in SomeCall : r = calls[c]
  BY CallUnderWay DEF Move
<1>2. UNCHANGED <<named, gone, deleted>>
  BY <1>1, MoveIs
<1>3. PICK a \in {"ok", "error"} : calls' = [calls EXCEPT ![c] = With(r, "done", a)]
  BY <1>1, MoveIs
<1>4. calls'[c] = With(r, "done", a) /\ \A d \in Clients \ {c} : calls'[d] = calls[d]
  BY <1>3 DEF MailBase, MailType
<1>5. calls'[c].at = "done"
  BY <1>4, WithIs
<1>6. MarkedAreNamed'
  <2>1. CASE UNCHANGED <<box, uidNext>>
    BY <1>2, <2>1 DEF NamedInv, MarkedAreNamed
  <2>2. ASSUME NEW f \in Folders, NEW m \in box[f], NEW new, new.id = m.id, new.marked = m.marked,
               \A g \in Folders :
                 box'[g] = (IF g = f THEN box[g] \ {m} ELSE box[g]) \cup (IF g = r.to THEN {new} ELSE {})
        PROVE  MarkedAreNamed'
    <3>1. ASSUME NEW g \in Folders, NEW k \in box'[g] PROVE k \in box[g] \/ k = new
      BY <2>2
    <3>2. m.marked => m.id \in named
      BY DEF NamedInv, MarkedAreNamed
    <3> QED
      BY <1>2, <2>2, <3>1, <3>2 DEF NamedInv, MarkedAreNamed
  <2> QED
    BY <1>1, <2>1, <2>2, MoveIs
<1>7. (calls[c].op = "delete" /\ calls[c].at # "done" => NamedIn(calls[c]))'
  BY <1>5
<1>8. gone' \subseteq named' /\ named \subseteq named'
  BY <1>2 DEF NamedInv
<1> QED
  BY <1>2, <1>4, <1>6, <1>7, <1>8, NamedKept

LEMMA NamedArrive ==
  ASSUME MailBase, MailBase', FoldersGrow, NamedInv, Arrive PROVE NamedInv'
<1>1. UNCHANGED <<calls, named, gone, deleted>>
  BY DEF Arrive
<1>2. \A f \in Folders : \A k \in box'[f] : k \in box[f] \/ ~k.marked
  BY FoldersAre DEF Arrive, MailBase, MailType, NewMessage
<1>3. MarkedAreNamed'
  BY <1>1, <1>2 DEF NamedInv, MarkedAreNamed
<1>4. gone' \subseteq named' /\ named \subseteq named'
  BY <1>1 DEF NamedInv
<1>5. ASSUME NEW d \in Clients, calls[d].op = "delete", calls[d].at # "done" PROVE NamedIn(calls[d])'
  <2>1. PICK r \in SomeCall : r = calls[d] /\ NamedIn(r)
    BY <1>5, CallUnderWay DEF NamedInv, DeletesKnow
  <2>2. NamedIn(r)'
    BY <1>4, <2>1, NamedInKept
  <2> QED
    BY <1>1, <2>1, <2>2 DEF NamedIn
<1>6. DeletesKnow'
  BY <1>1, <1>5 DEF DeletesKnow
<1>7. ASSUME NEW d \in deleted PROVE d[2] < uidNext'[d[1]] /\ ~Holds(d[1], d[2])'
  <2>1. d[1] \in Folders /\ d[2] \in Nat
    BY DEF MailBase, MailType
  <2>2. d[2] < uidNext[d[1]] /\ ~Holds(d[1], d[2])
    BY DEF NamedInv, DeletedAreGone
  <2> QED
    BY <2>1, <2>2, HeldBefore
<1>8. DeletedAreGone'
  BY <1>1, <1>7 DEF DeletedAreGone
<1> QED
  BY <1>3, <1>4, <1>6, <1>8 DEF NamedInv

LEMMA NamedLooks ==
  ASSUME MailBase, MailBase', FoldersGrow, NamedInv, NEW c \in Clients,
         Connect(c) \/ Select(c) \/ GetFetch(c) \/ MoveSearch(c)
  PROVE  NamedInv'
<1>1. PICK r \in SomeCall : r = calls[c] /\ r.at # "done"
  BY CallUnderWay DEF Connect, Select, GetFetch, MoveSearch
<1>2. CASE MoveSearch(c)
  <2>1. UNCHANGED <<box, uidNext, named, gone, deleted>> /\ r.op = "move"
    BY <1>1, <1>2, SearchIs
  <2>2. PICK q \in SomeCall : q.op = r.op /\ q.uid = r.uid /\ q.folder = r.folder /\ calls' = [calls EXCEPT ![c] = q]
    BY <1>1, <1>2, SearchIs
  <2> QED
    BY <1>1, <2>1, <2>2, NamedLooking
<1>3. CASE Connect(c) \/ Select(c) \/ GetFetch(c)
  <2>1. UNCHANGED <<box, uidNext, named, gone, deleted>>
    BY <1>1, <1>3, LookingIs
  <2>2. PICK at \in {"select", "fetch", "store", "done"}, a \in {"none", "found", "notFound", "error"} :
          calls' = [calls EXCEPT ![c] = With(r, at, a)]
    BY <1>1, <1>3, LookingIs
  <2>3. PICK q \in SomeCall : q = With(r, at, a)
    BY WithIs
  <2>4. q.op = r.op /\ q.uid = r.uid /\ q.folder = r.folder /\ q.at # "expunge"
    BY <2>3, WithIs
  <2> QED
    BY <1>1, <2>1, <2>2, <2>3, <2>4, NamedLooking
<1> QED
  BY <1>2, <1>3

LEMMA NamedIdle ==
  ASSUME NamedInv, UNCHANGED imapVars PROVE NamedInv'
<1>1. UNCHANGED <<box, uidNext, calls, named, gone, deleted>>
  BY DEF imapVars
<1> QED
  BY <1>1 DEF NamedInv, MarkedAreNamed, DeletesKnow, DeletedAreGone, NamedIn, Holds, UidsOf

LEMMA NamedInvInitially == Init => NamedInv
<1> SUFFICES ASSUME MailInit PROVE NamedInv
  BY DEF Init
<1>1. MarkedAreNamed
  BY DEF MailInit, MarkedAreNamed, NewMessage
<1>2. gone = {} /\ deleted = {} /\ \A c \in Clients : calls[c].at = "done"
  BY DEF MailInit
<1> QED
  BY <1>1, <1>2 DEF NamedInv, DeletesKnow, DeletedAreGone

LEMMA NamedInvInductive == MailBase /\ NamedInv /\ [Next]_vars => NamedInv'
<1> SUFFICES ASSUME MailBase, NamedInv, [Next]_vars PROVE NamedInv'
  OBVIOUS
<1>0. MailBase' /\ FoldersGrow
  BY MailBaseInductive
<1>1. CASE Arrive
  BY <1>0, <1>1, NamedArrive
<1>2. CASE UNCHANGED imapVars
  BY <1>2, NamedIdle
<1>3. ASSUME NEW c \in Clients, CallStep(c) PROVE NamedInv'
  BY <1>0, <1>3, NamedBegin, NamedLooks, NamedStore, NamedExpunge, NamedMove DEF CallStep
<1> QED
  BY <1>1, <1>2, <1>3, ImapSteps

\* Whatever fails between marking and expunging, and though EXPUNGE takes what
\* others have marked, only messages some call named are expunged, and what is
\* answered as deleted is gone (email/email.go:433-444).
THEOREM OnlyNamedAreDeleted == Spec => []DeletesWhatWasNamed
<1>1. MailBase /\ NamedInv => DeletesWhatWasNamed
  BY DEF NamedInv, DeletedAreGone, DeletesWhatWasNamed
<1> QED
  BY <1>1, MailBaseInitially, MailBaseInductive, NamedInvInitially, NamedInvInductive, PTL DEF Spec

-----------------------------------------------------------------------------
(* What is not found was not there *)

\* A folder in which a call could have found its message, and where it has not
\* looked in vain, was passed over.
Sought(r) ==
  r.op # "none" =>
    /\ \A g \in r.there : r.uid < uidNext[g]
    /\ r.op # "move" => r.there = {r.folder}
    /\ r.answer = "notFound" /\ r.op = "get" => ~Holds(r.folder, r.uid)
    /\ r.op = "move" =>
         \A i \in 1 .. r.turn - 1 :
           FolderList[i] \in r.there /\ Holds(FolderList[i], r.uid) => FolderList[i] \in r.skipped

SoughtInv == \A c \in Clients : Sought(calls[c])

LEMMA SoughtKept ==
  ASSUME MailBase, MailBase', FoldersGrow, NEW r \in NoCall \cup SomeCall, Sought(r)
  PROVE  Sought(r)'
<1> SUFFICES ASSUME r \in SomeCall PROVE Sought(r)'
  BY DEF Sought, NoCall
<1>1. ASSUME NEW g \in r.there PROVE g \in Folders /\ r.uid < uidNext'[g] /\ (Holds(g, r.uid)' => Holds(g, r.uid))
  <2>1. g \in Folders /\ r.uid \in Nat /\ r.uid < uidNext[g]
    BY DEF SomeCall, Sought
  <2> QED
    BY <2>1, HeldBefore
<1>2. r.op # "none" /\ (r.op # "move" => r.folder \in r.there)
  BY DEF SomeCall, Sought
<1> QED
  BY <1>1, <1>2 DEF Sought

\* One call goes on, the others have what they had.
LEMMA SoughtOthers ==
  ASSUME MailBase, MailBase', FoldersGrow, SoughtInv,
         NEW c \in Clients, NEW q \in SomeCall, calls' = [calls EXCEPT ![c] = q], Sought(q)'
  PROVE  SoughtInv'
<1> SUFFICES ASSUME NEW d \in Clients PROVE Sought(calls[d])'
  BY DEF SoughtInv
<1>1. CASE d = c
  <2>1. calls'[d] = q
    BY <1>1 DEF MailBase, MailType
  <2> QED
    BY <2>1 DEF Sought
<1>2. CASE d # c
  <2>1. PICK r \in NoCall \cup SomeCall : r = calls[d] /\ calls'[d] = r
    BY <1>2 DEF MailBase, MailType
  <2>2. Sought(r)'
    BY <2>1, SoughtKept DEF SoughtInv
  <2> QED
    BY <2>1, <2>2 DEF Sought
<1> QED
  BY <1>1, <1>2

\* A call that goes on with the same request, and has not found out more.
LEMMA SoughtWith ==
  ASSUME MailBase, MailBase', FoldersGrow, SoughtInv,
         NEW c \in Clients, NEW r \in SomeCall, r = calls[c],
         NEW at \in {"select", "fetch", "store", "expunge", "done"}, NEW a \in {"none", "ok", "found", "notFound", "error"},
         calls' = [calls EXCEPT ![c] = With(r, at, a)], a = "notFound" => r.op = "get" /\ ~Holds(r.folder, r.uid)
  PROVE  SoughtInv'
<1>1. PICK q \in SomeCall : q = With(r, at, a)
  BY WithIs
<1>2. /\ q.op = r.op /\ q.answer = a /\ q.folder = r.folder /\ q.uid = r.uid
      /\ q.turn = r.turn /\ q.skipped = r.skipped /\ q.there = r.there
  BY <1>1, WithIs
<1>3. Sought(r)
  BY DEF SoughtInv
<1>4. Sought(q)
  BY <1>2, <1>3 DEF Sought
<1>5. Sought(q)'
  BY <1>4, SoughtKept
<1> QED
  BY <1>1, <1>5, SoughtOthers

LEMMA SoughtBegin ==
  ASSUME MailBase, MailBase', FoldersGrow, SoughtInv, NEW c \in Clients, Begin(c) PROVE SoughtInv'
<1>1. PICK r \in SomeCall : \E m \in box[r.folder] :
              /\ m.uid = r.uid /\ r.answer = "none" /\ r.turn = 1
              /\ r.op = "move" => r.there = {g \in Folders : Holds(g, m.uid)}
              /\ r.op # "move" => r.there = {r.folder}
              /\ calls' = [calls EXCEPT ![c] = r]
  BY BeginIs
<1>2. PICK m \in box[r.folder] :
              /\ m.uid = r.uid
              /\ r.op = "move" => r.there = {g \in Folders : Holds(g, m.uid)}
              /\ r.op # "move" => r.there = {r.folder}
              /\ calls' = [calls EXCEPT ![c] = r]
  BY <1>1
<1>3. \A g \in Folders : Holds(g, m.uid) => m.uid < uidNext[g]
  BY DEF Holds, UidsOf, MailBase, UidsAreOnce
<1>4. r.folder \in Folders /\ Holds(r.folder, m.uid)
  BY DEF SomeCall, Holds, UidsOf
<1>5. \A g \in r.there : r.uid < uidNext[g]
  BY <1>2, <1>3, <1>4
<1>6. Sought(r)
  BY <1>1, <1>2, <1>5 DEF Sought
<1>7. Sought(r)'
  BY <1>6, SoughtKept
<1> QED
  BY <1>2, <1>7, SoughtOthers

LEMMA SoughtSearch ==
  ASSUME MailBase, MailBase', FoldersGrow, SoughtInv, NEW c \in Clients, MoveSearch(c) PROVE SoughtInv'
<1>1. PICK r \in SomeCall : r = calls[c]
  BY CallUnderWay DEF MoveSearch
<1>2. r.op = "move" /\ r.turn \in Nat \ {0}
  BY <1>1, SearchIs DEF SomeCall
<1>3. PICK q \in SomeCall :
              /\ q.op = r.op /\ q.uid = r.uid /\ q.there = r.there /\ q.folder = r.folder
              /\ calls' = [calls EXCEPT ![c] = q]
              /\ \/ /\ q.turn = r.turn /\ q.skipped = r.skipped
                 \/ /\ q.turn = r.turn + 1
                    /\ r.skipped \subseteq q.skipped
                    /\ FolderList[r.turn] \in q.skipped \/ ~Holds(FolderList[r.turn], r.uid)
  BY <1>1, SearchIs
<1>4. Sought(r)
  BY <1>1 DEF SoughtInv
<1>5. ASSUME NEW i \in 1 .. q.turn - 1, FolderList[i] \in r.there, Holds(FolderList[i], r.uid)
      PROVE  FolderList[i] \in q.skipped
  <2>1. i \in 1 .. r.turn - 1 \/ (i = r.turn /\ q.turn = r.turn + 1)
    BY <1>2, <1>3
  <2>2. CASE i \in 1 .. r.turn - 1
    BY <1>2, <1>3, <1>4, <1>5, <2>2 DEF Sought
  <2>3. CASE i = r.turn /\ q.turn = r.turn + 1
    BY <1>2, <1>3, <1>5, <2>3
  <2> QED
    BY <2>1, <2>2, <2>3
<1>6. Sought(q)
  BY <1>2, <1>3, <1>4, <1>5 DEF Sought
<1>7. Sought(q)'
  BY <1>6, SoughtKept
<1> QED
  BY <1>3, <1>7, SoughtOthers

LEMMA SoughtCall ==
  ASSUME MailBase, MailBase', FoldersGrow, SoughtInv, NEW c \in Clients, CallStep(c) PROVE SoughtInv'
<1>1. CASE Begin(c) \/ MoveSearch(c)
  BY <1>1, SoughtBegin, SoughtSearch
<1>2. CASE Connect(c) \/ Select(c) \/ GetFetch(c)
  <2>1. PICK r \in SomeCall : r = calls[c]
    BY <1>2, CallUnderWay DEF Connect, Select, GetFetch
  <2>2. PICK at \in {"select", "fetch", "store", "done"}, a \in {"none", "found", "notFound", "error"} :
          /\ a = "notFound" => r.op = "get" /\ ~Holds(r.folder, r.uid)
          /\ calls' = [calls EXCEPT ![c] = With(r, at, a)]
    BY <1>2, <2>1, LookingIs
  <2> QED
    BY <2>1, <2>2, SoughtWith
<1>3. CASE Store(c) \/ Expunge(c) \/ Move(c)
  <2>1. PICK r \in SomeCall : r = calls[c]
    BY <1>3, CallUnderWay DEF Store, Expunge, Move
  <2>2. PICK at \in {"expunge", "done"}, a \in {"none", "ok", "error"} :
          calls' = [calls EXCEPT ![c] = With(r, at, a)]
    BY <1>3, <2>1, StoreIs, ExpungeIs, MoveIs
  <2> QED
    BY <2>1, <2>2, SoughtWith
<1> QED
  BY <1>1, <1>2, <1>3 DEF CallStep

LEMMA SoughtInvInductive == MailBase /\ SoughtInv /\ [Next]_vars => SoughtInv'
<1> SUFFICES ASSUME MailBase, SoughtInv, [Next]_vars PROVE SoughtInv'
  OBVIOUS
<1>0. MailBase' /\ FoldersGrow
  BY MailBaseInductive
<1>1. CASE Arrive \/ UNCHANGED imapVars
  <2>1. UNCHANGED calls
    BY <1>1 DEF Arrive, imapVars
  <2>2. ASSUME NEW c \in Clients PROVE Sought(calls[c])'
    <3>1. PICK r \in NoCall \cup SomeCall : r = calls[c]
      BY DEF MailBase, MailType
    <3>2. Sought(r)'
      BY <1>0, <3>1, SoughtKept DEF SoughtInv
    <3> QED
      BY <2>1, <3>1, <3>2 DEF Sought
  <2> QED
    BY <2>2 DEF SoughtInv
<1>2. ASSUME NEW c \in Clients, CallStep(c) PROVE SoughtInv'
  BY <1>0, <1>2, SoughtCall
<1> QED
  BY <1>1, <1>2, ImapSteps

LEMMA SoughtInvInitially == Init => SoughtInv
  BY DEF Init, MailInit, SoughtInv, Sought

\* A call has looked wherever its message could be before it says that there is
\* none, but for the folders it could not read (email/email.go:324, 470-488).
THEOREM NotFoundIsSo == Spec => []NotFoundIsTrue
<1>1. ASSUME MailBase, SoughtInv PROVE NotFoundIsTrue
  <2> SUFFICES ASSUME NEW c \in Clients, calls[c].at = "done", calls[c].answer = "notFound",
                      NEW f \in calls[c].there, Holds(f, calls[c].uid)
               PROVE  f \in calls[c].skipped
    BY DEF NotFoundIsTrue
  <2>1. PICK r \in SomeCall : r = calls[c]
    BY <1>1 DEF MailBase, MailType, NoCall
  <2>2. Sought(r) /\ InPlace(r) /\ f \in Folders
    BY <1>1, <2>1 DEF SoughtInv, MailBase, SomeCall
  <2>3. r.op = "move" /\ r.turn > Len(FolderList)
    BY <2>1, <2>2 DEF Sought, InPlace
  <2>4. Len(FolderList) \in Nat /\ \E i \in 1 .. Len(FolderList) : f = FolderList[i]
    BY <2>2, FoldersAre
  <2>5. PICK i \in 1 .. Len(FolderList) : f = FolderList[i]
    BY <2>4
  <2>6. i \in 1 .. r.turn - 1
    BY <2>3, <2>4, <2>5 DEF SomeCall
  <2> QED
    BY <2>1, <2>2, <2>3, <2>5, <2>6 DEF Sought
<1> QED
  BY <1>1, MailBaseInitially, MailBaseInductive, SoughtInvInitially, SoughtInvInductive, PTL DEF Spec

-----------------------------------------------------------------------------
(* The pages of a folder *)

\* A set of UIDs.
Uids(v) == v \subseteq Nat /\ IsFiniteSet(v)

LEMMA RankFalls ==
  ASSUME NEW v, Uids(v), NEW u \in v, NEW w \in v, u < w
  PROVE  Rank(v, u) \in Nat /\ Rank(v, w) \in Nat /\ Rank(v, w) < Rank(v, u)
<1> DEFINE From(x) == {y \in v : y >= x}
<1>1. IsFiniteSet(From(u)) /\ From(w) \subseteq From(u) /\ u \in From(u) /\ u \notin From(w)
  <2>1. v \subseteq Nat /\ IsFiniteSet(v) /\ From(u) \in SUBSET v
    BY DEF Uids
  <2>2. IsFiniteSet(From(u))
    <3>1. PICK s \in SUBSET v : s = From(u)
      BY <2>1
    <3>2. IsFiniteSet(s)
      BY <2>1, FS_Subset
    <3> QED
      BY <3>1, <3>2
  <2>3. \A y \in v : y \in Nat
    BY <2>1
  <2>4. From(w) \subseteq From(u)
    BY <2>3
  <2>5. u \in From(u) /\ u \notin From(w)
    BY <2>3
  <2> QED
    BY <2>2, <2>4, <2>5
<1> HIDE DEF From
<1>2. /\ IsFiniteSet(From(w)) /\ Cardinality(From(w)) <= Cardinality(From(u))
      /\ Cardinality(From(w)) # Cardinality(From(u))
  BY <1>1, FS_Subset
<1>3. Cardinality(From(w)) \in Nat /\ Cardinality(From(u)) \in Nat
  BY <1>1, <1>2, FS_CardinalityType
<1>4. Rank(v, u) = Cardinality(From(u)) /\ Rank(v, w) = Cardinality(From(w))
  BY DEF Rank, From
<1> QED
  BY <1>2, <1>3, <1>4

LEMMA RankOnce ==
  ASSUME NEW v, Uids(v), NEW u \in v, NEW w \in v
  PROVE  /\ Rank(v, u) = Rank(v, w) => u = w
         /\ Rank(v, u) <= Rank(v, w) <=> w <= u
<1>1. u \in Nat /\ w \in Nat
  BY DEF Uids
<1>2. CASE u < w
  <2>1. Rank(v, u) \in Nat /\ Rank(v, w) \in Nat /\ Rank(v, w) < Rank(v, u)
    BY <1>2, RankFalls
  <2> QED
    BY <1>1, <1>2, <2>1
<1>3. CASE w < u
  <2>1. Rank(v, u) \in Nat /\ Rank(v, w) \in Nat /\ Rank(v, u) < Rank(v, w)
    BY <1>3, RankFalls
  <2> QED
    BY <1>1, <1>3, <2>1
<1>4. CASE u = w
  <2>1. Rank(v, u) \in Nat
    <3>1. IsFiniteSet({y \in v : y >= u})
      BY FS_Subset DEF Uids
    <3> QED
      BY <3>1, FS_CardinalityType DEF Rank
  <2> QED
    BY <1>1, <1>4, <2>1
<1> QED
  BY <1>1, <1>2, <1>3, <1>4

\* A rank is a number of the set, and counts from the other end.
LEMMA RankIs ==
  ASSUME NEW v, Uids(v), NEW u \in v
  PROVE  /\ Cardinality(v) \in Nat /\ Rank(v, u) \in 1 .. Cardinality(v)
         /\ Number(v, u) = Cardinality(v) + 1 - Rank(v, u)
<1> DEFINE Above == {y \in v : y >= u}
           Below == {y \in v : y <= u}
<1>1. IsFiniteSet(Above) /\ IsFiniteSet(Below) /\ Cardinality(Above) <= Cardinality(v) /\ Cardinality(v) \in Nat
  <2>1. IsFiniteSet(v) /\ Above \in SUBSET v /\ Below \in SUBSET v
    BY DEF Uids
  <2> HIDE DEF Above, Below
  <2> QED
    BY <2>1, FS_Subset, FS_CardinalityType
<1>2. Above \cup Below = v /\ Above \cap Below = {u} /\ u \in Above
  <2>1. \A y \in v : y \in Nat
    BY DEF Uids
  <2>2. ASSUME NEW y \in v PROVE y \in Above \cup Below /\ (y \in Above \cap Below => y = u)
    BY <2>1
  <2>3. u \in Above /\ u \in Below
    BY <2>1
  <2>4. Above \subseteq v /\ Below \subseteq v
    OBVIOUS
  <2> HIDE DEF Above, Below
  <2> QED
    BY <2>2, <2>3, <2>4
<1> HIDE DEF Above, Below
<1>3. Cardinality(v) = Cardinality(Above) + Cardinality(Below) - 1
  <2>1. Cardinality({u}) = 1
    BY FS_Singleton
  <2> QED
    BY <1>1, <1>2, <2>1, FS_Union
<1>4. Cardinality(Above) \in Nat /\ Cardinality(Below) \in Nat /\ Cardinality(Above) # 0
  <2>1. Cardinality(Above) \in Nat /\ Cardinality(Below) \in Nat
    BY <1>1, FS_CardinalityType
  <2>2. Above # {}
    BY <1>2
  <2> QED
    BY <1>1, <2>1, <2>2, FS_EmptySet
<1>5. Rank(v, u) = Cardinality(Above) /\ Number(v, u) = Cardinality(Below)
  BY DEF Rank, Number, Above, Below
<1> QED
  BY <1>1, <1>3, <1>4, <1>5

LEMMA RankOnto ==
  ASSUME NEW v, Uids(v)
  PROVE  \A i \in 1 .. Cardinality(v) : \E u \in v : Rank(v, u) = i
<1>1. PICK n \in Nat : n = Cardinality(v)
  BY FS_CardinalityType DEF Uids
<1>2. PICK f : f = [u \in v |-> Rank(v, u)]
  OBVIOUS
<1>3. f \in [v -> 1 .. n]
  <2>1. \A u \in v : Rank(v, u) \in 1 .. n
    BY <1>1, RankIs
  <2> QED
    BY <1>2, <2>1
<1>4. \A u, w \in v : f[u] = f[w] => u = w
  BY <1>2, RankOnce
<1>5. f \in Injection(v, 1 .. n)
  BY <1>3, <1>4 DEF Injection, IsInjective
<1>6. IsFiniteSet(1 .. n) /\ Cardinality(1 .. n) = n
  BY FS_Interval
<1>7. f \in Surjection(v, 1 .. n)
  BY <1>1, <1>5, <1>6, FS_Injection
<1> QED
  BY <1>1, <1>2, <1>7 DEF Surjection

\* More messages, higher ranks.
LEMMA RankGrows ==
  ASSUME NEW v, NEW w, Uids(w), v \subseteq w, NEW u \in v
  PROVE  Rank(v, u) <= Rank(w, u) /\ Rank(v, u) \in Nat /\ Rank(w, u) \in Nat
<1> DEFINE From(s) == {y \in s : y >= u}
<1>1. IsFiniteSet(From(w)) /\ From(v) \subseteq From(w)
  BY FS_Subset DEF Uids
<1> HIDE DEF From
<1>2. IsFiniteSet(From(v)) /\ Cardinality(From(v)) <= Cardinality(From(w))
  BY <1>1, FS_Subset
<1>3. Cardinality(From(v)) \in Nat /\ Cardinality(From(w)) \in Nat
  BY <1>1, <1>2, FS_CardinalityType
<1> QED
  BY <1>2, <1>3 DEF Rank, From

\* A list of messages of v that has the newest ones first.
InOrder(got, v) ==
  /\ got \in Seq(Nat) /\ Len(got) <= Cardinality(v)
  /\ \A i \in 1 .. Len(got) : got[i] \in v /\ Rank(v, got[i]) = i

LEMMA NewestIs ==
  ASSUME NEW v, Uids(v)
  PROVE  /\ InOrder(NewestFirst(v), v) /\ Len(NewestFirst(v)) = Cardinality(v)
         /\ ToSet(NewestFirst(v)) = v
<1>1. PICK n \in Nat : n = Cardinality(v)
  BY FS_CardinalityType DEF Uids
<1>2. PICK s : s = NewestFirst(v)
  OBVIOUS
<1>3. \A i \in 1 .. n : s[i] \in v /\ Rank(v, s[i]) = i
  <2> SUFFICES ASSUME NEW i \in 1 .. n PROVE s[i] \in v /\ Rank(v, s[i]) = i
    OBVIOUS
  <2>1. s[i] = CHOOSE u \in v : Rank(v, u) = i
    BY <1>1, <1>2 DEF NewestFirst
  <2>2. \E u \in v : Rank(v, u) = i
    BY <1>1, RankOnto
  <2> QED
    BY <2>1, <2>2
<1>4. s \in [1 .. n -> Nat]
  <2>1. \A i \in 1 .. n : s[i] \in Nat
    BY <1>3 DEF Uids
  <2>2. s = [i \in 1 .. n |-> s[i]]
    BY <1>1, <1>2 DEF NewestFirst
  <2> QED
    BY <2>1, <2>2
<1>5. s \in Seq(Nat) /\ Len(s) = n /\ DOMAIN s = 1 .. n
  BY <1>4
<1>6. ToSet(s) = v
  <2>1. ASSUME NEW u \in v PROVE \E i \in 1 .. n : s[i] = u
    <3>1. PICK i \in 1 .. n : i = Rank(v, u)
      BY <1>1, RankIs
    <3>2. s[i] \in v /\ Rank(v, s[i]) = Rank(v, u)
      BY <1>3, <3>1
    <3> QED
      BY <3>2, RankOnce
  <2> QED
    BY <1>3, <1>5, <2>1 DEF ToSet
<1> QED
  BY <1>1, <1>2, <1>3, <1>5, <1>6 DEF InOrder

\* A list in order that has all of them is the list.
LEMMA AllInOrder ==
  ASSUME NEW v, Uids(v), NEW got, InOrder(got, v), Len(got) = Cardinality(v)
  PROVE  got = NewestFirst(v)
<1>1. PICK s : s = NewestFirst(v) /\ InOrder(s, v) /\ Len(s) = Cardinality(v)
  BY NewestIs
<1>2. got \in Seq(Nat) /\ s \in Seq(Nat) /\ Len(got) = Len(s)
  BY <1>1 DEF InOrder
<1>3. ASSUME NEW i \in 1 .. Len(got) PROVE got[i] = s[i]
  <2>1. got[i] \in v /\ s[i] \in v /\ Rank(v, got[i]) = Rank(v, s[i])
    BY <1>1, <1>2 DEF InOrder
  <2> QED
    BY <2>1, RankOnce
<1> QED
  BY <1>1, <1>2, <1>3, SeqEqual

\* The page behind an offset, by ranks.
PageBehind(v, offset) == {u \in v : offset < Rank(v, u) /\ Rank(v, u) <= offset + PageSize}

LEMMA PageIs ==
  ASSUME NEW v, Uids(v), NEW offset \in Nat
  PROVE  /\ {u \in v : Number(v, u) \in PageRange(Cardinality(v), offset, PageSize)} = PageBehind(v, offset)
         /\ PageRange(Cardinality(v), offset, PageSize) = {} <=> offset >= Cardinality(v)
<1>1. PICK n \in Nat : n = Cardinality(v)
  BY FS_CardinalityType DEF Uids
<1>2. PICK size \in Nat \ {0} : size = PageSize
  BY MailboxAssumption
<1>3. PICK end \in Int : end = n - offset
  OBVIOUS
<1>4. PageRange(n, offset, size) =
        IF n = 0 \/ offset >= n THEN {} ELSE (IF end > size THEN end - size + 1 ELSE 1) .. end
  BY <1>2, <1>3 DEF PageRange
<1>5. PageRange(n, offset, size) = {} <=> offset >= n
  BY <1>2, <1>3, <1>4
<1>6. ASSUME NEW r \in 1 .. n
      PROVE  n + 1 - r \in PageRange(n, offset, size) <=> offset < r /\ r <= offset + size
  BY <1>2, <1>3, <1>4
<1>7. \A u \in v : Rank(v, u) \in 1 .. n /\ Number(v, u) = n + 1 - Rank(v, u)
  BY <1>1, RankIs
<1> QED
  BY <1>1, <1>2, <1>5, <1>6, <1>7 DEF PageBehind

\* The messages of the first k ranks are k.
LEMMA TopIs ==
  ASSUME NEW v, Uids(v), NEW k \in Nat, k <= Cardinality(v)
  PROVE  LET top == {u \in v : Rank(v, u) <= k} IN IsFiniteSet(top) /\ Cardinality(top) = k
<1> DEFINE top == {u \in v : Rank(v, u) <= k}
<1>1. PICK n \in Nat : n = Cardinality(v) /\ k <= n
  BY FS_CardinalityType DEF Uids
<1>2. PICK f : f = [u \in top |-> Rank(v, u)]
  OBVIOUS
<1>3. f \in [top -> 1 .. k]
  <2>1. \A u \in top : Rank(v, u) \in 1 .. k
    <3>1. \A u \in v : Rank(v, u) \in 1 .. n
      BY <1>1, RankIs
    <3> QED
      BY <3>1
  <2> QED
    BY <1>2, <2>1
<1>4. \A u, w \in top : f[u] = f[w] => u = w
  BY <1>2, RankOnce
<1>5. \A i \in 1 .. k : \E u \in top : f[u] = i
  <2> SUFFICES ASSUME NEW i \in 1 .. k PROVE \E u \in top : f[u] = i
    OBVIOUS
  <2>1. PICK j \in 1 .. n : j = i
    BY <1>1
  <2>2. PICK u \in v : Rank(v, u) = j
    BY <1>1, RankOnto
  <2>3. u \in top
    BY <2>1, <2>2
  <2> QED
    BY <1>2, <2>1, <2>2, <2>3
<1>6. IsFiniteSet(top)
  BY FS_Subset DEF Uids
<1> HIDE DEF top
<1>7. f \in Bijection(top, 1 .. k)
  BY <1>3, <1>4, <1>5 DEF Bijection, Injection, Surjection, IsInjective
<1>8. Cardinality(1 .. k) = k
  BY FS_Interval
<1>9. Cardinality(1 .. k) = Cardinality(top)
  BY <1>6, <1>7, FS_Bijection DEF ExistsBijection
<1> QED
  BY <1>6, <1>8, <1>9 DEF top

\* A page has no more messages than its size.
LEMMA PageFits ==
  ASSUME NEW v, Uids(v), NEW offset \in Nat
  PROVE  /\ Uids(PageBehind(v, offset))
         /\ Cardinality(PageBehind(v, offset)) \in Nat /\ Cardinality(PageBehind(v, offset)) <= PageSize
<1>1. PICK size \in Nat \ {0} : size = PageSize
  BY MailboxAssumption
<1>2. PICK page : page = PageBehind(v, offset)
  OBVIOUS
<1>3. page \subseteq v /\ \A u \in page : Rank(v, u) \in offset + 1 .. offset + size
  <2>1. \A u \in v : Rank(v, u) \in Nat
    BY RankIs
  <2> QED
    BY <1>1, <1>2, <2>1 DEF PageBehind
<1>4. Uids(page)
  BY <1>3, FS_Subset DEF Uids
<1>5. PICK f : f = [u \in page |-> Rank(v, u)]
  OBVIOUS
<1>6. f \in Injection(page, offset + 1 .. offset + size)
  <2>1. f \in [page -> offset + 1 .. offset + size]
    BY <1>3, <1>5
  <2>2. \A u, w \in page : f[u] = f[w] => u = w
    BY <1>3, <1>5, RankOnce
  <2> QED
    BY <2>1, <2>2 DEF Injection, IsInjective
<1>7. IsFiniteSet(offset + 1 .. offset + size) /\ Cardinality(offset + 1 .. offset + size) = size
  BY FS_Interval
<1>8. Cardinality(page) <= size
  BY <1>6, <1>7, FS_Injection
<1>9. Cardinality(page) \in Nat
  BY <1>4, FS_CardinalityType DEF Uids
<1> QED
  BY <1>1, <1>2, <1>4, <1>8, <1>9

\* On a page behind an offset, the ranks go on from the offset.
LEMMA PageRanks ==
  ASSUME NEW v, Uids(v), NEW offset \in Nat, offset <= Cardinality(v), NEW u \in PageBehind(v, offset)
  PROVE  Rank(v, u) = offset + Rank(PageBehind(v, offset), u)
<1>1. PICK page : page = PageBehind(v, offset)
  OBVIOUS
<1> DEFINE top == {w \in v : Rank(v, w) <= offset}
           above == {w \in page : w >= u}
<1>2. IsFiniteSet(top) /\ Cardinality(top) = offset
  BY TopIs
<1>3. u \in v /\ u \in page /\ \A w \in v : Rank(v, w) \in Nat
  BY <1>1, RankIs DEF PageBehind
<1>4. {w \in v : w >= u} = top \cup above
  <2>1. ASSUME NEW w \in v, w >= u PROVE w \in top \cup above
    <3>1. Rank(v, w) <= Rank(v, u)
      BY <1>3, <2>1, RankOnce DEF Uids
    <3>2. Rank(v, u) <= offset + PageSize /\ Rank(v, w) \in Nat /\ Rank(v, u) \in Nat /\ PageSize \in Nat
      BY <1>1, <1>3, MailboxAssumption DEF PageBehind
    <3> QED
      BY <1>1, <2>1, <3>1, <3>2 DEF PageBehind
  <2>2. ASSUME NEW w \in top PROVE w \in v /\ w >= u
    <3>1. Rank(v, w) <= Rank(v, u)
      BY <1>3 DEF PageBehind
    <3> QED
      BY <1>3, <3>1, RankOnce DEF Uids
  <2>3. above \subseteq {w \in v : w >= u}
    BY <1>1 DEF PageBehind
  <2> QED
    BY <2>1, <2>2, <2>3
<1>5. top \cap above = {}
  BY <1>1, <1>3 DEF PageBehind
<1>6. IsFiniteSet(above) /\ Cardinality(above) \in Nat
  <2>1. IsFiniteSet(page)
    BY <1>1, PageFits DEF Uids
  <2> QED
    BY <2>1, FS_Subset, FS_CardinalityType
<1>7. Rank(v, u) = Cardinality(top \cup above) /\ Rank(page, u) = Cardinality(above)
  BY <1>4 DEF Rank
<1> HIDE DEF top, above
<1>8. Cardinality(top \cup above) = offset + Cardinality(above) - 0
  <2>1. Cardinality(top \cap above) = 0
    BY <1>5, FS_EmptySet
  <2>2. Cardinality(top \cup above) = Cardinality(top) + Cardinality(above) - Cardinality(top \cap above)
    BY <1>2, <1>6, FS_Union
  <2> QED
    BY <1>2, <2>1, <2>2
<1> QED
  BY <1>1, <1>6, <1>7, <1>8

\* The list in order goes on in order with the page behind it.
LEMMA GoesOnInOrder ==
  ASSUME NEW v, Uids(v), NEW got, InOrder(got, v)
  PROVE  InOrder(got \o NewestFirst(PageBehind(v, Len(got))), v)
<1>1. PICK o \in Nat : o = Len(got) /\ o <= Cardinality(v) /\ got \in Seq(Nat)
  BY DEF InOrder
<1>2. PICK page : page = PageBehind(v, o) /\ Uids(page) /\ page \subseteq v
  <2>1. Uids(PageBehind(v, o))
    BY PageFits
  <2>2. PageBehind(v, o) \subseteq v
    BY DEF PageBehind
  <2> QED
    BY <2>1, <2>2
<1>3. PICK s \in Seq(Nat) : s = NewestFirst(page) /\ InOrder(s, page) /\ Len(s) = Cardinality(page)
  <2>1. InOrder(NewestFirst(page), page) /\ Len(NewestFirst(page)) = Cardinality(page)
    BY <1>2, NewestIs
  <2>2. NewestFirst(page) \in Seq(Nat)
    BY <2>1 DEF InOrder
  <2> QED
    BY <2>1, <2>2
<1>4. PICK all \in Seq(Nat) : all = got \o s
  BY <1>1, <1>3, ConcatProperties
<1>5. PICK p \in Nat : p = Len(s)
  BY <1>3
<1>6. /\ Len(all) = o + p
      /\ \A i \in 1 .. o : all[i] = got[i]
      /\ \A i \in o + 1 .. o + p : all[i] = s[i - o]
  BY <1>1, <1>3, <1>4, <1>5, ConcatProperties
<1>7. ASSUME NEW i \in 1 .. o + p PROVE all[i] \in v /\ Rank(v, all[i]) = i
  <2>1. CASE i \in 1 .. o
    BY <1>1, <1>6, <2>1 DEF InOrder
  <2>2. CASE i \in o + 1 .. o + p
    <3>1. PICK j \in 1 .. p : j = i - o /\ i = o + j
      BY <2>2
    <3>2. s[j] \in page /\ Rank(page, s[j]) = j
      BY <1>3, <1>5 DEF InOrder
    <3>3. Rank(v, s[j]) = o + Rank(page, s[j])
      BY <1>1, <1>2, <3>2, PageRanks
    <3> QED
      BY <1>2, <1>6, <2>2, <3>1, <3>2, <3>3
  <2> QED
    BY <2>1, <2>2
<1>8. o + p <= Cardinality(v)
  <2>1. CASE p = 0
    BY <1>1, <2>1
  <2>2. CASE p # 0
    <3>1. o + p \in 1 .. o + p
      BY <2>2
    <3>2. PICK r \in Nat, n \in Nat : r = Rank(v, all[o + p]) /\ n = Cardinality(v) /\ r <= n
      BY <1>7, <3>1, RankIs, SMTT(30)
    <3> QED
      BY <1>7, <3>1, <3>2
  <2> QED
    BY <2>1, <2>2
<1>9. InOrder(all, v)
  BY <1>6, <1>7, <1>8 DEF InOrder
<1> QED
  BY <1>1, <1>2, <1>3, <1>4, <1>9

\* The client that lists, in a folder with the UIDs w of which the next is n.
\* Nothing that was there, and nothing that has come, has left the folder.
Stayed(l, w, n) == l.first \cup (l.next .. n - 1) \subseteq w

\* Of the first messages, the client has those among the newest of v that it
\* has counted.
Have(l, v) == \A u \in l.first : Rank(v, u) <= Len(l.got) => u \in ToSet(l.got)

Listings ==
  [at : {"start", "selected", "paging", "done"}, got : Seq(Nat), first : SUBSET Nat, next : Nat, view : SUBSET Nat]

\* The first messages are those of the folder below the next UID it then had.
FirstAre(l, w, n) ==
  /\ l.next <= n
  /\ \A u \in w : u < l.next => u \in l.first
  /\ \A u \in l.first : u < l.next
  /\ \A u \in l.view : u < n

\* How far the client is.
Pages(l, w) ==
  /\ l.at = "selected" => l.first \subseteq l.view /\ l.view \subseteq w /\ Have(l, l.view)
  /\ l.at = "paging" => Have(l, w)
  /\ l.at = "done" => l.first \subseteq ToSet(l.got)

\* And how far if no message has come.
PagesInOrder(l, n) ==
  n = l.next =>
    /\ InOrder(l.got, l.first)
    /\ l.at = "done" => Len(l.got) = Cardinality(l.first)

Paging(l, w, n) ==
  /\ l \in Listings
  /\ l.at = "start" => l.got = <<>>
  /\ l.at # "start" => FirstAre(l, w, n)
  /\ l.at # "start" /\ Stayed(l, w, n) => Pages(l, w) /\ PagesInOrder(l, n)

PagingInv == Paging(list, UidsOf(Inbox), uidNext[Inbox])

\* A folder with the UIDs w of which the next is n.
IsFolder(w, n) == n \in Nat /\ Uids(w) /\ \A u \in w : u < n

LEMMA FolderIs ==
  ASSUME NEW b \in SUBSET Message, NEW n \in Nat, \A m \in b : m.uid < n
  PROVE  IsFolder({m.uid : m \in b}, n)
<1>1. PICK w : w = {m.uid : m \in b}
  OBVIOUS
<1>2. \A u \in w : u \in Nat /\ u < n
  BY <1>1 DEF Message
<1>3. IsFiniteSet(0 .. n)
  BY FS_Interval
<1>4. w \in SUBSET (0 .. n)
  BY <1>2
<1>5. IsFiniteSet(w)
  BY <1>3, <1>4, FS_Subset
<1> QED
  BY <1>1, <1>2, <1>5 DEF IsFolder, Uids

\* While the client does nothing, the next UID grows and older ones only go.
LEMMA PagingRests ==
  ASSUME NEW w, NEW x, NEW n, NEW m, IsFolder(w, n), IsFolder(x, m), n <= m,
         \A u \in x : u < n => u \in w, NEW l, Paging(l, w, n)
  PROVE  Paging(l, x, m)
<1>1. n \in Nat /\ m \in Nat /\ l \in Listings /\ l.next \in Nat /\ l.first \subseteq Nat /\ l.view \subseteq Nat
  BY DEF IsFolder, Paging, Listings
<1>2. w \subseteq Nat /\ x \subseteq Nat
  BY DEF IsFolder, Uids
<1>3. ASSUME l.at # "start" PROVE FirstAre(l, x, m)
  <2>1. FirstAre(l, w, n)
    BY <1>3 DEF Paging
  <2>2. l.next <= m /\ \A u \in l.view : u < m
    BY <1>1, <2>1 DEF FirstAre
  <2>3. \A u \in x : u < l.next => u \in l.first
    BY <1>1, <1>2, <2>1 DEF FirstAre
  <2> QED
    BY <2>1, <2>2, <2>3 DEF FirstAre
<1>4. ASSUME l.at # "start", Stayed(l, x, m) PROVE Pages(l, x) /\ PagesInOrder(l, m)
  <2>1. FirstAre(l, w, n)
    BY <1>4 DEF Paging
  <2>2. l.first \subseteq x /\ \A u \in Nat : l.next <= u /\ u < m => u \in x
    BY <1>1, <1>4 DEF Stayed
  <2>3. l.first \subseteq w
    BY <1>1, <2>1, <2>2 DEF FirstAre
  <2>4. \A u \in Nat : l.next <= u /\ u < n => u \in w
    BY <1>1, <2>2
  <2>5. Pages(l, w) /\ PagesInOrder(l, n)
    BY <1>1, <1>4, <2>3, <2>4 DEF Paging, Stayed
  <2>6. w \subseteq x
    <3> SUFFICES ASSUME NEW u \in w PROVE u \in x
      OBVIOUS
    <3>1. u \in Nat /\ u < n
      BY DEF IsFolder, Uids
    <3> QED
      BY <1>1, <2>1, <2>2, <3>1 DEF FirstAre
  <2>7. Have(l, w) => Have(l, x)
    <3> SUFFICES ASSUME Have(l, w), NEW u \in l.first, Rank(x, u) <= Len(l.got) PROVE u \in ToSet(l.got)
      BY DEF Have
    <3>1. Rank(w, u) <= Rank(x, u) /\ Rank(w, u) \in Nat /\ Rank(x, u) \in Nat
      BY <2>3, <2>6, RankGrows DEF IsFolder
    <3>2. Len(l.got) \in Nat
      BY <1>1, LenProperties DEF Listings
    <3>3. Rank(w, u) <= Len(l.got)
      BY <3>1, <3>2
    <3> QED
      BY <3>3 DEF Have
  <2>8. Pages(l, x)
    BY <2>5, <2>6, <2>7 DEF Pages
  <2>9. m = l.next => n = l.next
    BY <1>1, <2>1 DEF FirstAre
  <2> QED
    BY <2>5, <2>8, <2>9 DEF PagesInOrder
<1> QED
  BY <1>1, <1>3, <1>4 DEF Paging

LEMMA NoneInOrder ==
  ASSUME NEW v, Uids(v)
  PROVE  InOrder(<<>>, v)
<1>1. Cardinality(v) \in Nat
  BY FS_CardinalityType DEF Uids
<1> QED
  BY <1>1 DEF InOrder

\* SELECT, the first time.
LEMMA PagingBegins ==
  ASSUME NEW w, NEW n, IsFolder(w, n), NEW l, NEW k, Paging(l, w, n), l.at = "start",
         k = [l EXCEPT !.at = "selected", !.view = w, !.first = w, !.next = n]
  PROVE  Paging(k, w, n)
<1>1. n \in Nat /\ Uids(w) /\ w \subseteq Nat /\ \A u \in w : u < n
  BY DEF IsFolder, Uids
<1>2. l \in Listings /\ l.got = <<>>
  BY DEF Paging
<1>3. k \in Listings
  BY <1>1, <1>2 DEF Listings
<1>4. k.at = "selected" /\ k.got = <<>> /\ k.first = w /\ k.next = n /\ k.view = w
  BY <1>2 DEF Listings
<1>5. FirstAre(k, w, n)
  BY <1>1, <1>4 DEF FirstAre
<1>6. Have(k, w)
  <2>1. \A u \in w : Rank(w, u) \in 1 .. Cardinality(w) /\ Cardinality(w) \in Nat
    BY <1>1, RankIs
  <2>2. Len(<<>>) = 0
    OBVIOUS
  <2>3. \A u \in w : ~(Rank(w, u) <= 0)
    BY <2>1
  <2> QED
    BY <1>4, <2>2, <2>3 DEF Have
<1>7. Pages(k, w)
  BY <1>4, <1>6 DEF Pages
<1>8. PagesInOrder(k, n)
  BY <1>1, <1>4, NoneInOrder DEF PagesInOrder
<1> QED
  BY <1>3, <1>4, <1>5, <1>7, <1>8 DEF Paging

\* SELECT, for another page.
LEMMA PagingSelects ==
  ASSUME NEW w, NEW n, IsFolder(w, n), NEW l, NEW k, Paging(l, w, n), l.at = "paging",
         k = [l EXCEPT !.at = "selected", !.view = w]
  PROVE  Paging(k, w, n)
<1>1. n \in Nat /\ w \subseteq Nat /\ \A u \in w : u < n
  BY DEF IsFolder, Uids
<1>2. l \in Listings /\ FirstAre(l, w, n)
  BY DEF Paging
<1>3. k \in Listings
  BY <1>1, <1>2 DEF Listings
<1>4. k.at = "selected" /\ k.got = l.got /\ k.first = l.first /\ k.next = l.next /\ k.view = w
  BY <1>2 DEF Listings
<1>5. FirstAre(k, w, n)
  BY <1>1, <1>2, <1>4 DEF FirstAre
<1>6. ASSUME Stayed(k, w, n) PROVE Pages(k, w) /\ PagesInOrder(k, n)
  <2>1. Stayed(l, w, n) /\ l.first \subseteq w
    BY <1>4, <1>6 DEF Stayed
  <2>2. Have(l, w) /\ PagesInOrder(l, n)
    BY <2>1 DEF Paging, Pages
  <2>3. Have(k, w)
    BY <1>4, <2>2 DEF Have
  <2> QED
    BY <1>4, <2>1, <2>2, <2>3 DEF Pages, PagesInOrder
<1> QED
  BY <1>3, <1>4, <1>5, <1>6 DEF Paging

\* The page that FETCH returns, in a folder that all have stayed in.
Fetched(l, w) ==
  {u \in l.view : Number(l.view, u) \in PageRange(Cardinality(l.view), Len(l.got), PageSize) /\ u \in w}

LEMMA FetchedIs ==
  ASSUME NEW l \in Listings, NEW w, Uids(w)
  PROVE  /\ Fetched(l, w) \subseteq w /\ Uids(Fetched(l, w))
         /\ Uids(l.view) /\ l.view \subseteq w => Fetched(l, w) = PageBehind(l.view, Len(l.got))
<1>1. Len(l.got) \in Nat
  BY LenProperties DEF Listings
<1>2. Fetched(l, w) \subseteq w
  BY DEF Fetched
<1>3. IsFiniteSet(Fetched(l, w)) /\ w \subseteq Nat
  BY <1>2, FS_Subset DEF Uids
<1>4. ASSUME Uids(l.view), l.view \subseteq w PROVE Fetched(l, w) = PageBehind(l.view, Len(l.got))
  <2>1. Fetched(l, w) = {u \in l.view : Number(l.view, u) \in PageRange(Cardinality(l.view), Len(l.got), PageSize)}
    BY <1>4 DEF Fetched
  <2> QED
    BY <1>1, <1>4, <2>1, PageIs
<1> QED
  BY <1>2, <1>3, <1>4 DEF Uids

LEMMA ConcatHas ==
  ASSUME NEW a \in Seq(Nat), NEW b \in Seq(Nat)
  PROVE  /\ a \o b \in Seq(Nat) /\ Len(a \o b) = Len(a) + Len(b)
         /\ ToSet(a \o b) = ToSet(a) \cup ToSet(b)
<1>1. PICK c \in Seq(Nat) : c = a \o b
  BY ConcatProperties
<1>2. PICK o \in Nat, p \in Nat : o = Len(a) /\ p = Len(b)
  BY LenProperties
<1>3. Len(c) = o + p
  BY <1>1, <1>2, ConcatProperties
<1>4. /\ \A i \in 1 .. o : c[i] = a[i]
      /\ \A i \in o + 1 .. o + p : c[i] = b[i - o]
  BY <1>1, <1>2, ConcatProperties
<1>5. ToSet(c) = {c[i] : i \in 1 .. o + p} /\ ToSet(a) = {a[i] : i \in 1 .. o} /\ ToSet(b) = {b[i] : i \in 1 .. p}
  BY <1>2, <1>3, LenProperties DEF ToSet
<1>6. ASSUME NEW i \in 1 .. o + p PROVE c[i] \in ToSet(a) \cup ToSet(b)
  <2>1. CASE i <= o
    <3>1. PICK j \in 1 .. o : j = i
      BY <1>2, <2>1
    <3> QED
      BY <1>4, <1>5, <3>1
  <2>2. CASE i > o
    <3>1. i \in o + 1 .. o + p
      BY <1>2, <2>2
    <3>2. i - o \in 1 .. p
      BY <1>2, <3>1
    <3>3. PICK j \in 1 .. p : j = i - o
      BY <3>2
    <3>4. c[i] = b[j]
      BY <1>4, <3>1, <3>3
    <3> QED
      BY <1>5, <3>4
  <2> QED
    BY <1>2, <2>1, <2>2
<1>7. ASSUME NEW i \in 1 .. o PROVE a[i] \in ToSet(c)
  <2>1. PICK j \in 1 .. o + p : j = i
    BY <1>2
  <2>2. a[i] = c[j]
    BY <1>4, <2>1
  <2> QED
    BY <1>5, <2>2
<1>8. ASSUME NEW i \in 1 .. p PROVE b[i] \in ToSet(c)
  <2>1. o + i \in o + 1 .. o + p /\ o + i \in 1 .. o + p /\ o + i - o = i
    BY <1>2
  <2>2. PICK k \in 1 .. o + p : k = o + i /\ k \in o + 1 .. o + p /\ k - o = i
    BY <2>1
  <2>3. b[i] = c[k]
    BY <1>4, <2>2
  <2> QED
    BY <1>5, <2>3
<1>9. ToSet(c) \subseteq ToSet(a) \cup ToSet(b)
  BY <1>5, <1>6
<1>10. ToSet(a) \subseteq ToSet(c)
  BY <1>5, <1>7
<1>11. ToSet(b) \subseteq ToSet(c)
  BY <1>5, <1>8
<1> QED
  BY <1>1, <1>2, <1>3, <1>9, <1>10, <1>11

\* What the client has then.
LEMMA GotIs ==
  ASSUME NEW l \in Listings, NEW page, Uids(page), NEW got, got = l.got \o NewestFirst(page)
  PROVE  /\ got \in Seq(Nat) /\ Len(got) = Len(l.got) + Cardinality(page)
         /\ ToSet(got) = ToSet(l.got) \cup page
<1>1. PICK s \in Seq(Nat) : s = NewestFirst(page) /\ Len(s) = Cardinality(page) /\ ToSet(s) = page
  <2>1. NewestFirst(page) \in Seq(Nat)
    BY NewestIs DEF InOrder
  <2> QED
    BY <2>1, NewestIs
<1>2. PICK old \in Seq(Nat) : old = l.got
  BY DEF Listings
<1> QED
  BY <1>1, <1>2, ConcatHas

\* FETCH.
LEMMA PagingFetches ==
  ASSUME NEW w, NEW n, IsFolder(w, n), NEW l, NEW k, Paging(l, w, n), l.at = "selected",
         k = [l EXCEPT !.got = @ \o NewestFirst(Fetched(l, w)), !.view = {},
                !.at = IF PageRange(Cardinality(l.view), Len(l.got), PageSize) = {} THEN "done" ELSE "paging"]
  PROVE  Paging(k, w, n)
<1>1. n \in Nat /\ Uids(w) /\ w \subseteq Nat /\ \A u \in w : u < n
  BY DEF IsFolder, Uids
<1>2. l \in Listings /\ FirstAre(l, w, n)
  BY DEF Paging
<1>3. PICK page : page = Fetched(l, w) /\ Uids(page)
  BY <1>1, <1>2, FetchedIs
<1>4. PICK got \in Seq(Nat) : got = l.got \o NewestFirst(page) /\ Len(got) = Len(l.got) + Cardinality(page)
                              /\ ToSet(got) = ToSet(l.got) \cup page
  BY <1>2, <1>3, GotIs
<1>5. PICK at \in {"paging", "done"} : /\ at = "done" <=> PageRange(Cardinality(l.view), Len(l.got), PageSize) = {}
                                       /\ k = [l EXCEPT !.got = got, !.view = {}, !.at = at]
  BY <1>2, <1>3, <1>4 DEF Listings
<1>6. k \in Listings /\ k.at = at /\ k.got = got /\ k.first = l.first /\ k.next = l.next /\ k.view = {}
  BY <1>2, <1>5 DEF Listings
<1>7. FirstAre(k, w, n)
  BY <1>2, <1>6 DEF FirstAre
<1>8. PICK o \in Nat, p \in Nat : o = Len(l.got) /\ p = Cardinality(page) /\ Len(got) = o + p
  BY <1>2, <1>3, <1>4, LenProperties, FS_CardinalityType DEF Listings, Uids
<1>9. ASSUME Stayed(k, w, n) PROVE Pages(k, w) /\ PagesInOrder(k, n)
  <2>1. Stayed(l, w, n)
    BY <1>6, <1>9 DEF Stayed
  <2>2. PICK v : v = l.view /\ l.first \subseteq v /\ v \subseteq w /\ Have(l, v) /\ PagesInOrder(l, n)
    BY <2>1 DEF Paging, Pages
  <2>3. Uids(v)
    BY <1>1, <2>2, FS_Subset DEF Uids
  <2>4. page = PageBehind(v, o)
    BY <1>1, <1>2, <1>3, <1>8, <2>2, <2>3, FetchedIs
  <2>5. at = "done" <=> o >= Cardinality(v)
    BY <1>5, <1>8, <2>2, <2>3, PageIs
  <2>6. PICK c \in Nat : c = Cardinality(v)
    BY <2>3, FS_CardinalityType DEF Uids
  <2>7. ASSUME at = "done" PROVE l.first \subseteq ToSet(got)
    <3> SUFFICES ASSUME NEW u \in l.first PROVE u \in ToSet(got)
      OBVIOUS
    <3>1. Rank(v, u) \in 1 .. c
      BY <2>2, <2>3, <2>6, RankIs
    <3>2. Rank(v, u) <= o
      BY <2>5, <2>6, <2>7, <3>1
    <3> QED
      BY <1>4, <1>8, <2>2, <3>2 DEF Have
  <2>8. ASSUME at = "paging" PROVE Have(k, w)
    <3> SUFFICES ASSUME NEW u \in l.first, Rank(w, u) <= o + p PROVE u \in ToSet(got)
      BY <1>6, <1>8 DEF Have
    <3>1. PICK r \in Nat, t \in Nat : r = Rank(v, u) /\ t = Rank(w, u) /\ r <= t
      BY <1>1, <2>2, RankGrows
    <3>2. r <= o + p
      BY <3>1
    <3>3. PICK size \in Nat : size = PageSize /\ p <= size
      BY <1>8, <2>3, <2>4, PageFits, MailboxAssumption
    <3>4. CASE r <= o
      BY <1>4, <1>8, <2>2, <3>1, <3>4 DEF Have
    <3>5. CASE r > o
      <4>1. u \in v /\ r <= o + size
        BY <2>2, <3>2, <3>3
      <4>2. u \in page
        BY <2>4, <3>1, <3>3, <3>5, <4>1 DEF PageBehind
      <4> QED
        BY <1>4, <4>2
    <3> QED
      BY <3>1, <3>4, <3>5
  <2>9. ASSUME n = l.next PROVE InOrder(got, l.first) /\ (at = "done" => Len(got) = Cardinality(l.first))
    <3>1. v = l.first
      BY <1>2, <1>1, <2>2, <2>9 DEF FirstAre
    <3>2. InOrder(l.got, v)
      BY <2>2, <2>9, <3>1 DEF PagesInOrder
    <3>3. InOrder(got, v)
      BY <1>4, <1>8, <2>3, <2>4, <3>2, GoesOnInOrder
    <3>4. o + p <= c /\ p >= 0
      BY <1>8, <2>6, <3>3 DEF InOrder
    <3>5. at = "done" => o + p = c
      BY <2>5, <2>6, <3>4
    <3> QED
      BY <1>8, <2>6, <3>1, <3>3, <3>5
  <2> QED
    BY <1>6, <2>7, <2>8, <2>9 DEF Pages, PagesInOrder
<1> QED
  BY <1>6, <1>7, <1>9 DEF Paging

LEMMA PagingInvInitially == Init => PagingInv
<1> SUFFICES ASSUME MailInit PROVE PagingInv
  BY DEF Init
<1>1. list = [at |-> "start", got |-> <<>>, first |-> {}, next |-> 0, view |-> {}]
  BY DEF MailInit
<1> QED
  BY <1>1 DEF PagingInv, Paging, Listings

LEMMA InboxIs == MailBase => IsFolder(UidsOf(Inbox), uidNext[Inbox])
<1> SUFFICES ASSUME MailBase PROVE IsFolder(UidsOf(Inbox), uidNext[Inbox])
  OBVIOUS
<1>1. Inbox \in Folders /\ box[Inbox] \in SUBSET Message /\ uidNext[Inbox] \in Nat
  BY FoldersAre DEF MailBase, MailType
<1>2. \A m \in box[Inbox] : m.uid < uidNext[Inbox]
  BY <1>1 DEF MailBase, UidsAreOnce
<1> QED
  BY <1>1, <1>2, FolderIs DEF UidsOf

\* A step that is not the listing client's leaves what it knows alone.
LEMMA ListSteps == [Next]_vars => ListSelect \/ ListFetch \/ UNCHANGED list
<1> SUFFICES ASSUME [Next]_vars PROVE ListSelect \/ ListFetch \/ UNCHANGED list
  OBVIOUS
<1>1. CASE MailCall
  BY <1>1 DEF MailCall, ImapNext, Arrive, Begin, Connect, Select, GetFetch, Store, Expunge, MoveSearch, Move
<1>2. CASE Files \/ UNCHANGED vars
  BY <1>2 DEF Files, vars, mailVars
<1>3. CASE Outgoing
  BY <1>3 DEF Outgoing, SmtpNext, SmtpConnect, SmtpRcpt, SmtpData, SmtpQuit, SmtpUnchanged
<1> QED
  BY <1>1, <1>2, <1>3 DEF Next

LEMMA PagingInvInductive == MailBase /\ PagingInv /\ [Next]_vars => PagingInv'
<1> SUFFICES ASSUME MailBase, PagingInv, [Next]_vars PROVE PagingInv'
  OBVIOUS
<1>1. MailBase' /\ FoldersGrow
  BY MailBaseInductive
<1>2. PICK w, n : w = UidsOf(Inbox) /\ n = uidNext[Inbox] /\ IsFolder(w, n)
  BY InboxIs
<1>3. PICK l : l = list /\ Paging(l, w, n)
  BY <1>2 DEF PagingInv
<1>4. CASE ListSelect
  <2>1. UidsOf(Inbox)' = w /\ uidNext'[Inbox] = n
    BY <1>2, <1>4 DEF ListSelect, UidsOf
  <2>2. CASE l.at = "start"
    <3>1. list' = [l EXCEPT !.at = "selected", !.view = w, !.first = w, !.next = n]
      BY <1>2, <1>3, <1>4, <2>2 DEF ListSelect
    <3>2. Paging(list', w, n)
      BY <1>2, <1>3, <2>2, <3>1, PagingBegins
    <3> QED
      BY <2>1, <3>2 DEF PagingInv
  <2>3. CASE l.at = "paging"
    <3>1. list' = [l EXCEPT !.at = "selected", !.view = w]
      BY <1>2, <1>3, <1>4, <2>3 DEF ListSelect
    <3>2. Paging(list', w, n)
      BY <1>2, <1>3, <2>3, <3>1, PagingSelects
    <3> QED
      BY <2>1, <3>2 DEF PagingInv
  <2> QED
    BY <1>3, <1>4, <2>2, <2>3 DEF ListSelect
<1>5. CASE ListFetch
  <2>1. UidsOf(Inbox)' = w /\ uidNext'[Inbox] = n
    BY <1>2, <1>5 DEF ListFetch, UidsOf
  <2>2. /\ l.at = "selected"
        /\ list' = [l EXCEPT !.got = @ \o NewestFirst(Fetched(l, w)), !.view = {},
                      !.at = IF PageRange(Cardinality(l.view), Len(l.got), PageSize) = {} THEN "done" ELSE "paging"]
    BY <1>2, <1>3, <1>5 DEF ListFetch, Fetched, Holds
  <2>3. Paging(list', w, n)
    BY <1>2, <1>3, <2>2, PagingFetches
  <2> QED
    BY <2>1, <2>3 DEF PagingInv
<1>6. CASE UNCHANGED list
  <2>1. PICK x, m : x = UidsOf(Inbox)' /\ m = uidNext'[Inbox] /\ IsFolder(x, m)
    <3>1. Inbox \in Folders /\ box'[Inbox] \in SUBSET Message /\ uidNext'[Inbox] \in Nat
      BY <1>1, FoldersAre DEF MailBase, MailType
    <3>2. \A b \in box'[Inbox] : b.uid < uidNext'[Inbox]
      BY <1>1, <3>1 DEF MailBase, UidsAreOnce
    <3> QED
      BY <3>1, <3>2, FolderIs DEF UidsOf
  <2>2. n <= m /\ \A u \in x : u < n => u \in w
    <3>1. n <= m
      BY <1>1, <1>2, <2>1, FoldersAre DEF FoldersGrow
    <3>2. ASSUME NEW u \in x, u < n PROVE u \in w
      <4>1. PICK a \in box'[Inbox] : a.uid = u
        BY <2>1, <3>2 DEF UidsOf
      <4>2. \E b \in box[Inbox] : b.uid = a.uid
        BY <1>1, <1>2, <3>2, <4>1, FoldersAre DEF FoldersGrow
      <4> QED
        BY <1>2, <4>1, <4>2 DEF UidsOf
    <3> QED
      BY <3>1, <3>2
  <2>3. Paging(l, x, m)
    BY <1>2, <1>3, <2>1, <2>2, PagingRests
  <2> QED
    BY <1>3, <1>6, <2>1, <2>3 DEF PagingInv
<1> QED
  BY <1>4, <1>5, <1>6, ListSteps

\* Going through a folder behind what it has got, page by page, a client misses
\* nothing of what was there and stayed, whatever comes meanwhile, and if nothing
\* comes it has the folder, newest first (email/email.go:210-231, 244-276).
THEOREM PagesMissNothing == Spec => []PagesCover
<1>1. ASSUME MailBase, PagingInv PROVE PagesCover
  <2> SUFFICES ASSUME list.at = "done", Stayed(list, UidsOf(Inbox), uidNext[Inbox])
               PROVE  /\ list.first \subseteq ToSet(list.got)
                      /\ uidNext[Inbox] = list.next => list.got = NewestFirst(list.first)
    BY DEF PagesCover, Stayed
  <2>1. PICK l, w, n : /\ l = list /\ w = UidsOf(Inbox) /\ n = uidNext[Inbox]
                       /\ Paging(l, w, n) /\ IsFolder(w, n)
    BY <1>1, InboxIs DEF PagingInv
  <2>2. Pages(l, w) /\ PagesInOrder(l, n) /\ l.first \subseteq w
    BY <2>1 DEF Paging, Stayed
  <2>3. Uids(l.first)
    BY <2>1, <2>2, FS_Subset DEF IsFolder, Uids
  <2>4. ASSUME n = l.next PROVE l.got = NewestFirst(l.first)
    BY <2>1, <2>2, <2>3, <2>4, AllInOrder DEF PagesInOrder
  <2> QED
    BY <2>1, <2>2, <2>4 DEF Pages
<1> QED
  BY <1>1, MailBaseInitially, MailBaseInductive, PagingInvInitially, PagingInvInductive, PTL DEF Spec
=============================================================================
