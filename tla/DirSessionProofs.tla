-------------------------- MODULE DirSessionProofs --------------------------
(***************************************************************************)
(* Proofs about one conversation of the directory server, for any          *)
(* arguments, directories and buffer size, with the connection and either  *)
(* end failing at any point: a line always has room in the buffer, and the *)
(* client never takes the answer to one argument for that to another.      *)
(***************************************************************************)
EXTENDS DirSession, SequenceTheorems, WellFoundedInduction, TLAPS

(***************************************************************************)
(* The inductive invariant.                                                *)
(***************************************************************************)

Bytes == Chars \cup {NL, CR, NUL, Colon, Error, Close, ServerError}

TypesOK ==
  /\ args \in ArgLists /\ arg \in 1..(Len(args) + 1)
  /\ cpc \in {"name", "newline", "read", "close", "done", "killed"}
  /\ answers \in [DOMAIN args -> Seq(Bytes)]
  /\ spc \in {"alloc", "read", "test", "answer", "error", "close", "returned"}
  /\ buf \in Seq(Bytes) /\ cap \in Nat /\ c \in Bytes /\ reply \in Seq(Bytes)
  /\ up \in Seq(Bytes) /\ down \in Seq(Bytes)
  /\ open \subseteq {Client, Server} /\ reset \in BOOLEAN

\* The doubling keeps more than two places behind the line.
RoomOK == spc \in {"read", "test"} => cap - Len(buf) > 2

\* Which ends are open says how far the two have come.
EndsOK ==
  /\ cpc \in {"newline", "read"} => arg \in DOMAIN args
  /\ cpc = "close" => arg \notin DOMAIN args
  /\ IF Client \in open
     THEN /\ cpc \in {"name", "newline", "read", "close"}
          /\ Server \in open <=> spc # "returned"
     ELSE \/ cpc \in {"done", "killed"}
          \/ cpc = "name" /\ open = {}

\* The client stops reading at the first zero byte.
AnswersOK ==
  /\ \A k \in DOMAIN args :
       k > arg \/ (k = arg /\ cpc \in {"name", "newline"}) => answers[k] = <<>>
  /\ cpc = "read" => \A i \in 1..Len(answers[arg]) : answers[arg][i] # NUL

\* What the client has sent of its argument, and what it gets for it.
Sent ==
  CASE cpc = "name"    -> <<>>
    [] cpc = "newline" -> args[arg]
    [] OTHER           -> args[arg] \o <<NL>>
Got    == answers[arg] \o down
Failed == <<ServerError, NUL>>

\* The stages of an exchange.  The server waits for the line or reads it ...
Listening ==
  /\ Server \in open /\ Got = <<>>
  /\ \/ (spc = "alloc" \/ (spc = "answer" /\ reply = <<>>)) /\ up = Sent
     \/ spc \in {"read", "test"} /\ buf \o up = Sent
  /\ spc = "test" => buf # <<>> /\ Last(buf) = NL

\* ... writes the answer, which the client may have read in part ...
Answering ==
  /\ Server \in open /\ cpc = "read" /\ up = <<>>
  /\ spc = "answer" /\ Got \o reply = AnswerTo(args[arg])

\* ... and waits for the next line before the client has read all of it ...
Replied ==
  /\ Server \in open /\ cpc = "read" /\ up = <<>>
  /\ spc = "alloc" \/ (spc = "read" /\ buf = <<>>)
  /\ Got = AnswerTo(args[arg])

\* ... or it gives up between two answers, and says so behind the last one.
GivingUp ==
  /\ Server \in open /\ spc = "error"
  /\ Got = <<>> \/ (cpc = "read" /\ Got = AnswerTo(args[arg]))

GivenUp ==
  /\ spc \in {"close", "returned"}
  /\ \/ Got \in {<<>>, Failed}
     \/ cpc = "read" /\ Got = AnswerTo(args[arg]) \o Failed

ExchangeOK ==
  arg \in DOMAIN args /\ Client \in open /\ (\A j \in 1..arg : Plain(args[j])) =>
    Listening \/ Answering \/ Replied \/ GivingUp \/ GivenUp

IInv ==
  TypesOK /\ RoomOK /\ EndsOK /\ AnswersOK /\ ExchangeOK /\ InStep

(***************************************************************************)
(* Lines and answers.                                                      *)
(***************************************************************************)

LEMMA Marks ==
  /\ {NL, CR, NUL, Colon, Error, Close, ServerError} \subseteq Bytes
  /\ NL # CR /\ NL # NUL /\ CR # NUL /\ Colon # NUL /\ Error # NUL /\ ServerError # NUL
  /\ Close # NUL /\ Close # NL /\ Client # Server
  /\ Chars \subseteq Bytes /\ NUL \notin Chars
BY CharsAssumption DEF Bytes, NL, CR, NUL, Colon, Error, Close, ServerError, Client, Server

LEMMA Single ==
  ASSUME NEW S, NEW e \in S
  PROVE  <<e>> \in Seq(S) /\ Len(<<e>>) = 1 /\ <<e>>[1] = e
OBVIOUS

\* A byte goes from the end of one sequence to the beginning of the other.
LEMMA ByteMoves ==
  ASSUME NEW S, NEW s \in Seq(S), NEW t \in Seq(S), t # <<>>, NEW h, h = Head(t)
  PROVE  /\ Append(s, h) \o Tail(t) = s \o t
         /\ Append(s, h) \in Seq(S) /\ Tail(t) \in Seq(S) /\ h \in S
<1>1. /\ h \in S /\ Tail(t) \in Seq(S) /\ Len(Tail(t)) = Len(t) - 1
      /\ h = t[1] /\ \A i \in 1..(Len(t) - 1) : Tail(t)[i] = t[i + 1]
  BY HeadTailProperties
<1>2. Append(s, h) = s \o <<h>> /\ Append(s, h) \in Seq(S)
  BY <1>1, AppendIsConcat, AppendProperties
<1>3. Append(s, h) \o Tail(t) = s \o t
  <2>1. /\ Append(s, h) \o Tail(t) \in Seq(S) /\ s \o t \in Seq(S)
        /\ Len(t) \in Nat /\ Len(s) \in Nat /\ Len(t) > 0
        /\ Len(Append(s, h)) = Len(s) + 1
        /\ Len(Append(s, h) \o Tail(t)) = Len(s) + Len(t)
        /\ Len(s \o t) = Len(s) + Len(t)
    BY <1>1, <1>2, ConcatProperties, AppendProperties, EmptySeq, LenProperties
  <2>2. ASSUME NEW i \in 1..(Len(s) + Len(t))
        PROVE  (Append(s, h) \o Tail(t))[i] = (s \o t)[i]
    <3>1. (s \o t)[i] = IF i <= Len(s) THEN s[i] ELSE t[i - Len(s)]
      BY ConcatProperties
    <3>2. (Append(s, h) \o Tail(t))[i] =
            IF i <= Len(s) + 1 THEN Append(s, h)[i] ELSE Tail(t)[i - (Len(s) + 1)]
      BY <1>1, <1>2, <2>1, ConcatProperties
    <3>3. CASE i <= Len(s)
      BY <1>1, <2>1, <3>1, <3>2, <3>3, AppendProperties
    <3>4. CASE i = Len(s) + 1
      BY <1>1, <2>1, <3>1, <3>2, <3>4, AppendProperties
    <3>5. CASE i > Len(s) + 1
      <4>1. i - (Len(s) + 1) \in 1..(Len(t) - 1) /\ (i - (Len(s) + 1)) + 1 = i - Len(s)
        BY <2>1, <3>5
      <4> QED BY <1>1, <2>1, <3>1, <3>2, <3>5, <4>1
    <3> QED BY <2>1, <3>3, <3>4, <3>5
  <2> QED BY <2>1, <2>2, SeqEqual
<1> QED BY <1>1, <1>2, <1>3

\* A text has no mark in it, begins or ends with the mark; and what is read, s,
\* with what is on its way, t, is a text up to the mark with f behind it.
Without(mark, s) == \A i \in 1..Len(s) : s[i] # mark
BeginsWith(mark, t) == t # <<>> /\ Head(t) = mark
EndsWith(mark, s) == s # <<>> /\ Last(s) = mark
Reads(s, t, a, mark, f) == s \o t = Append(a, mark) \o f

\* What a reader has that stops at the first of the marks.
LEMMA FirstMark ==
  ASSUME NEW S, NEW mark \in S, NEW s \in Seq(S), NEW t \in Seq(S),
         NEW a \in Seq(S), NEW f \in Seq(S),
         Without(mark, s), Without(mark, a), BeginsWith(mark, t), Reads(s, t, a, mark, f)
  PROVE  Append(s, mark) = Append(a, mark) /\ Tail(t) = f
<1> DEFINE m == Append(a, mark)
<1>1. /\ m \in Seq(S) /\ Len(m) = Len(a) + 1 /\ Len(a) \in Nat /\ Len(s) \in Nat
      /\ m[Len(a) + 1] = mark /\ \A i \in 1..Len(a) : m[i] = a[i]
      /\ Len(t) \in Nat \ {0} /\ t[1] = mark /\ Len(f) \in Nat
  BY AppendProperties, LenProperties, EmptySeq DEF BeginsWith
<1>2. /\ Len(s \o t) = Len(s) + Len(t)
      /\ \A i \in 1..(Len(s) + Len(t)) : (s \o t)[i] = IF i <= Len(s) THEN s[i] ELSE t[i - Len(s)]
  BY ConcatProperties
<1>3. /\ Len(m \o f) = Len(m) + Len(f)
      /\ \A i \in 1..(Len(m) + Len(f)) : (m \o f)[i] = IF i <= Len(m) THEN m[i] ELSE f[i - Len(m)]
  BY <1>1, ConcatProperties
<1>4. s \o t = m \o f
  BY DEF Reads
<1> HIDE DEF m
<1>5. Len(s) = Len(a)
  <2>1. ~ (Len(s) < Len(a))
    <3> SUFFICES ASSUME Len(s) < Len(a)
                 PROVE  FALSE
      OBVIOUS
    <3>1. (s \o t)[Len(s) + 1] = mark
      BY <1>1, <1>2
    <3>2. (m \o f)[Len(s) + 1] = a[Len(s) + 1]
      BY <1>1, <1>3
    <3> QED BY <1>1, <1>4, <3>1, <3>2 DEF Without
  <2>2. ~ (Len(s) > Len(a))
    <3> SUFFICES ASSUME Len(s) > Len(a)
                 PROVE  FALSE
      OBVIOUS
    <3>1. (m \o f)[Len(a) + 1] = mark
      BY <1>1, <1>3
    <3>2. (s \o t)[Len(a) + 1] = s[Len(a) + 1]
      BY <1>1, <1>2
    <3> QED BY <1>1, <1>4, <3>1, <3>2 DEF Without
  <2> QED BY <1>1, <2>1, <2>2
<1>6. Append(s, mark) = m
  <2>1. /\ Append(s, mark) \in Seq(S) /\ Len(Append(s, mark)) = Len(s) + 1
        /\ Append(s, mark)[Len(s) + 1] = mark
        /\ \A i \in 1..Len(s) : Append(s, mark)[i] = s[i]
    BY AppendProperties
  <2>2. ASSUME NEW i \in 1..Len(s)
        PROVE  s[i] = m[i]
    <3>1. /\ i \in 1..(Len(s) + Len(t)) /\ i <= Len(s)
          /\ i \in 1..(Len(m) + Len(f)) /\ i <= Len(m)
      BY <1>1, <1>5
    <3>2. (s \o t)[i] = s[i]
      BY <1>2, <3>1
    <3>3. (m \o f)[i] = m[i]
      BY <1>3, <3>1
    <3> QED BY <1>4, <3>2, <3>3
  <2>3. ASSUME NEW i \in 1..(Len(s) + 1)
        PROVE  Append(s, mark)[i] = m[i]
    BY <1>1, <1>5, <2>1, <2>2
  <2> QED BY <1>1, <1>5, <2>1, <2>3, SeqEqual
<1>7. Tail(t) = f
  <2>1. /\ Tail(t) \in Seq(S) /\ Len(Tail(t)) = Len(t) - 1
        /\ \A i \in 1..(Len(t) - 1) : Tail(t)[i] = t[i + 1]
    BY HeadTailProperties DEF BeginsWith
  <2>2. Len(f) = Len(t) - 1
    BY <1>1, <1>2, <1>3, <1>4, <1>5
  <2>3. ASSUME NEW i \in 1..Len(f)
        PROVE  t[i + 1] = f[i]
    <3>1. (s \o t)[Len(s) + 1 + i] = t[i + 1]
      BY <1>1, <1>2, <2>2
    <3>2. (m \o f)[Len(s) + 1 + i] = f[i]
      BY <1>1, <1>3, <1>5
    <3> QED BY <1>4, <3>1, <3>2
  <2> QED BY <1>1, <2>1, <2>2, <2>3, SeqEqual
<1> QED BY <1>6, <1>7 DEF m

\* An answer has one zero byte, its last.
LEMMA AnswerMarked ==
  ASSUME NEW name \in Seq(Chars)
  PROVE  \E a \in Seq(Bytes) : AnswerTo(name) = Append(a, NUL) /\ Without(NUL, a)
<1> DEFINE list == IF \E d \in Dirs : name = <<d>> THEN Entries[name[1]] ELSE <<Error>>
           head == name \o <<Colon>>
           a    == head \o list
           Text == Bytes \ {NUL}
<1>1. Chars \subseteq Text /\ Colon \in Text /\ Error \in Text /\ Text \subseteq Bytes
  BY Marks
<1>2. list \in Seq(Text)
  <2>1. CASE \E d \in Dirs : name = <<d>>
    <3>1. PICK d \in Dirs : name = <<d>>
      BY <2>1
    <3>2. name[1] = d
      BY <3>1
    <3>3. list = Entries[d] /\ Entries[d] \in Seq(Chars)
      BY <2>1, <3>2, EntriesAssumption
    <3> QED BY <1>1, <3>3, SeqMonotonic
  <2>2. CASE ~ \E d \in Dirs : name = <<d>>
    BY <1>1, <2>2, Single
  <2> QED BY <2>1, <2>2
<1>3. name \in Seq(Text) /\ <<Colon>> \in Seq(Text)
  BY <1>1, Single, SeqMonotonic
<1>4. AnswerTo(name) = a \o <<NUL>>
  BY DEF AnswerTo
<1> HIDE DEF list, Text
<1>5. head \in Seq(Text)
  BY <1>3, ConcatProperties
<1> HIDE DEF head
<1>6. a \in Seq(Text)
  BY <1>2, <1>5, ConcatProperties
<1> HIDE DEF a
<1>7. a \in Seq(Bytes) /\ Without(NUL, a)
  <2>1. \A i \in 1..Len(a) : a[i] \in Text
    BY <1>6, ElementOfSeq
  <2> QED BY <1>1, <1>6, <2>1, SeqMonotonic DEF Text, Without
<1>8. a \o <<NUL>> = Append(a, NUL)
  BY <1>7, Marks, AppendIsConcat
<1> QED BY <1>4, <1>7, <1>8

LEMMA AnswerBytes ==
  ASSUME NEW name \in Seq(Bytes)
  PROVE  AnswerTo(name) \in Seq(Bytes) /\ AnswerTo(name) # <<>>
<1> DEFINE list == IF \E d \in Dirs : name = <<d>> THEN Entries[name[1]] ELSE <<Error>>
           a    == (name \o <<Colon>>) \o list
<1>1. list \in Seq(Bytes)
  <2>1. CASE \E d \in Dirs : name = <<d>>
    <3>1. PICK d \in Dirs : name = <<d>>
      BY <2>1
    <3>2. name[1] = d
      BY <3>1
    <3>3. list = Entries[d] /\ Entries[d] \in Seq(Chars)
      BY <2>1, <3>2, EntriesAssumption
    <3> QED BY <3>3, Marks, SeqMonotonic
  <2>2. CASE ~ \E d \in Dirs : name = <<d>>
    BY <2>2, Marks, Single
  <2> QED BY <2>1, <2>2
<1>2. AnswerTo(name) = a \o <<NUL>>
  BY DEF AnswerTo
<1> HIDE DEF list
<1>3. name \o <<Colon>> \in Seq(Bytes)
  BY Marks, Single, ConcatProperties
<1>4. a \in Seq(Bytes) /\ Len(a) \in Nat
  BY <1>1, <1>3, ConcatProperties, LenProperties
<1> HIDE DEF a
<1>5. a \o <<NUL>> \in Seq(Bytes) /\ Len(a \o <<NUL>>) = Len(a) + 1
  BY <1>4, Marks, Single, ConcatProperties
<1> QED BY <1>2, <1>4, <1>5, EmptySeq

\* The server has a whole line when the last byte it has read is a newline.
LEMMA WholeLine ==
  ASSUME NEW S, NEW mark \in S, NEW a \in Seq(S), NEW s \in Seq(S), NEW t \in Seq(S),
         Without(mark, a), EndsWith(mark, s)
  PROVE  /\ s \o t # a /\ s \o t # <<>>
         /\ s \o t = Append(a, mark) => s = Append(a, mark) /\ t = <<>>
<1>1. /\ Len(s) \in Nat \ {0} /\ Len(t) \in Nat /\ Len(a) \in Nat /\ s[Len(s)] = mark
      /\ Len(s \o t) = Len(s) + Len(t)
      /\ \A i \in 1..(Len(s) + Len(t)) : (s \o t)[i] = IF i <= Len(s) THEN s[i] ELSE t[i - Len(s)]
  BY ConcatProperties, LenProperties, EmptySeq DEF EndsWith, Last
<1>2. (s \o t)[Len(s)] = mark
  BY <1>1
<1>3. s \o t # a /\ s \o t # <<>>
  BY <1>1, <1>2 DEF Without
<1>4. ASSUME s \o t = Append(a, mark)
      PROVE  s = Append(a, mark) /\ t = <<>>
  <2>1. /\ Len(Append(a, mark)) = Len(a) + 1
        /\ \A i \in 1..Len(a) : Append(a, mark)[i] = a[i]
    BY AppendProperties
  <2>2. Len(s) = Len(a) + 1 /\ Len(t) = 0
    BY <1>1, <1>2, <1>4, <2>1 DEF Without
  <2>3. t = <<>>
    BY <2>2, EmptySeq
  <2> QED BY <1>4, <2>3, ConcatEmptySeq
<1> QED BY <1>3, <1>4

\* A plain line is the name it is sent for.
LEMMA NameOfLine ==
  ASSUME NEW a \in Seq(Chars), Plain(a)
  PROVE  Name(a \o <<NL>>) = a
<1> DEFINE line == a \o <<NL>>
           ends == {i \in 1..Len(line) : line[i] \in {NL, CR}}
<1>1. a \in Seq(Bytes) /\ Len(a) \in Nat
  BY Marks, SeqMonotonic, LenProperties
<1>2. /\ line \in Seq(Bytes) /\ Len(line) = Len(a) + 1
      /\ \A i \in 1..Len(a) : line[i] = a[i]
      /\ line[Len(a) + 1] = NL
  BY <1>1, Marks, Single, ConcatProperties
<1>3. \A i \in 1..Len(a) : a[i] \notin {NL, CR}
  BY LenProperties DEF Plain
<1>4. ends = {Len(a) + 1}
  BY <1>1, <1>2, <1>3
<1>5. Min(ends) = Len(a) + 1
  BY <1>1, <1>4 DEF Min
<1>6. Name(line) = SubSeq(line, 1, Min(ends) - 1)
  BY <1>4 DEF Name, SelectInSeq
<1> HIDE DEF line, ends
<1>7. Name(line) = SubSeq(line, 1, Len(a))
  <2>1. Min(ends) - 1 = Len(a)
    BY <1>1, <1>5
  <2> QED BY <1>6, <2>1
<1>8. SubSeq(line, 1, Len(a)) = a
  <2>1. \A i \in 1..Len(a) : line[i] \in Bytes
    BY <1>1, <1>2, ElementOfSeq
  <2>2. /\ SubSeq(line, 1, Len(a)) \in Seq(Bytes)
        /\ Len(SubSeq(line, 1, Len(a))) = IF 1 <= Len(a) THEN Len(a) - 1 + 1 ELSE 0
        /\ \A i \in 1..(Len(a) - 1 + 1) : SubSeq(line, 1, Len(a))[i] = line[1 + i - 1]
    BY <1>1, <2>1, SubSeqProperties
  <2> QED BY <1>1, <1>2, <2>2, SeqEqual
<1> QED BY <1>7, <1>8 DEF line

\* Any line has a name.
LEMMA NameBytes ==
  ASSUME NEW line \in Seq(Bytes)
  PROVE  Name(line) \in Seq(Bytes)
<1> DEFINE ends == {i \in 1..Len(line) : line[i] \in {NL, CR}}
<1>1. Len(line) \in Nat /\ \A i \in 1..Len(line) : line[i] \in Bytes
  BY LenProperties, ElementOfSeq
<1>2. CASE ends = {}
  <2>1. Name(line) = SubSeq(line, 1, 0 - 1)
    BY <1>2 DEF Name, SelectInSeq
  <2>2. SubSeq(line, 1, 0 - 1) = <<>>
    BY SubSeqEmpty
  <2> QED BY <2>1, <2>2, EmptySeq
<1>3. CASE ends # {}
  <2>1. Name(line) = SubSeq(line, 1, Min(ends) - 1)
    BY <1>3 DEF Name, SelectInSeq
  <2>2. \E i \in ends : \A j \in ends : i <= j
    <3> DEFINE R == {ss \in Nat \X Nat : ss[1] < ss[2]}
    <3>1. IsWellFoundedOn(R, Nat)
      BY NatLessThanWellFounded DEF OpToRel
    <3> HIDE DEF R
    <3>2. ends \subseteq Nat
      BY <1>1
    <3> HIDE DEF ends
    <3>3. PICK i \in ends : \A j \in ends : <<j, i>> \notin R
      BY <1>3, <3>1, <3>2, WFMin
    <3>4. ASSUME NEW j \in ends
          PROVE  i <= j
      <4>1. i \in Nat /\ j \in Nat
        BY <3>2
      <4>2. CASE j < i
        <5>1. <<j, i>> \in R
          BY <4>1, <4>2 DEF R
        <5> QED BY <3>3, <5>1
      <4>3. CASE ~ (j < i)
        BY <4>1, <4>3
      <4> QED BY <4>2, <4>3
    <3> QED BY <3>4
  <2>3. Min(ends) \in 1..Len(line)
    BY <2>2 DEF Min
  <2> HIDE DEF ends
  <2>4. SubSeq(line, 1, Min(ends) - 1) \in Seq(Bytes)
    <3>1. Min(ends) - 1 \in Int /\ \A i \in 1..(Min(ends) - 1) : line[i] \in Bytes
      BY <1>1, <2>3
    <3> QED BY <3>1, SubSeqProperties
  <2> QED BY <2>1, <2>4
<1> QED BY <1>2, <1>3

(***************************************************************************)
(* The types, the buffer and the ends of the connection.                   *)
(***************************************************************************)

LEMMA Arguments ==
  ASSUME TypesOK
  PROVE  /\ args \in Seq(Seq(Chars)) /\ Len(args) \in Nat /\ DOMAIN args = 1..Len(args)
         /\ \A k \in DOMAIN args : /\ args[k] \in Seq(Chars) /\ args[k] \in Seq(Bytes)
                                   /\ answers[k] \in Seq(Bytes)
<1>1. args \in Seq(Seq(Chars))
  BY ArgListsAssumption DEF TypesOK
<1>2. Len(args) \in Nat /\ DOMAIN args = 1..Len(args)
  BY <1>1, LenProperties
<1>3. ASSUME NEW k \in DOMAIN args
      PROVE  args[k] \in Seq(Chars) /\ args[k] \in Seq(Bytes) /\ answers[k] \in Seq(Bytes)
  <2>1. args[k] \in Seq(Chars)
    BY <1>1, <1>2, ElementOfSeq
  <2> QED BY <2>1, Marks, SeqMonotonic DEF TypesOK
<1> QED BY <1>1, <1>2, <1>3

LEMMA Constants ==
  /\ <<>> \in Seq(Bytes) /\ <<NL>> \in Seq(Bytes) /\ <<Close, NL, NUL>> \in Seq(Bytes)
  /\ Failed \in Seq(Bytes) /\ NUL \in Bytes
<1>1. <<>> \in Seq(Bytes) /\ <<NL>> \in Seq(Bytes) /\ NUL \in Bytes
  BY EmptySeq, Marks
<1>2. <<Close, NL, NUL>> \in Seq(Bytes) /\ Failed \in Seq(Bytes)
  BY Marks DEF Failed
<1> QED BY <1>1, <1>2

\* The client writes something that is bytes.
LEMMA WritesTypes ==
  ASSUME TypesOK, NEW bytes \in Seq(Bytes), NEW to \in {"newline", "read", "close"},
         ClientWrites(bytes, to)
  PROVE  /\ up' \in Seq(Bytes) /\ down' = down /\ reset' = reset
         /\ open' \subseteq {Client, Server}
         /\ cpc' \in {"newline", "read", "close", "killed"}
<1>1. up \o bytes \in Seq(Bytes)
  BY ConcatProperties DEF TypesOK
<1> QED BY <1>1 DEF ClientWrites, TypesOK

LEMMA StoreTypes ==
  ASSUME TypesOK, NEW ch \in Bytes, Store(ch)
  PROVE  /\ buf' \in Seq(Bytes) /\ cap' \in Nat /\ c' \in Bytes
         /\ spc' \in {"read", "test", "error"}
         /\ RoomOK /\ spc = "read" => RoomOK'
<1>1. buf' = Append(buf, ch) /\ buf' \in Seq(Bytes) /\ Len(buf') = Len(buf) + 1 /\ Len(buf) \in Nat
  BY AppendProperties, LenProperties DEF Store, TypesOK
<1>2. cap' \in Nat /\ c' \in Bytes /\ spc' \in {"read", "test", "error"}
  BY DEF Store, TypesOK
<1>3. ASSUME RoomOK, spc = "read", spc' \in {"read", "test"}
      PROVE  cap' - Len(buf') > 2
  <2>1. cap - Len(buf) > 2 /\ cap \in Nat
    BY <1>3 DEF RoomOK, TypesOK
  <2>2. (cap' = cap /\ cap - Len(buf') > 2) \/ cap' = 2 * cap
    BY <1>3 DEF Store
  <2> QED BY <1>1, <2>1, <2>2
<1> QED BY <1>1, <1>2, <1>3 DEF RoomOK

LEMMA TypesStep == TypesOK /\ EndsOK /\ [Next]_vars => TypesOK'
<1> SUFFICES ASSUME TypesOK, EndsOK, [Next]_vars
             PROVE  TypesOK'
  OBVIOUS
<1>1. /\ \A k \in DOMAIN args : args[k] \in Seq(Bytes) /\ answers[k] \in Seq(Bytes)
      /\ Len(args) \in Nat /\ DOMAIN args = 1..Len(args)
  BY Arguments
<1> USE DEF TypesOK
<1>2. CASE SendName
  <2>1. args[arg] \in Seq(Bytes)
    BY <1>1, <1>2 DEF SendName
  <2> QED BY <1>2, <2>1, WritesTypes DEF SendName, serverVars
<1>3. CASE SendNewline \/ SendClose
  BY <1>3, Constants, WritesTypes DEF SendNewline, SendClose, serverVars
<1>4. CASE ReadAnswer
  <2>1. Head(down) \in Bytes /\ Tail(down) \in Seq(Bytes) /\ down' = Tail(down)
    BY <1>4, HeadTailProperties DEF ReadAnswer
  <2>2. arg \in DOMAIN args /\ answers[arg] \in Seq(Bytes)
    BY <1>1, <1>4 DEF ReadAnswer, EndsOK
  <2>3. answers' = [answers EXCEPT ![arg] = Append(answers[arg], Head(down))]
        /\ Append(answers[arg], Head(down)) \in Seq(Bytes)
    BY <1>4, <2>1, <2>2, AppendProperties DEF ReadAnswer
  <2>4. arg' \in 1..(Len(args) + 1) /\ cpc' \in {"name", "read"}
    BY <1>1, <1>4, <2>2 DEF ReadAnswer
  <2> QED BY <1>4, <2>1, <2>3, <2>4 DEF ReadAnswer, serverVars
<1>5. CASE ReadNothing
  <2>1. arg' \in 1..(Len(args) + 1)
    BY <1>1, <1>5 DEF ReadNothing, EndsOK
  <2> QED BY <1>5, <2>1, Constants DEF ReadNothing, serverVars
<1>6. CASE CloseClient \/ KillClient
  BY <1>6 DEF CloseClient, KillClient, Hangup, serverVars
<1>7. CASE Alloc \/ AllocFails \/ ReadFails \/ TestClose \/ Answered
  BY <1>7, BufAssumption, Constants
     DEF Alloc, AllocFails, ReadFails, TestClose, Answered, clientVars, wireVars
<1>8. CASE ReadLine
  <2>1. Head(up) \in Bytes /\ Tail(up) \in Seq(Bytes) /\ Store(Head(up))
    BY <1>8, HeadTailProperties DEF ReadLine
  <2> QED BY <1>8, <2>1, StoreTypes DEF ReadLine, clientVars
<1>9. CASE ReadEnd
  BY <1>9, StoreTypes DEF ReadEnd, clientVars, wireVars
<1>10. CASE Test
  <2>1. AnswerTo(Name(buf)) \in Seq(Bytes)
    BY NameBytes, AnswerBytes
  <2> QED BY <1>10, <2>1 DEF Test, clientVars, wireVars
<1>11. CASE Answer
  <2>1. Head(reply) \in Bytes /\ Tail(reply) \in Seq(Bytes) /\ reply' = Tail(reply)
    BY <1>11, HeadTailProperties DEF Answer
  <2>2. <<Head(reply)>> \in Seq(Bytes)
    BY <2>1, Single
  <2>3. down \o <<Head(reply)>> \in Seq(Bytes)
    BY <2>2, ConcatProperties
  <2> QED BY <1>11, <2>1, <2>3 DEF Answer, ServerWrites, clientVars
<1>12. CASE SayError
  <2>1. down \o <<ServerError, NUL>> \in Seq(Bytes)
    BY Constants, ConcatProperties DEF Failed
  <2> QED BY <1>12, <2>1 DEF SayError, ServerWrites, clientVars
<1>13. CASE CloseServer
  BY <1>13 DEF CloseServer, clientVars
<1>14. CASE UNCHANGED vars
  BY <1>14 DEF vars, clientVars, serverVars, wireVars
<1> QED BY <1>2, <1>3, <1>4, <1>5, <1>6, <1>7, <1>8, <1>9, <1>10, <1>11, <1>12, <1>13, <1>14
        DEF Next, ClientNext, ServerNext

LEMMA RoomStep == TypesOK /\ RoomOK /\ [Next]_vars => RoomOK'
<1> SUFFICES ASSUME TypesOK, RoomOK, [Next]_vars
             PROVE  RoomOK'
  OBVIOUS
<1>1. CASE ReadLine \/ ReadEnd
  <2>1. PICK ch \in Bytes : Store(ch) /\ spc = "read"
    BY <1>1, HeadTailProperties DEF ReadLine, ReadEnd, TypesOK
  <2> QED BY <2>1, StoreTypes
<1>2. CASE Alloc
  <2>1. Len(buf') = 0 /\ cap' = BufSize
    BY <1>2 DEF Alloc
  <2> QED BY <2>1, BufAssumption DEF RoomOK
<1>3. CASE \/ AllocFails \/ ReadFails \/ TestClose \/ Test \/ Answer \/ Answered \/ SayError
           \/ CloseServer
  BY <1>3 DEF AllocFails, ReadFails, TestClose, Test, Answer, Answered, SayError, CloseServer,
              RoomOK
<1>4. CASE ClientNext \/ KillClient
  BY <1>4 DEF ClientNext, KillClient, SendName, SendNewline, ReadAnswer, ReadNothing, SendClose,
              CloseClient, Hangup, serverVars, RoomOK
<1>5. CASE UNCHANGED vars
  BY <1>5 DEF vars, serverVars, RoomOK
<1> QED BY <1>1, <1>2, <1>3, <1>4, <1>5 DEF Next, ServerNext

LEMMA EndsStep == TypesOK /\ EndsOK /\ [Next]_vars => EndsOK'
<1> SUFFICES ASSUME TypesOK, EndsOK, [Next]_vars
             PROVE  EndsOK'
  OBVIOUS
<1>1. Client # Server /\ Len(args) \in Nat /\ DOMAIN args = 1..Len(args) /\ arg \in 1..(Len(args) + 1)
      /\ open \subseteq {Client, Server}
  BY Marks, Arguments DEF TypesOK
<1>2. CASE SendName
  BY <1>1, <1>2 DEF SendName, ClientWrites, serverVars, EndsOK
<1>3. CASE SendNewline \/ SendClose
  BY <1>1, <1>3 DEF SendNewline, SendClose, ClientWrites, serverVars, EndsOK
<1>4. CASE ReadAnswer \/ ReadNothing
  BY <1>1, <1>4 DEF ReadAnswer, ReadNothing, serverVars, EndsOK
<1>5. CASE CloseClient \/ KillClient
  BY <1>1, <1>5 DEF CloseClient, KillClient, Hangup, serverVars, EndsOK
<1>6. CASE \/ Alloc \/ AllocFails \/ ReadFails \/ TestClose \/ Test \/ Answered
  BY <1>1, <1>6 DEF Alloc, AllocFails, ReadFails, TestClose, Test, Answered, clientVars, wireVars,
                    EndsOK
<1>7. CASE ReadLine \/ ReadEnd
  BY <1>1, <1>7 DEF ReadLine, ReadEnd, Store, clientVars, wireVars, EndsOK
<1>8. CASE Answer \/ SayError
  BY <1>1, <1>8 DEF Answer, SayError, ServerWrites, clientVars, EndsOK
<1>9. CASE CloseServer
  BY <1>1, <1>9 DEF CloseServer, clientVars, EndsOK
<1>10. CASE UNCHANGED vars
  BY <1>10 DEF vars, clientVars, serverVars, wireVars, EndsOK
<1> QED BY <1>2, <1>3, <1>4, <1>5, <1>6, <1>7, <1>8, <1>9, <1>10 DEF Next, ClientNext, ServerNext
(***************************************************************************)
(* What the client has read.                                               *)
(***************************************************************************)

\* One byte of an answer is added to the answers.
LEMMA ReadTakes ==
  ASSUME TypesOK, EndsOK, ReadAnswer
  PROVE  /\ arg \in DOMAIN args /\ cpc = "read" /\ Client \in open
         /\ answers' = [answers EXCEPT ![arg] = Append(answers[arg], Head(down))]
         /\ answers'[arg] = Append(answers[arg], Head(down))
         /\ \A k \in DOMAIN args : k # arg => answers'[k] = answers[k]
         /\ UNCHANGED <<args, spc, buf, cap, c, reply, up, open, reset>>
BY DEF ReadAnswer, TypesOK, EndsOK, serverVars

LEMMA AnswersStep == TypesOK /\ EndsOK /\ AnswersOK /\ [Next]_vars => AnswersOK'
<1> SUFFICES ASSUME TypesOK, EndsOK, AnswersOK, [Next]_vars
             PROVE  AnswersOK'
  OBVIOUS
<1>1. Len(args) \in Nat /\ DOMAIN args = 1..Len(args) /\ arg \in 1..(Len(args) + 1)
  BY Arguments DEF TypesOK
<1>2. CASE SendName \/ SendClose
  BY <1>1, <1>2 DEF SendName, SendClose, ClientWrites, AnswersOK
<1>3. CASE SendNewline
  <2>1. arg \in DOMAIN args /\ answers[arg] = <<>>
    BY <1>1, <1>3 DEF SendNewline, EndsOK, AnswersOK
  <2> QED BY <1>1, <1>3, <2>1 DEF SendNewline, ClientWrites, AnswersOK
<1>4. CASE ReadAnswer
  <2>1. CASE Head(down) = NUL
    BY <1>1, <1>4, <2>1, ReadTakes DEF ReadAnswer, AnswersOK
  <2>2. CASE Head(down) # NUL
    <3>1. /\ answers[arg] \in Seq(Bytes) /\ Len(answers[arg]) \in Nat
          /\ \A i \in 1..Len(answers[arg]) : answers[arg][i] # NUL
      BY <1>4, Arguments, ReadTakes, LenProperties DEF AnswersOK
    <3>2. Head(down) \in Bytes
      BY <1>4, HeadTailProperties DEF ReadAnswer, TypesOK
    <3>3. \A i \in 1..Len(Append(answers[arg], Head(down))) :
            Append(answers[arg], Head(down))[i] # NUL
      BY <2>2, <3>1, <3>2, AppendProperties
    <3>4. \A i \in 1..Len(answers'[arg]) : answers'[arg][i] # NUL
      BY <1>4, <3>3, ReadTakes
    <3>5. arg' = arg /\ cpc' = "read" /\ cpc = "read"
      BY <1>4, <2>2 DEF ReadAnswer
    <3>6. \A k \in DOMAIN args : k > arg => answers'[k] = <<>>
      BY <1>1, <1>4, ReadTakes DEF AnswersOK
    <3> QED BY <1>1, <1>4, <3>4, <3>5, <3>6, ReadTakes DEF AnswersOK
  <2> QED BY <2>1, <2>2
<1>5. CASE ReadNothing
  BY <1>1, <1>5 DEF ReadNothing, AnswersOK
<1>6. CASE CloseClient \/ KillClient
  BY <1>6 DEF CloseClient, KillClient, Hangup, AnswersOK
<1>7. CASE ServerNext
  BY <1>7 DEF ServerNext, Alloc, AllocFails, ReadLine, ReadEnd, ReadFails, TestClose, Test, Answer,
              Answered, SayError, CloseServer, clientVars, AnswersOK
<1>8. CASE UNCHANGED vars
  BY <1>8 DEF vars, clientVars, AnswersOK
<1> QED BY <1>2, <1>3, <1>4, <1>5, <1>6, <1>7, <1>8 DEF Next, ClientNext
LEMMA Regrouped ==
  ASSUME NEW S, NEW mark, NEW s \in Seq(S), NEW d \in Seq(S), NEW r \in Seq(S), NEW a, NEW f,
         Reads(s \o d, r, a, mark, f)
  PROVE  Reads(s, d \o r, a, mark, f)
<1>1. (s \o d) \o r = s \o (d \o r)
  BY ConcatAssociative, SMTT(30)
<1> QED BY <1>1 DEF Reads

\* Reading the mark that ends some text, with more of it on the way.
LEMMA ReadsText ==
  ASSUME NEW S, NEW mark \in S, NEW s \in Seq(S), NEW d \in Seq(S), NEW r \in Seq(S),
         NEW a \in Seq(S), NEW f \in Seq(S),
         Without(mark, s), Without(mark, a), BeginsWith(mark, d), Reads(s \o d, r, a, mark, f)
  PROVE  Append(s, mark) = Append(a, mark) /\ Tail(d) \o r = f
<1> DEFINE t == d \o r
           u == Tail(d) \o r
           v == Tail(t)
<1>1. t \in Seq(S) /\ Reads(s, t, a, mark, f)
  <2>1. t \in Seq(S)
    BY ConcatProperties
  <2> QED BY <2>1, Regrouped
<1>2. d[1] = mark /\ Len(d) \in Nat \ {0} /\ Len(r) \in Nat
  BY EmptySeq, LenProperties DEF BeginsWith
<1>3. Len(t) = Len(d) + Len(r) /\ \A i \in 1..Len(t) : t[i] = IF i <= Len(d) THEN d[i] ELSE r[i - Len(d)]
  BY <1>2, ConcatProperties
<1> HIDE DEF t
<1>4. t # <<>> /\ BeginsWith(mark, t)
  BY <1>1, <1>2, <1>3 DEF BeginsWith
<1>5. /\ Tail(d) \in Seq(S) /\ Len(Tail(d)) = Len(d) - 1
      /\ \A i \in 1..(Len(d) - 1) : Tail(d)[i] = d[i + 1]
  BY HeadTailProperties DEF BeginsWith
<1>6. /\ v \in Seq(S) /\ Len(v) = Len(t) - 1
      /\ \A i \in 1..(Len(t) - 1) : v[i] = t[i + 1]
  BY <1>1, <1>4, HeadTailProperties
<1>7. /\ u \in Seq(S) /\ Len(u) = Len(t) - 1
      /\ \A i \in 1..(Len(t) - 1) : u[i] = IF i <= Len(d) - 1 THEN Tail(d)[i] ELSE r[i - (Len(d) - 1)]
  BY <1>2, <1>3, <1>5, ConcatProperties
<1>8. Append(s, mark) = Append(a, mark) /\ v = f
  BY <1>1, <1>4, FirstMark
<1> HIDE DEF u, v
<1>9. ASSUME NEW i \in 1..Len(u)
      PROVE  u[i] = v[i]
  <2>1. v[i] = IF i + 1 <= Len(d) THEN d[i + 1] ELSE r[(i + 1) - Len(d)]
    <3>1. i \in 1..(Len(t) - 1) /\ i + 1 \in 1..Len(t)
      BY <1>2, <1>3, <1>7
    <3>2. v[i] = t[i + 1]
      BY <1>6, <3>1, Zenon
    <3> QED BY <1>3, <3>1, <3>2
  <2>2. (i + 1) - Len(d) = i - (Len(d) - 1)
    BY <1>2
  <2> QED BY <1>2, <1>3, <1>5, <1>7, <2>1, <2>2
<1>10. u = v
  BY <1>6, <1>7, <1>9, SeqEqual
<1> QED BY <1>8, <1>10 DEF u

\* Neither of two sequences has anything when both together have nothing.
LEMMA BothEmpty ==
  ASSUME NEW S, NEW s \in Seq(S), NEW t \in Seq(S), s \o t = <<>>
  PROVE  s = <<>> /\ t = <<>>
<1>1. Len(s) \in Nat /\ Len(t) \in Nat /\ Len(s) + Len(t) = 0
  BY ConcatProperties, EmptySeq
<1> QED BY <1>1, EmptySeq

\* What the client is sent is bytes.
LEMMA GotBytes ==
  ASSUME TypesOK, arg \in DOMAIN args
  PROVE  /\ answers[arg] \in Seq(Bytes) /\ down \in Seq(Bytes) /\ Got \in Seq(Bytes)
         /\ args[arg] \in Seq(Chars) /\ AnswerTo(args[arg]) \in Seq(Bytes)
<1>1. answers[arg] \in Seq(Bytes) /\ down \in Seq(Bytes) /\ args[arg] \in Seq(Chars) /\ args[arg] \in Seq(Bytes)
  BY Arguments DEF TypesOK
<1> QED BY <1>1, ConcatProperties, AnswerBytes DEF Got

\* When the client has read an answer to its end, nothing of it is left.
LEMMA EndOfAnswer ==
  ASSUME TypesOK, EndsOK, AnswersOK, ExchangeOK, ReadAnswer, BeginsWith(NUL, down),
         \A j \in 1..arg : Plain(args[j])
  PROVE  \/ /\ answers'[arg] = AnswerTo(args[arg]) /\ Tail(down) = <<>>
            /\ Server \in open /\ up = <<>>
            /\ \/ spc = "alloc" \/ (spc = "answer" /\ reply = <<>>)
               \/ spc = "read" /\ buf = <<>>
         \/ /\ answers'[arg] = AnswerTo(args[arg]) /\ Tail(down) = <<>>
            /\ Server \in open /\ spc = "error"
         \/ /\ answers'[arg] = AnswerTo(args[arg]) /\ Tail(down) = Failed
            /\ spc \in {"close", "returned"}
         \/ /\ answers'[arg] = Failed /\ Tail(down) = <<>>
            /\ spc \in {"close", "returned"}
<1>1. /\ arg \in DOMAIN args /\ cpc = "read" /\ Client \in open
      /\ answers'[arg] = Append(answers[arg], Head(down))
  BY ReadTakes
<1>2. down # <<>>
  BY DEF ReadAnswer
<1>3. /\ answers[arg] \in Seq(Bytes) /\ down \in Seq(Bytes) /\ Got \in Seq(Bytes)
      /\ args[arg] \in Seq(Chars) /\ reply \in Seq(Bytes)
      /\ Without(NUL, answers[arg])
  BY <1>1, GotBytes DEF TypesOK, AnswersOK, Without
<1>4. PICK a \in Seq(Bytes) : AnswerTo(args[arg]) = Append(a, NUL) /\ Without(NUL, a)
  BY <1>3, AnswerMarked
<1>5. BeginsWith(NUL, down) /\ NUL \in Bytes
  BY <1>2, Constants DEF BeginsWith
<1>6. answers'[arg] = Append(answers[arg], NUL)
  BY <1>1, <1>5 DEF BeginsWith
<1>7. Got # <<>>
  BY <1>2, <1>3, BothEmpty DEF Got
<1>8. ASSUME NEW r \in Seq(Bytes), NEW f \in Seq(Bytes), Got \o r = AnswerTo(args[arg]) \o f
      PROVE  answers'[arg] = AnswerTo(args[arg]) /\ Tail(down) \o r = f
  <2>1. Reads(answers[arg] \o down, r, a, NUL, f)
    BY <1>4, <1>8 DEF Got, Reads
  <2>2. Append(answers[arg], NUL) = Append(a, NUL) /\ Tail(down) \o r = f
    BY <1>3, <1>4, <1>5, <2>1, ReadsText
  <2> QED BY <1>4, <1>6, <2>2
<1>9. Tail(down) \in Seq(Bytes) /\ AnswerTo(args[arg]) \in Seq(Bytes) /\ <<>> \in Seq(Bytes) /\ Failed \in Seq(Bytes)
  BY <1>1, <1>2, <1>3, HeadTailProperties, Constants, GotBytes
<1>10. ASSUME Got = AnswerTo(args[arg])
       PROVE  answers'[arg] = AnswerTo(args[arg]) /\ Tail(down) = <<>>
  <2>1. Got \o <<>> = AnswerTo(args[arg]) \o <<>>
    BY <1>10
  <2> QED BY <1>8, <1>9, <2>1, ConcatEmptySeq
<1>11. CASE Listening
  BY <1>7, <1>11 DEF Listening
<1>12. CASE Answering
  <2>1. Got \o reply = AnswerTo(args[arg]) \o <<>>
    BY <1>9, <1>12, ConcatEmptySeq DEF Answering
  <2>2. answers'[arg] = AnswerTo(args[arg]) /\ Tail(down) \o reply = <<>>
    BY <1>3, <1>8, <1>9, <2>1
  <2> QED BY <1>3, <1>9, <1>12, <2>2, BothEmpty DEF Answering
<1>13. CASE Replied
  BY <1>10, <1>13 DEF Replied
<1>14. CASE GivingUp
  BY <1>7, <1>10, <1>14 DEF GivingUp
<1>15. CASE GivenUp
  <2>1. CASE Got = AnswerTo(args[arg]) \o Failed
    <3>1. Got \o <<>> = AnswerTo(args[arg]) \o Failed
      BY <1>3, <2>1, ConcatEmptySeq
    <3>2. answers'[arg] = AnswerTo(args[arg]) /\ Tail(down) \o <<>> = Failed
      BY <1>8, <1>9, <3>1
    <3> QED BY <1>9, <1>15, <3>2, ConcatEmptySeq DEF GivenUp
  <2>2. CASE Got = Failed
    <3> DEFINE e == <<ServerError>>
    <3>1. /\ e \in Seq(Bytes) /\ Failed = Append(e, NUL)
          /\ Without(NUL, e)
      BY Marks DEF Failed, Without
    <3> HIDE DEF e
    <3>2. Reads(answers[arg] \o down, <<>>, e, NUL, <<>>)
      BY <2>2, <3>1 DEF Got, Reads
    <3>3. Append(answers[arg], NUL) = Append(e, NUL) /\ Tail(down) \o <<>> = <<>>
      BY <1>3, <1>5, <1>9, <3>1, <3>2, ReadsText
    <3> QED BY <1>6, <1>9, <1>15, <3>1, <3>3, ConcatEmptySeq DEF GivenUp
  <2> QED BY <1>7, <1>15, <2>1, <2>2 DEF GivenUp
<1> QED BY <1>1, <1>11, <1>12, <1>13, <1>14, <1>15 DEF ExchangeOK

\* An answer that ends with a zero byte was read to its end.
LEMMA InStepStep == TypesOK /\ EndsOK /\ AnswersOK /\ ExchangeOK /\ InStep /\ [Next]_vars => InStep'
<1> SUFFICES ASSUME TypesOK, EndsOK, AnswersOK, ExchangeOK, InStep, [Next]_vars,
                    NEW k \in DOMAIN args', \A j \in 1..k : Plain(args'[j]),
                    k < arg', answers'[k] # <<>>, Last(answers'[k]) = NUL
             PROVE  answers'[k] \in {AnswerTo(args'[k]), <<ServerError, NUL>>}
  BY DEF InStep
<1>1. /\ Len(args) \in Nat /\ DOMAIN args = 1..Len(args) /\ arg \in 1..(Len(args) + 1)
  BY Arguments DEF TypesOK
<1>2. CASE args' = args /\ arg' = arg /\ answers' = answers
  BY <1>2 DEF InStep
<1>3. CASE ReadAnswer
  <2>1. args' = args /\ arg \in DOMAIN args
    BY <1>3, ReadTakes
  <2>2. CASE k # arg
    <3>1. answers'[k] = answers[k] /\ k < arg
      BY <1>1, <1>3, <2>1, <2>2, ReadTakes DEF ReadAnswer
    <3> QED BY <2>1, <3>1 DEF InStep
  <2>3. CASE k = arg
    <3>1. BeginsWith(NUL, down)
      BY <1>1, <1>3, <2>3 DEF ReadAnswer, BeginsWith
    <3> QED BY <1>3, <2>1, <2>3, <3>1, EndOfAnswer DEF Failed
  <2> QED BY <2>2, <2>3
<1>4. CASE ReadNothing
  <2>1. args' = args /\ answers' = answers /\ cpc = "read" /\ arg' = arg + 1 /\ arg \in DOMAIN args
    BY <1>4 DEF ReadNothing, EndsOK
  <2>2. CASE k < arg
    BY <2>1, <2>2 DEF InStep
  <2>3. CASE k = arg
    <3>1. /\ answers[arg] \in Seq(Bytes) /\ answers[arg] # <<>> /\ Last(answers[arg]) = NUL
          /\ \A i \in 1..Len(answers[arg]) : answers[arg][i] # NUL
      BY <2>1, <2>3, GotBytes DEF AnswersOK
    <3>2. Len(answers[arg]) \in 1..Len(answers[arg])
      BY <3>1, EmptySeq, LenProperties
    <3> QED BY <3>1, <3>2 DEF Last
  <2> QED BY <1>1, <2>1, <2>2, <2>3
<1>5. CASE SendName \/ SendNewline \/ SendClose \/ CloseClient \/ KillClient
  <2>1. args' = args /\ arg' = arg /\ answers' = answers
    BY <1>5 DEF SendName, SendNewline, SendClose, CloseClient, KillClient, Hangup
  <2> QED BY <1>2, <2>1
<1>6. CASE ServerNext
  <2>1. args' = args /\ arg' = arg /\ answers' = answers
    BY <1>6 DEF ServerNext, Alloc, AllocFails, ReadLine, ReadEnd, ReadFails, TestClose, Test,
                Answer, Answered, SayError, CloseServer, clientVars
  <2> QED BY <1>2, <2>1
<1>7. CASE UNCHANGED vars
  BY <1>2, <1>7 DEF vars, clientVars
<1> QED BY <1>3, <1>4, <1>5, <1>6, <1>7 DEF Next, ClientNext
(***************************************************************************)
(* An exchange, one step of one end at a time.                             *)
(***************************************************************************)

\* The exchange of this argument, with both ends where they can be.
Stage == Listening \/ Answering \/ Replied \/ GivingUp \/ GivenUp

Ready ==
  /\ TypesOK /\ EndsOK /\ Stage
  /\ arg \in DOMAIN args /\ Client \in open /\ Plain(args[arg])

LEMMA ReadyFacts ==
  ASSUME Ready
  PROVE  /\ cpc \in {"name", "newline", "read"}
         /\ Server \in open <=> spc # "returned"
         /\ answers[arg] \in Seq(Bytes) /\ down \in Seq(Bytes) /\ Got \in Seq(Bytes)
         /\ up \in Seq(Bytes) /\ buf \in Seq(Bytes) /\ reply \in Seq(Bytes)
         /\ args[arg] \in Seq(Chars) /\ args[arg] \in Seq(Bytes)
         /\ AnswerTo(args[arg]) \in Seq(Bytes)
BY Arguments, GotBytes DEF Ready, EndsOK, TypesOK

LEMMA BytesJoin ==
  ASSUME NEW s \in Seq(Bytes), NEW t \in Seq(Bytes), NEW u \in Seq(Bytes)
  PROVE  (s \o t) \o u = s \o (t \o u)
BY ConcatAssociative

\* In the middle of a line the client has not sent all of it.
LEMMA LineDone ==
  ASSUME Ready, Listening, spc = "test"
  PROVE  cpc = "read" /\ buf = args[arg] \o <<NL>> /\ up = <<>>
<1>1. /\ cpc \in {"name", "newline", "read"}
      /\ up \in Seq(Bytes) /\ buf \in Seq(Bytes) /\ args[arg] \in Seq(Bytes) /\ NL \in Bytes
  BY ReadyFacts, Marks
<1>2. buf # <<>> /\ Last(buf) = NL /\ buf \o up = Sent
  BY DEF Listening
<1>3. Without(NL, args[arg]) /\ EndsWith(NL, buf)
  BY <1>1, <1>2, LenProperties DEF Ready, Plain, Without, EndsWith
<1>4. /\ buf \o up # args[arg] /\ buf \o up # <<>>
      /\ buf \o up = Append(args[arg], NL) => buf = Append(args[arg], NL) /\ up = <<>>
  BY <1>1, <1>3, WholeLine
<1>5. args[arg] \o <<NL>> = Append(args[arg], NL)
  BY <1>1, AppendIsConcat
<1> QED BY <1>1, <1>2, <1>4, <1>5 DEF Sent

\* The client writes more of the line.
LEMMA ClientSends ==
  ASSUME Ready, NEW bytes \in Seq(Bytes), NEW to \in {"newline", "read"},
         ClientWrites(bytes, to), cpc # "read", Sent' = Sent \o bytes,
         UNCHANGED <<args, arg, answers, serverVars>>, Client \in open'
  PROVE  Stage'
<1>1. Server # Client
  BY Marks
<1>2. Got' = Got /\ spc' = spc /\ buf' = buf /\ reply' = reply
  BY DEF Got, ClientWrites, serverVars
<1>3. CASE Listening
  <2>1. spc # "test"
    BY <1>3, LineDone
  <2>2. Server \in open
    BY <1>3 DEF Listening
  <2>3. up' = up \o bytes /\ open' = open
    BY <1>1, <2>2 DEF ClientWrites
  <2>4. buf \o (up \o bytes) = (buf \o up) \o bytes
    <3>1. buf \in Seq(Bytes) /\ up \in Seq(Bytes)
      BY ReadyFacts
    <3> QED BY <3>1, BytesJoin
  <2>5. Listening'
    BY <1>2, <1>3, <2>1, <2>3, <2>4 DEF Listening
  <2> QED BY <2>5 DEF Stage
<1>4. CASE Answering \/ Replied
  BY <1>4 DEF Answering, Replied
<1>5. CASE GivingUp
  <2>1. Server \in open' /\ Got = <<>>
    BY <1>1, <1>5 DEF GivingUp, ClientWrites
  <2> QED BY <1>2, <1>5, <2>1 DEF GivingUp, Stage
<1>6. CASE GivenUp
  BY <1>2, <1>6 DEF GivenUp, Stage
<1> QED BY <1>3, <1>4, <1>5, <1>6 DEF Ready, Stage

\* The client reads a byte that is not the last of an answer.
LEMMA ClientReads ==
  ASSUME Ready, ReadAnswer, Head(down) # NUL
  PROVE  Stage'
<1>1. PICK h : h = Head(down)
  OBVIOUS
<1>2. /\ down # <<>> /\ down' = Tail(down) /\ cpc' = cpc /\ arg' = arg
      /\ answers'[arg] = Append(answers[arg], h)
      /\ UNCHANGED <<args, spc, buf, reply, up, open>>
  BY <1>1, ReadTakes DEF ReadAnswer, Ready
<1>3. Append(answers[arg], h) \o Tail(down) = answers[arg] \o down
  <2>1. answers[arg] \in Seq(Bytes) /\ down \in Seq(Bytes)
    BY ReadyFacts
  <2> QED BY <1>1, <1>2, <2>1, ByteMoves
<1>4. Got' = Got /\ Sent' = Sent
  BY <1>2, <1>3 DEF Got, Sent
<1> QED BY <1>2, <1>4 DEF Ready, Stage, Listening, Answering, Replied, GivingUp, GivenUp

\* The server takes a byte of the line.
LEMMA ServerReads ==
  ASSUME Ready, ReadLine
  PROVE  Stage'
<1>1. PICK h : h = Head(up)
  OBVIOUS
<1>2. /\ spc = "read" /\ up # <<>> /\ up' = Tail(up) /\ buf' = Append(buf, h)
      /\ spc' \in {"read", "test", "error"}
      /\ spc' = "test" => h = NL
      /\ UNCHANGED <<args, arg, cpc, answers, down, open>>
  BY <1>1 DEF ReadLine, Store, clientVars
<1>3. Got' = Got /\ Sent' = Sent
  BY <1>2 DEF Got, Sent
<1>4. Listening
  BY <1>2 DEF Ready, Stage, Answering, Replied, GivingUp, GivenUp, Listening
<1>5. Append(buf, h) \o Tail(up) = buf \o up /\ h \in Bytes
  <2>1. buf \in Seq(Bytes) /\ up \in Seq(Bytes) /\ up # <<>>
    BY <1>2, ReadyFacts
  <2> QED BY <1>1, <2>1, ByteMoves
<1>6. buf' # <<>> /\ Last(buf') = h
  <2>1. buf \in Seq(Bytes) /\ Len(buf) \in Nat
    BY ReadyFacts, LenProperties
  <2>2. Len(Append(buf, h)) = Len(buf) + 1 /\ Append(buf, h)[Len(buf) + 1] = h
    BY <1>5, <2>1, AppendProperties
  <2> QED BY <1>2, <2>1, <2>2 DEF Last
<1>7. CASE spc' = "error"
  BY <1>2, <1>3, <1>4, <1>7 DEF Listening, GivingUp, Stage
<1>8. CASE spc' \in {"read", "test"}
  <2>1. buf' \o up' = Sent'
    BY <1>2, <1>3, <1>4, <1>5 DEF Listening
  <2>2. spc' = "test" => buf' # <<>> /\ Last(buf') = NL
    BY <1>2, <1>6
  <2>3. Listening'
    BY <1>2, <1>3, <1>4, <1>8, <2>1, <2>2 DEF Listening
  <2> QED BY <2>3 DEF Stage
<1> QED BY <1>2, <1>7, <1>8

\* The server takes the line for the name that was sent.
LEMMA ServerTests ==
  ASSUME Ready, TestClose \/ Test
  PROVE  Stage'
<1>1. spc = "test"
  BY DEF TestClose, Test
<1>2. Listening
  BY <1>1 DEF Ready, Stage, Answering, Replied, GivingUp, GivenUp
<1>3. cpc = "read" /\ buf = args[arg] \o <<NL>> /\ up = <<>>
  BY <1>1, <1>2, LineDone
<1>4. args[arg] \in Seq(Chars) /\ args[arg] \in Seq(Bytes) /\ Plain(args[arg])
  BY ReadyFacts DEF Ready
<1>5. CASE TestClose
  <2> DEFINE line == args[arg] \o <<NL>>
  <2>1. line = <<Close, NL>>
    BY <1>3, <1>5 DEF TestClose
  <2>2. /\ Len(args[arg]) \in Nat /\ Len(line) = Len(args[arg]) + 1
        /\ \A i \in 1..Len(args[arg]) : line[i] = args[arg][i]
    BY <1>4, Marks, Single, ConcatProperties, LenProperties
  <2> HIDE DEF line
  <2>3. Len(line) = 2 /\ line[1] = Close
    BY <2>1
  <2>4. Len(args[arg]) = 1
    <3>1. PICK n \in Nat : n = Len(args[arg])
      BY <2>2
    <3>2. n + 1 = 2
      BY <2>2, <2>3, <3>1
    <3>3. n = 1
      BY <3>2
    <3> QED BY <3>1, <3>3
  <2>5. args[arg][1] = Close
    BY <2>2, <2>3, <2>4
  <2>6. args[arg] = <<Close>>
    BY <1>4, <2>4, <2>5
  <2> QED BY <1>4, <2>6 DEF Plain
<1>6. CASE Test
  <2>1. Name(buf) = args[arg]
    BY <1>3, <1>4, NameOfLine
  <2>2. /\ spc' = "answer" /\ reply' = AnswerTo(args[arg])
        /\ UNCHANGED <<args, arg, cpc, answers, up, down, open>>
    BY <1>6, <2>1 DEF Test, clientVars, wireVars
  <2>3. Got' = <<>>
    BY <1>2, <2>2 DEF Listening, Got
  <2>4. Got' \o reply' = AnswerTo(args[arg])
    BY <2>2, <2>3, ReadyFacts, ConcatEmptySeq
  <2>5. Answering'
    BY <1>2, <1>3, <2>2, <2>4 DEF Answering, Listening
  <2> QED BY <2>5 DEF Stage
<1> QED BY <1>5, <1>6

\* Something is written behind what the client has been sent.
LEMMA Behind ==
  ASSUME Ready, NEW bytes \in Seq(Bytes), ServerWrites(bytes), spc # "returned",
         UNCHANGED <<args, arg, answers>>
  PROVE  Got' = Got \o bytes /\ UNCHANGED <<up, open>>
<1>1. open = {Client, Server}
  BY ReadyFacts DEF Ready, TypesOK
<1>2. down' = down \o bytes /\ UNCHANGED <<up, open>>
  BY <1>1 DEF ServerWrites
<1>3. (answers[arg] \o down) \o bytes = answers[arg] \o (down \o bytes)
  <2>1. answers[arg] \in Seq(Bytes) /\ down \in Seq(Bytes)
    BY ReadyFacts
  <2> QED BY <2>1, BytesJoin
<1> QED BY <1>2, <1>3 DEF Got

\* The server writes a byte of the answer.
LEMMA ServerAnswers ==
  ASSUME Ready, Answer
  PROVE  Stage'
<1>1. PICK h : h = Head(reply)
  OBVIOUS
<1>2. /\ spc = "answer" /\ reply # <<>> /\ ServerWrites(<<h>>) /\ reply' = Tail(reply)
      /\ UNCHANGED <<args, arg, cpc, answers, spc>>
  BY <1>1 DEF Answer, clientVars
<1>3. Answering
  BY <1>2 DEF Ready, Stage, Listening, Replied, GivingUp, GivenUp
<1>4. Append(Got, h) \o Tail(reply) = Got \o reply /\ h \in Bytes
  <2>1. Got \in Seq(Bytes) /\ reply \in Seq(Bytes) /\ reply # <<>>
    BY <1>2, ReadyFacts
  <2> QED BY <1>1, <2>1, ByteMoves
<1>5. <<h>> \in Seq(Bytes) /\ Got \o <<h>> = Append(Got, h)
  BY <1>4, ReadyFacts, Single, AppendIsConcat
<1>6. Got' = Append(Got, h) /\ UNCHANGED <<up, open>>
  BY <1>2, <1>5, Behind
<1>7. Answering'
  BY <1>2, <1>3, <1>4, <1>6 DEF Answering
<1> QED BY <1>7 DEF Stage

\* do_work gives up with its message.
LEMMA ServerSaysError ==
  ASSUME Ready, SayError
  PROVE  Stage'
<1>1. /\ spc = "error" /\ spc' = "close" /\ ServerWrites(Failed)
      /\ UNCHANGED <<args, arg, cpc, answers>>
  BY DEF SayError, clientVars, Failed
<1>2. GivingUp
  BY <1>1 DEF Ready, Stage, Listening, Answering, Replied, GivenUp
<1>3. Got' = Got \o Failed
  BY <1>1, Behind, Constants
<1>4. Got = <<>> => Got' = Failed
  BY <1>3, Constants, ConcatEmptySeq
<1>5. GivenUp'
  BY <1>1, <1>2, <1>3, <1>4 DEF GivingUp, GivenUp, Failed
<1> QED BY <1>5 DEF Stage

\* The steps of do_work that neither read nor write.
LEMMA ServerMoves ==
  ASSUME Ready, Alloc \/ AllocFails \/ ReadEnd \/ ReadFails \/ Answered \/ CloseServer
  PROVE  Stage'
<1>1. UNCHANGED <<args, arg, cpc, answers, up, down>>
  BY DEF Alloc, AllocFails, ReadEnd, ReadFails, Answered, CloseServer, clientVars, wireVars
<1>2. Got' = Got /\ Sent' = Sent
  BY <1>1 DEF Got, Sent
<1>3. CASE Alloc
  <2>1. spc = "alloc" /\ spc' = "read" /\ buf' = <<>> /\ open' = open
    BY <1>3 DEF Alloc, wireVars
  <2>2. buf' \o up' = up
    BY <1>1, <2>1, ReadyFacts, ConcatEmptySeq
  <2>3. CASE Listening
    BY <1>2, <2>1, <2>2, <2>3 DEF Listening, Stage
  <2>4. CASE Replied
    BY <1>1, <1>2, <2>1, <2>4 DEF Replied, Stage
  <2> QED BY <2>1, <2>3, <2>4 DEF Ready, Stage, Answering, GivingUp, GivenUp
<1>4. CASE AllocFails
  <2>1. spc = "alloc" /\ spc' = "error" /\ open' = open
    BY <1>4 DEF AllocFails, wireVars
  <2> QED BY <1>1, <1>2, <2>1
          DEF Ready, Stage, Listening, Answering, Replied, GivingUp, GivenUp
<1>5. CASE ReadEnd \/ ReadFails
  BY <1>5, ReadyFacts DEF ReadEnd, ReadFails, Ready
<1>6. CASE Answered
  <2>1. spc = "answer" /\ reply = <<>> /\ spc' = "alloc" /\ open' = open
    BY <1>6 DEF Answered, wireVars
  <2>2. CASE Listening
    BY <1>1, <1>2, <2>1, <2>2 DEF Listening, Stage
  <2>3. CASE Answering
    <3>1. Got = AnswerTo(args[arg])
      BY <2>1, <2>3, ReadyFacts, ConcatEmptySeq DEF Answering
    <3> QED BY <1>1, <1>2, <2>1, <2>3, <3>1 DEF Answering, Replied, Stage
  <2> QED BY <2>1, <2>2, <2>3 DEF Ready, Stage, Replied, GivingUp, GivenUp
<1>7. CASE CloseServer
  <2>1. spc = "close" /\ spc' = "returned"
    BY <1>7 DEF CloseServer
  <2> QED BY <1>1, <1>2, <2>1
          DEF Ready, Stage, Listening, Answering, Replied, GivingUp, GivenUp
<1> QED BY <1>3, <1>4, <1>5, <1>6, <1>7

\* On to the next argument: nothing is left of the exchange before.
LEMMA NextExchange ==
  ASSUME TypesOK, EndsOK, AnswersOK, ExchangeOK,
         ReadNothing \/ (ReadAnswer /\ Head(down) = NUL),
         \A j \in 1..arg : Plain(args[j]), arg' \in DOMAIN args
  PROVE  Stage'
<1>1. /\ arg \in DOMAIN args /\ arg' = arg + 1 /\ cpc' = "name" /\ args' = args
      /\ answers'[arg + 1] = answers[arg + 1]
      /\ UNCHANGED <<spc, buf, reply, up, open>>
  <2>1. Len(args) \in Nat /\ DOMAIN args = 1..Len(args)
    BY Arguments
  <2>2. CASE ReadNothing
    BY <2>1, <2>2 DEF ReadNothing, EndsOK, serverVars
  <2>3. CASE ReadAnswer /\ Head(down) = NUL
    <3>1. arg \in DOMAIN args /\ arg' = arg + 1 /\ cpc' = "name"
      BY <2>3, ReadTakes DEF ReadAnswer
    <3> QED BY <2>1, <2>3, <3>1, ReadTakes
  <2> QED BY <2>2, <2>3
<1>2. answers[arg + 1] = <<>>
  <2>1. arg + 1 > arg
    BY <1>1, Arguments
  <2> QED BY <1>1, <2>1 DEF AnswersOK
<1>3. down' \in Seq(Bytes) /\ Got' = down' /\ Sent' = <<>>
  <2>1. down' \in Seq(Bytes)
    <3>1. CASE ReadNothing
      BY <3>1, Constants DEF ReadNothing
    <3>2. CASE ReadAnswer
      BY <3>2, HeadTailProperties DEF ReadAnswer, TypesOK
    <3> QED BY <3>1, <3>2
  <2> QED BY <1>1, <1>2, <2>1, ConcatEmptySeq DEF Got, Sent
<1>4. CASE ReadNothing
  <2>1. down' = <<>> /\ Server \notin open /\ cpc = "read" /\ Client \in open
    BY <1>4 DEF ReadNothing, EndsOK
  <2>2. spc = "returned"
    BY <2>1 DEF EndsOK
  <2> QED BY <1>1, <1>3, <2>1, <2>2 DEF GivenUp, Stage
<1>5. CASE ReadAnswer /\ Head(down) = NUL
  <2>1. BeginsWith(NUL, down) /\ down' = Tail(down)
    BY <1>5 DEF ReadAnswer, BeginsWith
  <2>2. CASE /\ Tail(down) = <<>> /\ Server \in open /\ up = <<>>
             /\ \/ spc = "alloc" \/ (spc = "answer" /\ reply = <<>>)
                \/ spc = "read" /\ buf = <<>>
    <3>1. spc = "read" => buf' \o up' = <<>>
      BY <1>1, <2>2, Constants, ConcatEmptySeq
    <3>2. Listening'
      BY <1>1, <1>3, <2>1, <2>2, <3>1 DEF Listening
    <3> QED BY <3>2 DEF Stage
  <2>3. CASE Tail(down) = <<>> /\ Server \in open /\ spc = "error"
    BY <1>1, <1>3, <2>1, <2>3 DEF GivingUp, Stage
  <2>4. CASE Tail(down) \in {<<>>, Failed} /\ spc \in {"close", "returned"}
    <3>1. Got' \in {<<>>, Failed} /\ spc' \in {"close", "returned"}
      BY <1>1, <1>3, <2>1, <2>4
    <3>2. GivenUp'
      BY <3>1 DEF GivenUp, Failed
    <3> QED BY <3>2 DEF Stage
  <2> QED BY <1>5, <2>1, <2>2, <2>3, <2>4, EndOfAnswer
<1> QED BY <1>4, <1>5

LEMMA ExchangeStep ==
  TypesOK /\ EndsOK /\ AnswersOK /\ ExchangeOK /\ [Next]_vars => ExchangeOK'
<1> SUFFICES ASSUME TypesOK, EndsOK, AnswersOK, ExchangeOK, [Next]_vars,
                    arg' \in DOMAIN args', Client \in open', \A j \in 1..arg' : Plain(args'[j])
             PROVE  Stage'
  BY DEF ExchangeOK, Stage
<1>1. Len(args) \in Nat /\ DOMAIN args = 1..Len(args) /\ arg \in 1..(Len(args) + 1)
  BY Arguments DEF TypesOK
<1>2. Client # Server
  BY Marks
<1>3. ASSUME UNCHANGED <<args, arg>>, Client \in open
      PROVE  Ready
  BY <1>1, <1>3 DEF Ready, Stage, ExchangeOK
<1>4. CASE SendName
  <2>1. args' = args /\ arg' = arg /\ Client \in open /\ cpc = "name"
    BY <1>4 DEF SendName, ClientWrites
  <2>2. Ready
    BY <1>3, <2>1
  <2>3. ClientWrites(args[arg], "newline") /\ cpc' # "killed"
    BY <1>2, <1>4 DEF SendName, ClientWrites
  <2>4. cpc' = "newline"
    BY <2>3 DEF ClientWrites
  <2>5. Sent' = Sent \o args[arg]
    BY <2>1, <2>2, <2>4, ReadyFacts, ConcatEmptySeq DEF Sent
  <2> QED BY <1>4, <2>1, <2>2, <2>3, <2>5, ReadyFacts, ClientSends DEF SendName
<1>5. CASE SendNewline
  <2>1. args' = args /\ arg' = arg /\ Client \in open /\ cpc = "newline"
    BY <1>5 DEF SendNewline, ClientWrites
  <2>2. Ready
    BY <1>3, <2>1
  <2>3. ClientWrites(<<NL>>, "read") /\ cpc' # "killed"
    BY <1>2, <1>5 DEF SendNewline, ClientWrites
  <2>4. cpc' = "read"
    BY <2>3 DEF ClientWrites
  <2>5. Sent' = Sent \o <<NL>>
    BY <2>1, <2>4 DEF Sent
  <2> QED BY <1>5, <2>1, <2>2, <2>3, <2>5, Constants, ClientSends DEF SendNewline
<1>6. CASE ReadAnswer
  <2>1. CASE Head(down) = NUL
    <3>1. args' = args /\ arg' = arg + 1
      BY <1>6, <2>1 DEF ReadAnswer
    <3> QED BY <1>1, <1>6, <2>1, <3>1, NextExchange
  <2>2. CASE Head(down) # NUL
    <3>1. args' = args /\ arg' = arg /\ Client \in open
      BY <1>6, <2>2 DEF ReadAnswer
    <3> QED BY <1>3, <1>6, <2>2, <3>1, ClientReads
  <2> QED BY <2>1, <2>2
<1>7. CASE ReadNothing
  <2>1. args' = args /\ arg' = arg + 1
    BY <1>7 DEF ReadNothing
  <2> QED BY <1>1, <1>7, <2>1, NextExchange
<1>8. CASE SendClose
  BY <1>1, <1>8 DEF SendClose
<1>9. CASE CloseClient \/ KillClient
  BY <1>9 DEF CloseClient, KillClient, Hangup
<1>10. CASE ServerNext
  <2>1. UNCHANGED <<args, arg>> /\ Client \in open
    BY <1>10 DEF ServerNext, Alloc, AllocFails, ReadLine, ReadEnd, ReadFails, TestClose, Test,
                 Answer, Answered, SayError, CloseServer, ServerWrites, clientVars, wireVars
  <2>2. Ready
    BY <1>3, <2>1
  <2> QED BY <1>10, <2>2, ServerReads, ServerTests, ServerAnswers, ServerSaysError, ServerMoves
          DEF ServerNext
<1>11. CASE UNCHANGED vars
  <2>1. UNCHANGED <<args, arg, open>>
    BY <1>11 DEF vars, clientVars, wireVars
  <2>2. Ready
    BY <1>3, <2>1
  <2>3. Got' = Got /\ Sent' = Sent
    BY <1>11 DEF vars, clientVars, wireVars, Got, Sent
  <2> QED BY <1>11, <2>1, <2>2, <2>3
          DEF vars, clientVars, serverVars, wireVars,
              Ready, Stage, Listening, Answering, Replied, GivingUp, GivenUp
<1> QED BY <1>4, <1>5, <1>6, <1>7, <1>8, <1>9, <1>10, <1>11 DEF Next, ClientNext

(***************************************************************************)
(* The theorems.                                                           *)
(***************************************************************************)

LEMMA InitInv == Init => IInv
<1> SUFFICES ASSUME Init
             PROVE  IInv
  OBVIOUS
<1>1. /\ args \in Seq(Seq(Chars)) /\ Len(args) \in Nat /\ DOMAIN args = 1..Len(args)
  BY ArgListsAssumption, LenProperties DEF Init
<1>2. TypesOK
  <2>1. args \in ArgLists /\ arg \in 1..(Len(args) + 1)
    BY <1>1 DEF Init
  <2>2. answers \in [DOMAIN args -> Seq(Bytes)]
    BY Constants DEF Init
  <2>3. /\ cpc = "name" /\ spc = "alloc" /\ cap \in Nat /\ reset \in BOOLEAN
        /\ open \subseteq {Client, Server}
    BY DEF Init
  <2>4. /\ buf \in Seq(Bytes) /\ c \in Bytes /\ reply \in Seq(Bytes)
        /\ up \in Seq(Bytes) /\ down \in Seq(Bytes)
    BY Constants DEF Init
  <2> QED BY <2>1, <2>2, <2>3, <2>4 DEF TypesOK
<1>3. RoomOK /\ EndsOK /\ AnswersOK /\ InStep
  BY <1>1, Marks DEF Init, RoomOK, EndsOK, AnswersOK, InStep
<1>4. ExchangeOK
  <2>1. ASSUME arg \in DOMAIN args, Client \in open
        PROVE  Listening
    <3>1. open = {Client, Server} /\ answers[arg] = <<>> /\ down = <<>>
      BY <2>1 DEF Init
    <3>2. Got = <<>>
      BY <3>1, Constants, ConcatEmptySeq DEF Got
    <3> QED BY <3>1, <3>2 DEF Init, Listening, Sent
  <2> QED BY <2>1 DEF ExchangeOK
<1> QED BY <1>2, <1>3, <1>4 DEF IInv

\* What holds before and after every step of the two ends.
THEOREM Invariant == Spec => []IInv
<1>1. IInv /\ [Next]_vars => IInv'
  BY TypesStep, RoomStep, EndsStep, AnswersStep, ExchangeStep, InStepStep DEF IInv
<1> QED BY <1>1, InitInv, PTL DEF Spec

\* do_work never stores a character, nor scans a line, past the end of its
\* buffer: it is doubled while there are two places left.
THEOREM RoomCorrect == Spec => []RoomInBuffer
<1>1. IInv => RoomInBuffer
  <2> SUFFICES ASSUME IInv
               PROVE  RoomInBuffer
    OBVIOUS
  <2>1. Len(buf) \in Nat /\ cap \in Nat
    BY LenProperties DEF IInv, TypesOK
  <2> QED BY <2>1 DEF IInv, RoomOK, RoomInBuffer
<1> QED BY <1>1, Invariant, PTL

\* The client and do_work stay in step, for arguments that are plain lines:
\* what the client prints for one argument is the answer to that argument, or
\* the message of a server that gave up, wherever either end was cut off.
THEOREM StepCorrect == Spec => []InStep
<1>1. IInv => InStep
  BY DEF IInv
<1> QED BY <1>1, Invariant, PTL
=============================================================================
