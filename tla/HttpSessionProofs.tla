-------------------------- MODULE HttpSessionProofs --------------------------
(* Theorems about HttpSession, for every value of its constants. *)
EXTENDS HttpSession, TLAPS

-----------------------------------------------------------------------------
(* Parts of a request. *)

\* Of the body only.
Plain(r) == r.line = 0 /\ r.head = 0

LEMMA NothingFacts ==
  /\ Nothing \in Parts /\ Size(Nothing) = 0
  /\ \A r \in Parts : Size(r) \in Nat /\ (r = Nothing <=> Size(r) = 0)
<1>1. Nothing \in Parts /\ Size(Nothing) = 0
  BY DEF Nothing, Parts, Size
<1>2. ASSUME NEW r \in Parts PROVE Size(r) \in Nat /\ (r = Nothing <=> Size(r) = 0)
  BY DEF Nothing, Parts, Size
<1> QED
  BY <1>1, <1>2

\* The first n units of r, and what is left.
LEMMA FirstFacts ==
  ASSUME NEW r \in Parts, NEW n \in Nat, n <= Size(r)
  PROVE  /\ First(r, n) \in Parts /\ Minus(r, First(r, n)) \in Parts
         /\ Size(First(r, n)) = n
         /\ Minus(r, First(r, n)).line = r.line - First(r, n).line
         /\ Minus(r, First(r, n)).head = r.head - First(r, n).head
         /\ Minus(r, First(r, n)).body = r.body - First(r, n).body
         /\ n > 0 /\ r.line = 1 => First(r, n).line = 1
<1> DEFINE l == Least(n, r.line)
           h == Least(n - l, r.head)
<1>1. r.line \in Nat /\ r.head \in Nat /\ r.body \in Nat /\ n <= r.line + r.head + r.body
  BY DEF Parts, Size
<1>2. /\ l \in Nat /\ l <= n /\ l <= r.line
      /\ h \in Nat /\ h <= n - l /\ h <= r.head /\ n - l - h <= r.body
      /\ n > 0 /\ r.line = 1 => l = 1
  BY <1>1 DEF Least
<1>3. First(r, n) = [line |-> l, head |-> h, body |-> n - l - h]
  BY DEF First
<1> HIDE DEF l, h
<1>4. n - l - h \in Nat
  BY <1>2
<1> QED
  BY <1>1, <1>2, <1>3, <1>4 DEF Minus, Parts, Size

LEMMA PlusFacts ==
  ASSUME NEW r \in Parts, NEW s \in Parts
  PROVE  /\ Plus(r, s) \in Parts /\ Size(Plus(r, s)) = Size(r) + Size(s)
         /\ Plus(r, s).line = r.line + s.line /\ Plus(r, s).head = r.head + s.head
         /\ Plus(r, s).body = r.body + s.body
BY DEF Plus, Parts, Size

-----------------------------------------------------------------------------
(* Running totals of the bodies of records. *)

\* k units, and then those of the records in q, one after the other, never come to
\* more than m.  (at[i] is the total before the i-th record.)
Adds(k, q, m) ==
    \E at \in [1 .. Len(q) + 1 -> Nat] :
        /\ at[1] = k
        /\ \A i \in 1 .. Len(q) : at[i + 1] = at[i] + q[i].body
        /\ \A i \in 1 .. Len(q) + 1 : at[i] <= m

LEMMA AddsAtMost ==
  ASSUME NEW k, NEW q \in Seq(Parts), NEW m \in Int, Adds(k, q, m)
  PROVE  k \in Nat /\ k <= m
<1>1. Len(q) \in Nat /\ 1 \in 1 .. Len(q) + 1
  OBVIOUS
<1> QED
  BY <1>1 DEF Adds

LEMMA AddsNone ==
  ASSUME NEW k \in Nat, NEW m \in Int, k <= m
  PROVE  Adds(k, <<>>, m)
<1> DEFINE at == [i \in 1 .. 1 |-> k]
<1>1. Len(<<>>) = 0
  OBVIOUS
<1>2. /\ at \in [1 .. Len(<<>>) + 1 -> Nat] /\ at[1] = k
      /\ \A i \in 1 .. Len(<<>>) + 1 : at[i] <= m
  BY <1>1
<1>3. \A i \in 1 .. Len(<<>>) : at[i + 1] = at[i] + <<>>[i].body
  BY <1>1
<1> HIDE DEF at
<1> QED
  BY <1>2, <1>3 DEF Adds

LEMMA AddsAppend ==
  ASSUME NEW k, NEW q \in Seq(Parts), NEW m \in Int, Adds(k, q, m), NEW r \in Parts
  PROVE  Adds(k, Append(q, r), m + r.body)
<1>1. PICK at \in [1 .. Len(q) + 1 -> Nat] :
             /\ at[1] = k
             /\ \A i \in 1 .. Len(q) : at[i + 1] = at[i] + q[i].body
             /\ \A i \in 1 .. Len(q) + 1 : at[i] <= m
  BY DEF Adds
<1>2. /\ Len(q) \in Nat /\ r.body \in Nat
      /\ Len(Append(q, r)) = Len(q) + 1
      /\ \A i \in 1 .. Len(q) : Append(q, r)[i] = q[i]
      /\ Append(q, r)[Len(q) + 1] = r
  BY DEF Parts
<1> DEFINE len == Len(q)
           then == [i \in 1 .. len + 2 |-> IF i <= len + 1 THEN at[i] ELSE at[len + 1] + r.body]
<1>3. len + 1 \in 1 .. len + 1 /\ at[len + 1] \in Nat
  BY <1>2
<1>4. then \in [1 .. len + 2 -> Nat]
  BY <1>2, <1>3
<1>5. then[1] = k
  BY <1>1, <1>2
<1>6. ASSUME NEW i \in 1 .. len + 1 PROVE then[i + 1] = then[i] + Append(q, r)[i].body
  <2>1. CASE i = len + 1
    BY <1>2, <2>1
  <2>2. CASE i # len + 1
    BY <1>1, <1>2, <2>2
  <2> QED
    BY <2>1, <2>2
<1>7. ASSUME NEW i \in 1 .. len + 2 PROVE then[i] <= m + r.body
  BY <1>1, <1>2, <1>3
<1> DEFINE more == Append(q, r)
<1>8. /\ then \in [1 .. Len(more) + 1 -> Nat]
      /\ \A i \in 1 .. Len(more) : then[i + 1] = then[i] + more[i].body
      /\ \A i \in 1 .. Len(more) + 1 : then[i] <= m + r.body
  <2> HIDE DEF then
  <2> QED
    BY <1>2, <1>4, <1>6, <1>7
<1> HIDE DEF then, more
<1>9. Adds(k, more, m + r.body)
  BY <1>5, <1>8 DEF Adds
<1> QED
  BY <1>9 DEF more

LEMMA AddsTail ==
  ASSUME NEW k, NEW q \in Seq(Parts), NEW m \in Int, Adds(k, q, m), q # <<>>
  PROVE  Adds(k + Head(q).body, Tail(q), m)
<1>1. PICK at \in [1 .. Len(q) + 1 -> Nat] :
             /\ at[1] = k
             /\ \A i \in 1 .. Len(q) : at[i + 1] = at[i] + q[i].body
             /\ \A i \in 1 .. Len(q) + 1 : at[i] <= m
  BY DEF Adds
<1>2. /\ Len(q) \in Nat /\ Len(q) > 0 /\ Head(q) = q[1]
      /\ Len(Tail(q)) = Len(q) - 1
      /\ \A i \in 1 .. Len(q) - 1 : Tail(q)[i] = q[i + 1]
  OBVIOUS
<1> DEFINE len == Len(q)
           then == [i \in 1 .. len |-> at[i + 1]]
<1>3. then \in [1 .. Len(Tail(q)) + 1 -> Nat]
  BY <1>2
<1>4. then[1] = k + Head(q).body
  BY <1>1, <1>2
<1>5. ASSUME NEW i \in 1 .. Len(Tail(q)) PROVE then[i + 1] = then[i] + Tail(q)[i].body
  BY <1>1, <1>2
<1>6. ASSUME NEW i \in 1 .. Len(Tail(q)) + 1 PROVE then[i] <= m
  BY <1>1, <1>2
<1> DEFINE rest == Tail(q)
<1> HIDE DEF then, rest
<1>7. Adds(k + Head(q).body, rest, m)
  BY <1>3, <1>4, <1>5, <1>6 DEF Adds, rest
<1> QED
  BY <1>7 DEF rest

\* When all is there, nothing follows.
LEMMA AddsFull ==
  ASSUME NEW q \in Seq(Parts), NEW m \in Int, Adds(m, q, m),
         \A i \in 1 .. Len(q) : Plain(q[i]) /\ Size(q[i]) > 0
  PROVE  q = <<>>
<1> SUFFICES ASSUME q # <<>> PROVE FALSE
  OBVIOUS
<1>1. q[1] \in Parts /\ 1 \in 1 .. Len(q) /\ Head(q) = q[1] /\ Tail(q) \in Seq(Parts)
  OBVIOUS
<1>2. q[1].body > 0
  BY <1>1 DEF Plain, Size, Parts
<1>3. Adds(m + q[1].body, Tail(q), m)
  BY <1>1, AddsTail
<1>4. m + q[1].body <= m
  BY <1>1, <1>3, AddsAtMost
<1> QED
  BY <1>1, <1>2, <1>4 DEF Parts

-----------------------------------------------------------------------------
(* Types. *)

LEMMA AskType ==
  ASSUME TypeOK, NEW k \in Kinds, NEW h \in Headers, NEW b \in Nat, Ask(k, h, b)
  PROVE  TypeOK'
<1>1. h \in Nat
  BY HttpAssumption
<1>2. [line |-> 1, head |-> h, body |-> b] \in Parts
  BY <1>1 DEF Parts
<1> QED
  BY <1>2 DEF TypeOK, Ask, readVars

LEMMA SendType ==
  ASSUME TypeOK, NEW n \in 1 .. Size(unsent), Send(n)
  PROVE  TypeOK'
<1>1. Size(unsent) \in Nat
  BY NothingFacts DEF TypeOK
<1>2. n \in Nat /\ n <= Size(unsent) /\ unsent \in Parts
  BY <1>1 DEF TypeOK
<1>3. First(unsent, n) \in Parts /\ Minus(unsent, First(unsent, n)) \in Parts
  BY <1>2, FirstFacts
<1>4. arrived' \in Seq(Parts) /\ unsent' \in Parts
  BY <1>3 DEF TypeOK, Send
<1>5. disturbed' \subseteq {"header", "body", "skip", "read"}
  BY DEF TypeOK, Send
<1> QED
  BY <1>4, <1>5 DEF TypeOK, Send

\* What is read from: the rest of a record, or the next one.
From == IF record # Nothing THEN record ELSE Head(arrived)

LEMMA ReadsFacts ==
  ASSUME TypeOK, Reads, \A i \in 1 .. Len(arrived) : Size(arrived[i]) > 0
  PROVE  /\ From \in Parts /\ got' \in Parts /\ record' \in Parts
         /\ arrived' \in Seq(Parts)
         /\ got'.line + record'.line = got.line + From.line
         /\ got'.head + record'.head = got.head + From.head
         /\ got'.body + record'.body = got.body + From.body
         /\ From.line = 1 => got'.line = got.line + 1
         /\ got.line <= got'.line
         /\ got' # Nothing
<1> DEFINE size == Least(Size(From), Block)
           read == First(From, size)
<1>1. From \in Parts /\ Size(From) > 0
  <2>1. CASE record # Nothing
    BY <2>1, NothingFacts DEF TypeOK, From
  <2>2. CASE record = Nothing
    <3>1. arrived # <<>> /\ arrived \in Seq(Parts)
      BY <2>2 DEF TypeOK, Reads
    <3>2. Head(arrived) = arrived[1] /\ 1 \in 1 .. Len(arrived) /\ Head(arrived) \in Parts
      BY <3>1
    <3> QED
      BY <2>2, <3>2 DEF From
  <2> QED
    BY <2>1, <2>2
<1>2. size \in Nat /\ 0 < size /\ size <= Size(From)
  BY <1>1, NothingFacts, HttpAssumption DEF Least
<1>3. got' = Plus(got, read) /\ record' = Minus(From, read)
  BY DEF Reads, From
<1>4. arrived' = IF record # Nothing THEN arrived ELSE Tail(arrived)
  BY DEF Reads
<1>5. arrived' \in Seq(Parts)
  BY <1>4 DEF Reads, TypeOK
<1> HIDE DEF size
<1>6. /\ read \in Parts /\ record' \in Parts /\ Size(read) = size
      /\ record'.line = From.line - read.line
      /\ record'.head = From.head - read.head
      /\ record'.body = From.body - read.body
      /\ From.line = 1 => read.line = 1
  BY <1>1, <1>2, <1>3, FirstFacts
<1> HIDE DEF read
<1>7. got \in Parts
  BY DEF TypeOK
<1>8. /\ got' \in Parts /\ Size(got') = Size(got) + Size(read)
      /\ got'.line = got.line + read.line
      /\ got'.head = got.head + read.head
      /\ got'.body = got.body + read.body
  BY <1>3, <1>6, <1>7, PlusFacts
<1>9. got' # Nothing
  BY <1>2, <1>6, <1>7, <1>8, NothingFacts
<1>10. /\ From.line \in Nat /\ From.head \in Nat /\ From.body \in Nat
       /\ read.line \in Nat /\ read.head \in Nat /\ read.body \in Nat
       /\ got.line \in Nat /\ got.head \in Nat /\ got.body \in Nat
  BY <1>1, <1>6, <1>7 DEF Parts
<1>11. got'.line + record'.line = got.line + From.line
  BY <1>6, <1>8, <1>10
<1>12. got'.head + record'.head = got.head + From.head
  BY <1>6, <1>8, <1>10
<1>13. got'.body + record'.body = got.body + From.body
  BY <1>6, <1>8, <1>10
<1>14. From.line = 1 => got'.line = got.line + 1
  BY <1>6, <1>8, <1>10
<1>15. got.line <= got'.line
  BY <1>6, <1>8, <1>10
<1> QED
  BY <1>1, <1>5, <1>6, <1>8, <1>9, <1>11, <1>12, <1>13, <1>14, <1>15

-----------------------------------------------------------------------------
(* What holds of a connection whatever is sent on it. *)

\* A record has something in it; a header is read to the end of a record; what is
\* handled is a POST or a GET, and a GET has no body.
Shape ==
    /\ \A i \in 1 .. Len(arrived) : Size(arrived[i]) > 0
    /\ stage = "header" => content_length = 0 /\ (got = Nothing \/ record # Nothing)
    /\ stage = "body" => kind = "post"
    /\ stage = "handle" => kind \in {"post", "get"}
    /\ kind = "get" => request.body = 0

\* A type-correct state of that shape.
Sound == TypeOK /\ Shape

LEMMA InitSound == Init => Sound
<1> SUFFICES ASSUME Init PROVE Sound
  OBVIOUS
<1>1. TypeOK
  BY NothingFacts DEF Init, TypeOK, Stages, Kinds
<1>2. Shape
  BY DEF Init, Shape
<1> QED
  BY <1>1, <1>2 DEF Sound

LEMMA SoundAsk ==
  ASSUME Sound, NEW k \in Kinds, NEW h \in Headers, NEW b \in Nat, Ask(k, h, b),
         k = "get" => b = 0
  PROVE  Sound'
<1>1. TypeOK'
  BY AskType DEF Sound
<1>2. kind = "none" /\ kind' = k /\ request'.body = b
  BY DEF Ask
<1>3. UNCHANGED <<arrived, record, stage, got, content_length>>
  BY DEF Ask, readVars
<1>4. Shape'
  BY <1>2, <1>3 DEF Sound, Shape
<1> QED
  BY <1>1, <1>4 DEF Sound

LEMMA SoundSend ==
  ASSUME Sound, NEW n \in 1 .. Size(unsent), Send(n)
  PROVE  Sound'
<1> DEFINE part == First(unsent, n)
<1>1. TypeOK'
  BY SendType DEF Sound
<1>2. /\ arrived \in Seq(Parts) /\ unsent \in Parts /\ Size(unsent) \in Nat
      /\ n \in Nat /\ n <= Size(unsent) /\ n > 0
  <2>1. arrived \in Seq(Parts) /\ unsent \in Parts
    BY DEF Sound, TypeOK
  <2>2. Size(unsent) \in Nat
    BY <2>1, NothingFacts
  <2> QED
    BY <2>1, <2>2
<1>3. part \in Parts /\ Size(part) > 0 /\ arrived' = Append(arrived, part)
  BY <1>2, FirstFacts DEF Send
<1> HIDE DEF part
<1>4. \A i \in 1 .. Len(arrived') : Size(arrived'[i]) > 0
  <2> SUFFICES ASSUME NEW i \in 1 .. Len(arrived') PROVE Size(arrived'[i]) > 0
    OBVIOUS
  <2>1. CASE i \in 1 .. Len(arrived)
    <3>1. arrived'[i] = arrived[i]
      BY <1>2, <1>3, <2>1
    <3> QED
      BY <2>1, <3>1 DEF Sound, Shape
  <2>2. CASE i \notin 1 .. Len(arrived)
    <3>1. arrived'[i] = part
      BY <1>2, <1>3, <2>2
    <3> QED
      BY <1>3, <3>1
  <2> QED
    BY <2>1, <2>2
<1>5. UNCHANGED <<kind, request, record, stage, got, content_length>>
  BY DEF Send
<1>6. Shape'
  BY <1>4, <1>5 DEF Sound, Shape
<1> QED
  BY <1>1, <1>6 DEF Sound

LEMMA SoundReads ==
  ASSUME Sound, Reads
  PROVE  Sound'
<1>1. /\ got' \in Parts /\ record' \in Parts /\ arrived' \in Seq(Parts)
  BY ReadsFacts DEF Sound, Shape
<1>2. UNCHANGED <<client, kind, request, unsent, attempt, content_length, disturbed>>
  BY DEF Reads, clientVars
<1>3. stage \in Reading /\ stage' \in {stage, IF stage = "header" THEN "parse" ELSE "handle"}
  BY DEF Reads, Returns
<1>4. TypeOK'
  BY <1>1, <1>2, <1>3 DEF Sound, TypeOK, Reading, Stages
<1>5. \A i \in 1 .. Len(arrived') : Size(arrived'[i]) > 0
  <2>1. CASE record # Nothing
    BY <2>1 DEF Reads, Sound, Shape
  <2>2. CASE record = Nothing
    <3>1. arrived # <<>> /\ arrived' = Tail(arrived) /\ arrived \in Seq(Parts)
      BY <2>2 DEF Reads, Sound, TypeOK
    <3> SUFFICES ASSUME NEW i \in 1 .. Len(arrived') PROVE Size(arrived'[i]) > 0
      OBVIOUS
    <3>2. i + 1 \in 1 .. Len(arrived) /\ arrived'[i] = arrived[i + 1]
      BY <3>1
    <3> QED
      BY <3>2 DEF Sound, Shape
  <2> QED
    BY <2>1, <2>2
<1>6. stage' = "header" => stage = "header" /\ record' # Nothing
  <2> SUFFICES ASSUME stage' = "header" PROVE stage = "header" /\ record' # Nothing
    OBVIOUS
  <2>1. stage = "header"
    BY <1>3 DEF Reading
  <2>2. content_length = 0 /\ Size(got') \in Nat
    BY <1>1, <2>1, NothingFacts DEF Sound, Shape
  <2>3. More(Size(got'), record' # Nothing)
    BY <2>1 DEF Reads, Returns
  <2> QED
    BY <2>1, <2>2, <2>3 DEF More
<1>7. Shape'
  BY <1>2, <1>3, <1>5, <1>6 DEF Sound, Shape, Reading
<1> QED
  BY <1>4, <1>7 DEF Sound

\* What the other steps leave as it was.
LEMMA SoundStep ==
  ASSUME Sound, [Next]_vars
  PROVE  Sound'
<1>1. CASE UNCHANGED vars
  BY <1>1 DEF vars, clientVars, readVars, Sound, TypeOK, Shape
<1>2. ASSUME NEW k \in Kinds, NEW h \in Headers, NEW b \in Bodies,
             Ask(k, h, IF k = "get" THEN 0 ELSE b)
      PROVE  Sound'
  BY <1>2, SoundAsk, HttpAssumption
<1>3. ASSUME NEW n \in 1 .. Size(unsent), Send(n) PROVE Sound'
  BY <1>3, SoundSend
<1>4. CASE Leave
  <2>1. arrived' \in {arrived, <<>>} /\ client' \in {"open", "closed", "reset"}
    BY <1>4 DEF Leave
  <2>2. UNCHANGED <<kind, request, unsent, record, stage, got, attempt, content_length,
                    disturbed>>
    BY <1>4 DEF Leave
  <2>3. arrived' \in Seq(Parts)
    <3>1. arrived \in Seq(Parts) /\ <<>> \in Seq(Parts)
      BY DEF Sound, TypeOK
    <3> QED
      BY <2>1, <3>1
  <2>4. TypeOK'
    BY <2>1, <2>2, <2>3 DEF Sound, TypeOK
  <2>5. Shape'
    BY <2>1, <2>2 DEF Sound, Shape
  <2> QED
    BY <2>4, <2>5 DEF Sound
<1>5. CASE Selected
  <2>1. TypeOK'
    BY <1>5, NothingFacts DEF Selected, Starts, Sound, TypeOK, Stages, clientVars, readVars
  <2>2. Shape'
    BY <1>5 DEF Selected, Starts, Sound, Shape, clientVars, readVars
  <2> QED
    BY <2>1, <2>2 DEF Sound
<1>6. CASE HangUp
  BY <1>6 DEF HangUp, Sound, TypeOK, Shape, Stages, clientVars, readVars
<1>7. CASE Reads
  BY <1>7, SoundReads
<1>8. CASE ReadsNothing
  <2>1. UNCHANGED <<client, kind, request, unsent, arrived, record, got, content_length,
                    disturbed>>
    BY <1>8 DEF ReadsNothing, clientVars, readVars
  <2>2. attempt' \in Nat
    <3>1. attempt' = attempt \/ attempt' = attempt + 1
      BY <1>8, Zenon DEF ReadsNothing
    <3>2. attempt \in Nat
      BY DEF Sound, TypeOK
    <3> QED
      BY <3>1, <3>2
  <2>3. \/ stage' \in {stage, "closed"}
        \/ stage' = "parse" /\ stage = "header"
        \/ stage' = "handle" /\ stage = "body"
    BY <1>8 DEF ReadsNothing, Drained, Reading, Returns, Null
  <2>4. TypeOK'
    BY <2>1, <2>2, <2>3 DEF Sound, TypeOK, Stages
  <2>5. Shape'
    BY <2>1, <2>3 DEF Sound, Shape
  <2> QED
    BY <2>4, <2>5 DEF Sound
<1>9. CASE ReadFails
  <2>1. UNCHANGED <<client, kind, request, unsent, arrived, record, got, attempt,
                    content_length>>
    BY <1>9 DEF ReadFails, clientVars, readVars
  <2>2. disturbed' \subseteq {"header", "body", "skip", "read"}
    BY <1>9 DEF ReadFails, Sound, TypeOK
  <2>3. \/ stage' \in {"closed", "dead", "select"}
        \/ stage' = "parse" /\ stage = "header"
        \/ stage' = "handle" /\ stage = "body"
    BY <1>9 DEF ReadFails, Drained, Reading, Returns, Null
  <2>4. TypeOK'
    BY <2>1, <2>2, <2>3 DEF Sound, TypeOK, Stages
  <2>5. Shape'
    BY <2>1, <2>3 DEF Sound, Shape
  <2> QED
    BY <2>4, <2>5 DEF Sound
<1>10. CASE Refuse
  BY <1>10 DEF Refuse, Sound, TypeOK, Shape, Stages, clientVars, readVars
<1>11. CASE Skip
  BY <1>11 DEF Skip, Sound, TypeOK, Shape, Stages, clientVars, readVars
<1>12. CASE ParseGet
  BY <1>12 DEF ParseGet, Sound, TypeOK, Shape, Stages, clientVars, readVars
<1>13. ASSUME NEW n \in 0 .. request.body, ParsePost(n) PROVE Sound'
  <2>1. UNCHANGED <<client, kind, request, unsent, arrived, record, disturbed>>
    BY <1>13 DEF ParsePost, clientVars, readVars
  <2>2. got \in Parts /\ request.body \in Nat
    BY DEF Sound, TypeOK, Parts
  <2>3. content_length' \in Nat /\ content_length' = n
    BY <1>13, <2>2 DEF ParsePost
  <2>4. [Nothing EXCEPT !.body = got.body] \in Parts
    BY <2>2 DEF Nothing, Parts
  <2>5. stage' \in {"closed", "handle", "body"} /\ got' \in Parts /\ attempt' \in Nat
    BY <1>13, <2>2, <2>3, <2>4, NothingFacts DEF ParsePost, Starts, Sound, TypeOK
  <2>6. kind = "post"
    BY <1>13 DEF ParsePost
  <2>7. TypeOK'
    BY <2>1, <2>3, <2>5 DEF Sound, TypeOK, Stages
  <2>8. Shape'
    BY <2>1, <2>5, <2>6 DEF Sound, Shape
  <2> QED
    BY <2>7, <2>8 DEF Sound
<1>14. CASE Reply
  BY <1>14 DEF Reply, Sound, TypeOK, Shape, Stages, readVars
<1>15. CASE ReplyError
  BY <1>15 DEF ReplyError, Sound, TypeOK, Shape, Stages, clientVars, readVars
<1> QED
  BY <1>1, <1>2, <1>3, <1>4, <1>5, <1>6, <1>7, <1>8, <1>9, <1>10, <1>11, <1>12, <1>13,
     <1>14, <1>15 DEF Next, Client, Thread

-----------------------------------------------------------------------------
(* What holds of a connection whose headers each came in one record and were       *)
(* understood.                                                                     *)

Calm == disturbed \cap {"header", "skip"} = {}

\* Nothing of a request was read.
Fresh == stage = "select" \/ (stage = "header" /\ got = Nothing)

\* All of the body came with the header, or nothing of it, unless that is in d.
AllOrNone(n, all, d) == "body" \in d \/ n \in {0, all}

\* The client has written nothing of the request, or all of its header.
Written ==
    /\ kind = "none" => Fresh /\ unsent = Nothing /\ arrived = <<>>
    /\ kind # "none" => request.line = 1 /\ (unsent = request \/ Plain(unsent))
    /\ kind # "none" /\ unsent = request => Fresh /\ arrived = <<>>

\* Before a request is read, its header is the first thing there is, whole.
Ahead ==
    Fresh =>
        /\ record = Nothing
        /\ kind # "none" /\ Plain(unsent) =>
              \/ client # "open" /\ arrived = <<>>
              \/ /\ arrived # <<>>
                 /\ arrived[1].line = 1 /\ arrived[1].head = request.head
                 /\ AllOrNone(arrived[1].body, request.body, disturbed)
                 /\ \A i \in 2 .. Len(arrived) : Plain(arrived[i])

\* Afterwards, only parts of its body are.
Behind ==
    ~Fresh => /\ kind # "none" /\ Plain(unsent)
              /\ \A i \in 1 .. Len(arrived) : Plain(arrived[i])

\* What the buffer has, at each stage.
Buffer ==
    /\ stage = "header" /\ got # Nothing =>
          /\ got.line = 1 /\ record.line = 0
          /\ got.head + record.head = request.head
          /\ AllOrNone(got.body + record.body, request.body, disturbed)
    /\ stage = "parse" =>
          /\ record = Nothing /\ got.line = 1 /\ got.head = request.head
          /\ AllOrNone(got.body, request.body, disturbed)
    /\ stage = "body" =>
          Plain(got) /\ Plain(record) /\ content_length = request.body
    /\ stage = "handle" =>
          /\ record = Nothing
          /\ kind = "post" =>
                /\ Plain(got)
                /\ disturbed \cap {"body", "read"} = {} => got.body = request.body

\* What was read of the body, arrived, and was not sent yet comes to no more than
\* the body.
Taken == IF stage = "select" THEN 0 ELSE got.body + record.body
Within == Adds(Taken, arrived, request.body - unsent.body)

Aligned == Written /\ Ahead /\ Behind /\ Buffer /\ (kind # "none" => Within)

Ended == stage \in {"closed", "dead"}

LEMMA InitAligned == Init => Aligned
<1> SUFFICES ASSUME Init PROVE Aligned
  OBVIOUS
<1>1. Written /\ Ahead /\ Behind /\ Buffer
  BY DEF Init, Written, Ahead, Behind, Buffer, Fresh
<1>2. kind = "none"
  BY DEF Init
<1> QED
  BY <1>1, <1>2 DEF Aligned

LEMMA PartsFields ==
  ASSUME NEW r \in Parts
  PROVE  r.line \in Nat /\ r.head \in Nat /\ r.body \in Nat
BY DEF Parts

LEMMA SoundFields ==
  ASSUME Sound
  PROVE  /\ request.line \in Nat /\ request.head \in Nat /\ request.body \in Nat
         /\ unsent.line \in Nat /\ unsent.head \in Nat /\ unsent.body \in Nat
         /\ got.line \in Nat /\ got.head \in Nat /\ got.body \in Nat
         /\ record.line \in Nat /\ record.head \in Nat /\ record.body \in Nat
         /\ content_length \in Nat
         /\ arrived \in Seq(Parts)
BY PartsFields DEF Sound, TypeOK

LEMMA NothingFields == Nothing.line = 0 /\ Nothing.head = 0 /\ Nothing.body = 0
BY DEF Nothing

LEMMA AlignedAsk ==
  ASSUME Sound, Aligned, NEW k \in Kinds, NEW h \in Headers, NEW b \in Nat, Ask(k, h, b)
  PROVE  Aligned'
<1>1. /\ kind = "none" /\ kind' = k /\ kind' # "none"
      /\ request' = [line |-> 1, head |-> h, body |-> b] /\ unsent' = request'
      /\ UNCHANGED <<client, arrived, record, stage, got, disturbed>>
  BY DEF Ask, readVars, Kinds
<1>2. Fresh /\ arrived = <<>> /\ record = Nothing
  BY <1>1 DEF Aligned, Written, Ahead
<1>3. Fresh'
  BY <1>1, <1>2 DEF Fresh
<1>4. request'.line = 1 /\ unsent'.line = 1 /\ unsent'.body = request'.body /\ b \in Nat
      /\ request'.body = b
  BY <1>1
<1>5. Written'
  BY <1>1, <1>2, <1>3, <1>4 DEF Written
<1>6. Ahead'
  BY <1>1, <1>2, <1>4 DEF Ahead, Plain
<1>7. Behind' /\ Buffer'
  BY <1>1, <1>2, <1>3 DEF Behind, Buffer, Fresh
<1>8. Within'
  <2>1. Taken' = 0
    BY <1>1, <1>2, NothingFields DEF Taken, Fresh
  <2>2. Adds(0, <<>>, 0)
    BY AddsNone
  <2>3. request'.body - unsent'.body = 0 /\ arrived' = <<>>
    BY <1>1, <1>2, <1>4
  <2> QED
    BY <2>1, <2>2, <2>3 DEF Within
<1> QED
  BY <1>5, <1>6, <1>7, <1>8 DEF Aligned

LEMMA AlignedSend ==
  ASSUME Sound, Aligned, NEW n \in 1 .. Size(unsent), Send(n), Calm'
  PROVE  Aligned'
<1> DEFINE part == First(unsent, n)
<1>1. n \in Nat /\ n > 0 /\ n <= Size(unsent) /\ unsent \in Parts /\ Size(unsent) \in Nat
  <2>1. unsent \in Parts
    BY DEF Sound, TypeOK
  <2>2. Size(unsent) \in Nat
    BY <2>1, NothingFacts
  <2> QED
    BY <2>1, <2>2
<1>2. /\ part \in Parts /\ unsent' \in Parts
      /\ unsent'.line = unsent.line - part.line
      /\ unsent'.head = unsent.head - part.head
      /\ unsent'.body = unsent.body - part.body
      /\ unsent.line = 1 => part.line = 1
  BY <1>1, FirstFacts DEF Send
<1>3. /\ client = "open" /\ arrived' = Append(arrived, part)
      /\ UNCHANGED <<client, kind, request, record, stage, got, content_length>>
  BY DEF Send
<1>4. disturbed' = disturbed
          \cup {d \in {"header"} :
                  part.line + part.head \in 1 .. request.line + request.head - 1}
          \cup {d \in {"body"} : part.line + part.head > 0
                                   /\ part.body \notin {0, request.body}}
  BY DEF Send
<1> HIDE DEF part
<1>5. /\ unsent'.line \in Nat /\ unsent'.head \in Nat /\ unsent'.body \in Nat
      /\ part.line \in Nat /\ part.head \in Nat /\ part.body \in Nat
  BY <1>2, PartsFields
<1>6. /\ request.line \in Nat /\ request.head \in Nat /\ request.body \in Nat
      /\ unsent.line \in Nat /\ unsent.head \in Nat /\ unsent.body \in Nat
      /\ arrived \in Seq(Parts)
  BY SoundFields
<1>7. kind # "none" /\ request.line = 1
  <2>1. unsent # Nothing
    BY <1>1, NothingFacts
  <2> QED
    BY <2>1 DEF Aligned, Written
<1>8. part.line + part.head \notin 1 .. request.line + request.head - 1
  BY <1>4 DEF Calm
<1>9. \A m : AllOrNone(m, request.body, disturbed)
              => AllOrNone(m, request'.body, disturbed')
  BY <1>3, <1>4 DEF AllOrNone
<1>10. disturbed \subseteq disturbed'
  BY <1>4
<1>11. Buffer'
  <2>1. disturbed' \cap {"body", "read"} = {} => disturbed \cap {"body", "read"} = {}
    BY <1>10
  <2> QED
    BY <1>3, <1>9, <2>1 DEF Aligned, Buffer
<1>12. Within'
  <2> DEFINE most == request.body - unsent.body
  <2>1. Adds(Taken, arrived, most)
    BY <1>7 DEF Aligned, Within
  <2>2. most \in Int /\ part \in Parts /\ arrived \in Seq(Parts)
    BY <1>2, <1>6
  <2>3. request'.body - unsent'.body = most + part.body
    <3>1. request'.body = request.body /\ unsent'.body = unsent.body - part.body
      BY <1>2, <1>3
    <3>2. request.body \in Nat /\ unsent.body \in Nat /\ part.body \in Nat
      BY <1>5, <1>6
    <3> QED
      BY <3>1, <3>2
  <2>4. Taken' = Taken
    BY <1>3 DEF Taken
  <2> HIDE DEF most
  <2>5. Adds(Taken, Append(arrived, part), most + part.body)
    BY <2>1, <2>2, AddsAppend
  <2> QED
    BY <1>3, <2>3, <2>4, <2>5 DEF Within
<1>13. Fresh' <=> Fresh
  BY <1>3 DEF Fresh
\* The header is sent.
<1>14. CASE unsent = request
  <2>1. Fresh /\ arrived = <<>>
    BY <1>7, <1>14 DEF Aligned, Written
  <2>2. part.line = 1 /\ part.head = request.head
    <3>1. part.line = 1
      BY <1>2, <1>7, <1>14
    <3>2. request.head - part.head \in Nat
      BY <1>2, <1>5, <1>14
    <3>3. 1 + part.head \notin 1 .. 1 + request.head - 1
      BY <1>7, <1>8, <3>1
    <3>4. part.head \in Nat /\ request.head \in Nat
      BY <1>5, <1>6
    <3>5. part.head = request.head
      BY <3>2, <3>3, <3>4
    <3> QED
      BY <3>1, <3>5
  <2>3. Plain(unsent')
    BY <1>2, <1>6, <1>7, <1>14, <2>2 DEF Plain
  <2>4. Written'
    BY <1>3, <1>7, <2>3 DEF Written, Plain
  <2>5. Len(arrived') = 1 /\ arrived'[1] = part /\ arrived' # <<>>
    BY <1>3, <2>1
  <2>6. AllOrNone(part.body, request'.body, disturbed')
    BY <1>3, <1>5, <1>4, <2>2 DEF AllOrNone
  <2>7. record' = Nothing
    BY <1>3, <2>1 DEF Aligned, Ahead
  <2>8. Ahead'
    BY <1>3, <2>2, <2>5, <2>6, <2>7 DEF Ahead, AllOrNone
  <2>9. Behind'
    BY <1>13, <2>1 DEF Behind
  <2> QED
    BY <1>11, <1>12, <2>4, <2>8, <2>9 DEF Aligned
\* More of the body.
<1>15. CASE unsent # request
  <2>1. Plain(unsent)
    BY <1>7, <1>15 DEF Aligned, Written
  <2>2. Plain(part) /\ Plain(unsent')
    BY <1>2, <1>5, <1>6, <2>1 DEF Plain
  <2>3. Written'
    BY <1>3, <1>7, <2>2 DEF Written, Plain
  <2>4. /\ Len(arrived') = Len(arrived) + 1 /\ arrived'[Len(arrived) + 1] = part
        /\ \A i \in 1 .. Len(arrived) : arrived'[i] = arrived[i]
        /\ Len(arrived) \in Nat
    BY <1>2, <1>3, <1>6
  <2>5. Ahead'
    <3> SUFFICES ASSUME Fresh' PROVE /\ record' = Nothing
                                     /\ arrived' # <<>>
                                     /\ arrived'[1].line = 1
                                     /\ arrived'[1].head = request'.head
                                     /\ AllOrNone(arrived'[1].body, request'.body, disturbed')
                                     /\ \A i \in 2 .. Len(arrived') : Plain(arrived'[i])
      BY DEF Ahead, AllOrNone
    <3>1. /\ record = Nothing
          /\ arrived # <<>>
          /\ arrived[1].line = 1 /\ arrived[1].head = request.head
          /\ AllOrNone(arrived[1].body, request.body, disturbed)
          /\ \A i \in 2 .. Len(arrived) : Plain(arrived[i])
      BY <1>3, <1>7, <1>13, <2>1 DEF Aligned, Ahead
    <3>2. 1 \in 1 .. Len(arrived) /\ arrived' # <<>>
      BY <1>6, <2>4, <3>1
    <3>3. arrived'[1] = arrived[1]
      BY <2>4, <3>2
    <3>4. AllOrNone(arrived'[1].body, request'.body, disturbed')
      BY <1>9, <3>1, <3>3 DEF AllOrNone
    <3>5. \A i \in 2 .. Len(arrived') : Plain(arrived'[i])
      BY <2>2, <2>4, <3>1
    <3> QED
      BY <1>3, <3>1, <3>2, <3>3, <3>4, <3>5
  <2>6. Behind'
    <3>1. ASSUME ~Fresh' PROVE \A i \in 1 .. Len(arrived') : Plain(arrived'[i])
      <4>1. \A i \in 1 .. Len(arrived) : Plain(arrived[i])
        BY <1>13, <3>1 DEF Aligned, Behind
      <4> QED
        BY <2>2, <2>4, <4>1
    <3> QED
      BY <1>3, <1>7, <2>2, <3>1 DEF Behind
  <2> QED
    BY <1>11, <1>12, <2>3, <2>5, <2>6 DEF Aligned
<1> QED
  BY <1>14, <1>15

LEMMA AlignedLeave ==
  ASSUME Sound, Aligned, Leave
  PROVE  Aligned'
<1>1. /\ client = "open" /\ client' # "open"
      /\ arrived' = arrived \/ arrived' = <<>>
      /\ UNCHANGED <<kind, request, unsent, record, stage, got, content_length, disturbed>>
  BY DEF Leave
<1>2. Written'
  BY <1>1 DEF Aligned, Written, Fresh
<1>3. Buffer'
  BY <1>1 DEF Aligned, Buffer, AllOrNone
<1>4. Fresh' <=> Fresh
  BY <1>1 DEF Fresh
<1>5. CASE arrived' = arrived
  BY <1>1, <1>2, <1>3, <1>4, <1>5 DEF Aligned, Ahead, Behind, Within, Taken, AllOrNone
<1>6. CASE arrived' = <<>>
  <2>1. Ahead' /\ Behind'
    BY <1>1, <1>4, <1>6 DEF Aligned, Ahead, Behind
  <2>2. ASSUME kind' # "none" PROVE Within'
    <3>1. /\ Adds(Taken, arrived, request.body - unsent.body)
          /\ arrived \in Seq(Parts) /\ request.body - unsent.body \in Int
      BY <1>1, <2>2, SoundFields DEF Aligned, Within
    <3>2. Taken \in Nat /\ Taken <= request.body - unsent.body
      BY <3>1, AddsAtMost
    <3>3. Adds(Taken, <<>>, request.body - unsent.body)
      BY <3>1, <3>2, AddsNone
    <3> QED
      BY <1>1, <1>6, <3>3 DEF Within, Taken
  <2> QED
    BY <1>2, <1>3, <2>1, <2>2 DEF Aligned
<1> QED
  BY <1>1, <1>5, <1>6

LEMMA AlignedSelected ==
  ASSUME Sound, Aligned, Selected
  PROVE  Aligned'
<1>1. /\ stage = "select" /\ stage' = "header" /\ got' = Nothing
      /\ UNCHANGED <<client, kind, request, unsent, arrived, record, disturbed>>
  BY DEF Selected, Starts, clientVars, readVars
<1>2. Fresh /\ Fresh' /\ record = Nothing
  BY <1>1 DEF Fresh, Aligned, Ahead
<1>3. Taken' = Taken
  BY <1>1, <1>2, NothingFields DEF Taken
<1> QED
  BY <1>1, <1>2, <1>3 DEF Aligned, Written, Ahead, Behind, Buffer, Within

\* The body is in the buffer, when as much as its length is and no more can be.
LEMMA AllTaken ==
  ASSUME Sound, Aligned, kind # "none", stage = "body", record = Nothing,
         Size(got) >= content_length
  PROVE  got.body = request.body
<1>1. /\ Plain(got) /\ content_length = request.body
      /\ Adds(got.body + record.body, arrived, request.body - unsent.body)
  BY DEF Aligned, Buffer, Within, Taken
<1>2. /\ got.line = 0 /\ got.head = 0 /\ record.body = 0
  BY <1>1, NothingFields DEF Plain
<1>3. /\ request.body \in Nat /\ unsent.body \in Nat /\ got.body \in Nat
      /\ arrived \in Seq(Parts)
  BY SoundFields
<1>4. got.body + record.body <= request.body - unsent.body
  <2>1. request.body - unsent.body \in Int
    BY <1>3
  <2> QED
    BY <1>1, <1>3, <2>1, AddsAtMost
<1>5. Size(got) = got.body
  BY <1>2, <1>3 DEF Size
<1> QED
  BY <1>1, <1>2, <1>3, <1>4, <1>5

LEMMA AlignedReadsNothing ==
  ASSUME Sound, Aligned, ReadsNothing, ~Ended'
  PROVE  Aligned'
<1>1. /\ stage \in Reading /\ record = Nothing /\ arrived = <<>>
      /\ UNCHANGED <<client, kind, request, unsent, arrived, record, got, content_length,
                     disturbed>>
  BY DEF ReadsNothing, Drained, clientVars, readVars
<1>2. IF More(Size(got), FALSE) THEN stage' = stage ELSE got # Nothing /\ Returns
  BY DEF ReadsNothing, Null, Ended
<1>3. CASE stage = "header"
  <2>1. got = Nothing /\ content_length = 0
    BY <1>1, <1>3 DEF Sound, Shape
  <2>2. ~More(Size(got), FALSE)
    BY <2>1, NothingFacts DEF More
  <2> QED
    BY <1>2, <2>1, <2>2
<1>4. CASE stage = "body"
  <2>1. CASE stage' = stage
    BY <1>1, <2>1 DEF Aligned, Written, Ahead, Behind, Buffer, Fresh, Within, Taken
  <2>2. CASE stage' = "handle"
    <3>1. ~Fresh /\ ~Fresh' /\ Taken' = Taken
      BY <1>1, <1>4, <2>2 DEF Fresh, Taken
    <3>2. kind # "none"
      BY <3>1 DEF Aligned, Behind
    <3>3. Size(got) >= content_length
      <4>1. ~More(Size(got), FALSE)
        BY <1>2, <1>4, <2>2
      <4>2. Size(got) \in Nat /\ content_length \in Nat
        BY NothingFacts DEF Sound, TypeOK
      <4> QED
        BY <4>1, <4>2 DEF More
    <3>4. got.body = request.body
      BY <1>1, <1>4, <3>2, <3>3, AllTaken
    <3>5. Buffer'
      BY <1>1, <1>4, <2>2, <3>4 DEF Aligned, Buffer
    <3> QED
      BY <1>1, <3>1, <3>5 DEF Aligned, Written, Ahead, Behind, Within
  <2> QED
    BY <1>2, <1>4, <2>1, <2>2 DEF Returns
<1> QED
  BY <1>1, <1>3, <1>4 DEF Reading

LEMMA AlignedReadFails ==
  ASSUME Sound, Aligned, ReadFails, Calm', ~Ended'
  PROVE  Aligned'
<1>1. /\ stage \in Reading /\ record = Nothing /\ arrived = <<>>
      /\ UNCHANGED <<client, kind, request, unsent, arrived, record, got, content_length>>
      /\ disturbed' = disturbed \cup {"read"} \cup {d \in {"skip"} : stage' = "select"}
  BY DEF ReadFails, Drained, clientVars, readVars
<1>2. stage' # "select"
  BY <1>1 DEF Calm
<1>3. got # Nothing /\ Returns
  BY <1>2 DEF ReadFails, Null, Ended
<1>4. stage = "body" /\ stage' = "handle"
  BY <1>1, <1>3 DEF Reading, Returns, Sound, Shape
<1>5. ~Fresh /\ ~Fresh' /\ Taken' = Taken
  BY <1>1, <1>4 DEF Fresh, Taken
<1>6. Buffer'
  BY <1>1, <1>4 DEF Aligned, Buffer
<1> QED
  BY <1>1, <1>5, <1>6 DEF Aligned, Written, Ahead, Behind, Within

LEMMA AlignedParseGet ==
  ASSUME Sound, Aligned, ParseGet
  PROVE  Aligned'
<1>1. /\ stage = "parse" /\ stage' = "handle" /\ kind = "get"
      /\ UNCHANGED <<client, kind, request, unsent, arrived, record, got, disturbed>>
  BY DEF ParseGet, clientVars, readVars
<1>2. ~Fresh /\ ~Fresh' /\ Taken' = Taken
  BY <1>1 DEF Fresh, Taken
<1>3. Buffer'
  BY <1>1 DEF Aligned, Buffer
<1> QED
  BY <1>1, <1>2, <1>3 DEF Aligned, Written, Ahead, Behind, Within

LEMMA AlignedParsePost ==
  ASSUME Sound, Aligned, NEW n \in 0 .. request.body, ParsePost(n), ~Ended'
  PROVE  Aligned'
<1>1. /\ stage = "parse" /\ kind = "post" /\ content_length' = n
      /\ UNCHANGED <<client, kind, request, unsent, arrived, record, disturbed>>
  BY DEF ParsePost, clientVars, readVars
<1>2. /\ record = Nothing /\ got.head = request.head
      /\ AllOrNone(got.body, request.body, disturbed)
  BY <1>1 DEF Aligned, Buffer
<1>3. /\ request.head \in Nat /\ request.body \in Nat /\ got.head \in Nat /\ got.body \in Nat
  BY SoundFields
<1>4. n = request.body
  BY <1>2, <1>3 DEF ParsePost
<1>5. n > 0
  BY <1>1, <1>3 DEF ParsePost, Ended
<1>6. ~Fresh
  BY <1>1 DEF Fresh
<1>7. CASE got.body > 0
  <2>1. stage' = "handle" /\ got' = [Nothing EXCEPT !.body = got.body]
    BY <1>5, <1>7 DEF ParsePost
  <2>2. got'.line = 0 /\ got'.head = 0 /\ got'.body = got.body
    BY <2>1 DEF Nothing
  <2>3. ~Fresh' /\ Taken' = Taken
    BY <1>1, <2>1, <2>2 DEF Fresh, Taken
  <2>4. disturbed \cap {"body", "read"} = {} => got.body = request.body
    BY <1>2, <1>3, <1>7 DEF AllOrNone
  <2>5. Buffer'
    BY <1>1, <1>2, <2>1, <2>2, <2>4 DEF Buffer, Plain
  <2> QED
    BY <1>1, <1>6, <2>3, <2>5 DEF Aligned, Written, Ahead, Behind, Within
<1>8. CASE ~(got.body > 0)
  <2>1. stage' = "body" /\ got' = Nothing
    BY <1>1, <1>3, <1>5, <1>8 DEF ParsePost, Starts
  <2>2. ~Fresh' /\ Taken' = Taken
    BY <1>1, <1>3, <1>8, <2>1, NothingFields DEF Fresh, Taken
  <2>3. Buffer'
    BY <1>1, <1>2, <1>4, <2>1, NothingFields DEF Buffer, Plain
  <2> QED
    BY <1>1, <1>6, <2>2, <2>3 DEF Aligned, Written, Ahead, Behind, Within
<1> QED
  BY <1>7, <1>8

\* Nothing of the request that is answered is left, neither here nor with the client.
LEMMA AlignedReply ==
  ASSUME Sound, Aligned, Reply
  PROVE  Aligned'
<1>1. /\ stage = "handle" /\ stage' = "select" /\ Whole /\ kind' = "none"
      /\ UNCHANGED <<client, request, unsent, arrived, record, disturbed>>
  BY DEF Reply, readVars
<1>2. /\ record = Nothing /\ kind # "none" /\ Plain(unsent)
      /\ \A i \in 1 .. Len(arrived) : Plain(arrived[i])
  BY <1>1 DEF Aligned, Buffer, Behind, Fresh
<1>3. Adds(got.body, arrived, request.body - unsent.body)
  <2>1. Taken = got.body
    BY <1>1, <1>2, NothingFields, SoundFields DEF Taken
  <2> QED
    BY <1>2, <2>1 DEF Aligned, Within
<1>4. /\ request.body \in Nat /\ unsent.body \in Nat /\ got.body \in Nat
      /\ unsent.line \in Nat /\ unsent.head \in Nat /\ arrived \in Seq(Parts)
  BY SoundFields
<1>5. got.body <= request.body - unsent.body
  BY <1>3, <1>4, AddsAtMost
<1>6. got.body >= request.body
  <2>1. CASE kind = "get"
    BY <1>4, <2>1 DEF Sound, Shape
  <2>2. CASE got = [Nothing EXCEPT !.body = request.body]
    BY <1>4, <2>2 DEF Nothing
  <2> QED
    BY <1>1, <2>1, <2>2 DEF Whole
<1>7. unsent.body = 0 /\ got.body = request.body
  BY <1>4, <1>5, <1>6
<1>8. unsent = Nothing
  BY <1>2, <1>4, <1>7, NothingFacts DEF Plain, Size, Sound, TypeOK
<1>9. arrived = <<>>
  <2>1. Adds(request.body, arrived, request.body)
    BY <1>3, <1>4, <1>7
  <2> QED
    BY <1>2, <1>4, <2>1, AddsFull DEF Sound, Shape
<1>10. Fresh'
  BY <1>1 DEF Fresh
<1>11. Written' /\ Ahead' /\ Behind' /\ Buffer'
  BY <1>1, <1>2, <1>8, <1>9, <1>10 DEF Written, Ahead, Behind, Buffer
<1> QED
  BY <1>1, <1>11 DEF Aligned

\* What Reads does with the records there are and with the running total.
LEMMA ReadsRest ==
  ASSUME Sound, Aligned, Reads
  PROVE  /\ UNCHANGED <<client, kind, request, unsent, content_length, disturbed>>
         /\ kind # "none" /\ Plain(unsent) /\ ~Fresh' /\ stage' # "select"
         /\ \A i \in 1 .. Len(arrived') : Plain(arrived'[i])
         /\ Within'
<1>1. /\ UNCHANGED <<client, kind, request, unsent, content_length, disturbed>>
      /\ stage \in Reading
      /\ stage' = stage \/ stage' \in {"parse", "handle"}
      /\ record # Nothing \/ arrived # <<>>
      /\ arrived' = IF record # Nothing THEN arrived ELSE Tail(arrived)
  BY DEF Reads, clientVars, Returns
<1>2. /\ got' \in Parts /\ record' \in Parts /\ got' # Nothing
      /\ got'.body + record'.body = got.body + From.body
  BY ReadsFacts DEF Sound, Shape
<1>3. stage' # "select" /\ ~Fresh'
  BY <1>1, <1>2 DEF Reading, Fresh
<1>4. kind # "none" /\ Plain(unsent)
  <2>1. CASE Fresh
    BY <1>1, <2>1 DEF Aligned, Written, Ahead
  <2>2. CASE ~Fresh
    BY <2>2 DEF Aligned, Behind
  <2> QED
    BY <2>1, <2>2
<1>5. arrived \in Seq(Parts)
  BY SoundFields
<1>6. /\ Taken = got.body + record.body /\ Taken' = got'.body + record'.body
      /\ Adds(Taken, arrived, request.body - unsent.body)
  BY <1>1, <1>3, <1>4 DEF Aligned, Within, Taken, Reading
<1>7. /\ request.body - unsent.body \in Int
      /\ got.body \in Nat
  BY SoundFields
<1>8. CASE record # Nothing
  <2>1. arrived' = arrived /\ From = record /\ ~Fresh
    BY <1>1, <1>8 DEF From, Fresh, Aligned, Ahead
  <2>2. \A i \in 1 .. Len(arrived') : Plain(arrived'[i])
    BY <2>1 DEF Aligned, Behind
  <2>3. Within'
    BY <1>1, <1>2, <1>6, <2>1 DEF Within
  <2> QED
    BY <1>1, <1>3, <1>4, <2>2, <2>3
<1>9. CASE record = Nothing
  <2>1. arrived # <<>> /\ arrived' = Tail(arrived) /\ From = Head(arrived)
    BY <1>1, <1>9 DEF From
  <2>2. \A i \in 2 .. Len(arrived) : Plain(arrived[i])
    BY <1>4, <2>1 DEF Aligned, Ahead, Behind
  <2>3. \A i \in 1 .. Len(arrived') : Plain(arrived'[i])
    <3> SUFFICES ASSUME NEW i \in 1 .. Len(arrived') PROVE Plain(arrived'[i])
      OBVIOUS
    <3>1. i + 1 \in 2 .. Len(arrived) /\ arrived'[i] = arrived[i + 1]
      BY <1>5, <2>1
    <3> QED
      BY <2>2, <3>1
  <2>4. Taken = got.body
    BY <1>6, <1>7, <1>9, NothingFields
  <2>5. Taken' = Taken + Head(arrived).body
    BY <1>2, <1>6, <2>1, <2>4
  <2>6. Adds(Taken + Head(arrived).body, Tail(arrived), request.body - unsent.body)
    BY <1>5, <1>6, <1>7, <2>1, AddsTail
  <2>7. Within'
    BY <1>1, <2>1, <2>5, <2>6 DEF Within
  <2> QED
    BY <1>1, <1>3, <1>4, <2>3, <2>7
<1> QED
  BY <1>8, <1>9

LEMMA AlignedReads ==
  ASSUME Sound, Aligned, Reads
  PROVE  Aligned'
<1>1. /\ UNCHANGED <<client, kind, request, unsent, content_length, disturbed>>
      /\ kind # "none" /\ Plain(unsent) /\ ~Fresh' /\ stage' # "select"
      /\ \A i \in 1 .. Len(arrived') : Plain(arrived'[i])
      /\ Within'
  BY ReadsRest
<1>2. /\ From \in Parts /\ got' \in Parts /\ record' \in Parts /\ got' # Nothing
      /\ got'.line + record'.line = got.line + From.line
      /\ got'.head + record'.head = got.head + From.head
      /\ got'.body + record'.body = got.body + From.body
      /\ From.line = 1 => got'.line = got.line + 1
      /\ got.line <= got'.line
  BY ReadsFacts DEF Sound, Shape
<1>3. /\ stage \in Reading
      /\ record # Nothing \/ arrived # <<>>
      /\ IF More(Size(got'), record' # Nothing) THEN stage' = stage ELSE Returns
  BY DEF Reads
<1>4. /\ got'.line \in Nat /\ got'.head \in Nat /\ got'.body \in Nat
      /\ record'.line \in Nat /\ record'.head \in Nat /\ record'.body \in Nat
      /\ From.line \in Nat /\ From.head \in Nat /\ From.body \in Nat
      /\ Size(got') \in Nat
  BY <1>2, PartsFields, NothingFacts
<1>5. /\ got.line \in Nat /\ got.head \in Nat /\ got.body \in Nat /\ content_length \in Nat
      /\ request.head \in Nat /\ request.body \in Nat /\ unsent.body \in Nat
      /\ arrived \in Seq(Parts)
  BY SoundFields
<1>6. stage' = stage \/ (stage' = "parse" /\ stage = "header")
      \/ (stage' = "handle" /\ stage = "body")
  BY <1>3 DEF Returns, Reading
<1>7. Written'
  BY <1>1 DEF Written, Aligned, Plain
<1>8. Ahead' /\ Behind'
  BY <1>1 DEF Ahead, Behind
<1>9. CASE stage = "header"
  <2>1. /\ got'.line = 1 /\ record'.line = 0
        /\ got'.head + record'.head = request.head
        /\ AllOrNone(got'.body + record'.body, request.body, disturbed)
    <3>1. CASE got = Nothing
      <4>1. Fresh /\ record = Nothing /\ arrived # <<>> /\ From = Head(arrived)
        BY <1>3, <1>9, <3>1 DEF Fresh, Aligned, Ahead, From
      <4>2. /\ Head(arrived) = arrived[1]
            /\ arrived[1].line = 1 /\ arrived[1].head = request.head
            /\ AllOrNone(arrived[1].body, request.body, disturbed)
        BY <1>1, <1>5, <4>1 DEF Aligned, Ahead
      <4>3. got.line = 0 /\ got.head = 0 /\ got.body = 0
        BY <3>1, NothingFields
      <4>4. got'.line = 1 /\ record'.line = 0
        BY <1>2, <1>4, <4>1, <4>2, <4>3
      <4>5. got'.head + record'.head = request.head
        BY <1>2, <1>4, <4>1, <4>2, <4>3
      <4>6. got'.body + record'.body = arrived[1].body
        BY <1>2, <1>4, <4>1, <4>2, <4>3
      <4> QED
        BY <4>2, <4>4, <4>5, <4>6
    <3>2. CASE got # Nothing
      <4>1. record # Nothing /\ From = record
        BY <1>9, <3>2 DEF Sound, Shape, From
      <4>2. /\ got.line = 1 /\ From.line = 0 /\ got.head + From.head = request.head
            /\ AllOrNone(got.body + From.body, request.body, disturbed)
        BY <1>9, <3>2, <4>1 DEF Aligned, Buffer
      <4>3. got'.line = 1 /\ record'.line = 0
        BY <1>2, <1>4, <4>2
      <4> QED
        BY <1>2, <4>2, <4>3
    <3> QED
      BY <3>1, <3>2
  <2>2. ASSUME stage' = "header" PROVE Buffer'
    BY <1>1, <2>1, <2>2 DEF Buffer
  <2>3. ASSUME stage' = "parse" PROVE Buffer'
    <3>1. record' = Nothing
      BY <1>3, <1>9, <2>3 DEF More
    <3>2. record'.head = 0 /\ record'.body = 0
      BY <3>1, NothingFields
    <3>3. got'.head = request.head /\ got'.body + record'.body = got'.body
      BY <1>4, <2>1, <3>2
    <3>4. AllOrNone(got'.body, request.body, disturbed)
      BY <2>1, <3>3
    <3> QED
      BY <1>1, <2>1, <2>3, <3>1, <3>3, <3>4 DEF Buffer
  <2>4. Buffer'
    BY <1>6, <1>9, <2>2, <2>3
  <2> QED
    BY <1>1, <1>7, <1>8, <2>4 DEF Aligned
<1>10. CASE stage = "body"
  <2>1. Plain(got) /\ Plain(record) /\ content_length = request.body
    BY <1>10 DEF Aligned, Buffer
  <2>2. Plain(From)
    <3>1. CASE record # Nothing
      BY <2>1, <3>1 DEF From
    <3>2. CASE record = Nothing
      <4>1. From = arrived[1] /\ 1 \in 1 .. Len(arrived)
        BY <1>3, <1>5, <3>2 DEF From
      <4> QED
        BY <1>10, <4>1 DEF Aligned, Behind, Fresh
    <3> QED
      BY <3>1, <3>2
  <2>3. Plain(got') /\ Plain(record')
    BY <1>2, <1>4, <2>1, <2>2 DEF Plain
  <2>4. ASSUME stage' = "body" PROVE Buffer'
    BY <1>1, <2>1, <2>3, <2>4 DEF Buffer
  <2>5. ASSUME stage' = "handle" PROVE Buffer'
    <3>1. record' = Nothing /\ ~(Size(got') < content_length)
      BY <1>3, <1>10, <2>5 DEF More
    <3>2. Size(got') = got'.body
      BY <1>4, <2>3 DEF Plain, Size
    <3>3. record'.body = 0 /\ arrived' \in Seq(Parts)
      BY <3>1, NothingFields, SoundReads, SoundFields DEF Sound, TypeOK
    <3>4. got'.body <= request.body - unsent.body
      <4> DEFINE most == request.body - unsent.body
      <4>1. most \in Int
        BY <1>5
      <4>2. Adds(Taken', arrived', most) /\ Taken' = got'.body + record'.body
        BY <1>1 DEF Within, Taken
      <4>3. Taken' = got'.body
        BY <1>4, <3>3, <4>2
      <4> HIDE DEF most
      <4>4. Taken' <= most
        BY <3>3, <4>1, <4>2, AddsAtMost
      <4>5. got'.body <= most
        BY <4>3, <4>4
      <4> QED
        BY <4>5 DEF most
    <3>5. got'.body = request.body
      <4>1. ~(got'.body < request.body)
        BY <2>1, <3>1, <3>2
      <4>2. got'.body \in Nat /\ request.body \in Nat /\ unsent.body \in Nat
        BY <1>4, <1>5
      <4> QED
        BY <3>4, <4>1, <4>2
    <3> QED
      BY <1>1, <2>3, <2>5, <3>1, <3>5 DEF Buffer
  <2>6. Buffer'
    BY <1>6, <1>10, <2>4, <2>5
  <2> QED
    BY <1>1, <1>7, <1>8, <2>6 DEF Aligned
<1> QED
  BY <1>3, <1>9, <1>10 DEF Reading

-----------------------------------------------------------------------------
(* The inductive invariant. *)

\* While the connection is, and all headers came whole and were understood.
CalmAligned == Calm /\ ~Ended => Aligned

\* A header that came whole is skipped only if there is no request in it, and then
\* the client waits forever.
Skipped == "skip" \in disturbed /\ disturbed \cap {"header", "read"} = {} => kind = "garbled"

SessionInv == Sound /\ CalmAligned /\ Skipped

LEMMA StepFacts ==
  ASSUME Sound, [Next]_vars
  PROVE  /\ disturbed \subseteq disturbed'
         /\ Ended => Ended'
         /\ "skip" \in disturbed' =>
               \/ "skip" \in disturbed
               \/ ReadFails /\ "read" \in disturbed'
               \/ Skip
         /\ kind' = kind \/ kind = "none" \/ Reply
<1>1. CASE UNCHANGED vars
  BY <1>1 DEF vars, clientVars, Ended
<1>2. ASSUME NEW k \in Kinds, NEW h, NEW b, Ask(k, h, b)
      PROVE  disturbed' = disturbed /\ stage' = stage /\ kind = "none"
  BY <1>2 DEF Ask
<1>3. ASSUME NEW n \in 1 .. Size(unsent), Send(n)
      PROVE  /\ disturbed \subseteq disturbed' /\ stage' = stage /\ kind' = kind
             /\ "skip" \in disturbed' => "skip" \in disturbed
  BY <1>3 DEF Send
<1>4. CASE Leave
  BY <1>4 DEF Leave, Ended
<1>5. CASE Selected \/ HangUp
  BY <1>5 DEF Selected, HangUp, Starts, Ended, clientVars
<1>6. CASE Reads
  BY <1>6 DEF Reads, Reading, Ended, clientVars
<1>7. CASE ReadsNothing
  BY <1>7 DEF ReadsNothing, Drained, Reading, Ended, clientVars
<1>8. CASE ReadFails
  BY <1>8 DEF ReadFails, Drained, Reading, Ended, clientVars
<1>9. CASE Refuse \/ ParseGet
  BY <1>9 DEF Refuse, ParseGet, Ended, clientVars
<1>10. CASE Skip
  BY <1>10 DEF Skip, Ended, clientVars
<1>11. ASSUME NEW n \in 0 .. request.body, ParsePost(n)
       PROVE  disturbed' = disturbed /\ ~Ended /\ kind' = kind
  BY <1>11 DEF ParsePost, Ended, clientVars
<1>12. CASE Reply
  BY <1>12 DEF Reply, Ended
<1>13. CASE ReplyError
  BY <1>13 DEF ReplyError, Ended, clientVars
<1> QED
  BY <1>1, <1>2, <1>3, <1>4, <1>5, <1>6, <1>7, <1>8, <1>9, <1>10, <1>11, <1>12, <1>13
     DEF Next, Client, Thread, Ended

LEMMA AlignedStep ==
  ASSUME Sound, Aligned, [Next]_vars, Calm', ~Ended'
  PROVE  Aligned'
<1>1. CASE UNCHANGED vars
  BY <1>1 DEF vars, clientVars, readVars, Aligned, Written, Ahead, Behind, Buffer, Within,
              Taken, Fresh
<1>2. ASSUME NEW k \in Kinds, NEW h \in Headers, NEW b \in Bodies,
             Ask(k, h, IF k = "get" THEN 0 ELSE b)
      PROVE  Aligned'
  BY <1>2, AlignedAsk, HttpAssumption
<1>3. ASSUME NEW n \in 1 .. Size(unsent), Send(n) PROVE Aligned'
  BY <1>3, AlignedSend
<1>4. CASE Leave
  BY <1>4, AlignedLeave
<1>5. CASE Selected
  BY <1>5, AlignedSelected
<1>6. ~HangUp /\ ~Refuse /\ ~ReplyError
  BY DEF HangUp, Refuse, ReplyError, Ended
<1>7. CASE Reads
  BY <1>7, AlignedReads
<1>8. CASE ReadsNothing
  BY <1>8, AlignedReadsNothing
<1>9. CASE ReadFails
  BY <1>9, AlignedReadFails
<1>10. ~Skip
  BY DEF Skip, Calm
<1>11. CASE ParseGet
  BY <1>11, AlignedParseGet
<1>12. ASSUME NEW n \in 0 .. request.body, ParsePost(n) PROVE Aligned'
  BY <1>12, AlignedParsePost
<1>13. CASE Reply
  BY <1>13, AlignedReply
<1> QED
  BY <1>1, <1>2, <1>3, <1>4, <1>5, <1>6, <1>7, <1>8, <1>9, <1>10, <1>11, <1>12, <1>13
     DEF Next, Client, Thread

LEMMA SkippedStep ==
  ASSUME SessionInv, [Next]_vars
  PROVE  Skipped'
<1> SUFFICES ASSUME "skip" \in disturbed', disturbed' \cap {"header", "read"} = {}
             PROVE  kind' = "garbled"
  BY DEF Skipped
<1>1. /\ disturbed \cap {"header", "read"} = {}
      /\ "skip" \in disturbed \/ Skip
      /\ kind' = kind \/ kind = "none" \/ Reply
  BY StepFacts DEF SessionInv
<1>2. CASE "skip" \in disturbed
  <2>1. kind = "garbled"
    BY <1>1, <1>2 DEF SessionInv, Skipped
  <2>2. ~Reply
    BY <2>1 DEF Reply, SessionInv, Sound, Shape
  <2> QED
    BY <1>1, <2>1, <2>2
<1>3. CASE "skip" \notin disturbed /\ Skip
  <2>1. stage = "parse" /\ (got.line > 0 => kind = "garbled") /\ kind' = kind
    BY <1>3 DEF Skip, clientVars
  <2>2. Calm /\ ~Ended
    BY <1>1, <1>3, <2>1 DEF Calm, Ended
  <2>3. got.line = 1
    BY <2>1, <2>2 DEF SessionInv, CalmAligned, Aligned, Buffer
  <2> QED
    BY <2>1, <2>3
<1> QED
  BY <1>1, <1>2, <1>3

LEMMA Inductive == SessionInv /\ [Next]_vars => SessionInv'
<1> SUFFICES ASSUME SessionInv, [Next]_vars PROVE SessionInv'
  OBVIOUS
<1>1. Sound'
  BY SoundStep DEF SessionInv
<1>2. CalmAligned'
  <2> SUFFICES ASSUME Calm', ~Ended' PROVE Aligned'
    BY DEF CalmAligned
  <2>1. Calm /\ ~Ended
    BY StepFacts DEF SessionInv, Calm
  <2> QED
    BY <2>1, AlignedStep DEF SessionInv, CalmAligned
<1>3. Skipped'
  BY SkippedStep
<1> QED
  BY <1>1, <1>2, <1>3 DEF SessionInv

LEMMA Invariant == Spec => []SessionInv
<1>1. Init => SessionInv
  <2>1. Init => Skipped
    BY DEF Init, Skipped
  <2> QED
    BY <2>1, InitSound, InitAligned DEF SessionInv, CalmAligned
<1> QED
  BY <1>1, Inductive, PTL DEF Spec

-----------------------------------------------------------------------------
(* Theorems. *)

\* The state of a session, and of the buffer a request is read into
\* (service_thread, read_incoming_bytes), stays well-typed.
THEOREM TypeCorrect == Spec => []TypeOK
<1>1. SessionInv => TypeOK
  BY DEF SessionInv, Sound
<1> QED
  BY <1>1, Invariant, PTL

\* What service_thread hands to handle_request is the body that was sent, all of
\* it and no more, for headers and bodies of any length, cut into records in any
\* way that leaves the header in one with all of the body or nothing, as long as
\* no read fails.
THEOREM Framing == Spec => []Framed
<1>1. SessionInv => Framed
  <2> SUFFICES ASSUME SessionInv, stage = "handle",
                      disturbed \cap {"header", "body", "read"} = {}
               PROVE  Whole
    BY DEF Framed
  <2>1. kind \in {"post", "get"} /\ got \in Parts
    BY DEF SessionInv, Sound, Shape, TypeOK
  <2>2. Calm /\ ~Ended
    BY <2>1 DEF SessionInv, Skipped, Calm, Ended
  <2>3. CASE kind = "post"
    <3>1. Plain(got) /\ got.body = request.body
      BY <2>2, <2>3 DEF SessionInv, CalmAligned, Aligned, Buffer
    <3>2. got = [Nothing EXCEPT !.body = request.body]
      BY <2>1, <3>1 DEF Plain, Nothing, Parts
    <3> QED
      BY <3>2 DEF Whole
  <2>4. CASE kind = "get"
    BY <2>4 DEF Whole
  <2> QED
    BY <2>1, <2>3, <2>4
<1> QED
  BY <1>1, Invariant, PTL

\* When service_thread puts a connection back to those that select watches,
\* SSL holds nothing of what it read, and what waits in the socket begins with the
\* header of the next request; for any lengths and any records, as long as each
\* header came in one and parse_header understood it.
THEOREM Stepping == Spec => []InStep
<1>1. SessionInv => InStep
  <2> SUFFICES ASSUME SessionInv, stage = "select", disturbed \cap {"header", "skip"} = {}
               PROVE  /\ record = Nothing
                      /\ arrived # <<>> => kind # "none" /\ Head(arrived).line > 0
    BY DEF InStep
  <2>1. Aligned /\ Fresh /\ arrived \in Seq(Parts)
    BY SoundFields DEF SessionInv, CalmAligned, Calm, Ended, Fresh
  <2>2. record = Nothing
    BY <2>1 DEF Aligned, Ahead
  <2>3. ASSUME arrived # <<>> PROVE kind # "none" /\ Head(arrived).line > 0
    <3>1. kind # "none" /\ Plain(unsent)
      BY <2>1, <2>3 DEF Aligned, Written
    <3>2. arrived[1].line = 1
      BY <2>1, <2>3, <3>1 DEF Aligned, Ahead
    <3>3. Head(arrived) = arrived[1]
      BY <2>1, <2>3
    <3> QED
      BY <3>1, <3>2, <3>3
  <2> QED
    BY <2>2, <2>3
<1> QED
  BY <1>1, Invariant, PTL

=============================================================================
